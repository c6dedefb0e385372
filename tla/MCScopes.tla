------------------------------ MODULE MCScopes ------------------------------
(***************************************************************************)
(* A small instance of Scopes: a document, its history, which has the      *)
(* document injected, and one kind of binding.                             *)
(***************************************************************************)
EXTENDS Scopes

CONSTANTS doc, history

Order == <<history, doc>>
DocDeps == [b \in {doc, history} |-> IF b = history THEN {doc} ELSE {}]
=============================================================================
