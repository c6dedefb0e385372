------------------------- MODULE MCMaterialization -------------------------
(***************************************************************************)
(* Dependency graphs on which Materialization is checked.  A graph is a    *)
(* function from keys to the sequence of keys a constructor or a hook      *)
(* resolves; the .cfg files pick one.                                      *)
(***************************************************************************)
EXTENDS Materialization, TLC

CONSTANTS a, b, c, p

Edges(f) == [k \in Keys |-> IF k \in DOMAIN f THEN f[k] ELSE <<>>]

None == Edges(<<>>)

\* Two beans over a shared one, one of them through a prototype.
Diamond == Edges((a :> <<b, p>>) @@ (b :> <<c>>) @@ (p :> <<c>>))
DiamondHooks == Edges(c :> <<>> @@ b :> <<c>>)

\* a -> b -> p -> c -> a: a cycle, through a prototype, that three threads can
\* close together.
Ring == Edges((a :> <<b>>) @@ (b :> <<p>>) @@ (p :> <<c>>) @@ (c :> <<a>>))

\* Every key is a descriptor of its own, all in one registry.
OwnDesc == [k \in Keys |-> k]
OneRegistry == [k \in Keys |-> 1]

\* Two contexts that discovered the same types: equal descriptor ids.
SameDesc == [k \in Keys |-> 0]
OwnRegistry == [k \in Keys |-> k]
CrossContext == Edges(a :> <<b>>)
=============================================================================
