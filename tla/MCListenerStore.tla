--------------------------- MODULE MCListenerStore ---------------------------
(***************************************************************************)
(* Small instances of ListenerStore: a typed root listener, a global root  *)
(* listener of the same priority, and a more urgent one of a scope; or two *)
(* typed ones of the root, two of a scope and a global one, all alike.     *)
(***************************************************************************)
EXTENDS ListenerStore

CONSTANTS typed, typed2, global, scoped, scoped2, root, scope

Three == {typed, global, scoped}
PrioThree == [l \in Three |-> IF l = scoped THEN 1 ELSE 0]
ScopeThree == [l \in Three |-> IF l = scoped THEN scope ELSE AllScopes]

Two == {typed, global}
PrioTwo == [l \in Two |-> 0]
ScopeTwo == [l \in Two |-> AllScopes]

Five == {typed, typed2, global, scoped, scoped2}
PrioFive == [l \in Five |-> 0]
ScopeFive == [l \in Five |-> IF l \in {scoped, scoped2} THEN scope ELSE AllScopes]
=============================================================================
