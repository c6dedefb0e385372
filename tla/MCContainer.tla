---------------------------- MODULE MCContainer ----------------------------
(***************************************************************************)
(* Small programs for Container: one whose tables change (an alias and     *)
(* runtime bindings), one with names and defaults, one with a tie, one     *)
(* whose contributions are rejected, one whose eager beans throw, one with *)
(* threads.                                                                *)
(***************************************************************************)
EXTENDS Container

CONSTANTS a, b, c, p, q, n, alt, w1, w2, main, ctx, unnamed

Bean(id, type, name, prio, life, lazy) ==
    [id |-> id, type |-> type, concrete |-> type, name |-> name, prio |-> prio, life |-> life,
     lazy |-> lazy, alias |-> NoId, factory |-> NoId, inject |-> {}]

BindKey(type, name, prio) == [type |-> type, name |-> name, prio |-> prio]
Ask(type, name) == [type |-> type, name |-> name]

Plain == Bean(1, a, Unnamed, 0, "singleton", TRUE)
Alias == [Bean(2, b, Unnamed, 0, "singleton", TRUE) EXCEPT !.concrete = a, !.alias = 1]
Named == Bean(3, a, n, 0, "singleton", FALSE)

Tables ==
    [spans |-> {<<Plain, Alias>>, <<Named>>},
     binds |-> {BindKey(a, Unnamed, 5), BindKey(c, Unnamed, 0)},
     asks |-> {Ask(b, Unnamed)}, looks |-> {Ask(a, Unnamed), Ask(c, Unnamed)},
     defaults |-> {}, throws |-> {}, threads |-> {}]

Defaults ==
    [spans |-> {<<Plain, Named>>}, binds |-> {BindKey(a, n, 5), BindKey(c, n, 0)},
     asks |-> {}, looks |-> {Ask(a, Unnamed)},
     defaults |-> {Ask(a, n), Ask(a, alt), Ask(c, n)}, throws |-> {}, threads |-> {}]

Ties ==
    [spans |-> {<<Plain, Bean(4, a, Unnamed, 0, "singleton", TRUE)>>},
     binds |-> {BindKey(a, Unnamed, 5), BindKey(a, Unnamed, 7)}, asks |-> {}, looks |-> {Ask(a, Unnamed)},
     defaults |-> {}, throws |-> {}, threads |-> {}]

Product(id) == [Bean(id, b, Unnamed, id, "prototype", TRUE) EXCEPT !.factory = 1]
Session == Bean(7, c, Unnamed, 0, "session", TRUE)
Inject(id, type, scoped) ==
    [Bean(id, b, Unnamed, 0, "singleton", TRUE) EXCEPT !.inject = {[type |-> type, name |-> Unnamed, scoped |-> scoped]}]

Rejected ==
    [spans |-> {<<Plain>>, <<[Plain EXCEPT !.life = "prototype"]>>, <<Alias>>, <<Product(5)>>,
                <<Product(5), Product(6)>>, <<Session, Inject(8, c, FALSE)>>, <<Plain, Inject(9, a, TRUE)>>},
     binds |-> {BindKey(a, Unnamed, 0), BindKey(c, Unnamed, 9)}, asks |-> {}, looks |-> {},
     defaults |-> {}, throws |-> {}, threads |-> {}]

Eagers ==
    [spans |-> {<<Bean(1, a, Unnamed, 0, "singleton", FALSE), Bean(2, b, Unnamed, 5, "singleton", FALSE),
                  Bean(3, b, Unnamed, 7, "singleton", FALSE)>>},
     binds |-> {BindKey(c, Unnamed, 0)},
     asks |-> {Ask(a, Unnamed), Ask(b, Unnamed), Ask(c, Unnamed)}, looks |-> {},
     defaults |-> {}, throws |-> {"bean"}, threads |-> {}]

Workers ==
    [spans |-> {<<Bean(1, a, Unnamed, 0, "singleton", FALSE), Bean(2, p, Unnamed, 0, "threadLocal", TRUE),
                  Bean(3, q, Unnamed, 0, "threadLocal", TRUE)>>},
     binds |-> {}, asks |-> {}, looks |-> {}, defaults |-> {}, throws |-> {"local"}, threads |-> {w1, w2}]

ScopedParam ==
    [spans |-> {<<Session, Bean(6, c, n, 0, "session", TRUE), Inject(8, c, TRUE)>>},
     binds |-> {}, asks |-> {}, looks |-> {}, defaults |-> {Ask(c, n)}, throws |-> {}, threads |-> {}]

Programs == {Tables, Defaults, Ties, Rejected, Eagers, Workers}
OnlyWorkers == {Workers}
OnlyScoped == {ScopedParam}

\* The hypothesis of the theorems on the selection holds of these programs.
ASSUME Unrivalled == ContextUnrivalled

Symmetry == Permutations({w1, w2})
LocalUses == [x \in {p, q} |-> IF x = p THEN {q} ELSE {}]
=============================================================================
