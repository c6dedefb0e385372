---------------------------- MODULE SharedBeans ----------------------------
(***************************************************************************)
(* What resolve() promises its callers, with no word on how threads share  *)
(* the work: shared beans come into being one at a time, each once and     *)
(* after the beans injected in it; a call is answered with a bean that     *)
(* exists, and is refused only when something reachable from the bean can  *)
(* fail.  Materialization implements this.                                 *)
(***************************************************************************)
CONSTANTS
    Threads, Keys,
    Shared,         \* the keys whose bean is created once and kept
    Needs,          \* Needs[k]: the keys injected in k
    MayFail,        \* keys whose creation can end with an exception
    Idle            \* no key

VARIABLES
    present,        \* shared beans that exist
    call,           \* the key a thread is asking for, or Idle
    answer          \* how the last call of a thread ended

vars == <<present, call, answer>>

Init ==
    /\ present = {}
    /\ call = [t \in Threads |-> Idle]
    /\ answer = [t \in Threads |-> "none"]

Request(t, k) ==
    /\ call[t] = Idle
    /\ call' = [call EXCEPT ![t] = k]
    /\ UNCHANGED <<present, answer>>

Create(k) ==
    /\ k \in Shared \ present
    /\ Needs[k] \cap Shared \subseteq present
    /\ \E t \in Threads : call[t] # Idle
    /\ present' = present \union {k}
    /\ UNCHANGED <<call, answer>>

Answer(t) ==
    /\ call[t] # Idle
    /\ call[t] \in Shared => call[t] \in present
    /\ call' = [call EXCEPT ![t] = Idle]
    /\ answer' = [answer EXCEPT ![t] = "bean"]
    /\ UNCHANGED present

Refuse(t) ==
    /\ call[t] \in MayFail
    /\ call' = [call EXCEPT ![t] = Idle]
    /\ answer' = [answer EXCEPT ![t] = "error"]
    /\ UNCHANGED present

Next ==
    \/ \E t \in Threads : (\E k \in Keys : Request(t, k)) \/ Answer(t) \/ Refuse(t)
    \/ \E k \in Keys : Create(k)

Spec == Init /\ [][Next]_vars
=============================================================================
