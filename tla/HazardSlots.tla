----------------------------- MODULE HazardSlots -----------------------------
(***************************************************************************)
(* The hazard slots of ListenerStore: how a thread's dispatchHazardToken_  *)
(* gets a slot when it first dispatches and gives it back when the thread  *)
(* ends.  Free slots are on a lock-free list (popTreiberFreelist and       *)
(* pushTreiberFreelist); every load and every compare-and-swap on it is a  *)
(* step of its thread, and atomics are sequentially consistent here.       *)
(*                                                                         *)
(* The loops that raise nextDispatchHazardSlot_ and the published count    *)
(* are one step each: a failed turn of theirs only reads the value again.  *)
(***************************************************************************)
EXTENDS Naturals

CONSTANTS
    Threads,
    NumSlots,       \* kDispatchHazardSlotCount
    MaxReturns,     \* bound: how often a slot is given back
    None

ASSUME SlotConstants ==
    /\ NumSlots \in Nat /\ MaxReturns \in Nat
    /\ None \notin Threads /\ None \notin Nat

Slots == 0..(NumSlots - 1)

VARIABLES
    slot,       \* per thread, dispatchHazardToken_ (None: no slot)
    stage,      \* per thread, how far acquire or release has come
    seen,       \* per thread, the head it loaded (current)
    link,       \* per thread, the successor it loaded (next)
    freeHead,   \* dispatchHazardFreelistHead_: generation and slot
    nextFree,   \* dispatchHazardNextFree_
    generation, \* dispatchHazardGeneration_
    nextSlot,   \* nextDispatchHazardSlot_
    published   \* publishedDispatchHazardSlots_

slotVars == <<slot, stage, seen, link, freeHead, nextFree, generation, nextSlot, published>>

Empty == [gen |-> 0, slot |-> None]
Stages == {"idle", "next", "swap", "new", "count", "link", "push"}

SlotInit ==
    /\ slot = [t \in Threads |-> None]
    /\ stage = [t \in Threads |-> "idle"]
    /\ seen = [t \in Threads |-> Empty]
    /\ link = [t \in Threads |-> None]
    /\ freeHead = Empty
    /\ nextFree = [s \in Slots |-> 0]
    /\ generation = [s \in Slots |-> 0]
    /\ nextSlot = 0 /\ published = 0

-----------------------------------------------------------------------------
(* acquireDispatchHazardSlot_: pop a recycled slot, else take a new one.   *)

\* The loop test of popTreiberFreelist, on the head just loaded.
PopFrom(t) ==
    /\ seen' = [seen EXCEPT ![t] = freeHead]
    /\ link' = [link EXCEPT ![t] = None]
    /\ stage' = [stage EXCEPT ![t] = IF freeHead.slot = None THEN "new" ELSE "next"]

LoadHead(t) ==
    /\ stage[t] = "idle" /\ slot[t] = None
    /\ PopFrom(t)
    /\ UNCHANGED <<slot, freeHead, nextFree, generation, nextSlot, published>>

LoadNext(t) ==
    /\ stage[t] = "next"
    /\ link' = [link EXCEPT ![t] = nextFree[seen[t].slot]]
    /\ stage' = [stage EXCEPT ![t] = "swap"]
    /\ UNCHANGED <<slot, seen, freeHead, nextFree, generation, nextSlot, published>>

\* The slot is taken and thread t is done.
Popped(t) ==
    /\ freeHead' = [gen |-> 0, slot |-> link[t]]
    /\ slot' = [slot EXCEPT ![t] = seen[t].slot]
    /\ seen' = [seen EXCEPT ![t] = Empty]
    /\ link' = [link EXCEPT ![t] = None]
    /\ stage' = [stage EXCEPT ![t] = "idle"]

\* The compare-and-swap writes the successor alone, so generation 0; if it
\* fails (also spuriously: it is the weak form) it has loaded the head again.
PopSlot(t) ==
    /\ stage[t] = "swap"
    /\ \/ freeHead = seen[t] /\ Popped(t)
       \/ PopFrom(t) /\ UNCHANGED <<slot, freeHead>>
    /\ UNCHANGED <<nextFree, generation, nextSlot, published>>

\* Mutant: the table is taken to have one slot more.
NewSlotOneMore(t) ==
    /\ stage[t] = "new"
    /\ nextSlot <= NumSlots
    /\ slot' = [slot EXCEPT ![t] = nextSlot]
    /\ nextSlot' = nextSlot + 1
    /\ stage' = [stage EXCEPT ![t] = "count"]
    /\ UNCHANGED <<seen, link, freeHead, nextFree, generation, published>>

\* No recycled slot: a new one, or none if all were given out.
NewSlot(t) ==
    /\ stage[t] = "new"
    /\ \/ /\ nextSlot < NumSlots
          /\ slot' = [slot EXCEPT ![t] = nextSlot]
          /\ nextSlot' = nextSlot + 1
          /\ stage' = [stage EXCEPT ![t] = "count"]
       \/ /\ nextSlot >= NumSlots
          /\ stage' = [stage EXCEPT ![t] = "idle"]
          /\ UNCHANGED <<slot, nextSlot>>
    /\ UNCHANGED <<seen, link, freeHead, nextFree, generation, published>>

\* publishHazardSlotCount_.
PublishSlotCount(t) ==
    /\ stage[t] = "count"
    /\ published' = IF published < slot[t] + 1 THEN slot[t] + 1 ELSE published
    /\ stage' = [stage EXCEPT ![t] = "idle"]
    /\ UNCHANGED <<slot, seen, link, freeHead, nextFree, generation, nextSlot>>

Acquire(t) == LoadHead(t) \/ LoadNext(t) \/ PopSlot(t) \/ NewSlot(t) \/ PublishSlotCount(t)

-----------------------------------------------------------------------------
(* releaseDispatchHazardSlot_, from the destructor of the thread's token.  *)

ReleaseSlot(t) ==
    /\ stage[t] = "idle" /\ slot[t] # None
    /\ generation[slot[t]] < MaxReturns
    /\ generation' = [generation EXCEPT ![slot[t]] = @ + 1]
    /\ seen' = [seen EXCEPT ![t] = freeHead]
    /\ stage' = [stage EXCEPT ![t] = "link"]
    /\ UNCHANGED <<slot, link, freeHead, nextFree, nextSlot, published>>

LinkSlot(t) ==
    /\ stage[t] = "link"
    /\ nextFree' = [nextFree EXCEPT ![slot[t]] = seen[t].slot]
    /\ stage' = [stage EXCEPT ![t] = "push"]
    /\ UNCHANGED <<slot, seen, link, freeHead, generation, nextSlot, published>>

\* The slot is on the list and thread t is done.
Pushed(t) ==
    /\ freeHead' = [gen |-> generation[slot[t]], slot |-> slot[t]]
    /\ slot' = [slot EXCEPT ![t] = None]
    /\ seen' = [seen EXCEPT ![t] = Empty]
    /\ stage' = [stage EXCEPT ![t] = "idle"]

PushSlot(t) ==
    /\ stage[t] = "push"
    /\ \/ freeHead = seen[t] /\ Pushed(t)
       \/ /\ seen' = [seen EXCEPT ![t] = freeHead]
          /\ stage' = [stage EXCEPT ![t] = "link"]
          /\ UNCHANGED <<slot, freeHead>>
    /\ UNCHANGED <<link, nextFree, generation, nextSlot, published>>

Recycle(t) == LinkSlot(t) \/ PushSlot(t)

SlotNext == \E t \in Threads : Acquire(t) \/ ReleaseSlot(t) \/ Recycle(t)

SlotSpec == SlotInit /\ [][SlotNext]_slotVars

-----------------------------------------------------------------------------

\* The condition under which the list can be relied on: no thread gives its slot
\* back while another is between the load and the swap of a pop.
Calm ==
    \A t, u \in Threads :
        stage[t] \in {"next", "swap"} => stage[u] \notin {"link", "push"}

\* The behaviours in which Calm always holds.
CalmSpec == SlotInit /\ [][SlotNext /\ Calm']_slotVars

-----------------------------------------------------------------------------

\* The slots are slots of the table, and no more are given out or published
\* than it has.
SlotsTyped ==
    /\ slot \in [Threads -> Slots \union {None}]
    /\ stage \in [Threads -> Stages]
    /\ seen \in [Threads -> [gen : Nat, slot : Slots \union {None}]]
    /\ link \in [Threads -> Slots \union {None}]
    /\ freeHead \in [gen : Nat, slot : Slots \union {None}]
    /\ nextFree \in [Slots -> Slots \union {0, None}]
    /\ generation \in [Slots -> Nat]
    /\ nextSlot \in 0..NumSlots /\ published \in 0..NumSlots

\* Two threads never have the same hazard slot: what one protects in it the
\* other would overwrite ("ABA-safe", says the comment of the freelist).
SlotsExclusive ==
    \A t, u \in Threads : t # u /\ slot[t] # None => slot[t] # slot[u]

\* Slots given out that no thread has.
Free == {s \in 0..(nextSlot - 1) : \A t \in Threads : slot[t] # s}

\* S holds the head of the freelist and, with a slot, its successor.
HoldsFreelist(S) ==
    /\ freeHead.slot # None => freeHead.slot \in S
    /\ \A s \in S : nextFree[s] # None => nextFree[s] \in S

\* No slot is lost: one that no thread has is reached from the head of the
\* freelist, so threads that come and go never use up the table.
SlotsRecycled == \A S \in SUBSET Slots : HoldsFreelist(S) => Free \subseteq S
=============================================================================
