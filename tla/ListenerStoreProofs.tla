-------------------------- MODULE ListenerStoreProofs --------------------------
(***************************************************************************)
(* Proofs about HazardSlots and ListenerStore, for any number of threads,  *)
(* listeners and hazard slots.  Of the slots: they stay exclusive, and     *)
(* none is lost, as long as no thread gives one back inside another's pop. *)
(* Of the store: type correctness; under the hypothesis that slots are     *)
(* exclusive, the bound on retired views and, when no callback dispatches  *)
(* in turn, that a view outlives the dispatches that read it; and, with no *)
(* hypothesis, the order in which listeners hear an event, and which must  *)
(* and must not hear it.                                                   *)
(*                                                                         *)
(* The inductive invariant comes in layers, each proved with the help of   *)
(* Structure (types, frames, mutex and slots agree): Protection (hazard    *)
(* slots against the scan) and Retention (why a retired view is still      *)
(* there).  What is delivered needs three more: Listing (the master list,  *)
(* the deferred listeners and every view are in order and without          *)
(* repetition, and the published view is the master list unless an edit is *)
(* under way), Hearing (a dispatch has heard what its view holds before    *)
(* its index) and Delivery (a listener due to a dispatch is in its view).  *)
(***************************************************************************)
EXTENDS ListenerStore, FiniteSetTheorems, SequenceTheorems, WellFoundedInduction, TLAPS

-----------------------------------------------------------------------------
(* The table of hazard slots, by itself.                                   *)

\* Every slot that is owned, or that a thread may find on the freelist, was given
\* out, and its number is published unless its owner is about to do so.
SlotsKnown ==
    /\ SlotsTyped
    /\ published <= nextSlot
    /\ freeHead.slot # None => freeHead.slot < published
    /\ \A s \in Slots : nextFree[s] \notin {0, None} => nextFree[s] < published
    /\ \A t \in Threads :
        /\ slot[t] # None => slot[t] < nextSlot
        /\ slot[t] # None => slot[t] < published \/ stage[t] = "count"
        /\ stage[t] \in {"next", "swap", "new"} => slot[t] = None
        /\ stage[t] \in {"count", "link", "push"} => slot[t] # None
        /\ stage[t] \in {"next", "swap"} => seen[t].slot # None
        /\ seen[t].slot # None => seen[t].slot < published
        /\ link[t] # None => link[t] < published

\* Slots are numbers below NumSlots, and None is none of them.
LEMMA SlotNumbers ==
    /\ NumSlots \in Nat /\ None \notin Nat /\ Slots \subseteq Nat /\ None \notin Slots
    /\ \A s \in Slots : s < NumSlots
BY SlotConstants DEF Slots

\* No slot is given out at first.
LEMMA SlotsKnownInit == SlotInit => SlotsKnown
BY SlotNumbers DEF SlotInit, SlotsKnown, SlotsTyped, Empty, Stages, Slots

\* The steps of acquire() and release() only pass on slots that are known.
LEMMA SlotsKnownStep == SlotsKnown /\ [SlotNext]_slotVars => SlotsKnown'
<1> SUFFICES ASSUME SlotsKnown, [SlotNext]_slotVars PROVE SlotsKnown'
  OBVIOUS
<1>n. NumSlots \in Nat /\ None \notin Nat /\ Slots \subseteq Nat /\ None \notin Slots
      /\ \A s \in Slots : s < NumSlots
  BY SlotNumbers
<1>1. ASSUME NEW t \in Threads, LoadHead(t) PROVE SlotsKnown'
  <2>1. SlotsTyped'
    BY <1>1 DEF LoadHead, PopFrom, SlotsKnown, SlotsTyped, Stages
  <2> QED
    BY <1>1, <2>1 DEF LoadHead, PopFrom, SlotsKnown, SlotsTyped, Stages
<1>2. ASSUME NEW t \in Threads, LoadNext(t) PROVE SlotsKnown'
  <2>0. seen[t].slot \in Slots /\ seen[t].slot < published /\ published \in Nat
    BY <1>2 DEF LoadNext, SlotsKnown, SlotsTyped
  <2>1. nextFree[seen[t].slot] \in Slots \union {None}
        /\ (nextFree[seen[t].slot] # None => nextFree[seen[t].slot] < published)
    BY <1>n, <2>0 DEF SlotsKnown, SlotsTyped, Slots
  <2>2. SlotsTyped'
    BY <1>2, <2>1 DEF LoadNext, SlotsKnown, SlotsTyped, Stages
  <2> QED
    BY <1>2, <2>1, <2>2 DEF LoadNext, SlotsKnown, SlotsTyped
<1>3. ASSUME NEW t \in Threads, PopSlot(t) PROVE SlotsKnown'
  <2>1. CASE freeHead = seen[t] /\ Popped(t)
    <3>1. SlotsTyped'
      BY <1>3, <2>1 DEF PopSlot, Popped, SlotsKnown, SlotsTyped, Stages, Empty
    <3>2. /\ seen[t].slot \in Slots /\ seen[t].slot < published /\ seen[t].slot < nextSlot
          /\ link[t] # None => link[t] < published
      <4>1. stage[t] = "swap" /\ seen[t] \in [gen : Nat, slot : Slots \union {None}]
        BY <1>3 DEF PopSlot, SlotsKnown, SlotsTyped
      <4>2. seen[t].slot \in Slots /\ seen[t].slot < published /\ published <= nextSlot
            /\ (link[t] # None => link[t] < published)
        BY <4>1 DEF SlotsKnown
      <4>3. published \in Nat /\ nextSlot \in Nat
        BY <1>n DEF SlotsKnown, SlotsTyped
      <4>4. seen[t].slot \in Nat
        BY <1>n, <4>2
      <4>5. seen[t].slot < nextSlot
        BY <4>2, <4>3, <4>4
      <4> QED
        BY <4>2, <4>5
    <3>3. /\ freeHead'.slot = link[t] /\ UNCHANGED <<nextFree, nextSlot, published>>
          /\ slot'[t] = seen[t].slot /\ stage'[t] = "idle" /\ seen'[t].slot = None
          /\ link'[t] = None
          /\ \A u \in Threads \ {t} : /\ slot'[u] = slot[u] /\ stage'[u] = stage[u]
                                     /\ seen'[u] = seen[u] /\ link'[u] = link[u]
      BY <1>3, <2>1 DEF PopSlot, Popped, Empty, SlotsKnown, SlotsTyped
    <3> QED
      BY <3>1, <3>2, <3>3 DEF SlotsKnown
  <2>2. CASE PopFrom(t) /\ UNCHANGED <<slot, freeHead>>
    <3>1. SlotsTyped'
      BY <1>3, <2>2 DEF PopSlot, PopFrom, SlotsKnown, SlotsTyped, Stages
    <3> QED
      BY <1>3, <2>2, <3>1 DEF PopSlot, PopFrom, SlotsKnown, SlotsTyped, Stages
  <2> QED
    BY <1>3, <2>1, <2>2 DEF PopSlot
<1>4. ASSUME NEW t \in Threads, NewSlot(t) PROVE SlotsKnown'
  <2>1. CASE nextSlot < NumSlots
    <3>0. nextSlot \in Slots
      BY <1>n, <2>1 DEF SlotsKnown, SlotsTyped, Slots
    <3>1. SlotsTyped'
      <4>1. nextSlot \in 0..NumSlots /\ nextSlot \in Nat /\ SlotsTyped
        BY <1>n DEF SlotsKnown, SlotsTyped
      <4>2. /\ slot' = [slot EXCEPT ![t] = nextSlot] /\ nextSlot' = nextSlot + 1
            /\ stage' = [stage EXCEPT ![t] = "count"]
            /\ UNCHANGED <<seen, link, freeHead, nextFree, generation, published>>
        BY <1>n, <1>4, <2>1, <4>1 DEF NewSlot
      <4>3. nextSlot' \in 0..NumSlots
        BY <1>n, <2>1, <4>1, <4>2
      <4>4. slot' \in [Threads -> Slots \union {None}] /\ stage' \in [Threads -> Stages]
        BY <3>0, <4>1, <4>2 DEF SlotsTyped, Stages
      <4> QED
        BY <4>1, <4>2, <4>3, <4>4 DEF SlotsTyped
    <3>2. /\ slot'[t] = nextSlot /\ stage'[t] = "count" /\ nextSlot' = nextSlot + 1
          /\ UNCHANGED <<seen, link, freeHead, nextFree, published>>
          /\ \A u \in Threads \ {t} : slot'[u] = slot[u] /\ stage'[u] = stage[u]
      <4>1. /\ slot' = [slot EXCEPT ![t] = nextSlot] /\ nextSlot' = nextSlot + 1
            /\ stage' = [stage EXCEPT ![t] = "count"]
            /\ UNCHANGED <<seen, link, freeHead, nextFree, published>>
        <5>1. nextSlot \in Nat
          BY <1>n DEF SlotsKnown, SlotsTyped
        <5> QED
          BY <1>n, <1>4, <2>1, <5>1 DEF NewSlot
      <4> QED
        BY <4>1 DEF SlotsKnown, SlotsTyped
    <3>3. \A u \in Threads : slot[u] # None => slot[u] \in Nat
      BY <1>n DEF SlotsKnown, SlotsTyped
    <3>4. stage[t] = "new" /\ nextSlot \in Nat /\ published \in Nat
      BY <1>4 DEF NewSlot, SlotsKnown, SlotsTyped
    <3>5. \A u \in Threads : slot'[u] # None => slot'[u] < nextSlot'
      BY <3>2, <3>3, <3>4 DEF SlotsKnown
    <3>6. published' <= nextSlot'
      BY <3>2, <3>4 DEF SlotsKnown
    <3>7. slot'[t] # None
      BY <1>n, <3>2, <3>4
    <3> QED
      BY <3>1, <3>2, <3>4, <3>5, <3>6, <3>7 DEF SlotsKnown
  <2>2. CASE ~(nextSlot < NumSlots)
    <3>1. SlotsTyped'
      BY <1>n, <1>4, <2>2 DEF NewSlot, SlotsKnown, SlotsTyped, Stages
    <3> QED
      BY <1>n, <1>4, <2>2, <3>1 DEF NewSlot, SlotsKnown, SlotsTyped
  <2> QED
    BY <2>1, <2>2
<1>5. ASSUME NEW t \in Threads, PublishSlotCount(t) PROVE SlotsKnown'
  <2>0. slot[t] \in Slots /\ slot[t] < nextSlot /\ published' \in 0..NumSlots
        /\ published <= published' /\ slot[t] < published' /\ published' <= nextSlot
    <3>1. slot[t] \in Slots /\ slot[t] < nextSlot /\ slot[t] \in Nat
      BY <1>n, <1>5 DEF PublishSlotCount, SlotsKnown, SlotsTyped
    <3>2. /\ published \in 0..NumSlots /\ nextSlot \in 0..NumSlots /\ published <= nextSlot
          /\ published' = IF published < slot[t] + 1 THEN slot[t] + 1 ELSE published
      BY <1>5 DEF PublishSlotCount, SlotsKnown, SlotsTyped
    <3> QED
      BY <1>n, <3>1, <3>2
  <2>1. SlotsTyped'
    BY <1>n, <1>5, <2>0 DEF PublishSlotCount, SlotsKnown, SlotsTyped, Stages
  <2>2. /\ UNCHANGED <<slot, seen, link, freeHead, nextFree, nextSlot>> /\ stage'[t] = "idle"
        /\ \A u \in Threads \ {t} : stage'[u] = stage[u]
    BY <1>5 DEF PublishSlotCount, SlotsKnown, SlotsTyped
  <2>3. \A x \in Slots : x < published => x < published'
    BY <1>n, <2>0 DEF SlotsKnown, SlotsTyped
  <2>4. \A u \in Threads : slot[u] \in Slots \union {None} /\ seen[u].slot \in Slots \union {None}
                          /\ link[u] \in Slots \union {None}
    BY DEF SlotsKnown, SlotsTyped
  <2>5. freeHead.slot \in Slots \union {None}
        /\ \A x \in Slots : nextFree[x] \notin {0, None} => nextFree[x] \in Slots
    BY DEF SlotsKnown, SlotsTyped
  <2> QED
    BY <2>0, <2>1, <2>2, <2>3, <2>4, <2>5 DEF SlotsKnown
<1>6. ASSUME NEW t \in Threads, ReleaseSlot(t) PROVE SlotsKnown'
  <2>1. SlotsTyped'
    BY <1>6 DEF ReleaseSlot, SlotsKnown, SlotsTyped, Stages
  <2> QED
    BY <1>6, <2>1 DEF ReleaseSlot, SlotsKnown, SlotsTyped
<1>7. ASSUME NEW t \in Threads, LinkSlot(t) PROVE SlotsKnown'
  <2>1. SlotsTyped'
    BY <1>7 DEF LinkSlot, SlotsKnown, SlotsTyped, Stages
  <2> QED
    BY <1>7, <2>1 DEF LinkSlot, SlotsKnown, SlotsTyped
<1>8. ASSUME NEW t \in Threads, PushSlot(t) PROVE SlotsKnown'
  <2>0. slot[t] \in Slots /\ slot[t] < published /\ generation[slot[t]] \in Nat
    BY <1>8 DEF PushSlot, SlotsKnown, SlotsTyped
  <2>1. CASE freeHead = seen[t] /\ Pushed(t)
    <3>1. SlotsTyped'
      BY <1>8, <2>0, <2>1 DEF PushSlot, Pushed, SlotsKnown, SlotsTyped, Stages, Empty
    <3> QED
      BY <1>8, <2>0, <2>1, <3>1 DEF PushSlot, Pushed, SlotsKnown, SlotsTyped, Empty
  <2>2. CASE /\ seen' = [seen EXCEPT ![t] = freeHead]
             /\ stage' = [stage EXCEPT ![t] = "link"]
             /\ UNCHANGED <<slot, freeHead>>
    <3>1. SlotsTyped'
      BY <1>8, <2>2 DEF PushSlot, SlotsKnown, SlotsTyped, Stages
    <3> QED
      BY <1>8, <2>2, <3>1 DEF PushSlot, SlotsKnown, SlotsTyped
  <2> QED
    BY <1>8, <2>1, <2>2 DEF PushSlot
<1>9. CASE UNCHANGED slotVars
  BY <1>9 DEF slotVars, SlotsKnown, SlotsTyped
<1> QED
  BY <1>1, <1>2, <1>3, <1>4, <1>5, <1>6, <1>7, <1>8, <1>9 DEF SlotNext, Acquire, Recycle

\* What does not touch the slots leaves them known,
LEMMA KnownStay == SlotsKnown /\ UNCHANGED slotVars => SlotsKnown'
BY SlotsKnownStep

\* and well typed.
LEMMA TypedStay == SlotsTyped /\ UNCHANGED slotVars => SlotsTyped'
BY DEF SlotsTyped, slotVars

\* What the freelist is while Calm holds: its links lead from free slot to free
\* slot and never two of them, or the head, to the same one; a popper that holds
\* a stale head holds that of a slot taken since; a slot about to be pushed is
\* linked to the head its owner saw.
Linked ==
    /\ freeHead.slot # None => freeHead.slot \in Free
    /\ \A s \in Free : nextFree[s] # None =>
        /\ nextFree[s] \in Free /\ nextFree[s] # freeHead.slot
        /\ \A r \in Free : nextFree[r] = nextFree[s] => r = s

Popping ==
    \A t \in Threads :
        /\ stage[t] \in {"next", "swap"} => seen[t] = freeHead \/ seen[t].slot \notin Free
        /\ stage[t] = "swap" /\ seen[t] = freeHead => link[t] = nextFree[seen[t].slot]
        /\ stage[t] = "push" => nextFree[slot[t]] = seen[t].slot

FreelistExact == SlotsExclusive /\ Linked /\ Popping /\ SlotsRecycled

\* The freelist is empty at first.
LEMMA FreelistInit == SlotInit => FreelistExact
<1> SUFFICES ASSUME SlotInit PROVE FreelistExact
  OBVIOUS
<1>1. Free = {}
  BY DEF SlotInit, Free
<1> QED
  BY <1>1 DEF SlotInit, FreelistExact, SlotsExclusive, Linked, Popping, SlotsRecycled, Empty

\* While Calm holds, a pop takes the head it compared and leaves its successor, a
\* push puts the slot in front of the list.
LEMMA FreelistStep ==
    ASSUME SlotsKnown, SlotsKnown', FreelistExact, Calm, Calm', [SlotNext]_slotVars
    PROVE  FreelistExact'
<1>n. NumSlots \in Nat /\ None \notin Nat /\ Slots \subseteq Nat /\ None \notin Slots
      /\ None \notin Threads
  BY SlotNumbers, SlotConstants
<1>f. /\ nextSlot \in Nat /\ nextSlot <= NumSlots /\ Free \subseteq Slots
      /\ \A t \in Threads : slot[t] \notin Free
  BY <1>n DEF SlotsKnown, SlotsTyped, Free, Slots
<1>t. slot \in [Threads -> Slots \union {None}] /\ stage \in [Threads -> Stages]
      /\ seen \in [Threads -> [gen : Nat, slot : Slots \union {None}]]
      /\ link \in [Threads -> Slots \union {None}]
      /\ freeHead \in [gen : Nat, slot : Slots \union {None}]
      /\ nextFree \in [Slots -> Slots \union {0, None}]
  BY DEF SlotsKnown, SlotsTyped
<1>1. ASSUME NEW t \in Threads, LoadHead(t) PROVE FreelistExact'
  <2>1. Free' = Free
    BY <1>1 DEF LoadHead, Free
  <2>2. Linked' /\ SlotsExclusive'
    BY <1>1, <2>1 DEF LoadHead, FreelistExact, Linked, SlotsExclusive
  <2>3. Popping'
    BY <1>t, <1>1, <2>1 DEF LoadHead, PopFrom, FreelistExact, Popping
  <2>4. SlotsRecycled'
    BY <1>1, <2>1 DEF LoadHead, FreelistExact, SlotsRecycled, HoldsFreelist
  <2> QED
    BY <2>2, <2>3, <2>4 DEF FreelistExact
<1>2. ASSUME NEW t \in Threads, LoadNext(t) PROVE FreelistExact'
  <2>1. Free' = Free
    BY <1>2 DEF LoadNext, Free
  <2>2. Linked' /\ SlotsExclusive'
    BY <1>2, <2>1 DEF LoadNext, FreelistExact, Linked, SlotsExclusive
  <2>3. Popping'
    BY <1>t, <1>2, <2>1 DEF LoadNext, FreelistExact, Popping
  <2>4. SlotsRecycled'
    BY <1>2, <2>1 DEF LoadNext, FreelistExact, SlotsRecycled, HoldsFreelist
  <2> QED
    BY <2>2, <2>3, <2>4 DEF FreelistExact
<1>3. ASSUME NEW t \in Threads, PopSlot(t), PopFrom(t), UNCHANGED <<slot, freeHead>>
      PROVE  FreelistExact'
  <2>1. Free' = Free
    BY <1>3 DEF PopSlot, Free
  <2>2. Linked' /\ SlotsExclusive'
    BY <1>3, <2>1 DEF PopSlot, FreelistExact, Linked, SlotsExclusive
  <2>3. Popping'
    BY <1>t, <1>3, <2>1 DEF PopSlot, PopFrom, FreelistExact, Popping
  <2>4. SlotsRecycled'
    BY <1>3, <2>1 DEF PopSlot, FreelistExact, SlotsRecycled, HoldsFreelist
  <2> QED
    BY <2>2, <2>3, <2>4 DEF FreelistExact
<1>4. ASSUME NEW t \in Threads, PopSlot(t), freeHead = seen[t], Popped(t)
      PROVE  FreelistExact'
  <2> DEFINE h == seen[t].slot
  <2>0. /\ stage[t] = "swap" /\ slot[t] = None /\ h # None
        /\ UNCHANGED <<nextFree, nextSlot>>
    BY <1>4 DEF PopSlot, SlotsKnown
  <2>1. /\ slot'[t] = h /\ stage'[t] = "idle" /\ freeHead'.slot = link[t]
        /\ \A u \in Threads \ {t} : /\ slot'[u] = slot[u] /\ stage'[u] = stage[u]
                                   /\ seen'[u] = seen[u] /\ link'[u] = link[u]
    BY <1>t, <1>4 DEF Popped
  <2>2. h \in Free /\ link[t] = nextFree[h]
    BY <1>4, <2>0 DEF FreelistExact, Linked, Popping
  <2> HIDE DEF h
  <2>3. Free' = Free \ {h}
    <3>1. \A y \in Free' : y \in Free /\ y # h
      BY <1>n, <1>f, <2>0, <2>1, <2>2 DEF Free
    <3>2. \A y \in Free \ {h} : y \in Free'
      BY <2>0, <2>1 DEF Free
    <3> QED
      BY <3>1, <3>2
  <2>4. SlotsExclusive'
    BY <1>n, <1>f, <2>0, <2>1, <2>2 DEF FreelistExact, SlotsExclusive
  <2>5. Linked'
    <3>1. freeHead.slot = h
      BY <1>4 DEF h
    <3> QED
      BY <2>0, <2>1, <2>2, <2>3, <3>1 DEF FreelistExact, Linked
  <2>6. Popping'
    <3>1. freeHead = seen[t] /\ freeHead.slot = h
      BY <1>4 DEF h
    <3>2. freeHead'.slot # None => freeHead'.slot \in Free /\ freeHead'.slot # h
      BY <2>1, <2>2, <3>1 DEF FreelistExact, Linked
    <3>3. ASSUME NEW u \in Threads \ {t}, stage[u] \in {"next", "swap"}
          PROVE  seen[u].slot \notin Free' /\ seen[u] # freeHead'
      <4>1. seen[u].slot # None
        BY <3>3 DEF SlotsKnown
      <4>2. seen[u] = freeHead \/ seen[u].slot \notin Free
        BY <3>3 DEF FreelistExact, Popping
      <4>3. seen[u].slot \notin Free'
        BY <2>3, <3>1, <4>2
      <4>4. freeHead'.slot # None => freeHead'.slot \in Free'
        BY <2>3, <3>2
      <4> QED
        BY <4>1, <4>3, <4>4
    <3>4. \A u \in Threads \ {t} : stage[u] # "push"
      BY <2>0 DEF Calm
    <3> QED
      BY <2>1, <3>3, <3>4 DEF Popping
  <2>7. SlotsRecycled'
    <3> SUFFICES ASSUME NEW S \in SUBSET Slots, HoldsFreelist(S)'
                 PROVE  Free' \subseteq S
      BY DEF SlotsRecycled
    <3>1. h \in Slots /\ freeHead.slot = h
      BY <1>f, <1>4, <2>2 DEF h
    <3>2. HoldsFreelist(S \union {h})
      BY <2>0, <2>1, <2>2, <3>1 DEF HoldsFreelist
    <3>3. Free \subseteq S \union {h}
      BY <3>1, <3>2 DEF FreelistExact, SlotsRecycled
    <3> QED
      BY <2>3, <3>3
  <2> QED
    BY <2>4, <2>5, <2>6, <2>7 DEF FreelistExact
<1>5. ASSUME NEW t \in Threads, NewSlot(t) PROVE FreelistExact'
  <2>0. /\ stage[t] = "new" /\ UNCHANGED <<seen, link, freeHead, nextFree>>
        /\ stage'[t] \in {"count", "idle"} /\ \A u \in Threads \ {t} : stage'[u] = stage[u]
    BY <1>t, <1>5 DEF NewSlot
  <2>1. Free' = Free /\ SlotsExclusive' /\ \A u \in Threads \ {t} : slot'[u] = slot[u]
    <3>1. CASE UNCHANGED <<slot, nextSlot>>
      BY <3>1 DEF FreelistExact, SlotsExclusive, Free
    <3>2. CASE slot' = [slot EXCEPT ![t] = nextSlot] /\ nextSlot' = nextSlot + 1
      <4>1. slot'[t] = nextSlot /\ \A u \in Threads \ {t} : slot'[u] = slot[u]
        BY <1>t, <3>2
      <4>2. \A u \in Threads : slot[u] # None => slot[u] < nextSlot /\ slot[u] \in Nat
        BY <1>n, <1>t DEF SlotsKnown
      <4>3. SlotsExclusive'
        BY <1>n, <1>f, <4>1, <4>2 DEF FreelistExact, SlotsExclusive
      <4>4. slot[t] = None
        BY <2>0 DEF SlotsKnown
      <4>5. Free' = Free
        <5>1. ASSUME NEW x \in Free PROVE x \in Free'
          BY <1>f, <3>2, <4>1, <5>1 DEF Free
        <5>2. ASSUME NEW x \in Free' PROVE x \in Free
          BY <1>n, <1>f, <3>2, <4>1, <4>4, <5>2 DEF Free
        <5> QED
          BY <5>1, <5>2
      <4> QED
        BY <4>1, <4>3, <4>5
    <3> QED
      BY <1>5, <3>1, <3>2 DEF NewSlot
  <2>2. Linked'
    BY <2>0, <2>1 DEF FreelistExact, Linked
  <2>3. Popping'
    BY <2>0, <2>1 DEF FreelistExact, Popping
  <2>4. SlotsRecycled'
    BY <2>0, <2>1 DEF FreelistExact, SlotsRecycled, HoldsFreelist
  <2> QED
    BY <2>1, <2>2, <2>3, <2>4 DEF FreelistExact
<1>6. ASSUME NEW t \in Threads, PublishSlotCount(t) PROVE FreelistExact'
  <2>0. /\ UNCHANGED <<slot, seen, link, freeHead, nextFree, nextSlot>>
        /\ stage'[t] = "idle" /\ \A u \in Threads \ {t} : stage'[u] = stage[u]
    BY <1>t, <1>6 DEF PublishSlotCount
  <2>1. Free' = Free
    BY <2>0 DEF Free
  <2>2. Linked' /\ SlotsExclusive'
    BY <2>0, <2>1 DEF FreelistExact, Linked, SlotsExclusive
  <2>3. Popping'
    BY <2>0, <2>1 DEF FreelistExact, Popping
  <2>4. SlotsRecycled'
    BY <2>0, <2>1 DEF FreelistExact, SlotsRecycled, HoldsFreelist
  <2> QED
    BY <2>2, <2>3, <2>4 DEF FreelistExact
<1>7. ASSUME NEW t \in Threads, ReleaseSlot(t) PROVE FreelistExact'
  <2>0. /\ UNCHANGED <<slot, link, freeHead, nextFree, nextSlot>>
        /\ stage'[t] = "link" /\ \A u \in Threads \ {t} : stage'[u] = stage[u] /\ seen'[u] = seen[u]
    BY <1>t, <1>7 DEF ReleaseSlot
  <2>1. Free' = Free
    BY <2>0 DEF Free
  <2>2. Linked' /\ SlotsExclusive'
    BY <2>0, <2>1 DEF FreelistExact, Linked, SlotsExclusive
  <2>3. Popping'
    BY <2>0, <2>1 DEF FreelistExact, Popping
  <2>4. SlotsRecycled'
    BY <2>0, <2>1 DEF FreelistExact, SlotsRecycled, HoldsFreelist
  <2> QED
    BY <2>2, <2>3, <2>4 DEF FreelistExact
<1>8. ASSUME NEW t \in Threads, LinkSlot(t) PROVE FreelistExact'
  <2>0. /\ stage[t] = "link" /\ slot[t] # None /\ slot[t] \in Slots
        /\ UNCHANGED <<slot, seen, link, freeHead, nextSlot>>
        /\ stage'[t] = "push" /\ \A u \in Threads \ {t} : stage'[u] = stage[u]
        /\ nextFree'[slot[t]] = seen[t].slot
        /\ \A x \in Slots \ {slot[t]} : nextFree'[x] = nextFree[x]
    <3>1. stage[t] = "link" /\ slot[t] # None /\ slot[t] \in Slots
      BY <1>t, <1>8 DEF LinkSlot, SlotsKnown
    <3> QED
      BY <1>t, <1>8, <3>1 DEF LinkSlot
  <2>1. Free' = Free /\ slot[t] \notin Free
    BY <1>f, <2>0 DEF Free
  <2>2. \A x \in Free : nextFree'[x] = nextFree[x]
    BY <1>f, <2>0, <2>1
  <2>3. Linked' /\ SlotsExclusive'
    BY <2>0, <2>1, <2>2 DEF FreelistExact, Linked, SlotsExclusive
  <2>4. Popping'
    <3>1. \A u \in Threads : stage'[u] \notin {"next", "swap"}
      BY <2>0 DEF Calm
    <3>2. \A u \in Threads \ {t} : stage[u] = "push" => slot[u] \in Slots \ {slot[t]}
      BY <1>t, <2>0 DEF FreelistExact, SlotsExclusive, SlotsKnown
    <3> QED
      BY <2>0, <3>1, <3>2 DEF FreelistExact, Popping
  <2>5. SlotsRecycled'
    <3> SUFFICES ASSUME NEW S \in SUBSET Slots, HoldsFreelist(S)'
                 PROVE  Free \subseteq S
      BY <2>1 DEF SlotsRecycled
    <3>1. HoldsFreelist(S \cap Free)
      BY <2>0, <2>2 DEF HoldsFreelist, FreelistExact, Linked
    <3> QED
      BY <3>1 DEF FreelistExact, SlotsRecycled
  <2> QED
    BY <2>3, <2>4, <2>5 DEF FreelistExact
<1>9. ASSUME NEW t \in Threads, PushSlot(t), UNCHANGED <<slot, freeHead>>,
             seen' = [seen EXCEPT ![t] = freeHead], stage' = [stage EXCEPT ![t] = "link"]
      PROVE  FreelistExact'
  <2>0. /\ UNCHANGED <<slot, link, freeHead, nextFree, nextSlot>>
        /\ stage'[t] = "link" /\ \A u \in Threads \ {t} : stage'[u] = stage[u] /\ seen'[u] = seen[u]
    BY <1>t, <1>9 DEF PushSlot
  <2>1. Free' = Free
    BY <2>0 DEF Free
  <2>2. Linked' /\ SlotsExclusive'
    BY <2>0, <2>1 DEF FreelistExact, Linked, SlotsExclusive
  <2>3. Popping'
    BY <2>0, <2>1 DEF FreelistExact, Popping
  <2>4. SlotsRecycled'
    BY <2>0, <2>1 DEF FreelistExact, SlotsRecycled, HoldsFreelist
  <2> QED
    BY <2>2, <2>3, <2>4 DEF FreelistExact
<1>10. ASSUME NEW t \in Threads, PushSlot(t), freeHead = seen[t], Pushed(t)
       PROVE  FreelistExact'
  <2> DEFINE x == slot[t]
  <2>0. stage[t] = "push" /\ x # None /\ x \in Slots /\ x < nextSlot /\ x \notin Free
    BY <1>t, <1>f, <1>10 DEF PushSlot, SlotsKnown
  <2>1. /\ UNCHANGED <<nextFree, nextSlot, link>>
        /\ slot'[t] = None /\ stage'[t] = "idle" /\ freeHead'.slot = x
        /\ \A u \in Threads \ {t} : /\ slot'[u] = slot[u] /\ stage'[u] = stage[u]
                                   /\ seen'[u] = seen[u]
    BY <1>t, <1>10 DEF PushSlot, Pushed
  <2>2. nextFree[x] = freeHead.slot
    BY <1>10, <2>0 DEF FreelistExact, Popping
  <2>3. \A u \in Threads \ {t} : slot[u] # x
    BY <2>0 DEF FreelistExact, SlotsExclusive
  <2>4. x \in 0..(nextSlot - 1)
    <3>1. x \in Nat
      BY <1>n, <2>0
    <3> QED
      BY <1>f, <2>0, <3>1
  <2> HIDE DEF x
  <2>5. Free' = Free \union {x}
    <3>1. \A y \in Free' : y \in Free \union {x}
      BY <2>1 DEF Free, x
    <3>2. \A y \in Free \union {x} : y \in Free'
      BY <1>n, <1>f, <2>0, <2>1, <2>3, <2>4 DEF Free
    <3> QED
      BY <3>1, <3>2
  <2>6. SlotsExclusive'
    BY <2>1 DEF FreelistExact, SlotsExclusive
  <2>7. Linked'
    <3>1. \A y \in Free : nextFree[y] # None => nextFree[y] \in Free /\ nextFree[y] # freeHead.slot
      BY DEF FreelistExact, Linked
    <3> QED
      BY <2>0, <2>1, <2>2, <2>5, <3>1 DEF FreelistExact, Linked
  <2>8. Popping'
    <3>1. \A u \in Threads \ {t} : stage[u] \notin {"next", "swap"}
      BY <2>0 DEF Calm
    <3> QED
      BY <2>1, <3>1 DEF FreelistExact, Popping
  <2>9. SlotsRecycled'
    <3> SUFFICES ASSUME NEW S \in SUBSET Slots, HoldsFreelist(S)'
                 PROVE  Free' \subseteq S
      BY DEF SlotsRecycled
    <3>1. x \in S
      BY <2>0, <2>1 DEF HoldsFreelist
    <3>2. HoldsFreelist(S)
      BY <2>1, <2>2, <3>1 DEF HoldsFreelist
    <3>3. Free \subseteq S
      BY <3>2 DEF FreelistExact, SlotsRecycled
    <3> QED
      BY <2>5, <3>1, <3>3
  <2> QED
    BY <2>6, <2>7, <2>8, <2>9 DEF FreelistExact
<1>11. CASE UNCHANGED slotVars
  BY <1>11 DEF slotVars, FreelistExact, SlotsExclusive, Linked, Popping, SlotsRecycled,
               HoldsFreelist, Free
<1>12. CASE \E t \in Threads : PopSlot(t)
  BY <1>3, <1>4, <1>12 DEF PopSlot
<1>13. CASE \E t \in Threads : PushSlot(t)
  BY <1>9, <1>10, <1>13 DEF PushSlot
<1> QED
  BY <1>1, <1>2, <1>5, <1>6, <1>7, <1>8, <1>11, <1>12, <1>13 DEF SlotNext, Acquire, Recycle

\* With one slot in the table the list is exact however threads come and go:
\* there is no second slot for a stale head to lead to.
OneSlot ==
    /\ SlotsExclusive
    /\ freeHead.slot # None => nextFree[0] = None
    /\ \A t \in Threads :
        /\ slot[t] # None => freeHead.slot = None
        /\ stage[t] \in {"next", "swap"} => nextFree[0] = None /\ link[t] = None
        /\ stage[t] \in {"link", "push"} => seen[t].slot = None
        /\ stage[t] = "push" => nextFree[0] = None

\* Nobody has the slot at first.
LEMMA OneSlotInit == SlotInit => OneSlot
BY DEF SlotInit, OneSlot, SlotsExclusive, Empty

\* The one slot is passed on by the freelist, or by nobody.
LEMMA OneSlotStep ==
    ASSUME NumSlots <= 1, SlotsKnown, SlotsKnown', OneSlot, [SlotNext]_slotVars
    PROVE  OneSlot'
<1>n. NumSlots \in Nat /\ None \notin Nat /\ \A s \in Slots : s = 0
  BY SlotConstants DEF Slots
<1>t. /\ slot \in [Threads -> Slots \union {None}] /\ stage \in [Threads -> Stages]
      /\ seen \in [Threads -> [gen : Nat, slot : Slots \union {None}]]
      /\ link \in [Threads -> Slots \union {None}]
      /\ freeHead \in [gen : Nat, slot : Slots \union {None}]
      /\ nextFree \in [Slots -> Slots \union {0, None}]
      /\ nextSlot \in 0..NumSlots
  BY DEF SlotsKnown, SlotsTyped
<1>z. \A t \in Threads : slot[t] # None => slot[t] = 0
  BY <1>n, <1>t
<1>1. ASSUME NEW t \in Threads, LoadHead(t) PROVE OneSlot'
  BY <1>t, <1>1 DEF LoadHead, PopFrom, OneSlot, SlotsExclusive
<1>2. ASSUME NEW t \in Threads, LoadNext(t) PROVE OneSlot'
  <2>1. seen[t].slot = 0
    BY <1>n, <1>t, <1>2 DEF LoadNext, SlotsKnown
  <2> QED
    BY <1>t, <1>2, <2>1 DEF LoadNext, OneSlot, SlotsExclusive
<1>3. ASSUME NEW t \in Threads, PopSlot(t), PopFrom(t), UNCHANGED <<slot, freeHead>>
      PROVE  OneSlot'
  BY <1>t, <1>3 DEF PopSlot, PopFrom, OneSlot, SlotsExclusive
<1>4. ASSUME NEW t \in Threads, PopSlot(t), freeHead = seen[t], Popped(t)
      PROVE  OneSlot'
  <2>1. stage[t] = "swap" /\ seen[t].slot # None /\ UNCHANGED nextFree
    BY <1>4 DEF PopSlot, SlotsKnown
  <2>2. \A u \in Threads : slot[u] = None
    BY <1>4, <2>1 DEF OneSlot
  <2>3. /\ slot'[t] = seen[t].slot /\ stage'[t] = "idle" /\ freeHead'.slot = link[t]
        /\ \A u \in Threads \ {t} : /\ slot'[u] = slot[u] /\ stage'[u] = stage[u]
                                   /\ seen'[u] = seen[u] /\ link'[u] = link[u]
    BY <1>t, <1>4 DEF Popped
  <2>4. freeHead'.slot = None
    BY <2>1, <2>3 DEF OneSlot
  <2> QED
    BY <2>1, <2>2, <2>3, <2>4 DEF OneSlot, SlotsExclusive
<1>5. ASSUME NEW t \in Threads, NewSlot(t) PROVE OneSlot'
  <2>0. /\ stage[t] = "new" /\ UNCHANGED <<seen, link, freeHead, nextFree>>
        /\ stage'[t] \in {"count", "idle"} /\ \A u \in Threads \ {t} : stage'[u] = stage[u]
    BY <1>t, <1>5 DEF NewSlot
  <2>1. CASE UNCHANGED <<slot, nextSlot>>
    BY <2>0, <2>1 DEF OneSlot, SlotsExclusive
  <2>2. CASE nextSlot < NumSlots /\ slot' = [slot EXCEPT ![t] = nextSlot]
    <3>1. nextSlot = 0
      BY <1>n, <1>t, <2>2
    <3>2. \A u \in Threads : slot[u] = None
      BY <1>z, <3>1 DEF SlotsKnown
    <3>3. freeHead.slot = None
      BY <1>n, <1>t, <3>1 DEF SlotsKnown, SlotsTyped
    <3> QED
      BY <1>t, <2>0, <2>2, <3>2, <3>3 DEF OneSlot, SlotsExclusive
  <2> QED
    BY <1>5, <2>1, <2>2 DEF NewSlot
<1>6. ASSUME NEW t \in Threads, PublishSlotCount(t) PROVE OneSlot'
  BY <1>t, <1>6 DEF PublishSlotCount, OneSlot, SlotsExclusive
<1>7. ASSUME NEW t \in Threads, ReleaseSlot(t) PROVE OneSlot'
  BY <1>t, <1>7 DEF ReleaseSlot, OneSlot, SlotsExclusive
<1>8. ASSUME NEW t \in Threads, LinkSlot(t) PROVE OneSlot'
  <2>1. slot[t] = 0 /\ seen[t].slot = None /\ 0 \in Slots
    BY <1>t, <1>z, <1>8 DEF LinkSlot, SlotsKnown, OneSlot
  <2>2. nextFree'[0] = None
    BY <1>t, <1>8, <2>1 DEF LinkSlot
  <2> QED
    BY <1>t, <1>8, <2>2 DEF LinkSlot, OneSlot, SlotsExclusive
<1>9. ASSUME NEW t \in Threads, PushSlot(t), UNCHANGED <<slot, freeHead>>,
             seen' = [seen EXCEPT ![t] = freeHead], stage' = [stage EXCEPT ![t] = "link"]
      PROVE  OneSlot'
  <2>1. slot[t] # None /\ freeHead.slot = None
    BY <1>9 DEF PushSlot, SlotsKnown, OneSlot
  <2> QED
    BY <1>t, <1>9, <2>1 DEF PushSlot, OneSlot, SlotsExclusive
<1>10. ASSUME NEW t \in Threads, PushSlot(t), freeHead = seen[t], Pushed(t)
       PROVE  OneSlot'
  <2>1. stage[t] = "push" /\ slot[t] = 0
    BY <1>z, <1>10 DEF PushSlot, SlotsKnown
  <2>2. /\ slot'[t] = None /\ stage'[t] = "idle" /\ UNCHANGED <<nextFree, link>>
        /\ \A u \in Threads \ {t} : /\ slot'[u] = slot[u] /\ stage'[u] = stage[u]
                                   /\ seen'[u] = seen[u]
    BY <1>t, <1>10 DEF PushSlot, Pushed
  <2>3. \A u \in Threads : slot'[u] = None
    BY <1>n, <1>z, <2>1, <2>2 DEF OneSlot, SlotsExclusive
  <2>4. nextFree[0] = None
    BY <2>1 DEF OneSlot
  <2> QED
    BY <2>2, <2>3, <2>4 DEF OneSlot, SlotsExclusive
<1>11. CASE UNCHANGED slotVars
  BY <1>11 DEF slotVars, OneSlot, SlotsExclusive
<1>12. CASE \E t \in Threads : PopSlot(t)
  BY <1>3, <1>4, <1>12 DEF PopSlot
<1>13. CASE \E t \in Threads : PushSlot(t)
  BY <1>9, <1>10, <1>13 DEF PushSlot
<1> QED
  BY <1>1, <1>2, <1>5, <1>6, <1>7, <1>8, <1>11, <1>12, <1>13 DEF SlotNext, Acquire, Recycle

\* Why a slot has one owner: the list is exact, or there is one slot.
SlotsHeld == SlotsKnown /\ IF NumSlots <= 1 THEN OneSlot ELSE FreelistExact

\* Every step keeps the slots apart while Calm holds or the table has one slot.
LEMMA SlotsHeldStep ==
    ASSUME SlotsHeld, NumSlots <= 1 \/ Calm, (NumSlots <= 1 \/ Calm)', [SlotNext]_slotVars
    PROVE  SlotsHeld'
<1>1. SlotsKnown /\ SlotsKnown'
  BY SlotsKnownStep DEF SlotsHeld
<1>2. CASE NumSlots <= 1
  <2>1. OneSlot'
    BY <1>1, <1>2, OneSlotStep DEF SlotsHeld
  <2> QED
    BY <1>1, <1>2, <2>1 DEF SlotsHeld
<1>3. CASE ~(NumSlots <= 1)
  <2>1. Calm /\ Calm' /\ FreelistExact
    BY <1>3 DEF SlotsHeld
  <2>2. FreelistExact'
    BY <1>1, <2>1, FreelistStep
  <2> QED
    BY <1>1, <1>3, <2>2 DEF SlotsHeld
<1> QED
  BY <1>2, <1>3

\* Two threads never have the same hazard slot as long as no thread gives one
\* back while another is inside the pop of a recycled one, or if the table has
\* one slot: what popTreiberFreelist guarantees, for any number of threads.
THEOREM SlotsStayExclusive == SlotSpec /\ [](NumSlots <= 1 \/ Calm) => []SlotsExclusive
<1>1. SlotInit => SlotsHeld
  BY SlotsKnownInit, FreelistInit, OneSlotInit DEF SlotsHeld
<1>2. SlotsHeld => SlotsExclusive
  BY DEF SlotsHeld, OneSlot, FreelistExact
<1>3. SlotsHeld /\ (NumSlots <= 1 \/ Calm) /\ (NumSlots <= 1 \/ Calm)' /\ [SlotNext]_slotVars
        => SlotsHeld'
  BY SlotsHeldStep
<1> QED
  BY <1>1, <1>2, <1>3, PTL DEF SlotSpec

\* Under the same condition no slot is lost: one that no thread has is on the
\* freelist (releaseDispatchHazardSlot_), so the table is not used up by threads
\* that come and go.
THEOREM SlotsNeverLost == SlotSpec /\ []Calm => []SlotsRecycled
<1> DEFINE Inv == SlotsKnown /\ FreelistExact
<1>1. SlotInit => Inv
  BY SlotsKnownInit, FreelistInit
<1>2. Inv => SlotsRecycled
  BY DEF FreelistExact
<1>3. Inv /\ Calm /\ Calm' /\ [SlotNext]_slotVars => Inv'
  BY SlotsKnownStep, FreelistStep
<1> QED
  BY <1>1, <1>2, <1>3, PTL DEF SlotSpec

-----------------------------------------------------------------------------
(* The store: frames, mutex, slots and views agree.                        *)

\* The steps of a registration call that hold mutex_.
Holding == {"publish", "unpublish", "count", "scan", "unlock"}

\* A dispatch that reads a view is in the table of slots or holds the mutex.
FrameOK(t, f) ==
    /\ f.pos >= 1
    /\ f.op \in {"protect", "recheck", "run", "call", "throw"} => f.view \in 1..Len(views)
    /\ f.op = "call" => f.pos <= Len(views[f.view])
    /\ f.op = "slot" => slot[t] = None \/ stage[t] = "count"
    /\ f.op \in {"load", "protect", "recheck"} => slot[t] # None
    /\ f.op \in {"run", "call", "throw"} /\ ~f.locked => slot[t] # None
    /\ f.locked => mutex = t /\ f.view = cur /\ f.op \in {"run", "call", "throw"}

FramesOK == \A t \in Threads : \A i \in 1..Len(disp[t]) : FrameOK(t, disp[t][i])

\* Only callbacks dispatch again or register, and one frame holds the mutex.
Nesting ==
    \A t \in Threads :
        /\ \A i \in 1..Len(disp[t]) : i < Len(disp[t]) => disp[t][i].op = "call"
        /\ \A i, j \in 1..Len(disp[t]) : disp[t][i].locked /\ disp[t][j].locked => i = j

\* A registration call that holds the mutex is not inside a locked dispatch.
Locking ==
    \A t \in Threads :
        /\ edit[t].op \in {"add", "remove"} => edit[t].lis \in Listeners
        /\ edit[t].op \in Holding =>
            mutex = t /\ \A i \in 1..Len(disp[t]) : ~disp[t][i].locked

\* A thread is inside acquire() only at the start of a dispatch, and inside the
\* release of its slot only when it has left the last one.
SlotsOwned ==
    /\ SlotsKnown
    /\ \A t \in Threads :
        /\ stage[t] \in {"next", "swap", "new", "count"} => disp[t] # <<>> /\ Top(t).op = "slot"
        /\ stage[t] \in {"link", "push"} => disp[t] = <<>>

\* The published view is neither retired nor freed; the scan looks at a retired
\* view and at slots whose number was published.
ViewsOK ==
    /\ cur \notin retired /\ cur \notin freed
    /\ retired \cap freed = {}
    /\ \A t \in Threads : edit[t].op \in {"count", "scan"} => edit[t].view \in retired
    /\ \A t \in Threads : edit[t].op = "scan" => edit[t].count <= published

Structure == TypeOK /\ FramesOK /\ Nesting /\ Locking /\ SlotsOwned /\ ViewsOK

-----------------------------------------------------------------------------
(* Natural numbers: a set of them has a least element, which is what the   *)
(* scan of the retired views and the search for a position rely on.        *)

\* The order of the naturals as a well-founded relation.
LEMMA LessThanRelation ==
    \E R : IsWellFoundedOn(R, Nat) /\ \A x, y \in Nat : <<y, x>> \in R <=> y < x
<1>1. IsWellFoundedOn(OpToRel(<, Nat), Nat)
  BY NatLessThanWellFounded
<1>2. \A x, y \in Nat : <<y, x>> \in OpToRel(<, Nat) <=> y < x
  BY DEF OpToRel
<1> QED
  BY <1>1, <1>2, Zenon

\* A set of naturals that is not empty has a least element.
LEMMA LeastElement ==
    ASSUME NEW T \in SUBSET Nat, T # {}
    PROVE  \E m \in T : \A n \in T : m <= n
<1>1. PICK R : IsWellFoundedOn(R, Nat) /\ \A x, y \in Nat : <<y, x>> \in R <=> y < x
  BY LessThanRelation
<1>2. PICK m \in T : \A y \in T : ~ (<<y, m>> \in R)
  BY <1>1, WFMin
<1>3. \A y \in T : ~ (y < m)
  BY <1>1, <1>2
<1> QED
  BY <1>3

-----------------------------------------------------------------------------
(* What the operations on frames do, element by element.                   *)

OthersSame(t) == \A u \in Threads \ {t} : disp'[u] = disp[u]

\* A thread inside dispatch has a top frame.
LEMMA TopFrame ==
    ASSUME TypeOK, NEW t \in Threads, disp[t] # <<>>
    PROVE  /\ Len(disp[t]) \in Nat \ {0}
           /\ Len(disp[t]) \in 1..Len(disp[t])
           /\ Top(t) \in DispatchFrame /\ Top(t) = disp[t][Len(disp[t])]
BY DEF TypeOK, Top

\* Goto replaces the top frame and leaves the rest alone.
LEMMA GotoFrames ==
    ASSUME TypeOK, NEW t \in Threads, disp[t] # <<>>, NEW f \in DispatchFrame, Goto(t, f)
    PROVE  /\ disp' \in [Threads -> Seq(DispatchFrame)] /\ OthersSame(t)
           /\ Len(disp'[t]) = Len(disp[t])
           /\ \A i \in 1..Len(disp[t]) :
                disp'[t][i] = IF i = Len(disp[t]) THEN f ELSE disp[t][i]
           /\ disp'[t] # <<>> /\ Top(t)' = f
<1>1. disp[t] \in Seq(DispatchFrame) /\ Len(disp[t]) \in Nat \ {0}
  BY DEF TypeOK
<1> DEFINE nd == [disp[t] EXCEPT ![Len(disp[t])] = f]
<1>2. disp' = [disp EXCEPT ![t] = nd]
  BY DEF Goto, TypeOK
<1>3. nd \in Seq(DispatchFrame) /\ Len(nd) = Len(disp[t])
      /\ \A i \in 1..Len(disp[t]) : nd[i] = IF i = Len(disp[t]) THEN f ELSE disp[t][i]
  BY <1>1
<1> HIDE DEF nd
<1>4. /\ disp' \in [Threads -> Seq(DispatchFrame)] /\ OthersSame(t)
      /\ disp'[t] = nd
  BY <1>2, <1>3 DEF TypeOK, OthersSame
<1>5. nd # <<>> /\ nd[Len(nd)] = f
  BY <1>1, <1>3
<1> QED
  BY <1>1, <1>3, <1>4, <1>5 DEF Top

\* Finish removes the top frame.
LEMMA FinishFrames ==
    ASSUME TypeOK, NEW t \in Threads, disp[t] # <<>>, Finish(t)
    PROVE  /\ disp' \in [Threads -> Seq(DispatchFrame)] /\ OthersSame(t)
           /\ Len(disp'[t]) = Len(disp[t]) - 1
           /\ \A i \in 1..Len(disp[t]) - 1 : disp'[t][i] = disp[t][i]
<1>1. disp[t] \in Seq(DispatchFrame) /\ Len(disp[t]) \in Nat \ {0}
  BY DEF TypeOK
<1> DEFINE nd == SubSeq(disp[t], 1, Len(disp[t]) - 1)
<1>2. disp' = [disp EXCEPT ![t] = nd]
  BY DEF Finish, TypeOK
<1>3. nd \in Seq(DispatchFrame) /\ Len(nd) = Len(disp[t]) - 1
      /\ \A i \in 1..Len(disp[t]) - 1 : nd[i] = disp[t][i]
  BY <1>1
<1> HIDE DEF nd
<1> QED
  BY <1>1, <1>2, <1>3 DEF TypeOK, OthersSame

\* Dispatch pushes a frame.
LEMMA DispatchFrames ==
    ASSUME TypeOK, NEW t \in Threads, NEW f \in DispatchFrame,
           disp' = [disp EXCEPT ![t] = Append(@, f)]
    PROVE  /\ disp' \in [Threads -> Seq(DispatchFrame)] /\ OthersSame(t)
           /\ Len(disp'[t]) = Len(disp[t]) + 1
           /\ \A i \in 1..Len(disp[t]) : disp'[t][i] = disp[t][i]
           /\ disp'[t][Len(disp[t]) + 1] = f
           /\ disp'[t] # <<>> /\ Top(t)' = f
<1> DEFINE nd == Append(disp[t], f)
<1>1. disp[t] \in Seq(DispatchFrame) /\ Len(disp[t]) \in Nat
  BY DEF TypeOK
<1>2. /\ nd \in Seq(DispatchFrame) /\ Len(nd) = Len(disp[t]) + 1
      /\ \A i \in 1..Len(disp[t]) : nd[i] = disp[t][i]
      /\ nd[Len(disp[t]) + 1] = f /\ nd # <<>>
  BY <1>1
<1>3. disp' = [disp EXCEPT ![t] = nd]
  BY DEF TypeOK
<1> HIDE DEF nd
<1> QED
  BY <1>2, <1>3 DEF TypeOK, OthersSame, Top

\* How a frame looks after one of its fields was assigned.
SameRest(f, g) ==
    /\ f.scope = g.scope /\ f.locked = g.locked /\ f.due = g.due /\ f.gone = g.gone

\* A frame that goes on to another step.
LEMMA FrameAt ==
    ASSUME NEW g \in DispatchFrame,
           NEW op \in {"slot", "load", "protect", "recheck", "lock", "run", "call", "throw"}
    PROVE  \E f \in DispatchFrame :
                /\ f = [g EXCEPT !.op = op]
                /\ f.op = op /\ f.view = g.view /\ f.pos = g.pos /\ f.heard = g.heard
                /\ SameRest(f, g)
<1>1. [g EXCEPT !.op = op] \in DispatchFrame
  BY DEF DispatchFrame
<1> QED
  BY <1>1 DEF DispatchFrame, SameRest

\* A frame that has loaded the published view.
LEMMA FrameLoads ==
    ASSUME NEW g \in DispatchFrame, NEW v \in Nat
    PROVE  \E f \in DispatchFrame :
                /\ f = [g EXCEPT !.view = v, !.op = "protect"]
                /\ f.op = "protect" /\ f.view = v /\ f.pos = g.pos /\ f.heard = g.heard
                /\ SameRest(f, g)
<1>1. [g EXCEPT !.view = v, !.op = "protect"] \in DispatchFrame
  BY DEF DispatchFrame
<1> QED
  BY <1>1 DEF DispatchFrame, SameRest

\* A frame that calls a listener.
LEMMA FrameCalls ==
    ASSUME NEW g \in DispatchFrame, NEW l \in Listeners
    PROVE  \E f \in DispatchFrame :
                /\ f = [g EXCEPT !.op = "call", !.heard = Append(@, l)]
                /\ f.op = "call" /\ f.view = g.view /\ f.pos = g.pos
                /\ f.heard = Append(g.heard, l) /\ SameRest(f, g)
<1>1. Append(g.heard, l) \in Seq(Listeners)
  BY DEF DispatchFrame
<1>2. [g EXCEPT !.op = "call", !.heard = Append(@, l)] \in DispatchFrame
  BY <1>1 DEF DispatchFrame
<1> QED
  BY <1>2 DEF DispatchFrame, SameRest

\* A frame whose index moves on, back in the loop or not.
LEMMA FrameAdvances ==
    ASSUME NEW g \in DispatchFrame
    PROVE  /\ \E f \in DispatchFrame :
                /\ f = [g EXCEPT !.op = "run", !.pos = @ + 1]
                /\ f.op = "run" /\ f.view = g.view /\ f.pos = g.pos + 1 /\ f.heard = g.heard
                /\ SameRest(f, g)
           /\ \E f \in DispatchFrame :
                /\ f = [g EXCEPT !.pos = @ + 1]
                /\ f.op = g.op /\ f.view = g.view /\ f.pos = g.pos + 1 /\ f.heard = g.heard
                /\ SameRest(f, g)
<1>0. g.pos + 1 \in Nat
  BY DEF DispatchFrame
<1>1. [g EXCEPT !.op = "run", !.pos = g.pos + 1] \in DispatchFrame
  BY <1>0 DEF DispatchFrame
<1>2. [g EXCEPT !.pos = g.pos + 1] \in DispatchFrame
  BY <1>0 DEF DispatchFrame
<1>3. \E f \in DispatchFrame :
                /\ f = [g EXCEPT !.op = "run", !.pos = @ + 1]
                /\ f.op = "run" /\ f.view = g.view /\ f.pos = g.pos + 1 /\ f.heard = g.heard
                /\ SameRest(f, g)
  BY <1>1 DEF DispatchFrame, SameRest
<1>4. \E f \in DispatchFrame :
                /\ f = [g EXCEPT !.pos = @ + 1]
                /\ f.op = g.op /\ f.view = g.view /\ f.pos = g.pos + 1 /\ f.heard = g.heard
                /\ SameRest(f, g)
  BY <1>2 DEF DispatchFrame, SameRest
<1> QED
  BY <1>3, <1>4

\* A frame that has taken mutex_ for want of a slot.
LEMMA FrameLocks ==
    ASSUME NEW g \in DispatchFrame, NEW v \in Nat
    PROVE  \E f \in DispatchFrame :
                /\ f = [g EXCEPT !.view = v, !.op = "run", !.locked = TRUE]
                /\ f.op = "run" /\ f.view = v /\ f.pos = g.pos /\ f.heard = g.heard
                /\ f.locked /\ f.scope = g.scope /\ f.due = g.due /\ f.gone = g.gone
<1>1. [g EXCEPT !.view = v, !.op = "run", !.locked = TRUE] \in DispatchFrame
  BY DEF DispatchFrame
<1> QED
  BY <1>1 DEF DispatchFrame

\* A store to a hazard slot.
LEMMA HazardSet ==
    ASSUME NEW n \in Nat, NEW h \in [Slots -> 0..n], NEW s, NEW v \in 0..n
    PROVE  [h EXCEPT ![s] = v] \in [Slots -> 0..n]
OBVIOUS

-----------------------------------------------------------------------------
(* Structure is inductive.                                                 *)

\* Only the registration state of t changes, and t does not hold the mutex.
LEMMA StructureQuiet ==
    ASSUME Structure, TypeOK', NEW t \in Threads,
           UNCHANGED <<viewVars, hazard, slotVars, mutex, disp>>,
           \A u \in Threads \ {t} : edit'[u] = edit[u],
           edit'[t] = edit[t] \/ edit'[t].op \notin Holding,
           edit'[t].op \in {"add", "remove"} => edit'[t].lis \in Listeners
    PROVE  Structure'
<1> USE DEF Structure
<1>1. FramesOK'
  BY DEF FramesOK, FrameOK, viewVars, slotVars
<1>2. Nesting'
  BY DEF Nesting
<1>3. Locking'
  BY DEF Locking
<1>4. SlotsOwned'
  BY KnownStay DEF SlotsOwned, slotVars, Top
<1>5. ViewsOK'
  BY DEF ViewsOK, viewVars, slotVars, Holding
<1> QED
  BY <1>1, <1>2, <1>3, <1>4, <1>5

\* A registration call takes the mutex: no frame held it.
LEMMA StructureTaken ==
    ASSUME Structure, TypeOK', NEW t \in Threads,
           mutex = None, mutex' = t,
           UNCHANGED <<viewVars, hazard, slotVars, disp>>,
           \A u \in Threads \ {t} : edit'[u] = edit[u],
           edit'[t].op \in {"publish", "unpublish"}
    PROVE  Structure'
<1> USE DEF Structure
<1>0. None \notin Threads
  BY ListenerConstants, SlotConstants
<1>1. \A u \in Threads : \A i \in 1..Len(disp[u]) : ~disp[u][i].locked
  BY <1>0 DEF FramesOK, FrameOK
<1>2. \A u \in Threads : edit[u].op \notin Holding
  BY <1>0 DEF Locking
<1>3. FramesOK'
  <2> SUFFICES ASSUME NEW u \in Threads, NEW i \in 1..Len(disp[u])
               PROVE  FrameOK(u, disp[u][i])'
    BY DEF FramesOK
  <2>1. FrameOK(u, disp[u][i])
    BY DEF FramesOK
  <2> QED
    BY <1>1, <2>1 DEF FrameOK, viewVars, slotVars
<1>4. Nesting'
  BY DEF Nesting
<1>5. Locking'
  BY <1>1, <1>2 DEF Locking
<1>6. SlotsOwned'
  BY KnownStay DEF SlotsOwned, slotVars, Top
<1>7. ViewsOK'
  BY DEF ViewsOK, viewVars, slotVars, Holding
<1> QED
  BY <1>3, <1>4, <1>5, <1>6, <1>7

\* The scan moves on or ends.
LEMMA ScanFromEdit ==
    ASSUME TypeOK, NEW t \in Threads, NEW vs \in SUBSET Nat, NEW v \in Nat,
           edit[t].op \in Holding, ScanFrom(t, vs, v)
    PROVE  /\ edit' \in [Threads -> EditFrame]
           /\ \A u \in Threads \ {t} : edit'[u] = edit[u]
           /\ edit'[t].op \in {"count", "unlock"} /\ edit'[t].lis = edit[t].lis
           /\ edit'[t].pos = 0
           /\ edit'[t].op = "count" => /\ edit'[t].view \in vs /\ edit'[t].view > v
                                       /\ \A w \in vs : w > v => edit'[t].view <= w
           /\ edit'[t].op = "unlock" => \A w \in vs : w <= v
<1> DEFINE rest == {w \in vs : w > v}
           next == CHOOSE w \in rest : \A x \in rest : w <= x
<1>1. edit[t] \in EditFrame
  BY DEF TypeOK
<1>2. CASE rest = {}
  <2>1. edit' = [edit EXCEPT ![t] =
                    [edit[t] EXCEPT !.op = "unlock", !.view = 0, !.pos = 0, !.count = 0]]
    BY <1>2 DEF ScanFrom
  <2>2. edit'[t] = [edit[t] EXCEPT !.op = "unlock", !.view = 0, !.pos = 0, !.count = 0]
    BY <2>1 DEF TypeOK
  <2>3. [edit[t] EXCEPT !.op = "unlock", !.view = 0, !.pos = 0, !.count = 0] \in EditFrame
    BY <1>1 DEF EditFrame
  <2>4. edit'[t].op = "unlock" /\ edit'[t].lis = edit[t].lis /\ edit'[t].pos = 0
    BY <1>1, <2>2 DEF EditFrame
  <2>5. \A w \in vs : w <= v
    BY <1>2
  <2> QED
    BY <2>1, <2>3, <2>4, <2>5 DEF TypeOK
<1>3. CASE rest # {}
  <2>1. \E w \in rest : \A x \in rest : w <= x
    BY <1>3, LeastElement
  <2>2. next \in rest /\ \A x \in rest : next <= x
    BY <2>1
  <2>3. edit' = [edit EXCEPT ![t] =
                    [edit[t] EXCEPT !.op = "count", !.pos = 0, !.count = 0, !.view = next]]
    BY <1>3 DEF ScanFrom
  <2> HIDE DEF next
  <2>4. edit'[t] = [edit[t] EXCEPT !.op = "count", !.pos = 0, !.count = 0, !.view = next]
    BY <2>3 DEF TypeOK
  <2>5. [edit[t] EXCEPT !.op = "count", !.pos = 0, !.count = 0, !.view = next] \in EditFrame
    BY <1>1, <2>2 DEF EditFrame
  <2>6. edit'[t].op = "count" /\ edit'[t].lis = edit[t].lis /\ edit'[t].pos = 0
        /\ edit'[t].view = next
    BY <1>1, <2>4 DEF EditFrame
  <2> QED
    BY <2>2, <2>3, <2>5, <2>6 DEF TypeOK
<1> QED
  BY <1>2, <1>3

-----------------------------------------------------------------------------
(* The master list: where insertSorted puts an entry, what erase leaves.   *)

\* The two parts of a list at position n.
LEMMA SplitList ==
    ASSUME NEW S, NEW q \in Seq(S), NEW n \in 0..Len(q)
    PROVE  /\ SubSeq(q, 1, n) \in Seq(S) /\ Len(SubSeq(q, 1, n)) = n
           /\ \A i \in 1..n : SubSeq(q, 1, n)[i] = q[i]
           /\ SubSeq(q, n + 1, Len(q)) \in Seq(S)
           /\ Len(SubSeq(q, n + 1, Len(q))) = Len(q) - n
           /\ \A i \in 1..(Len(q) - n) : SubSeq(q, n + 1, Len(q))[i] = q[n + i]
<1> DEFINE L == Len(q)
<1>1. L \in Nat /\ n \in Nat /\ n <= L /\ \A i \in 1..L : q[i] \in S
  OBVIOUS
<1> HIDE DEF L
<1>2. /\ SubSeq(q, 1, n) \in Seq(S)
      /\ Len(SubSeq(q, 1, n)) = IF 1 <= n THEN n - 1 + 1 ELSE 0
      /\ \A i \in 1..(n - 1 + 1) : SubSeq(q, 1, n)[i] = q[1 + i - 1]
  <2>1. \A i \in 1..n : q[i] \in S
    BY <1>1
  <2> QED
    BY <1>1, <2>1, SubSeqProperties
<1>3. /\ SubSeq(q, n + 1, L) \in Seq(S)
      /\ Len(SubSeq(q, n + 1, L)) = IF n + 1 <= L THEN L - (n + 1) + 1 ELSE 0
      /\ \A i \in 1..(L - (n + 1) + 1) : SubSeq(q, n + 1, L)[i] = q[(n + 1) + i - 1]
  <2>1. \A i \in (n + 1)..L : q[i] \in S
    BY <1>1
  <2>2. n + 1 \in Int /\ L \in Int
    BY <1>1
  <2> QED
    BY <2>1, <2>2, SubSeqProperties
<1>4. \A i \in 1..(L - n) : SubSeq(q, n + 1, L)[i] = q[n + i]
  <2> SUFFICES ASSUME NEW i \in 1..(L - n) PROVE SubSeq(q, n + 1, L)[i] = q[n + i]
    OBVIOUS
  <2>1. i \in 1..(L - (n + 1) + 1) /\ (n + 1) + i - 1 = n + i
    BY <1>1
  <2> QED
    BY <1>3, <2>1
<1>5. \A i \in 1..n : SubSeq(q, 1, n)[i] = q[i]
  <2> SUFFICES ASSUME NEW i \in 1..n PROVE SubSeq(q, 1, n)[i] = q[i]
    OBVIOUS
  <2>1. i \in 1..(n - 1 + 1) /\ 1 + i - 1 = i
    BY <1>1
  <2> QED
    BY <1>2, <2>1
<1>6. Len(SubSeq(q, 1, n)) = n /\ Len(SubSeq(q, n + 1, L)) = L - n
  BY <1>1, <1>2, <1>3
<1> QED
  BY <1>2, <1>3, <1>4, <1>5, <1>6 DEF L

\* The list with l behind its first n entries.
InsertedAt(q, n, l) == SubSeq(q, 1, n) \o <<l>> \o SubSeq(q, n + 1, Len(q))

\* vector::insert, element by element.
LEMMA InsertedList ==
    ASSUME NEW S, NEW q \in Seq(S), NEW n \in 0..Len(q), NEW l \in S
    PROVE  /\ InsertedAt(q, n, l) \in Seq(S) /\ Len(InsertedAt(q, n, l)) = Len(q) + 1
           /\ \A i \in 1..(Len(q) + 1) :
                InsertedAt(q, n, l)[i] = IF i <= n THEN q[i] ELSE IF i = n + 1 THEN l ELSE q[i - 1]
<1> DEFINE s == InsertedAt(q, n, l)
           L == Len(q)
           a == SubSeq(q, 1, n)
           b == SubSeq(q, n + 1, L)
           c == a \o <<l>>
<1>1. L \in Nat /\ n \in Nat /\ n <= L
  OBVIOUS
<1>2. /\ a \in Seq(S) /\ Len(a) = n
      /\ \A i \in 1..n : a[i] = q[i]
  BY SplitList
<1>3. /\ b \in Seq(S) /\ Len(b) = L - n
      /\ \A i \in 1..(L - n) : b[i] = q[n + i]
  BY SplitList
<1>4. s = c \o b
  BY DEF InsertedAt
<1> HIDE DEF a, b, L, s
<1>5. <<l>> \in Seq(S) /\ Len(<<l>>) = 1 /\ <<l>>[1] = l
  OBVIOUS
<1>6. /\ c \in Seq(S) /\ Len(c) = n + 1
      /\ \A i \in 1..(n + 1) : c[i] = IF i <= n THEN a[i] ELSE <<l>>[i - n]
  BY <1>1, <1>2, <1>5, ConcatProperties
<1>7. \A i \in 1..(n + 1) : c[i] = IF i <= n THEN q[i] ELSE l
  <2> SUFFICES ASSUME NEW i \in 1..(n + 1) PROVE c[i] = IF i <= n THEN q[i] ELSE l
    OBVIOUS
  <2>1. CASE i <= n
    BY <1>1, <1>2, <1>6, <2>1
  <2>2. CASE ~(i <= n)
    <3>1. i - n = 1
      BY <1>1, <2>2
    <3> QED
      BY <1>5, <1>6, <2>2, <3>1
  <2> QED
    BY <2>1, <2>2
<1> HIDE DEF c
<1>8. /\ s \in Seq(S) /\ Len(s) = Len(c) + Len(b)
      /\ \A i \in 1..(Len(c) + Len(b)) :
            s[i] = IF i <= Len(c) THEN c[i] ELSE b[i - Len(c)]
  <2>1. c \in Seq(S) /\ b \in Seq(S)
    BY <1>3, <1>6
  <2> QED
    BY <1>4, <2>1, ConcatProperties
<1>9. Len(c) = n + 1 /\ Len(c) + Len(b) = L + 1 /\ Len(s) = L + 1
  <2>1. (n + 1) + (L - n) = L + 1
    BY <1>1
  <2> QED
    BY <1>3, <1>6, <1>8, <2>1, Zenon
<1>10. ASSUME NEW i \in 1..(L + 1)
       PROVE  s[i] = IF i <= n THEN q[i] ELSE IF i = n + 1 THEN l ELSE q[i - 1]
  <2>1. i \in 1..(Len(c) + Len(b)) /\ (s[i] = IF i <= n + 1 THEN c[i] ELSE b[i - (n + 1)])
    BY <1>8, <1>9, Zenon
  <2>2. CASE i <= n + 1
    <3>1. i \in 1..(n + 1)
      BY <1>1, <2>2
    <3>2. s[i] = c[i]
      BY <2>1, <2>2
    <3>3. i <= n \/ i = n + 1
      BY <1>1, <2>2
    <3> QED
      BY <1>1, <1>7, <3>1, <3>2, <3>3
  <2>3. CASE ~(i <= n + 1)
    <3>1. i - (n + 1) \in 1..(L - n) /\ n + (i - (n + 1)) = i - 1 /\ ~(i <= n) /\ i # n + 1
      BY <1>1, <2>3
    <3> QED
      BY <1>3, <2>1, <2>3, <3>1
  <2> QED
    BY <2>2, <2>3
<1> QED
  BY <1>8, <1>9, <1>10 DEF L, s

\* The list without its entry at k.
ErasedAt(q, k) == SubSeq(q, 1, k - 1) \o SubSeq(q, k + 1, Len(q))

\* vector::erase, element by element.
LEMMA ErasedList ==
    ASSUME NEW S, NEW q \in Seq(S), NEW k \in 1..Len(q)
    PROVE  /\ ErasedAt(q, k) \in Seq(S) /\ Len(ErasedAt(q, k)) = Len(q) - 1
           /\ \A i \in 1..(Len(q) - 1) :
                ErasedAt(q, k)[i] = IF i < k THEN q[i] ELSE q[i + 1]
<1> DEFINE s == ErasedAt(q, k)
           L == Len(q)
           a == SubSeq(q, 1, k - 1)
           b == SubSeq(q, k + 1, L)
<1>1. L \in Nat /\ k \in Nat /\ 1 <= k /\ k <= L /\ k - 1 \in 0..L /\ k \in 0..L
  OBVIOUS
<1>2. /\ a \in Seq(S) /\ Len(a) = k - 1
      /\ \A i \in 1..(k - 1) : a[i] = q[i]
  BY <1>1, SplitList
<1>3. /\ b \in Seq(S) /\ Len(b) = L - k
      /\ \A i \in 1..(L - k) : b[i] = q[k + i]
  BY <1>1, SplitList
<1>4. s = a \o b
  BY DEF ErasedAt
<1> HIDE DEF a, b, L, s
<1>5. /\ s \in Seq(S) /\ Len(s) = Len(a) + Len(b)
      /\ \A i \in 1..(Len(a) + Len(b)) :
            s[i] = IF i <= Len(a) THEN a[i] ELSE b[i - Len(a)]
  <2>1. a \in Seq(S) /\ b \in Seq(S)
    BY <1>2, <1>3
  <2> QED
    BY <1>4, <2>1, ConcatProperties
<1>6. Len(a) = k - 1 /\ Len(a) + Len(b) = L - 1 /\ Len(s) = L - 1
  <2>1. (k - 1) + (L - k) = L - 1
    BY <1>1
  <2> QED
    BY <1>2, <1>3, <1>5, <2>1, Zenon
<1>7. ASSUME NEW i \in 1..(L - 1)
      PROVE  s[i] = IF i < k THEN q[i] ELSE q[i + 1]
  <2>1. i \in 1..(L - 1) /\ (s[i] = IF i <= k - 1 THEN a[i] ELSE b[i - (k - 1)])
    BY <1>5, <1>6, Zenon
  <2>2. CASE i < k
    <3>1. i <= k - 1 /\ i \in 1..(k - 1)
      BY <1>1, <2>2
    <3> QED
      BY <1>2, <2>1, <2>2, <3>1
  <2>3. CASE ~(i < k)
    <3>1. i - (k - 1) \in 1..(L - k) /\ k + (i - (k - 1)) = i + 1 /\ ~(i <= k - 1)
      BY <1>1, <2>3
    <3> QED
      BY <1>3, <2>1, <2>3, <3>1
  <2> QED
    BY <2>2, <2>3
<1> QED
  BY <1>5, <1>6, <1>7 DEF L, s

\* upper_bound: the entries that l goes behind are counted within the list.
LEMMA InsertPosition ==
    ASSUME entries \in Seq(Listeners), NEW l \in Listeners
    PROVE  LET S == {i \in 1..Len(entries) : Prio[entries[i]] >= Prio[l]}
           IN  IsFiniteSet(S) /\ Cardinality(S) \in 0..Len(entries)
<1> DEFINE S == {i \in 1..Len(entries) : Prio[entries[i]] >= Prio[l]}
<1>0. Len(entries) \in Nat
  OBVIOUS
<1>1. IsFiniteSet(1..Len(entries)) /\ Cardinality(1..Len(entries)) = Len(entries)
  <2>1. /\ IsFiniteSet(1..Len(entries))
        /\ Cardinality(1..Len(entries)) = IF 1 > Len(entries) THEN 0 ELSE Len(entries) - 1 + 1
    BY <1>0, FS_Interval
  <2> QED
    BY <1>0, <2>1
<1>2. S \subseteq 1..Len(entries)
  OBVIOUS
<1>3. IsFiniteSet(S) /\ Cardinality(S) <= Len(entries)
  BY <1>1, <1>2, FS_Subset
<1>4. Cardinality(S) \in Nat
  BY <1>3, FS_CardinalityType
<1> QED
  BY <1>0, <1>3, <1>4

\* insertSorted_ inserts at the position upper_bound returns.
LEMMA InsertSortedAt ==
    ASSUME entries \in Seq(Listeners), NEW l \in Listeners
    PROVE  \E n \in 0..Len(entries) :
                /\ n = Cardinality({i \in 1..Len(entries) : Prio[entries[i]] >= Prio[l]})
                /\ InsertSorted(l) = InsertedAt(entries, n, l)
BY InsertPosition DEF InsertSorted, InsertedAt

\* insertSorted_ returns a list of listeners.
LEMMA InsertSortedList ==
    ASSUME entries \in Seq(Listeners), NEW l \in Listeners
    PROVE  /\ InsertSorted(l) \in Seq(Listeners)
           /\ Len(InsertSorted(l)) = Len(entries) + 1
           /\ \E n \in 0..Len(entries) :
                /\ n = Cardinality({i \in 1..Len(entries) : Prio[entries[i]] >= Prio[l]})
                /\ \A i \in 1..(Len(entries) + 1) :
                    InsertSorted(l)[i] = IF i <= n THEN entries[i]
                                         ELSE IF i = n + 1 THEN l ELSE entries[i - 1]
<1>1. PICK n \in 0..Len(entries) :
            /\ n = Cardinality({i \in 1..Len(entries) : Prio[entries[i]] >= Prio[l]})
            /\ InsertSorted(l) = InsertedAt(entries, n, l)
  BY InsertSortedAt
<1>2. /\ InsertedAt(entries, n, l) \in Seq(Listeners)
      /\ Len(InsertedAt(entries, n, l)) = Len(entries) + 1
      /\ \A i \in 1..(Len(entries) + 1) :
            InsertedAt(entries, n, l)[i] = IF i <= n THEN entries[i]
                               ELSE IF i = n + 1 THEN l ELSE entries[i - 1]
  BY InsertedList
<1> QED
  BY <1>1, <1>2

-----------------------------------------------------------------------------
(* Structure is preserved by the registration calls.                       *)

\* A registration call starts, or ends at once.
LEMMA StructureCalls ==
    ASSUME Structure, NEW t \in Threads,
           \/ \E l \in Listeners : OnDeferred(t, l) \/ On(t, l) \/ Remove(t, l)
           \/ Start(t) \/ AddListenerDeferred(t)
    PROVE  Structure'
<1>0. TypeOK /\ None \notin Threads /\ Typed \subseteq Listeners
  BY ListenerConstants, SlotConstants DEF Structure
<1>1. ASSUME NEW l \in Listeners, OnDeferred(t, l) PROVE Structure'
  <2>1. TypeOK'
    BY <1>0, <1>1, TypedStay DEF OnDeferred, TypeOK, viewVars, slotVars
  <2> QED
    BY <1>1, <2>1, StructureQuiet DEF OnDeferred, Structure, Locking, Holding
<1>2. ASSUME NEW l \in Listeners, On(t, l) PROVE Structure'
  <2>1. edit'[t] = Edit("add", l) /\ \A u \in Threads \ {t} : edit'[u] = edit[u]
    BY <1>0, <1>2 DEF On, TypeOK
  <2>2. TypeOK'
    BY <1>0, <1>2, TypedStay DEF On, TypeOK, Edit, EditFrame, registry, viewVars, slotVars
  <2> QED
    BY <1>2, <2>1, <2>2, StructureQuiet DEF On, Edit, Holding
<1>3. ASSUME NEW l \in Listeners, Remove(t, l) PROVE Structure'
  <2>1. edit'[t] = Edit("remove", l) /\ \A u \in Threads \ {t} : edit'[u] = edit[u]
    BY <1>0, <1>3 DEF Remove, TypeOK
  <2>2. TypeOK'
    BY <1>0, <1>3, TypedStay DEF Remove, TypeOK, Edit, EditFrame, registry, viewVars, slotVars
  <2> QED
    BY <1>3, <2>1, <2>2, StructureQuiet DEF Remove, Edit, Holding
<1>4. CASE Start(t)
  <2>1. /\ edit'[t] = edit[t] \/ edit'[t] = Edit("flush", None)
        /\ \A u \in Threads \ {t} : edit'[u] = edit[u]
    BY <1>0, <1>4 DEF Start, TypeOK
  <2>2. TypeOK'
    BY <1>0, <1>4, TypedStay DEF Start, TypeOK, Edit, EditFrame, viewVars, slotVars
  <2> QED
    BY <1>4, <2>1, <2>2, StructureQuiet DEF Start, Edit, Holding, Structure, Locking
<1>5. CASE AddListenerDeferred(t)
  <2>0. PICK i \in 1..Len(deferred) :
            entries' = InsertSorted(deferred[i]) /\ deferred' = ErasedAt(deferred, i)
    BY <1>5 DEF AddListenerDeferred, Without, ErasedAt
  <2>4. deferred \in Seq(Listeners)
    BY <1>0 DEF TypeOK
  <2>1. deferred[i] \in Listeners /\ ErasedAt(deferred, i) \in Seq(Listeners)
    BY <2>4, ErasedList
  <2>2. InsertSorted(deferred[i]) \in Seq(Listeners)
    BY <1>0, <2>1, InsertSortedList DEF TypeOK
  <2>3. TypeOK'
    BY <1>0, <1>5, <2>0, <2>1, <2>2, TypedStay DEF AddListenerDeferred, TypeOK, viewVars, slotVars
  <2> QED
    BY <1>5, <2>3, StructureQuiet DEF AddListenerDeferred, Structure, Locking, Holding, Editing
<1> QED
  BY <1>1, <1>2, <1>3, <1>4, <1>5

\* A registration call leaves the views, the hazard slots and the dispatches
\* alone: what is left of TypeOK is about the master list and the calls.
LEMMA TypeEdits ==
    ASSUME TypeOK, UNCHANGED <<viewVars, hazard, slotVars, disp, events>>,
           context' \in {"configured", "starting", "started", "stopped"},
           deferred' \in Seq(Listeners), late' \subseteq Listeners,
           entries' \in Seq(Listeners),
           token' \in [Listeners -> Nat \union {None}], nextToken' \in Nat,
           mutex' \in Threads \union {None}, edit' \in [Threads -> EditFrame],
           removed' \subseteq Listeners, missed' \subseteq Listeners
    PROVE  TypeOK'
BY TypedStay DEF TypeOK, viewVars, slotVars

\* A registration call edits the master list under mutex_.
LEMMA StructureEdits ==
    ASSUME Structure, NEW t \in Threads,
           AddEntry(t) \/ RemoveByToken(t) \/ FinalizeListeners(t) \/ Clear(t)
    PROVE  Structure'
<1>0. TypeOK /\ edit[t] \in EditFrame
  BY DEF Structure, TypeOK
<1>1. CASE AddEntry(t)
  <2>1. edit[t].lis \in Listeners
    BY <1>1 DEF AddEntry, Editing, Structure, Locking
  <2>2. InsertSorted(edit[t].lis) \in Seq(Listeners)
    BY <1>0, <2>1, InsertSortedList DEF TypeOK
  <2>3. /\ edit' \in [Threads -> EditFrame] /\ edit'[t].op = "publish"
        /\ \A u \in Threads \ {t} : edit'[u] = edit[u]
    BY <1>0, <1>1 DEF AddEntry, EditStep, TypeOK, EditFrame
  <2>4. token' \in [Listeners -> Nat \union {None}] /\ nextToken' \in Nat
    BY <1>0, <1>1, <2>1 DEF AddEntry, TypeOK
  <2>5. /\ mutex' = t /\ entries' \in Seq(Listeners)
        /\ UNCHANGED <<context, deferred, late, removed, missed>>
        /\ UNCHANGED <<viewVars, hazard, slotVars, disp, events>>
    BY <1>1, <2>2 DEF AddEntry
  <2>6. /\ context \in {"configured", "starting", "started", "stopped"}
        /\ deferred \in Seq(Listeners) /\ late \subseteq Listeners
        /\ removed \subseteq Listeners /\ missed \subseteq Listeners
    BY <1>0 DEF TypeOK
  <2>7. TypeOK'
    BY <1>0, <2>3, <2>4, <2>5, <2>6, TypeEdits
  <2> QED
    BY <1>1, <2>3, <2>7, StructureTaken DEF AddEntry
<1>2. CASE RemoveByToken(t)
  <2> DEFINE l == edit[t].lis
  <2>1. l \in Listeners
    BY <1>2 DEF RemoveByToken, Editing, Structure, Locking
  <2>2. CASE \E i \in 1..Len(entries) : entries[i] = l /\ entries' = Without(entries, i)
    <3>1. entries' \in Seq(Listeners)
      <4>1. PICK i \in 1..Len(entries) : entries' = ErasedAt(entries, i)
        BY <2>2 DEF Without, ErasedAt
      <4>2. entries \in Seq(Listeners)
        BY <1>0 DEF TypeOK
      <4>3. ErasedAt(entries, i) \in Seq(Listeners)
        BY <4>2, ErasedList
      <4> QED
        BY <4>1, <4>3
    <3>2. /\ removed' = removed \union {l} /\ mutex = None /\ mutex' = t
          /\ EditStep(t, "publish") /\ UNCHANGED missed
      BY <1>2, <2>2 DEF RemoveByToken
    <3>3. /\ edit' \in [Threads -> EditFrame] /\ edit'[t].op = "publish"
          /\ \A u \in Threads \ {t} : edit'[u] = edit[u]
      BY <1>0, <3>2 DEF EditStep, TypeOK, EditFrame
    <3>4. TypeOK'
      BY <1>0, <1>2, <2>1, <3>1, <3>2, <3>3, TypedStay DEF RemoveByToken, TypeOK, viewVars, slotVars
    <3> QED
      BY <1>2, <3>2, <3>3, <3>4, StructureTaken DEF RemoveByToken
  <2>3. CASE \A i \in 1..Len(entries) : entries[i] # l
    <3>1. /\ missed' = missed \union {l} /\ edit' = [edit EXCEPT ![t] = Idle]
          /\ UNCHANGED <<entries, removed, mutex>>
      BY <1>2, <2>3 DEF RemoveByToken
    <3>2. edit'[t] = Idle /\ \A u \in Threads \ {t} : edit'[u] = edit[u]
      BY <1>0, <3>1 DEF TypeOK
    <3>3. TypeOK'
      BY <1>0, <1>2, <2>1, <3>1, TypedStay DEF RemoveByToken, TypeOK, Idle, EditFrame, viewVars, slotVars
    <3> QED
      BY <1>2, <3>1, <3>2, <3>3, StructureQuiet DEF RemoveByToken, Idle, Holding
  <2> QED
    BY <1>2, <2>2, <2>3 DEF RemoveByToken
<1>3. CASE FinalizeListeners(t)
  <2>1. /\ edit' \in [Threads -> EditFrame] /\ edit'[t].op = "publish"
        /\ \A u \in Threads \ {t} : edit'[u] = edit[u]
    BY <1>0, <1>3 DEF FinalizeListeners, EditStep, TypeOK, EditFrame
  <2>2. TypeOK'
    BY <1>0, <1>3, <2>1, TypedStay DEF FinalizeListeners, TypeOK, viewVars, slotVars
  <2> QED
    BY <1>3, <2>1, <2>2, StructureTaken DEF FinalizeListeners
<1>4. CASE Clear(t)
  <2>1. /\ edit' \in [Threads -> EditFrame] /\ edit'[t].op = "unpublish"
        /\ \A u \in Threads \ {t} : edit'[u] = edit[u]
    BY <1>0, <1>4 DEF Clear, Edit, TypeOK, EditFrame
  <2>2. removed' \subseteq Listeners /\ entries' \in Seq(Listeners)
    BY <1>0, <1>4 DEF Clear, TypeOK
  <2>3. TypeOK'
    BY <1>0, <1>4, <2>1, <2>2, TypedStay DEF Clear, TypeOK, viewVars, slotVars
  <2> QED
    BY <1>4, <2>1, <2>3, StructureTaken DEF Clear
<1> QED
  BY <1>1, <1>2, <1>3, <1>4

\* The published view is replaced by v, the one before it retired.
LEMMA StructureReplaced ==
    ASSUME Structure, NEW t \in Threads, edit[t].op \in {"publish", "unpublish"},
           NEW v, v = 0 \/ v = Len(views) + 1,
           views' \in Seq(Seq(Listeners)), Len(views) <= Len(views'), v <= Len(views'),
           \A w \in 1..Len(views) : views'[w] = views[w],
           Replace(t, v),
           UNCHANGED <<registry, freed, hazard, slotVars, mutex, disp, events>>
    PROVE  Structure'
<1>0. TypeOK /\ Len(views) \in Nat /\ Len(views') \in Nat
  <2>1. TypeOK /\ views \in Seq(Seq(Listeners))
    BY DEF Structure, TypeOK
  <2> QED
    BY <2>1
<1>1. cur' = v /\ retired' = IF cur = 0 THEN retired ELSE retired \union {cur}
  BY DEF Replace
<1>2. retired' \subseteq 1..Len(views) /\ retired' \in SUBSET Nat
  BY <1>0, <1>1 DEF TypeOK
<1>3. /\ edit' \in [Threads -> EditFrame]
      /\ \A u \in Threads \ {t} : edit'[u] = edit[u]
      /\ edit'[t].op \in {"count", "unlock"}
      /\ edit'[t].op = "count" => edit'[t].view \in retired'
  <2>1. ScanFrom(t, retired', 0) /\ edit[t].op \in Holding
    BY DEF Replace, Holding
  <2> QED
    BY <1>0, <1>2, <2>1, ScanFromEdit
<1>4. mutex = t /\ \A u \in Threads \ {t} : edit[u].op \notin Holding
  BY DEF Structure, Locking, Holding
<1>5. \A u \in Threads : \A i \in 1..Len(disp[u]) : ~disp[u][i].locked
  BY <1>4 DEF Structure, Locking, Holding, FramesOK, FrameOK
<1>6. TypeOK'
  <2>1. cur' \in 0..Len(views') /\ retired' \subseteq 1..Len(views') /\ freed' \subseteq 1..Len(views')
    BY <1>0, <1>1, <1>2 DEF TypeOK
  <2>2. hazard' \in [Slots -> 0..Len(views')]
    BY <1>0 DEF TypeOK
  <2> QED
    BY <1>0, <1>3, <2>1, <2>2, TypedStay DEF TypeOK, registry, slotVars
<1>7. FramesOK'
  <2> SUFFICES ASSUME NEW u \in Threads, NEW i \in 1..Len(disp[u])
               PROVE  FrameOK(u, disp[u][i])'
    BY DEF FramesOK
  <2>1. FrameOK(u, disp[u][i])
    BY DEF Structure, FramesOK
  <2> QED
    BY <1>0, <1>5, <2>1 DEF FrameOK, slotVars
<1>8. Nesting' /\ SlotsOwned'
  BY KnownStay DEF Structure, Nesting, SlotsOwned, slotVars, Top
<1>9. Locking'
  BY <1>3, <1>4, <1>5 DEF Structure, Locking, Holding
<1>10. ViewsOK'
  <2>1. cur' \notin retired' /\ cur' \notin freed'
    BY <1>0, <1>1, <1>2 DEF TypeOK
  <2>2. retired' \cap freed' = {}
    BY <1>1 DEF Structure, ViewsOK
  <2>3. \A u \in Threads : /\ edit'[u].op \in {"count", "scan"} => edit'[u].view \in retired'
                            /\ edit'[u].op # "scan"
    BY <1>3, <1>4 DEF Holding
  <2> QED
    BY <2>1, <2>2, <2>3 DEF ViewsOK
<1> QED
  BY <1>6, <1>7, <1>8, <1>9, <1>10 DEF Structure

\* The view is replaced, the retired ones are scanned, mutex_ is released.
LEMMA StructureScan ==
    ASSUME Structure, NEW t \in Threads,
           \/ RebuildView(t) \/ Unpublish(t) \/ LoadCount(t) \/ ScanSlot(t) \/ FreeView(t)
           \/ Unlock(t)
    PROVE  Structure'
<1>0. TypeOK /\ edit[t] \in EditFrame /\ retired \in SUBSET Nat
  <2>1. TypeOK /\ edit[t] \in EditFrame
    BY DEF Structure, TypeOK
  <2>2. retired \subseteq 1..Len(views)
    BY <2>1 DEF TypeOK
  <2> QED
    BY <2>1, <2>2
<1>1. CASE RebuildView(t)
  <2>1. entries \in Seq(Listeners) /\ views \in Seq(Seq(Listeners))
    BY <1>0 DEF TypeOK
  <2>2. /\ views' \in Seq(Seq(Listeners)) /\ Len(views') = Len(views) + 1
        /\ \A w \in 1..Len(views) : views'[w] = views[w]
    BY <1>1, <2>1 DEF RebuildView
  <2>3. Len(views) \in Nat
    BY <2>1
  <2>4. edit[t].op \in {"publish", "unpublish"} /\ Replace(t, Len(views) + 1)
        /\ UNCHANGED <<registry, freed, hazard, slotVars, mutex, disp, events>>
    BY <1>1 DEF RebuildView, Editing
  <2>5. Len(views) <= Len(views') /\ Len(views) + 1 <= Len(views')
    BY <2>2, <2>3
  <2> QED
    BY <2>2, <2>4, <2>5, StructureReplaced
<1>2. CASE Unpublish(t)
  <2>1. views \in Seq(Seq(Listeners)) /\ Len(views) \in Nat
    BY <1>0 DEF TypeOK
  <2>2. edit[t].op \in {"publish", "unpublish"} /\ Replace(t, 0) /\ views' = views
        /\ UNCHANGED <<registry, freed, hazard, slotVars, mutex, disp, events>>
    BY <1>2 DEF Unpublish, Editing
  <2>3. Len(views) <= Len(views') /\ 0 <= Len(views')
    BY <2>1, <2>2
  <2> QED
    BY <2>1, <2>2, <2>3, StructureReplaced
<1>6. CASE LoadCount(t)
  <2>1. published \in Nat
    BY <1>0, SlotConstants DEF TypeOK, SlotsTyped
  <2>2. /\ edit'[t] = [edit[t] EXCEPT !.op = "scan", !.count = published]
        /\ \A u \in Threads \ {t} : edit'[u] = edit[u]
    BY <1>0, <1>6 DEF LoadCount, TypeOK
  <2>3. [edit[t] EXCEPT !.op = "scan", !.count = published] \in EditFrame
        /\ edit'[t].op = "scan" /\ edit'[t].view = edit[t].view /\ edit'[t].count = published
    BY <1>0, <2>1, <2>2 DEF EditFrame
  <2>4. edit' \in [Threads -> EditFrame]
    BY <1>0, <1>6, <2>2, <2>3 DEF LoadCount, TypeOK
  <2>5. TypeOK'
    BY <1>0, <1>6, <2>4, TypedStay DEF LoadCount, TypeOK, registry, viewVars, slotVars
  <2>6. FramesOK' /\ Nesting' /\ SlotsOwned'
    BY <1>6, KnownStay DEF LoadCount, Structure, FramesOK, FrameOK, Nesting, SlotsOwned, Top, viewVars,
       slotVars
  <2>7. edit[t].op = "count" /\ published <= published
    BY <1>6, <2>1 DEF LoadCount, Editing
  <2>8. Locking'
    BY <1>6, <2>2, <2>3, <2>7 DEF LoadCount, Structure, Locking, Holding
  <2>9. ViewsOK'
    <3>1. UNCHANGED <<cur, retired, freed, published>>
      BY <1>6 DEF LoadCount, viewVars, slotVars
    <3>2. \A u \in Threads : edit'[u].op \in {"count", "scan"} => edit'[u].view \in retired
      BY <2>2, <2>3, <2>7 DEF Structure, ViewsOK
    <3>3. \A u \in Threads : edit'[u].op = "scan" => edit'[u].count <= published
      BY <2>2, <2>3, <2>7 DEF Structure, ViewsOK
    <3> QED
      BY <3>1, <3>2, <3>3 DEF Structure, ViewsOK
  <2> QED
    BY <2>5, <2>6, <2>8, <2>9 DEF Structure
<1>3. CASE ScanSlot(t)
  <2>1. /\ edit' \in [Threads -> EditFrame]
        /\ \A u \in Threads \ {t} : edit'[u] = edit[u]
        /\ edit'[t].op \in {"count", "scan", "unlock"}
        /\ edit'[t].op \in {"count", "scan"} => edit'[t].view \in retired
        /\ edit'[t].op = "scan" => edit'[t].count <= published
    <3>1. CASE ScanFrom(t, retired, edit[t].view)
      <4>1. edit[t].op \in Holding
        BY <1>3 DEF ScanSlot, Editing, Holding
      <4>2. retired \in SUBSET Nat /\ edit[t].view \in Nat
        BY <1>0 DEF EditFrame
      <4> QED
        BY <1>0, <3>1, <4>1, <4>2, ScanFromEdit
    <3>2. CASE edit' = [edit EXCEPT ![t].pos = @ + 1]
      <4>1. edit'[t] = [edit[t] EXCEPT !.pos = edit[t].pos + 1]
            /\ \A u \in Threads \ {t} : edit'[u] = edit[u]
        BY <1>0, <3>2 DEF TypeOK
      <4>2. [edit[t] EXCEPT !.pos = edit[t].pos + 1] \in EditFrame
            /\ edit'[t].op = edit[t].op /\ edit'[t].view = edit[t].view
            /\ edit'[t].count = edit[t].count
        BY <1>0, <4>1 DEF EditFrame
      <4>3. edit' \in [Threads -> EditFrame]
        BY <1>0, <3>2, <4>1, <4>2 DEF TypeOK
      <4> QED
        BY <1>3, <4>1, <4>2, <4>3 DEF ScanSlot, Editing, Structure, ViewsOK
    <3> QED
      BY <1>3, <3>1, <3>2 DEF ScanSlot
  <2>2. TypeOK'
    BY <1>0, <1>3, <2>1, TypedStay DEF ScanSlot, TypeOK, registry, viewVars, slotVars
  <2>3. FramesOK' /\ Nesting' /\ SlotsOwned'
    BY <1>3, KnownStay DEF ScanSlot, Structure, FramesOK, FrameOK, Nesting, SlotsOwned, Top, viewVars, slotVars
  <2>4. Locking' /\ ViewsOK'
    BY <1>3, <2>1 DEF ScanSlot, Structure, Locking, ViewsOK, Holding, Editing, viewVars, slotVars
  <2> QED
    BY <2>2, <2>3, <2>4 DEF Structure
<1>4. CASE FreeView(t)
  <2>1. mutex = t /\ edit[t].view \in retired 
        /\ \A u \in Threads \ {t} : edit[u].op \notin {"count", "scan"}
    BY <1>4 DEF FreeView, Editing, Structure, Locking, ViewsOK, Holding
  <2>2. /\ edit' \in [Threads -> EditFrame]
        /\ \A u \in Threads \ {t} : edit'[u] = edit[u]
        /\ edit'[t].op \in {"count", "unlock"}
        /\ edit'[t].op = "count" => edit'[t].view \in retired /\ edit'[t].view > edit[t].view
    <3>1. ScanFrom(t, retired, edit[t].view) /\ edit[t].op \in Holding
      BY <1>4 DEF FreeView, Editing, Holding
    <3>2. retired \in SUBSET Nat /\ edit[t].view \in Nat
      BY <1>0 DEF EditFrame
    <3> QED
      BY <1>0, <3>1, <3>2, ScanFromEdit
  <2>3. edit'[t].op = "count" => edit'[t].view \in retired'
    BY <1>0, <1>4, <2>2 DEF FreeView, EditFrame
  <2>4. TypeOK'
    BY <1>0, <1>4, <2>1, <2>2, TypedStay DEF FreeView, TypeOK, registry, slotVars
  <2>5. FramesOK' /\ Nesting' /\ SlotsOwned'
    BY <1>4, KnownStay DEF FreeView, Structure, FramesOK, FrameOK, Nesting, SlotsOwned, Top, slotVars
  <2>6. Locking'
    BY <1>4, <2>2 DEF FreeView, Structure, Locking, Holding, Editing
  <2>7. ViewsOK'
    <3>1. cur' \notin retired' /\ cur' \notin freed' /\ retired' \cap freed' = {}
      BY <1>4, <2>1 DEF FreeView, Structure, ViewsOK
    <3> QED
      BY <2>1, <2>2, <2>3, <3>1 DEF ViewsOK
  <2> QED
    BY <2>4, <2>5, <2>6, <2>7 DEF Structure
<1>5. CASE Unlock(t)
  <2>1. /\ mutex = t /\ mutex' = None
        /\ \A u \in Threads \ {t} : edit[u].op \notin Holding
    BY <1>5 DEF Unlock, Editing, Structure, Locking, Holding
  <2>2. \A u \in Threads : \A i \in 1..Len(disp[u]) : ~disp[u][i].locked
    BY <1>5, <2>1 DEF Unlock, Editing, Structure, Locking, Holding, FramesOK, FrameOK
  <2>3. edit'[t] = Idle /\ \A u \in Threads \ {t} : edit'[u] = edit[u]
    BY <1>0, <1>5 DEF Unlock, TypeOK
  <2>4. TypeOK'
    BY <1>0, <1>5, TypedStay DEF Unlock, TypeOK, Idle, EditFrame, registry, viewVars, slotVars
  <2>5. FramesOK'
    <3> SUFFICES ASSUME NEW u \in Threads, NEW i \in 1..Len(disp[u])
                 PROVE  FrameOK(u, disp[u][i])'
      BY <1>5 DEF Unlock, FramesOK
    <3>1. FrameOK(u, disp[u][i])
      BY DEF Structure, FramesOK
    <3> QED
      BY <1>5, <2>2, <3>1 DEF Unlock, FrameOK, viewVars, slotVars
  <2>6. Nesting' /\ SlotsOwned'
    BY <1>5, KnownStay DEF Unlock, Structure, Nesting, SlotsOwned, Top, slotVars
  <2>7. Locking' /\ ViewsOK'
    BY <1>5, <2>1, <2>3 DEF Unlock, Structure, Locking, ViewsOK, Idle, Holding, viewVars, slotVars
  <2> QED
    BY <2>4, <2>5, <2>6, <2>7 DEF Structure
<1> QED
  BY <1>1, <1>2, <1>3, <1>4, <1>5, <1>6

-----------------------------------------------------------------------------
(* Structure is preserved by dispatch.                                     *)

\* What FramesOK says of the frame that is about to move.
LEMMA TopOK ==
    ASSUME Structure, NEW t \in Threads, disp[t] # <<>>
    PROVE  FrameOK(t, Top(t)) /\ Top(t) \in DispatchFrame
<1>1. TypeOK
  BY DEF Structure
<1>2. Top(t) = disp[t][Len(disp[t])] /\ Len(disp[t]) \in 1..Len(disp[t])
      /\ Top(t) \in DispatchFrame
  BY <1>1, TopFrame
<1> QED
  BY <1>2 DEF Structure, FramesOK

\* The top frame becomes f and nothing else than a hazard slot changes.
LEMMA StructureMoved ==
    ASSUME Structure, NEW t \in Threads, disp[t] # <<>>, Top(t).op # "slot",
           NEW f \in DispatchFrame, Goto(t, f), f.locked = Top(t).locked, FrameOK(t, f)',
           hazard' \in [Slots -> 0..Len(views)],
           UNCHANGED <<registry, viewVars, slotVars, mutex, edit, events>>
    PROVE  Structure'
<1>0. TypeOK /\ Top(t) = disp[t][Len(disp[t])] /\ Len(disp[t]) \in Nat \ {0}
  BY TopFrame DEF Structure
<1>1. /\ disp' \in [Threads -> Seq(DispatchFrame)] /\ OthersSame(t)
      /\ Len(disp'[t]) = Len(disp[t])
      /\ \A i \in 1..Len(disp[t]) :
            disp'[t][i] = IF i = Len(disp[t]) THEN f ELSE disp[t][i]
      /\ disp'[t] # <<>> /\ Top(t)' = f
  BY <1>0, GotoFrames
<1>2. TypeOK'
  BY <1>0, <1>1, TypedStay DEF TypeOK, registry, viewVars, slotVars
<1>3. FramesOK'
  <2> SUFFICES ASSUME NEW u \in Threads, NEW i \in 1..Len(disp'[u])
               PROVE  FrameOK(u, disp[u][i])'
    BY DEF FramesOK
  <2>1. CASE u = t /\ i = Len(disp[t])
    BY <1>1, <2>1
  <2>2. CASE ~(u = t /\ i = Len(disp[t]))
    <3>1. i \in 1..Len(disp[u]) /\ disp'[u][i] = disp[u][i]
      BY <1>1, <2>2 DEF OthersSame
    <3>2. FrameOK(u, disp[u][i])
      BY <3>1 DEF Structure, FramesOK
    <3> QED
      BY <3>1, <3>2 DEF FrameOK, viewVars, slotVars
  <2> QED
    BY <2>1, <2>2
<1>4. \A u \in Threads : Len(disp'[u]) = Len(disp[u])
      /\ \A i \in 1..Len(disp[u]) : disp'[u][i].locked = disp[u][i].locked
  BY <1>0, <1>1 DEF OthersSame
<1>5. Nesting'
  <2>1. \A u \in Threads : \A i \in 1..Len(disp'[u]) : i < Len(disp'[u]) => disp'[u][i].op = "call"
    BY <1>1 DEF Structure, Nesting, OthersSame
  <2>2. \A u \in Threads : \A i, j \in 1..Len(disp'[u]) :
            disp'[u][i].locked /\ disp'[u][j].locked => i = j
    BY <1>4 DEF Structure, Nesting
  <2> QED
    BY <2>1, <2>2 DEF Nesting
<1>6. Locking'
  BY <1>4 DEF Structure, Locking
<1>7. SlotsOwned'
  <2>1. \A u \in Threads \ {t} : disp'[u] = disp[u] /\ Top(u)' = Top(u)
    BY <1>1 DEF OthersSame, Top
  <2> QED
    BY <2>1, KnownStay DEF Structure, SlotsOwned, slotVars
<1>8. ViewsOK'
  BY DEF Structure, ViewsOK, viewVars, slotVars
<1> QED
  BY <1>2, <1>3, <1>5, <1>6, <1>7, <1>8 DEF Structure

\* The top frame returns; if it holds the mutex, it releases it.
LEMMA StructureFinished ==
    ASSUME Structure, NEW t \in Threads, disp[t] # <<>>, Top(t).op # "slot",
           edit[t].op = "idle", Finish(t),
           mutex' = IF Top(t).locked THEN None ELSE mutex,
           hazard' \in [Slots -> 0..Len(views)],
           UNCHANGED <<registry, viewVars, slotVars, edit, events>>
    PROVE  Structure'
<1>0. TypeOK /\ Top(t) = disp[t][Len(disp[t])] /\ Len(disp[t]) \in Nat \ {0}
      /\ Len(disp[t]) \in 1..Len(disp[t])
  BY TopFrame DEF Structure
<1>1. /\ disp' \in [Threads -> Seq(DispatchFrame)] /\ OthersSame(t)
      /\ Len(disp'[t]) = Len(disp[t]) - 1
      /\ \A i \in 1..Len(disp[t]) - 1 : disp'[t][i] = disp[t][i]
  BY <1>0, FinishFrames
<1>2. TypeOK'
  BY <1>0, <1>1, TypedStay DEF TypeOK, registry, viewVars, slotVars
<1>3. ASSUME NEW u \in Threads, NEW i \in 1..Len(disp'[u])
      PROVE  i \in 1..Len(disp[u]) /\ disp'[u][i] = disp[u][i]
             /\ (u = t => i < Len(disp[t]))
  BY <1>0, <1>1 DEF OthersSame
<1>4. Top(t).locked => /\ mutex = t
                       /\ \A u \in Threads : \A i \in 1..Len(disp'[u]) : ~disp'[u][i].locked
                       /\ \A u \in Threads : edit[u].op \notin Holding
  <2>1. SUFFICES ASSUME Top(t).locked
                 PROVE  /\ mutex = t
                        /\ \A u \in Threads : \A i \in 1..Len(disp'[u]) : ~disp'[u][i].locked
                        /\ \A u \in Threads : edit[u].op \notin Holding
    OBVIOUS
  <2>2. mutex = t
    BY <2>1, TopOK DEF FrameOK
  <2>3. ASSUME NEW u \in Threads, NEW i \in 1..Len(disp'[u]) PROVE ~disp'[u][i].locked
    <3>1. i \in 1..Len(disp[u]) /\ disp'[u][i] = disp[u][i] /\ (u = t => i < Len(disp[t]))
      BY <1>3
    <3>2. CASE u = t
      BY <1>0, <2>1, <3>1, <3>2 DEF Structure, Nesting
    <3>3. CASE u # t
      BY <2>2, <3>1, <3>3 DEF Structure, FramesOK, FrameOK
    <3> QED
      BY <3>2, <3>3
  <2>4. \A u \in Threads : edit[u].op \notin Holding
    BY <2>2 DEF Structure, Locking, Holding
  <2> QED
    BY <2>2, <2>3, <2>4
<1>5. FramesOK'
  <2> SUFFICES ASSUME NEW u \in Threads, NEW i \in 1..Len(disp'[u])
               PROVE  FrameOK(u, disp[u][i])'
    BY DEF FramesOK
  <2>1. i \in 1..Len(disp[u]) /\ disp'[u][i] = disp[u][i]
    BY <1>3
  <2>2. FrameOK(u, disp[u][i])
    BY <2>1 DEF Structure, FramesOK
  <2> QED
    BY <1>4, <2>1, <2>2 DEF FrameOK, viewVars, slotVars
<1>6. Nesting'
  <2> SUFFICES ASSUME NEW u \in Threads
               PROVE  /\ \A i \in 1..Len(disp'[u]) : i < Len(disp'[u]) => disp'[u][i].op = "call"
                      /\ \A i, j \in 1..Len(disp'[u]) :
                            disp'[u][i].locked /\ disp'[u][j].locked => i = j
    BY DEF Nesting
  <2>1. Len(disp'[u]) <= Len(disp[u]) /\ Len(disp[u]) \in Nat /\ Len(disp'[u]) \in Nat
    <3>1. disp[u] \in Seq(DispatchFrame) /\ disp'[u] \in Seq(DispatchFrame)
      BY <1>0, <1>1 DEF TypeOK
    <3>2. Len(disp[u]) \in Nat /\ Len(disp'[u]) \in Nat
      BY <3>1
    <3> QED
      BY <1>1, <3>2 DEF OthersSame
  <2> QED
    BY <1>3, <2>1 DEF Structure, Nesting
<1>7. Locking'
  BY <1>3, <1>4 DEF Structure, Locking
<1>8. SlotsOwned'
  <2>1. \A u \in Threads \ {t} : disp'[u] = disp[u] /\ Top(u)' = Top(u)
    BY <1>1 DEF OthersSame, Top
  <2> QED
    BY <2>1, KnownStay DEF Structure, SlotsOwned, slotVars
<1>9. ViewsOK'
  BY DEF Structure, ViewsOK, viewVars, slotVars
<1> QED
  BY <1>2, <1>5, <1>6, <1>7, <1>8, <1>9 DEF Structure

\* An event starts, calls a listener, returns from one or ends.
LEMMA StructureDispatch ==
    ASSUME Structure, NEW t \in Threads, NEW sc \in Scopes, Dispatch(t, sc)
    PROVE  Structure'
<1> DEFINE f == [op |-> IF slot[t] = None THEN "slot" ELSE "load", scope |-> sc, view |-> 0,
                 pos |-> 1, locked |-> FALSE, heard |-> <<>>, due |-> Contents(cur),
                 gone |-> Gone]
<1>0. TypeOK /\ edit[t].op = "idle" /\ (disp[t] # <<>> => Top(t).op = "call")
      /\ stage[t] = "idle"
  BY DEF Structure, Dispatch, UserCode
<1>1. Contents(cur) \subseteq Listeners /\ Gone \subseteq Listeners
  <2>1. cur \in 0..Len(views) /\ views \in Seq(Seq(Listeners)) /\ removed \subseteq Listeners
    BY <1>0 DEF TypeOK
  <2>2. cur # 0 => views[cur] \in Seq(Listeners)
    BY <2>1
  <2> QED
    BY <2>1, <2>2 DEF Contents, Gone
<1>2. f \in DispatchFrame
  BY <1>1 DEF DispatchFrame
<1>3. disp' = [disp EXCEPT ![t] = Append(@, f)]
  BY DEF Dispatch
<1>4. f.op \in {"slot", "load"} /\ (f.op = "slot" <=> slot[t] = None) /\ f.pos = 1 /\ ~f.locked
  OBVIOUS
<1> HIDE DEF f
<1>5. /\ disp' \in [Threads -> Seq(DispatchFrame)] /\ OthersSame(t)
      /\ Len(disp'[t]) = Len(disp[t]) + 1
      /\ \A i \in 1..Len(disp[t]) : disp'[t][i] = disp[t][i]
      /\ disp'[t][Len(disp[t]) + 1] = f
      /\ disp'[t] # <<>> /\ Top(t)' = f
  BY <1>0, <1>2, <1>3, DispatchFrames
<1>6. /\ events[t] < MaxEvents /\ events' = [events EXCEPT ![t] = @ + 1]
      /\ UNCHANGED <<registry, viewVars, hazard, slotVars, mutex, edit>>
  BY DEF Dispatch
<1>7. events' \in [Threads -> 0..MaxEvents]
  BY <1>0, <1>6, ListenerConstants, SlotConstants DEF TypeOK
<1>8. TypeOK'
  BY <1>0, <1>5, <1>6, <1>7, TypedStay DEF TypeOK, registry, viewVars, slotVars
<1>9. \A u \in Threads : disp[u] \in Seq(DispatchFrame) /\ Len(disp[u]) \in Nat
  BY <1>0 DEF TypeOK
<1>10. ASSUME NEW u \in Threads, NEW i \in 1..Len(disp'[u])
       PROVE  \/ u = t /\ i = Len(disp[t]) + 1 /\ disp'[u][i] = f
              \/ i \in 1..Len(disp[u]) /\ disp'[u][i] = disp[u][i]
  BY <1>5, <1>9 DEF OthersSame
<1>11. FramesOK'
  <2> SUFFICES ASSUME NEW u \in Threads, NEW i \in 1..Len(disp'[u])
               PROVE  FrameOK(u, disp[u][i])'
    BY DEF FramesOK
  <2>1. CASE u = t /\ disp'[u][i] = f
    BY <1>4, <1>6, <2>1 DEF FrameOK, slotVars
  <2>2. CASE i \in 1..Len(disp[u]) /\ disp'[u][i] = disp[u][i]
    <3>1. FrameOK(u, disp[u][i])
      BY <2>2 DEF Structure, FramesOK
    <3> QED
      BY <1>6, <2>2, <3>1 DEF FrameOK, viewVars, slotVars
  <2> QED
    BY <1>10, <2>1, <2>2
<1>12. Nesting'
  <2>1. ASSUME NEW u \in Threads, NEW i \in 1..Len(disp'[u]), i < Len(disp'[u])
        PROVE  disp'[u][i].op = "call"
    <3>1. CASE u = t
      <4>1. i \in 1..Len(disp[t]) /\ disp'[t][i] = disp[t][i]
        BY <1>5, <1>9, <2>1, <3>1
      <4>2. CASE i = Len(disp[t])
        BY <1>0, <1>9, <4>1, <4>2, <3>1 DEF Top
      <4>3. CASE i < Len(disp[t])
        BY <4>1, <4>3, <3>1 DEF Structure, Nesting
      <4> QED
        BY <1>9, <4>1, <4>2, <4>3
    <3>2. CASE u # t
      BY <1>5, <2>1, <3>2 DEF OthersSame, Structure, Nesting
    <3> QED
      BY <3>1, <3>2
  <2>2. ASSUME NEW u \in Threads, NEW i \in 1..Len(disp'[u]), NEW j \in 1..Len(disp'[u]),
               disp'[u][i].locked, disp'[u][j].locked
        PROVE  i = j
    BY <1>4, <1>10, <2>2 DEF Structure, Nesting
  <2> QED
    BY <2>1, <2>2 DEF Nesting
<1>13. Locking'
  <2> SUFFICES ASSUME NEW u \in Threads, edit[u].op \in Holding
               PROVE  mutex = u /\ \A i \in 1..Len(disp'[u]) : ~disp'[u][i].locked
    BY <1>6 DEF Structure, Locking
  <2> QED
    BY <1>4, <1>10 DEF Structure, Locking
<1>14. SlotsOwned'
  <2>1. \A u \in Threads \ {t} : disp'[u] = disp[u] /\ Top(u)' = Top(u)
    BY <1>5 DEF OthersSame, Top
  <2> QED
    BY <1>0, <1>6, <2>1, KnownStay DEF Structure, SlotsOwned, slotVars
<1>15. ViewsOK'
  BY <1>6 DEF Structure, ViewsOK, viewVars, slotVars
<1> QED
  BY <1>8, <1>11, <1>12, <1>13, <1>14, <1>15 DEF Structure

\* What a step of acquire() or of release() does to the slots of all threads.
LEMMA SlotSteps ==
    ASSUME SlotsKnown, NEW t \in Threads, Acquire(t) \/ ReleaseSlot(t) \/ Recycle(t)
    PROVE  /\ SlotsKnown' /\ SlotsTyped' /\ nextSlot <= nextSlot' /\ published <= published'
           /\ \A u \in Threads \ {t} : slot'[u] = slot[u] /\ stage'[u] = stage[u]
           /\ Acquire(t) => /\ slot[t] # None => slot'[t] = slot[t]
                            /\ stage'[t] \in {"idle", "next", "swap", "new", "count"}
           /\ ReleaseSlot(t) \/ Recycle(t) => stage'[t] \in {"idle", "link", "push"}
<1>1. SlotsKnown' /\ SlotsTyped'
  BY SlotsKnownStep DEF SlotNext, SlotsKnown
<1>2. /\ slot \in [Threads -> Slots \union {None}] /\ stage \in [Threads -> Stages]
      /\ nextSlot \in Nat /\ published \in Nat
      /\ slot[t] \in Nat \/ slot[t] = None
  <2>1. /\ slot \in [Threads -> Slots \union {None}] /\ stage \in [Threads -> Stages]
        /\ nextSlot \in 0..NumSlots /\ published \in 0..NumSlots
    BY DEF SlotsKnown, SlotsTyped
  <2>2. nextSlot \in Nat /\ published \in Nat
    BY <2>1, SlotNumbers
  <2> QED
    BY <2>1, <2>2, SlotNumbers
<1>3. CASE LoadHead(t) \/ LoadNext(t)
  BY <1>1, <1>2, <1>3 DEF LoadHead, PopFrom, LoadNext, Acquire, ReleaseSlot, Recycle, LinkSlot,
     PushSlot
<1>4. CASE PopSlot(t)
  <2>1. slot[t] = None
    BY <1>4 DEF PopSlot, SlotsKnown
  <2> QED
    BY <1>1, <1>2, <1>4, <2>1 DEF PopSlot, Popped, PopFrom, ReleaseSlot, Recycle, LinkSlot, PushSlot
<1>5. CASE NewSlot(t)
  <2>1. slot[t] = None
    BY <1>5 DEF NewSlot, SlotsKnown
  <2> QED
    BY <1>1, <1>2, <1>5, <2>1 DEF NewSlot, ReleaseSlot, Recycle, LinkSlot, PushSlot
<1>6. CASE PublishSlotCount(t)
  <2>1. slot[t] \in Nat
    BY <1>2, <1>6 DEF PublishSlotCount, SlotsKnown
  <2> QED
    BY <1>1, <1>2, <1>6, <2>1 DEF PublishSlotCount, ReleaseSlot, Recycle, LinkSlot, PushSlot
<1>7. CASE ReleaseSlot(t) \/ Recycle(t)
  BY <1>1, <1>2, <1>7 DEF ReleaseSlot, Recycle, LinkSlot, PushSlot, Pushed, Acquire, LoadHead, LoadNext,
     PopSlot, NewSlot, PublishSlotCount
<1> QED
  BY <1>3, <1>4, <1>5, <1>6, <1>7 DEF Acquire

\* A step of acquire() that moves the top frame on or leaves it at its place.
LEMMA StructureSlot ==
    ASSUME Structure, NEW t \in Threads, disp[t] # <<>>, Top(t).op = "slot",
           NEW f \in DispatchFrame, Goto(t, f), ~f.locked, FrameOK(t, f)',
           slot[t] # None => slot'[t] = slot[t],
           \A u \in Threads \ {t} : slot'[u] = slot[u] /\ stage'[u] = stage[u],
           SlotsTyped', SlotsKnown', published <= published',
           stage'[t] # "idle" => f.op = "slot", stage'[t] \notin {"link", "push"},
           UNCHANGED <<registry, viewVars, hazard, mutex, edit, events>>
    PROVE  Structure'
<1>0. TypeOK /\ Top(t) = disp[t][Len(disp[t])] /\ Len(disp[t]) \in Nat \ {0}
      /\ Top(t) \in DispatchFrame
  BY TopFrame DEF Structure
<1>1. /\ disp' \in [Threads -> Seq(DispatchFrame)] /\ OthersSame(t)
      /\ Len(disp'[t]) = Len(disp[t])
      /\ \A i \in 1..Len(disp[t]) :
            disp'[t][i] = IF i = Len(disp[t]) THEN f ELSE disp[t][i]
      /\ disp'[t] # <<>> /\ Top(t)' = f
  BY <1>0, GotoFrames
<1>2. TypeOK'
  BY <1>0, <1>1 DEF TypeOK, registry, viewVars
<1>3. ~Top(t).locked
  BY TopOK DEF FrameOK
<1>4. \A u \in Threads : Len(disp'[u]) = Len(disp[u])
      /\ \A i \in 1..Len(disp[u]) : disp'[u][i].locked => disp[u][i].locked
  BY <1>1 DEF OthersSame
<1>5. FramesOK'
  <2> SUFFICES ASSUME NEW u \in Threads, NEW i \in 1..Len(disp'[u])
               PROVE  FrameOK(u, disp[u][i])'
    BY DEF FramesOK
  <2>1. CASE u = t /\ i = Len(disp[t])
    BY <1>1, <2>1
  <2>2. CASE ~(u = t /\ i = Len(disp[t]))
    <3>1. i \in 1..Len(disp[u]) /\ disp'[u][i] = disp[u][i]
      BY <1>1, <2>2 DEF OthersSame
    <3>2. FrameOK(u, disp[u][i])
      BY <3>1 DEF Structure, FramesOK
    <3>3. u = t => disp[u][i].op = "call"
      BY <1>0, <2>2, <3>1 DEF Structure, Nesting
    <3> QED
      BY <3>1, <3>2, <3>3 DEF FrameOK, viewVars
  <2> QED
    BY <2>1, <2>2
<1>6. Nesting'
  <2>1. \A u \in Threads : \A i \in 1..Len(disp'[u]) : i < Len(disp'[u]) => disp'[u][i].op = "call"
    BY <1>1 DEF Structure, Nesting, OthersSame
  <2>2. \A u \in Threads : \A i, j \in 1..Len(disp'[u]) :
            disp'[u][i].locked /\ disp'[u][j].locked => i = j
    BY <1>4 DEF Structure, Nesting
  <2> QED
    BY <2>1, <2>2 DEF Nesting
<1>7. Locking'
  BY <1>4 DEF Structure, Locking
<1>8. ViewsOK'
  <2>1. published \in Nat /\ published' \in Nat /\ \A u \in Threads : edit[u].count \in Nat
    BY <1>0, SlotConstants DEF TypeOK, SlotsTyped, EditFrame
  <2> QED
    BY <2>1 DEF Structure, ViewsOK, viewVars
<1>9. SlotsOwned'
  <2>1. \A u \in Threads \ {t} : disp'[u] = disp[u] /\ Top(u)' = Top(u)
    BY <1>1 DEF OthersSame, Top
  <2> QED
    BY <1>1, <2>1 DEF Structure, SlotsOwned
<1> QED
  BY <1>2, <1>5, <1>6, <1>7, <1>8, <1>9 DEF Structure

\* A slot is taken, step by step.
LEMMA StructureAcquires ==
    ASSUME Structure, NEW t \in Threads, AcquireSlot(t)
    PROVE  Structure'
<1>0. /\ disp[t] # <<>> /\ Top(t).op = "slot" /\ Top(t) \in DispatchFrame /\ FrameOK(t, Top(t))
      /\ Acquire(t) /\ TypeOK /\ SlotsKnown
      /\ UNCHANGED <<registry, viewVars, hazard, mutex, edit, events>>
  BY TopOK DEF AcquireSlot, At, Structure, SlotsOwned
<1>1. /\ SlotsKnown' /\ SlotsTyped' /\ published <= published'
      /\ \A u \in Threads \ {t} : slot'[u] = slot[u] /\ stage'[u] = stage[u]
      /\ slot[t] # None => slot'[t] = slot[t]
      /\ stage'[t] \in {"idle", "next", "swap", "new", "count"}
  BY <1>0, SlotSteps
<1>2. ASSUME NEW op \in {"slot", "load", "lock"}, Step(t, op),
             stage'[t] # "idle" => op = "slot", op = "load" => slot'[t] # None,
             op = "slot" => slot'[t] = None \/ stage'[t] = "count"
      PROVE  Structure'
  <2>1. op \in {"slot", "load", "protect", "recheck", "lock", "run", "call", "throw"}
    OBVIOUS
  <2>2. PICK f \in DispatchFrame :
          /\ f = [Top(t) EXCEPT !.op = op]
          /\ f.op = op /\ f.view = Top(t).view /\ f.pos = Top(t).pos
          /\ f.heard = Top(t).heard /\ SameRest(f, Top(t))
    BY <1>0, <2>1, FrameAt
  <2>3. Goto(t, f)
    BY <1>2, <2>2 DEF Step
  <2>4. ~f.locked
    BY <1>0, <2>2 DEF SameRest, FrameOK
  <2>5. FrameOK(t, f)'
    BY <1>0, <1>2, <2>2, <2>4 DEF FrameOK
  <2>6. stage'[t] # "idle" => f.op = "slot"
    BY <1>2, <2>2
  <2>7. stage'[t] \notin {"link", "push"}
    BY <1>1
  <2> QED
    BY <1>0, <1>1, <2>2, <2>3, <2>4, <2>5, <2>6, <2>7, StructureSlot
<1>3. CASE stage'[t] = "idle" /\ Step(t, IF slot'[t] = None THEN "lock" ELSE "load")
  <2>1. CASE slot'[t] = None
    BY <1>2, <1>3, <2>1
  <2>2. CASE slot'[t] # None
    BY <1>2, <1>3, <2>2
  <2> QED
    BY <2>1, <2>2
<1>4. CASE stage'[t] # "idle" /\ UNCHANGED disp
  <2>1. slot'[t] = None \/ stage'[t] = "count"
    BY <1>1, <1>4 DEF SlotsKnown
  <2>2. disp[t] \in Seq(DispatchFrame) /\ Len(disp[t]) \in 1..Len(disp[t])
    BY <1>0, TopFrame DEF TypeOK
  <2>3. [Top(t) EXCEPT !.op = "slot"] = Top(t)
    BY <1>0 DEF DispatchFrame
  <2>4. [disp[t] EXCEPT ![Len(disp[t])] = Top(t)] = disp[t]
    BY <2>2 DEF Top
  <2>5. [disp EXCEPT ![t] = disp[t]] = disp
    BY <1>0 DEF TypeOK
  <2>6. Goto(t, Top(t))
    BY <1>4, <2>4, <2>5 DEF Goto
  <2> QED
    BY <1>2, <1>4, <2>1, <2>3, <2>6 DEF Step
<1> QED
  BY <1>3, <1>4 DEF AcquireSlot

\* A thread that has left its last dispatch gives its slot back, step by step.
LEMMA StructureReleases ==
    ASSUME Structure, NEW t \in Threads, ThreadExit(t) \/ RecycleSlot(t)
    PROVE  Structure'
<1>0. /\ TypeOK /\ SlotsKnown
      /\ ReleaseSlot(t) \/ Recycle(t)
      /\ UNCHANGED <<registry, viewVars, hazard, mutex, disp, edit, events>>
  BY DEF ThreadExit, RecycleSlot, Structure, SlotsOwned
<1>1. disp[t] = <<>>
  BY DEF ThreadExit, RecycleSlot, Recycle, LinkSlot, PushSlot, Structure, SlotsOwned
<1>2. /\ SlotsKnown' /\ SlotsTyped' /\ published <= published'
      /\ \A u \in Threads \ {t} : slot'[u] = slot[u] /\ stage'[u] = stage[u]
      /\ stage'[t] \in {"idle", "link", "push"}
  BY <1>0, SlotSteps
<1>3. TypeOK'
  BY <1>0, <1>2 DEF TypeOK, registry, viewVars
<1>4. FramesOK'
  <2> SUFFICES ASSUME NEW u \in Threads, NEW i \in 1..Len(disp[u])
               PROVE  FrameOK(u, disp[u][i])'
    BY <1>0 DEF FramesOK
  <2>1. u # t
    BY <1>1
  <2>2. FrameOK(u, disp[u][i])
    BY DEF Structure, FramesOK
  <2> QED
    BY <1>0, <1>2, <2>1, <2>2 DEF FrameOK, viewVars
<1>5. Nesting' /\ Locking'
  BY <1>0 DEF Structure, Nesting, Locking
<1>6. ViewsOK'
  <2>1. published \in Nat /\ published' \in Nat /\ \A u \in Threads : edit[u].count \in Nat
    BY <1>0, <1>2, SlotConstants DEF TypeOK, SlotsTyped, EditFrame
  <2> QED
    BY <1>0, <1>2, <2>1 DEF Structure, ViewsOK, viewVars
<1>7. SlotsOwned'
  BY <1>0, <1>1, <1>2 DEF Structure, SlotsOwned, Top
<1> QED
  BY <1>3, <1>4, <1>5, <1>6, <1>7 DEF Structure

\* The view is loaded, named in the slot and loaded again.
LEMMA StructureReading ==
    ASSUME Structure, NEW t \in Threads,
           \/ LoadView(t) \/ Protect(t) \/ Recheck(t) \/ CallNext(t)
           \/ CallbackReturns(t) \/ CallbackThrows(t)
    PROVE  Structure'
<1>0. TypeOK /\ None \notin Slots /\ cur \in 0..Len(views) /\ cur \in Nat /\ Len(views) \in Nat
      /\ hazard \in [Slots -> 0..Len(views)]
  <2>1. TypeOK /\ None \notin Slots
    BY ListenerConstants, SlotConstants DEF Structure, Slots
  <2>2. cur \in 0..Len(views) /\ hazard \in [Slots -> 0..Len(views)] /\ Len(views) \in Nat
    BY <2>1 DEF TypeOK
  <2> QED
    BY <2>1, <2>2
<1>1. CASE LoadView(t)
  <2>0. disp[t] # <<>> /\ Top(t).op = "load" /\ Top(t) \in DispatchFrame /\ FrameOK(t, Top(t))
        /\ UNCHANGED <<registry, viewVars, hazard, slotVars, mutex, edit, events>>
        /\ edit[t].op = "idle" /\ ~Top(t).locked
    BY <1>1, TopOK DEF LoadView, At, FrameOK
  <2>1. CASE cur = 0 /\ Finish(t)
    BY <1>0, <2>0, <2>1, StructureFinished
  <2>2. CASE cur # 0 /\ Goto(t, [Top(t) EXCEPT !.view = cur, !.op = "protect"])
    <3>1. PICK f \in DispatchFrame :
            /\ f = [Top(t) EXCEPT !.view = cur, !.op = "protect"]
            /\ f.op = "protect" /\ f.view = cur /\ f.pos = Top(t).pos
            /\ f.heard = Top(t).heard /\ SameRest(f, Top(t))
      BY <1>0, <2>0, FrameLoads
    <3>2. FrameOK(t, f)'
      BY <1>0, <2>0, <2>2, <3>1 DEF SameRest, FrameOK, viewVars, slotVars
    <3> QED
      BY <1>0, <2>0, <2>2, <3>1, <3>2, StructureMoved DEF SameRest
  <2> QED
    BY <1>1, <2>1, <2>2 DEF LoadView
<1>2. CASE Protect(t)
  <2>0. disp[t] # <<>> /\ Top(t).op = "protect" /\ Top(t) \in DispatchFrame /\ FrameOK(t, Top(t))
        /\ UNCHANGED <<registry, viewVars, slotVars, mutex, edit, events>>
        /\ hazard' = [hazard EXCEPT ![slot[t]] = Top(t).view]
        /\ Goto(t, [Top(t) EXCEPT !.op = "recheck"])
    BY <1>2, TopOK DEF Protect, At, Step
  <2>1. hazard' \in [Slots -> 0..Len(views)]
    <3>1. Top(t).view \in 0..Len(views)
      BY <1>0, <2>0 DEF SameRest, FrameOK
    <3> QED
      BY <1>0, <2>0, <3>1, HazardSet
  <2>2. PICK f \in DispatchFrame :
          /\ f = [Top(t) EXCEPT !.op = "recheck"]
          /\ f.op = "recheck" /\ f.view = Top(t).view /\ f.pos = Top(t).pos
          /\ f.heard = Top(t).heard /\ SameRest(f, Top(t))
    BY <2>0, FrameAt
  <2>3. FrameOK(t, f)'
    BY <2>0, <2>2 DEF SameRest, FrameOK, viewVars, slotVars
  <2> QED
    BY <2>0, <2>1, <2>2, <2>3, StructureMoved DEF SameRest
<1>3. CASE Recheck(t)
  <2>0. disp[t] # <<>> /\ Top(t).op = "recheck" /\ Top(t) \in DispatchFrame /\ FrameOK(t, Top(t))
        /\ UNCHANGED <<registry, viewVars, slotVars, mutex, edit, events>>
        /\ edit[t].op = "idle" /\ ~Top(t).locked
    BY <1>3, TopOK DEF Recheck, At, FrameOK
  <2>1. CASE Step(t, "run") /\ UNCHANGED hazard
    <3>1. PICK f \in DispatchFrame :
            /\ f = [Top(t) EXCEPT !.op = "run"]
            /\ f.op = "run" /\ f.view = Top(t).view /\ f.pos = Top(t).pos
            /\ f.heard = Top(t).heard /\ SameRest(f, Top(t))
      BY <2>0, FrameAt
    <3>2. FrameOK(t, f)'
      BY <2>0, <3>1 DEF SameRest, FrameOK, viewVars, slotVars
    <3>3. Goto(t, f)
      BY <2>1, <3>1 DEF Step
    <3> QED
      BY <1>0, <2>0, <2>1, <3>1, <3>2, <3>3, StructureMoved DEF SameRest
  <2>2. CASE cur \notin {0, Top(t).view} /\ UNCHANGED hazard
             /\ Goto(t, [Top(t) EXCEPT !.view = cur, !.op = "protect"])
    <3>1. PICK f \in DispatchFrame :
            /\ f = [Top(t) EXCEPT !.view = cur, !.op = "protect"]
            /\ f.op = "protect" /\ f.view = cur /\ f.pos = Top(t).pos
            /\ f.heard = Top(t).heard /\ SameRest(f, Top(t))
      BY <1>0, <2>0, FrameLoads
    <3>2. FrameOK(t, f)'
      BY <1>0, <2>0, <2>2, <3>1 DEF SameRest, FrameOK, viewVars, slotVars
    <3> QED
      BY <1>0, <2>0, <2>2, <3>1, <3>2, StructureMoved DEF SameRest
  <2>3. CASE hazard' = [hazard EXCEPT ![slot[t]] = 0] /\ Finish(t)
    <3>1. hazard' \in [Slots -> 0..Len(views)]
      <4>1. 0 \in 0..Len(views)
        BY <1>0
      <4> QED
        BY <1>0, <2>3, <4>1, HazardSet
    <3> QED
      BY <2>0, <2>3, <3>1, StructureFinished
  <2> QED
    BY <1>3, <2>1, <2>2, <2>3 DEF Recheck
<1>4. CASE CallNext(t)
  <2>0. disp[t] # <<>> /\ Top(t).op = "run" /\ Top(t) \in DispatchFrame /\ FrameOK(t, Top(t))
        /\ UNCHANGED <<registry, viewVars, hazard, slotVars, mutex, edit, events>>
    BY <1>4, TopOK DEF CallNext, At
  <2> DEFINE g == Top(t)
             l == views[g.view][g.pos]
  <2>1. g.pos \in 1..Len(views[g.view]) /\ views[g.view] \in Seq(Listeners) /\ l \in Listeners
    <3>1. views \in Seq(Seq(Listeners)) /\ g.view \in 1..Len(views)
      BY <1>0, <2>0 DEF TypeOK, FrameOK
    <3>2. views[g.view] \in Seq(Listeners)
      BY <3>1
    <3>3. g.pos \in 1..Len(views[g.view])
      BY <1>4, <2>0, <3>2 DEF CallNext, FrameOK, DispatchFrame
    <3> QED
      BY <3>2, <3>3
  <2>2. CASE Goto(t, [g EXCEPT !.op = "call", !.heard = Append(@, l)])
    <3>1. PICK f \in DispatchFrame :
            /\ f = [g EXCEPT !.op = "call", !.heard = Append(@, l)]
            /\ f.op = "call" /\ f.view = g.view /\ f.pos = g.pos
            /\ f.heard = Append(g.heard, l) /\ SameRest(f, g)
      BY <2>0, <2>1, FrameCalls
    <3>2. FrameOK(t, f)'
      BY <2>0, <2>1, <3>1 DEF SameRest, FrameOK, viewVars, slotVars
    <3> QED
      BY <1>0, <2>0, <2>2, <3>1, <3>2, StructureMoved DEF SameRest
  <2>3. CASE Goto(t, [g EXCEPT !.pos = @ + 1])
    <3>1. PICK f \in DispatchFrame :
            /\ f = [g EXCEPT !.pos = @ + 1]
            /\ f.op = g.op /\ f.view = g.view /\ f.pos = g.pos + 1 /\ f.heard = g.heard
            /\ SameRest(f, g)
      BY <2>0, FrameAdvances
    <3>2. FrameOK(t, f)'
      BY <2>0, <2>1, <3>1 DEF SameRest, FrameOK, viewVars, slotVars
    <3> QED
      BY <1>0, <2>0, <2>3, <3>1, <3>2, StructureMoved DEF SameRest
  <2> QED
    BY <1>4, <2>2, <2>3 DEF CallNext
<1>5. CASE CallbackReturns(t)
  <2>0. disp[t] # <<>> /\ Top(t).op = "call" /\ Top(t) \in DispatchFrame /\ FrameOK(t, Top(t))
        /\ UNCHANGED <<registry, viewVars, hazard, slotVars, mutex, edit, events>>
        /\ Goto(t, [Top(t) EXCEPT !.op = "run", !.pos = @ + 1])
    BY <1>5, TopOK DEF CallbackReturns, At
  <2>1. PICK f \in DispatchFrame :
          /\ f = [Top(t) EXCEPT !.op = "run", !.pos = @ + 1]
          /\ f.op = "run" /\ f.view = Top(t).view /\ f.pos = Top(t).pos + 1
          /\ f.heard = Top(t).heard /\ SameRest(f, Top(t))
    BY <2>0, FrameAdvances
  <2>2. FrameOK(t, f)'
    BY <2>0, <2>1 DEF SameRest, DispatchFrame, FrameOK, viewVars, slotVars
  <2> QED
    BY <1>0, <2>0, <2>1, <2>2, StructureMoved DEF SameRest
<1>6. CASE CallbackThrows(t)
  <2>0. disp[t] # <<>> /\ Top(t).op = "call" /\ Top(t) \in DispatchFrame /\ FrameOK(t, Top(t))
        /\ UNCHANGED <<registry, viewVars, hazard, slotVars, mutex, edit, events>>
        /\ Goto(t, [Top(t) EXCEPT !.op = "throw"])
    BY <1>6, TopOK DEF CallbackThrows, At, Step
  <2>1. PICK f \in DispatchFrame :
          /\ f = [Top(t) EXCEPT !.op = "throw"]
          /\ f.op = "throw" /\ f.view = Top(t).view /\ f.pos = Top(t).pos
          /\ f.heard = Top(t).heard /\ SameRest(f, Top(t))
    BY <2>0, FrameAt
  <2>2. FrameOK(t, f)'
    BY <2>0, <2>1 DEF SameRest, DispatchFrame, FrameOK, viewVars, slotVars
  <2> QED
    BY <1>0, <2>0, <2>1, <2>2, StructureMoved DEF SameRest
<1> QED
  BY <1>1, <1>2, <1>3, <1>4, <1>5, <1>6

\* The dispatch that found no slot takes mutex_ and gives it back.
LEMMA StructureLocks ==
    ASSUME Structure, NEW t \in Threads, DispatchLocked(t) \/ Leave(t)
    PROVE  Structure'
<1>0. TypeOK /\ None \notin Threads /\ cur \in 0..Len(views) /\ cur \in Nat /\ Len(views) \in Nat
      /\ hazard \in [Slots -> 0..Len(views)] /\ 0 \in 0..Len(views)
  <2>1. TypeOK /\ None \notin Threads
    BY ListenerConstants, SlotConstants DEF Structure
  <2>2. cur \in 0..Len(views) /\ hazard \in [Slots -> 0..Len(views)] /\ Len(views) \in Nat
    BY <2>1 DEF TypeOK
  <2> QED
    BY <2>1, <2>2
<1>1. CASE DispatchLocked(t)
  <2>0. /\ disp[t] # <<>> /\ Top(t).op = "lock" /\ Top(t) \in DispatchFrame /\ FrameOK(t, Top(t))
        /\ edit[t].op = "idle" /\ ~Top(t).locked /\ mutex = None
        /\ UNCHANGED <<registry, viewVars, hazard, slotVars, edit, events>>
    BY <1>1, TopOK DEF DispatchLocked, At, FrameOK
  <2>1. CASE Finish(t) /\ UNCHANGED mutex
    BY <1>0, <2>0, <2>1, StructureFinished
  <2>2. CASE cur # 0 /\ mutex' = t
             /\ Goto(t, [Top(t) EXCEPT !.view = cur, !.op = "run", !.locked = TRUE])
    <3>1. PICK f \in DispatchFrame :
            /\ f = [Top(t) EXCEPT !.view = cur, !.op = "run", !.locked = TRUE]
            /\ f.op = "run" /\ f.view = cur /\ f.pos = Top(t).pos /\ f.heard = Top(t).heard
            /\ f.locked /\ f.scope = Top(t).scope /\ f.due = Top(t).due /\ f.gone = Top(t).gone
      BY <1>0, <2>0, FrameLocks
    <3>2. Goto(t, f)
      BY <2>2, <3>1
    <3>3. /\ disp' \in [Threads -> Seq(DispatchFrame)] /\ OthersSame(t)
          /\ Len(disp'[t]) = Len(disp[t])
          /\ \A i \in 1..Len(disp[t]) :
                disp'[t][i] = IF i = Len(disp[t]) THEN f ELSE disp[t][i]
          /\ disp'[t] # <<>> /\ Top(t)' = f
      BY <1>0, <2>0, <3>2, GotoFrames
    <3>4. \A u \in Threads : \A i \in 1..Len(disp[u]) : ~disp[u][i].locked
      BY <1>0, <2>0 DEF Structure, FramesOK, FrameOK
    <3>5. \A u \in Threads : edit[u].op \notin Holding
      BY <1>0, <2>0 DEF Structure, Locking
    <3>6. TypeOK'
      BY <1>0, <2>0, <2>2, <3>3, TypedStay DEF TypeOK, registry, viewVars, slotVars
    <3>7. FrameOK(t, f)'
      BY <1>0, <2>0, <2>2, <3>1 DEF FrameOK, viewVars, slotVars
    <3>8. FramesOK'
      <4> SUFFICES ASSUME NEW u \in Threads, NEW i \in 1..Len(disp'[u])
                   PROVE  FrameOK(u, disp[u][i])'
        BY DEF FramesOK
      <4>1. CASE u = t /\ i = Len(disp[t])
        BY <3>3, <3>7, <4>1
      <4>2. CASE ~(u = t /\ i = Len(disp[t]))
        <5>1. i \in 1..Len(disp[u]) /\ disp'[u][i] = disp[u][i]
          BY <3>3, <4>2 DEF OthersSame
        <5>2. FrameOK(u, disp[u][i])
          BY <5>1 DEF Structure, FramesOK
        <5> QED
          BY <2>0, <3>4, <5>1, <5>2 DEF FrameOK, viewVars, slotVars
      <4> QED
        BY <4>1, <4>2
    <3>9. Nesting'
      <4>1. \A u \in Threads : \A i \in 1..Len(disp'[u]) :
                i < Len(disp'[u]) => disp'[u][i].op = "call"
        BY <3>3 DEF Structure, Nesting, OthersSame
      <4>2. \A u \in Threads : \A i, j \in 1..Len(disp'[u]) :
                disp'[u][i].locked /\ disp'[u][j].locked => i = j
        BY <3>3, <3>4 DEF OthersSame
      <4> QED
        BY <4>1, <4>2 DEF Nesting
    <3>10. Locking' /\ ViewsOK'
      BY <2>0, <3>5 DEF Structure, Locking, ViewsOK, viewVars, slotVars
    <3>11. SlotsOwned'
      <4>1. \A u \in Threads \ {t} : disp'[u] = disp[u] /\ Top(u)' = Top(u)
        BY <3>3 DEF OthersSame, Top
      <4> QED
        BY <2>0, <4>1, KnownStay DEF Structure, SlotsOwned, slotVars
    <3> QED
      BY <3>6, <3>8, <3>9, <3>10, <3>11 DEF Structure
  <2> QED
    BY <1>1, <2>1, <2>2 DEF DispatchLocked
<1>2. CASE Leave(t)
  <2>0. /\ disp[t] # <<>> /\ Top(t).op # "slot" /\ edit[t].op = "idle" /\ Finish(t)
        /\ mutex' = IF Top(t).locked THEN None ELSE mutex
        /\ UNCHANGED <<registry, viewVars, slotVars, edit, events>>
    BY <1>2 DEF Leave, Done, At
  <2>1. hazard' \in [Slots -> 0..Len(views)]
    BY <1>0, <1>2, HazardSet DEF Leave
  <2> QED
    BY <2>0, <2>1, StructureFinished
<1> QED
  BY <1>1, <1>2

\* An empty store is well formed.
LEMMA StructureInit == Init => Structure
<1> SUFFICES ASSUME Init PROVE Structure
  OBVIOUS
<1> USE DEF Init
<1>0. SlotsKnown /\ SlotsTyped
  BY SlotsKnownInit DEF SlotsKnown
<1>1. TypeOK
  BY <1>0, ListenerConstants, SlotConstants DEF TypeOK, Slots, Idle, EditFrame
<1>2. \A t \in Threads : disp[t] = <<>> /\ Len(disp[t]) = 0 /\ edit[t] = Idle /\ stage[t] = "idle"
  BY DEF SlotInit
<1>3. FramesOK /\ Nesting
  BY <1>2 DEF FramesOK, Nesting
<1>4. Locking /\ SlotsOwned /\ ViewsOK
  BY <1>0, <1>2 DEF Locking, SlotsOwned, ViewsOK, Idle, Holding
<1> QED
  BY <1>1, <1>3, <1>4 DEF Structure

\* Every step keeps the store well formed.
LEMMA StructureStep == Structure /\ [Next]_vars => Structure'
<1> SUFFICES ASSUME Structure, [Next]_vars PROVE Structure'
  OBVIOUS
<1>1. CASE UNCHANGED vars
  <2>0. /\ UNCHANGED <<registry, viewVars, hazard, slotVars, mutex, disp, edit, events>>
        /\ UNCHANGED <<views, slot, stage, mutex, cur>>
    BY <1>1 DEF vars, registry, viewVars, slotVars
  <2>1. TypeOK'
    BY <2>0, TypedStay DEF Structure, TypeOK, registry, viewVars, slotVars
  <2>2. FramesOK'
    BY <2>0 DEF Structure, FramesOK, FrameOK
  <2>3. Nesting' /\ Locking'
    BY <2>0 DEF Structure, Nesting, Locking
  <2>4. SlotsOwned' /\ ViewsOK'
    BY <2>0, KnownStay DEF Structure, SlotsOwned, ViewsOK, Top, slotVars, viewVars
  <2> QED
    BY <2>1, <2>2, <2>3, <2>4 DEF Structure
<1>2. ASSUME NEW t \in Threads, NEW l \in Listeners,
             OnDeferred(t, l) \/ On(t, l) \/ Remove(t, l)
      PROVE  Structure'
  BY <1>2, StructureCalls
<1>3. ASSUME NEW t \in Threads, Start(t) \/ AddListenerDeferred(t)
      PROVE  Structure'
  BY <1>3, StructureCalls
<1>4. ASSUME NEW t \in Threads,
             AddEntry(t) \/ RemoveByToken(t) \/ FinalizeListeners(t) \/ Clear(t)
      PROVE  Structure'
  BY <1>4, StructureEdits
<1>5. ASSUME NEW t \in Threads,
             \/ RebuildView(t) \/ Unpublish(t) \/ LoadCount(t) \/ ScanSlot(t) \/ FreeView(t)
             \/ Unlock(t)
      PROVE  Structure'
  BY <1>5, StructureScan
<1>6. ASSUME NEW t \in Threads, NEW sc \in Scopes, Dispatch(t, sc) PROVE Structure'
  BY <1>6, StructureDispatch
<1>7. ASSUME NEW t \in Threads, AcquireSlot(t) \/ ThreadExit(t) \/ RecycleSlot(t)
      PROVE  Structure'
  BY <1>7, StructureAcquires, StructureReleases
<1>8. ASSUME NEW t \in Threads,
             \/ LoadView(t) \/ Protect(t) \/ Recheck(t) \/ CallNext(t)
             \/ CallbackReturns(t) \/ CallbackThrows(t)
      PROVE  Structure'
  BY <1>8, StructureReading
<1>9. ASSUME NEW t \in Threads, DispatchLocked(t) \/ Leave(t) PROVE Structure'
  BY <1>9, StructureLocks
<1> QED
  BY <1>1, <1>2, <1>3, <1>4, <1>5, <1>6, <1>7, <1>8, <1>9 DEF Next, Continue

\* The store stays well formed: frames, slots, mutex_ and views agree in every
\* state that registration calls and dispatches of any number of threads reach.
THEOREM StructureHolds == Spec => []Structure
BY StructureInit, StructureStep, PTL DEF Spec

\* ListenerStore is type correct: slots in use are slots of the table, every
\* view number names a view that was published (hazardViews_, allViews_).
THEOREM TypeCorrect == Spec => []TypeOK
<1>1. Structure => TypeOK
  BY DEF Structure
<1> QED
  BY <1>1, StructureHolds, PTL

-----------------------------------------------------------------------------
(* How the steps of dispatch() change a frame, whatever thread takes them. *)

\* The steps of a dispatch in progress: no list and no view changes.
Reads(t) ==
    \/ AcquireSlot(t) \/ LoadView(t) \/ Protect(t) \/ Recheck(t)
    \/ DispatchLocked(t) \/ CallNext(t) \/ CallbackReturns(t) \/ CallbackThrows(t) \/ Leave(t)

Early == {"slot", "load", "protect", "recheck", "lock"}
Matches(l, f) == ScopeOf[l] \in {AllScopes, f.scope}

\* Frame g becomes f: it looks for a slot, loads a view, protects it, finds it
\* still published, calls the listener at pos, skips it, or is back from it.
Moves(g, f) ==
    /\ f.scope = g.scope /\ f.due = g.due /\ f.gone = g.gone
    /\ \/ /\ g.op = "slot" /\ f.op \in {"load", "lock"}
          /\ f.view = g.view /\ f.pos = g.pos /\ f.heard = g.heard
       \/ /\ g.op \in {"load", "recheck", "lock"} /\ f.op \in {"protect", "run"}
          /\ f.view = cur /\ cur # 0 /\ f.pos = g.pos /\ f.heard = g.heard
       \/ /\ g.op = "protect" /\ f.op = "recheck"
          /\ f.view = g.view /\ f.pos = g.pos /\ f.heard = g.heard
       \/ /\ g.op = "run" /\ f.op = "call" /\ f.view = g.view /\ f.pos = g.pos
          /\ g.pos <= Len(views[g.view]) /\ Matches(views[g.view][g.pos], g)
          /\ f.heard = Append(g.heard, views[g.view][g.pos])
       \/ /\ g.op = "run" /\ f.op = "run" /\ f.view = g.view /\ f.pos = g.pos + 1
          /\ g.pos <= Len(views[g.view]) /\ ~Matches(views[g.view][g.pos], g)
          /\ f.heard = g.heard
       \/ /\ g.op = "call" /\ f.op = "run"
          /\ f.view = g.view /\ f.pos = g.pos + 1 /\ f.heard = g.heard
       \/ /\ g.op = "call" /\ f.op = "throw"
          /\ f.view = g.view /\ f.pos = g.pos /\ f.heard = g.heard

\* Every frame of the next state was there before, as it is or before its move.
Kin(t) ==
    \A u \in Threads : \A i \in 1..Len(disp'[u]) :
        /\ i \in 1..Len(disp[u])
        /\ \/ disp'[u][i] = disp[u][i]
           \/ u = t /\ i = Len(disp[t]) /\ Moves(disp[u][i], disp'[u][i])

\* A step that replaces the top frame changes no other.
LEMMA MovedTop ==
    ASSUME TypeOK, NEW t \in Threads, disp[t] # <<>>, NEW f \in DispatchFrame, Goto(t, f),
           Moves(Top(t), f)
    PROVE  Kin(t)
<1>1. /\ OthersSame(t) /\ Len(disp'[t]) = Len(disp[t])
      /\ \A i \in 1..Len(disp[t]) :
            disp'[t][i] = IF i = Len(disp[t]) THEN f ELSE disp[t][i]
  BY GotoFrames
<1>2. Top(t) = disp[t][Len(disp[t])]
  BY DEF Top
<1> QED
  BY <1>1, <1>2 DEF Kin, OthersSame

\* A step that removes the top frame changes no other.
LEMMA FinishedTop ==
    ASSUME TypeOK, NEW t \in Threads, disp[t] # <<>>, Finish(t)
    PROVE  Kin(t)
<1>1. /\ OthersSame(t) /\ Len(disp'[t]) = Len(disp[t]) - 1
      /\ \A i \in 1..Len(disp[t]) - 1 : disp'[t][i] = disp[t][i]
  BY FinishFrames
<1>2. Len(disp[t]) \in Nat
  BY DEF TypeOK
<1> QED
  BY <1>1, <1>2 DEF Kin, OthersSame

\* A step of dispatch moves the top frame of one thread, or ends it.
LEMMA FrameMoves ==
    ASSUME Structure, NEW t \in Threads, Reads(t)
    PROVE  UNCHANGED <<registry, viewVars, edit>> /\ Kin(t)
<1>0. TypeOK /\ disp[t] # <<>> /\ edit[t].op = "idle"
      /\ Top(t) \in DispatchFrame /\ FrameOK(t, Top(t)) /\ cur \in Nat
  <2>1. TypeOK
    BY DEF Structure
  <2>2. disp[t] # <<>> /\ edit[t].op = "idle"
    BY DEF Reads, AcquireSlot, LoadView, Protect, Recheck, DispatchLocked,
           CallNext, CallbackReturns, CallbackThrows, Leave, Done, At
  <2>3. cur \in Nat
    BY <2>1 DEF TypeOK
  <2> QED
    BY <2>1, <2>2, <2>3, TopOK
<1>a. UNCHANGED <<registry, viewVars, edit>>
  BY DEF Reads, AcquireSlot, LoadView, Protect, Recheck, DispatchLocked,
         CallNext, CallbackReturns, CallbackThrows, Leave
<1> SUFFICES Kin(t)
  BY <1>a
<1>b. ASSUME Finish(t) PROVE Kin(t)
  BY <1>0, <1>b, FinishedTop
<1>c. ASSUME NEW op \in {"slot", "load", "protect", "recheck", "lock", "run", "call", "throw"},
             Step(t, op),
             \/ Top(t).op = "slot" /\ op \in {"load", "lock"}
             \/ Top(t).op = "recheck" /\ op = "run" /\ Top(t).view = cur /\ cur # 0
             \/ Top(t).op = "protect" /\ op = "recheck"
             \/ Top(t).op = "call" /\ op = "throw"
      PROVE  Kin(t)
  <2>1. PICK f \in DispatchFrame :
            /\ f = [Top(t) EXCEPT !.op = op]
            /\ f.op = op /\ f.view = Top(t).view /\ f.pos = Top(t).pos /\ f.heard = Top(t).heard
            /\ SameRest(f, Top(t))
    BY <1>0, FrameAt
  <2>2. Moves(Top(t), f)
    BY <1>c, <2>1 DEF Moves, SameRest
  <2> QED
    BY <1>0, <1>c, <2>1, <2>2, MovedTop DEF Step
<1>d. ASSUME Top(t).op \in {"load", "recheck"}, cur # 0,
             Goto(t, [Top(t) EXCEPT !.view = cur, !.op = "protect"])
      PROVE  Kin(t)
  <2>1. PICK f \in DispatchFrame :
            /\ f = [Top(t) EXCEPT !.view = cur, !.op = "protect"]
            /\ f.op = "protect" /\ f.view = cur /\ f.pos = Top(t).pos /\ f.heard = Top(t).heard
            /\ SameRest(f, Top(t))
    BY <1>0, FrameLoads
  <2>2. Moves(Top(t), f)
    BY <1>d, <2>1 DEF Moves, SameRest
  <2> QED
    BY <1>0, <1>d, <2>1, <2>2, MovedTop
<1>1. CASE AcquireSlot(t)
  <2>1. CASE UNCHANGED disp
    BY <2>1 DEF Kin
  <2>2. CASE Step(t, IF slot'[t] = None THEN "lock" ELSE "load")
    <3>1. Top(t).op = "slot"
      BY <1>1 DEF AcquireSlot, At
    <3>2. CASE slot'[t] = None
      BY <2>2, <3>1, <3>2, <1>c
    <3>3. CASE slot'[t] # None
      BY <2>2, <3>1, <3>3, <1>c
    <3> QED
      BY <3>2, <3>3
  <2> QED
    BY <1>1, <2>1, <2>2 DEF AcquireSlot
<1>3. CASE LoadView(t)
  BY <1>3, <1>b, <1>d DEF LoadView, At
<1>4. CASE Protect(t)
  BY <1>4, <1>c DEF Protect, At
<1>5. CASE Recheck(t)
  <2>1. Top(t).view # 0 /\ Top(t).op = "recheck"
    BY <1>0, <1>5 DEF Recheck, At, FrameOK
  <2> QED
    BY <1>5, <2>1, <1>b, <1>c, <1>d DEF Recheck
<1>6. CASE DispatchLocked(t)
  <2>1. CASE cur = 0
    BY <1>6, <2>1, <1>b DEF DispatchLocked
  <2>2. CASE cur # 0
    <3>1. PICK f \in DispatchFrame :
            /\ f = [Top(t) EXCEPT !.view = cur, !.op = "run", !.locked = TRUE]
            /\ f.op = "run" /\ f.view = cur /\ f.pos = Top(t).pos /\ f.heard = Top(t).heard
            /\ f.locked /\ f.scope = Top(t).scope /\ f.due = Top(t).due /\ f.gone = Top(t).gone
      BY <1>0, FrameLocks
    <3>2. Moves(Top(t), f) /\ Goto(t, f)
      BY <1>6, <2>2, <3>1 DEF DispatchLocked, At, Moves
    <3> QED
      BY <1>0, <3>2, MovedTop
  <2> QED
    BY <2>1, <2>2
<1>7. CASE CallNext(t)
  <2> DEFINE l == views[Top(t).view][Top(t).pos]
  <2>1. Top(t).op = "run" /\ Top(t).pos <= Len(views[Top(t).view])
    BY <1>7 DEF CallNext, At
  <2>2. l \in Listeners
    <3>1. Top(t).view \in 1..Len(views) /\ Top(t).pos \in Nat /\ Top(t).pos >= 1
      BY <1>0, <2>1 DEF FrameOK, DispatchFrame
    <3>2. views[Top(t).view] \in Seq(Listeners)
      BY <1>0, <3>1 DEF TypeOK
    <3> QED
      BY <2>1, <3>1, <3>2
  <2>3. CASE Matches(l, Top(t))
    <3>1. PICK f \in DispatchFrame :
            /\ f = [Top(t) EXCEPT !.op = "call", !.heard = Append(@, l)]
            /\ f.op = "call" /\ f.view = Top(t).view /\ f.pos = Top(t).pos
            /\ f.heard = Append(Top(t).heard, l) /\ SameRest(f, Top(t))
      BY <1>0, <2>2, FrameCalls
    <3>2. Moves(Top(t), f)
      BY <2>1, <2>3, <3>1 DEF Moves, SameRest
    <3>3. Goto(t, f)
      BY <1>7, <2>3, <3>1 DEF CallNext, Matches
    <3> QED
      BY <1>0, <3>2, <3>3, MovedTop
  <2>4. CASE ~Matches(l, Top(t))
    <3>1. PICK f \in DispatchFrame :
            /\ f = [Top(t) EXCEPT !.pos = @ + 1]
            /\ f.op = Top(t).op /\ f.view = Top(t).view /\ f.pos = Top(t).pos + 1
            /\ f.heard = Top(t).heard /\ SameRest(f, Top(t))
      BY <1>0, FrameAdvances
    <3>2. Moves(Top(t), f)
      BY <2>1, <2>4, <3>1 DEF Moves, SameRest
    <3>3. Goto(t, f)
      BY <1>7, <2>4, <3>1 DEF CallNext, Matches
    <3> QED
      BY <1>0, <3>2, <3>3, MovedTop
  <2> QED
    BY <2>3, <2>4
<1>8. CASE CallbackReturns(t)
  <2>1. PICK f \in DispatchFrame :
            /\ f = [Top(t) EXCEPT !.op = "run", !.pos = @ + 1]
            /\ f.op = "run" /\ f.view = Top(t).view /\ f.pos = Top(t).pos + 1
            /\ f.heard = Top(t).heard /\ SameRest(f, Top(t))
    BY <1>0, FrameAdvances
  <2>2. Moves(Top(t), f) /\ Goto(t, f)
    BY <1>8, <2>1 DEF Moves, SameRest, CallbackReturns, At
  <2> QED
    BY <1>0, <2>2, MovedTop
<1>9. CASE CallbackThrows(t)
  BY <1>9, <1>c DEF CallbackThrows, At
<1>10. CASE Leave(t)
  BY <1>10, <1>b DEF Leave
<1> QED
  BY <1>a, <1>1, <1>3, <1>4, <1>5, <1>6, <1>7, <1>8, <1>9, <1>10 DEF Reads

-----------------------------------------------------------------------------
(* Hazard slots against the scan, while no callback dispatches in turn.    *)

Unnested == \A t \in Threads : Len(disp[t]) <= 1

\* A slot names the view from the moment it is checked again; the scan that
\* looks at this view has not passed the slot and will come to it.
FrameSafe(t, f) ==
    /\ f.op \in {"recheck", "run", "call", "throw"} /\ ~f.locked => hazard[slot[t]] = f.view
    /\ f.op \in {"run", "call", "throw"} /\ ~f.locked =>
        /\ f.view \notin freed
        /\ \A u \in Threads : edit[u].view = f.view =>
            /\ edit[u].op \in {"count", "scan"} => edit[u].pos <= slot[t]
            /\ edit[u].op = "scan" => slot[t] < edit[u].count

Protection == \A t \in Threads : disp[t] # <<>> => FrameSafe(t, Top(t))

\* The number of a slot in use is published.
LEMMA SlotInUse ==
    ASSUME SlotsKnown, NEW u \in Threads, slot[u] # None, stage[u] # "count"
    PROVE  slot[u] \in Nat /\ slot[u] < published /\ published \in Nat
<1>1. slot[u] \in Slots /\ published \in 0..NumSlots /\ slot[u] < published
  BY DEF SlotsTyped, SlotsKnown
<1>2. published \in Nat
  BY <1>1
<1> QED
  BY <1>1, <1>2, SlotNumbers

\* Frames and slots stay, and scans go on without passing a slot in use.
LEMMA SafeScanned ==
    ASSUME Structure, Protection, UNCHANGED <<hazard, slot, disp>>,
           NEW t \in Threads, \A u \in Threads \ {t} : edit'[u] = edit[u],
           \/ freed' = freed
           \/ /\ freed' = freed \union {edit[t].view}
              /\ edit[t].op = "scan" /\ edit[t].pos >= edit[t].count,
           edit'[t].op \in {"count", "scan"} =>
                \/ edit'[t] = edit[t]
                \/ edit'[t].op = "count" /\ edit'[t].pos = 0
                \/ /\ edit[t].op = "count" /\ edit'[t].view = edit[t].view
                   /\ edit'[t].pos = edit[t].pos /\ edit'[t].count = published
                \/ /\ edit[t].op = "scan" /\ edit'[t].view = edit[t].view
                   /\ edit'[t].pos = edit[t].pos + 1 /\ edit'[t].count = edit[t].count
                   /\ hazard[edit[t].pos] # edit[t].view
    PROVE  Protection'
<1> SUFFICES ASSUME NEW u \in Threads, disp[u] # <<>>, Top(u).op \in {"run", "call", "throw"},
                    ~Top(u).locked
             PROVE  /\ Top(u).view \notin freed'
                    /\ \A w \in Threads : edit'[w].view = Top(u).view =>
                        /\ edit'[w].op \in {"count", "scan"} => edit'[w].pos <= slot[u]
                        /\ edit'[w].op = "scan" => slot[u] < edit'[w].count
  BY DEF Protection, FrameSafe, Top
<1>1. /\ hazard[slot[u]] = Top(u).view /\ Top(u).view \notin freed
      /\ \A w \in Threads : edit[w].view = Top(u).view =>
            /\ edit[w].op \in {"count", "scan"} => edit[w].pos <= slot[u]
            /\ edit[w].op = "scan" => slot[u] < edit[w].count
  BY DEF Protection, FrameSafe
<1>2. slot[u] \in Nat /\ slot[u] < published /\ published \in Nat
  <2>1. FrameOK(u, Top(u))
    BY TopOK
  <2>2. slot[u] # None
    BY <2>1 DEF FrameOK
  <2>3. SlotsKnown /\ SlotsTyped /\ stage[u] # "count"
    BY DEF Structure, SlotsOwned, SlotsKnown
  <2> QED
    BY <2>2, <2>3, SlotInUse
<1>3. edit[t].pos \in Nat /\ edit[t].count \in Nat
  BY DEF Structure, TypeOK, EditFrame
<1>4. Top(u).view \notin freed'
  BY <1>1, <1>2, <1>3
<1>5. ASSUME edit'[t].op \in {"count", "scan"}, edit'[t].view = Top(u).view
      PROVE  edit'[t].pos <= slot[u]
  BY <1>1, <1>2, <1>3, <1>5
<1>6. ASSUME edit'[t].op = "scan", edit'[t].view = Top(u).view PROVE slot[u] < edit'[t].count
  BY <1>1, <1>2, <1>3, <1>6
<1> QED
  BY <1>1, <1>4, <1>5, <1>6

\* The top frame of t changes; the slots of the other threads do not.
LEMMA SafeMoved ==
    ASSUME Structure, Protection, NEW t \in Threads, OthersSame(t),
           UNCHANGED <<edit, freed>>,
           \A u \in Threads \ {t} : slot'[u] = slot[u],
           \A u \in Threads \ {t} : slot[u] # None => hazard'[slot[u]] = hazard[slot[u]],
           disp'[t] = <<>> \/ FrameSafe(t, Top(t))'
    PROVE  Protection'
<1> SUFFICES ASSUME NEW u \in Threads \ {t}, disp[u] # <<>> PROVE FrameSafe(u, Top(u))'
  BY DEF Protection, OthersSame
<1>1. FrameSafe(u, Top(u)) /\ Top(u)' = Top(u)
  BY DEF Protection, OthersSame, Top
<1>2. FrameOK(u, Top(u))
  BY TopOK
<1>3. Top(u).op \in {"recheck", "run", "call", "throw"} /\ ~Top(u).locked => slot[u] # None
  BY <1>2 DEF FrameOK
<1> QED
  BY <1>1, <1>3 DEF FrameSafe

\* Writing to its own slot, t leaves the others alone.
LEMMA OwnSlot ==
    ASSUME Structure, SlotsExclusive, NEW t \in Threads, slot[t] # None, NEW v,
           hazard' = [hazard EXCEPT ![slot[t]] = v]
    PROVE  /\ hazard'[slot[t]] = v
           /\ \A u \in Threads \ {t} : slot[u] # None => hazard'[slot[u]] = hazard[slot[u]]
<1>1. slot[t] \in Slots /\ hazard \in [Slots -> 0..Len(views)]
  BY DEF Structure, TypeOK, SlotsTyped
<1>2. \A u \in Threads \ {t} : slot[u] # None => slot[u] \in Slots /\ slot[u] # slot[t]
  BY DEF Structure, TypeOK, SlotsTyped, SlotsExclusive
<1> QED
  BY <1>1, <1>2

\* The steps between the slot and the loop keep every reader protected.
LEMMA SafeReading ==
    ASSUME Structure, SlotsExclusive, Unnested, Protection, NEW t \in Threads, Reads(t)
    PROVE  Protection'
<1>0. /\ TypeOK /\ disp[t] # <<>> /\ edit[t].op = "idle"
      /\ Top(t) \in DispatchFrame /\ FrameOK(t, Top(t)) /\ FrameSafe(t, Top(t)) /\ cur \in Nat
  <2>1. TypeOK
    BY DEF Structure
  <2>2. disp[t] # <<>> /\ edit[t].op = "idle"
    BY DEF Reads, AcquireSlot, LoadView, Protect, Recheck, DispatchLocked,
           CallNext, CallbackReturns, CallbackThrows, Leave, Done, At
  <2>3. cur \in Nat
    BY <2>1 DEF TypeOK
  <2> QED
    BY <2>1, <2>2, <2>3, TopOK DEF Protection
<1>1. UNCHANGED <<edit, freed, cur>>
  BY FrameMoves DEF viewVars
<1>a. ASSUME Finish(t), UNCHANGED slot,
             hazard' = hazard \/ (slot[t] # None /\ hazard' = [hazard EXCEPT ![slot[t]] = 0])
      PROVE  Protection'
  <2>1. OthersSame(t) /\ Len(disp'[t]) = Len(disp[t]) - 1 /\ disp' \in [Threads -> Seq(DispatchFrame)]
    BY <1>0, <1>a, FinishFrames
  <2>2. Len(disp[t]) \in Nat /\ Len(disp[t]) <= 1
    BY <1>0 DEF TypeOK, Unnested
  <2>3. disp'[t] = <<>>
    BY <1>0, <2>1, <2>2, TopFrame
  <2> QED
    BY <1>1, <1>a, <2>1, <2>3, OwnSlot, SafeMoved
<1>b. ASSUME NEW f \in DispatchFrame, Goto(t, f), UNCHANGED hazard,
             \A u \in Threads \ {t} : slot'[u] = slot[u],
             \/ f.op \notin {"recheck", "run", "call", "throw"} \/ f.locked
             \/ /\ slot' = slot /\ Top(t).op \in {"recheck", "run", "call"} /\ f.view = Top(t).view
                /\ ~Top(t).locked
                /\ Top(t).op = "recheck" => f.view = cur
      PROVE  Protection'
  <2>1. OthersSame(t) /\ Top(t)' = f
    BY <1>0, <1>b, GotoFrames
  <2>2. /\ cur \notin freed
        /\ \A u \in Threads : edit[u].op \in {"count", "scan"} => edit[u].view # cur
    BY DEF Structure, ViewsOK
  <2>3. FrameSafe(t, f)'
    BY <1>0, <1>1, <1>b, <2>2 DEF FrameSafe
  <2> QED
    BY <1>1, <1>b, <2>1, <2>3, SafeMoved
<1>c. ASSUME NEW op \in {"slot", "load", "protect", "recheck", "lock", "run", "call", "throw"}
      PROVE  \E f \in DispatchFrame :
                /\ f = [Top(t) EXCEPT !.op = op]
                /\ f.op = op /\ f.view = Top(t).view /\ f.locked = Top(t).locked
  <2>1. PICK f \in DispatchFrame :
            /\ f = [Top(t) EXCEPT !.op = op]
            /\ f.op = op /\ f.view = Top(t).view /\ f.pos = Top(t).pos /\ f.heard = Top(t).heard
            /\ SameRest(f, Top(t))
    BY <1>0, FrameAt
  <2> QED
    BY <2>1 DEF SameRest
<1>d. \E f \in DispatchFrame :
            f = [Top(t) EXCEPT !.view = cur, !.op = "protect"] /\ f.op = "protect"
  <2>1. PICK f \in DispatchFrame :
            /\ f = [Top(t) EXCEPT !.view = cur, !.op = "protect"]
            /\ f.op = "protect" /\ f.view = cur /\ f.pos = Top(t).pos /\ f.heard = Top(t).heard
            /\ SameRest(f, Top(t))
    BY <1>0, FrameLoads
  <2> QED
    BY <2>1
<1>2. CASE AcquireSlot(t)
  <2>1. UNCHANGED hazard /\ \A u \in Threads \ {t} : slot'[u] = slot[u]
    <3>1. Acquire(t) /\ UNCHANGED hazard /\ SlotsKnown
      BY <1>2 DEF AcquireSlot, Structure, SlotsOwned
    <3> QED
      BY <3>1, SlotSteps
  <2>2. CASE UNCHANGED disp
    <3>1. Top(t)' = Top(t) /\ OthersSame(t) /\ Top(t).op = "slot"
      BY <1>2, <2>2 DEF Top, OthersSame, AcquireSlot, At
    <3>2. FrameSafe(t, Top(t))'
      BY <3>1 DEF FrameSafe
    <3> QED
      BY <1>1, <2>1, <3>1, <3>2, SafeMoved
  <2>3. ASSUME NEW op \in {"load", "lock"}, Step(t, op) PROVE Protection'
    <3>1. PICK f \in DispatchFrame : f = [Top(t) EXCEPT !.op = op] /\ f.op = op
      BY <1>c
    <3>2. Goto(t, f)
      BY <2>3, <3>1 DEF Step
    <3> QED
      BY <1>b, <2>1, <3>1, <3>2
  <2>4. UNCHANGED disp \/ Step(t, "load") \/ Step(t, "lock")
    <3>1. UNCHANGED disp \/ Step(t, IF slot'[t] = None THEN "lock" ELSE "load")
      BY <1>2 DEF AcquireSlot
    <3>2. CASE slot'[t] = None
      BY <3>1, <3>2
    <3>3. CASE slot'[t] # None
      BY <3>1, <3>3
    <3> QED
      BY <3>2, <3>3
  <2> QED
    BY <2>2, <2>3, <2>4
<1>3. CASE LoadView(t)
  <2>1. UNCHANGED <<hazard, slot>>
    BY <1>3 DEF LoadView, slotVars
  <2>2. CASE Finish(t)
    BY <1>a, <2>1, <2>2
  <2>3. CASE Goto(t, [Top(t) EXCEPT !.view = cur, !.op = "protect"])
    <3>1. PICK f \in DispatchFrame :
            f = [Top(t) EXCEPT !.view = cur, !.op = "protect"] /\ f.op = "protect"
      BY <1>d
    <3>2. Goto(t, f)
      BY <2>3, <3>1
    <3> QED
      BY <1>b, <2>1, <3>1, <3>2
  <2> QED
    BY <1>3, <2>2, <2>3 DEF LoadView
<1>4. CASE Protect(t)
  <2>1. /\ Top(t).op = "protect" /\ slot[t] # None /\ UNCHANGED slot
        /\ hazard' = [hazard EXCEPT ![slot[t]] = Top(t).view] /\ Step(t, "recheck")
    BY <1>0, <1>4 DEF Protect, At, FrameOK, slotVars
  <2>2. PICK f \in DispatchFrame :
            /\ f = [Top(t) EXCEPT !.op = "recheck"]
            /\ f.op = "recheck" /\ f.view = Top(t).view /\ f.locked = Top(t).locked
    BY <1>c
  <2>3. Goto(t, f)
    BY <2>1, <2>2 DEF Step
  <2>4. OthersSame(t) /\ Top(t)' = f
    BY <1>0, <2>3, GotoFrames
  <2>5. /\ hazard'[slot[t]] = f.view
        /\ \A u \in Threads \ {t} : slot[u] # None => hazard'[slot[u]] = hazard[slot[u]]
    BY <2>1, <2>2, OwnSlot
  <2>6. FrameSafe(t, f)'
    BY <2>1, <2>2, <2>5 DEF FrameSafe
  <2> QED
    BY <1>1, <2>1, <2>4, <2>5, <2>6, SafeMoved
<1>5. CASE Recheck(t)
  <2>1. Top(t).op = "recheck" /\ slot[t] # None /\ UNCHANGED slot /\ ~Top(t).locked
    BY <1>0, <1>5 DEF Recheck, At, FrameOK, slotVars
  <2>2. CASE cur = Top(t).view /\ Step(t, "run") /\ UNCHANGED hazard
    <3>1. PICK f \in DispatchFrame :
            /\ f = [Top(t) EXCEPT !.op = "run"]
            /\ f.op = "run" /\ f.view = Top(t).view /\ f.locked = Top(t).locked
      BY <1>c
    <3>2. Goto(t, f)
      BY <2>2, <3>1 DEF Step
    <3> QED
      BY <1>b, <2>1, <2>2, <3>1, <3>2
  <2>3. CASE Goto(t, [Top(t) EXCEPT !.view = cur, !.op = "protect"]) /\ UNCHANGED hazard
    <3>1. PICK f \in DispatchFrame :
            f = [Top(t) EXCEPT !.view = cur, !.op = "protect"] /\ f.op = "protect"
      BY <1>d
    <3>2. Goto(t, f)
      BY <2>3, <3>1
    <3> QED
      BY <1>b, <2>1, <2>3, <3>1, <3>2
  <2>4. CASE hazard' = [hazard EXCEPT ![slot[t]] = 0] /\ Finish(t)
    BY <1>a, <2>1, <2>4
  <2> QED
    BY <1>5, <2>2, <2>3, <2>4 DEF Recheck
<1>6. CASE DispatchLocked(t)
  <2>1. UNCHANGED <<hazard, slot>>
    BY <1>6 DEF DispatchLocked, slotVars
  <2>2. CASE Finish(t)
    BY <1>a, <2>1, <2>2
  <2>3. CASE Goto(t, [Top(t) EXCEPT !.view = cur, !.op = "run", !.locked = TRUE])
    <3>1. PICK f \in DispatchFrame :
            f = [Top(t) EXCEPT !.view = cur, !.op = "run", !.locked = TRUE] /\ f.locked
      BY <1>0, FrameLocks
    <3>2. Goto(t, f)
      BY <2>3, <3>1
    <3> QED
      BY <1>b, <2>1, <3>1, <3>2
  <2> QED
    BY <1>6, <2>2, <2>3 DEF DispatchLocked
<1>7. CASE CallNext(t) \/ CallbackReturns(t) \/ CallbackThrows(t)
  <2>1. UNCHANGED <<hazard, slot>> /\ Top(t).op \in {"run", "call"}
    BY <1>7 DEF CallNext, CallbackReturns, CallbackThrows, slotVars, At
  <2>2. PICK f \in DispatchFrame : Goto(t, f) /\ f.view = Top(t).view /\ f.locked = Top(t).locked
    <3>1. CASE CallNext(t)
      <4> DEFINE l == views[Top(t).view][Top(t).pos]
      <4>1. l \in Listeners
        <5>1. Top(t).op = "run" /\ Top(t).pos <= Len(views[Top(t).view])
          BY <3>1 DEF CallNext, At
        <5>2. Top(t).view \in 1..Len(views) /\ Top(t).pos \in Nat /\ Top(t).pos >= 1
          BY <1>0, <5>1 DEF FrameOK, DispatchFrame
        <5>3. views[Top(t).view] \in Seq(Listeners)
          BY <1>0, <5>2 DEF TypeOK
        <5> QED
          BY <5>1, <5>2, <5>3
      <4>2. PICK f \in DispatchFrame :
                /\ f = [Top(t) EXCEPT !.op = "call", !.heard = Append(@, l)]
                /\ f.op = "call" /\ f.view = Top(t).view /\ f.pos = Top(t).pos
                /\ f.heard = Append(Top(t).heard, l) /\ SameRest(f, Top(t))
        BY <1>0, <4>1, FrameCalls
      <4>3. PICK g \in DispatchFrame :
                /\ g = [Top(t) EXCEPT !.pos = @ + 1]
                /\ g.view = Top(t).view /\ g.locked = Top(t).locked
        BY <1>0, FrameAdvances DEF SameRest
      <4>4. Goto(t, f) \/ Goto(t, g)
        BY <3>1, <4>2, <4>3 DEF CallNext
      <4> QED
        BY <4>2, <4>3, <4>4 DEF SameRest
    <3>2. CASE CallbackReturns(t)
      <4>1. PICK f \in DispatchFrame :
                /\ f = [Top(t) EXCEPT !.op = "run", !.pos = @ + 1]
                /\ f.view = Top(t).view /\ f.locked = Top(t).locked
        BY <1>0, FrameAdvances DEF SameRest
      <4> QED
        BY <3>2, <4>1 DEF CallbackReturns
    <3>3. CASE CallbackThrows(t)
      <4>1. PICK f \in DispatchFrame :
                /\ f = [Top(t) EXCEPT !.op = "throw"]
                /\ f.view = Top(t).view /\ f.locked = Top(t).locked
        BY <1>c
      <4> QED
        BY <3>3, <4>1 DEF CallbackThrows, Step
    <3> QED
      BY <1>7, <3>1, <3>2, <3>3
  <2> QED
    BY <1>b, <2>1, <2>2
<1>8. CASE Leave(t)
  <2>1. /\ UNCHANGED slot /\ Finish(t) /\ Top(t).op \in {"run", "throw"}
        /\ hazard' = IF Top(t).locked THEN hazard ELSE [hazard EXCEPT ![slot[t]] = 0]
    BY <1>8 DEF Leave, slotVars, Done, At
  <2>2. ~Top(t).locked => slot[t] # None
    BY <1>0, <2>1 DEF FrameOK
  <2> QED
    BY <1>a, <2>1, <2>2
<1> QED
  BY <1>2, <1>3, <1>4, <1>5, <1>6, <1>7, <1>8 DEF Reads

\* Every step keeps every reader protected while no callback dispatches.
LEMMA ProtectionStep ==
    Structure /\ SlotsExclusive /\ Unnested /\ Protection /\ [Next]_vars => Protection'
<1> SUFFICES ASSUME Structure, SlotsExclusive, Unnested, Protection, [Next]_vars
             PROVE  Protection'
  OBVIOUS
<1>0. TypeOK /\ edit \in [Threads -> EditFrame] /\ retired \in SUBSET Nat /\ cur \in Nat
  <2>1. TypeOK
    BY DEF Structure
  <2>2. retired \subseteq 1..Len(views) /\ cur \in 0..Len(views)
    BY <2>1 DEF TypeOK
  <2> QED
    BY <2>1, <2>2 DEF TypeOK
<1>a. ASSUME UNCHANGED <<hazard, slot, disp, freed>>, NEW t \in Threads,
             \A u \in Threads \ {t} : edit'[u] = edit[u],
             edit'[t] = edit[t] \/ edit'[t].op \notin {"count", "scan"}
      PROVE  Protection'
  BY <1>a, SafeScanned
<1>1. CASE UNCHANGED vars
  <2>1. UNCHANGED <<hazard, slot, disp, freed, edit>>
    BY <1>1 DEF vars, slotVars
  <2> QED
    BY <2>1 DEF Protection, FrameSafe, Top
<1>2. ASSUME NEW t \in Threads, NEW l \in Listeners, OnDeferred(t, l) \/ On(t, l) \/ Remove(t, l)
      PROVE  Protection'
  <2>1. UNCHANGED <<hazard, slot, disp, freed>>
    BY <1>2 DEF OnDeferred, On, Remove, viewVars, slotVars
  <2>2. edit' = edit \/ \E op \in {"add", "remove"} : edit' = [edit EXCEPT ![t] = Edit(op, l)]
    BY <1>2 DEF OnDeferred, On, Remove
  <2>3. /\ \A u \in Threads \ {t} : edit'[u] = edit[u]
        /\ edit'[t] = edit[t] \/ edit'[t].op \notin {"count", "scan"}
    BY <1>0, <2>2 DEF Edit
  <2> QED
    BY <1>a, <2>1, <2>3
<1>3. ASSUME NEW t \in Threads,
             \/ AddEntry(t) \/ RemoveByToken(t) \/ Start(t) \/ AddListenerDeferred(t)
             \/ FinalizeListeners(t) \/ Clear(t) \/ Unlock(t)
      PROVE  Protection'
  <2>1. UNCHANGED <<hazard, slot, disp, freed>>
    BY <1>3 DEF AddEntry, RemoveByToken, Start, AddListenerDeferred, FinalizeListeners, Clear,
           Unlock, viewVars, slotVars
  <2>2. \/ edit' = edit \/ edit' = [edit EXCEPT ![t].op = "publish"]
        \/ \E e : edit' = [edit EXCEPT ![t] = e] /\ e.op \in {"idle", "flush", "unpublish"}
    BY <1>3 DEF AddEntry, RemoveByToken, Start, AddListenerDeferred, FinalizeListeners, Clear,
           Unlock, EditStep, Edit, Idle
  <2>3. /\ \A u \in Threads \ {t} : edit'[u] = edit[u]
        /\ edit'[t] = edit[t] \/ edit'[t].op \notin {"count", "scan"}
    BY <1>0, <2>2 DEF EditFrame
  <2> QED
    BY <1>a, <2>1, <2>3
<1>4. ASSUME NEW t \in Threads, RebuildView(t) \/ Unpublish(t) PROVE Protection'
  <2>1. UNCHANGED <<hazard, slot, disp, freed>> /\ edit[t].op \in Holding
    BY <1>4 DEF RebuildView, Unpublish, Editing, slotVars, Holding
  <2>2. retired' \in SUBSET Nat /\ ScanFrom(t, retired', 0)
    BY <1>0, <1>4 DEF RebuildView, Unpublish, Replace
  <2>3. /\ \A u \in Threads \ {t} : edit'[u] = edit[u]
        /\ edit'[t].pos = 0 /\ edit'[t].op # "scan"
    BY <1>0, <2>1, <2>2, ScanFromEdit
  <2> QED
    BY <2>1, <2>3, SafeScanned
<1>5. ASSUME NEW t \in Threads, ScanSlot(t) \/ FreeView(t) PROVE Protection'
  <2>1. /\ UNCHANGED <<hazard, slot, disp>> /\ edit[t].op = "scan"
        /\ \/ freed' = freed
           \/ freed' = freed \union {edit[t].view} /\ edit[t].pos >= edit[t].count
        /\ \/ ScanFrom(t, retired, edit[t].view)
           \/ edit' = [edit EXCEPT ![t].pos = @ + 1] /\ hazard[edit[t].pos] # edit[t].view
    BY <1>5 DEF ScanSlot, FreeView, Editing, viewVars, slotVars
  <2>2. edit[t].view \in Nat /\ edit[t].pos \in Nat
    BY <1>0 DEF EditFrame
  <2>3. CASE ScanFrom(t, retired, edit[t].view)
    <3>1. /\ \A u \in Threads \ {t} : edit'[u] = edit[u]
          /\ edit'[t].pos = 0 /\ edit'[t].op # "scan"
      BY <1>0, <2>1, <2>2, <2>3, ScanFromEdit DEF Holding
    <3> QED
      BY <2>1, <3>1, SafeScanned
  <2>4. CASE edit' = [edit EXCEPT ![t].pos = @ + 1] /\ hazard[edit[t].pos] # edit[t].view
    <3>1. /\ \A u \in Threads \ {t} : edit'[u] = edit[u]
          /\ edit'[t].view = edit[t].view /\ edit'[t].pos = edit[t].pos + 1
          /\ edit'[t].count = edit[t].count
      BY <1>0, <2>4 DEF EditFrame
    <3> QED
      BY <2>1, <2>4, <3>1, SafeScanned
  <2> QED
    BY <2>1, <2>3, <2>4
<1>9. ASSUME NEW t \in Threads, LoadCount(t) PROVE Protection'
  <2>1. /\ UNCHANGED <<hazard, slot, disp, freed>> /\ edit[t].op = "count"
        /\ edit' = [edit EXCEPT ![t].op = "scan", ![t].count = published]
    BY <1>9 DEF LoadCount, Editing, viewVars, slotVars
  <2>2. /\ \A u \in Threads \ {t} : edit'[u] = edit[u]
        /\ edit'[t].view = edit[t].view /\ edit'[t].pos = edit[t].pos
        /\ edit'[t].count = published
    BY <1>0, <2>1 DEF EditFrame
  <2> QED
    BY <2>1, <2>2, SafeScanned
<1>6. ASSUME NEW t \in Threads, NEW sc \in Scopes, Dispatch(t, sc) PROVE Protection'
  <2> DEFINE f == [op |-> IF slot[t] = None THEN "slot" ELSE "load", scope |-> sc, view |-> 0,
                   pos |-> 1, locked |-> FALSE, heard |-> <<>>, due |-> Contents(cur),
                   gone |-> Gone]
  <2>1. Contents(cur) \subseteq Listeners /\ Gone \subseteq Listeners
    <3>1. cur \in 0..Len(views) /\ views \in Seq(Seq(Listeners)) /\ removed \subseteq Listeners
      BY <1>0 DEF TypeOK
    <3>2. cur # 0 => views[cur] \in Seq(Listeners)
      BY <3>1
    <3> QED
      BY <3>1, <3>2 DEF Contents, Gone
  <2>a. f \in DispatchFrame /\ f.op \in {"slot", "load"}
    BY <2>1 DEF DispatchFrame
  <2>b. disp' = [disp EXCEPT ![t] = Append(@, f)] /\ UNCHANGED <<hazard, slot, freed, edit>>
    BY <1>6 DEF Dispatch, viewVars, slotVars
  <2> HIDE DEF f
  <2>2. PICK g \in DispatchFrame : g = f /\ g.op \in {"slot", "load"}
    BY <2>a
  <2>3. disp' = [disp EXCEPT ![t] = Append(@, g)] /\ UNCHANGED <<hazard, slot, freed, edit>>
    BY <2>b, <2>2
  <2>4. OthersSame(t) /\ Top(t)' = g
    BY <1>0, <2>3, DispatchFrames
  <2>5. FrameSafe(t, g)'
    BY <2>2 DEF FrameSafe
  <2> QED
    BY <2>3, <2>4, <2>5, SafeMoved
<1>7. ASSUME NEW t \in Threads, ThreadExit(t) \/ RecycleSlot(t) PROVE Protection'
  <2>1. /\ disp[t] = <<>> /\ SlotsKnown
        /\ ReleaseSlot(t) \/ Recycle(t)
        /\ UNCHANGED <<hazard, disp, freed, edit>>
    BY <1>7 DEF ThreadExit, RecycleSlot, Recycle, LinkSlot, PushSlot, viewVars, Structure, SlotsOwned
  <2>2. \A u \in Threads \ {t} : slot'[u] = slot[u]
    BY <2>1, SlotSteps
  <2> QED
    BY <2>1, <2>2, SafeMoved DEF OthersSame
<1>8. ASSUME NEW t \in Threads, Reads(t) PROVE Protection'
  BY <1>8, SafeReading
<1> QED
  BY <1>1, <1>2, <1>3, <1>4, <1>5, <1>6, <1>7, <1>8, <1>9 DEF Next, Continue, Reads

\* Nobody reads in an empty store.
LEMMA ProtectionInit == Init => Protection
BY DEF Init, Protection

\* A reader that is protected reads a view that is not freed.
LEMMA ProtectionSuffices == Structure /\ Unnested /\ Protection => ViewOutlivesDispatch
<1> SUFFICES ASSUME Structure, Unnested, Protection, NEW t \in Threads,
                    NEW i \in 1..Len(disp[t]), disp[t][i].op \in {"run", "call"}
             PROVE  disp[t][i].view \notin freed
  BY DEF ViewOutlivesDispatch
<1>1. disp[t] \in Seq(DispatchFrame) /\ Len(disp[t]) \in Nat /\ Len(disp[t]) <= 1
  BY DEF Structure, TypeOK, Unnested
<1>2. i = Len(disp[t]) /\ disp[t] # <<>>
  BY <1>1
<1>3. disp[t][i] = Top(t)
  BY <1>2 DEF Top
<1>4. FrameSafe(t, Top(t)) /\ FrameOK(t, Top(t))
  BY <1>2, TopOK DEF Protection
<1>5. cur \notin freed
  BY DEF Structure, ViewsOK
<1> QED
  BY <1>3, <1>4, <1>5 DEF FrameSafe, FrameOK

\* As long as no callback dispatches in turn and no two threads have the same
\* hazard slot, a dispatch never reads a view that reclaimRetiredViews_ has
\* freed: the hazard slot is published before the view is loaded again, and the
\* scan looks at every slot after the replacement.
THEOREM UnnestedDispatchSafe ==
    Spec /\ []SlotsExclusive /\ []Unnested => []ViewOutlivesDispatch
BY StructureHolds, ProtectionInit, ProtectionStep, ProtectionSuffices, PTL DEF Spec

\* Nothing is dispatched at first.
LEMMA UnnestedInit == Init => Unnested
<1> SUFFICES ASSUME Init, NEW t \in Threads PROVE Len(disp[t]) <= 1
  BY DEF Unnested
<1>1. disp[t] = <<>>
  BY DEF Init
<1>2. Len(disp[t]) = 0
  BY <1>1
<1> QED
  BY <1>2

\* No callback dispatches in turn when MaxDepth is 1.
LEMMA UnnestedStep == MaxDepth = 1 /\ Structure /\ Unnested /\ [Next]_vars => Unnested'
<1> SUFFICES ASSUME MaxDepth = 1, Structure, Unnested, [Next]_vars PROVE Unnested'
  OBVIOUS
<1>0. TypeOK /\ \A u \in Threads : Len(disp[u]) \in Nat /\ Len(disp[u]) <= 1
  BY DEF Structure, TypeOK, Unnested
<1>a. ASSUME UNCHANGED disp PROVE Unnested'
  BY <1>a DEF Unnested
<1>1. CASE UNCHANGED vars
  BY <1>1, <1>a DEF vars
<1>2. ASSUME NEW t \in Threads, NEW l \in Listeners, OnDeferred(t, l) \/ On(t, l) \/ Remove(t, l)
      PROVE  Unnested'
  BY <1>2, <1>a DEF OnDeferred, On, Remove
<1>3. ASSUME NEW t \in Threads,
             \/ AddEntry(t) \/ RemoveByToken(t) \/ Start(t) \/ AddListenerDeferred(t)
             \/ FinalizeListeners(t) \/ Clear(t) \/ RebuildView(t) \/ Unpublish(t)
             \/ LoadCount(t) \/ ScanSlot(t) \/ FreeView(t) \/ Unlock(t) \/ ThreadExit(t)
             \/ RecycleSlot(t)
      PROVE  Unnested'
  BY <1>3, <1>a DEF AddEntry, RemoveByToken, Start, AddListenerDeferred, FinalizeListeners, Clear,
         RebuildView, Unpublish, LoadCount, ScanSlot, FreeView, Unlock, ThreadExit, RecycleSlot
<1>4. ASSUME NEW t \in Threads, NEW sc \in Scopes, Dispatch(t, sc) PROVE Unnested'
  <2>1. Len(disp[t]) = 0
    BY <1>0, <1>4 DEF Dispatch
  <2>2. PICK f : disp' = [disp EXCEPT ![t] = Append(@, f)]
    BY <1>4 DEF Dispatch
  <2>3. disp[t] = <<>>
    BY <1>0, <2>1 DEF TypeOK
  <2>4. Append(disp[t], f) = <<f>> /\ Len(<<f>>) = 1
    BY <2>3
  <2>5. disp'[t] = <<f>> /\ \A u \in Threads \ {t} : disp'[u] = disp[u]
    BY <1>0, <2>2, <2>4 DEF TypeOK
  <2>6. Len(disp'[t]) <= 1
    <3>1. Len(disp'[t]) = 1
      BY <2>4, <2>5
    <3> QED
      BY <3>1
  <2>7. ASSUME NEW u \in Threads PROVE Len(disp'[u]) <= 1
    <3>1. CASE u = t
      BY <2>6, <3>1, Zenon
    <3>2. CASE u # t
      BY <1>0, <2>5, <3>2
    <3> QED
      BY <3>1, <3>2
  <2> QED
    BY <2>7 DEF Unnested
<1>5. ASSUME NEW t \in Threads, Reads(t) PROVE Unnested'
  <2>1. Kin(t)
    BY <1>5, FrameMoves
  <2>2. Structure'
    BY <1>5, StructureStep
  <2>3. \A u \in Threads : disp'[u] \in Seq(DispatchFrame) /\ Len(disp'[u]) \in Nat
    BY <2>2 DEF Structure, TypeOK
  <2> SUFFICES ASSUME NEW u \in Threads, Len(disp'[u]) > 1 PROVE FALSE
    BY <2>3 DEF Unnested
  <2>4. 2 \in 1..Len(disp'[u])
    BY <2>3
  <2>5. 2 \in 1..Len(disp[u])
    BY <2>1, <2>4 DEF Kin
  <2> QED
    BY <1>0, <2>5
<1> QED
  BY <1>1, <1>2, <1>3, <1>4, <1>5 DEF Next, Continue, Reads

\* Every step of the store takes one step of its slots or leaves them alone.
LEMMA SlotsOfStore == [Next]_vars => [SlotNext]_slotVars
<1> SUFFICES ASSUME [Next]_vars PROVE [SlotNext]_slotVars
  OBVIOUS
<1>1. CASE UNCHANGED vars
  BY <1>1 DEF vars
<1>2. ASSUME NEW t \in Threads, AcquireSlot(t) \/ ThreadExit(t) \/ RecycleSlot(t)
      PROVE  SlotNext
  BY <1>2 DEF AcquireSlot, ThreadExit, RecycleSlot, SlotNext
<1>3. ASSUME NEW t \in Threads, NEW l \in Listeners, OnDeferred(t, l) \/ On(t, l) \/ Remove(t, l)
      PROVE  UNCHANGED slotVars
  BY <1>3 DEF OnDeferred, On, Remove
<1>4. ASSUME NEW t \in Threads,
             \/ AddEntry(t) \/ RemoveByToken(t) \/ Start(t) \/ AddListenerDeferred(t)
             \/ FinalizeListeners(t) \/ Clear(t) \/ RebuildView(t) \/ Unpublish(t)
             \/ LoadCount(t) \/ ScanSlot(t) \/ FreeView(t) \/ Unlock(t)
      PROVE  UNCHANGED slotVars
  BY <1>4 DEF AddEntry, RemoveByToken, Start, AddListenerDeferred, FinalizeListeners, Clear,
         RebuildView, Unpublish, LoadCount, ScanSlot, FreeView, Unlock
<1>5. ASSUME NEW t \in Threads, NEW sc \in Scopes, Dispatch(t, sc) PROVE UNCHANGED slotVars
  BY <1>5 DEF Dispatch
<1>6. ASSUME NEW t \in Threads,
             \/ LoadView(t) \/ Protect(t) \/ Recheck(t) \/ DispatchLocked(t) \/ CallNext(t)
             \/ CallbackReturns(t) \/ CallbackThrows(t) \/ Leave(t)
      PROVE  UNCHANGED slotVars
  BY <1>6 DEF LoadView, Protect, Recheck, DispatchLocked, CallNext, CallbackReturns, CallbackThrows,
         Leave
<1> QED
  BY <1>1, <1>2, <1>3, <1>4, <1>5, <1>6 DEF Next, Continue

\* The store uses its slots as HazardSlots says, so what holds of SlotSpec holds
\* of the slots of a store.
THEOREM StoreUsesSlots == Spec => SlotSpec
<1>1. Init => SlotInit
  BY DEF Init
<1> QED
  BY <1>1, SlotsOfStore, PTL DEF Spec, SlotSpec

\* When callbacks cannot dispatch in turn (MaxDepth is 1), a dispatch never reads
\* a freed view if the table has one slot, as in the run, or if threads give
\* their slots back only while no other is inside the pop of one.  The runs
\* NestedDispatch and HazardAba show what happens without either condition.
THEOREM ViewsProtected ==
    MaxDepth = 1 => (Spec /\ [](NumSlots <= 1 \/ Calm) => []ViewOutlivesDispatch)
<1> SUFFICES ASSUME MaxDepth = 1
             PROVE  Spec /\ [](NumSlots <= 1 \/ Calm) => []ViewOutlivesDispatch
  OBVIOUS
<1>1. Init => Unnested
  BY UnnestedInit
<1>2. Structure /\ Unnested /\ [Next]_vars => Unnested'
  BY UnnestedStep
<1>3. Spec => []Unnested
  BY <1>1, <1>2, StructureHolds, PTL DEF Spec
<1> QED
  BY <1>3, StoreUsesSlots, SlotsStayExclusive, UnnestedDispatchSafe, PTL

-----------------------------------------------------------------------------
(* Why a retired view is still there.                                      *)

Scanning(t) == edit[t].op \in {"count", "scan"}

\* A view the scan passed over was named by a slot s since the replacement: it
\* is a[s], what the slot named then, or b[s], what its owner was about to name.
KeptFor(a, b) ==
    /\ \A w \in retired : (\A t \in Threads : Scanning(t) => w < edit[t].view) =>
        \E s \in Slots : s < nextSlot /\ w \in {a[s], b[s]}
    /\ (\E t \in Threads : Scanning(t)) =>
        /\ \A s \in Slots : hazard[s] \in {a[s], b[s], cur, 0}
        /\ \A u \in Threads : disp[u] # <<>> /\ Top(u).op = "protect" =>
            Top(u).view \in {a[slot[u]], b[slot[u]], cur}

Retention == \E a, b \in [Slots -> Nat] : KeptFor(a, b)

\* The scan stays with its view; other calls go on.
LEMMA KeptEditing ==
    ASSUME NEW a, NEW b, KeptFor(a, b), UNCHANGED <<retired, cur, hazard, nextSlot, slot, disp>>,
           \A t \in Threads : Scanning(t)' <=> Scanning(t),
           \A t \in Threads : Scanning(t) => edit'[t].view = edit[t].view
    PROVE  KeptFor(a, b)'
BY DEF KeptFor, Top

\* What a slot names, and what its owner is about to name, changes only to the
\* published view or to what was to be named.
LEMMA KeptReading ==
    ASSUME NEW a, NEW b, KeptFor(a, b), UNCHANGED <<retired, cur, edit>>,
           nextSlot \in Nat, nextSlot' \in Nat, nextSlot <= nextSlot', NumSlots \in Nat,
           \A s \in Slots :
                \/ hazard'[s] \in {hazard[s], 0}
                \/ \E u \in Threads : /\ disp[u] # <<>> /\ Top(u).op = "protect"
                                      /\ slot[u] = s /\ hazard'[s] = Top(u).view,
           \A u \in Threads : (disp[u] # <<>> /\ Top(u).op = "protect")' =>
                \/ Top(u)'.view = cur
                \/ disp[u] # <<>> /\ Top(u).op = "protect" /\ Top(u)'.view = Top(u).view
                   /\ slot'[u] = slot[u]
    PROVE  KeptFor(a, b)'
<1>1. \A s \in Slots : s < nextSlot => s < nextSlot'
  BY DEF Slots
<1>2. \A w \in retired' : (\A t \in Threads : Scanning(t)' => w < edit'[t].view) =>
        \E s \in Slots : s < nextSlot' /\ w \in {a[s], b[s]}
  BY <1>1 DEF KeptFor, Scanning
<1>3. ASSUME \E t \in Threads : Scanning(t)
      PROVE  /\ \A s \in Slots : hazard'[s] \in {a[s], b[s], cur', 0}
             /\ \A u \in Threads : (disp[u] # <<>> /\ Top(u).op = "protect")' =>
                    Top(u)'.view \in {a[slot'[u]], b[slot'[u]], cur'}
  <2>1. /\ \A s \in Slots : hazard[s] \in {a[s], b[s], cur, 0}
        /\ \A u \in Threads : disp[u] # <<>> /\ Top(u).op = "protect" =>
            Top(u).view \in {a[slot[u]], b[slot[u]], cur}
    BY <1>3 DEF KeptFor
  <2> QED
    BY <2>1
<1> QED
  BY <1>2, <1>3 DEF KeptFor, Scanning

\* The scan goes from a view it keeps, or frees, to the next.
LEMMA KeptScanning ==
    ASSUME Structure, NEW a, NEW b, KeptFor(a, b), NEW t \in Threads, edit[t].op = "scan",
           UNCHANGED <<cur, hazard, nextSlot, slot, disp>>,
           ScanFrom(t, retired, edit[t].view),
           \/ retired' = retired \ {edit[t].view}
           \/ /\ retired' = retired
              /\ \E s \in Slots : s < nextSlot /\ edit[t].view \in {a[s], b[s]}
    PROVE  KeptFor(a, b)'
<1>0. /\ TypeOK /\ retired \in SUBSET Nat /\ edit[t].view \in Nat
      /\ \A u \in Threads : edit[u].view \in Nat
  <2>1. TypeOK
    BY DEF Structure
  <2>2. retired \subseteq 1..Len(views) /\ edit \in [Threads -> EditFrame]
    BY <2>1 DEF TypeOK
  <2> QED
    BY <2>1, <2>2 DEF EditFrame
<1>1. /\ \A u \in Threads \ {t} : edit'[u] = edit[u]
      /\ edit'[t].op \in {"count", "unlock"}
      /\ edit'[t].op = "count" => /\ edit'[t].view \in retired
                                  /\ \A w \in retired : w > edit[t].view => edit'[t].view <= w
      /\ edit'[t].op = "unlock" => \A w \in retired : w <= edit[t].view
  <2>1. PICK v \in Nat : v = edit[t].view
    BY <1>0
  <2>2. PICK R \in SUBSET Nat : R = retired
    BY <1>0
  <2>3. edit[t].op \in Holding /\ ScanFrom(t, R, v) /\ TypeOK
    BY <1>0, <2>1, <2>2 DEF Holding
  <2>4. /\ \A u \in Threads \ {t} : edit'[u] = edit[u]
        /\ edit'[t].op \in {"count", "unlock"}
        /\ edit'[t].op = "count" => /\ edit'[t].view \in R
                                    /\ \A w \in R : w > v => edit'[t].view <= w
        /\ edit'[t].op = "unlock" => \A w \in R : w <= v
    BY <2>3, ScanFromEdit
  <2> QED
    BY <2>1, <2>2, <2>4
<1>2. \A u \in Threads \ {t} : ~Scanning(u)
  BY DEF Structure, Locking, Holding, Scanning
<1>3. ASSUME NEW w \in retired', \A u \in Threads : Scanning(u)' => w < edit'[u].view
      PROVE  \E s \in Slots : s < nextSlot' /\ w \in {a[s], b[s]}
  <2>1. w \in retired /\ w \in Nat
    BY <1>0, <1>3
  <2>2. CASE w = edit[t].view
    BY <1>3, <2>2
  <2>3. CASE w < edit[t].view
    BY <1>2, <2>1, <2>3 DEF KeptFor
  <2>4. CASE w > edit[t].view
    <3>1. edit'[t].op = "count"
      BY <1>0, <1>1, <2>1, <2>4
    <3>2. edit'[t].view <= w /\ w < edit'[t].view /\ edit'[t].view \in Nat
      BY <1>0, <1>1, <1>3, <2>1, <2>4, <3>1 DEF Scanning
    <3> QED
      BY <2>1, <3>2
  <2> QED
    BY <1>0, <2>1, <2>2, <2>3, <2>4
<1>4. /\ \A s \in Slots : hazard'[s] \in {a[s], b[s], cur', 0}
      /\ \A u \in Threads : (disp[u] # <<>> /\ Top(u).op = "protect")' =>
                    Top(u)'.view \in {a[slot'[u]], b[slot'[u]], cur'}
  BY DEF KeptFor, Top, Scanning
<1> QED
  BY <1>3, <1>4 DEF KeptFor

\* What the owner of slot s is about to name.
Pending(s) == LET O == {u \in Threads : slot[u] = s /\ disp[u] # <<>> /\ Top(u).op = "protect"}
              IN  IF O = {} THEN 0 ELSE Top(CHOOSE u \in O : TRUE).view

\* The owner of a slot that is about to name a view.
LEMMA PendingIs ==
    ASSUME Structure, SlotsExclusive
    PROVE  /\ \A s \in Slots : Pending(s) \in Nat
           /\ \A u \in Threads : disp[u] # <<>> /\ Top(u).op = "protect" =>
                slot[u] \in Slots /\ Top(u).view = Pending(slot[u])
<1>1. ASSUME NEW u \in Threads, disp[u] # <<>>, Top(u).op = "protect"
      PROVE  /\ slot[u] \in Slots /\ Top(u).view \in Nat
             /\ \A w \in Threads : slot[w] = slot[u] => w = u
  <2>1. FrameOK(u, Top(u)) /\ Top(u) \in DispatchFrame
    BY <1>1, TopOK
  <2>2. slot[u] # None /\ Top(u).view \in Nat
    BY <1>1, <2>1 DEF FrameOK, DispatchFrame
  <2>3. slot[u] \in Slots
    BY <2>2 DEF Structure, TypeOK, SlotsTyped
  <2> QED
    BY <2>2, <2>3 DEF SlotsExclusive
<1>2. ASSUME NEW s \in Slots PROVE Pending(s) \in Nat
  <2> DEFINE O == {u \in Threads : slot[u] = s /\ disp[u] # <<>> /\ Top(u).op = "protect"}
  <2>1. CASE O = {}
    BY <2>1 DEF Pending
  <2>2. CASE O # {}
    <3>1. (CHOOSE u \in O : TRUE) \in O
      BY <2>2
    <3>2. Pending(s) = Top(CHOOSE u \in O : TRUE).view
      BY <2>2 DEF Pending
    <3> QED
      BY <1>1, <3>1, <3>2
  <2> QED
    BY <2>1, <2>2
<1>3. ASSUME NEW u \in Threads, disp[u] # <<>>, Top(u).op = "protect"
      PROVE  Top(u).view = Pending(slot[u])
  <2> DEFINE O == {w \in Threads : slot[w] = slot[u] /\ disp[w] # <<>> /\ Top(w).op = "protect"}
  <2>1. u \in O /\ \A w \in O : w = u
    BY <1>1, <1>3
  <2>2. (CHOOSE w \in O : TRUE) \in O
    BY <2>1
  <2>3. Pending(slot[u]) = Top(CHOOSE w \in O : TRUE).view
    BY <2>1 DEF Pending
  <2> QED
    BY <2>1, <2>2, <2>3
<1> QED
  BY <1>1, <1>2, <1>3

\* A new scan starts with what the slots name now.
LEMMA KeptAnew ==
    ASSUME Structure, SlotsExclusive, NEW t \in Threads, edit[t].op \in {"publish", "unpublish"},
           Replace(t, cur'), UNCHANGED <<hazard, nextSlot, slot, disp>>
    PROVE  Retention'
<1>0. /\ TypeOK /\ retired' \in SUBSET Nat /\ hazard \in [Slots -> Nat] /\ 0 \notin retired'
  <2>1. TypeOK
    BY DEF Structure
  <2>2. retired \subseteq 1..Len(views) /\ cur \in 0..Len(views) /\ Len(views) \in Nat
        /\ hazard \in [Slots -> 0..Len(views)]
    BY <2>1 DEF TypeOK
  <2> QED
    BY <2>1, <2>2 DEF Replace
<1>1. PICK a : a = hazard
  OBVIOUS
<1>2. PICK b : b = [s \in Slots |-> Pending(s)]
  OBVIOUS
<1>3. a \in [Slots -> Nat] /\ b \in [Slots -> Nat]
  BY <1>0, <1>1, <1>2, PendingIs
<1>4. /\ \A u \in Threads \ {t} : edit'[u] = edit[u]
      /\ edit'[t].op \in {"count", "unlock"}
      /\ edit'[t].op = "count" => /\ edit'[t].view \in retired'
                                  /\ \A w \in retired' : w > 0 => edit'[t].view <= w
      /\ edit'[t].op = "unlock" => \A w \in retired' : w <= 0
  BY <1>0, ScanFromEdit DEF Holding, Replace
<1>5. ASSUME NEW w \in retired', \A u \in Threads : Scanning(u)' => w < edit'[u].view
      PROVE  FALSE
  <2>1. w \in Nat /\ w > 0
    BY <1>0
  <2>2. edit'[t].op = "count"
    BY <1>4, <2>1
  <2>3. edit'[t].view <= w /\ w < edit'[t].view /\ edit'[t].view \in Nat
    BY <1>0, <1>4, <1>5, <2>1, <2>2 DEF Scanning
  <2> QED
    BY <2>1, <2>3
<1>6. /\ \A s \in Slots : hazard'[s] \in {a[s], b[s], cur', 0}
      /\ \A u \in Threads : (disp[u] # <<>> /\ Top(u).op = "protect")' =>
                    Top(u)'.view \in {a[slot'[u]], b[slot'[u]], cur'}
  <2>1. \A u \in Threads : disp[u] # <<>> /\ Top(u).op = "protect" => Top(u).view = b[slot[u]]
    BY <1>2, PendingIs
  <2> QED
    BY <1>1, <2>1 DEF Top
<1>7. KeptFor(a, b)'
  BY <1>5, <1>6 DEF KeptFor
<1> QED
  BY <1>3, <1>7 DEF Retention

\* A dispatch that reads on.
LEMMA KeptReads ==
    ASSUME Structure, NEW a, NEW b, KeptFor(a, b), NEW t \in Threads, Reads(t)
    PROVE  KeptFor(a, b)'
<1>0. /\ TypeOK /\ disp[t] # <<>> /\ Top(t) \in DispatchFrame /\ FrameOK(t, Top(t)) /\ cur \in Nat
      /\ nextSlot \in Nat /\ NumSlots \in Nat /\ hazard \in [Slots -> 0..Len(views)]
  <2>1. TypeOK
    BY DEF Structure
  <2>2. disp[t] # <<>>
    BY DEF Reads, AcquireSlot, LoadView, Protect, Recheck, DispatchLocked,
           CallNext, CallbackReturns, CallbackThrows, Leave, Done, At
  <2>3. /\ cur \in Nat /\ nextSlot \in Nat /\ NumSlots \in Nat
        /\ hazard \in [Slots -> 0..Len(views)]
    <3>1. nextSlot \in 0..NumSlots /\ cur \in 0..Len(views) /\ hazard \in [Slots -> 0..Len(views)]
      BY <2>1 DEF TypeOK, SlotsTyped
    <3> QED
      BY <3>1, SlotConstants
  <2> QED
    BY <2>1, <2>2, <2>3, TopOK
<1>1. UNCHANGED <<retired, cur, edit>>
  BY FrameMoves DEF viewVars
<1>2. /\ nextSlot' \in Nat /\ nextSlot <= nextSlot'
      /\ \A u \in Threads \ {t} : slot'[u] = slot[u]
  <2>1. CASE AcquireSlot(t)
    <3>1. Acquire(t) /\ SlotsKnown
      BY <2>1 DEF AcquireSlot, Structure, SlotsOwned
    <3>2. /\ SlotsTyped' /\ nextSlot <= nextSlot'
          /\ \A u \in Threads \ {t} : slot'[u] = slot[u]
      BY <3>1, SlotSteps
    <3>3. nextSlot' \in 0..NumSlots
      BY <3>2 DEF SlotsTyped
    <3> QED
      BY <3>2, <3>3
  <2>2. CASE ~AcquireSlot(t)
    <3>1. UNCHANGED <<nextSlot, slot>>
      BY <2>2 DEF Reads, LoadView, Protect, Recheck, DispatchLocked, CallNext, CallbackReturns,
         CallbackThrows, Leave, slotVars
    <3> QED
      BY <1>0, <3>1
  <2> QED
    BY <2>1, <2>2
<1>3. \A s \in Slots :
        \/ hazard'[s] \in {hazard[s], 0}
        \/ \E u \in Threads : /\ disp[u] # <<>> /\ Top(u).op = "protect"
                              /\ slot[u] = s /\ hazard'[s] = Top(u).view
  <2>1. CASE Protect(t)
    BY <1>0, <2>1 DEF Protect, At
  <2>2. CASE ~Protect(t)
    <3>1. hazard' = hazard \/ hazard' = [hazard EXCEPT ![slot[t]] = 0]
      BY <2>2 DEF Reads, AcquireSlot, LoadView, Recheck, DispatchLocked,
             CallNext, CallbackReturns, CallbackThrows, Leave
    <3> QED
      BY <1>0, <3>1
  <2> QED
    BY <2>1, <2>2
<1>4. \A u \in Threads \ {t} : disp'[u] = disp[u] /\ slot'[u] = slot[u]
  <2>1. disp \in [Threads -> Seq(DispatchFrame)]
    BY <1>0 DEF TypeOK
  <2>2. (\E f : Goto(t, f)) \/ Finish(t) \/ UNCHANGED disp
    BY DEF Reads, AcquireSlot, LoadView, Protect, Recheck, DispatchLocked,
           CallNext, CallbackReturns, CallbackThrows, Leave, Step
  <2>4. \A u \in Threads \ {t} : disp'[u] = disp[u]
    BY <2>1, <2>2 DEF Goto, Finish
  <2> QED
    BY <1>2, <2>4
<1>5. ASSUME disp'[t] # <<>>, Top(t)'.op = "protect" PROVE Top(t)'.view = cur
  <2>1. Structure'
    <3>1. [Next]_vars
      BY DEF Reads, Next, Continue
    <3> QED
      BY <3>1, StructureStep
  <2>2. /\ Len(disp'[t]) \in Nat \ {0} /\ Top(t)' = disp'[t][Len(disp'[t])]
    BY <1>5, <2>1 DEF Structure, TypeOK, Top
  <2>3. PICK i \in 1..Len(disp'[t]) : i = Len(disp'[t]) /\ Top(t)' = disp'[t][i]
    BY <2>2
  <2>4. /\ i \in 1..Len(disp[t])
        /\ disp'[t][i] = disp[t][i] \/ (i = Len(disp[t]) /\ Moves(disp[t][i], disp'[t][i]))
    BY FrameMoves DEF Kin
  <2>5. CASE i = Len(disp[t]) /\ Moves(disp[t][i], disp'[t][i])
    BY <1>5, <2>3, <2>5 DEF Moves
  <2>6. CASE i # Len(disp[t]) /\ disp'[t][i] = disp[t][i]
    <3>1. i < Len(disp[t])
      BY <1>0, <2>4, <2>6 DEF TypeOK
    <3>2. disp[t][i].op = "call"
      BY <2>4, <3>1 DEF Structure, Nesting
    <3> QED
      BY <1>5, <2>3, <2>6, <3>2
  <2>7. CASE i = Len(disp[t]) /\ disp'[t][i] = disp[t][i]
    <3>1. disp[t][i] = Top(t) /\ Top(t).op = "protect"
      BY <1>5, <2>3, <2>7 DEF Top
    <3>2. Protect(t)
      BY <3>1 DEF Reads, AcquireSlot, LoadView, Recheck, DispatchLocked,
           CallNext, CallbackReturns, CallbackThrows, Leave, Done, At
    <3>3. PICK f \in DispatchFrame :
            /\ f = [Top(t) EXCEPT !.op = "recheck"]
            /\ f.op = "recheck" /\ f.view = Top(t).view /\ f.pos = Top(t).pos
            /\ f.heard = Top(t).heard
            /\ SameRest(f, Top(t))
      BY <1>0, FrameAt
    <3>4. Goto(t, f)
      BY <3>2, <3>3 DEF Protect, Step
    <3>5. Top(t)' = f
      BY <1>0, <3>4, GotoFrames
    <3> QED
      BY <1>5, <3>3, <3>5
  <2> QED
    BY <2>4, <2>5, <2>6, <2>7
<1>6. \A u \in Threads : (disp[u] # <<>> /\ Top(u).op = "protect")' =>
        \/ Top(u)'.view = cur
        \/ disp[u] # <<>> /\ Top(u).op = "protect" /\ Top(u)'.view = Top(u).view
           /\ slot'[u] = slot[u]
  BY <1>4, <1>5 DEF Top
<1> QED
  BY <1>0, <1>1, <1>2, <1>3, <1>6, KeptReading

\* Every step keeps a reason for each view that is still retired.
LEMMA RetentionStep == Structure /\ SlotsExclusive /\ Retention /\ [Next]_vars => Retention'
<1> SUFFICES ASSUME Structure, SlotsExclusive, [Next]_vars,
                    NEW a \in [Slots -> Nat], NEW b \in [Slots -> Nat], KeptFor(a, b)
             PROVE  Retention'
  BY DEF Retention
<1>0. /\ TypeOK /\ edit \in [Threads -> EditFrame] /\ retired \in SUBSET Nat /\ 0 \notin retired
      /\ nextSlot \in Nat /\ NumSlots \in Nat /\ published \in Nat
  <2>1. TypeOK
    BY DEF Structure
  <2>2. retired \subseteq 1..Len(views)
    BY <2>1 DEF TypeOK
  <2>3. nextSlot \in Nat /\ published \in Nat /\ NumSlots \in Nat
    <3>1. nextSlot \in 0..NumSlots /\ published \in 0..NumSlots
      BY <2>1 DEF TypeOK, SlotsTyped
    <3> QED
      BY <3>1, SlotConstants
  <2> QED
    BY <2>1, <2>2, <2>3 DEF TypeOK
<1>a. ASSUME KeptFor(a, b)' PROVE Retention'
  BY <1>a DEF Retention
<1>b. ASSUME UNCHANGED <<retired, cur, hazard, nextSlot, slot, disp>>, NEW t \in Threads,
             \A u \in Threads \ {t} : edit'[u] = edit[u],
             \/ edit'[t] = edit[t]
             \/ ~Scanning(t) /\ ~Scanning(t)'
             \/ Scanning(t) /\ Scanning(t)' /\ edit'[t].view = edit[t].view
      PROVE  Retention'
  BY <1>a, <1>b, KeptEditing DEF Scanning
<1>1. CASE UNCHANGED vars
  <2>1. UNCHANGED <<retired, cur, hazard, nextSlot, slot, disp, edit>>
    BY <1>1 DEF vars, slotVars
  <2> QED
    BY <1>a, <2>1, KeptEditing DEF Scanning
<1>2. ASSUME NEW t \in Threads, NEW l \in Listeners, OnDeferred(t, l) \/ On(t, l) \/ Remove(t, l)
      PROVE  Retention'
  <2>1. UNCHANGED <<retired, cur, hazard, nextSlot, slot, disp>> /\ edit[t].op = "idle"
    BY <1>2 DEF OnDeferred, On, Remove, Registers, UserCode, viewVars, slotVars
  <2>2. edit' = edit \/ \E op \in {"add", "remove"} : edit' = [edit EXCEPT ![t] = Edit(op, l)]
    BY <1>2 DEF OnDeferred, On, Remove
  <2>3. /\ \A u \in Threads \ {t} : edit'[u] = edit[u]
        /\ edit'[t] = edit[t] \/ ~Scanning(t)'
    BY <1>0, <2>2 DEF Edit, Scanning
  <2> QED
    BY <1>b, <2>1, <2>3 DEF Scanning
<1>3. ASSUME NEW t \in Threads,
             \/ AddEntry(t) \/ RemoveByToken(t) \/ Start(t) \/ AddListenerDeferred(t)
             \/ FinalizeListeners(t) \/ Clear(t) \/ Unlock(t)
      PROVE  Retention'
  <2>1. UNCHANGED <<retired, cur, hazard, nextSlot, slot, disp>> /\ ~Scanning(t)
    BY <1>3 DEF AddEntry, RemoveByToken, Start, AddListenerDeferred, FinalizeListeners, Clear,
           Unlock, Editing, Scanning, viewVars, slotVars
  <2>2. \/ edit' = edit \/ edit' = [edit EXCEPT ![t].op = "publish"]
        \/ \E e : edit' = [edit EXCEPT ![t] = e] /\ e.op \in {"idle", "flush", "unpublish"}
    BY <1>3 DEF AddEntry, RemoveByToken, Start, AddListenerDeferred, FinalizeListeners, Clear,
           Unlock, EditStep, Edit, Idle
  <2>3. /\ \A u \in Threads \ {t} : edit'[u] = edit[u]
        /\ edit'[t] = edit[t] \/ ~Scanning(t)'
    BY <1>0, <2>2 DEF EditFrame, Scanning
  <2> QED
    BY <1>b, <2>1, <2>3
<1>4. ASSUME NEW t \in Threads, RebuildView(t) \/ Unpublish(t) PROVE Retention'
  <2>1. /\ edit[t].op \in {"publish", "unpublish"} /\ Replace(t, cur')
        /\ UNCHANGED <<hazard, nextSlot, slot, disp>>
    BY <1>4 DEF RebuildView, Unpublish, Editing, Replace, slotVars
  <2> QED
    BY <2>1, KeptAnew
<1>10. ASSUME NEW t \in Threads, LoadCount(t) PROVE Retention'
  <2>1. /\ UNCHANGED <<retired, cur, hazard, nextSlot, slot, disp>> /\ edit[t].op = "count"
        /\ edit' = [edit EXCEPT ![t].op = "scan", ![t].count = published]
    BY <1>10 DEF LoadCount, Editing, viewVars, slotVars
  <2>2. /\ \A u \in Threads \ {t} : edit'[u] = edit[u]
        /\ edit'[t].op = "scan" /\ edit'[t].view = edit[t].view
    BY <1>0, <2>1 DEF EditFrame
  <2>3. Scanning(t) /\ Scanning(t)'
    BY <2>1, <2>2 DEF Scanning
  <2> QED
    BY <1>b, <2>1, <2>2, <2>3
<1>5. ASSUME NEW t \in Threads, ScanSlot(t) PROVE Retention'
  <2>1. /\ UNCHANGED <<retired, cur, hazard, nextSlot, slot, disp>> /\ edit[t].op = "scan"
        /\ edit[t].pos < edit[t].count
    BY <1>5 DEF ScanSlot, Editing, viewVars, slotVars
  <2>2. CASE hazard[edit[t].pos] = edit[t].view /\ ScanFrom(t, retired, edit[t].view)
    <3>1. edit[t].pos \in Slots /\ edit[t].pos < nextSlot
      <4>1. edit[t].pos \in Nat /\ edit[t].count \in Nat /\ edit[t].count <= published
        BY <1>0, <2>1 DEF EditFrame, Structure, ViewsOK
      <4>2. published <= nextSlot /\ nextSlot \in 0..NumSlots
        BY DEF Structure, SlotsOwned, SlotsKnown, SlotsTyped
      <4>3. edit[t].pos < nextSlot /\ edit[t].pos < NumSlots
        BY <1>0, <2>1, <4>1, <4>2
      <4> QED
        BY <1>0, <4>1, <4>3 DEF Slots
    <3>2. edit[t].view \in retired /\ edit[t].view # cur /\ edit[t].view # 0
      BY <1>0, <2>1 DEF Structure, ViewsOK
    <3>3. hazard[edit[t].pos] \in {a[edit[t].pos], b[edit[t].pos], cur, 0}
      BY <2>1, <3>1 DEF KeptFor, Scanning
    <3>4. edit[t].view \in {a[edit[t].pos], b[edit[t].pos]}
      BY <2>2, <3>2, <3>3
    <3>5. KeptFor(a, b)'
      BY <2>1, <2>2, <3>1, <3>4, KeptScanning
    <3> QED
      BY <1>a, <3>5
  <2>3. CASE edit' = [edit EXCEPT ![t].pos = @ + 1]
    <3>1. /\ \A u \in Threads \ {t} : edit'[u] = edit[u]
          /\ edit'[t].op = edit[t].op /\ edit'[t].view = edit[t].view
      BY <1>0, <2>3 DEF EditFrame
    <3> QED
      BY <1>b, <2>1, <3>1 DEF Scanning
  <2> QED
    BY <1>5, <2>2, <2>3 DEF ScanSlot
<1>6. ASSUME NEW t \in Threads, FreeView(t) PROVE Retention'
  <2>1. /\ UNCHANGED <<cur, hazard, nextSlot, slot, disp>> /\ edit[t].op = "scan"
        /\ retired' = retired \ {edit[t].view} /\ ScanFrom(t, retired, edit[t].view)
    BY <1>6 DEF FreeView, Editing, slotVars
  <2> QED
    BY <1>a, <2>1, KeptScanning
<1>7. ASSUME NEW t \in Threads, NEW sc \in Scopes, Dispatch(t, sc) PROVE Retention'
  <2> DEFINE g == [op |-> IF slot[t] = None THEN "slot" ELSE "load", scope |-> sc, view |-> 0,
                   pos |-> 1, locked |-> FALSE, heard |-> <<>>, due |-> Contents(cur),
                   gone |-> Gone]
  <2>0. g.op \in {"slot", "load"}
    OBVIOUS
  <2>a. disp' = [disp EXCEPT ![t] = Append(@, g)]
    BY <1>7 DEF Dispatch
  <2> HIDE DEF g
  <2>1. UNCHANGED <<retired, cur, edit, hazard, nextSlot, slot>>
    BY <1>7 DEF Dispatch, viewVars, slotVars
  <2>b. PICK f : f = g
    OBVIOUS
  <2>2. f.op \in {"slot", "load"} /\ disp' = [disp EXCEPT ![t] = Append(@, f)]
    BY <2>0, <2>a, <2>b
  <2>3. disp[t] \in Seq(DispatchFrame) /\ disp \in [Threads -> Seq(DispatchFrame)]
    BY <1>0 DEF TypeOK
  <2>4. disp'[t] = Append(disp[t], f) /\ \A u \in Threads \ {t} : disp'[u] = disp[u]
    BY <2>2, <2>3
  <2>5. Len(Append(disp[t], f)) = Len(disp[t]) + 1 /\ Append(disp[t], f)[Len(disp[t]) + 1] = f
    BY <2>3
  <2>6. Top(t)' = f
    BY <2>4, <2>5 DEF Top
  <2>7. \A u \in Threads : (disp[u] # <<>> /\ Top(u).op = "protect")' =>
            disp[u] # <<>> /\ Top(u).op = "protect" /\ Top(u)'.view = Top(u).view
    BY <2>2, <2>4, <2>6 DEF Top
  <2>8. KeptFor(a, b)'
    BY <1>0, <2>1, <2>7, KeptReading
  <2> QED
    BY <1>a, <2>8
<1>8. ASSUME NEW t \in Threads, ThreadExit(t) \/ RecycleSlot(t) PROVE Retention'
  <2>1. /\ disp[t] = <<>> /\ SlotsKnown
        /\ ReleaseSlot(t) \/ Recycle(t)
        /\ UNCHANGED <<retired, cur, edit, hazard, nextSlot, disp>>
    BY <1>8 DEF ThreadExit, RecycleSlot, ReleaseSlot, Recycle, LinkSlot, PushSlot, viewVars, Structure,
       SlotsOwned
  <2>2. \A u \in Threads \ {t} : slot'[u] = slot[u]
    BY <2>1, SlotSteps
  <2>3. KeptFor(a, b)'
    BY <1>0, <2>1, <2>2, KeptReading DEF Top
  <2> QED
    BY <1>a, <2>3
<1>9. ASSUME NEW t \in Threads, Reads(t) PROVE Retention'
  BY <1>9, <1>a, KeptReads
<1> QED
  BY <1>1, <1>2, <1>3, <1>4, <1>5, <1>6, <1>7, <1>8, <1>9, <1>10 DEF Next, Continue, Reads

\* No view is retired in an empty store.
LEMMA RetentionInit == Init => Retention
<1> SUFFICES ASSUME Init PROVE Retention
  OBVIOUS
<1>1. retired = {} /\ \A t \in Threads : ~Scanning(t)
  BY DEF Init, Idle, Scanning
<1>2. [s \in Slots |-> 0] \in [Slots -> Nat]
  OBVIOUS
<1>3. KeptFor([s \in Slots |-> 0], [s \in Slots |-> 0])
  BY <1>1 DEF KeptFor
<1> QED
  BY <1>2, <1>3 DEF Retention

\* The values of a table at its first n indices.
LEMMA ImageBound ==
    ASSUME NEW n \in Nat, NEW a
    PROVE  LET S == {a[s] : s \in 0..(n - 1)} IN
           IsFiniteSet(S) /\ Cardinality(S) \in Nat /\ Cardinality(S) <= n
<1> DEFINE D == 0..(n - 1)
           S == {a[s] : s \in D}
           g == [s \in D |-> a[s]]
<1>1. IsFiniteSet(D) /\ Cardinality(D) = n
  <2>1. IsFiniteSet(0..(n - 1)) /\ Cardinality(0..(n - 1)) = IF 0 > n - 1 THEN 0 ELSE (n - 1) - 0 + 1
    BY FS_Interval
  <2> QED
    BY <2>1
<1>2. g \in Surjection(D, S)
  BY DEF Surjection
<1> HIDE DEF D, S, g
<1>3. IsFiniteSet(S) /\ Cardinality(S) <= Cardinality(D)
  BY <1>1, <1>2, FS_Surjection
<1>4. Cardinality(S) \in Nat
  BY <1>3, FS_CardinalityType
<1> QED
  BY <1>1, <1>3, <1>4 DEF S, D

\* With a reason per slot, there is at most one retired view per slot.
LEMMA RetentionSuffices == Structure /\ Retention => RetiredBounded
<1> SUFFICES ASSUME Structure, mutex = None,
                    NEW a \in [Slots -> Nat], NEW b \in [Slots -> Nat], KeptFor(a, b)
             PROVE  Cardinality(retired) <= 2 * nextSlot
  BY DEF Retention, RetiredBounded
<1> DEFINE A == {a[s] : s \in 0..(nextSlot - 1)}
           B == {b[s] : s \in 0..(nextSlot - 1)}
<1>0. nextSlot \in Nat
  BY SlotConstants DEF Structure, TypeOK, SlotsTyped
<1>1. retired \subseteq A \union B
  <2>1. \A t \in Threads : ~Scanning(t)
    BY SlotConstants DEF Structure, Locking, Holding, Scanning
  <2>2. \A w \in retired : \E s \in Slots : s < nextSlot /\ w \in {a[s], b[s]}
    BY <2>1 DEF KeptFor
  <2>3. \A s \in Slots : s < nextSlot => s \in 0..(nextSlot - 1)
    BY <1>0, ListenerConstants, SlotConstants DEF Slots
  <2> QED
    BY <2>2, <2>3
<1>2. /\ IsFiniteSet(A) /\ Cardinality(A) \in Nat /\ Cardinality(A) <= nextSlot
      /\ IsFiniteSet(B) /\ Cardinality(B) \in Nat /\ Cardinality(B) <= nextSlot
  BY <1>0, ImageBound
<1> HIDE DEF A, B
<1>3. IsFiniteSet(A \union B)
      /\ Cardinality(A \union B) = Cardinality(A) + Cardinality(B) - Cardinality(A \cap B)
  BY <1>2, FS_Union
<1>4. IsFiniteSet(A \cap B) /\ Cardinality(A \cap B) \in Nat
  <2>1. IsFiniteSet(A \cap B)
    BY <1>2, FS_Intersection
  <2> QED
    BY <2>1, FS_CardinalityType
<1>5. Cardinality(retired) <= Cardinality(A \union B) /\ IsFiniteSet(retired)
  BY <1>1, <1>3, FS_Subset
<1>6. Cardinality(retired) \in Nat /\ Cardinality(A \union B) \in Nat
  BY <1>3, <1>5, FS_CardinalityType
<1> QED
  BY <1>0, <1>2, <1>3, <1>4, <1>5, <1>6

\* Retired views do not pile up: between registration calls at most two are
\* left per hazard slot in use, also when dispatches nest and threads come and
\* go (reclaimRetiredViews_), as long as no two threads have the same slot.
THEOREM RetiredViewsBounded == Spec /\ []SlotsExclusive => []RetiredBounded
BY StructureHolds, RetentionInit, RetentionStep, RetentionSuffices, PTL DEF Spec

-----------------------------------------------------------------------------
(* The order of lists, for given tokens tk and late registrations lt.      *)

Ahead(tk, lt, a, b) ==
    \/ Prio[a] > Prio[b]
    \/ /\ Prio[a] = Prio[b]
       /\ tk[a] < tk[b] \/ (b \in lt /\ (a \in lt => ScopeOf[a] # ScopeOf[b]))
Ordered(tk, lt, s) == \A i, j \in 1..Len(s) : i < j => Ahead(tk, lt, s[i], s[j])

\* Ordered, applied to the tokens and the deferred listeners, is InOrder.
LEMMA OrderedIsInOrder ==
    /\ \A s : InOrder(s) <=> Ordered(token, late, s)
    /\ \A s : InOrder(s)' <=> Ordered(token', late', s)
BY DEF InOrder, Ordered, Ahead

\* A listener that is not in the list may get its token.
LEMMA OrderedKept ==
    ASSUME NEW s \in Seq(Listeners), NEW tk \in [Listeners -> Nat \union {None}], NEW lt,
           NEW l \in Listeners, \A i \in 1..Len(s) : s[i] # l,
           NEW n \in Nat, NEW lt2, lt2 = lt \/ lt2 = lt \union {l}, Ordered(tk, lt, s)
    PROVE  Ordered([tk EXCEPT ![l] = n], lt2, s)
<1> DEFINE tk2 == [tk EXCEPT ![l] = n]
<1>1. \A i \in 1..Len(s) : s[i] \in Listeners /\ tk2[s[i]] = tk[s[i]] /\ (s[i] \in lt2 <=> s[i] \in lt)
  OBVIOUS
<1> HIDE DEF tk2
<1>2. Ordered(tk2, lt2, s)
  BY <1>1 DEF Ordered, Ahead
<1> QED
  BY <1>2 DEF tk2

\* upper_bound on a list in order: the entries counted are the first n.
LEMMA PartitionPoint ==
    ASSUME NEW q \in Seq(Listeners), NEW tk, NEW lt, Ordered(tk, lt, q), NEW p \in Int
    PROVE  \E n \in 0..Len(q) :
                /\ n = Cardinality({i \in 1..Len(q) : Prio[q[i]] >= p})
                /\ \A i \in 1..Len(q) : i <= n <=> Prio[q[i]] >= p
<1> DEFINE L == Len(q)
           P(i) == Prio[q[i]] >= p
           C == {i \in 1..L : ~P(i)}
<1>1. L \in Nat /\ \A i \in 1..L : q[i] \in Listeners /\ Prio[q[i]] \in Int
  BY ListenerConstants, SlotConstants
<1>2. \A i, j \in 1..L : i < j /\ P(j) => P(i)
  BY <1>1 DEF Ordered, Ahead
<1> HIDE DEF L, P
<1> SUFFICES \E n \in 0..L : n = Cardinality({i \in 1..L : P(i)}) /\ \A i \in 1..L : i <= n <=> P(i)
  BY DEF L, P
<1>3. PICK n \in 0..L : \A i \in 1..L : i <= n <=> P(i)
  <2>1. CASE C = {}
    BY <1>1, <2>1
  <2>2. CASE C # {}
    <3>1. C \in SUBSET Nat
      BY <1>1
    <3>2. PICK m \in C : \A y \in C : m <= y
      BY <2>2, <3>1, LeastElement
    <3>3. m \in 1..L /\ m \in Nat /\ m - 1 \in 0..L /\ ~P(m)
      BY <1>1, <3>2
    <3>4. \A i \in 1..L : i <= m - 1 <=> P(i)
      <4> TAKE i \in 1..L
      <4>1. CASE i < m
        BY <1>1, <3>2, <3>3, <4>1
      <4>2. CASE i = m
        BY <1>1, <3>3, <4>2
      <4>3. CASE i > m
        BY <1>1, <1>2, <3>3, <4>3
      <4> QED
        BY <1>1, <3>3, <4>1, <4>2, <4>3
    <3> QED
      BY <3>3, <3>4
  <2> QED
    BY <2>1, <2>2
<1>4. {i \in 1..L : P(i)} = 1..n
  BY <1>1, <1>3
<1>5. Cardinality(1..n) = n
  <2>1. Cardinality(1..n) = IF 1 > n THEN 0 ELSE n - 1 + 1
    BY <1>1, FS_Interval
  <2> QED
    BY <1>1, <2>1
<1> QED
  BY <1>3, <1>4, <1>5

\* An entry that is newer than those of a list, or counts from the flush.
Fits(tk, lt, q, l) ==
    \A i \in 1..Len(q) :
        \/ tk[q[i]] < tk[l]
        \/ l \in lt /\ (q[i] \in lt => ScopeOf[q[i]] # ScopeOf[l])

\* An entry put behind all of its priority or a higher one keeps the order, if
\* it fits behind those of its own priority.
LEMMA InsertedInOrder ==
    ASSUME NEW q \in Seq(Listeners), NEW tk, NEW lt, Ordered(tk, lt, q), NEW l \in Listeners,
           NEW n \in 0..Len(q), \A i \in 1..Len(q) : i <= n <=> Prio[q[i]] >= Prio[l],
           Fits(tk, lt, q, l)
    PROVE  Ordered(tk, lt, InsertedAt(q, n, l))
<1> DEFINE s == InsertedAt(q, n, l)
           L == Len(q)
<1>1. /\ Len(s) = L + 1
      /\ \A i \in 1..(L + 1) :
            s[i] = IF i <= n THEN q[i] ELSE IF i = n + 1 THEN l ELSE q[i - 1]
  BY InsertedList
<1>2. L \in Nat /\ n \in 0..L /\ Prio[l] \in Int
      /\ \A i \in 1..L : q[i] \in Listeners /\ Prio[q[i]] \in Int
  BY ListenerConstants, SlotConstants
<1>3. \A i \in 1..L : i <= n => Ahead(tk, lt, q[i], l)
  BY <1>2 DEF Ahead, Fits
<1>4. \A i \in 1..L : i > n => Ahead(tk, lt, l, q[i])
  BY <1>2 DEF Ahead
<1>5. \A i, j \in 1..L : i < j => Ahead(tk, lt, q[i], q[j])
  BY DEF Ordered
<1> HIDE DEF s, L
<1>6. ASSUME NEW i \in 1..(L + 1), NEW j \in 1..(L + 1), i < j
      PROVE  Ahead(tk, lt, s[i], s[j])
  <2>1. CASE j <= n
    <3>1. s[i] = q[i] /\ s[j] = q[j] /\ i \in 1..L /\ j \in 1..L
      BY <1>1, <1>2, <1>6, <2>1
    <3> QED
      BY <1>5, <1>6, <3>1
  <2>2. CASE j = n + 1
    <3>1. s[i] = q[i] /\ s[j] = l /\ i \in 1..L /\ i <= n
      BY <1>1, <1>2, <1>6, <2>2
    <3> QED
      BY <1>3, <3>1
  <2>3. CASE j > n + 1 /\ i = n + 1
    <3>1. s[i] = l /\ s[j] = q[j - 1] /\ j - 1 \in 1..L /\ j - 1 > n
      BY <1>1, <1>2, <1>6, <2>3
    <3> QED
      BY <1>4, <3>1
  <2>4. CASE j > n + 1 /\ i <= n
    <3>1. s[i] = q[i] /\ s[j] = q[j - 1] /\ i \in 1..L /\ j - 1 \in 1..L /\ i < j - 1
      BY <1>1, <1>2, <1>6, <2>4
    <3> QED
      BY <1>5, <3>1
  <2>5. CASE j > n + 1 /\ i > n + 1
    <3>1. /\ s[i] = q[i - 1] /\ s[j] = q[j - 1] /\ i - 1 \in 1..L /\ j - 1 \in 1..L
          /\ i - 1 < j - 1
      BY <1>1, <1>2, <1>6, <2>5
    <3> QED
      BY <1>5, <3>1
  <2> QED
    BY <1>2, <1>6, <2>1, <2>2, <2>3, <2>4, <2>5
<1>7. Ordered(tk, lt, s)
  BY <1>1, <1>6 DEF Ordered
<1> QED
  BY <1>7 DEF s

\* Erasing an entry keeps the order.
LEMMA ErasedInOrder ==
    ASSUME NEW q \in Seq(Listeners), NEW tk, NEW lt, Ordered(tk, lt, q), NEW k \in 1..Len(q)
    PROVE  Ordered(tk, lt, ErasedAt(q, k))
<1> DEFINE s == ErasedAt(q, k)
           L == Len(q)
<1>1. /\ Len(s) = L - 1
      /\ \A i \in 1..(L - 1) : s[i] = IF i < k THEN q[i] ELSE q[i + 1]
  BY ErasedList
<1>2. L \in Nat /\ k \in 1..L
  OBVIOUS
<1>3. \A i, j \in 1..L : i < j => Ahead(tk, lt, q[i], q[j])
  BY DEF Ordered
<1> HIDE DEF s, L
<1>4. \A i \in 1..(L - 1) : \E x \in 1..L : s[i] = q[x] /\ x = IF i < k THEN i ELSE i + 1
  BY <1>1, <1>2
<1>5. ASSUME NEW i \in 1..(L - 1), NEW j \in 1..(L - 1), i < j
      PROVE  Ahead(tk, lt, s[i], s[j])
  <2>1. PICK x \in 1..L : s[i] = q[x] /\ x = IF i < k THEN i ELSE i + 1
    BY <1>4
  <2>2. PICK y \in 1..L : s[j] = q[y] /\ y = IF j < k THEN j ELSE j + 1
    BY <1>4
  <2>3. x < y
    BY <1>2, <1>5, <2>1, <2>2
  <2> QED
    BY <1>3, <2>1, <2>2, <2>3
<1>6. Ordered(tk, lt, s)
  BY <1>1, <1>5 DEF Ordered
<1> QED
  BY <1>6 DEF s

-----------------------------------------------------------------------------
(* The listeners of a list.                                                *)

Elements(s) == {s[i] : i \in 1..Len(s)}

\* vector::insert adds one element.
LEMMA InsertedElements ==
    ASSUME NEW q \in Seq(Listeners), NEW n \in 0..Len(q), NEW l \in Listeners,
           Distinct(q), l \notin Elements(q)
    PROVE  /\ Elements(InsertedAt(q, n, l)) = Elements(q) \union {l}
           /\ Distinct(InsertedAt(q, n, l))
<1> DEFINE s == InsertedAt(q, n, l)
           L == Len(q)
<1>1. /\ Len(s) = L + 1
      /\ \A i \in 1..(L + 1) :
            s[i] = IF i <= n THEN q[i] ELSE IF i = n + 1 THEN l ELSE q[i - 1]
  BY InsertedList
<1>2. L \in Nat /\ n \in 0..L /\ \A i \in 1..L : q[i] # l
  BY DEF Elements
<1>3. \A i, j \in 1..L : q[i] = q[j] => i = j
  BY DEF Distinct
<1>4. \A x : x \in Elements(q) <=> \E i \in 1..L : x = q[i]
  BY DEF Elements
<1>5. \A x : x \in Elements(s) <=> \E i \in 1..(L + 1) : x = s[i]
  BY <1>1 DEF Elements
<1> HIDE DEF s, L
<1>6. ASSUME NEW x \in Elements(s) PROVE x \in Elements(q) \union {l}
  <2>1. PICK i \in 1..(L + 1) : x = s[i]
    BY <1>5, <1>6
  <2>2. CASE i = n + 1
    BY <1>1, <1>2, <2>1, <2>2
  <2>3. CASE i <= n
    BY <1>1, <1>2, <1>4, <2>1, <2>3
  <2>4. CASE i > n + 1
    <3>1. i - 1 \in 1..L /\ s[i] = q[i - 1]
      BY <1>1, <1>2, <2>4
    <3> QED
      BY <1>4, <2>1, <3>1
  <2> QED
    BY <1>2, <2>2, <2>3, <2>4
<1>7. ASSUME NEW x \in Elements(q) PROVE x \in Elements(s)
  <2>1. PICK i \in 1..L : x = q[i]
    BY <1>4, <1>7
  <2>2. CASE i <= n
    BY <1>1, <1>2, <1>5, <2>1, <2>2
  <2>3. CASE i > n
    <3>1. i + 1 \in 1..(L + 1) /\ s[i + 1] = q[i]
      BY <1>1, <1>2, <2>3
    <3> QED
      BY <1>5, <2>1, <3>1
  <2> QED
    BY <1>2, <2>2, <2>3
<1>8. l \in Elements(s)
  <2>1. n + 1 \in 1..(L + 1) /\ s[n + 1] = l
    BY <1>1, <1>2
  <2> QED
    BY <1>5, <2>1
<1>9. ASSUME NEW i \in 1..(L + 1), NEW j \in 1..(L + 1), s[i] = s[j] PROVE i = j
  <2>1. \/ i \in 1..L /\ i <= n /\ s[i] = q[i]
        \/ i = n + 1 /\ s[i] = l
        \/ i - 1 \in 1..L /\ i > n + 1 /\ s[i] = q[i - 1]
    BY <1>1, <1>2
  <2>2. \/ j \in 1..L /\ j <= n /\ s[j] = q[j]
        \/ j = n + 1 /\ s[j] = l
        \/ j - 1 \in 1..L /\ j > n + 1 /\ s[j] = q[j - 1]
    BY <1>1, <1>2
  <2> QED
    BY <1>2, <1>3, <1>9, <2>1, <2>2
<1>10. Elements(s) = Elements(q) \union {l}
  BY <1>6, <1>7, <1>8
<1>11. Distinct(s)
  BY <1>1, <1>9 DEF Distinct
<1> QED
  BY <1>10, <1>11 DEF s

\* vector::erase drops one element and, in a list without repetition, no other.
LEMMA ErasedElements ==
    ASSUME NEW q \in Seq(Listeners), NEW k \in 1..Len(q), Distinct(q)
    PROVE  /\ Elements(ErasedAt(q, k)) = Elements(q) \ {q[k]}
           /\ Distinct(ErasedAt(q, k))
<1> DEFINE s == ErasedAt(q, k)
           L == Len(q)
<1>1. /\ Len(s) = L - 1
      /\ \A i \in 1..(L - 1) : s[i] = IF i < k THEN q[i] ELSE q[i + 1]
  BY ErasedList
<1>2. L \in Nat /\ k \in 1..L /\ L - 1 \in Nat
  OBVIOUS
<1>3. \A i, j \in 1..L : q[i] = q[j] => i = j
  BY DEF Distinct
<1>4. \A x : x \in Elements(q) <=> \E i \in 1..L : x = q[i]
  BY DEF Elements
<1>5. \A x : x \in Elements(s) <=> \E i \in 1..(L - 1) : x = s[i]
  BY <1>1 DEF Elements
<1> HIDE DEF s, L
<1>6. ASSUME NEW x \in Elements(s) PROVE x \in Elements(q) /\ x # q[k]
  <2>1. PICK i \in 1..(L - 1) : x = s[i]
    BY <1>5, <1>6
  <2>2. CASE i < k
    <3>1. i \in 1..L /\ i # k /\ x = q[i]
      BY <1>1, <1>2, <2>1, <2>2
    <3> QED
      BY <1>2, <1>3, <1>4, <3>1
  <2>3. CASE i >= k
    <3>1. i + 1 \in 1..L /\ i + 1 # k /\ x = q[i + 1]
      BY <1>1, <1>2, <2>1, <2>3
    <3> QED
      BY <1>2, <1>3, <1>4, <3>1
  <2> QED
    BY <1>2, <2>2, <2>3
<1>7. ASSUME NEW x \in Elements(q), x # q[k] PROVE x \in Elements(s)
  <2>1. PICK i \in 1..L : x = q[i]
    BY <1>4, <1>7
  <2>2. CASE i < k
    <3>1. i \in 1..(L - 1) /\ s[i] = q[i]
      BY <1>1, <1>2, <2>2
    <3> QED
      BY <1>5, <2>1, <3>1
  <2>3. CASE i > k
    <3>1. i - 1 \in 1..(L - 1) /\ s[i - 1] = q[i]
      BY <1>1, <1>2, <2>3
    <3> QED
      BY <1>5, <2>1, <3>1
  <2> QED
    BY <1>2, <1>7, <2>1, <2>2, <2>3
<1>9. ASSUME NEW i \in 1..(L - 1), NEW j \in 1..(L - 1), s[i] = s[j] PROVE i = j
  <2>1. \/ i \in 1..L /\ i < k /\ s[i] = q[i]
        \/ i + 1 \in 1..L /\ i >= k /\ s[i] = q[i + 1]
    BY <1>1, <1>2
  <2>2. \/ j \in 1..L /\ j < k /\ s[j] = q[j]
        \/ j + 1 \in 1..L /\ j >= k /\ s[j] = q[j + 1]
    BY <1>1, <1>2
  <2> QED
    BY <1>2, <1>3, <1>9, <2>1, <2>2
<1>10. Elements(s) = Elements(q) \ {q[k]}
  BY <1>6, <1>7
<1>11. Distinct(s)
  BY <1>1, <1>9 DEF Distinct
<1> QED
  BY <1>10, <1>11 DEF s

\* push_back adds one element.
LEMMA AppendElements ==
    ASSUME NEW q \in Seq(Listeners), NEW l \in Listeners, Distinct(q), l \notin Elements(q)
    PROVE  /\ Append(q, l) \in Seq(Listeners)
           /\ Elements(Append(q, l)) = Elements(q) \union {l}
           /\ Distinct(Append(q, l))
<1> DEFINE s == Append(q, l)
<1>1. /\ s \in Seq(Listeners) /\ Len(s) = Len(q) + 1 /\ s[Len(q) + 1] = l
      /\ \A i \in 1..Len(q) : s[i] = q[i]
  OBVIOUS
<1>2. Len(q) \in Nat
  OBVIOUS
<1> HIDE DEF s
<1>3. \A i \in 1..Len(s) : i \in 1..Len(q) \/ i = Len(q) + 1
  BY <1>1, <1>2
<1>4. 1..Len(q) \subseteq 1..Len(s) /\ Len(q) + 1 \in 1..Len(s)
  BY <1>1, <1>2
<1>5. Elements(s) = Elements(q) \union {l}
  BY <1>1, <1>3, <1>4 DEF Elements
<1>6. Distinct(s)
  BY <1>1, <1>3 DEF Distinct, Elements
<1> QED
  BY <1>1, <1>5, <1>6 DEF s

-----------------------------------------------------------------------------
(* The master list, the deferred list and the views.                       *)

Listed == Elements(entries)
Waiting == Elements(deferred)

\* A listener without a token is nowhere.
Tokens ==
    /\ \A l \in Listeners : token[l] # None => token[l] < nextToken
    /\ \A l \in Listeners : token[l] = None =>
        /\ l \notin Listed /\ l \notin Waiting /\ l \notin removed
        /\ \A v \in 1..Len(views) : l \notin Contents(v)

\* No two calls are about the same listener.
Editors ==
    \A t \in Threads :
        /\ edit[t].op = "add" =>
            token[edit[t].lis] = None /\ (edit[t].lis \in Typed => context # "configured")
        /\ edit[t].op = "unpublish" => entries = <<>>
        /\ edit[t].op = "flush" =>
            context = "starting" /\ \A u \in Threads \ {t} : edit[u].op # "flush"
        /\ edit[t].lis # None => \A u \in Threads \ {t} : edit[u].lis # edit[t].lis

\* The master list is in order; a removed listener is in neither list.
Lists ==
    /\ InOrder(entries)
    /\ Distinct(entries) /\ Distinct(deferred)
    /\ Listed \cap Waiting = {} /\ Waiting \subseteq late
    /\ removed \cap (Listed \union Waiting) = {}

\* What the published view still lists was removed by a call that is about to
\* publish the next one, or by stop().
Published ==
    /\ \A v \in 1..Len(views) : InOrder(views[v]) /\ Distinct(views[v])
    /\ Contents(cur) \subseteq Listed \union removed
    /\ context # "stopped" => \A l \in removed \cap Contents(cur) :
            \E t \in Threads : edit[t].op = "publish" /\ edit[t].lis = l

\* The deferred listeners of one context are flushed in the order of their tokens.
Queue ==
    /\ \A l \in late : token[l] # None
    /\ \A i, j \in 1..Len(deferred) : i < j => token[deferred[i]] < token[deferred[j]]
    /\ \A x \in Listed \cap late : \A w \in Waiting :
        ScopeOf[x] = ScopeOf[w] => token[x] < token[w]

Listing == Tokens /\ Editors /\ Lists /\ Published /\ Queue

\* The lists and the views are sequences of listeners.
LEMMA ListTypes ==
    ASSUME Structure
    PROVE  /\ entries \in Seq(Listeners) /\ deferred \in Seq(Listeners)
           /\ Listed \subseteq Listeners /\ Waiting \subseteq Listeners
           /\ removed \subseteq Listeners /\ late \subseteq Listeners
           /\ token \in [Listeners -> Nat \union {None}] /\ nextToken \in Nat
           /\ \A v \in 1..Len(views) : views[v] \in Seq(Listeners)
           /\ cur \in 0..Len(views) /\ Len(views) \in Nat
           /\ \A v \in 1..Len(views) : Contents(v) = Elements(views[v])
           /\ \A v \in 0..Len(views) : Contents(v) \subseteq Listeners
           /\ edit \in [Threads -> EditFrame]
<1>1. TypeOK
  BY DEF Structure
<1>2. /\ entries \in Seq(Listeners) /\ deferred \in Seq(Listeners)
      /\ removed \subseteq Listeners /\ late \subseteq Listeners
      /\ token \in [Listeners -> Nat \union {None}] /\ nextToken \in Nat
      /\ views \in Seq(Seq(Listeners)) /\ cur \in 0..Len(views) /\ Len(views) \in Nat
      /\ edit \in [Threads -> EditFrame]
  BY <1>1 DEF TypeOK
<1>3. \A v \in 1..Len(views) : views[v] \in Seq(Listeners)
  BY <1>2
<1>4. \A v \in 1..Len(views) : Contents(v) = Elements(views[v])
  BY DEF Contents, Elements
<1>5. \A v \in 0..Len(views) : Contents(v) \subseteq Listeners
  <2> TAKE v \in 0..Len(views)
  <2>1. CASE v = 0
    BY <2>1 DEF Contents
  <2>2. CASE v # 0
    BY <1>2, <1>3, <2>2 DEF Contents
  <2> QED
    BY <2>1, <2>2
<1>6. Listed \subseteq Listeners /\ Waiting \subseteq Listeners
  BY <1>2 DEF Listed, Waiting, Elements
<1> QED
  BY <1>2, <1>3, <1>4, <1>5, <1>6

\* Lists and views stay, and t goes on with another call.
LEMMA ListingEdit ==
    ASSUME Structure, Listing, NEW t \in Threads,
           UNCHANGED <<deferred, late, entries, token, nextToken, removed, views, cur>>,
           \A u \in Threads \ {t} : edit'[u] = edit[u],
           edit[t].op # "publish" \/ edit[t].lis = None,
           context' # "configured" \/ context' = context,
           context' # "stopped" => context # "stopped",
           context' = context \/ \A u \in Threads \ {t} : edit[u].op # "flush",
           edit'[t].op = "flush" =>
                /\ context' = "starting"
                /\ edit[t].op = "flush" \/ \A u \in Threads \ {t} : edit[u].op # "flush",
           edit'[t].op = "add" => token[edit'[t].lis] = None
                               /\ (edit'[t].lis \in Typed => context' # "configured"),
           edit'[t].op # "unpublish",
           \/ edit'[t].lis = None \/ edit'[t].lis = edit[t].lis
           \/ \A u \in Threads : edit[u].lis # edit'[t].lis
    PROVE  Listing'
<1>1. Tokens'
  BY DEF Listing, Tokens, Listed, Waiting, Contents
<1>2. Editors'
  BY DEF Listing, Editors
<1>3. Lists'
  BY DEF Listing, Lists, Listed, Waiting, InOrder
<1>4. \A l \in removed : l # None
  BY ListTypes, ListenerConstants, SlotConstants
<1>5. Published'
  <2>1. \A v \in 1..Len(views') : InOrder(views[v])' /\ Distinct(views'[v])
    BY DEF Listing, Published, InOrder
  <2>2. Contents(cur)' = Contents(cur) /\ Listed' = Listed
    BY DEF Contents, Listed
  <2> QED
    BY <1>4, <2>1, <2>2 DEF Listing, Published
<1>6. Queue'
  BY DEF Listing, Queue, Listed, Waiting
<1> QED
  BY <1>1, <1>2, <1>3, <1>5, <1>6 DEF Listing

\* A listener gets its token.
LEMMA TokenGiven ==
    ASSUME Structure, Listing, NEW l \in Listeners, token[l] = None,
           token' = [token EXCEPT ![l] = nextToken], late' = late \/ late' = late \union {l}
    PROVE  /\ Ordered(token', late', entries)
           /\ \A v \in 1..Len(views) : Ordered(token', late', views[v])
           /\ token'[l] = nextToken /\ \A k \in Listeners \ {l} : token'[k] = token[k]
           /\ \A k \in Listed : token'[k] < nextToken
           /\ nextToken # None
<1>1. /\ l \notin Listed /\ \A v \in 1..Len(views) : l \notin Elements(views[v])
  BY ListTypes DEF Listing, Tokens
<1>2. Ordered(token', late', entries)
  BY <1>1, ListTypes, OrderedKept, OrderedIsInOrder DEF Listing, Lists, Listed, Elements
<1>3. ASSUME NEW v \in 1..Len(views) PROVE Ordered(token', late', views[v])
  <2>1. views[v] \in Seq(Listeners) /\ \A i \in 1..Len(views[v]) : views[v][i] # l
    BY <1>1, ListTypes DEF Elements
  <2>2. Ordered(token, late, views[v])
    BY OrderedIsInOrder DEF Listing, Published
  <2> QED
    BY <2>1, <2>2, ListTypes, OrderedKept
<1>4. token'[l] = nextToken /\ \A k \in Listeners \ {l} : token'[k] = token[k]
  BY ListTypes
<1>5. ASSUME NEW k \in Listed PROVE token'[k] < nextToken
  <2>1. k \in Listeners /\ k # l
    BY <1>1, ListTypes
  <2>2. token[k] # None
    BY <2>1 DEF Listing, Tokens
  <2> QED
    BY <1>4, <2>1, <2>2 DEF Listing, Tokens
<1>6. nextToken # None
  BY ListTypes, ListenerConstants, SlotConstants
<1> QED
  BY <1>2, <1>3, <1>4, <1>5, <1>6

\* on<T> before start().
LEMMA ListingDeferred ==
    ASSUME Structure, Listing, NEW t \in Threads, NEW l \in Listeners, OnDeferred(t, l)
    PROVE  Listing'
<1>1. /\ context = "configured" /\ l \in Typed /\ token[l] = None
      /\ token' = [token EXCEPT ![l] = nextToken] /\ nextToken' = nextToken + 1
      /\ deferred' = Append(deferred, l) /\ late' = late \union {l}
      /\ UNCHANGED <<context, entries, views, cur, edit, removed>>
  BY DEF OnDeferred, viewVars
<1>2. /\ Ordered(token', late', entries)
      /\ \A v \in 1..Len(views) : Ordered(token', late', views[v])
      /\ token'[l] = nextToken /\ \A k \in Listeners \ {l} : token'[k] = token[k]
      /\ nextToken # None
  BY <1>1, TokenGiven
<1>3. l \notin Listed /\ l \notin Waiting /\ l \notin removed
  BY <1>1 DEF Listing, Tokens
<1>4. Waiting' = Waiting \union {l} /\ Distinct(deferred')
  BY <1>1, <1>3, ListTypes, AppendElements DEF Listing, Lists, Waiting
<1>5. Listed' = Listed /\ \A v : Contents(v)' = Contents(v)
  BY <1>1 DEF Listed, Contents
<1>6. Tokens'
  <2>1. ASSUME NEW k \in Listeners, token'[k] # None PROVE token'[k] < nextToken'
    <3>1. CASE k = l
      BY <1>1, <1>2, <3>1, ListTypes
    <3>2. CASE k # l
      <4>1. token[k] \in Nat /\ token[k] < nextToken
        BY <1>2, <2>1, <3>2, ListTypes DEF Listing, Tokens
      <4> QED
        BY <1>1, <1>2, <3>2, <4>1, ListTypes
    <3> QED
      BY <3>1, <3>2
  <2>2. ASSUME NEW k \in Listeners, token'[k] = None
        PROVE  /\ k \notin Listed' /\ k \notin Waiting' /\ k \notin removed'
               /\ \A v \in 1..Len(views') : k \notin Contents(v)'
    <3>1. k # l /\ token[k] = None
      BY <1>2, <2>2
    <3> QED
      BY <1>1, <1>4, <1>5, <3>1 DEF Listing, Tokens
  <2> QED
    BY <2>1, <2>2 DEF Tokens
<1>7. Editors'
  <2> SUFFICES ASSUME NEW u \in Threads, edit[u].op = "add"
               PROVE  token'[edit[u].lis] = None
    BY <1>1 DEF Listing, Editors
  <2>1. edit[u].lis \in Listeners /\ edit[u].lis # l /\ token[edit[u].lis] = None
    BY <1>1 DEF Listing, Editors, Structure, Locking
  <2> QED
    BY <1>2, <2>1
<1>8. Lists'
  BY <1>1, <1>2, <1>3, <1>4, <1>5, OrderedIsInOrder DEF Listing, Lists
<1>9. Published'
  <2>1. \A v \in 1..Len(views') : InOrder(views[v])' /\ Distinct(views'[v])
    BY <1>1, <1>2, OrderedIsInOrder DEF Listing, Published
  <2> QED
    BY <1>1, <1>5, <2>1 DEF Listing, Published
<1>10. Queue'
  <2>1. \A k \in Listed \union Waiting \union late : k \in Listeners /\ token[k] # None
    BY ListTypes DEF Listing, Tokens, Queue
  <2>2. l \notin late
    BY <1>1 DEF Listing, Queue
  <2>3. \A k \in Listed \union Waiting \union late :
            token'[k] = token[k] /\ token'[k] \in Nat /\ token'[k] < nextToken
    <3> TAKE k \in Listed \union Waiting \union late
    <3>1. k \in Listeners /\ k # l /\ token[k] # None
      BY <1>3, <2>1, <2>2
    <3> QED
      BY <1>2, <3>1, ListTypes DEF Listing, Tokens
  <2>4. \A k \in late' : token'[k] # None
    BY <1>1, <1>2, <2>1, <2>3
  <2>5. ASSUME NEW x \in (Listed \cap late)', NEW w \in Waiting', ScopeOf[x] = ScopeOf[w]
        PROVE  token'[x] < token'[w]
    <3>1. x \in Listed \cap late
      BY <1>1, <1>3, <1>5
    <3>2. CASE w = l
      BY <1>2, <2>3, <3>1, <3>2
    <3>3. CASE w \in Waiting
      BY <2>3, <2>5, <3>1, <3>3 DEF Listing, Queue
    <3> QED
      BY <1>4, <3>2, <3>3
  <2>6. ASSUME NEW i \in 1..Len(deferred'), NEW j \in 1..Len(deferred'), i < j
        PROVE  token'[deferred'[i]] < token'[deferred'[j]]
    <3>1. PICK d \in Seq(Listeners) : d = deferred
      BY ListTypes
    <3>2. /\ Len(deferred') = Len(d) + 1 /\ deferred'[Len(d) + 1] = l /\ Len(d) \in Nat
          /\ \A k \in 1..Len(d) : deferred'[k] = d[k]
      BY <1>1, <3>1
    <3>3. i \in 1..Len(d) /\ (j \in 1..Len(d) \/ j = Len(d) + 1)
      BY <2>6, <3>2
    <3>4. \A k \in 1..Len(d) : d[k] \in Waiting
      BY <3>1 DEF Waiting, Elements
    <3>5. CASE j \in 1..Len(d)
      <4>1. token[d[i]] < token[d[j]]
        BY <2>6, <3>1, <3>3, <3>5 DEF Listing, Queue
      <4> QED
        BY <2>3, <3>2, <3>3, <3>4, <3>5, <4>1
    <3>6. CASE j = Len(d) + 1
      BY <1>2, <2>3, <3>2, <3>3, <3>4, <3>6
    <3> QED
      BY <3>3, <3>5, <3>6
  <2> QED
    BY <2>4, <2>5, <2>6 DEF Queue
<1> QED
  BY <1>6, <1>7, <1>8, <1>9, <1>10 DEF Listing

\* Where an entry goes.
LEMMA InsertSortedPoint ==
    ASSUME NEW q, q = entries, q \in Seq(Listeners), NEW tk, NEW lt, Ordered(tk, lt, q),
           NEW l \in Listeners, Distinct(q), l \notin Elements(q)
    PROVE  /\ InsertSorted(l) \in Seq(Listeners)
           /\ Elements(InsertSorted(l)) = Elements(q) \union {l}
           /\ Distinct(InsertSorted(l))
           /\ Fits(tk, lt, q, l) => Ordered(tk, lt, InsertSorted(l))
<1>1. Prio[l] \in Int
  BY ListenerConstants, SlotConstants
<1>2. PICK n \in 0..Len(q) :
            /\ n = Cardinality({i \in 1..Len(q) : Prio[q[i]] >= Prio[l]})
            /\ \A i \in 1..Len(q) : i <= n <=> Prio[q[i]] >= Prio[l]
  BY <1>1, PartitionPoint
<1>3. InsertSorted(l) = InsertedAt(q, n, l)
  BY <1>2 DEF InsertSorted, InsertedAt
<1>4. \A i \in 1..Len(q) : i <= n <=> Prio[q[i]] >= Prio[l]
  BY <1>2
<1>5. Fits(tk, lt, q, l) => Ordered(tk, lt, InsertedAt(q, n, l))
  BY <1>4, InsertedInOrder
<1>6. InsertedAt(q, n, l) \in Seq(Listeners)
  BY InsertedList
<1>7. Elements(InsertedAt(q, n, l)) = Elements(q) \union {l} /\ Distinct(InsertedAt(q, n, l))
  BY InsertedElements
<1> QED
  BY <1>3, <1>5, <1>6, <1>7

\* While the mutex is free, no call is between its edit and its publication.
LEMMA NobodyHolds ==
    ASSUME Structure, mutex = None, NEW t \in Threads
    PROVE  edit[t].op \notin {"publish", "unpublish", "count", "scan", "unlock"}
BY ListenerConstants, SlotConstants DEF Structure, Locking, Holding

\* on() after start(), or of a global listener.
LEMMA ListingAdds ==
    ASSUME Structure, Listing, NEW t \in Threads, AddEntry(t)
    PROVE  Listing'
<1>1. PICK l \in Listeners : l = edit[t].lis
  BY DEF AddEntry, Editing, Structure, Locking
<1>2. /\ token[l] = None /\ mutex = None /\ edit[t].op = "add"
      /\ token' = [token EXCEPT ![l] = nextToken] /\ nextToken' = nextToken + 1
      /\ entries' = InsertSorted(l)
      /\ edit'[t].op = "publish" /\ edit'[t].lis = l
      /\ \A u \in Threads \ {t} : edit'[u] = edit[u]
      /\ UNCHANGED <<context, deferred, late, removed, views, cur>>
  <2>1. edit \in [Threads -> EditFrame]
    BY ListTypes
  <2>2. edit'[t].op = "publish" /\ edit'[t].lis = edit[t].lis
        /\ \A u \in Threads \ {t} : edit'[u] = edit[u]
    BY <2>1 DEF AddEntry, EditStep, EditFrame
  <2> QED
    BY <1>1, <2>2 DEF AddEntry, Editing, viewVars, Listing, Editors
<1>3. /\ Ordered(token', late', entries)
      /\ \A v \in 1..Len(views) : Ordered(token', late', views[v])
      /\ token'[l] = nextToken /\ \A k \in Listeners \ {l} : token'[k] = token[k]
      /\ \A k \in Listed : token'[k] < nextToken
      /\ nextToken # None
  BY <1>2, TokenGiven
<1>4. l \notin Listed /\ l \notin Waiting /\ l \notin removed
  BY <1>2 DEF Listing, Tokens
<1>5. /\ Ordered(token', late', entries') /\ Listed' = Listed \union {l} /\ Distinct(entries')
  <2>1. PICK q : q = entries
    OBVIOUS
  <2>2. q \in Seq(Listeners) /\ Ordered(token', late', q) /\ Distinct(q) /\ l \notin Elements(q)
    BY <1>3, <1>4, <2>1, ListTypes DEF Listing, Lists, Listed
  <2>3. Fits(token', late', q, l)
    BY <1>3, <2>1 DEF Listed, Elements, Fits
  <2>4. /\ Ordered(token', late', InsertSorted(l)) /\ Distinct(InsertSorted(l))
        /\ Elements(InsertSorted(l)) = Elements(q) \union {l}
    BY <2>1, <2>2, <2>3, InsertSortedPoint
  <2> QED
    BY <1>2, <2>1, <2>4 DEF Listed
<1>6. Waiting' = Waiting /\ \A v : Contents(v)' = Contents(v)
  BY <1>2 DEF Waiting, Contents
<1>7. \A v \in 1..Len(views) : l \notin Contents(v)
  BY <1>2 DEF Listing, Tokens
<1>8. Tokens'
  <2>1. ASSUME NEW k \in Listeners, token'[k] # None PROVE token'[k] < nextToken'
    <3>1. CASE k = l
      BY <1>2, <1>3, <3>1, ListTypes
    <3>2. CASE k # l
      <4>1. token[k] \in Nat /\ token[k] < nextToken
        BY <1>3, <2>1, <3>2, ListTypes DEF Listing, Tokens
      <4> QED
        BY <1>2, <1>3, <3>2, <4>1, ListTypes
    <3> QED
      BY <3>1, <3>2
  <2>2. ASSUME NEW k \in Listeners, token'[k] = None
        PROVE  /\ k \notin Listed' /\ k \notin Waiting' /\ k \notin removed'
               /\ \A v \in 1..Len(views') : k \notin Contents(v)'
    <3>1. k # l /\ token[k] = None
      BY <1>3, <2>2
    <3> QED
      BY <1>2, <1>5, <1>6, <3>1 DEF Listing, Tokens
  <2> QED
    BY <2>1, <2>2 DEF Tokens
<1>9. Editors'
  <2> SUFFICES ASSUME NEW u \in Threads
               PROVE  /\ edit'[u].op = "add" =>
                            /\ token'[edit'[u].lis] = None
                            /\ edit'[u].lis \in Typed => context' # "configured"
                      /\ edit'[u].op = "unpublish" => entries' = <<>>
                      /\ edit'[u].op = "flush" =>
                            /\ context' = "starting"
                            /\ \A w \in Threads \ {u} : edit'[w].op # "flush"
                      /\ edit'[u].lis # None => \A w \in Threads \ {u} : edit'[w].lis # edit'[u].lis
    BY DEF Editors
  <2>1. \A w \in Threads : edit'[w].lis = edit[w].lis /\ (edit'[w].op = "flush" => edit[w].op = "flush")
    BY <1>1, <1>2
  <2>2. edit'[u].op = "add" => edit[u].op = "add" /\ edit[u].lis \in Listeners \ {l}
    BY <1>1, <1>2, ListenerConstants, SlotConstants DEF Listing, Editors, Structure, Locking
  <2>3. edit'[u].op # "unpublish"
    BY <1>2, NobodyHolds
  <2> QED
    BY <1>2, <1>3, <2>1, <2>2, <2>3 DEF Listing, Editors
<1>10. Lists'
  BY <1>2, <1>4, <1>5, <1>6, OrderedIsInOrder DEF Listing, Lists
<1>11. Published'
  <2>1. \A v \in 1..Len(views') : InOrder(views[v])' /\ Distinct(views'[v])
    BY <1>2, <1>3, OrderedIsInOrder DEF Listing, Published
  <2>2. \A u \in Threads : edit[u].op # "publish"
    BY <1>2, NobodyHolds
  <2> QED
    BY <1>2, <1>5, <1>6, <2>1, <2>2 DEF Listing, Published
<1>12. Queue'
  <2>1. l \notin late /\ l \notin Waiting
    BY <1>2, <1>4 DEF Listing, Queue
  <2>2. \A k \in late \union Waiting : k \in Listeners /\ token'[k] = token[k]
    BY <1>3, <2>1, ListTypes
  <2>3. \A i \in 1..Len(deferred) : deferred[i] \in Waiting
    BY DEF Waiting, Elements
  <2>4. Listed' \cap late' = Listed \cap late
    BY <1>2, <1>5, <2>1
  <2> QED
    BY <1>2, <1>6, <2>2, <2>3, <2>4 DEF Listing, Queue
<1> QED
  BY <1>8, <1>9, <1>10, <1>11, <1>12 DEF Listing

\* flushDeferredListeners_ takes the next deferred listener.
LEMMA ListingFlushes ==
    ASSUME Structure, Listing, NEW t \in Threads, AddListenerDeferred(t)
    PROVE  Listing'
<1>0. PICK d : d = deferred
  OBVIOUS
<1>1. PICK k \in 1..Len(d) :
        /\ NextDeferred(k) /\ mutex = None
        /\ deferred' = ErasedAt(d, k)
        /\ entries' = InsertSorted(d[k])
        /\ UNCHANGED <<context, late, token, nextToken, removed, views, cur, edit>>
  BY <1>0 DEF AddListenerDeferred, viewVars, Without, ErasedAt
<1>2. /\ d \in Seq(Listeners) /\ Distinct(d) /\ Waiting = Elements(d)
      /\ Waiting' = Waiting \ {d[k]} /\ Distinct(deferred') /\ d[k] \in Waiting
  <2>1. d \in Seq(Listeners) /\ Distinct(d)
    BY <1>0, ListTypes DEF Listing, Lists
  <2>2. /\ Elements(ErasedAt(d, k)) = Elements(d) \ {d[k]}
        /\ Distinct(ErasedAt(d, k))
    BY <2>1, ErasedElements
  <2>3. Waiting = Elements(d) /\ Waiting' = Elements(deferred')
    BY <1>0 DEF Waiting
  <2>4. d[k] \in Elements(d)
    BY <1>1 DEF Elements
  <2> QED
    BY <1>1, <2>1, <2>2, <2>3, <2>4
<1>3. PICK l \in Listeners : l = d[k]
  BY <1>2
<1>4. l \in late /\ l \notin Listed /\ l \notin removed /\ token[l] # None
  BY <1>2, <1>3 DEF Listing, Lists, Tokens
<1>5. /\ Ordered(token, late, entries') /\ Listed' = Listed \union {l} /\ Distinct(entries')
  <2>1. PICK q : q = entries
    OBVIOUS
  <2>2. q \in Seq(Listeners) /\ Ordered(token, late, q) /\ Distinct(q) /\ l \notin Elements(q)
    BY <1>4, <2>1, ListTypes, OrderedIsInOrder DEF Listing, Lists, Listed
  <2>3. \A x \in Listed \cap late : ScopeOf[x] = ScopeOf[l] => token[x] < token[l]
    BY <1>2, <1>3 DEF Listing, Queue
  <2>4. Fits(token, late, q, l)
    BY <1>4, <2>1, <2>3 DEF Listed, Elements, Fits
  <2>5. /\ Ordered(token, late, InsertSorted(l)) /\ Distinct(InsertSorted(l))
        /\ Elements(InsertSorted(l)) = Elements(q) \union {l}
    BY <2>1, <2>2, <2>4, InsertSortedPoint
  <2> QED
    BY <1>1, <1>3, <2>1, <2>5 DEF Listed
<1>6. \A v : Contents(v)' = Contents(v)
  BY <1>1 DEF Contents
<1>7. Tokens'
  BY <1>1, <1>2, <1>4, <1>5, <1>6 DEF Listing, Tokens
<1>8. Editors'
  <2>1. \A u \in Threads : edit[u].op # "unpublish"
    BY <1>1, NobodyHolds
  <2> QED
    BY <1>1, <2>1 DEF Listing, Editors
<1>9. Lists'
  BY <1>1, <1>2, <1>3, <1>4, <1>5, OrderedIsInOrder DEF Listing, Lists
<1>10. Published'
  <2>1. \A v \in 1..Len(views') : InOrder(views[v])' /\ Distinct(views'[v])
    BY <1>1 DEF Listing, Published, InOrder
  <2> QED
    BY <1>1, <1>5, <1>6, <2>1 DEF Listing, Published
<1>11. Queue'
  <2>1. Len(d) \in Nat
    BY <1>2
  <2>2. \A i, j \in 1..Len(d) : i < j => token[d[i]] < token[d[j]]
    BY <1>0 DEF Listing, Queue
  <2>3. /\ Len(deferred') = Len(d) - 1
        /\ \A i \in 1..(Len(d) - 1) : deferred'[i] = IF i < k THEN d[i] ELSE d[i + 1]
    BY <1>1, <1>2, ErasedList
  <2>4. ASSUME NEW i \in 1..Len(deferred'), NEW j \in 1..Len(deferred'), i < j
        PROVE  token'[deferred'[i]] < token'[deferred'[j]]
    <3>1. PICK x \in 1..Len(d) : x = (IF i < k THEN i ELSE i + 1) /\ deferred'[i] = d[x]
      BY <2>1, <2>3
    <3>2. PICK y \in 1..Len(d) : y = (IF j < k THEN j ELSE j + 1) /\ deferred'[j] = d[y]
      BY <2>1, <2>3
    <3>3. x < y
      BY <2>1, <2>3, <2>4, <3>1, <3>2
    <3> QED
      BY <1>1, <2>2, <3>1, <3>2, <3>3
  <2>5. ASSUME NEW x \in (Listed \cap late)', NEW w \in Waiting', ScopeOf[x] = ScopeOf[w]
        PROVE  token'[x] < token'[w]
    <3>1. w \in Waiting /\ w # l
      BY <1>2, <1>3
    <3>2. CASE x = l
      <4>1. PICK j \in 1..Len(d) : w = d[j]
        BY <1>2, <3>1 DEF Elements
      <4>2. ~(j \in 1..(k - 1))
        BY <1>0, <1>1, <1>3, <2>5, <3>2, <4>1 DEF NextDeferred
      <4>3. k < j
        BY <1>1, <1>3, <2>1, <3>1, <4>1, <4>2
      <4> QED
        BY <1>1, <1>3, <2>2, <3>2, <4>1, <4>3
    <3>3. CASE x \in Listed \cap late
      BY <1>1, <2>5, <3>1, <3>3 DEF Listing, Queue
    <3> QED
      BY <1>1, <1>5, <3>2, <3>3
  <2>6. \A x \in late' : token'[x] # None
    BY <1>1 DEF Listing, Queue
  <2> QED
    BY <2>4, <2>5, <2>6 DEF Queue
<1> QED
  BY <1>7, <1>8, <1>9, <1>10, <1>11 DEF Listing

\* removeByToken finds the entry.
LEMMA ListingErases ==
    ASSUME Structure, Listing, NEW t \in Threads, NEW l \in Listeners, l = edit[t].lis,
           NEW k \in 1..Len(entries), entries[k] = l, entries' = Without(entries, k),
           removed' = removed \union {l}, mutex = None, edit[t].op = "remove",
           EditStep(t, "publish"),
           UNCHANGED <<context, deferred, late, token, nextToken, views, cur>>
    PROVE  Listing'
<1>1. /\ edit'[t].op = "publish" /\ edit'[t].lis = l
      /\ \A u \in Threads \ {t} : edit'[u] = edit[u]
  <2>1. edit \in [Threads -> EditFrame]
    BY ListTypes
  <2> QED
    BY <2>1 DEF EditStep, EditFrame
<1>2. Ordered(token, late, entries') /\ Listed' = Listed \ {l} /\ Distinct(entries')
  <2>1. PICK q : q = entries
    OBVIOUS
  <2>2. q \in Seq(Listeners) /\ Ordered(token, late, q) /\ Distinct(q) /\ k \in 1..Len(q)
    BY <2>1, ListTypes, OrderedIsInOrder DEF Listing, Lists
  <2>3. Without(entries, k) = ErasedAt(q, k)
    BY <2>1 DEF Without, ErasedAt
  <2>4. /\ Ordered(token, late, ErasedAt(q, k)) /\ Distinct(ErasedAt(q, k))
        /\ Elements(ErasedAt(q, k)) = Elements(q) \ {q[k]}
    BY <2>2, ErasedInOrder, ErasedElements
  <2> QED
    BY <2>1, <2>3, <2>4 DEF Listed
<1>3. l \in Listed /\ token[l] # None
  BY ListTypes DEF Listed, Elements, Listing, Tokens
<1>4. Waiting' = Waiting /\ \A v : Contents(v)' = Contents(v)
  BY DEF Waiting, Contents
<1>5. Tokens'
  BY <1>2, <1>3, <1>4 DEF Listing, Tokens
<1>6. Editors'
  <2>1. \A u \in Threads : edit'[u].lis = edit[u].lis /\ edit[u].op # "unpublish"
    BY <1>1, NobodyHolds
  <2> QED
    BY <1>1, <2>1 DEF Listing, Editors
<1>7. Lists'
  BY <1>2, <1>3, <1>4, OrderedIsInOrder DEF Listing, Lists
<1>8. Published'
  <2>1. \A v \in 1..Len(views') : InOrder(views[v])' /\ Distinct(views'[v])
    BY DEF Listing, Published, InOrder
  <2>2. \A u \in Threads : edit[u].op # "publish"
    BY NobodyHolds
  <2> QED
    BY <1>1, <1>2, <1>4, <2>1, <2>2 DEF Listing, Published
<1>9. Queue'
  BY <1>2, <1>4 DEF Listing, Queue
<1> QED
  BY <1>5, <1>6, <1>7, <1>8, <1>9 DEF Listing

\* clear().
LEMMA ListingClears ==
    ASSUME Structure, Listing, NEW t \in Threads, Clear(t)
    PROVE  Listing'
<1>1. /\ mutex = None /\ context = "started" /\ context' = "stopped" /\ edit[t].op = "idle"
      /\ removed' = removed \union Listed /\ entries' = <<>>
      /\ edit' = [edit EXCEPT ![t] = Edit("unpublish", None)]
      /\ UNCHANGED <<deferred, late, token, nextToken, views, cur>>
  BY DEF Clear, viewVars, Listed, Elements
<1>2. /\ edit'[t].op = "unpublish" /\ edit'[t].lis = None
      /\ \A u \in Threads \ {t} : edit'[u] = edit[u]
  BY <1>1, ListTypes DEF Edit
<1>3. Listed' = {} /\ Distinct(entries') /\ Ordered(token', late', entries')
  <2>1. Len(entries') = 0
    BY <1>1
  <2> QED
    BY <2>1 DEF Listed, Elements, Distinct, Ordered
<1>4. Waiting' = Waiting /\ \A v : Contents(v)' = Contents(v)
  BY <1>1 DEF Waiting, Contents
<1>5. Tokens'
  BY <1>1, <1>3, <1>4 DEF Listing, Tokens
<1>6. Editors'
  <2>1. \A u \in Threads : edit[u].op # "flush" /\ edit[u].op # "unpublish"
    BY <1>1, NobodyHolds DEF Listing, Editors
  <2> QED
    BY <1>1, <1>2, <2>1 DEF Listing, Editors
<1>7. Lists'
  BY <1>1, <1>3, <1>4, OrderedIsInOrder DEF Listing, Lists
<1>8. Published'
  <2>1. \A v \in 1..Len(views') : InOrder(views[v])' /\ Distinct(views'[v])
    BY <1>1 DEF Listing, Published, InOrder
  <2> QED
    BY <1>1, <1>3, <1>4, <2>1 DEF Listing, Published
<1>9. Queue'
  BY <1>1, <1>3, <1>4 DEF Listing, Queue
<1> QED
  BY <1>5, <1>6, <1>7, <1>8, <1>9 DEF Listing

\* rebuildView_ and the end of clear(): the master list becomes the view.
LEMMA ListingPublishes ==
    ASSUME Structure, Listing, NEW t \in Threads, RebuildView(t) \/ Unpublish(t)
    PROVE  /\ Listing'
           /\ \A v \in 1..Len(views) : v \in 1..Len(views') /\ views'[v] = views[v]
           /\ Contents(cur)' = Listed
<1>0. TypeOK /\ edit \in [Threads -> EditFrame] /\ views \in Seq(Seq(Listeners))
      /\ entries \in Seq(Listeners) /\ Len(views) \in Nat
  BY DEF Structure, TypeOK
<1>1. /\ edit[t].op \in {"publish", "unpublish"}
      /\ UNCHANGED <<context, deferred, late, entries, token, nextToken, removed>>
      /\ Replace(t, cur') /\ retired' \in SUBSET Nat
  <2>1. retired \in SUBSET Nat /\ cur \in Nat
    BY <1>0 DEF TypeOK
  <2> QED
    BY <2>1 DEF RebuildView, Unpublish, Editing, registry, Replace
<1>2. /\ \A u \in Threads \ {t} : edit'[u] = edit[u]
      /\ edit'[t].op \in {"count", "unlock"} /\ edit'[t].lis = edit[t].lis
  BY <1>0, <1>1, ScanFromEdit DEF Replace, Holding
<1>3. \A u \in Threads \ {t} : edit[u].op \notin {"publish", "unpublish"}
  BY <1>1 DEF Structure, Locking, Holding
<1>4. /\ \A v \in 1..Len(views) : v \in 1..Len(views') /\ views'[v] = views[v]
      /\ \A v \in 1..Len(views') : v \in 1..Len(views) \/ views'[v] = entries
      /\ Contents(cur)' = Listed
  <2>1. CASE RebuildView(t)
    <3>1. views' = Append(views, entries) /\ cur' = Len(views) + 1
      BY <2>1 DEF RebuildView, Replace
    <3>2. /\ Len(views') = Len(views) + 1 /\ views'[Len(views) + 1] = entries
          /\ \A v \in 1..Len(views) : views'[v] = views[v]
      BY <1>0, <3>1
    <3>3. \A v \in 1..Len(views') : v \in 1..Len(views) \/ v = Len(views) + 1
      BY <1>0, <3>2
    <3>4. cur' # 0 /\ views'[cur'] = entries
      BY <1>0, <3>1, <3>2
    <3> QED
      BY <1>0, <3>2, <3>3, <3>4 DEF Contents, Listed, Elements
  <2>2. CASE Unpublish(t)
    <3>1. views' = views /\ cur' = 0 /\ edit[t].op = "unpublish"
      BY <2>2 DEF Unpublish, Editing, Replace
    <3>2. entries = <<>>
      BY <3>1 DEF Listing, Editors
    <3>3. Listed = {}
      <4>1. Len(entries) = 0
        BY <3>2
      <4> QED
        BY <4>1 DEF Listed, Elements
    <3> QED
      BY <3>1, <3>3 DEF Contents
  <2> QED
    BY <2>1, <2>2
<1>5. Listed' = Listed /\ Waiting' = Waiting
  BY <1>1 DEF Listed, Waiting
<1>6. \A v \in 1..Len(views') : Contents(v)' = Listed \/ (v \in 1..Len(views) /\ Contents(v)' = Contents(v))
  <2> TAKE v \in 1..Len(views')
  <2>1. v # 0
    OBVIOUS
  <2>2. CASE v \in 1..Len(views)
    BY <1>4, <2>1, <2>2 DEF Contents
  <2>3. CASE views'[v] = entries
    BY <2>1, <2>3 DEF Contents, Listed, Elements
  <2> QED
    BY <1>4, <2>2, <2>3
<1>7. Tokens'
  BY <1>1, <1>5, <1>6 DEF Listing, Tokens
<1>8. Editors'
  <2>1. \A u \in Threads : edit'[u].lis = edit[u].lis
    BY <1>2
  <2> QED
    BY <1>1, <1>2, <2>1 DEF Listing, Editors
<1>9. Lists'
  BY <1>1, <1>5, OrderedIsInOrder DEF Listing, Lists
<1>10. Published'
  <2>1. \A v \in 1..Len(views') : InOrder(views[v])' /\ Distinct(views'[v])
    BY <1>1, <1>4, OrderedIsInOrder DEF Listing, Lists, Published
  <2> QED
    BY <1>1, <1>4, <1>5, <2>1 DEF Listing, Lists, Published
<1>11. Queue'
  BY <1>1, <1>5 DEF Listing, Queue
<1> QED
  BY <1>4, <1>7, <1>8, <1>9, <1>10, <1>11 DEF Listing

\* An empty store lists nobody.
LEMMA ListingInit == Init => Listing
<1> SUFFICES ASSUME Init PROVE Listing
  OBVIOUS
<1> USE DEF Init
<1>1. Len(entries) = 0 /\ Len(deferred) = 0 /\ Len(views) = 0
  OBVIOUS
<1>2. Listed = {} /\ Waiting = {} /\ Contents(cur) = {}
  BY <1>1 DEF Listed, Waiting, Elements, Contents
<1>3. Tokens
  BY <1>1, <1>2 DEF Tokens
<1>4. Editors
  BY DEF Editors, Idle
<1>5. Lists
  BY <1>1, <1>2 DEF Lists, InOrder, Distinct
<1>6. Published
  BY <1>1, <1>2 DEF Published
<1>7. Queue
  BY <1>1, <1>2 DEF Queue
<1> QED
  BY <1>3, <1>4, <1>5, <1>6, <1>7 DEF Listing

\* Every step keeps the lists in order, and the view in step with the master list.
LEMMA ListingStep == Structure /\ Listing /\ [Next]_vars => Listing'
<1> SUFFICES ASSUME Structure, Listing, [Next]_vars PROVE Listing'
  OBVIOUS
<1>0. edit \in [Threads -> EditFrame]
  BY ListTypes
<1>a. ASSUME UNCHANGED <<registry, viewVars, edit>> PROVE Listing'
  <2>1. /\ UNCHANGED <<deferred, late, entries, token, nextToken, removed, views, cur, context>>
        /\ edit' = edit
    BY <1>a DEF registry, viewVars
  <2>2. Tokens'
    BY <2>1 DEF Listing, Tokens, Listed, Waiting, Contents
  <2>3. Editors'
    BY <2>1 DEF Listing, Editors
  <2>4. Lists'
    BY <2>1 DEF Listing, Lists, Listed, Waiting, InOrder
  <2>5. Published'
    <3>1. \A v \in 1..Len(views') : InOrder(views[v])' /\ Distinct(views'[v])
      BY <2>1 DEF Listing, Published, InOrder
    <3>2. Contents(cur)' = Contents(cur) /\ Listed' = Listed
      BY <2>1 DEF Contents, Listed
    <3> QED
      BY <2>1, <3>1, <3>2 DEF Listing, Published
  <2>6. Queue'
    BY <2>1 DEF Listing, Queue, Listed, Waiting
  <2> QED
    BY <2>2, <2>3, <2>4, <2>5, <2>6 DEF Listing
<1>1. CASE UNCHANGED vars
  BY <1>1, <1>a DEF vars, registry, viewVars
<1>2. ASSUME NEW t \in Threads, NEW l \in Listeners, OnDeferred(t, l) PROVE Listing'
  BY <1>2, ListingDeferred
<1>3. ASSUME NEW t \in Threads, NEW l \in Listeners, On(t, l) \/ Remove(t, l) PROVE Listing'
  <2>1. /\ UNCHANGED <<deferred, late, entries, token, nextToken, removed, views, cur, context>>
        /\ edit[t].op = "idle" /\ \A u \in Threads : edit[u].lis # l
        /\ \/ edit' = [edit EXCEPT ![t] = Edit("add", l)] /\ token[l] = None
              /\ (l \in Typed => context # "configured")
           \/ edit' = [edit EXCEPT ![t] = Edit("remove", l)]
    BY <1>3 DEF On, Remove, Registers, UserCode, registry, viewVars
  <2>2. /\ \A u \in Threads \ {t} : edit'[u] = edit[u]
        /\ edit'[t].lis = l /\ edit'[t].op \in {"add", "remove"}
        /\ edit'[t].op = "add" => token[l] = None /\ (l \in Typed => context # "configured")
    BY <1>0, <2>1 DEF Edit
  <2> QED
    BY <2>1, <2>2, ListingEdit
<1>4. ASSUME NEW t \in Threads, AddEntry(t) PROVE Listing'
  BY <1>4, ListingAdds
<1>5. ASSUME NEW t \in Threads, RemoveByToken(t) PROVE Listing'
  <2>1. PICK l \in Listeners : l = edit[t].lis
    BY <1>5 DEF RemoveByToken, Editing, Structure, Locking
  <2>2. /\ edit[t].op = "remove" /\ mutex = None
        /\ UNCHANGED <<context, deferred, late, token, nextToken, views, cur>>
    BY <1>5 DEF RemoveByToken, Editing, viewVars
  <2>3. CASE /\ \E i \in 1..Len(entries) : entries[i] = l /\ entries' = Without(entries, i)
             /\ removed' = removed \union {l} /\ EditStep(t, "publish")
    BY <2>1, <2>2, <2>3, ListingErases
  <2>4. CASE edit' = [edit EXCEPT ![t] = Idle] /\ UNCHANGED <<entries, removed>>
    <3>1. /\ \A u \in Threads \ {t} : edit'[u] = edit[u]
          /\ edit'[t].lis = None /\ edit'[t].op = "idle"
      BY <1>0, <2>4 DEF Idle
    <3> QED
      BY <2>2, <2>4, <3>1, ListingEdit
  <2> QED
    BY <1>5, <2>1, <2>3, <2>4 DEF RemoveByToken
<1>6. ASSUME NEW t \in Threads, Start(t) PROVE Listing'
  <2>1. /\ UNCHANGED <<deferred, late, entries, token, nextToken, removed, views, cur>>
        /\ \A u \in Threads : edit[u].op = "idle"
        /\ context = "configured" /\ context' \in {"starting", "started"}
        /\ edit' = edit \/ (edit' = [edit EXCEPT ![t] = Edit("flush", None)] /\ context' = "starting")
    BY <1>6 DEF Start, viewVars
  <2>2. /\ \A u \in Threads \ {t} : edit'[u] = edit[u]
        /\ edit'[t].lis = None \/ edit'[t].lis = edit[t].lis
        /\ edit'[t].op \in {"idle", "flush"} /\ (edit'[t].op = "flush" => context' = "starting")
    BY <1>0, <2>1 DEF Edit
  <2> QED
    BY <2>1, <2>2, ListingEdit
<1>7. ASSUME NEW t \in Threads, AddListenerDeferred(t) PROVE Listing'
  BY <1>7, ListingFlushes
<1>8. ASSUME NEW t \in Threads, FinalizeListeners(t) PROVE Listing'
  <2>1. /\ UNCHANGED <<deferred, late, entries, token, nextToken, removed, views, cur>>
        /\ edit[t].op = "flush" /\ context' = "started" /\ EditStep(t, "publish")
    BY <1>8 DEF FinalizeListeners, Editing, viewVars
  <2>2. /\ \A u \in Threads \ {t} : edit'[u] = edit[u]
        /\ edit'[t].lis = edit[t].lis /\ edit'[t].op = "publish"
    BY <1>0, <2>1 DEF EditStep, EditFrame
  <2>3. context = "starting" /\ \A u \in Threads \ {t} : edit[u].op # "flush"
    BY <2>1 DEF Listing, Editors
  <2> QED
    BY <2>1, <2>2, <2>3, ListingEdit
<1>9. ASSUME NEW t \in Threads, Clear(t) PROVE Listing'
  BY <1>9, ListingClears
<1>10. ASSUME NEW t \in Threads, RebuildView(t) \/ Unpublish(t) PROVE Listing'
  BY <1>10, ListingPublishes
<1>11. ASSUME NEW t \in Threads, LoadCount(t) \/ ScanSlot(t) \/ FreeView(t) \/ Unlock(t)
       PROVE  Listing'
  <2>1. /\ UNCHANGED <<deferred, late, entries, token, nextToken, removed, views, cur, context>>
        /\ edit[t].op \in {"count", "scan", "unlock"}
        /\ \/ ScanFrom(t, retired, edit[t].view)
           \/ edit' = [edit EXCEPT ![t].pos = @ + 1]
           \/ edit' = [edit EXCEPT ![t].op = "scan", ![t].count = published]
           \/ edit' = [edit EXCEPT ![t] = Idle]
    BY <1>11 DEF LoadCount, ScanSlot, FreeView, Unlock, Editing, registry, viewVars
  <2>2. TypeOK /\ retired \in SUBSET Nat /\ edit[t].view \in Nat
    <3>1. TypeOK
      BY DEF Structure
    <3>2. retired \subseteq 1..Len(views) /\ edit[t] \in EditFrame
      BY <3>1 DEF TypeOK
    <3> QED
      BY <3>1, <3>2 DEF EditFrame
  <2>3. /\ \A u \in Threads \ {t} : edit'[u] = edit[u]
        /\ edit'[t].lis = None \/ edit'[t].lis = edit[t].lis
        /\ edit'[t].op \in {"idle", "count", "scan", "unlock"}
    <3>1. CASE ScanFrom(t, retired, edit[t].view)
      BY <2>1, <2>2, <3>1, ScanFromEdit DEF Holding
    <3>2. CASE edit' = [edit EXCEPT ![t].pos = @ + 1]
      BY <1>0, <2>1, <3>2 DEF EditFrame
    <3>3. CASE edit' = [edit EXCEPT ![t] = Idle]
      BY <1>0, <3>3 DEF Idle
    <3>4. CASE edit' = [edit EXCEPT ![t].op = "scan", ![t].count = published]
      BY <1>0, <3>4 DEF EditFrame
    <3> QED
      BY <2>1, <3>1, <3>2, <3>3, <3>4
  <2> QED
    BY <2>1, <2>3, ListingEdit
<1>12. ASSUME NEW t \in Threads, NEW sc \in Scopes, Dispatch(t, sc) PROVE Listing'
  BY <1>12, <1>a DEF Dispatch
<1>13. ASSUME NEW t \in Threads, ThreadExit(t) \/ RecycleSlot(t) PROVE Listing'
  BY <1>13, <1>a DEF ThreadExit, RecycleSlot
<1>14. ASSUME NEW t \in Threads, Reads(t) PROVE Listing'
  BY <1>14, <1>a, FrameMoves
<1> QED
  BY <1>1, <1>2, <1>3, <1>4, <1>5, <1>6, <1>7, <1>8, <1>9, <1>10, <1>11, <1>12, <1>13, <1>14
     DEF Next, Continue, Reads

\* The lists and views stay in order.
LEMMA ListingHolds == Spec => []Listing
BY ListingInit, ListingStep, StructureHolds, PTL DEF Spec

-----------------------------------------------------------------------------
(* What a dispatch has heard.                                              *)

\* The listeners before this position have been called or skipped.
Last(f) == IF f.op \in {"call", "throw"} THEN f.pos ELSE f.pos - 1

\* Callbacks ran in the order of the view, and those of the scope all ran.
FrameHears(f) ==
    /\ f.op \in Early => f.heard = <<>> /\ f.pos = 1
    /\ f.op \notin Early =>
        /\ InOrder(f.heard) /\ Distinct(f.heard)
        /\ Last(f) <= Len(views[f.view])
        /\ \A n \in 1..Len(f.heard) : \E p \in 1..Last(f) : f.heard[n] = views[f.view][p]
        /\ \A p \in 1..Last(f) :
            Matches(views[f.view][p], f) => views[f.view][p] \in Heard(f)

Hearing == \A t \in Threads : \A i \in 1..Len(disp[t]) : FrameHears(disp[t][i])

\* Views are never changed, and a token is given to a listener without one.
Appending ==
    /\ \A v \in 1..Len(views) : v \in 1..Len(views') /\ views'[v] = views[v]
    /\ \/ token' = token /\ late' = late
       \/ \E l \in Listeners : /\ token[l] = None /\ token' = [token EXCEPT ![l] = nextToken]
                               /\ (late' = late \/ late' = late \union {l})

\* No step takes back a token or a view.
LEMMA StepsAppend == Structure /\ Listing /\ [Next]_vars => Appending
<1> SUFFICES ASSUME Structure, Listing, [Next]_vars PROVE Appending
  OBVIOUS
<1>a. ASSUME UNCHANGED <<views, token, late>> PROVE Appending
  BY <1>a DEF Appending
<1>1. CASE UNCHANGED vars
  BY <1>1, <1>a DEF vars
<1>2. ASSUME NEW t \in Threads, NEW l \in Listeners, OnDeferred(t, l) PROVE Appending
  BY <1>2 DEF OnDeferred, viewVars, Appending
<1>3. ASSUME NEW t \in Threads, NEW l \in Listeners, On(t, l) \/ Remove(t, l) PROVE Appending
  BY <1>3, <1>a DEF On, Remove, registry, viewVars
<1>4. ASSUME NEW t \in Threads, AddEntry(t) PROVE Appending
  <2>1. PICK l \in Listeners : l = edit[t].lis
    BY <1>4 DEF AddEntry, Editing, Structure, Locking
  <2>2. token[l] = None
    BY <1>4, <2>1 DEF AddEntry, Editing, Listing, Editors
  <2> QED
    BY <1>4, <2>1, <2>2 DEF AddEntry, viewVars, Appending
<1>5. ASSUME NEW t \in Threads,
             \/ RemoveByToken(t) \/ Start(t) \/ AddListenerDeferred(t) \/ FinalizeListeners(t)
             \/ Clear(t)
      PROVE  Appending
  BY <1>5, <1>a DEF RemoveByToken, Start, AddListenerDeferred, FinalizeListeners, Clear, viewVars
<1>6. ASSUME NEW t \in Threads, RebuildView(t) \/ Unpublish(t) PROVE Appending
  <2>1. UNCHANGED <<token, late>>
    BY <1>6 DEF RebuildView, Unpublish, registry
  <2> QED
    BY <1>6, <2>1, ListingPublishes DEF Appending
<1>7. ASSUME NEW t \in Threads,
             \/ LoadCount(t) \/ ScanSlot(t) \/ FreeView(t) \/ Unlock(t)
             \/ ThreadExit(t) \/ RecycleSlot(t)
      PROVE  Appending
  BY <1>7, <1>a DEF LoadCount, ScanSlot, FreeView, Unlock, ThreadExit, RecycleSlot, registry,
         viewVars
<1>8. ASSUME NEW t \in Threads, NEW sc \in Scopes, Dispatch(t, sc) PROVE Appending
  BY <1>8, <1>a DEF Dispatch, registry, viewVars
<1>9. ASSUME NEW t \in Threads, Reads(t) PROVE Appending
  BY <1>9, <1>a, FrameMoves DEF registry, viewVars
<1> QED
  BY <1>1, <1>2, <1>3, <1>4, <1>5, <1>6, <1>7, <1>8, <1>9 DEF Next, Continue, Reads

\* The frames of the next state: those of dispatches that go on, and a new one.
FramesCome ==
    \A u \in Threads : \A i \in 1..Len(disp'[u]) :
        \/ i \in 1..Len(disp[u]) /\ disp'[u][i] = disp[u][i]
        \/ /\ i \in 1..Len(disp[u]) /\ Moves(disp[u][i], disp'[u][i])
           /\ UNCHANGED <<registry, viewVars, edit>>
        \/ /\ disp'[u][i].op \in Early /\ disp'[u][i].view = 0
           /\ disp'[u][i].op \notin {"protect", "recheck"}
           /\ disp'[u][i].heard = <<>> /\ disp'[u][i].pos = 1
           /\ disp'[u][i].due = Contents(cur) /\ disp'[u][i].gone = Gone
           /\ context \in {"starting", "started"}
           /\ UNCHANGED <<registry, viewVars, edit>>

\* A step leaves the frames alone, adds one, or moves the top one.
LEMMA StepsOfFrames == Structure /\ [Next]_vars => FramesCome
<1> SUFFICES ASSUME Structure, [Next]_vars PROVE FramesCome
  OBVIOUS
<1>a. ASSUME disp' = disp PROVE FramesCome
  BY <1>a DEF FramesCome
<1>1. CASE UNCHANGED vars
  BY <1>1, <1>a DEF vars
<1>2. ASSUME NEW t \in Threads, NEW l \in Listeners, OnDeferred(t, l) \/ On(t, l) \/ Remove(t, l)
      PROVE  FramesCome
  BY <1>2, <1>a DEF OnDeferred, On, Remove
<1>3. ASSUME NEW t \in Threads,
             \/ AddEntry(t) \/ RemoveByToken(t) \/ Start(t) \/ AddListenerDeferred(t)
             \/ FinalizeListeners(t) \/ Clear(t) \/ RebuildView(t) \/ Unpublish(t)
             \/ LoadCount(t) \/ ScanSlot(t) \/ FreeView(t) \/ Unlock(t)
             \/ ThreadExit(t) \/ RecycleSlot(t)
      PROVE  FramesCome
  BY <1>3, <1>a DEF AddEntry, RemoveByToken, Start, AddListenerDeferred, FinalizeListeners, Clear,
         RebuildView, Unpublish, LoadCount, ScanSlot, FreeView, Unlock, ThreadExit, RecycleSlot
<1>4. ASSUME NEW t \in Threads, NEW sc \in Scopes, Dispatch(t, sc) PROVE FramesCome
  <2> DEFINE f == [op |-> IF slot[t] = None THEN "slot" ELSE "load", scope |-> sc, view |-> 0,
                   pos |-> 1, locked |-> FALSE, heard |-> <<>>, due |-> Contents(cur),
                   gone |-> Gone]
  <2>1. TypeOK
    BY DEF Structure
  <2>2. Contents(cur) \subseteq Listeners /\ Gone \subseteq Listeners
    BY ListTypes DEF Gone
  <2>3. f \in DispatchFrame
    BY <2>2 DEF DispatchFrame
  <2>4. /\ f.op \in {"slot", "load"} /\ f.view = 0 /\ f.heard = <<>> /\ f.pos = 1
        /\ f.due = Contents(cur) /\ f.gone = Gone
    OBVIOUS
  <2>5. /\ disp' = [disp EXCEPT ![t] = Append(@, f)] /\ context \in {"starting", "started"}
        /\ UNCHANGED <<registry, viewVars, edit>>
    BY <1>4 DEF Dispatch
  <2> HIDE DEF f
  <2>6. /\ OthersSame(t)
        /\ Len(disp'[t]) = Len(disp[t]) + 1
        /\ \A i \in 1..Len(disp[t]) : disp'[t][i] = disp[t][i]
        /\ disp'[t][Len(disp[t]) + 1] = f
    BY <2>1, <2>3, <2>5, DispatchFrames
  <2>7. Len(disp[t]) \in Nat
    BY <2>1 DEF TypeOK
  <2>8. ASSUME NEW u \in Threads, NEW i \in 1..Len(disp'[u])
        PROVE  (i \in 1..Len(disp[u]) /\ disp'[u][i] = disp[u][i]) \/ disp'[u][i] = f
    BY <2>6, <2>7 DEF OthersSame
  <2> QED
    BY <2>4, <2>5, <2>8 DEF FramesCome, Early
<1>5. ASSUME NEW t \in Threads, Reads(t) PROVE FramesCome
  BY <1>5, FrameMoves DEF Kin, FramesCome
<1> QED
  BY <1>1, <1>2, <1>3, <1>4, <1>5 DEF Next, Continue, Reads

\* A frame that stays as it is, whatever is registered meanwhile.
LEMMA HearingKept ==
    ASSUME Structure, Listing, Appending, NEW f \in DispatchFrame, FrameHears(f),
           f.op \notin Early => f.view \in 1..Len(views)
    PROVE  FrameHears(f)'
<1>1. CASE f.op \in Early
  BY <1>1 DEF FrameHears
<1>2. CASE f.op \notin Early
  <2>1. f.view \in 1..Len(views) /\ views'[f.view] = views[f.view]
    BY <1>2 DEF Appending
  <2>2. /\ Ordered(token, late, f.heard) /\ f.heard \in Seq(Listeners) /\ Distinct(f.heard)
        /\ Last(f) <= Len(views[f.view])
        /\ \A n \in 1..Len(f.heard) : \E p \in 1..Last(f) : f.heard[n] = views[f.view][p]
        /\ \A p \in 1..Last(f) :
            Matches(views[f.view][p], f) => views[f.view][p] \in Heard(f)
    BY <1>2, OrderedIsInOrder DEF FrameHears, DispatchFrame
  <2>3. Last(f) \in Int /\ Len(views[f.view]) \in Nat
    BY <2>1, ListTypes DEF Last, DispatchFrame
  <2>4. \A n \in 1..Len(f.heard) : f.heard[n] \in Contents(f.view) /\ f.heard[n] \in Listeners
    <3>1. \A p \in 1..Last(f) : p \in 1..Len(views[f.view])
      BY <2>2, <2>3
    <3>2. \A p \in 1..Len(views[f.view]) : views[f.view][p] \in Contents(f.view)
      BY <2>1, ListTypes DEF Elements
    <3>3. \A n \in 1..Len(f.heard) : f.heard[n] \in Listeners
      BY <2>2
    <3> QED
      BY <2>2, <3>1, <3>2, <3>3
  <2>5. \A n \in 1..Len(f.heard) : token[f.heard[n]] # None
    BY <2>1, <2>4 DEF Listing, Tokens
  <2>6. Ordered(token', late', f.heard)
    <3>1. CASE token' = token /\ late' = late
      BY <2>2, <3>1
    <3>2. CASE \E l \in Listeners : token[l] = None /\ token' = [token EXCEPT ![l] = nextToken]
                                    /\ (late' = late \/ late' = late \union {l})
      <4>1. PICK l \in Listeners : /\ token[l] = None /\ token' = [token EXCEPT ![l] = nextToken]
                                   /\ (late' = late \/ late' = late \union {l})
        BY <3>2
      <4>2. \A n \in 1..Len(f.heard) : f.heard[n] # l
        BY <2>5, <4>1
      <4> QED
        BY <2>2, <4>1, <4>2, ListTypes, OrderedKept
    <3> QED
      BY <3>1, <3>2 DEF Appending
  <2>7. InOrder(f.heard)'
    BY <2>6, OrderedIsInOrder
  <2> QED
    BY <1>2, <2>1, <2>2, <2>7 DEF FrameHears, Last, Matches, Heard
<1> QED
  BY <1>1, <1>2

\* The next listener is called behind those before it in the view.
LEMMA HearingCalls ==
    ASSUME NEW s \in Seq(Listeners), NEW q \in Seq(Listeners), NEW p \in 1..Len(s),
           NEW tk, NEW lt, Ordered(tk, lt, s), Ordered(tk, lt, q),
           Distinct(s), Distinct(q),
           \A n \in 1..Len(q) : \E x \in 1..(p - 1) : q[n] = s[x]
    PROVE  /\ Ordered(tk, lt, Append(q, s[p]))
           /\ \A n \in 1..Len(Append(q, s[p])) : \E x \in 1..p : Append(q, s[p])[n] = s[x]
           /\ Elements(Append(q, s[p])) = Elements(q) \union {s[p]}
           /\ Distinct(Append(q, s[p]))
<1> DEFINE r == Append(q, s[p])
<1>1. /\ Len(r) = Len(q) + 1 /\ r[Len(q) + 1] = s[p] /\ \A i \in 1..Len(q) : r[i] = q[i]
      /\ s[p] \in Listeners
  OBVIOUS
<1>2. Len(q) \in Nat /\ p \in Nat /\ p >= 1 /\ Len(s) \in Nat
  OBVIOUS
<1> HIDE DEF r
<1>3. \A i \in 1..Len(r) : i \in 1..Len(q) \/ i = Len(q) + 1
  BY <1>1, <1>2
<1>4. 1..Len(q) \subseteq 1..Len(r) /\ Len(q) + 1 \in 1..Len(r)
  BY <1>1, <1>2
<1>5. Elements(r) = Elements(q) \union {s[p]}
  BY <1>1, <1>3, <1>4 DEF Elements
<1>6. \A x \in 1..(p - 1) : x \in 1..Len(s) /\ x < p /\ x \in 1..p
  BY <1>2
<1>7. \A n \in 1..Len(r) : \E x \in 1..p : r[n] = s[x]
  <2> TAKE n \in 1..Len(r)
  <2>1. CASE n = Len(q) + 1
    <3>1. p \in 1..p /\ r[n] = s[p]
      BY <1>1, <1>2, <2>1
    <3> QED
      BY <3>1
  <2>2. CASE n \in 1..Len(q)
    BY <1>1, <1>6, <2>2
  <2> QED
    BY <1>3, <2>1, <2>2
<1>8. ASSUME NEW i \in 1..Len(r), NEW j \in 1..Len(r), i < j
      PROVE  Ahead(tk, lt, r[i], r[j])
  <2>1. i \in 1..Len(q)
    BY <1>1, <1>2, <1>8
  <2>2. CASE j \in 1..Len(q)
    BY <1>1, <1>8, <2>1, <2>2 DEF Ordered
  <2>3. CASE j = Len(q) + 1
    <3>1. PICK x \in 1..(p - 1) : q[i] = s[x]
      BY <2>1
    <3>2. Ahead(tk, lt, s[x], s[p])
      BY <1>6, <3>1 DEF Ordered
    <3> QED
      BY <1>1, <2>1, <2>3, <3>1, <3>2
  <2> QED
    BY <1>3, <2>2, <2>3
<1>9. Ordered(tk, lt, r)
  BY <1>8 DEF Ordered
<1>10. Distinct(r)
  <2>1. \A n \in 1..Len(q) : q[n] # s[p]
    BY <1>2, <1>6 DEF Distinct
  <2> QED
    BY <1>1, <1>3, <2>1 DEF Distinct
<1> QED
  BY <1>5, <1>7, <1>9, <1>10 DEF r

\* A frame that goes on.
LEMMA HearingMoves ==
    ASSUME Structure, Listing, NEW g \in DispatchFrame, NEW f \in DispatchFrame,
           FrameHears(g), Moves(g, f), g.pos >= 1,
           g.op \notin Early => g.view \in 1..Len(views)
    PROVE  FrameHears(f)
<1>0. g.pos \in Nat /\ f.pos \in Nat /\ f.scope = g.scope
      /\ g.heard \in Seq(Listeners) /\ cur \in 0..Len(views)
  BY ListTypes DEF DispatchFrame, Moves
<1>1. CASE f.op \in Early
  BY <1>1 DEF Moves, FrameHears, Early
<1>2. CASE g.op \in {"load", "recheck", "lock"} /\ f.op = "run"
  <2>1. g.heard = <<>> /\ g.pos = 1 /\ f.heard = <<>> /\ f.pos = 1 /\ f.view = cur /\ cur # 0
    BY <1>2 DEF Moves, FrameHears, Early
  <2>2. Len(f.heard) = 0 /\ Last(f) = 0
    BY <1>2, <2>1 DEF Last
  <2>3. views[f.view] \in Seq(Listeners)
    BY <1>0, <2>1, ListTypes
  <2>4. Last(f) <= Len(views[f.view])
    BY <2>2, <2>3
  <2>5. InOrder(f.heard) /\ Distinct(f.heard)
    BY <2>2 DEF InOrder, Distinct
  <2>6. 1..Last(f) = {} /\ 1..Len(f.heard) = {}
    BY <2>2
  <2> QED
    BY <1>2, <2>4, <2>5, <2>6 DEF FrameHears, Early
<1>3. CASE g.op \in {"run", "call"}
  <2> DEFINE s == views[g.view]
  <2>1. g.view \in 1..Len(views) /\ s \in Seq(Listeners) /\ f.view = g.view /\ Len(s) \in Nat
    <3>1. g.view \in 1..Len(views) /\ f.view = g.view
      BY <1>3 DEF Early, Moves
    <3> QED
      BY <3>1, ListTypes
  <2>2. /\ Ordered(token, late, g.heard) /\ Distinct(g.heard)
        /\ Last(g) <= Len(s)
        /\ \A n \in 1..Len(g.heard) : \E p \in 1..Last(g) : g.heard[n] = s[p]
        /\ \A p \in 1..Last(g) : Matches(s[p], g) => s[p] \in Elements(g.heard)
    BY <1>3, OrderedIsInOrder DEF FrameHears, Early, Heard, Elements
  <2>3. Ordered(token, late, s) /\ Distinct(s)
    BY <2>1, OrderedIsInOrder DEF Listing, Published
  <2>4. \A l : Matches(l, f) <=> Matches(l, g)
    BY <1>0 DEF Matches
  <2> HIDE DEF s
  <2>5. SUFFICES /\ Ordered(token, late, f.heard) /\ Distinct(f.heard)
                 /\ Last(f) <= Len(s)
                 /\ \A n \in 1..Len(f.heard) : \E p \in 1..Last(f) : f.heard[n] = s[p]
                 /\ \A p \in 1..Last(f) : Matches(s[p], f) => s[p] \in Elements(f.heard)
    <3>1. f.op \notin Early
      BY <1>3 DEF Moves, Early
    <3> QED
      BY <2>1, <3>1, OrderedIsInOrder DEF FrameHears, Heard, Elements, s
  <2>6. CASE g.op = "run" /\ f.op = "call"
    <3>1. /\ Last(g) = g.pos - 1 /\ Last(f) = g.pos /\ g.pos \in 1..Len(s)
          /\ f.heard = Append(g.heard, s[g.pos])
      BY <1>0, <2>1, <2>6 DEF Moves, Last, s
    <3>2. \A n \in 1..Len(g.heard) : \E x \in 1..(g.pos - 1) : g.heard[n] = s[x]
      BY <2>2, <3>1
    <3>3. /\ Ordered(token, late, f.heard) /\ Distinct(f.heard)
          /\ \A n \in 1..Len(f.heard) : \E x \in 1..g.pos : f.heard[n] = s[x]
          /\ Elements(f.heard) = Elements(g.heard) \union {s[g.pos]}
      <4>1. PICK h : h = g.heard
        OBVIOUS
      <4>2. PICK x : x = g.pos
        OBVIOUS
      <4>3. /\ h \in Seq(Listeners) /\ x \in 1..Len(s) /\ Ordered(token, late, h)
            /\ Distinct(h)
            /\ \A n \in 1..Len(h) : \E y \in 1..(x - 1) : h[n] = s[y]
            /\ f.heard = Append(h, s[x])
        BY <1>0, <2>2, <3>1, <3>2, <4>1, <4>2
      <4>4. /\ Ordered(token, late, Append(h, s[x])) /\ Distinct(Append(h, s[x]))
            /\ \A n \in 1..Len(Append(h, s[x])) : \E y \in 1..x : Append(h, s[x])[n] = s[y]
            /\ Elements(Append(h, s[x])) = Elements(h) \union {s[x]}
        BY <2>1, <2>3, <4>3, HearingCalls
      <4> QED
        BY <4>1, <4>2, <4>3, <4>4
    <3>4. \A p \in 1..g.pos : p \in 1..Last(g) \/ p = g.pos
      BY <1>0, <3>1
    <3> QED
      BY <2>1, <2>2, <2>4, <3>1, <3>3, <3>4
  <2>7. CASE g.op = "run" /\ f.op = "run"
    <3>1. /\ Last(g) = g.pos - 1 /\ Last(f) = g.pos /\ g.pos \in 1..Len(s)
          /\ f.heard = g.heard /\ ~Matches(s[g.pos], g)
      BY <1>0, <2>1, <2>7 DEF Moves, Last, s
    <3>2. \A p \in 1..g.pos : p \in 1..Last(g) \/ p = g.pos
      BY <1>0, <3>1
    <3>3. \A p \in 1..Last(g) : p \in 1..g.pos
      BY <1>0, <3>1
    <3> QED
      BY <2>1, <2>2, <2>4, <3>1, <3>2, <3>3
  <2>8. CASE g.op = "call"
    <3>1. Last(g) = g.pos /\ Last(f) = g.pos /\ f.heard = g.heard
      BY <1>0, <2>8 DEF Moves, Last
    <3> QED
      BY <2>2, <2>4, <3>1
  <2> QED
    BY <1>3, <2>6, <2>7, <2>8 DEF Moves
<1> QED
  BY <1>1, <1>2, <1>3 DEF Moves, Early

\* The frames before and after a step are frames.
LEMMA FramesTyped ==
    ASSUME Structure, Structure', NEW u \in Threads
    PROVE  /\ \A i \in 1..Len(disp[u]) : disp[u][i] \in DispatchFrame /\ FrameOK(u, disp[u][i])
           /\ \A i \in 1..Len(disp'[u]) : disp'[u][i] \in DispatchFrame
<1>1. disp[u] \in Seq(DispatchFrame) /\ disp'[u] \in Seq(DispatchFrame)
  BY DEF Structure, TypeOK
<1>2. \A i \in 1..Len(disp[u]) : FrameOK(u, disp[u][i])
  BY DEF Structure, FramesOK
<1> QED
  BY <1>1, <1>2

\* Every step keeps what a dispatch has heard in the order of its view.
LEMMA HearingStep == Structure /\ Structure' /\ Listing /\ Hearing /\ [Next]_vars => Hearing'
<1> SUFFICES ASSUME Structure, Structure', Listing, Hearing, [Next]_vars,
                    NEW u \in Threads, NEW i \in 1..Len(disp'[u])
             PROVE  FrameHears(disp[u][i])'
  BY DEF Hearing
<1>1. FramesCome /\ Appending
  BY StepsOfFrames, StepsAppend
<1>2. PICK f \in DispatchFrame : f = disp'[u][i]
  BY FramesTyped
<1>3. SUFFICES FrameHears(f)'
  BY <1>2
<1>a. ASSUME i \in 1..Len(disp[u])
      PROVE  \E g \in DispatchFrame : /\ g = disp[u][i] /\ FrameHears(g) /\ g.pos >= 1
                                      /\ g.op \notin Early => g.view \in 1..Len(views)
  <2>1. PICK g \in DispatchFrame : g = disp[u][i] /\ FrameOK(u, g)
    BY <1>a, FramesTyped
  <2>2. FrameHears(g)
    BY <1>a, <2>1 DEF Hearing
  <2>3. g.pos >= 1 /\ (g.op \notin Early => g.view \in 1..Len(views))
    BY <2>1 DEF FrameOK, Early, DispatchFrame
  <2> QED
    BY <2>1, <2>2, <2>3
<1>4. CASE i \in 1..Len(disp[u]) /\ disp'[u][i] = disp[u][i]
  BY <1>1, <1>2, <1>4, <1>a, HearingKept
<1>5. CASE /\ i \in 1..Len(disp[u]) /\ Moves(disp[u][i], disp'[u][i])
           /\ UNCHANGED <<registry, viewVars, edit>>
  <2>1. PICK g \in DispatchFrame : /\ g = disp[u][i] /\ FrameHears(g) /\ g.pos >= 1
                                   /\ g.op \notin Early => g.view \in 1..Len(views)
    BY <1>5, <1>a
  <2>2. FrameHears(f)
    BY <1>2, <1>5, <2>1, HearingMoves
  <2>3. UNCHANGED <<views, token, late>>
    BY <1>5 DEF registry, viewVars
  <2>4. InOrder(f.heard)' <=> InOrder(f.heard)
    BY <2>3 DEF InOrder
  <2> QED
    BY <2>2, <2>3, <2>4 DEF FrameHears, Matches, Heard, Last
<1>6. CASE f.op \in Early /\ f.heard = <<>> /\ f.pos = 1
  BY <1>6 DEF FrameHears
<1> QED
  BY <1>1, <1>2, <1>4, <1>5, <1>6 DEF FramesCome

\* Nobody has heard anything in an empty store.
LEMMA HearingInit == Init => Hearing
BY DEF Init, Hearing

\* What a dispatch has heard is always the part of its view that it has passed.
LEMMA HearingHolds == Spec => []Hearing
<1>1. Init /\ [][Next]_vars => []Structure
  BY StructureHolds DEF Spec
<1>2. Init /\ [][Next]_vars => []Listing
  BY ListingHolds DEF Spec
<1> QED
  BY <1>1, <1>2, HearingInit, HearingStep, PTL DEF Spec

\* Every event reaches its listeners each at most once, in order of priority and,
\* at equal priority, of registration, where a listener that on<T> deferred
\* before start() stands behind what was inserted before its context's list was
\* flushed (dispatchFromView_ over lists that insertSorted_ keeps in order).
THEOREM EventsInOrder == Spec => []HeardInOrder
<1>1. Hearing => HeardInOrder
  <2> SUFFICES ASSUME Hearing, NEW t \in Threads, NEW i \in 1..Len(disp[t])
               PROVE  InOrder(disp[t][i].heard) /\ Distinct(disp[t][i].heard)
    BY DEF HeardInOrder
  <2>1. FrameHears(disp[t][i])
    BY DEF Hearing
  <2>2. CASE disp[t][i].op \in Early
    <3>1. Len(disp[t][i].heard) = 0
      BY <2>1, <2>2 DEF FrameHears
    <3> QED
      BY <3>1 DEF InOrder, Distinct
  <2>3. CASE disp[t][i].op \notin Early
    BY <2>1, <2>3 DEF FrameHears
  <2> QED
    BY <2>2, <2>3
<1> QED
  BY <1>1, HearingHolds, PTL

-----------------------------------------------------------------------------
(* Who must and who must not hear of an event.                             *)

\* Those due are in the view the dispatch reads, or will read, unless removed.
FrameDue(f) ==
    /\ f.due \subseteq Listed \union removed
    /\ f.due \ removed \subseteq Contents(cur)
    /\ f.gone \subseteq removed
    /\ f.gone \cap Contents(cur) = {}
    /\ f.op \in {"protect", "recheck", "run", "call", "throw"} =>
        f.due \ removed \subseteq Contents(f.view) /\ f.gone \cap Contents(f.view) = {}

Delivery == \A t \in Threads : \A i \in 1..Len(disp[t]) : FrameDue(disp[t][i])

\* Removal is for good, and a new view is the master list.
Removing ==
    /\ removed \subseteq removed'
    /\ Listed \union removed \subseteq Listed' \union removed'
    /\ Contents(cur)' = Contents(cur) \/ (Contents(cur)' = Listed /\ UNCHANGED <<entries, removed>>)

\* What a step does to the removed listeners and to what the view holds.
LEMMA StepsRemove == Structure /\ Listing /\ [Next]_vars => Removing
<1> SUFFICES ASSUME Structure, Listing, [Next]_vars PROVE Removing
  OBVIOUS
<1>a. ASSUME UNCHANGED <<entries, removed, views, cur>> PROVE Removing
  BY <1>a DEF Removing, Listed, Contents
<1>b. ASSUME NEW l \in Listeners, l \notin Listed, entries' = InsertSorted(l),
             UNCHANGED <<removed, views, cur>>
      PROVE  Removing
  <2>1. PICK q : q = entries
    OBVIOUS
  <2>2. q \in Seq(Listeners) /\ Ordered(token, late, q) /\ Distinct(q) /\ l \notin Elements(q)
    BY <1>b, <2>1, ListTypes, OrderedIsInOrder DEF Listing, Lists, Listed
  <2>3. Elements(InsertSorted(l)) = Elements(q) \union {l}
    BY <2>1, <2>2, InsertSortedPoint
  <2>4. Listed \subseteq Listed'
    BY <1>b, <2>1, <2>3 DEF Listed
  <2> QED
    BY <1>b, <2>4 DEF Removing, Contents
<1>1. CASE UNCHANGED vars
  BY <1>1, <1>a DEF vars
<1>2. ASSUME NEW t \in Threads, NEW l \in Listeners, OnDeferred(t, l) \/ On(t, l) \/ Remove(t, l)
      PROVE  Removing
  BY <1>2, <1>a DEF OnDeferred, On, Remove, registry, viewVars
<1>3. ASSUME NEW t \in Threads, AddEntry(t) PROVE Removing
  <2>1. PICK l \in Listeners : l = edit[t].lis
    BY <1>3 DEF AddEntry, Editing, Structure, Locking
  <2>2. l \notin Listed
    BY <1>3, <2>1 DEF AddEntry, Editing, Listing, Editors, Tokens
  <2> QED
    BY <1>3, <1>b, <2>1, <2>2 DEF AddEntry, viewVars
<1>4. ASSUME NEW t \in Threads, AddListenerDeferred(t) PROVE Removing
  <2>1. PICK k \in 1..Len(deferred) : entries' = InsertSorted(deferred[k])
    BY <1>4 DEF AddListenerDeferred
  <2>2. deferred[k] \in Waiting
    BY DEF Waiting, Elements
  <2>3. PICK l \in Listeners : l = deferred[k] /\ l \notin Listed
    BY <2>2, ListTypes DEF Listing, Lists
  <2> QED
    BY <1>4, <1>b, <2>1, <2>3 DEF AddListenerDeferred, viewVars
<1>5. ASSUME NEW t \in Threads, RemoveByToken(t) PROVE Removing
  <2>1. CASE UNCHANGED <<entries, removed>>
    BY <1>5, <1>a, <2>1 DEF RemoveByToken, viewVars
  <2>2. CASE /\ \E i \in 1..Len(entries) : entries[i] = edit[t].lis /\ entries' = Without(entries, i)
             /\ removed' = removed \union {edit[t].lis}
    <3>1. PICK k \in 1..Len(entries) : entries[k] = edit[t].lis /\ entries' = Without(entries, k)
      BY <2>2
    <3>2. PICK q : q = entries
      OBVIOUS
    <3>3. entries' = ErasedAt(q, k) /\ q \in Seq(Listeners) /\ Distinct(q)
      BY <3>1, <3>2, ListTypes DEF Without, ErasedAt, Listing, Lists
    <3>4. Elements(ErasedAt(q, k)) = Elements(q) \ {q[k]}
      BY <3>2, <3>3, ErasedElements
    <3>5. Listed' = Listed \ {edit[t].lis}
      BY <3>1, <3>2, <3>3, <3>4 DEF Listed
    <3> QED
      BY <1>5, <2>2, <3>5 DEF RemoveByToken, viewVars, Removing, Contents
  <2> QED
    BY <1>5, <2>1, <2>2 DEF RemoveByToken
<1>6. ASSUME NEW t \in Threads, Clear(t) PROVE Removing
  <2>1. removed' = removed \union Listed /\ UNCHANGED <<views, cur>>
    BY <1>6 DEF Clear, viewVars, Listed, Elements
  <2> QED
    BY <2>1 DEF Removing, Contents
<1>7. ASSUME NEW t \in Threads, RebuildView(t) \/ Unpublish(t) PROVE Removing
  <2>1. UNCHANGED <<entries, removed>>
    BY <1>7 DEF RebuildView, Unpublish, registry
  <2> QED
    BY <1>7, <2>1, ListingPublishes DEF Removing, Listed
<1>8. ASSUME NEW t \in Threads,
             \/ Start(t) \/ FinalizeListeners(t) \/ LoadCount(t) \/ ScanSlot(t) \/ FreeView(t)
             \/ Unlock(t) \/ ThreadExit(t) \/ RecycleSlot(t)
      PROVE  Removing
  BY <1>8, <1>a DEF Start, FinalizeListeners, LoadCount, ScanSlot, FreeView, Unlock, ThreadExit,
         RecycleSlot, registry, viewVars
<1>9. ASSUME NEW t \in Threads, NEW sc \in Scopes, Dispatch(t, sc) PROVE Removing
  BY <1>9, <1>a DEF Dispatch, registry, viewVars
<1>10. ASSUME NEW t \in Threads, Reads(t) PROVE Removing
  BY <1>10, <1>a, FrameMoves DEF registry, viewVars
<1> QED
  BY <1>1, <1>2, <1>3, <1>4, <1>5, <1>6, <1>7, <1>8, <1>9, <1>10 DEF Next, Continue, Reads

\* Every step keeps what is due to a dispatch in its view, or excused.
LEMMA DeliveryStep ==
    Structure /\ Structure' /\ Listing /\ Delivery /\ [Next]_vars => Delivery'
<1> SUFFICES ASSUME Structure, Structure', Listing, Delivery, [Next]_vars,
                    NEW u \in Threads, NEW i \in 1..Len(disp'[u])
             PROVE  FrameDue(disp[u][i])'
  BY DEF Delivery
<1>1. FramesCome /\ Appending /\ Removing
  BY StepsOfFrames, StepsAppend, StepsRemove
<1>2. PICK f \in DispatchFrame : f = disp'[u][i]
  BY FramesTyped
<1>3. SUFFICES FrameDue(f)'
  BY <1>2
<1>a. ASSUME i \in 1..Len(disp[u])
      PROVE  \E g \in DispatchFrame :
                /\ g = disp[u][i] /\ FrameDue(g)
                /\ g.op \in {"protect", "recheck", "run", "call", "throw"} =>
                    g.view \in 1..Len(views)
  <2>1. PICK g \in DispatchFrame : g = disp[u][i] /\ FrameOK(u, g)
    BY <1>a, FramesTyped
  <2>2. FrameDue(g)
    BY <1>a, <2>1 DEF Delivery
  <2> QED
    BY <2>1, <2>2 DEF FrameOK
<1>b. ASSUME UNCHANGED <<registry, viewVars, edit>>
      PROVE  FrameDue(f)' <=> FrameDue(f)
  BY <1>b DEF FrameDue, Listed, Contents, registry, viewVars
<1>4. CASE i \in 1..Len(disp[u]) /\ disp'[u][i] = disp[u][i]
  <2>1. /\ FrameDue(f)
        /\ f.op \in {"protect", "recheck", "run", "call", "throw"} => f.view \in 1..Len(views)
    BY <1>2, <1>4, <1>a
  <2>2. f.view \in 1..Len(views) => Contents(f.view)' = Contents(f.view)
    <3>1. f.view \in 1..Len(views) => f.view # 0 /\ views'[f.view] = views[f.view]
      BY <1>1 DEF Appending
    <3> QED
      BY <3>1 DEF Contents
  <2>3. removed \cap Listed = {}
    BY DEF Listing, Lists
  <2>4. /\ f.due \subseteq Listed' \union removed'
        /\ f.due \ removed' \subseteq Contents(cur)'
        /\ f.gone \subseteq removed' /\ f.gone \cap Contents(cur)' = {}
    BY <1>1, <2>1, <2>3 DEF Removing, FrameDue
  <2>5. f.op \in {"protect", "recheck", "run", "call", "throw"} =>
            f.due \ removed' \subseteq Contents(f.view)' /\ f.gone \cap Contents(f.view)' = {}
    BY <1>1, <2>1, <2>2 DEF Removing, FrameDue
  <2> QED
    BY <2>4, <2>5 DEF FrameDue
<1>5. CASE /\ i \in 1..Len(disp[u]) /\ Moves(disp[u][i], disp'[u][i])
           /\ UNCHANGED <<registry, viewVars, edit>>
  <2>1. PICK g \in DispatchFrame :
            /\ g = disp[u][i] /\ FrameDue(g)
            /\ g.op \in {"protect", "recheck", "run", "call", "throw"} => g.view \in 1..Len(views)
    BY <1>5, <1>a
  <2>2. Moves(g, f)
    BY <1>2, <1>5, <2>1
  <2>3. f.due = g.due /\ f.gone = g.gone
    BY <2>2 DEF Moves
  <2>4. f.op \in {"protect", "recheck", "run", "call", "throw"} =>
            \/ f.view = cur
            \/ g.op \in {"protect", "recheck", "run", "call", "throw"} /\ f.view = g.view
    BY <2>2 DEF Moves
  <2>5. FrameDue(f)
    BY <2>1, <2>3, <2>4 DEF FrameDue
  <2> QED
    BY <1>5, <1>b, <2>5
<1>6. CASE /\ f.op \in Early /\ f.op \notin {"protect", "recheck"}
           /\ f.due = Contents(cur) /\ f.gone = Gone /\ context \in {"starting", "started"}
           /\ UNCHANGED <<registry, viewVars, edit>>
  <2>1. Contents(cur) \subseteq Listed \union removed
    BY DEF Listing, Published
  <2>2. Gone \subseteq removed /\ Gone \cap Contents(cur) = {}
    <3>1. \A l \in Gone : l \in removed /\ \A t \in Threads : edit[t].lis # l
      BY DEF Gone
    <3>2. context # "stopped"
      BY <1>6
    <3>3. \A l \in removed \cap Contents(cur) :
            \E t \in Threads : edit[t].op = "publish" /\ edit[t].lis = l
      BY <3>2 DEF Listing, Published
    <3> QED
      BY <3>1, <3>3
  <2>3. FrameDue(f)
    BY <1>6, <2>1, <2>2 DEF FrameDue, Early
  <2> QED
    BY <1>6, <1>b, <2>3
<1> QED
  BY <1>1, <1>2, <1>4, <1>5, <1>6 DEF FramesCome

\* Nothing is due in an empty store.
LEMMA DeliveryInit == Init => Delivery
BY DEF Init, Delivery

\* What is due to a dispatch is always in its view, or excused.
LEMMA DeliveryHolds == Spec => []Delivery
BY StructureHolds, ListingHolds, DeliveryInit, DeliveryStep, PTL DEF Spec

\* An event that ran to its end was heard by every listener of its scope that
\* was registered before it and not removed since, and by none whose remove() had
\* found it and returned before it (dispatch() against rebuildView_ and clear()).
THEOREM EventsDelivered == Spec => []Delivered
<1>1. Structure /\ Hearing /\ Delivery => Delivered
  <2> SUFFICES ASSUME Structure, Hearing, Delivery, NEW t \in Threads, NEW i \in 1..Len(disp[t]),
                      NEW f, f = disp[t][i]
               PROVE  /\ Heard(f) \cap f.gone = {}
                      /\ f.op = "run" /\ f.pos > Len(views[f.view])
                            => Matching(f.due, f.scope) \ removed \subseteq Heard(f)
                      /\ f.op \in {"load", "recheck"} /\ cur = 0 => f.due \subseteq removed
    BY DEF Delivered
  <2>1. f \in DispatchFrame /\ FrameOK(t, f) /\ FrameHears(f) /\ FrameDue(f)
    BY DEF Structure, TypeOK, FramesOK, Hearing, Delivery
  <2>2. f.op \in {"load", "recheck"} /\ cur = 0 => f.due \subseteq removed
    BY <2>1 DEF FrameDue, Contents
  <2>3. CASE f.op \in Early
    <3>1. Len(f.heard) = 0 /\ f.op # "run"
      BY <2>1, <2>3 DEF FrameHears, Early
    <3>2. Heard(f) = {}
      BY <3>1 DEF Heard
    <3> QED
      BY <2>2, <3>1, <3>2
  <2>4. CASE f.op \notin Early
    <3>1. f.op \in {"run", "call", "throw"} /\ f.view \in 1..Len(views) /\ f.pos \in Nat
      BY <2>1, <2>4 DEF DispatchFrame, Early, FrameOK
    <3>2. /\ f.due \ removed \subseteq Contents(f.view) /\ f.gone \cap Contents(f.view) = {}
      BY <2>1, <3>1 DEF FrameDue
    <3>3. /\ Last(f) <= Len(views[f.view])
          /\ \A n \in 1..Len(f.heard) : \E p \in 1..Last(f) : f.heard[n] = views[f.view][p]
          /\ \A p \in 1..Last(f) : Matches(views[f.view][p], f) => views[f.view][p] \in Heard(f)
      BY <2>1, <2>4 DEF FrameHears
    <3>4. Len(views[f.view]) \in Nat /\ Last(f) \in Int
      BY <3>1, ListTypes DEF Last
    <3>5. \A x : x \in Contents(f.view) <=> \E p \in 1..Len(views[f.view]) : x = views[f.view][p]
      <4>1. Contents(f.view) = Elements(views[f.view])
        BY <3>1, ListTypes
      <4> QED
        BY <4>1 DEF Elements
    <3>6. Heard(f) \subseteq Contents(f.view)
      <4>1. \A p \in 1..Last(f) : p \in 1..Len(views[f.view])
        BY <3>3, <3>4
      <4>2. \A n \in 1..Len(f.heard) : f.heard[n] \in Contents(f.view)
        BY <3>3, <3>5, <4>1
      <4> QED
        BY <4>2 DEF Heard
    <3>7. ASSUME f.op = "run", f.pos > Len(views[f.view])
          PROVE  Matching(f.due, f.scope) \ removed \subseteq Heard(f)
      <4>1. \A p \in 1..Len(views[f.view]) : p \in 1..Last(f)
        BY <3>1, <3>4, <3>7 DEF Last
      <4> QED
        BY <3>2, <3>3, <3>5, <4>1 DEF Matching, Matches
    <3> QED
      BY <2>2, <3>2, <3>6, <3>7
  <2> QED
    BY <2>3, <2>4
<1> QED
  BY <1>1, StructureHolds, HearingHolds, DeliveryHolds, PTL
=============================================================================
