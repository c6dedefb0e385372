------------------------ MODULE PrototypeStoreProofs ------------------------
(***************************************************************************)
(* PrototypeStore, second part of the proofs: instances and their slots,   *)
(* the freelist, the live-slot count and the end of the store; then the    *)
(* theorems.                                                               *)
(*                                                                         *)
(* Only the freelist needs OneAllocator.  A pop in progress remembers the  *)
(* head and its link; when another thread pops meanwhile, the slot may     *)
(* come back to the head with another link, and the compare-and-swap puts  *)
(* a slot that is in use on the freelist (the freelist_aba run).  Pushes   *)
(* of other threads do no harm: they change the head, but not what is      *)
(* below a slot that stays on the list.                                    *)
(***************************************************************************)
EXTENDS PrototypeCallProofs, WellFoundedInduction

-----------------------------------------------------------------------------
(* Every instance has at most one call that makes it, and its slot.        *)

\* What Ids says of a call f, of the calls, and of the instance that a call keeps
\* for the bean it will hold.
Made(f) ==
    Making(f) => /\ Unheld(f.inst)
                 /\ f.slot = None => Untouched(f.inst)
                 /\ f.slot # None => slotOf[f.inst] = f.slot
                 /\ f.slot # None /\ f.op \notin PushOps => memory[f.slot] = f.inst
OneMaker ==
    \A t, u \in Threads : \A j \in 1..Len(frames[t]) : \A k \in 1..Len(frames[u]) :
        Making(frames[t][j]) /\ Making(frames[u][k]) /\ frames[u][k].inst = frames[t][j].inst => u = t /\ k = j
Spared(f) ==
    Reserve(f) => /\ Untouched(f.inst + 1)
                  /\ \A u \in Threads : \A k \in 1..Len(frames[u]) : Making(frames[u][k]) =>
                         frames[u][k].inst # f.inst + 1
Ready(f) == f.op = "construct" => member[f.inst] = None
Unused == \A i \in Insts : i > insts => Untouched(i)

\* Ids, call by call, before and after a step;
LEMMA MadeIs ==
    /\ (\A t \in Threads : \A j \in 1..Len(frames[t]) : IdsOf(t, j)) <=>
        ((\A t \in Threads : \A j \in 1..Len(frames[t]) : \A f : f = frames[t][j] => Made(f)) /\ OneMaker)
    /\ (\A t \in Threads : \A j \in 1..Len(frames[t]) : IdsOf(t, j))' <=>
        ((\A t \in Threads : \A j \in 1..Len(frames'[t]) : \A f : f = frames'[t][j] => Made(f)') /\ OneMaker')
<1>1. (\A t \in Threads : \A j \in 1..Len(frames[t]) : IdsOf(t, j)) <=>
        ((\A t \in Threads : \A j \in 1..Len(frames[t]) : \A f : f = frames[t][j] => Made(f)) /\ OneMaker)
  BY DEF IdsOf, Made, OneMaker
<1>2. (\A t \in Threads : \A j \in 1..Len(frames[t]) : IdsOf(t, j))' <=>
        ((\A t \in Threads : \A j \in 1..Len(frames'[t]) : \A f : f = frames'[t][j] => Made(f)') /\ OneMaker')
  BY DEF IdsOf, Made, OneMaker, Unheld, Untouched, Making
<1> QED
  BY <1>1, <1>2

\* the same for what is reserved and who waits.
LEMMA SparedIs ==
    /\ \A t \in Threads : ReservedOf(t) <=> (frames[t] # <<>> => \A f : f = frames[t][Len(frames[t])] => Spared(f))
    /\ \A t \in Threads : ReservedOf(t)' <=>
           (frames'[t] # <<>> => \A f : f = frames'[t][Len(frames'[t])] => Spared(f)')
    /\ \A t \in Threads : Waiting(t) <=> \A j \in 1..(Len(frames[t]) - 1) : \A f : f = frames[t][j] => Ready(f)
    /\ \A t \in Threads : Waiting(t)' <=> \A j \in 1..(Len(frames'[t]) - 1) : \A f : f = frames'[t][j] => Ready(f)'
<1>1. \A t \in Threads : ReservedOf(t) <=> (frames[t] # <<>> => \A f : f = frames[t][Len(frames[t])] => Spared(f))
  BY DEF ReservedOf, Spared, Top
<1>2. \A t \in Threads : ReservedOf(t)' <=>
        (frames'[t] # <<>> => \A f : f = frames'[t][Len(frames'[t])] => Spared(f)')
  BY DEF ReservedOf, Spared, Top, Reserve, Making, Untouched, Unheld
<1>3. \A t \in Threads : Waiting(t) <=> \A j \in 1..(Len(frames[t]) - 1) : \A f : f = frames[t][j] => Ready(f)
  BY DEF Waiting, Ready
<1>4. \A t \in Threads : Waiting(t)' <=> \A j \in 1..(Len(frames'[t]) - 1) : \A f : f = frames'[t][j] => Ready(f)'
  BY DEF Waiting, Ready
<1> QED
  BY <1>1, <1>2, <1>3, <1>4

\* Ids, by its parts.
LEMMA IdsParts ==
    ASSUME Ids
    PROVE  /\ \A t \in Threads : \A j \in 1..Len(frames[t]) : \A f : f = frames[t][j] => Made(f)
           /\ OneMaker
           /\ \A t \in Threads : frames[t] # <<>> => \A f : f = frames[t][Len(frames[t])] => Spared(f)
           /\ \A t \in Threads : \A j \in 1..(Len(frames[t]) - 1) : \A f : f = frames[t][j] => Ready(f)
           /\ Unused /\ Stored /\ Tenants /\ DestroyedOnce
<1>1. \A t \in Threads : \A j \in 1..Len(frames[t]) : IdsOf(t, j)
  BY DEF Ids
<1>2. (\A t \in Threads : \A j \in 1..Len(frames[t]) : \A f : f = frames[t][j] => Made(f)) /\ OneMaker
  BY <1>1, MadeIs
<1>3. \A t \in Threads : ReservedOf(t) /\ Waiting(t)
  BY DEF Ids
<1>4. /\ \A t \in Threads : frames[t] # <<>> => \A f : f = frames[t][Len(frames[t])] => Spared(f)
      /\ \A t \in Threads : \A j \in 1..(Len(frames[t]) - 1) : \A f : f = frames[t][j] => Ready(f)
  BY <1>3, SparedIs
<1>5. Unused /\ Stored /\ Tenants /\ DestroyedOnce
  BY DEF Ids, Unused
<1> QED
  BY <1>2, <1>4, <1>5

\* Ids after a step, from the same parts.
LEMMA IdsFromParts ==
    ASSUME \A t \in Threads : \A j \in 1..Len(frames'[t]) : \A f : f = frames'[t][j] => Made(f)',
           OneMaker',
           \A t \in Threads : frames'[t] # <<>> => \A f : f = frames'[t][Len(frames'[t])] => Spared(f)',
           \A t \in Threads : \A j \in 1..(Len(frames'[t]) - 1) : \A f : f = frames'[t][j] => Ready(f)',
           Unused', Stored', Tenants', DestroyedOnce'
    PROVE  Ids'
<1>1. (\A t \in Threads : \A j \in 1..Len(frames[t]) : IdsOf(t, j))'
  BY MadeIs
<1>2. (\A t \in Threads : ReservedOf(t) /\ Waiting(t))'
  BY SparedIs
<1>3. (\A i \in Insts : i > insts => Untouched(i))'
  BY DEF Unused
<1> QED
  BY <1>1, <1>2, <1>3 DEF Ids

\* The calls after a step that made an instance before it.
Follows(f, g) == g.inst = f.inst /\ g.slot = f.slot /\ (g.op \notin PushOps => f.op \notin PushOps)
MakersFollow ==
    \A u \in Threads : \A k \in 1..Len(frames'[u]) : Making(frames'[u][k]) =>
        k \in 1..Len(frames[u]) /\ Making(frames[u][k]) /\ Follows(frames[u][k], frames'[u][k])
WaitersFollow ==
    \A u \in Threads : \A j \in 1..(Len(frames'[u]) - 1) : frames'[u][j].op = "construct" =>
        j \in 1..(Len(frames[u]) - 1) /\ frames'[u][j] = frames[u][j]
ReservesFollow ==
    \A u \in Threads : frames'[u] # <<>> => \A g : g = frames'[u][Len(frames'[u])] /\ Reserve(g)' =>
        frames[u] # <<>> /\ Reserve(Top(u)) /\ g.inst = Top(u).inst

\* A step that starts to make no instance and gives no slot; x is the instance
\* whose call ends with the step, if one does.
LEMMA IdsFollow ==
    ASSUME Shape, Shape', Ids, MakersFollow, WaitersFollow, ReservesFollow, NEW x,
           slotOf' = slotOf, insts' = insts,
           \A i \in Insts : i # x /\ Unheld(i) => Unheld(i)',
           \A i \in Insts : i # x /\ Untouched(i) => Untouched(i)',
           x = None \/ \E t \in Threads : frames[t] # <<>> /\ Making(Top(t)) /\ Top(t).inst = x
                                           /\ Len(frames'[t]) = Len(frames[t]) - 1,
           \A u \in Threads : \A k \in 1..Len(frames'[u]) :
               Making(frames'[u][k]) /\ frames'[u][k].slot # None /\ frames'[u][k].op \notin PushOps =>
                   memory'[frames'[u][k].slot] = memory[frames'[u][k].slot],
           \A u \in Threads : \A j \in 1..(Len(frames'[u]) - 1) :
               frames'[u][j].op = "construct" /\ member[frames'[u][j].inst] = None =>
                 member'[frames'[u][j].inst] = None,
           Stored', Tenants', DestroyedOnce'
    PROVE  Ids'
<1>1. /\ \A t \in Threads : \A j \in 1..Len(frames[t]) : \A f : f = frames[t][j] => Made(f)
      /\ OneMaker
      /\ \A t \in Threads : frames[t] # <<>> => \A f : f = frames[t][Len(frames[t])] => Spared(f)
      /\ \A t \in Threads : \A j \in 1..(Len(frames[t]) - 1) : \A f : f = frames[t][j] => Ready(f)
      /\ Unused
  BY IdsParts
<1>2. FramesType /\ FramesType' /\ insts \in 0..MaxInst /\ MaxInst \in Nat /\ None \notin Insts /\ None \notin Nat
  BY StoreConstants DEF Shape, Types, FramesType, Insts
<1>3. \A u \in Threads : \A k \in 1..Len(frames[u]) : Making(frames[u][k]) =>
        frames[u][k].inst \in Insts /\ frames[u][k].inst <= insts /\
          (frames[u][k].kind \in Holder => frames[u][k].inst + 1 \in Insts)
  <2> TAKE u \in Threads
  <2> TAKE k \in 1..Len(frames[u])
  <2> HAVE Making(frames[u][k])
  <2>1. MakingOK(frames[u][k])
    BY DEF Shape, ShapeOf, FrameOK
  <2>2. PICK i : i = frames[u][k].inst
    OBVIOUS
  <2>3. i \in Nat /\ 1 <= i /\ i <= insts /\ (frames[u][k].kind \in Holder => i + 1 <= insts)
    BY <2>1, <2>2 DEF MakingOK
  <2> QED
    BY <1>2, <2>2, <2>3 DEF Insts
<1>4. \A u \in Threads : \A k \in 1..Len(frames'[u]) : Making(frames'[u][k]) => frames'[u][k].inst # x
  <2> TAKE u \in Threads
  <2> TAKE k \in 1..Len(frames'[u])
  <2> HAVE Making(frames'[u][k])
  <2>1. k \in 1..Len(frames[u]) /\ Making(frames[u][k]) /\ frames'[u][k].inst = frames[u][k].inst
    BY DEF MakersFollow, Follows
  <2>2. CASE x = None
    BY <1>2, <1>3, <2>1, <2>2
  <2>3. ASSUME NEW t \in Threads, frames[t] # <<>>, Making(Top(t)), Top(t).inst = x,
               Len(frames'[t]) = Len(frames[t]) - 1
        PROVE  frames'[u][k].inst # x
    <3>1. Len(frames[t]) \in 1..Len(frames[t]) /\ Top(t) = frames[t][Len(frames[t])] /\ Len(frames[t]) \in Nat
      BY <1>2, <2>3, FrameFacts
    <3>2. u = t => k # Len(frames[t])
      BY <2>3, <3>1
    <3> QED
      BY <1>1, <2>1, <2>3, <3>1, <3>2 DEF OneMaker
  <2> QED
    BY <2>2, <2>3
<1>5. ASSUME NEW t \in Threads, NEW j \in 1..Len(frames'[t]), NEW g, g = frames'[t][j]
      PROVE  Made(g)'
  <2>1. SUFFICES ASSUME Making(g)
        PROVE  /\ Unheld(g.inst)' /\ (g.slot = None => Untouched(g.inst)')
               /\ g.slot # None => slotOf'[g.inst] = g.slot
               /\ g.slot # None /\ g.op \notin PushOps => memory'[g.slot] = g.inst
    BY DEF Made, Making
  <2>2. PICK f : f = frames[t][j]
    OBVIOUS
  <2>3. j \in 1..Len(frames[t]) /\ Making(f) /\ Follows(f, g)
    BY <1>5, <2>1, <2>2 DEF MakersFollow
  <2>4. Made(f) /\ g.inst \in Insts /\ g.inst # x
    BY <1>1, <1>3, <1>4, <1>5, <2>1, <2>2, <2>3 DEF Follows
  <2>5. PICK i \in Insts : i = g.inst
    BY <2>4
  <2>6. Unheld(i) /\ i # x /\ (g.slot = None => Untouched(i)) /\ (g.slot # None => slotOf[i] = g.slot)
        /\ (g.slot # None /\ g.op \notin PushOps => memory[g.slot] = i)
    BY <2>3, <2>4, <2>5 DEF Made, Follows
  <2>7. Unheld(i)' /\ (g.slot = None => Untouched(i)')
    BY <2>6
  <2>8. g.slot # None /\ g.op \notin PushOps => memory'[g.slot] = memory[g.slot]
    BY <1>5, <2>1
  <2> QED
    BY <2>5, <2>6, <2>7, <2>8
<1>6. OneMaker'
  <2> SUFFICES ASSUME NEW t \in Threads, NEW u \in Threads, NEW j \in 1..Len(frames'[t]),
        NEW k \in 1..Len(frames'[u]),
                      Making(frames'[t][j]), Making(frames'[u][k]), frames'[u][k].inst = frames'[t][j].inst
               PROVE  u = t /\ k = j
    BY DEF OneMaker, Making
  <2>1. /\ j \in 1..Len(frames[t]) /\ Making(frames[t][j]) /\ frames'[t][j].inst = frames[t][j].inst
        /\ k \in 1..Len(frames[u]) /\ Making(frames[u][k]) /\ frames'[u][k].inst = frames[u][k].inst
    BY DEF MakersFollow, Follows
  <2> QED
    BY <1>1, <2>1 DEF OneMaker
<1>7. ASSUME NEW t \in Threads, frames'[t] # <<>>, NEW g, g = frames'[t][Len(frames'[t])]
      PROVE  Spared(g)'
  <2> SUFFICES ASSUME Reserve(g)'
               PROVE  /\ Untouched(g.inst + 1)'
                      /\ \A u \in Threads : \A k \in 1..Len(frames'[u]) : Making(frames'[u][k]) =>
                             frames'[u][k].inst # g.inst + 1
    BY DEF Spared, Making
  <2>1. frames[t] # <<>> /\ Reserve(Top(t)) /\ g.inst = Top(t).inst
    BY <1>7 DEF ReservesFollow
  <2>2. Len(frames[t]) \in 1..Len(frames[t]) /\ Top(t) = frames[t][Len(frames[t])] /\ Making(Top(t)) /\
          Top(t).kind \in Holder
    BY <1>2, <2>1, FrameFacts DEF Reserve
  <2>3. Spared(Top(t)) /\ Top(t).inst + 1 \in Insts
    BY <1>1, <1>3, <2>1, <2>2
  <2>4. PICK i \in Insts : i = g.inst + 1
    BY <2>1, <2>3
  <2>5. Untouched(i) /\ \A u \in Threads : \A k \in 1..Len(frames[u]) : Making(frames[u][k]) =>
          frames[u][k].inst # i
    BY <2>1, <2>3, <2>4 DEF Spared
  <2>6. i # x
    <3>1. ASSUME NEW u \in Threads, frames[u] # <<>>, Making(Top(u)), Top(u).inst = x PROVE i # x
      <4>1. Len(frames[u]) \in 1..Len(frames[u]) /\ Top(u) = frames[u][Len(frames[u])]
        BY <1>2, <3>1, FrameFacts
      <4> QED
        BY <2>5, <3>1, <4>1
    <3> QED
      BY <1>2, <3>1
  <2>7. Untouched(i)'
    BY <2>5, <2>6
  <2>8. \A u \in Threads : \A k \in 1..Len(frames'[u]) : Making(frames'[u][k]) => frames'[u][k].inst # i
    BY <2>5 DEF MakersFollow, Follows
  <2> QED
    BY <2>4, <2>7, <2>8
<1>8. ASSUME NEW t \in Threads, NEW j \in 1..(Len(frames'[t]) - 1), NEW g, g = frames'[t][j]
      PROVE  Ready(g)'
  <2> SUFFICES ASSUME g.op = "construct" PROVE member'[g.inst] = None
    BY DEF Ready
  <2>1. j \in 1..(Len(frames[t]) - 1) /\ g = frames[t][j]
    BY <1>8 DEF WaitersFollow
  <2>2. member[g.inst] = None
    BY <1>1, <2>1 DEF Ready
  <2> QED
    BY <1>8, <2>2
<1>9. Unused'
  <2> SUFFICES ASSUME NEW i \in Insts, i > insts PROVE Untouched(i)'
    BY DEF Unused
  <2>1. Untouched(i)
    BY <1>1 DEF Unused
  <2>2. i # x
    <3>1. ASSUME NEW u \in Threads, frames[u] # <<>>, Making(Top(u)), Top(u).inst = x PROVE i # x
      <4>1. Len(frames[u]) \in 1..Len(frames[u]) /\ Top(u) = frames[u][Len(frames[u])]
        BY <1>2, <3>1, FrameFacts
      <4>2. x \in Insts /\ x <= insts
        BY <1>3, <3>1, <4>1
      <4> QED
        BY <1>2, <4>2 DEF Insts
    <3> QED
      BY <1>2, <3>1
  <2> QED
    BY <2>1, <2>2
<1> QED
  BY <1>5, <1>6, <1>7, <1>8, <1>9, IdsFromParts

\* Which calls follow which, by what a step does to the calls.
LEMMA FollowReplaced ==
    ASSUME FramesType, FramesType', NEW t \in Threads, NEW f, Replaced(t, f), frames[t] # <<>>,
           Making(f) => Making(Top(t)) /\ Follows(Top(t), f)
    PROVE  MakersFollow /\ WaitersFollow
<1>1. Len(frames[t]) \in 1..Len(frames[t]) /\ Top(t) = frames[t][Len(frames[t])] /\ Len(frames[t]) \in Nat
  BY FrameFacts
<1>2. MakersFollow
  <2> SUFFICES ASSUME NEW u \in Threads, NEW k \in 1..Len(frames'[u]), Making(frames'[u][k])
               PROVE  k \in 1..Len(frames[u]) /\ Making(frames[u][k]) /\ Follows(frames[u][k], frames'[u][k])
    BY DEF MakersFollow
  <2>1. CASE u # t
    BY <2>1 DEF Replaced, Rest, Follows
  <2>2. CASE u = t /\ k # Len(frames[t])
    BY <2>2 DEF Replaced, Follows
  <2>3. CASE u = t /\ k = Len(frames[t])
    BY <1>1, <2>3 DEF Replaced
  <2> QED
    BY <2>1, <2>2, <2>3
<1>3. WaitersFollow
  <2> SUFFICES ASSUME NEW u \in Threads, NEW j \in 1..(Len(frames'[u]) - 1)
               PROVE  j \in 1..(Len(frames[u]) - 1) /\ frames'[u][j] = frames[u][j]
    BY DEF WaitersFollow
  <2>1. CASE u # t
    BY <2>1 DEF Replaced, Rest
  <2>2. CASE u = t
    <3>1. j \in 1..Len(frames[t]) /\ j # Len(frames[t]) /\ j \in 1..(Len(frames[t]) - 1)
      BY <1>1, <2>2 DEF Replaced
    <3> QED
      BY <2>2, <3>1 DEF Replaced
  <2> QED
    BY <2>1, <2>2
<1> QED
  BY <1>2, <1>3

\* The same when the innermost call calls one that makes nothing,
LEMMA FollowPushed ==
    ASSUME FramesType, FramesType', NEW t \in Threads, NEW f, NEW g, Pushed(t, f, g), frames[t] # <<>>,
           Making(f) => Making(Top(t)) /\ Follows(Top(t), f), ~Making(g), f.op # "construct"
    PROVE  MakersFollow /\ WaitersFollow
<1>1. Len(frames[t]) \in 1..Len(frames[t]) /\ Top(t) = frames[t][Len(frames[t])] /\ Len(frames[t]) \in Nat
  BY FrameFacts
<1>2. MakersFollow
  <2> SUFFICES ASSUME NEW u \in Threads, NEW k \in 1..Len(frames'[u]), Making(frames'[u][k])
               PROVE  k \in 1..Len(frames[u]) /\ Making(frames[u][k]) /\ Follows(frames[u][k], frames'[u][k])
    BY DEF MakersFollow
  <2>1. CASE u # t
    BY <2>1 DEF Pushed, Rest, Follows
  <2>2. CASE u = t
    <3>1. k # Len(frames[t]) + 1
      BY <2>2 DEF Pushed
    <3>2. k \in 1..Len(frames[t])
      BY <1>1, <2>2, <3>1 DEF Pushed
    <3>3. CASE k # Len(frames[t])
      BY <2>2, <3>2, <3>3 DEF Pushed, Follows
    <3>4. CASE k = Len(frames[t])
      BY <1>1, <2>2, <3>2, <3>4 DEF Pushed
    <3> QED
      BY <3>3, <3>4
  <2> QED
    BY <2>1, <2>2
<1>3. WaitersFollow
  <2> SUFFICES ASSUME NEW u \in Threads, NEW j \in 1..(Len(frames'[u]) - 1), frames'[u][j].op = "construct"
               PROVE  j \in 1..(Len(frames[u]) - 1) /\ frames'[u][j] = frames[u][j]
    BY DEF WaitersFollow
  <2>1. CASE u # t
    BY <2>1 DEF Pushed, Rest
  <2>2. CASE u = t
    <3>0. j # Len(frames[t])
      BY <2>2 DEF Pushed
    <3>1. j \in 1..Len(frames[t]) /\ j \in 1..(Len(frames[t]) - 1)
      BY <1>1, <2>2, <3>0 DEF Pushed
    <3> QED
      BY <2>2, <3>0, <3>1 DEF Pushed
  <2> QED
    BY <2>1, <2>2
<1> QED
  BY <1>2, <1>3

\* when it returns,
LEMMA FollowPopped ==
    ASSUME FramesType, FramesType', NEW t \in Threads, Popped(t), frames[t] # <<>>
    PROVE  MakersFollow /\ WaitersFollow
<1>1. Len(frames[t]) \in 1..Len(frames[t]) /\ Len(frames[t]) \in Nat
  BY FrameFacts
<1>2. \A u \in Threads : \A k \in 1..Len(frames'[u]) : k \in 1..Len(frames[u]) /\ frames'[u][k] = frames[u][k]
  <2> TAKE u \in Threads
  <2> TAKE k \in 1..Len(frames'[u])
  <2>1. CASE u # t
    BY <2>1 DEF Popped, Rest
  <2>2. CASE u = t
    BY <1>1, <2>2 DEF Popped
  <2> QED
    BY <2>1, <2>2
<1>3. MakersFollow
  BY <1>2 DEF MakersFollow, Follows
<1>4. \A u \in Threads : \A j \in 1..(Len(frames'[u]) - 1) : j \in 1..(Len(frames[u]) - 1) /\
        j \in 1..Len(frames'[u])
  <2> TAKE u \in Threads
  <2>1. Len(frames[u]) \in Nat /\ Len(frames'[u]) \in Nat
    BY FrameFacts DEF FramesType
  <2>2. Len(frames'[u]) <= Len(frames[u])
    BY <2>1 DEF Popped, Rest
  <2> QED
    BY <2>1, <2>2
<1> QED
  BY <1>2, <1>3, <1>4 DEF WaitersFollow

\* when it throws,
LEMMA FollowThrown ==
    ASSUME Shape, NEW t \in Threads, Thrown(t)
    PROVE  MakersFollow /\ WaitersFollow
<1>0. FramesType /\ FramesType' /\ frames[t] # <<>> /\ Raised(t) /\ Making(Top(t))
  BY DEF Thrown, Shape, Types, FramesType
<1>1. Len(frames[t]) \in 1..Len(frames[t]) /\ Len(frames[t]) \in Nat
  BY <1>0, FrameFacts
<1>2. \A u \in Threads : Len(frames[u]) \in Nat /\ Len(frames'[u]) \in Nat /\ Len(frames'[u]) <= Len(frames[u])
  <2> TAKE u \in Threads
  <2>1. Len(frames[u]) \in Nat /\ Len(frames'[u]) \in Nat
    BY <1>0, FrameFacts DEF FramesType
  <2> QED
    BY <1>0, <2>1 DEF Raised, Rest
<1>3. \A u \in Threads : \A k \in 1..Len(frames'[u]) : k \in 1..Len(frames[u])
  BY <1>2
<1>4. \A u \in Threads : \A k \in 1..Len(frames'[u]) : ~(u = t /\ k = Len(frames'[t])) =>
        frames'[u][k] = frames[u][k]
  BY <1>0 DEF Raised, Rest
<1>5. MakersFollow
  <2> SUFFICES ASSUME NEW u \in Threads, NEW k \in 1..Len(frames'[u]), Making(frames'[u][k])
               PROVE  k \in 1..Len(frames[u]) /\ Making(frames[u][k]) /\ Follows(frames[u][k], frames'[u][k])
    BY DEF MakersFollow
  <2>1. CASE ~(u = t /\ k = Len(frames'[t]))
    BY <1>3, <1>4, <2>1 DEF Follows
  <2>2. CASE u = t /\ k = Len(frames'[t])
    <3>1. Len(frames[t]) # 1 /\ k = Len(frames[t]) - 1
      <4>1. k \in 1..Len(frames'[t]) /\ Len(frames'[t]) = Len(frames[t]) - 1
        BY <1>0, <2>2 DEF Raised
      <4> QED
        <5>1. PICK m : m \in Nat /\ m = Len(frames[t])
          BY <1>1
        <5>2. k \in 1..(m - 1) /\ k = m - 1
          BY <2>2, <4>1, <5>1
        <5>3. m \in Nat /\ 1 <= k /\ k = m - 1
          BY <5>1, <5>2
        <5>4. m # 1
          BY <5>3
        <5> QED
          BY <5>1, <5>2, <5>4
    <3>2. PICK g : g = frames[t][Len(frames[t]) - 1]
      OBVIOUS
    <3>3. /\ g.op = "construct" /\ Making(g) /\ Unwound(g).op = "unwind" /\ Unwound(g).inst = g.inst /\
                 Unwound(g).slot = g.slot
      BY <1>0, <3>1, <3>2, BelowThrown
    <3>4. frames'[t][k] = Unwound(g) /\ frames[t][k] = g
      BY <1>0, <3>1, <3>2 DEF Raised
    <3> QED
      BY <1>3, <2>2, <3>3, <3>4 DEF Follows, PushOps
  <2> QED
    BY <2>1, <2>2
<1>6. WaitersFollow
  <2> SUFFICES ASSUME NEW u \in Threads, NEW j \in 1..(Len(frames'[u]) - 1)
               PROVE  j \in 1..(Len(frames[u]) - 1) /\ frames'[u][j] = frames[u][j]
    BY DEF WaitersFollow
  <2>1. j \in 1..(Len(frames[u]) - 1) /\ j \in 1..Len(frames'[u]) /\ j # Len(frames'[u])
    BY <1>2
  <2> QED
    BY <1>4, <2>1
<1> QED
  BY <1>5, <1>6

\* and when a call that makes nothing is the first.
LEMMA FollowBegun ==
    ASSUME FramesType, FramesType', NEW t \in Threads, NEW g, Begun(t, g), ~Making(g)
    PROVE  MakersFollow /\ WaitersFollow
<1>1. MakersFollow
  <2> SUFFICES ASSUME NEW u \in Threads, NEW k \in 1..Len(frames'[u]), Making(frames'[u][k])
               PROVE  k \in 1..Len(frames[u]) /\ Making(frames[u][k]) /\ Follows(frames[u][k], frames'[u][k])
    BY DEF MakersFollow
  <2>1. u # t
    BY DEF Begun
  <2> QED
    BY <2>1 DEF Begun, Rest, Follows
<1>2. WaitersFollow
  <2> SUFFICES ASSUME NEW u \in Threads, NEW j \in 1..(Len(frames'[u]) - 1)
               PROVE  j \in 1..(Len(frames[u]) - 1) /\ frames'[u][j] = frames[u][j]
    BY DEF WaitersFollow
  <2>1. CASE u = t
    <3>1. Len(frames'[t]) = 1
      BY DEF Begun
    <3>2. FALSE
      BY <2>1, <3>1
    <3> QED
      BY <3>2
  <2>2. CASE u # t
    BY <2>2 DEF Begun, Rest
  <2> QED
    BY <2>1, <2>2
<1> QED
  BY <1>1, <1>2

\* The innermost call of a thread keeps its reserve if the instance still holds
\* nothing.
LEMMA ReservesKept ==
    ASSUME Shape, FramesType', NEW t \in Threads, Rest(t),
           \A u \in Threads \ {t} : frames[u] # <<>> /\ Making(Top(u)) /\ member'[Top(u).inst] = None =>
             member[Top(u).inst] = None,
           frames'[t] # <<>> => \A g : g = frames'[t][Len(frames'[t])] /\ Reserve(g)' =>
                                        frames[t] # <<>> /\ Reserve(Top(t)) /\ g.inst = Top(t).inst
    PROVE  ReservesFollow
<1> SUFFICES ASSUME NEW u \in Threads, frames'[u] # <<>>, NEW g, g = frames'[u][Len(frames'[u])], Reserve(g)'
             PROVE  frames[u] # <<>> /\ Reserve(Top(u)) /\ g.inst = Top(u).inst
  BY DEF ReservesFollow
<1>1. CASE u = t
  BY <1>1 DEF Reserve, Making
<1>2. CASE u # t
  <2>1. frames[u] = frames'[u] /\ g = Top(u)
    BY <1>2 DEF Rest, Top
  <2>2. Making(g) /\ g.kind \in Holder /\ g.op \in PopOps \union {"construct"} /\ member'[g.inst] = None
    BY DEF Reserve, Making
  <2> QED
    BY <1>2, <2>1, <2>2 DEF Reserve
<1> QED
  BY <1>1, <1>2

\* Below a call that makes nothing is one that destroys.
LEMMA BelowRelease ==
    ASSUME Shape, NEW t \in Threads, frames[t] # <<>>, ~Making(Top(t)), Len(frames[t]) # 1,
           NEW g, g = frames[t][Len(frames[t]) - 1]
    PROVE  g.op \in {"unwind", "bump", "sweep"}
<1>1. FramesType /\ Len(frames[t]) \in 1..Len(frames[t]) /\ Len(frames[t]) \in Nat /\
        Top(t) = frames[t][Len(frames[t])]
  BY TopFacts, FrameFacts
<1>2. PICK n : n \in 1..(Len(frames[t]) - 1) /\ n = Len(frames[t]) - 1 /\ n + 1 = Len(frames[t])
  <2>0. Len(frames[t]) # 0
    BY <1>1, FrameFacts
  <2>1. PICK m : m \in Nat /\ m = Len(frames[t]) /\ m # 0 /\ m # 1
    BY <1>1, <2>0
  <2>2. m - 1 \in 1..(m - 1) /\ (m - 1) + 1 = m
    <3>1. m \in Nat /\ m # 0 /\ m # 1
      BY <2>1
    <3> QED
      BY <3>1
  <2> QED
    BY <2>1, <2>2
<1>3. Nested(frames[t][n], frames[t][n + 1])
  BY <1>2, NestedBefore
<1> QED
  BY <1>1, <1>2, <1>3 DEF Nested

\* Who is innermost after a step that ends a call, begins a release or throws has
\* no reserve.
LEMMA NoReserve ==
    ASSUME Shape, FramesType', NEW t \in Threads
    PROVE  /\ frames[t] # <<>> /\ Popped(t) /\ ~Making(Top(t)) /\ frames'[t] # <<>> =>
                frames'[t][Len(frames'[t])].op \in {"unwind", "bump", "sweep"}
           /\ Thrown(t) /\ frames'[t] # <<>> => frames'[t][Len(frames'[t])].op = "unwind"
<1>1. FramesType /\ Len(frames[t]) \in Nat
  BY FrameFacts DEF Shape, Types, FramesType
<1>2. frames'[t] = <<>> <=> Len(frames'[t]) = 0
  BY FrameFacts DEF FramesType
<1>4. ASSUME Thrown(t), frames'[t] # <<>> PROVE frames'[t][Len(frames'[t])].op = "unwind"
  <2>1. frames[t] # <<>> /\ Raised(t) /\ Making(Top(t)) /\ Len(frames'[t]) = Len(frames[t]) - 1 /\
          Len(frames[t]) # 1
    BY <1>1, <1>2, <1>4 DEF Thrown, Raised
  <2>2. PICK g : g = frames[t][Len(frames[t]) - 1]
    OBVIOUS
  <2>3. Unwound(g).op = "unwind"
    BY <2>1, <2>2, BelowThrown
  <2> QED
    BY <2>1, <2>2, <2>3 DEF Raised
<1>5. ASSUME frames[t] # <<>>, Popped(t), ~Making(Top(t)), frames'[t] # <<>>
      PROVE  frames'[t][Len(frames'[t])].op \in {"unwind", "bump", "sweep"}
  <2>1. Len(frames'[t]) = Len(frames[t]) - 1 /\ Len(frames[t]) # 1 /\ Len(frames'[t]) # 0 /\ Len(frames'[t]) \in Nat
    <3>1. Len(frames'[t]) \in Nat
      BY FrameFacts DEF FramesType
    <3> QED
      BY <1>1, <1>2, <1>5, <3>1 DEF Popped
  <2>2. Len(frames'[t]) \in 1..Len(frames'[t])
    <3>1. PICK m : m \in Nat /\ m = Len(frames'[t]) /\ m # 0
      BY <2>1
    <3>2. m \in 1..m
      BY <3>1
    <3> QED
      BY <3>1, <3>2
  <2>3. frames'[t][Len(frames'[t])] = frames[t][Len(frames[t]) - 1]
    BY <1>5, <2>1, <2>2 DEF Popped
  <2> QED
    BY <1>5, <2>1, <2>3, BelowRelease
<1> QED
  BY <1>4, <1>5

\* What steps that make no new call for an instance do to the calls.
Moves(t) ==
    \/ \E f : /\ frames[t] # <<>> /\ Replaced(t, f) /\ (Making(f) => Making(Top(t)) /\ Follows(Top(t), f))
              /\ Reserve(f)' => Reserve(Top(t))
    \/ \E f, g : /\ frames[t] # <<>> /\ Pushed(t, f, g) /\ (Making(f) => Making(Top(t)) /\ Follows(Top(t), f))
                 /\ ~Making(g) /\ f.op # "construct"
    \/ frames[t] # <<>> /\ Popped(t) /\ ~Making(Top(t))
    \/ Thrown(t)
    \/ \E g : Begun(t, g) /\ ~Making(g)

\* Over such a step every maker, waiter and reserve was one before.
LEMMA MovesFollow ==
    ASSUME Shape, FramesType', NEW t \in Threads, Moves(t),
           \A u \in Threads \ {t} : frames[u] # <<>> /\ Making(Top(u)) /\ member'[Top(u).inst] = None =>
             member[Top(u).inst] = None
    PROVE  MakersFollow /\ WaitersFollow /\ ReservesFollow
<1>0. FramesType
  BY DEF Shape, Types, FramesType
<1>00. frames'[t] = <<>> <=> Len(frames'[t]) = 0
  BY FrameFacts DEF FramesType
<1>1. ASSUME NEW f, frames[t] # <<>>, Replaced(t, f), Making(f) =>
             Making(Top(t)) /\ Follows(Top(t), f), Reserve(f)' => Reserve(Top(t))
      PROVE  MakersFollow /\ WaitersFollow /\ ReservesFollow
  <2>1. MakersFollow /\ WaitersFollow
    BY <1>0, <1>1, FollowReplaced
  <2>2. Rest(t) /\ frames'[t][Len(frames'[t])] = f
    BY <1>1 DEF Replaced
  <2>3. Reserve(f)' => Reserve(Top(t)) /\ f.inst = Top(t).inst
    <3>1. Reserve(f)' => Making(f)
      BY DEF Reserve, Making
    <3> QED
      BY <1>1, <3>1 DEF Follows
  <2>4. \A g : g = frames'[t][Len(frames'[t])] /\ Reserve(g)' =>
          frames[t] # <<>> /\ Reserve(Top(t)) /\ g.inst = Top(t).inst
    <3> TAKE g
    <3> HAVE g = frames'[t][Len(frames'[t])] /\ Reserve(g)'
    <3>1. g = f
      BY <2>2
    <3>2. Reserve(f)'
      BY <3>1 DEF Reserve, Making
    <3> QED
      BY <1>1, <2>3, <3>1, <3>2
  <2> QED
    BY <2>1, <2>2, <2>4, ReservesKept
<1>2. ASSUME NEW f, NEW g, frames[t] # <<>>, Pushed(t, f, g), Making(f) =>
             Making(Top(t)) /\ Follows(Top(t), f), ~Making(g), f.op # "construct"
      PROVE  MakersFollow /\ WaitersFollow /\ ReservesFollow
  <2>1. MakersFollow /\ WaitersFollow
    BY <1>0, <1>2, FollowPushed
  <2>2. Rest(t) /\ frames'[t][Len(frames'[t])] = g
    BY <1>2 DEF Pushed
  <2>3. \A h : h = frames'[t][Len(frames'[t])] /\ Reserve(h)' =>
          frames[t] # <<>> /\ Reserve(Top(t)) /\ h.inst = Top(t).inst
    BY <1>2, <2>2 DEF Reserve, Making
  <2> QED
    BY <2>1, <2>2, <2>3, ReservesKept
<1>3. ASSUME frames[t] # <<>>, Popped(t), ~Making(Top(t))
      PROVE  MakersFollow /\ WaitersFollow /\ ReservesFollow
  <2>1. MakersFollow /\ WaitersFollow
    BY <1>0, <1>3, FollowPopped
  <2>2. Rest(t)
    BY <1>3 DEF Popped
  <2>3. frames'[t] # <<>> => frames'[t][Len(frames'[t])].op \in {"unwind", "bump", "sweep"}
    BY <1>3, NoReserve
  <2>4. frames'[t] # <<>> => \A h : h = frames'[t][Len(frames'[t])] /\ Reserve(h)' =>
          frames[t] # <<>> /\ Reserve(Top(t)) /\ h.inst = Top(t).inst
    BY <2>3 DEF Reserve, PopOps
  <2> QED
    BY <2>1, <2>2, <2>4, ReservesKept
<1>4. ASSUME Thrown(t)
      PROVE  MakersFollow /\ WaitersFollow /\ ReservesFollow
  <2>1. MakersFollow /\ WaitersFollow
    BY <1>0, <1>4, FollowThrown
  <2>2. Rest(t)
    BY <1>4 DEF Thrown, Raised
  <2>3. frames'[t] # <<>> => frames'[t][Len(frames'[t])].op = "unwind"
    BY <1>4, NoReserve
  <2>4. frames'[t] # <<>> => \A h : h = frames'[t][Len(frames'[t])] /\ Reserve(h)' =>
          frames[t] # <<>> /\ Reserve(Top(t)) /\ h.inst = Top(t).inst
    BY <2>3 DEF Reserve, PopOps
  <2> QED
    BY <2>1, <2>2, <2>4, ReservesKept
<1>5. ASSUME NEW g, Begun(t, g), ~Making(g)
      PROVE  MakersFollow /\ WaitersFollow /\ ReservesFollow
  <2>1. MakersFollow /\ WaitersFollow
    BY <1>0, <1>5, FollowBegun
  <2>2. Rest(t) /\ frames'[t][Len(frames'[t])] = g
    BY <1>5 DEF Begun
  <2>3. \A h : h = frames'[t][Len(frames'[t])] /\ Reserve(h)' =>
          frames[t] # <<>> /\ Reserve(Top(t)) /\ h.inst = Top(t).inst
    BY <1>5, <2>2 DEF Reserve, Making
  <2> QED
    BY <2>1, <2>2, <2>3, ReservesKept
<1> QED
  BY <1>1, <1>2, <1>3, <1>4, <1>5 DEF Moves

\* The steps of releases are such steps.
LEMMA MovesGoes ==
    ASSUME Shape, NEW t \in Threads, NEW op, NEW next, Goes(t, op, next)
    PROVE  Moves(t)
<1>1. frames[t] # <<>> /\ ~Making(Top(t))
  BY DEF Goes
<1>2. ASSUME NEW f, Becomes(t, f, next, Top(t).slot, Top(t).live) PROVE Moves(t)
  <2>1. Replaced(t, f) /\ ~Making(f) /\ ~Reserve(f)'
    BY <1>1, <1>2 DEF Becomes, Making, Reserve
  <2> QED
    BY <1>1, <2>1 DEF Moves
<1> QED
  BY <1>1, <1>2 DEF Goes, Moves

\* A bean held by a thread or by another bean.
Held(i) == (\E t \in Threads : handles[t][i] > 0) \/ (\E m \in Insts : member[m] = i)

\* Unheld and Tenants in its terms.
LEMMA HeldIs ==
    /\ Types => \A i \in Insts : Unheld(i) <=> ~Held(i) /\ i \notin lost
    /\ Types' => \A i \in Insts : Unheld(i)' <=> ~Held(i)' /\ i \notin lost'
    /\ Tenants <=> (phase = "started" => \A i \in Insts : Held(i) => memory[slotOf[i]] = i)
    /\ Tenants' <=> (phase' = "started" => \A i \in Insts : Held(i)' => memory'[slotOf'[i]] = i)
<1>1. ASSUME Types PROVE \A i \in Insts : Unheld(i) <=> ~Held(i) /\ i \notin lost
  <2>1. \A t \in Threads : \A i \in Insts : handles[t][i] > 0 <=> handles[t][i] # 0
    <3> TAKE t \in Threads
    <3> TAKE i \in Insts
    <3>1. handles[t][i] \in 0..MaxHandles
      BY <1>1 DEF Types
    <3> QED
      BY <3>1
  <2> QED
    BY <2>1 DEF Unheld, Held
<1>2. ASSUME Types' PROVE \A i \in Insts : Unheld(i)' <=> ~Held(i)' /\ i \notin lost'
  <2>1. \A t \in Threads : \A i \in Insts : handles'[t][i] > 0 <=> handles'[t][i] # 0
    <3> TAKE t \in Threads
    <3> TAKE i \in Insts
    <3>1. handles'[t][i] \in 0..MaxHandles
      BY <1>2 DEF Types
    <3> QED
      BY <3>1
  <2> QED
    BY <2>1 DEF Unheld, Held
<1>3. Tenants <=> (phase = "started" => \A i \in Insts : Held(i) => memory[slotOf[i]] = i)
  BY DEF Tenants, Held
<1>4. Tenants' <=> (phase' = "started" => \A i \in Insts : Held(i)' => memory'[slotOf'[i]] = i)
  BY DEF Tenants, Held
<1> QED
  BY <1>1, <1>2, <1>3, <1>4

\* A step that gives nobody a handle to a bean that had none, and that destroys at
\* most what is in a slot that nobody has a handle to.
LEMMA IdsLess ==
    ASSUME Shape, Shape', Ids, MakersFollow, WaitersFollow, ReservesFollow,
           slotOf' = slotOf, insts' = insts, lost' = lost, phase' = "started" => phase = "started",
           \A i \in Insts : Held(i)' => Held(i),
           \A s \in Slots : memory'[s] = memory[s] \/ memory'[s] = None,
           \A i \in Insts : member[i] = None => member'[i] = None,
           \A i \in Insts : destroyed'[i] = destroyed[i]
               \/ \E s \in Slots : memory[s] = i /\ memory'[s] = None /\ destroyed'[i] = destroyed[i] + 1,
           \A i \in Insts : phase' = "started" /\ Held(i)' => memory'[slotOf[i]] = memory[slotOf[i]],
           \A u \in Threads : \A k \in 1..Len(frames'[u]) :
               Making(frames'[u][k]) /\ frames'[u][k].slot # None /\ frames'[u][k].op \notin PushOps =>
                   memory'[frames'[u][k].slot] = memory[frames'[u][k].slot]
    PROVE  Ids'
<1>1. Types /\ Types' /\ Stored /\ Tenants /\ DestroyedOnce /\ None \notin Insts
  BY IdsParts, StoreConstants DEF Shape, Insts
<1>2. \A i \in Insts : Unheld(i) => Unheld(i)'
  BY <1>1, HeldIs
<1>3. \A i \in Insts : Untouched(i) => Untouched(i)'
  <2> TAKE i \in Insts
  <2> HAVE Untouched(i)
  <2>1. Unheld(i) /\ slotOf[i] = None /\ destroyed[i] = 0 /\ \A s \in Slots : memory[s] # i
    BY DEF Untouched
  <2>2. Unheld(i)' /\ destroyed'[i] = 0 /\ \A s \in Slots : memory'[s] # i
    BY <1>1, <1>2, <2>1
  <2> QED
    BY <2>1, <2>2 DEF Untouched
<1>4. \A s \in Slots : memory[s] # None => memory[s] \in Insts /\ slotOf[memory[s]] = s /\ destroyed[memory[s]] = 0
  BY <1>1 DEF Stored, Types
<1>5. Stored'
  <2> SUFFICES ASSUME NEW s \in Slots, memory'[s] # None PROVE slotOf'[memory'[s]] = s /\ destroyed'[memory'[s]] = 0
    BY DEF Stored
  <2>1. memory'[s] = memory[s]
    OBVIOUS
  <2>2. PICK i \in Insts : i = memory[s]
    BY <1>4, <2>1
  <2>3. slotOf[i] = s /\ destroyed[i] = 0
    BY <1>4, <2>1, <2>2
  <2>4. \A r \in Slots : memory[r] = i => r = s
    BY <1>1, <1>4, <2>3
  <2>5. destroyed'[i] = destroyed[i]
    BY <2>1, <2>4
  <2> QED
    BY <2>1, <2>2, <2>3, <2>5
<1>6. Tenants'
  BY <1>1, HeldIs
<1>7. DestroyedOnce'
  <2> SUFFICES ASSUME NEW i \in Insts PROVE destroyed'[i] <= 1
    BY DEF DestroyedOnce
  <2>1. CASE destroyed'[i] = destroyed[i]
    BY <1>1, <2>1 DEF DestroyedOnce
  <2>2. ASSUME NEW s \in Slots, memory[s] = i, destroyed'[i] = destroyed[i] + 1 PROVE destroyed'[i] <= 1
    <3>1. destroyed[i] = 0
      BY <1>1, <1>4, <2>2
    <3> QED
      BY <2>2, <3>1
  <2> QED
    BY <2>1, <2>2
<1>8. \A u \in Threads : \A j \in 1..(Len(frames'[u]) - 1) :
        frames'[u][j].op = "construct" /\ member[frames'[u][j].inst] = None => member'[frames'[u][j].inst] = None
  <2> TAKE u \in Threads
  <2> TAKE j \in 1..(Len(frames'[u]) - 1)
  <2> HAVE frames'[u][j].op = "construct" /\ member[frames'[u][j].inst] = None
  <2>1. Len(frames'[u]) \in Nat
    BY FrameFacts DEF Shape, Types, FramesType
  <2>2. j \in 1..Len(frames'[u])
    BY <2>1
  <2>3. frames'[u][j] \in Frame
    BY <1>1, <2>2 DEF Types
  <2>4. frames'[u][j].inst \in Insts \union {None}
    BY <2>3, FrameFields
  <2>5. FrameOK(frames[u][j])'
    BY <2>2 DEF Shape, ShapeOf
  <2>6. frames'[u][j].inst # None
    BY <2>5 DEF FrameOK, ReleasingOK, Making, PushOps, AskOps
  <2> QED
    BY <2>4, <2>6
<1>9. PICK x : x = None
  OBVIOUS
<1> QED
  BY <1>2, <1>3, <1>5, <1>6, <1>7, <1>8, <1>9, IdsFollow

\* Nothing but the calls, the freelist, the counts and the phase changes.
LEMMA IdsStill ==
    ASSUME Shape, Shape', Ids, NEW t \in Threads, Moves(t), phase' = "started" => phase = "started",
           UNCHANGED <<memory, slotOf, handles, member, insts, lost, destroyed>>
    PROVE  Ids'
<1>1. FramesType'
  BY DEF Shape, Types, FramesType
<1>2. MakersFollow /\ WaitersFollow /\ ReservesFollow
  BY <1>1, MovesFollow
<1>3. \A i \in Insts : Held(i)' => Held(i)
  BY DEF Held
<1> QED
  BY <1>2, <1>3, IdsLess

\* The steps of that kind.
StillStep(t) ==
    \/ \E f : Quiet(t, f)
    \/ Activate(t) \/ ReleaseAcquire(t) \/ ReleaseLiveSlot(t) \/ CheckLive(t) \/ DeleteIfDead(t)
    \/ PushLink(t) \/ (PushCas(t) /\ head = Top(t).cur)
    \/ Stop(t) \/ (Sweep(t) /\ Top(t).slot = 0) \/ DestroyRegistry(t)

\* They keep Ids.
LEMMA IdsStillStep ==
    ASSUME Shape, Shape', Ids, NEW t \in Threads, StillStep(t)
    PROVE  Ids'
<1>1. ASSUME NEW f, Quiet(t, f) PROVE Ids'
  <2>1. Moves(t)
    <3>1. frames[t] # <<>> /\ Replaced(t, f) /\ f.inst = Top(t).inst /\ f.slot = Top(t).slot /\
            (f.op \in PushOps <=> Top(t).op \in PushOps)
          /\ (Reserve(f) => Reserve(Top(t))) /\ member' = member
      BY <1>1 DEF Quiet, Data
    <3>2. (Making(f) => Making(Top(t)) /\ Follows(Top(t), f)) /\ (Reserve(f)' => Reserve(Top(t)))
      BY <3>1 DEF Making, Follows, Reserve
    <3> QED
      BY <3>1, <3>2 DEF Moves
  <2> QED
    BY <1>1, <2>1, IdsStill DEF Quiet, Data
<1>2. CASE Activate(t)
  <2>1. frames[t] # <<>> /\ Making(Top(t)) /\ Top(t).op = "activate" /\
          \E f : Becomes(t, f, "hooks", Top(t).slot, Top(t).live)
    BY <1>2, ActivateDoes
  <2>2. PICK f : Becomes(t, f, "hooks", Top(t).slot, Top(t).live)
    BY <2>1
  <2>3. Replaced(t, f) /\ Follows(Top(t), f) /\ ~Reserve(f)'
    BY <2>1, <2>2 DEF Becomes, Follows, Reserve, PopOps, PushOps
  <2>4. Moves(t)
    BY <2>1, <2>3 DEF Moves
  <2> QED
    BY <1>2, <2>4, IdsStill DEF Activate, objects
<1>3. CASE ReleaseAcquire(t) \/ ReleaseLiveSlot(t) \/ CheckLive(t) \/ DeleteIfDead(t)
  <2>1. \E op, next : Goes(t, op, next)
    BY <1>3, ReleaseDoes
  <2>2. Moves(t)
    BY <2>1, MovesGoes
  <2>3. /\ UNCHANGED <<memory, slotOf, handles, member, insts, lost, destroyed>>
        /\ phase' = "started" => phase = "started"
    BY <1>3 DEF ReleaseAcquire, ReleaseLiveSlot, CheckLive, DeleteIfDead, objects
  <2> QED
    BY <2>2, <2>3, IdsStill
<1>4. CASE PushLink(t)
  <2>1. /\ frames[t] # <<>> /\ Top(t).op = "pushLink" /\ \E f : Becomes(t, f, "pushCas", Top(t).slot, Top(t).live)
        /\ UNCHANGED <<phase, memory, slotOf, handles, member, insts, lost, destroyed>>
    BY <1>4, PushLinkDoes
  <2>2. PICK f : Becomes(t, f, "pushCas", Top(t).slot, Top(t).live)
    BY <2>1
  <2>3. Replaced(t, f) /\ (Making(f) => Making(Top(t)) /\ Follows(Top(t), f)) /\ ~Reserve(f)'
    BY <2>1, <2>2 DEF Becomes, Follows, Making, Reserve, PopOps, PushOps
  <2>4. Moves(t)
    BY <2>1, <2>3 DEF Moves
  <2> QED
    BY <2>1, <2>4, IdsStill
<1>5. CASE PushCas(t) /\ head = Top(t).cur
  <2>1. /\ UNCHANGED <<phase, memory, slotOf, handles, member, insts, lost, destroyed>>
        /\ \/ Thrown(t)
           \/ Goes(t, "pushCas", "unlive")
    BY <1>5, PushedBackDoes
  <2>2. Moves(t)
    BY <2>1, MovesGoes DEF Moves
  <2> QED
    BY <2>1, <2>2, IdsStill
<1>6. CASE Stop(t) \/ DestroyRegistry(t)
  <2>1. \E f : Begun(t, f) /\ f.inst = None
    BY <1>6, StopDoes, DestroyRegistryDoes
  <2>2. Moves(t)
    BY <2>1 DEF Moves, Making
  <2>3. /\ UNCHANGED <<memory, slotOf, handles, member, insts, lost, destroyed>>
        /\ phase' # "started"
    BY <1>6 DEF Stop, DestroyRegistry, objects
  <2> QED
    BY <2>2, <2>3, IdsStill
<1>7. CASE Sweep(t) /\ Top(t).slot = 0
  <2>1. /\ Goes(t, "sweep", "done") /\ phase' = "stopped"
        /\ UNCHANGED <<memory, slotOf, handles, member, insts, lost, destroyed>>
    BY <1>7, SweptDoes
  <2>2. Moves(t)
    BY <2>1, MovesGoes
  <2> QED
    BY <2>1, <2>2, IdsStill
<1> QED
  BY <1>1, <1>2, <1>3, <1>4, <1>5, <1>6, <1>7 DEF StillStep

\* Copying and dropping a handle.
LEMMA IdsHandles ==
    ASSUME Shape, Shape', Ids, NEW t \in Threads, NEW i \in Insts, Drop(t, i) \/ \E u \in Threads : Copy(t, u, i)
    PROVE  Ids'
<1>0. FramesType' /\ handles \in HandleMaps /\ handles[t][i] > 0
  BY DEF Shape, Types, FramesType, HandleMaps, Drop, Copy
<1>1. CASE Drop(t, i)
  <2>1. /\ UNCHANGED <<phase, memory, slotOf, member, insts, lost, destroyed>>
        /\ handles' = [handles EXCEPT ![t] = [handles[t] EXCEPT ![i] = @ - 1]]
    BY <1>1 DEF Drop
  <2>2. Moves(t)
    <3>1. \E g : Begun(t, g) /\ g.inst = None
      BY <1>1, DropDoes DEF Release
    <3> QED
      BY <3>1 DEF Moves, Making
  <2>3. MakersFollow /\ WaitersFollow /\ ReservesFollow
    BY <1>0, <2>1, <2>2, MovesFollow
  <2>4. \A j \in Insts : Held(j)' => Held(j)
    <3> TAKE j \in Insts
    <3>1. j # i => \A u \in Threads : handles'[u][j] = handles[u][j]
      BY <1>0, <2>1 DEF HandleMaps
    <3> QED
      BY <1>0, <2>1, <3>1 DEF Held
  <2> QED
    BY <2>1, <2>3, <2>4, IdsLess
<1>2. CASE \E u \in Threads : Copy(t, u, i)
  <2>1. PICK u \in Threads : Copy(t, u, i)
    BY <1>2
  <2>2. /\ UNCHANGED <<frames, phase, memory, slotOf, member, insts, lost, destroyed>>
        /\ handles' = [handles EXCEPT ![u] = [handles[u] EXCEPT ![i] = @ + 1]]
    BY <2>1 DEF Copy
  <2>3. MakersFollow /\ WaitersFollow
    BY <2>2 DEF MakersFollow, WaitersFollow, Follows
  <2>4. ReservesFollow
    BY <2>2 DEF ReservesFollow, Reserve, Making, Top
  <2>5. \A j \in Insts : Held(j)' => Held(j)
    <3> TAKE j \in Insts
    <3>1. j # i => \A v \in Threads : handles'[v][j] = handles[v][j]
      BY <1>0, <2>2 DEF HandleMaps
    <3> QED
      BY <1>0, <2>2, <3>1 DEF Held
  <2> QED
    BY <2>2, <2>3, <2>4, <2>5, IdsLess
<1> QED
  BY <1>1, <1>2

\* A call that makes an instance and has a slot: nobody else works on that slot.
LEMMA MakerSlot ==
    ASSUME Shape, NEW u \in Threads, NEW k \in 1..Len(frames[u]), Making(frames[u][k]), frames[u][k].slot # None
    PROVE  frames[u][k].slot \in Slots /\ frames[u][k].op \in WorkOps \union {"hooks"} /\ phase = "started"
<1>1. MakingOK(frames[u][k]) /\ phase = "started"
  BY DEF Shape, ShapeOf, FrameOK
<1> QED
  BY <1>1 DEF MakingOK, WorkOps, PushOps, PopOps

\* Nobody has a handle to slot s, and the call at depth j of t is the only one that
\* may work on it.
Private(s, t, j) ==
    /\ refcount[s] = 0
    /\ \A u \in Threads : \A k \in 1..Len(frames[u]) : frames[u][k].slot = s /\ frames[u][k].op \in WorkOps =>
           u = t /\ k = j

\* Then no other call makes an instance there, and no held instance is there.
LEMMA PrivateSlot ==
    ASSUME Shape, RefcountIsHandles, NEW s \in Slots, NEW t \in Threads, NEW j, Private(s, t, j)
    PROVE  /\ \A u \in Threads : \A k \in 1..Len(frames[u]) : Making(frames[u][k]) /\ frames[u][k].slot = s =>
               u = t /\ k = j
           /\ \A i \in Insts : Held(i) => slotOf[i] # s
<1>1. None \notin Slots /\ refcount[s] = 0
  BY StoreConstants DEF Slots, Private
<1>2. ASSUME NEW u \in Threads, NEW k \in 1..Len(frames[u]), Making(frames[u][k]), frames[u][k].slot = s
      PROVE  u = t /\ k = j
  <2>1. frames[u][k].op \in WorkOps \union {"hooks"}
    BY <1>1, <1>2, MakerSlot
  <2>2. frames[u][k].op # "hooks"
    <3> SUFFICES ASSUME frames[u][k].op = "hooks" PROVE FALSE
      OBVIOUS
    <3>1. frames[u][k].op \in RefOps
      BY DEF RefOps
    <3>2. Seats(s, RefOps) >= 1 /\ Seats(s, RefOps) \in Nat
      BY <1>2, <3>1, SeatCounted
    <3>3. refcount[s] >= Seats(s, RefOps)
      BY RefsPositive
    <3> QED
      BY <1>1, <3>2, <3>3
  <2> QED
    BY <1>2, <2>1, <2>2 DEF Private
<1>3. ASSUME NEW i \in Insts, Held(i), slotOf[i] = s PROVE FALSE
  <2>1. refcount[s] >= 1
    <3>1. CASE \E u \in Threads : handles[u][i] > 0
      BY <1>3, <3>1, RefsPositive
    <3>2. CASE \E m \in Insts : member[m] = i
      <4>1. PICK m \in Insts : member[m] = i
        BY <3>2
      <4>2. member[m] # None /\ slotOf[member[m]] = s
        <5>1. None \notin Insts
          BY StoreConstants DEF Insts
        <5> QED
          BY <1>3, <4>1, <5>1
      <4> QED
        BY <4>2, RefsPositive
    <3> QED
      BY <1>3, <3>1, <3>2 DEF Held
  <2> QED
    BY <1>1, <2>1
<1> QED
  BY <1>2, <1>3

\* The innermost call that works on a slot has it for itself.
LEMMA WorkerPrivate ==
    ASSUME Shape, Partition, RefcountIsHandles, NEW t \in Threads, frames[t] # <<>>, Top(t).op \in WorkOps,
           NEW s \in Slots, s = Top(t).slot
    PROVE  Private(s, t, Len(frames[t]))
<1>1. Len(frames[t]) \in 1..Len(frames[t]) /\ Top(t) = frames[t][Len(frames[t])]
  BY TopFacts
<1> QED
  BY <1>1, WorkedIsFree DEF Private

\* A step that empties at most slot s, which its thread has for itself, or which it
\* empties when nothing is made any more.
LEMMA IdsCleared ==
    ASSUME IInv, Shape', NEW t \in Threads, frames[t] # <<>>, Moves(t), NEW s \in Slots,
           phase' = phase, slotOf' = slotOf, insts' = insts, lost' = lost, handles' = handles,
           memory' = [memory EXCEPT ![s] = None],
           phase = "started" => Private(s, t, Len(frames[t])),
           Making(Top(t)) => Len(frames'[t]) = Len(frames[t]) /\ frames'[t][Len(frames[t])].op \in PushOps,
           \/ UNCHANGED <<member, destroyed>>
           \/ /\ ~Making(Top(t)) /\ memory[s] \in Insts /\ member' = [member EXCEPT ![memory[s]] = None]
              /\ destroyed' = [destroyed EXCEPT ![memory[s]] = @ + 1]
    PROVE  Ids'
<1>0. /\ Shape /\ Ids /\ RefcountIsHandles /\ FramesType' /\ FramesType /\ memory \in [Slots -> Insts \union {None}]
      /\ member \in [Insts -> Insts \union {None}] /\ destroyed \in [Insts -> Nat] /\ None \notin Insts /\
             None \notin Slots
  <2>1. None \notin Insts /\ None \notin Slots
    BY StoreConstants DEF Insts, Slots
  <2>2. Shape /\ Ids /\ RefcountIsHandles
    BY DEF IInv
  <2>3. Types /\ FramesType'
    BY <2>2 DEF Shape, Types, FramesType
  <2> QED
    BY <2>1, <2>2, <2>3 DEF Types, FramesType
<1>1. /\ \A u \in Threads : \A k \in 1..Len(frames[u]) : \A f : f = frames[u][k] => Made(f)
      /\ Stored /\ OneMaker
  BY <1>0, IdsParts
<1>2. \A u \in Threads : \A k \in 1..Len(frames[u]) : Making(frames[u][k]) => phase = "started"
  BY <1>0 DEF Shape, ShapeOf
<1>3. \A u \in Threads : \A k \in 1..Len(frames[u]) : Making(frames[u][k]) /\ frames[u][k].slot = s =>
        u = t /\ k = Len(frames[t])
  BY <1>0, <1>2, PrivateSlot
<1>4. \A u \in Threads \ {t} : frames[u] # <<>> /\ Making(Top(u)) /\ member'[Top(u).inst] = None =>
        member[Top(u).inst] = None
  <2> SUFFICES ASSUME NEW u \in Threads \ {t}, frames[u] # <<>>, Making(Top(u)), member'[Top(u).inst] = None,
        member[Top(u).inst] # None
               PROVE  FALSE
    OBVIOUS
  <2>1. Len(frames[u]) \in 1..Len(frames[u]) /\ Top(u) = frames[u][Len(frames[u])]
    BY <1>0, FrameFacts
  <2>2. PICK i : i = Top(u).inst
    OBVIOUS
  <2>20. i \in Insts
    <3>1. Top(u) \in Frame
      BY <1>0, FrameFacts
    <3> QED
      BY <2>2, <3>1, FrameFields DEF Making
  <2>3. memory[s] = i /\ memory[s] \in Insts
    <3>1. CASE member' = member
      BY <3>1
    <3>2. CASE memory[s] \in Insts /\ member' = [member EXCEPT ![memory[s]] = None]
      BY <1>0, <2>2, <2>20, <3>2
    <3> QED
      BY <3>1, <3>2
  <2>4. slotOf[i] = s
    BY <1>0, <1>1, <2>3 DEF Stored
  <2>5. Made(Top(u))
    BY <1>1, <2>1
  <2>6. Top(u).slot # None
    BY <2>2, <2>3, <2>5 DEF Made, Untouched
  <2>7. Top(u).slot = s
    BY <2>2, <2>4, <2>5, <2>6 DEF Made
  <2> QED
    BY <1>3, <2>1, <2>7
<1>5. MakersFollow /\ WaitersFollow /\ ReservesFollow
  BY <1>0, <1>4, MovesFollow
<1>6. \A i \in Insts : Held(i)' => Held(i)
  BY <1>0 DEF Held
<1>7. \A i \in Insts : member[i] = None => member'[i] = None
  BY <1>0
<1>8. \A r \in Slots : memory'[r] = memory[r] \/ memory'[r] = None
  BY <1>0
<1>9. \A i \in Insts : destroyed'[i] = destroyed[i] \/ \E r \in Slots : memory[r] = i /\ memory'[r] = None /\
        destroyed'[i] = destroyed[i] + 1
  BY <1>0
<1>10. \A i \in Insts : phase' = "started" /\ Held(i)' => memory'[slotOf[i]] = memory[slotOf[i]]
  <2> TAKE i \in Insts
  <2> HAVE phase' = "started" /\ Held(i)'
  <2>1. slotOf[i] # s
    BY <1>0, <1>6, PrivateSlot
  <2> QED
    BY <1>0, <2>1
<1>11. \A u \in Threads : \A k \in 1..Len(frames'[u]) :
         Making(frames'[u][k]) /\ frames'[u][k].slot # None /\ frames'[u][k].op \notin PushOps =>
             memory'[frames'[u][k].slot] = memory[frames'[u][k].slot]
  <2> TAKE u \in Threads
  <2> TAKE k \in 1..Len(frames'[u])
  <2> HAVE Making(frames'[u][k]) /\ frames'[u][k].slot # None /\ frames'[u][k].op \notin PushOps
  <2>1. k \in 1..Len(frames[u]) /\ Making(frames[u][k]) /\ frames'[u][k].slot = frames[u][k].slot
    BY <1>5 DEF MakersFollow, Follows
  <2>2. frames[u][k].slot # s
    <3> SUFFICES ASSUME frames[u][k].slot = s PROVE FALSE
      OBVIOUS
    <3>1. u = t /\ k = Len(frames[t])
      BY <1>3, <2>1
    <3>2. Top(t) = frames[t][Len(frames[t])]
      BY <1>0, FrameFacts
    <3> QED
      BY <2>1, <3>1, <3>2
  <2> QED
    BY <1>0, <2>1, <2>2
<1> QED
  BY <1>0, <1>5, <1>6, <1>7, <1>8, <1>9, <1>10, <1>11, IdsLess

\* reclaimSlot keeps Ids: the slot is private.
LEMMA IdsBump ==
    ASSUME IInv, Shape', NEW t \in Threads, Bump(t)
    PROVE  Ids'
<1>1. /\ Shape /\ Partition /\ RefcountIsHandles /\ Top(t).slot \in Slots /\ Goes(t, "bump", "pushLoad")
      /\ memory' = [memory EXCEPT ![Top(t).slot] = None]
      /\ UNCHANGED <<phase, slotOf, insts, lost, handles, member, destroyed>>
  BY ReleaseDoes DEF IInv, Bump, objects
<1>2. Moves(t) /\ frames[t] # <<>> /\ ~Making(Top(t)) /\ Top(t).op \in WorkOps
  BY <1>1, MovesGoes DEF Goes, WorkOps
<1>3. Private(Top(t).slot, t, Len(frames[t]))
  BY <1>1, <1>2, WorkerPrivate
<1> QED
  BY <1>1, <1>2, <1>3, IdsCleared

\* Destruction keeps Ids: only the instance of that slot is destroyed, once.
LEMMA IdsEmptied ==
    ASSUME IInv, Shape', NEW t \in Threads, NEW f, NEW s, Emptied(t, f, s)
    PROVE  Ids'
<1>1. /\ Shape /\ Partition /\ RefcountIsHandles /\ s \in Slots /\ frames[t] # <<>> /\ ~Making(Top(t)) /\
             f.inst = None
      /\ memory' = [memory EXCEPT ![s] = None] /\ f.op \in {"bump", "sweep"}
      /\ UNCHANGED <<phase, slotOf, insts, lost, handles>>
  BY DEF Emptied, IInv
<1>2. phase = "started" => Private(s, t, Len(frames[t]))
  <2> HAVE phase = "started"
  <2>1. Top(t).op # "sweep"
    BY <1>1, TopFacts
  <2>2. Top(t).op \in WorkOps /\ Top(t).slot = s
    BY <2>1 DEF Emptied, WorkOps
  <2> QED
    BY <1>1, <2>2, WorkerPrivate
<1>3. Moves(t)
  <2>1. CASE Replaced(t, f)
    BY <1>1, <2>1 DEF Moves, Making, Reserve
  <2>2. ASSUME NEW g, Pushed(t, f, g), g.inst = None PROVE Moves(t)
    BY <1>1, <2>2 DEF Moves, Making
  <2> QED
    BY <2>1, <2>2 DEF Emptied, Release
<1>4. \/ UNCHANGED <<member, destroyed>>
      \/ /\ ~Making(Top(t)) /\ memory[s] \in Insts /\ member' = [member EXCEPT ![memory[s]] = None]
         /\ destroyed' = [destroyed EXCEPT ![memory[s]] = @ + 1]
  BY <1>1 DEF Emptied
<1> QED
  BY <1>1, <1>2, <1>3, <1>4, IdsCleared

\* Unwind keeps Ids: the slot is given back before the instance was held.
LEMMA IdsUnwind ==
    ASSUME IInv, Shape', NEW t \in Threads, Unwind(t)
    PROVE  Ids'
<1>1. /\ Shape /\ Ids /\ Partition /\ RefcountIsHandles /\ frames[t] # <<>> /\ Making(Top(t)) /\
             Top(t).op = "unwind" /\ Top(t).inst \in Insts
      /\ UNCHANGED <<phase, slotOf, insts, lost, handles, destroyed>>
  BY UnwindDoes DEF IInv
<1>2. /\ FramesType /\ FramesType' /\ member \in [Insts -> Insts \union {None}] /\ None \notin Insts /\ OneMaker
  BY <1>1, StoreConstants, IdsParts DEF Shape, Types, FramesType, Insts
<1>3. ASSUME NEW g, Pushed(t, Top(t), g), Release(g, slotOf[member[Top(t).inst]]),
             member' = [member EXCEPT ![Top(t).inst] = None], UNCHANGED memory
      PROVE  Ids'
  <2>1. Moves(t)
    BY <1>1, <1>3 DEF Moves, Making, Release, Follows
  <2>2. \A u \in Threads \ {t} : frames[u] # <<>> /\ Making(Top(u)) /\ member'[Top(u).inst] = None =>
          member[Top(u).inst] = None
    <3> TAKE u \in Threads \ {t}
    <3> HAVE frames[u] # <<>> /\ Making(Top(u)) /\ member'[Top(u).inst] = None
    <3>1. /\ Len(frames[u]) \in 1..Len(frames[u]) /\ Top(u) = frames[u][Len(frames[u])]
          /\ Len(frames[t]) \in 1..Len(frames[t]) /\ Top(t) = frames[t][Len(frames[t])]
      BY <1>1, <1>2, FrameFacts
    <3>2. Top(u).inst # Top(t).inst
      BY <1>1, <1>2, <3>1 DEF OneMaker
    <3>3. Top(u).inst \in Insts
      <4>1. Top(u) \in Frame
        BY <1>2, FrameFacts
      <4> QED
        BY <4>1, FrameFields DEF Making
    <3> QED
      BY <1>2, <1>3, <3>2, <3>3
  <2>3. MakersFollow /\ WaitersFollow /\ ReservesFollow
    BY <1>1, <1>2, <2>1, <2>2, MovesFollow
  <2>4. \A i \in Insts : Held(i)' => Held(i)
    BY <1>1, <1>2, <1>3 DEF Held
  <2>5. \A i \in Insts : member[i] = None => member'[i] = None
    BY <1>1, <1>2, <1>3
  <2> QED
    BY <1>1, <1>3, <2>3, <2>4, <2>5, IdsLess
<1>4. CASE Thrown(t) /\ UNCHANGED <<member, memory>>
  <2>1. Moves(t)
    BY <1>4 DEF Moves
  <2> QED
    BY <1>1, <1>4, <2>1, IdsStill
<1>5. ASSUME Top(t).slot \in Slots, NEW f, Becomes(t, f, "pushLoad", Top(t).slot, FALSE),
             memory' = [memory EXCEPT ![Top(t).slot] = None], UNCHANGED member
      PROVE  Ids'
  <2>1. /\ Replaced(t, f) /\ f.inst = Top(t).inst /\ f.slot = Top(t).slot /\ f.op \in PushOps /\ f.op # "construct"
        /\ f.op \notin PopOps
    BY <1>5 DEF Becomes, PushOps, PopOps
  <2>2. Follows(Top(t), f) /\ ~Reserve(f)'
    BY <2>1 DEF Follows, Reserve
  <2>3. Moves(t)
    BY <1>1, <2>1, <2>2 DEF Moves
  <2>4. Top(t).op \in WorkOps
    BY <1>1 DEF WorkOps
  <2>5. Private(Top(t).slot, t, Len(frames[t]))
    BY <1>1, <1>5, <2>4, WorkerPrivate
  <2>6. Len(frames'[t]) = Len(frames[t]) /\ frames'[t][Len(frames[t])].op \in PushOps
    BY <2>1 DEF Replaced
  <2> QED
    BY <1>1, <1>5, <2>3, <2>5, <2>6, IdsCleared
<1> QED
  BY <1>1, <1>3, <1>4, <1>5, UnwindDoes

\* An exception keeps Ids: the instance may be lost, and is made no more.
LEMMA IdsThrows ==
    ASSUME Shape, Shape', Ids, NEW t \in Threads, LimitReached(t) \/ HooksThrow(t)
    PROVE  Ids'
<1>1. /\ Thrown(t) /\ Top(t).inst \in Insts /\ lost' \in {lost, lost \union {Top(t).inst}}
      /\ UNCHANGED <<phase, handles, member, slotOf, insts, destroyed, memory>>
  BY ThrowsDoes
<1>2. FramesType' /\ frames[t] # <<>> /\ Making(Top(t)) /\ Len(frames'[t]) = Len(frames[t]) - 1
  BY <1>1 DEF Thrown, Raised
<1>3. MakersFollow /\ WaitersFollow /\ ReservesFollow
  BY <1>1, <1>2, MovesFollow DEF Moves
<1>4. PICK x : x = Top(t).inst
  OBVIOUS
<1>5. \A i \in Insts : i # x /\ Unheld(i) => Unheld(i)'
  BY <1>1, <1>4 DEF Unheld
<1>6. \A i \in Insts : i # x /\ Untouched(i) => Untouched(i)'
  BY <1>1, <1>5 DEF Untouched
<1>7. Stored' /\ Tenants' /\ DestroyedOnce'
  BY <1>1 DEF Ids, Stored, Tenants, DestroyedOnce
<1> QED
  BY <1>1, <1>2, <1>3, <1>4, <1>5, <1>6, <1>7, IdsFollow

\* HooksDone keeps Ids: the instance is now held, and was made.
LEMMA IdsHooksDone ==
    ASSUME Shape, Shape', Ids, NEW t \in Threads, HooksDone(t)
    PROVE  Ids'
<1>1. /\ frames[t] # <<>> /\ Making(Top(t)) /\ Top(t).op = "hooks" /\ Top(t).inst \in Insts /\
             Top(t).slot \in Slots /\ Popped(t)
      /\ UNCHANGED <<phase, slotOf, insts, lost, destroyed, memory>>
  BY HooksDoneDoes DEF HooksDone
<1>2. /\ FramesType /\ FramesType' /\ member \in [Insts -> Insts \union {None}] /\ handles \in HandleMaps
      /\ Rest(t) /\ Len(frames'[t]) = Len(frames[t]) - 1
  BY <1>1 DEF Shape, Types, FramesType, HandleMaps, Popped
<1>20. None \notin Insts /\ None \notin Slots
  BY StoreConstants DEF Insts, Slots
<1>3. /\ Len(frames[t]) \in 1..Len(frames[t]) /\ Top(t) = frames[t][Len(frames[t])] /\ Len(frames[t]) \in Nat
      /\ (frames'[t] = <<>> <=> Len(frames'[t]) = 0)
  <2>0. frames' \in [Threads -> Seq(Frame)]
    BY <1>2 DEF FramesType
  <2>1. frames'[t] = <<>> <=> Len(frames'[t]) = 0
    <3>1. frames'[t] \in Seq(Frame)
      BY <2>0
    <3> QED
      BY <3>1
  <2> QED
    BY <1>1, <1>2, <2>1, FrameFacts
<1>4. MakersFollow /\ WaitersFollow
  BY <1>1, <1>2, FollowPopped
<1>5. PICK x : x = Top(t).inst
  OBVIOUS
<1>6. OneMaker /\ Made(Top(t)) /\ Stored /\ Tenants /\ DestroyedOnce
  BY <1>3, IdsParts
<1>7. memory[slotOf[x]] = x
  <2>1. Top(t).op \notin PushOps
    BY <1>1 DEF PushOps
  <2> QED
    BY <1>1, <1>5, <1>6, <1>20, <2>1 DEF Made
\* Only x is held that was not.
<1>8. /\ \A i \in Insts : i # x /\ Held(i)' => Held(i)
      /\ \A i \in Insts : member'[i] = None => member[i] = None
  <2>1. CASE Len(frames[t]) = 1 /\ member' = member /\ handles' = [handles EXCEPT ![t][Top(t).inst] = 1]
    <3>1. \A u \in Threads : \A i \in Insts : i # x => handles'[u][i] = handles[u][i]
      BY <1>2, <1>5, <2>1 DEF HandleMaps
    <3> QED
      BY <2>1, <3>1 DEF Held
  <2>2. CASE handles' = handles /\ frames[t][Len(frames[t]) - 1].inst \in Insts
             /\ member' = [member EXCEPT ![frames[t][Len(frames[t]) - 1].inst] = Top(t).inst]
    <3>1. \A m \in Insts : member'[m] = member[m] \/ member'[m] = x
      BY <1>2, <1>5, <2>2
    <3>2. \A i \in Insts : member'[i] = None => member[i] = None
      BY <1>1, <1>5, <1>20, <3>1
    <3> QED
      BY <2>2, <3>1, <3>2 DEF Held
  <2> QED
    BY <2>1, <2>2, HooksDoneDoes
<1>9. \A i \in Insts : i # x /\ Unheld(i) => Unheld(i)'
  BY <1>1, <1>8, HeldIs DEF Shape
<1>10. \A i \in Insts : i # x /\ Untouched(i) => Untouched(i)'
  BY <1>1, <1>9 DEF Untouched
<1>11. Stored' /\ DestroyedOnce'
  BY <1>1, <1>6 DEF Stored, DestroyedOnce
<1>12. Tenants'
  BY <1>1, <1>6, <1>7, <1>8, HeldIs
\* The bean that is being constructed now holds x.
<1>13. ReservesFollow
  <2>1. \A u \in Threads \ {t} : frames[u] # <<>> /\ Making(Top(u)) /\ member'[Top(u).inst] = None =>
          member[Top(u).inst] = None
    <3> TAKE u \in Threads \ {t}
    <3> HAVE frames[u] # <<>> /\ Making(Top(u)) /\ member'[Top(u).inst] = None
    <3>1. Top(u) \in Frame
      BY <1>2, FrameFacts
    <3>2. Top(u).inst \in Insts
      BY <3>1, FrameFields DEF Making
    <3> QED
      BY <1>8, <3>2
  <2>2. ASSUME frames'[t] # <<>>, NEW g, g = frames'[t][Len(frames'[t])], Reserve(g)' PROVE FALSE
    <3>1. Len(frames[t]) # 1
      BY <1>2, <1>3, <2>2
    <3>2. Len(frames'[t]) \in 1..Len(frames'[t])
      <4>1. PICK m : m \in Nat /\ m = Len(frames[t]) /\ m # 0 /\ m # 1
        BY <1>1, <1>2, <1>3, <3>1, FrameFacts
      <4>2. m - 1 \in 1..(m - 1)
        <5>1. m \in Nat /\ m # 0 /\ m # 1
          BY <4>1
        <5> QED
          BY <5>1
      <4> QED
        BY <1>2, <4>1, <4>2
    <3>3. g = frames[t][Len(frames[t]) - 1]
      BY <1>1, <1>2, <2>2, <3>2 DEF Popped
    <3>4. member'[g.inst] = Top(t).inst
      BY <1>2, <3>1, <3>3, HooksDoneDoes
    <3>5. member'[g.inst] = None
      BY <2>2 DEF Reserve
    <3> QED
      BY <1>1, <1>20, <3>4, <3>5
  <2> QED
    BY <1>2, <2>1, <2>2, ReservesKept
<1>14. \A u \in Threads : \A j \in 1..(Len(frames'[u]) - 1) :
         frames'[u][j].op = "construct" /\ member[frames'[u][j].inst] = None => member'[frames'[u][j].inst] = None
  <2> TAKE u \in Threads
  <2> TAKE j \in 1..(Len(frames'[u]) - 1)
  <2> HAVE frames'[u][j].op = "construct" /\ member[frames'[u][j].inst] = None
  <2>0. Len(frames[u]) \in Nat /\ Len(frames'[u]) \in Nat
    BY <1>2, FrameFacts DEF FramesType
  <2>1. j \in 1..(Len(frames[u]) - 1) /\ frames'[u][j] = frames[u][j] /\ j \in 1..Len(frames[u])
    <3>1. j \in 1..(Len(frames[u]) - 1) /\ frames'[u][j] = frames[u][j]
      BY <1>4 DEF WaitersFollow
    <3> QED
      BY <2>0, <3>1
  <2>2. CASE Len(frames[t]) = 1
    BY <2>2, HooksDoneDoes
  <2>3. CASE Len(frames[t]) # 1
    <3>1. PICK g : g = frames[t][Len(frames[t]) - 1]
      OBVIOUS
    <3>2. Making(g) /\ Len(frames[t]) - 1 \in 1..Len(frames[t])
      BY <1>1, <2>3, <3>1, BelowThrown
    <3>3. FrameOK(frames[u][j])
      BY <2>1 DEF Shape, ShapeOf
    <3>4. Making(frames[u][j])
      BY <2>1, <3>3 DEF FrameOK, ReleasingOK, PushOps, AskOps
    <3>5. ~(u = t /\ j = Len(frames[t]) - 1)
      <4>1. u = t => j \in 1..(Len(frames[t]) - 1 - 1)
        BY <1>2
      <4> QED
        BY <1>3, <4>1
    <3>6. frames[u][j].inst # g.inst
      BY <1>6, <2>1, <3>1, <3>2, <3>4, <3>5 DEF OneMaker
    <3>7. frames[u][j].inst \in Insts
      <4>1. frames[u][j] \in Frame
        BY <1>2, <2>1, FrameFacts
      <4> QED
        BY <3>4, <4>1, FrameFields DEF Making
    <3>8. member' = [member EXCEPT ![g.inst] = Top(t).inst]
      BY <2>3, <3>1, HooksDoneDoes
    <3> QED
      BY <1>2, <2>1, <3>6, <3>7, <3>8
  <2> QED
    BY <2>2, <2>3
<1> QED
  BY <1>1, <1>2, <1>4, <1>5, <1>9, <1>10, <1>11, <1>12, <1>13, <1>14, IdsFollow

\* The slot that a call takes is in nobody's hands.
LEMMA TakenVacant ==
    ASSUME Shape, Partition, RefcountIsHandles, NEW t \in Threads, NEW f, NEW s, Taken(t, f, s)
    PROVE  /\ refcount[s] = 0 /\ Seats(s, WorkOps) = 0 /\ Private(s, t, 0)
           /\ \A u \in Threads : \A k \in 1..Len(frames[u]) : ~(Making(frames[u][k]) /\ frames[u][k].slot = s)
<1>0. s \in Slots /\ frames[t] # <<>> /\ FramesType /\ refcount[s] \in Nat /\ Seats(s, WorkOps) \in Nat
  <2>1. s \in Slots /\ frames[t] # <<>>
    BY DEF Taken
  <2> QED
    BY <2>1, RefsPositive, RefTerms DEF Shape, Types, FramesType
<1>1. PICK n \in Nat, list \in [Nat -> Slots \union {None}] : Placed(n, list) /\ Popping(n, list)
  BY DEF Partition
<1>2. Cardinality(Working(s)) = Seats(s, WorkOps)
  <2>2. Working(s) = CallsIn(frames, FramesAt(s, WorkOps))
    BY <1>0, CountsOfModel DEF Working, WorkOps
  <2> QED
    BY <2>2 DEF Seats, Count
<1>3. Bit(On(n, list, s)) + Seats(s, WorkOps) + Bit(refcount[s] > 0) = Bit(s < slotCount)
  BY <1>0, <1>1, <1>2 DEF Placed
<1>4. On(n, list, s) \/ ~(s < slotCount)
  <2>1. CASE Top(t).op = "popCas" /\ s = Top(t).cur.slot
    BY <1>0, <1>1, <2>1 DEF Popping
  <2>2. CASE s = slotCount
    <3>1. s \in Int
      BY <1>0, StoreConstants DEF Slots
    <3> QED
      BY <2>2, <3>1
  <2> QED
    BY <2>1, <2>2 DEF Taken
<1>5. Bit(On(n, list, s)) \in {0, 1} /\ Bit(refcount[s] > 0) \in {0, 1} /\ Bit(s < slotCount) \in {0, 1}
      /\ (Bit(On(n, list, s)) = 1 \/ Bit(s < slotCount) = 0)
  BY <1>4 DEF Bit
<1>6. Seats(s, WorkOps) = 0 /\ Bit(refcount[s] > 0) = 0
  BY <1>0, <1>3, <1>5
<1>7. refcount[s] = 0
  BY <1>0, <1>6 DEF Bit
<1>8. Private(s, t, 0)
  <2> SUFFICES ASSUME NEW u \in Threads, NEW k \in 1..Len(frames[u]), frames[u][k].slot = s,
        frames[u][k].op \in WorkOps PROVE FALSE
    BY <1>7 DEF Private
  <2>1. Seats(s, WorkOps) >= 1
    BY SeatCounted
  <2> QED
    BY <1>6, <2>1
<1>9. \A u \in Threads : \A k \in 1..Len(frames[u]) : ~(Making(frames[u][k]) /\ frames[u][k].slot = s)
  <2>1. \A u \in Threads : \A k \in 1..Len(frames[u]) : Making(frames[u][k]) /\ frames[u][k].slot = s => k = 0
    BY <1>0, <1>8, PrivateSlot
  <2> QED
    BY <2>1
<1> QED
  BY <1>6, <1>7, <1>8, <1>9

\* The instances of the calls that make one.
LEMMA MakerInst ==
    ASSUME Shape, NEW u \in Threads, NEW k \in 1..Len(frames[u]), Making(frames[u][k])
    PROVE  /\ frames[u][k].inst \in Insts /\ frames[u][k].inst \in Nat /\ frames[u][k].inst <= insts
           /\ frames[u][k].kind \in Holder => frames[u][k].inst + 1 <= insts /\ frames[u][k].inst + 1 \in Insts
<1>1. MakingOK(frames[u][k])
  BY DEF Shape, ShapeOf, FrameOK
<1>2. PICK i : i = frames[u][k].inst
  OBVIOUS
<1>3. i \in Nat /\ 1 <= i /\ i <= insts /\ (frames[u][k].kind \in Holder => i + 1 <= insts)
  BY <1>1, <1>2 DEF MakingOK
<1>4. insts \in 0..MaxInst /\ MaxInst \in Nat
  BY StoreConstants DEF Shape, Types
<1> QED
  BY <1>2, <1>3, <1>4 DEF Insts

\* Taking a slot keeps Ids: the slot had no tenant and nobody works on it.
LEMMA IdsTaken ==
    ASSUME IInv, Shape', NEW t \in Threads, NEW f, NEW s, Taken(t, f, s)
    PROVE  Ids'
<1>1. /\ FramesType' /\ frames[t] # <<>> /\ Replaced(t, f) /\ Making(Top(t)) /\
             Top(t).op \in {"popCas", "grow"} /\ Top(t).slot = None
      /\ f.op = AfterTake(Top(t).kind) /\ f.slot = s /\ f.kind = Top(t).kind /\ f.inst = Top(t).inst
      /\ s \in Slots /\ memory' = [memory EXCEPT ![s] = Top(t).inst]
      /\ slotOf' = [slotOf EXCEPT ![Top(t).inst] = s]
      /\ UNCHANGED <<phase, handles, member, insts, lost, destroyed>>
  <2>1. MakingOK(Top(t)) /\ Top(t).op \in {"popCas", "grow"}
    BY DEF Taken
  <2>2. Top(t).slot = None
    BY <2>1 DEF MakingOK, PopOps
  <2> QED
    BY <2>1, <2>2 DEF Taken
<1>2. /\ Shape /\ Ids /\ Partition /\ RefcountIsHandles /\ FramesType
  BY DEF IInv, Shape, Types, FramesType
<1>3. memory \in [Slots -> Insts \union {None}] /\ slotOf \in [Insts -> Slots \union {None}] /\ insts \in 0..MaxInst
  BY <1>2 DEF Shape, Types
<1>4. None \notin Insts /\ None \notin Slots /\ MaxInst \in Nat
  BY StoreConstants DEF Insts, Slots
<1>5. Len(frames[t]) \in 1..Len(frames[t]) /\ Top(t) = frames[t][Len(frames[t])] /\ Len(frames'[t]) = Len(frames[t])
      /\ frames'[t][Len(frames[t])] = f
  BY <1>1, <1>2, FrameFacts DEF Replaced
<1>6. PICK x \in Insts : x = Top(t).inst /\ x <= insts /\ x \in Nat
  BY <1>1, <1>2, <1>5, MakerInst
<1>7. /\ \A u \in Threads : \A k \in 1..Len(frames[u]) : \A g : g = frames[u][k] => Made(g)
      /\ OneMaker /\ Unused /\ Stored /\ Tenants /\ DestroyedOnce
      /\ \A u \in Threads : frames[u] # <<>> => \A g : g = frames[u][Len(frames[u])] => Spared(g)
      /\ \A u \in Threads : \A j \in 1..(Len(frames[u]) - 1) : \A g : g = frames[u][j] => Ready(g)
  BY <1>2, IdsParts
<1>8. Unheld(x) /\ Untouched(x)
  <2>1. Made(Top(t))
    BY <1>5, <1>7
  <2> QED
    BY <1>1, <1>6, <2>1 DEF Made
<1>9. /\ refcount[s] = 0 /\ Private(s, t, 0)
      /\ \A u \in Threads : \A k \in 1..Len(frames[u]) : ~(Making(frames[u][k]) /\ frames[u][k].slot = s)
  BY <1>2, TakenVacant
\* The other data.
<1>10. /\ \A i \in Insts : Unheld(i) => Unheld(i)'
       /\ \A i \in Insts : i # x => slotOf'[i] = slotOf[i]
       /\ slotOf'[x] = s /\ memory'[s] = x
       /\ \A r \in Slots : r # s => memory'[r] = memory[r]
  BY <1>1, <1>3, <1>6 DEF Unheld
<1>11. \A i \in Insts : i # x /\ Untouched(i) => Untouched(i)'
  <2> TAKE i \in Insts
  <2> HAVE i # x /\ Untouched(i)
  <2>1. Unheld(i)' /\ slotOf'[i] = None /\ destroyed'[i] = 0
    BY <1>1, <1>10 DEF Untouched
  <2>2. \A r \in Slots : memory'[r] # i
    BY <1>10 DEF Untouched
  <2> QED
    BY <2>1, <2>2 DEF Untouched
\* The calls.
<1>12. \A u \in Threads : Len(frames'[u]) = Len(frames[u])
  BY <1>1 DEF Replaced, Rest
<1>13. \A u \in Threads : \A k \in 1..Len(frames[u]) : ~(u = t /\ k = Len(frames[t])) =>
         frames'[u][k] = frames[u][k]
  BY <1>1 DEF Replaced, Rest
<1>14. \A u \in Threads : \A k \in 1..Len(frames[u]) :
         /\ Making(frames'[u][k]) => Making(frames[u][k])
         /\ frames'[u][k].inst = frames[u][k].inst
  <2> TAKE u \in Threads
  <2> TAKE k \in 1..Len(frames[u])
  <2>1. CASE u = t /\ k = Len(frames[t])
    BY <1>1, <1>5, <2>1
  <2>2. CASE ~(u = t /\ k = Len(frames[t]))
    BY <1>13, <2>2
  <2> QED
    BY <2>1, <2>2
<1>15. ASSUME NEW u \in Threads, NEW k \in 1..Len(frames'[u]), NEW g, g = frames'[u][k]
       PROVE  Made(g)'
  <2>0. k \in 1..Len(frames[u])
    BY <1>12
  <2> SUFFICES ASSUME Making(g)
               PROVE  /\ Unheld(g.inst)' /\ (g.slot = None => Untouched(g.inst)')
                      /\ g.slot # None => slotOf'[g.inst] = g.slot
                      /\ g.slot # None /\ g.op \notin PushOps => memory'[g.slot] = g.inst
    BY DEF Made, Making
  <2>1. CASE u = t /\ k = Len(frames[t])
    <3>1. g.inst = x /\ g.slot = s
      BY <1>1, <1>5, <1>6, <1>15, <2>1
    <3>2. Unheld(x)'
      BY <1>8, <1>10
    <3> QED
      BY <1>1, <1>4, <1>10, <3>1, <3>2
  <2>2. CASE ~(u = t /\ k = Len(frames[t]))
    <3>1. g = frames[u][k] /\ Made(g)
      BY <1>7, <1>13, <1>15, <2>0, <2>2
    <3>2. PICK i \in Insts : i = g.inst
      BY <1>2, <2>0, <3>1, MakerInst
    <3>3. i # x
      BY <1>1, <1>5, <1>6, <1>7, <2>0, <2>2, <3>1, <3>2 DEF OneMaker
    <3>4. g.slot # s
      BY <1>9, <2>0, <3>1
    <3>5. Unheld(i)' /\ (g.slot = None => Untouched(i)')
      BY <1>10, <1>11, <3>1, <3>2, <3>3 DEF Made
    <3>6. g.slot # None => slotOf'[i] = g.slot
      BY <1>10, <3>1, <3>2, <3>3 DEF Made
    <3>7. g.slot # None /\ g.op \notin PushOps => memory'[g.slot] = i
      <4>1. g.slot # None => g.slot \in Slots
        BY <1>2, <2>0, <3>1, MakerSlot
      <4> QED
        BY <1>10, <3>1, <3>2, <3>4, <4>1 DEF Made
    <3> QED
      BY <3>2, <3>5, <3>6, <3>7
  <2> QED
    BY <2>1, <2>2
<1>16. OneMaker'
  <2> SUFFICES ASSUME NEW v \in Threads, NEW u \in Threads, NEW j \in 1..Len(frames'[v]),
        NEW k \in 1..Len(frames'[u]),
                      Making(frames'[v][j]), Making(frames'[u][k]), frames'[u][k].inst = frames'[v][j].inst
               PROVE  u = v /\ k = j
    BY DEF OneMaker, Making
  <2>1. j \in 1..Len(frames[v]) /\ k \in 1..Len(frames[u])
    BY <1>12
  <2>2. Making(frames[v][j]) /\ Making(frames[u][k]) /\ frames[u][k].inst = frames[v][j].inst
    BY <1>14, <2>1
  <2>3. OneMaker
    BY <1>7
  <2> QED
    BY <2>1, <2>2, <2>3 DEF OneMaker
<1>17. ASSUME NEW u \in Threads, frames'[u] # <<>>, NEW g, g = frames'[u][Len(frames'[u])]
       PROVE  Spared(g)'
  <2> SUFFICES ASSUME Reserve(g)'
               PROVE  /\ Untouched(g.inst + 1)'
                      /\ \A v \in Threads : \A k \in 1..Len(frames'[v]) : Making(frames'[v][k]) =>
                             frames'[v][k].inst # g.inst + 1
    BY DEF Spared, Making
  <2>0. frames[u] # <<>>
    <3>1. frames[u] = <<>> <=> Len(frames[u]) = 0
      BY <1>2, FrameFacts
    <3>2. frames'[u] = <<>> <=> Len(frames'[u]) = 0
      <4>1. frames'[u] \in Seq(Frame)
        BY <1>1 DEF FramesType
      <4> QED
        BY <4>1
    <3> QED
      BY <1>12, <1>17, <3>1, <3>2
  <2>1. Len(frames[u]) \in 1..Len(frames[u]) /\ Top(u) = frames[u][Len(frames[u])] /\
          Len(frames'[u]) = Len(frames[u])
    BY <1>2, <1>12, <2>0, FrameFacts
  <2>2. Reserve(Top(u)) /\ Top(u).inst = g.inst
    <3>0. Making(g) /\ g.kind \in Holder /\ g.op \in PopOps \union {"construct"} /\ member[g.inst] = None
      BY <1>1 DEF Reserve, Making
    <3>1. CASE u = t
      <4>1. g = f
        BY <1>5, <1>17, <2>1, <3>1
      <4> QED
        BY <1>1, <3>0, <3>1, <4>1 DEF Reserve, Making, PopOps
    <3>2. CASE u # t
      <4>1. g = Top(u)
        BY <1>13, <1>17, <2>1, <3>2
      <4> QED
        BY <3>0, <4>1 DEF Reserve
    <3> QED
      BY <3>1, <3>2
  <2>3. Spared(Top(u))
    BY <1>7, <2>0, <2>1
  <2>4. PICK i \in Insts : i = g.inst + 1
    BY <1>2, <2>1, <2>2, MakerInst DEF Reserve
  <2>5. Untouched(i) /\ \A v \in Threads : \A k \in 1..Len(frames[v]) : Making(frames[v][k]) =>
          frames[v][k].inst # i
    BY <2>2, <2>3, <2>4 DEF Spared
  <2>6. i # x
    BY <1>1, <1>5, <1>6, <2>5
  <2>7. Untouched(i)'
    BY <1>11, <2>5, <2>6
  <2>8. \A v \in Threads : \A k \in 1..Len(frames'[v]) : Making(frames'[v][k]) => frames'[v][k].inst # i
    BY <1>12, <1>14, <2>5
  <2> QED
    BY <2>4, <2>7, <2>8
<1>18. ASSUME NEW u \in Threads, NEW j \in 1..(Len(frames'[u]) - 1), NEW g, g = frames'[u][j]
       PROVE  Ready(g)'
  <2>0. Len(frames[u]) \in Nat
    BY <1>2, FrameFacts
  <2>1. j \in 1..(Len(frames[u]) - 1) /\ j \in 1..Len(frames[u]) /\ j # Len(frames[u])
    BY <1>12, <2>0
  <2>2. g = frames[u][j] /\ Ready(g)
    BY <1>7, <1>13, <1>18, <2>1
  <2> QED
    BY <1>1, <2>2 DEF Ready
<1>19. Unused'
  <2> SUFFICES ASSUME NEW i \in Insts, i > insts PROVE Untouched(i)'
    BY <1>1 DEF Unused
  <2>1. i # x
    BY <1>3, <1>4, <1>6 DEF Insts
  <2> QED
    BY <1>7, <1>11, <2>1 DEF Unused
<1>20. Stored'
  <2> SUFFICES ASSUME NEW r \in Slots, memory'[r] # None PROVE slotOf'[memory'[r]] = r /\ destroyed'[memory'[r]] = 0
    BY DEF Stored
  <2>1. CASE r = s
    BY <1>1, <1>8, <1>10, <2>1 DEF Untouched
  <2>2. CASE r # s
    <3>1. PICK i \in Insts : i = memory[r]
      BY <1>3, <1>10, <2>2
    <3>2. i # x
      BY <1>8, <3>1 DEF Untouched
    <3>3. slotOf[i] = r /\ destroyed[i] = 0
      BY <1>4, <1>7, <3>1 DEF Stored
    <3> QED
      BY <1>1, <1>10, <2>2, <3>1, <3>2, <3>3
  <2> QED
    BY <2>1, <2>2
<1>21. Tenants'
  <2> SUFFICES ASSUME phase = "started", NEW i \in Insts, Held(i)' PROVE memory'[slotOf'[i]] = i
    BY <1>1, HeldIs
  <2>1. Held(i)
    BY <1>1 DEF Held
  <2>2. i # x
    BY <1>2, <1>8, <2>1, HeldIs DEF Shape
  <2>3. slotOf[i] # s /\ memory[slotOf[i]] = i
    BY <1>1, <1>2, <1>7, <1>9, <2>1, PrivateSlot, HeldIs
  <2>4. slotOf[i] \in Slots
    <3>1. slotOf[i] # None
      BY <1>2, <2>1, HeldNow DEF Held
    <3> QED
      BY <1>3, <3>1
  <2> QED
    BY <1>10, <2>2, <2>3, <2>4
<1>22. DestroyedOnce'
  BY <1>1, <1>7 DEF DestroyedOnce
<1> QED
  BY <1>15, <1>16, <1>17, <1>18, <1>19, <1>20, <1>21, <1>22, IdsFromParts

\* A step that begins to make instance x: g is the new call.
LEMMA IdsNew ==
    ASSUME Shape, Shape', Ids, NEW t \in Threads, NEW g, NEW x \in Insts, NEW n, n \in Nat, n # 0,
           Making(g), g.inst = x, g.slot = None, Untouched(x),
           Len(frames'[t]) = n, frames'[t][n] = g, Rest(t),
           \A j \in 1..n : j # n => j \in 1..Len(frames[t]) /\ frames'[t][j] = frames[t][j],
           \A u \in Threads : \A k \in 1..Len(frames[u]) : Making(frames[u][k]) => frames[u][k].inst # x,
           UNCHANGED <<memory, slotOf, handles, member, lost, destroyed, phase>>,
           insts' \in Nat, insts <= insts',
           Reserve(g) => /\ x + 1 \in Insts /\ Untouched(x + 1)
                         /\ \A u \in Threads : \A k \in 1..Len(frames[u]) : Making(frames[u][k]) =>
                                frames[u][k].inst # x + 1,
           \A u \in Threads \ {t} : frames[u] # <<>> /\ Making(Top(u)) /\ Top(u).kind \in Holder /\
             Reserve(Top(u)) => Top(u).inst + 1 # x,
           \A j \in 1..(n - 1) : frames'[t][j].op = "construct" => member[frames'[t][j].inst] = None
    PROVE  Ids'
<1>1. /\ \A u \in Threads : \A k \in 1..Len(frames[u]) : \A f : f = frames[u][k] => Made(f)
      /\ OneMaker /\ Unused /\ Stored /\ Tenants /\ DestroyedOnce
      /\ \A u \in Threads : frames[u] # <<>> => \A f : f = frames[u][Len(frames[u])] => Spared(f)
      /\ \A u \in Threads : \A j \in 1..(Len(frames[u]) - 1) : \A f : f = frames[u][j] => Ready(f)
  BY IdsParts
<1>2. FramesType /\ FramesType' /\ insts \in 0..MaxInst
  BY DEF Shape, Types, FramesType
<1>3. /\ \A i : Unheld(i)' <=> Unheld(i)
      /\ \A i : Untouched(i)' <=> Untouched(i)
      /\ \A f : Reserve(f)' <=> Reserve(f)
      /\ \A f : Ready(f)' <=> Ready(f)
      /\ \A f : Made(f)' <=> Made(f)
  BY DEF Unheld, Untouched, Reserve, Ready, Made, Making
<1>4. \A u \in Threads : \A k \in 1..Len(frames'[u]) : ~(u = t /\ k = n) =>
        k \in 1..Len(frames[u]) /\ frames'[u][k] = frames[u][k]
  BY DEF Rest
<1>5. ASSUME NEW u \in Threads, NEW k \in 1..Len(frames'[u]), NEW f, f = frames'[u][k]
      PROVE  Made(f)'
  <2>1. CASE u = t /\ k = n
    BY <1>3, <1>5, <2>1 DEF Made, Untouched
  <2>2. CASE ~(u = t /\ k = n)
    BY <1>1, <1>3, <1>4, <1>5, <2>2
  <2> QED
    BY <2>1, <2>2
<1>6. OneMaker'
  <2> SUFFICES ASSUME NEW v \in Threads, NEW u \in Threads, NEW j \in 1..Len(frames'[v]),
        NEW k \in 1..Len(frames'[u]),
                      Making(frames'[v][j]), Making(frames'[u][k]), frames'[u][k].inst = frames'[v][j].inst
               PROVE  u = v /\ k = j
    BY DEF OneMaker, Making
  <2>1. CASE v = t /\ j = n
    <3>1. frames'[u][k].inst = x
      BY <2>1
    <3>2. u = t /\ k = n
      BY <1>4, <3>1
    <3> QED
      BY <2>1, <3>2
  <2>2. CASE u = t /\ k = n
    <3>1. frames'[v][j].inst = x
      BY <2>2
    <3>2. v = t /\ j = n
      BY <1>4, <3>1
    <3> QED
      BY <2>2, <3>2
  <2>3. CASE ~(v = t /\ j = n) /\ ~(u = t /\ k = n)
    <3>1. /\ j \in 1..Len(frames[v]) /\ frames'[v][j] = frames[v][j]
          /\ k \in 1..Len(frames[u]) /\ frames'[u][k] = frames[u][k]
      BY <1>4, <2>3
    <3>2. Making(frames[v][j]) /\ Making(frames[u][k]) /\ frames[u][k].inst = frames[v][j].inst
      BY <3>1
    <3> QED
      BY <1>1, <3>1, <3>2 DEF OneMaker
  <2> QED
    BY <2>1, <2>2, <2>3
<1>7. ASSUME NEW u \in Threads, frames'[u] # <<>>, NEW f, f = frames'[u][Len(frames'[u])]
      PROVE  Spared(f)'
  <2> SUFFICES ASSUME Reserve(f)
               PROVE  /\ Untouched(f.inst + 1)
                      /\ \A v \in Threads : \A k \in 1..Len(frames'[v]) : Making(frames'[v][k]) =>
                             frames'[v][k].inst # f.inst + 1
    BY <1>3 DEF Spared, Making
  <2>1. CASE u = t
    <3>1. f = g
      BY <1>7, <2>1
    <3>2. /\ Untouched(x + 1)
          /\ \A v \in Threads : \A k \in 1..Len(frames[v]) : Making(frames[v][k]) => frames[v][k].inst # x + 1
      BY <3>1
    <3>3. x # x + 1
      BY StoreConstants DEF Insts
    <3>4. \A v \in Threads : \A k \in 1..Len(frames'[v]) : Making(frames'[v][k]) => frames'[v][k].inst # x + 1
      BY <1>4, <3>2, <3>3
    <3> QED
      BY <3>1, <3>2, <3>4
  <2>2. CASE u # t
    <3>1. frames'[u] = frames[u] /\ f = Top(u)
      BY <1>7, <2>2 DEF Rest, Top
    <3>2. Spared(f) /\ Making(f) /\ f.kind \in Holder
      BY <1>1, <1>7, <3>1 DEF Top, Reserve
    <3>3. f.inst + 1 # x
      BY <1>7, <2>2, <3>1, <3>2
    <3>4. \A v \in Threads : \A k \in 1..Len(frames[v]) : Making(frames[v][k]) => frames[v][k].inst # f.inst + 1
      BY <3>2 DEF Spared
    <3>5. \A v \in Threads : \A k \in 1..Len(frames'[v]) : Making(frames'[v][k]) => frames'[v][k].inst # f.inst + 1
      BY <1>4, <3>3, <3>4
    <3> QED
      BY <3>2, <3>5 DEF Spared
  <2> QED
    BY <2>1, <2>2
<1>8. ASSUME NEW u \in Threads, NEW j \in 1..(Len(frames'[u]) - 1), NEW f, f = frames'[u][j]
      PROVE  Ready(f)'
  <2>1. CASE u = t
    BY <1>8, <2>1 DEF Ready
  <2>2. CASE u # t
    <3>1. frames'[u] = frames[u]
      BY <2>2 DEF Rest
    <3> QED
      BY <1>1, <1>3, <1>8, <3>1
  <2> QED
    BY <2>1, <2>2
<1>9. Unused'
  <2> SUFFICES ASSUME NEW i \in Insts, i > insts' PROVE Untouched(i)'
    BY DEF Unused
  <2>1. i > insts
    BY <1>2, StoreConstants DEF Insts
  <2> QED
    BY <1>1, <1>3, <2>1 DEF Unused
<1>10. Stored' /\ Tenants' /\ DestroyedOnce'
  BY <1>1 DEF Stored, Tenants, DestroyedOnce
<1> QED
  BY <1>5, <1>6, <1>7, <1>8, <1>9, <1>10, IdsFromParts

\* Resolve keeps Ids: the numbers it takes are fresh.
LEMMA IdsResolve ==
    ASSUME Shape, Shape', Ids, NEW t \in Threads, NEW k \in Kinds, Resolve(t, k)
    PROVE  Ids'
<1>1. /\ insts + 1 \in Insts /\ insts + Needs(k) \in 0..MaxInst /\ insts' = insts + Needs(k)
      /\ UNCHANGED <<memory, slotOf, handles, member, lost, destroyed, phase>>
  BY ResolveDoes DEF Resolve
<1>2. PICK g : Begun(t, g) /\ Starting(g, k, insts + 1)
  BY ResolveDoes
<1>3. PICK x \in Insts : x = insts + 1
  BY <1>1
<1>4. insts \in 0..MaxInst /\ MaxInst \in Nat /\ FramesType /\ insts \in Nat
  BY StoreConstants DEF Shape, Types, FramesType
<1>5. Unused
  BY IdsParts
<1>6. x > insts /\ insts <= insts' /\ insts' \in Nat /\ (k \in Holder => x + 1 \in Insts /\ x + 1 > insts)
  BY <1>1, <1>3, <1>4 DEF Needs, Insts
<1>7. Untouched(x) /\ (k \in Holder => Untouched(x + 1))
  <2>1. Untouched(x)
    BY <1>5, <1>6 DEF Unused
  <2>2. k \in Holder => Untouched(x + 1)
    BY <1>5, <1>6 DEF Unused
  <2> QED
    BY <2>1, <2>2
<1>8. \A u \in Threads : \A j \in 1..Len(frames[u]) : Making(frames[u][j]) =>
        frames[u][j].inst # x /\ frames[u][j].inst # x + 1
  <2> TAKE u \in Threads
  <2> TAKE j \in 1..Len(frames[u])
  <2> HAVE Making(frames[u][j])
  <2>1. PICK i : i = frames[u][j].inst
    OBVIOUS
  <2>2. i \in Nat /\ i <= insts
    BY <2>1, MakerInst
  <2> QED
    BY <1>3, <1>4, <2>1, <2>2
<1>9. Making(g) /\ g.inst = x /\ g.slot = None /\ g.kind = k
  <2>1. None \notin Insts
    BY StoreConstants DEF Insts
  <2> QED
    BY <1>2, <1>3, <2>1 DEF Starting, Making
<1>10. \A u \in Threads \ {t} : frames[u] # <<>> /\ Making(Top(u)) /\ Top(u).kind \in Holder /\
         Reserve(Top(u)) => Top(u).inst + 1 # x
  <2> TAKE u \in Threads \ {t}
  <2> HAVE frames[u] # <<>> /\ Making(Top(u)) /\ Top(u).kind \in Holder /\ Reserve(Top(u))
  <2>1. Len(frames[u]) \in 1..Len(frames[u]) /\ Top(u) = frames[u][Len(frames[u])]
    BY <1>4, FrameFacts
  <2>2. PICK i : i = Top(u).inst
    OBVIOUS
  <2>3. i \in Nat /\ i + 1 <= insts
    BY <2>1, <2>2, MakerInst
  <2> QED
    BY <1>3, <1>4, <2>2, <2>3
<1>11. Rest(t) /\ Len(frames'[t]) = 1 /\ frames'[t][1] = g
  BY <1>2 DEF Begun
<1>12. Reserve(g) => k \in Holder
  BY <1>9 DEF Reserve
<1>13. PICK n : n = 1
  OBVIOUS
<1>14. n \in Nat /\ n # 0 /\ (\A j \in 1..n : j = n) /\ (\A j \in 1..(n - 1) : FALSE)
  BY <1>13
<1>15. Len(frames'[t]) = n /\ frames'[t][n] = g
  BY <1>11, <1>13
<1>16. \A j \in 1..n : j # n => j \in 1..Len(frames[t]) /\ frames'[t][j] = frames[t][j]
  BY <1>14
<1>17. \A j \in 1..(n - 1) : frames'[t][j].op = "construct" => member[frames'[t][j].inst] = None
  BY <1>14
<1>18. Reserve(g) => /\ x + 1 \in Insts /\ Untouched(x + 1)
                     /\ \A u \in Threads : \A j \in 1..Len(frames[u]) : Making(frames[u][j]) =>
                            frames[u][j].inst # x + 1
  BY <1>6, <1>7, <1>8, <1>12
<1>19. \A u \in Threads : \A j \in 1..Len(frames[u]) : Making(frames[u][j]) => frames[u][j].inst # x
  BY <1>8
<1> QED
  BY <1>1, <1>6, <1>7, <1>9, <1>10, <1>11, <1>14, <1>15, <1>16, <1>17, <1>18, <1>19, IdsNew

\* The member resolve keeps Ids: its number was reserved.
LEMMA IdsConstructMember ==
    ASSUME Shape, Shape', Ids, NEW t \in Threads, ConstructMember(t)
    PROVE  Ids'
<1>1. /\ FramesType' /\ frames[t] # <<>> /\ Making(Top(t)) /\ Top(t).op = "construct" /\ Top(t).kind \in Holder
      /\ member[Top(t).inst] = None /\ Top(t).inst + 1 \in Insts /\ UNCHANGED Data
  BY ConstructMemberDoes
<1>2. PICK g, k : k \in Kinds \ Holder /\ Pushed(t, Top(t), g) /\ Starting(g, k, Top(t).inst + 1)
  BY ConstructMemberDoes
<1>3. PICK x \in Insts : x = Top(t).inst + 1
  BY <1>1
<1>4. insts \in Nat /\ FramesType
  BY StoreConstants DEF Shape, Types, FramesType
<1>5. Len(frames[t]) \in 1..Len(frames[t]) /\ Len(frames[t]) \in Nat /\ Top(t) = frames[t][Len(frames[t])]
  BY <1>1, <1>4, FrameFacts
<1>6. OneMaker /\ Spared(Top(t)) /\ \A j \in 1..(Len(frames[t]) - 1) : \A f : f = frames[t][j] => Ready(f)
  BY <1>1, <1>5, IdsParts
<1>7. Untouched(x) /\ \A u \in Threads : \A j \in 1..Len(frames[u]) : Making(frames[u][j]) => frames[u][j].inst # x
  <2>1. Reserve(Top(t))
    BY <1>1 DEF Reserve
  <2> QED
    BY <1>3, <1>6, <2>1 DEF Spared
<1>8. Making(g) /\ g.inst = x /\ g.slot = None /\ ~Reserve(g)
  <2>1. None \notin Insts
    BY StoreConstants DEF Insts
  <2> QED
    BY <1>2, <1>3, <2>1 DEF Starting, Making, Reserve
<1>9. \A u \in Threads \ {t} : frames[u] # <<>> /\ Making(Top(u)) /\ Top(u).kind \in Holder /\
        Reserve(Top(u)) => Top(u).inst + 1 # x
  <2> TAKE u \in Threads \ {t}
  <2> HAVE frames[u] # <<>> /\ Making(Top(u)) /\ Top(u).kind \in Holder /\ Reserve(Top(u))
  <2>1. Len(frames[u]) \in 1..Len(frames[u]) /\ Top(u) = frames[u][Len(frames[u])]
    BY <1>4, FrameFacts
  <2>2. Top(u).inst # Top(t).inst
    BY <1>1, <1>5, <1>6, <2>1 DEF OneMaker
  <2>3. Top(u).inst \in Nat /\ Top(t).inst \in Nat
    BY <1>1, <1>5, <2>1, MakerInst
  <2> QED
    BY <1>3, <2>2, <2>3
<1>10. PICK n : n = Len(frames[t]) + 1
  OBVIOUS
<1>11. n \in Nat /\ n # 0 /\ n - 1 = Len(frames[t])
  BY <1>5, <1>10
<1>12. Rest(t) /\ Len(frames'[t]) = n /\ frames'[t][n] = g
  BY <1>2, <1>10 DEF Pushed
<1>13. \A j \in 1..n : j # n => j \in 1..Len(frames[t]) /\ frames'[t][j] = frames[t][j]
  <2> TAKE j \in 1..n
  <2> HAVE j # n
  <2>1. j \in 1..Len(frames[t])
    BY <1>5, <1>10
  <2>2. CASE j = Len(frames[t])
    BY <1>2, <1>5, <2>1, <2>2 DEF Pushed
  <2>3. CASE j # Len(frames[t])
    BY <1>2, <2>1, <2>3 DEF Pushed
  <2> QED
    BY <2>1, <2>2, <2>3
<1>14. \A j \in 1..(n - 1) : frames'[t][j].op = "construct" => member[frames'[t][j].inst] = None
  <2> TAKE j \in 1..(n - 1)
  <2> HAVE frames'[t][j].op = "construct"
  <2>1. j \in 1..Len(frames[t]) /\ j \in 1..n /\ j # n
    BY <1>5, <1>10
  <2>2. frames'[t][j] = frames[t][j]
    BY <1>13, <2>1
  <2>3. CASE j = Len(frames[t])
    BY <1>1, <1>5, <2>2, <2>3
  <2>4. CASE j # Len(frames[t])
    <3>1. j \in 1..(Len(frames[t]) - 1)
      BY <1>5, <2>1, <2>4
    <3> QED
      BY <1>6, <2>2, <3>1 DEF Ready
  <2> QED
    BY <2>3, <2>4
<1>15. UNCHANGED <<memory, slotOf, handles, member, lost, destroyed, phase>> /\ insts' \in Nat /\ insts <= insts'
  BY <1>1, <1>4 DEF Data
<1> QED
  BY <1>7, <1>8, <1>9, <1>11, <1>12, <1>13, <1>14, <1>15, IdsNew

\* Every step keeps Ids.
LEMMA IdsStep ==
    ASSUME IInv, Shape', NEW t \in Threads, StepOf(t)
    PROVE  Ids'
BY IdsStillStep, IdsTaken, IdsThrows, IdsResolve, IdsConstructMember, IdsUnwind, IdsHooksDone, IdsHandles,
     IdsBump, IdsEmptied
   DEF StepOf, StillStep, IInv

-----------------------------------------------------------------------------
(* Every slot stays in one place.                                          *)

\* Only a quiet step or PushLink brings a call to a compare-and-swap or to the
\* load before it.
CasOps == {"popNext", "popCas", "pushCas"}
TopsFollow ==
    \A u \in Threads : frames'[u] # <<>> => \A g : g = frames'[u][Len(frames'[u])] /\ g.op \in CasOps =>
        frames[u] # <<>> /\ Top(u) = g

\* So it is when the innermost call of t is not at one of them afterwards.
LEMMA TopsRest ==
    ASSUME NEW t \in Threads, Rest(t), frames'[t] # <<>> => frames'[t][Len(frames'[t])].op \notin CasOps
    PROVE  TopsFollow
<1> SUFFICES ASSUME NEW u \in Threads, frames'[u] # <<>>, NEW g, g = frames'[u][Len(frames'[u])], g.op \in CasOps
             PROVE  frames[u] # <<>> /\ Top(u) = g
  BY DEF TopsFollow
<1>1. u # t
  OBVIOUS
<1> QED
  BY <1>1 DEF Rest, Top

\* A release that takes a step elsewhere,
LEMMA TopsGoes ==
    ASSUME Shape, NEW t \in Threads, NEW op, NEW next, Goes(t, op, next), next \notin CasOps
    PROVE  TopsFollow
<1>1. FramesType' /\ frames[t] # <<>> /\ ~Making(Top(t))
  BY DEF Goes
<1>2. ASSUME NEW f, Becomes(t, f, next, Top(t).slot, Top(t).live) PROVE TopsFollow
  BY <1>2, TopsRest DEF Becomes, Replaced
<1>3. CASE Popped(t)
  <2>1. frames'[t] # <<>> => frames'[t][Len(frames'[t])].op \in {"unwind", "bump", "sweep"}
    BY <1>1, <1>3, NoReserve
  <2> QED
    BY <1>3, <2>1, TopsRest DEF Popped, CasOps
<1> QED
  BY <1>2, <1>3 DEF Goes

\* a call that throws,
LEMMA TopsThrown ==
    ASSUME Shape, NEW t \in Threads, Thrown(t)
    PROVE  TopsFollow
<1>1. FramesType' /\ Rest(t)
  BY DEF Thrown, Raised
<1>2. frames'[t] # <<>> => frames'[t][Len(frames'[t])].op = "unwind"
  BY <1>1, NoReserve
<1> QED
  BY <1>1, <1>2, TopsRest DEF CasOps

\* and a call that goes on elsewhere are of this kind.
LEMMA TopsNew ==
    ASSUME NEW t \in Threads, NEW f, f.op \notin CasOps,
           Replaced(t, f) \/ Begun(t, f) \/ \E h : Pushed(t, h, f)
    PROVE  TopsFollow
BY TopsRest DEF Replaced, Begun, Pushed

\* The steps that do not.
MovedStep(t) ==
    \/ \E f, s : Taken(t, f, s)
    \/ LimitReached(t) \/ HooksThrow(t)
    \/ \E k \in Kinds : Resolve(t, k)
    \/ ConstructMember(t) \/ Unwind(t) \/ Activate(t) \/ HooksDone(t)
    \/ \E i \in Insts : Drop(t, i) \/ \E u \in Threads : Copy(t, u, i)
    \/ ReleaseAcquire(t) \/ ReleaseLiveSlot(t) \/ CheckLive(t) \/ DeleteIfDead(t) \/ Bump(t)
    \/ (PushCas(t) /\ head = Top(t).cur)
    \/ \E f, s : Emptied(t, f, s)
    \/ Stop(t) \/ (Sweep(t) /\ Top(t).slot = 0) \/ DestroyRegistry(t)

\* They bring no call there.
LEMMA TopsStep ==
    ASSUME Shape, Shape', NEW t \in Threads, MovedStep(t)
    PROVE  TopsFollow
<1>0. FramesType /\ FramesType'
  BY DEF Shape, Types, FramesType
<1>1. ASSUME NEW f, NEW s, Taken(t, f, s) PROVE TopsFollow
  BY <1>1, TopsNew DEF Taken, AfterTake, CasOps
<1>2. CASE LimitReached(t) \/ HooksThrow(t)
  BY <1>2, ThrowsDoes, TopsThrown
<1>3. ASSUME NEW k \in Kinds, Resolve(t, k) PROVE TopsFollow
  <2>1. PICK f : Begun(t, f) /\ Starting(f, k, insts + 1)
    BY <1>3, ResolveDoes
  <2> QED
    BY <2>1, TopsNew DEF Starting, FirstOp, CasOps
<1>4. CASE ConstructMember(t)
  <2>1. PICK g, k : Pushed(t, Top(t), g) /\ Starting(g, k, Top(t).inst + 1)
    BY <1>4, ConstructMemberDoes
  <2>2. g.op \notin CasOps
    BY <2>1 DEF Starting, FirstOp, CasOps
  <2> QED
    BY <2>1, <2>2, TopsNew
<1>5. CASE Unwind(t)
  <2>1. ASSUME NEW g, NEW s, Pushed(t, Top(t), g), Release(g, s) PROVE TopsFollow
    BY <2>1, TopsNew DEF Release, CasOps
  <2>2. ASSUME NEW f, Becomes(t, f, "pushLoad", Top(t).slot, FALSE) PROVE TopsFollow
    BY <2>2, TopsNew DEF Becomes, CasOps
  <2> QED
    BY <1>5, <2>1, <2>2, UnwindDoes, TopsThrown
<1>6. CASE Activate(t)
  <2>1. PICK f : Becomes(t, f, "hooks", Top(t).slot, Top(t).live)
    BY <1>6, ActivateDoes
  <2> QED
    BY <2>1, TopsNew DEF Becomes, CasOps
<1>7. CASE HooksDone(t)
  <2>1. Popped(t) /\ frames[t] # <<>> /\ Making(Top(t)) /\ Rest(t) /\ Len(frames'[t]) = Len(frames[t]) - 1
    BY <1>7, HooksDoneDoes DEF Popped
  <2>2. ASSUME frames'[t] # <<>> PROVE frames'[t][Len(frames'[t])].op \notin CasOps
    <3>1. Len(frames'[t]) \in Nat /\ Len(frames'[t]) # 0
      <4>1. frames'[t] \in Seq(Frame)
        BY <1>0 DEF FramesType
      <4> QED
        BY <2>2, <4>1
    <3>2. Len(frames'[t]) \in 1..Len(frames'[t])
      <4>1. PICK m : m \in Nat /\ m = Len(frames'[t]) /\ m # 0
        BY <3>1
      <4>2. m \in 1..m
        BY <4>1
      <4> QED
        BY <4>1, <4>2
    <3>3. Len(frames[t]) # 1
      BY <2>1, <3>1
    <3>4. PICK g : g = frames[t][Len(frames[t]) - 1]
      OBVIOUS
    <3>5. g.op = "construct"
      BY <2>1, <3>3, <3>4, BelowThrown
    <3>6. frames'[t][Len(frames'[t])] = g
      BY <2>1, <3>2, <3>4 DEF Popped
    <3> QED
      BY <3>5, <3>6 DEF CasOps
  <2> QED
    BY <2>1, <2>2, TopsRest
<1>8. ASSUME NEW i \in Insts, Drop(t, i) PROVE TopsFollow
  <2>1. PICK g : Begun(t, g) /\ Release(g, slotOf[i])
    BY <1>8, DropDoes
  <2> QED
    BY <2>1, TopsNew DEF Release, CasOps
<1>9. ASSUME NEW i \in Insts, NEW u \in Threads, Copy(t, u, i) PROVE TopsFollow
  <2>1. frames' = frames
    BY <1>9 DEF Copy
  <2> QED
    BY <2>1 DEF TopsFollow, Top
<1>10. CASE ReleaseAcquire(t) \/ ReleaseLiveSlot(t) \/ CheckLive(t) \/ DeleteIfDead(t) \/ Bump(t)
  <2>1. \E op, next : Goes(t, op, next) /\ next \in {"last", "done", "chkLive", "chkAlive", "pushLoad"}
    BY <1>10, ReleaseDoes
  <2> QED
    BY <2>1, TopsGoes DEF CasOps
<1>11. CASE PushCas(t) /\ head = Top(t).cur
  <2>1. Thrown(t) \/ Goes(t, "pushCas", "unlive")
    BY <1>11, PushedBackDoes
  <2> QED
    BY <2>1, TopsThrown, TopsGoes DEF CasOps
<1>12. ASSUME NEW f, NEW s, Emptied(t, f, s) PROVE TopsFollow
  <2>0. f.op \notin CasOps
    BY <1>12 DEF Emptied, CasOps
  <2>1. ASSUME NEW g, NEW r, Pushed(t, f, g), Release(g, r) PROVE TopsFollow
    BY <2>1, TopsNew DEF Release, CasOps
  <2>2. CASE Replaced(t, f)
    BY <2>0, <2>2, TopsNew
  <2> QED
    BY <1>12, <2>1, <2>2 DEF Emptied
<1>13. CASE Stop(t) \/ DestroyRegistry(t)
  <2>1. \E f : Begun(t, f) /\ f.op \in {"sweep", "chkLive"}
    BY <1>13, StopDoes, DestroyRegistryDoes
  <2> QED
    BY <2>1, TopsNew DEF CasOps
<1>14. CASE Sweep(t) /\ Top(t).slot = 0
  <2>1. Goes(t, "sweep", "done")
    BY <1>14, SweptDoes
  <2> QED
    BY <2>1, TopsGoes DEF CasOps
<1> QED
  BY <1>1, <1>2, <1>3, <1>4, <1>5, <1>6, <1>7, <1>8, <1>9, <1>10, <1>11, <1>12, <1>13, <1>14 DEF MovedStep

Lists == [Nat -> Slots \union {None}]

\* Placed, with the calls counted.
LEMMA PlacedIs ==
    ASSUME FramesType, FramesType', NEW n, NEW list
    PROVE  /\ Placed(n, list) <=>
                \A s \in Slots : Bit(On(n, list, s)) + Seats(s, WorkOps) + Bit(refcount[s] > 0) = Bit(s < slotCount)
           /\ Placed(n, list)' <=>
                \A s \in Slots : Bit(On(n, list, s)) + SeatsNext(s, WorkOps) + Bit(refcount'[s] > 0) =
                  Bit(s < slotCount')
<1>1. \A s : Cardinality(Working(s)) = Seats(s, WorkOps) /\ Cardinality(Working(s)') = SeatsNext(s, WorkOps)
  BY CountsAre
<1> QED
  BY <1>1 DEF Placed, On, Bit

\* What Popping says of one call.
Popper(f, n, list) ==
    f.op \in {"popNext", "popCas"} => /\ On(n, list, f.cur.slot)
                                      /\ f.op = "popCas" => f.nxt = nextFree[f.cur.slot]

\* Popping, call by call, before and after a step.
LEMMA PoppingIs ==
    ASSUME NEW n, NEW list
    PROVE  /\ Popping(n, list) <=> \A t \in Threads : frames[t] # <<>> => \A f : f = Top(t) => Popper(f, n, list)
           /\ Popping(n, list)' <=> \A t \in Threads : frames'[t] # <<>> =>
                \A f : f = frames'[t][Len(frames'[t])] => Popper(f, n, list)'
<1>1. Popping(n, list) <=> \A t \in Threads : frames[t] # <<>> => \A f : f = Top(t) => Popper(f, n, list)
  BY DEF Popping, Popper
<1>2. Popping(n, list)' <=> \A t \in Threads : frames'[t] # <<>> =>
                \A f : f = frames'[t][Len(frames'[t])] => Popper(f, n, list)'
  BY DEF Popping, Popper, Top, On
<1> QED
  BY <1>1, <1>2

\* A list that only grows keeps Popping.
LEMMA PoppingFollows ==
    ASSUME TopsFollow, nextFree' = nextFree, NEW n, NEW list, NEW m, NEW more, Popping(n, list),
           \A s : On(n, list, s) => On(m, more, s)
    PROVE  Popping(m, more)'
<1> SUFFICES ASSUME NEW u \in Threads, frames'[u] # <<>>, NEW f, f = frames'[u][Len(frames'[u])]
    PROVE  Popper(f, m, more)'
  BY PoppingIs
<1>1. ASSUME f.op \in {"popNext", "popCas"}
      PROVE  On(m, more, f.cur.slot) /\ (f.op = "popCas" => f.nxt = nextFree[f.cur.slot])
  <2>1. frames[u] # <<>> /\ Top(u) = f
    BY <1>1 DEF TopsFollow, CasOps
  <2>2. Popper(f, n, list)
    BY <2>1, PoppingIs
  <2> QED
    BY <1>1, <2>2 DEF Popper
<1> QED
  BY <1>1 DEF Popper, On

\* The freelist is untouched, and a slot that leaves the hands of a call or its
\* handles goes to the other.
LEMMA PartitionShift ==
    ASSUME Shape, FramesType', Partition, TopsFollow, UNCHANGED <<head, nextFree, slotCount>>,
           \A s \in Slots : SeatsNext(s, WorkOps) + Bit(refcount'[s] > 0) = Seats(s, WorkOps) + Bit(refcount[s] > 0)
    PROVE  Partition'
<1>0. FramesType
  BY DEF Shape, Types, FramesType
<1>1. PICK n \in Nat, list \in Lists : Linked(n, list) /\ Placed(n, list) /\ Popping(n, list)
  BY DEF Partition, Lists
<1>2. Linked(n, list)'
  BY <1>1 DEF Linked
<1>3. ASSUME NEW s \in Slots
      PROVE  Bit(On(n, list, s)) + SeatsNext(s, WorkOps) + Bit(refcount'[s] > 0) = Bit(s < slotCount')
  <2>1. Bit(On(n, list, s)) + Seats(s, WorkOps) + Bit(refcount[s] > 0) = Bit(s < slotCount)
    BY <1>0, <1>1, PlacedIs
  <2>2. SeatsNext(s, WorkOps) \in Nat /\ Seats(s, WorkOps) \in Nat
    BY <1>0, CountsAre
  <2>3. Bit(On(n, list, s)) \in Int /\ Bit(refcount[s] > 0) \in Int /\ Bit(refcount'[s] > 0) \in Int
    BY DEF Bit
  <2>4. SeatsNext(s, WorkOps) + Bit(refcount'[s] > 0) = Seats(s, WorkOps) + Bit(refcount[s] > 0)
    OBVIOUS
  <2>5. Bit(On(n, list, s)) + SeatsNext(s, WorkOps) + Bit(refcount'[s] > 0) =
          Bit(On(n, list, s)) + Seats(s, WorkOps) + Bit(refcount[s] > 0)
    BY <2>2, <2>3, <2>4
  <2> QED
    BY <2>1, <2>5
<1>4. Placed(n, list)'
  BY <1>0, <1>3, PlacedIs
<1>5. Popping(n, list)'
  BY <1>1, PoppingFollows
<1> QED
  BY <1>1, <1>2, <1>4, <1>5 DEF Partition, Lists

\* In particular when nothing moves.
LEMMA PartitionSame ==
    ASSUME Shape, FramesType', Partition, TopsFollow, UNCHANGED <<head, nextFree, slotCount, refcount>>,
           Same(WorkOps)
    PROVE  Partition'
BY PartitionShift DEF Same

\* A load of the head or of its link sees the freelist as it is.
LEMMA PartitionQuiet ==
    ASSUME Shape, Partition, NEW t \in Threads, NEW f, Quiet(t, f)
    PROVE  Partition'
<1>0. FramesType /\ FramesType' /\ Same(WorkOps) /\ frames[t] # <<>>
  BY CountsQuiet DEF Shape, Types, FramesType, Quiet
<1>d. UNCHANGED <<head, nextFree, slotCount, refcount>>
  BY DEF Quiet, Data
<1>1. PICK n \in Nat, list \in Lists : Linked(n, list) /\ Placed(n, list) /\ Popping(n, list)
  BY DEF Partition, Lists
<1>2. Linked(n, list)'
  BY <1>1, <1>d DEF Linked
<1>3. Placed(n, list)'
  BY <1>0, <1>1, <1>d, PlacedIs DEF Same
<1>4. Popping(n, list)'
  <2> SUFFICES ASSUME NEW u \in Threads, frames'[u] # <<>>, NEW g, g = frames'[u][Len(frames'[u])]
      PROVE  Popper(g, n, list)'
    BY PoppingIs
  <2>1. CASE u # t
    <3>1. frames'[u] = frames[u] /\ g = Top(u)
      BY <2>1 DEF Quiet, Replaced, Rest, Top
    <3>2. Popper(g, n, list)
      BY <1>1, <3>1, PoppingIs
    <3> QED
      BY <1>d, <3>2 DEF Popper, On
  <2>2. CASE u = t
    <3>1. g = f
      BY <2>2 DEF Quiet, Replaced
    <3>2. ASSUME f.op = "popNext" PROVE On(n, list, f.cur.slot)
      <4>1. f.cur.slot = list[n] /\ list[n] # None
        BY <1>1, <3>2 DEF Quiet, Linked
      <4>2. n # 0
        BY <1>1, <4>1 DEF Linked
      <4>3. n \in 1..n
        BY <4>2
      <4> QED
        BY <4>1, <4>3 DEF On
    <3>3. ASSUME f.op = "popCas" PROVE On(n, list, f.cur.slot) /\ f.nxt = nextFree[f.cur.slot]
      <4>1. Top(t).op = "popNext" /\ f.cur = Top(t).cur /\ f.nxt = nextFree[f.cur.slot]
        BY <3>3 DEF Quiet
      <4>2. On(n, list, Top(t).cur.slot)
        BY <1>0, <1>1, <4>1 DEF Popping
      <4> QED
        BY <4>1, <4>2
    <3> QED
      BY <1>d, <3>1, <3>2, <3>3 DEF Popper, On
  <2> QED
    BY <2>1, <2>2
<1> QED
  BY <1>1, <1>2, <1>3, <1>4 DEF Partition, Lists

\* The freelist without its first slot, and with one more.
LEMMA OnLess ==
    ASSUME NEW n \in Nat, n # 0, NEW list \in Lists, Linked(n, list)
    PROVE  /\ n - 1 \in Nat /\ list[n] \in Slots /\ nextFree[list[n]] = list[n - 1] /\ head.slot = list[n]
           /\ \A r : On(n - 1, list, r) <=> On(n, list, r) /\ r # list[n]
<1>1. n \in 1..n /\ n - 1 \in Nat
  OBVIOUS
<1>2. list[n] \in Slots /\ nextFree[list[n]] = list[n - 1] /\ head.slot = list[n]
  BY <1>1 DEF Linked
<1>3. ASSUME NEW r, On(n - 1, list, r) PROVE On(n, list, r) /\ r # list[n]
  <2>1. PICK i \in 1..(n - 1) : list[i] = r
    BY <1>3 DEF On
  <2>2. i \in 1..n /\ i # n
    BY <2>1
  <2> QED
    BY <1>1, <2>1, <2>2 DEF On, Linked
<1>4. ASSUME NEW r, On(n, list, r), r # list[n] PROVE On(n - 1, list, r)
  <2>1. PICK i \in 1..n : list[i] = r
    BY <1>4 DEF On
  <2>2. i \in 1..(n - 1)
    BY <1>4, <2>1
  <2> QED
    BY <2>1, <2>2 DEF On
<1> QED
  BY <1>1, <1>2, <1>3, <1>4

Longer(n, list, s, more) ==
    /\ more \in Lists /\ more[n + 1] = s /\ n + 1 \in Nat /\ \A i \in 0..n : more[i] = list[i]
    /\ \A r : On(n + 1, more, r) <=> On(n, list, r) \/ r = s

\* There is one.
LEMMA OnMore ==
    ASSUME NEW n \in Nat, NEW list \in Lists, NEW s \in Slots
    PROVE  \E more : Longer(n, list, s, more)
<1>0. PICK more : more = [list EXCEPT ![n + 1] = s]
  OBVIOUS
<1>1. more \in Lists /\ more[n + 1] = s /\ n + 1 \in Nat /\ \A i \in 0..n : more[i] = list[i]
  BY <1>0 DEF Lists
<1>2. n + 1 \in 1..(n + 1) /\ \A i \in 1..n : i \in 1..(n + 1) /\ i \in 0..n
  OBVIOUS
<1>3. ASSUME NEW r, On(n + 1, more, r) PROVE On(n, list, r) \/ r = s
  <2>1. PICK i \in 1..(n + 1) : more[i] = r
    BY <1>3 DEF On
  <2>2. i \in 1..n \/ i = n + 1
    BY <2>1
  <2> QED
    BY <1>1, <1>2, <2>1, <2>2 DEF On
<1>4. ASSUME NEW r, On(n, list, r) \/ r = s PROVE On(n + 1, more, r)
  BY <1>1, <1>2, <1>4 DEF On
<1> QED
  BY <1>1, <1>3, <1>4 DEF Longer

\* A successful pop takes the first slot.  The other slots that are on the freelist
\* stay there; with one allocator nobody else is in the middle of a pop.
LEMMA PartitionPopped ==
    ASSUME Shape, Shape', Partition, RefcountIsHandles, OneAllocator, NEW t \in Threads, NEW f, NEW s,
           Taken(t, f, s),
           Top(t).op = "popCas", head = Top(t).cur, s = Top(t).cur.slot,
           head' = [gen |-> 0, slot |-> Top(t).nxt], slotCount' = slotCount
    PROVE  Partition'
<1>0. FramesType /\ FramesType' /\ frames[t] # <<>> /\ Making(Top(t)) /\ MakingOK(Top(t)) /\ t \in Allocators
      /\ UNCHANGED <<nextFree, refcount>> /\ TopsFollow /\ s \in Slots
  <2>1. TopsFollow
    BY TopsStep DEF MovedStep
  <2>2. frames[t] # <<>> /\ Making(Top(t)) /\ MakingOK(Top(t)) /\ UNCHANGED <<nextFree, refcount>> /\ s \in Slots
    BY DEF Taken
  <2> QED
    BY <2>1, <2>2, TopFacts DEF Shape, Types, FramesType
<1>1. PICK n \in Nat, list \in Lists : Linked(n, list) /\ Placed(n, list) /\ Popping(n, list)
  BY DEF Partition, Lists
<1>2. n # 0 /\ s = list[n] /\ head.slot = s
  <2>1. head.slot # None /\ head.slot = list[n] /\ list[0] = None
    BY <1>0, <1>1 DEF MakingOK, Linked
  <2> QED
    BY <2>1
<1>3. /\ n - 1 \in Nat /\ nextFree[list[n]] = list[n - 1]
      /\ \A r : On(n - 1, list, r) <=> On(n, list, r) /\ r # list[n]
  BY <1>1, <1>2, OnLess
<1>4. head'.slot = list[n - 1]
  <2>1. Top(t).nxt = nextFree[Top(t).cur.slot]
    BY <1>0, <1>1 DEF Popping
  <2> QED
    BY <1>2, <1>3, <2>1
<1>5. Linked(n - 1, list)'
  <2>1. \A i \in 1..(n - 1) : i \in 1..n
    BY <1>1
  <2> QED
    BY <1>0, <1>1, <1>4, <2>1 DEF Linked
<1>6. On(n, list, s) /\ Seats(s, WorkOps) = 0 /\ Shifted(WorkOps, s, 1)
  <2>1. On(n, list, s)
    BY <1>0, <1>1 DEF Popping
  <2>2. Seats(s, WorkOps) = 0
    BY TakenVacant
  <2>3. Shifted(WorkOps, s, 1)
    BY CountsTaken
  <2> QED
    BY <2>1, <2>2, <2>3
<1>7. ASSUME NEW r \in Slots
      PROVE  Bit(On(n - 1, list, r)) + SeatsNext(r, WorkOps) + Bit(refcount'[r] > 0) = Bit(r < slotCount')
  <2>1. Bit(On(n, list, r)) + Seats(r, WorkOps) + Bit(refcount[r] > 0) = Bit(r < slotCount)
    BY <1>0, <1>1, PlacedIs
  <2>2. SeatsNext(r, WorkOps) \in Nat /\ Seats(r, WorkOps) \in Nat /\ Bit(refcount[r] > 0) \in Int
    BY <1>0, CountsAre DEF Bit
  <2>3. CASE r = s
    <3>1. SeatsNext(r, WorkOps) = Seats(r, WorkOps) + 1
      BY <1>6, <2>3 DEF Shifted
    <3>2. Bit(On(n - 1, list, r)) = 0 /\ Bit(On(n, list, r)) = 1
      BY <1>2, <1>3, <1>6, <2>3 DEF Bit
    <3>3. Bit(On(n - 1, list, r)) + SeatsNext(r, WorkOps) + Bit(refcount[r] > 0) =
            Bit(On(n, list, r)) + Seats(r, WorkOps) + Bit(refcount[r] > 0)
      BY <2>2, <3>1, <3>2
    <3> QED
      BY <1>0, <2>1, <3>3
  <2>4. CASE r # s
    <3>1. SeatsNext(r, WorkOps) = Seats(r, WorkOps)
      BY <1>6, <2>2, <2>4 DEF Shifted
    <3>2. Bit(On(n - 1, list, r)) = Bit(On(n, list, r))
      BY <1>2, <1>3, <2>4 DEF Bit
    <3> QED
      BY <1>0, <2>1, <3>1, <3>2
  <2> QED
    BY <2>3, <2>4
<1>8. Placed(n - 1, list)'
  BY <1>0, <1>7, PlacedIs
<1>9. Popping(n - 1, list)'
  <2> SUFFICES ASSUME NEW u \in Threads, frames'[u] # <<>>, NEW g, g = frames'[u][Len(frames'[u])],
        g.op \in {"popNext", "popCas"} PROVE FALSE
    BY PoppingIs DEF Popper
  <2>1. frames[u] # <<>> /\ Top(u) = g
    BY <1>0 DEF TopsFollow, CasOps
  <2>2. u \in Allocators
    BY <2>1, TopFacts, MakingOps DEF PopOps
  <2>3. u = t
    BY <1>0, <2>2 DEF OneAllocator
  <2>4. g = f
    BY <2>3 DEF Taken, Replaced
  <2> QED
    BY <2>4 DEF Taken, AfterTake
<1> QED
  BY <1>1, <1>3, <1>5, <1>8, <1>9 DEF Partition, Lists

\* Growth hands out the next slot, which was nowhere.
LEMMA PartitionGrown ==
    ASSUME Shape, Shape', Partition, RefcountIsHandles, NEW t \in Threads, NEW f, NEW s, Taken(t, f, s),
           s = slotCount, slotCount' = slotCount + 1, head' = head
    PROVE  Partition'
<1>0. FramesType /\ FramesType' /\ UNCHANGED <<nextFree, refcount>> /\ TopsFollow /\ s \in Slots
  <2>1. TopsFollow
    BY TopsStep DEF MovedStep
  <2>2. UNCHANGED <<nextFree, refcount>> /\ s \in Slots
    BY DEF Taken
  <2> QED
    BY <2>1, <2>2 DEF Shape, Types, FramesType
<1>1. PICK n \in Nat, list \in Lists : Linked(n, list) /\ Placed(n, list) /\ Popping(n, list)
  BY DEF Partition, Lists
<1>2. Linked(n, list)' /\ Popping(n, list)'
  BY <1>0, <1>1, PoppingFollows DEF Linked
<1>3. Shifted(WorkOps, s, 1)
  BY CountsTaken
<1>4. slotCount \in Int /\ \A r \in Slots : r \in Int
  BY StoreConstants DEF Shape, Types, Slots
<1>7. ASSUME NEW r \in Slots
      PROVE  Bit(On(n, list, r)) + SeatsNext(r, WorkOps) + Bit(refcount'[r] > 0) = Bit(r < slotCount')
  <2>1. Bit(On(n, list, r)) + Seats(r, WorkOps) + Bit(refcount[r] > 0) = Bit(r < slotCount)
    BY <1>0, <1>1, PlacedIs
  <2>2. SeatsNext(r, WorkOps) \in Nat /\ Seats(r, WorkOps) \in Nat /\ Bit(refcount[r] > 0) \in Int /\
          Bit(On(n, list, r)) \in Int
    BY <1>0, CountsAre DEF Bit
  <2>3. CASE r = s
    <3>1. SeatsNext(r, WorkOps) = Seats(r, WorkOps) + 1
      BY <1>3, <2>3 DEF Shifted
    <3>2. Bit(r < slotCount') = 1 /\ Bit(r < slotCount) = 0
      <4>1. r < slotCount' /\ ~(r < slotCount)
        BY <1>4, <2>3
      <4> QED
        BY <4>1 DEF Bit
    <3> QED
      BY <1>0, <2>1, <2>2, <3>1, <3>2
  <2>4. CASE r # s
    <3>1. SeatsNext(r, WorkOps) = Seats(r, WorkOps)
      BY <1>3, <2>2, <2>4 DEF Shifted
    <3>2. (r < slotCount') <=> (r < slotCount)
      BY <1>4, <2>4
    <3> QED
      BY <1>0, <2>1, <3>1, <3>2 DEF Bit
  <2> QED
    BY <2>3, <2>4
<1>8. Placed(n, list)'
  BY <1>0, <1>7, PlacedIs
<1> QED
  BY <1>1, <1>2, <1>8 DEF Partition, Lists

\* A successful push puts the slot in front.
LEMMA PartitionPushedBack ==
    ASSUME Shape, Shape', Partition, Pushing, RefcountIsHandles, NEW t \in Threads, PushCas(t), head = Top(t).cur
    PROVE  Partition'
<1>0. /\ FramesType /\ FramesType' /\ UNCHANGED <<nextFree, refcount, slotCount>> /\ TopsFollow
      /\ frames[t] # <<>> /\ Top(t).op = "pushCas" /\ Len(frames[t]) \in 1..Len(frames[t]) /\
             Top(t) = frames[t][Len(frames[t])]
  <2>1. TopsFollow
    BY TopsStep DEF MovedStep
  <2>2. UNCHANGED <<nextFree, refcount, slotCount>> /\ frames[t] # <<>> /\ Top(t).op = "pushCas"
    BY PushedBackDoes
  <2> QED
    BY <2>1, <2>2, TopFacts DEF Shape, Types, FramesType
<1>s. PICK s \in Slots : s = Top(t).slot
  BY PushedBackDoes
<1>1. PICK n \in Nat, list \in Lists : Linked(n, list) /\ Placed(n, list) /\ Popping(n, list)
  BY DEF Partition, Lists
<1>2. head'.slot = s /\ nextFree[s] = list[n] /\ Shifted(WorkOps, s, -1)
  <2>1. head'.slot = s
    BY <1>s, PushedBackDoes
  <2>2. nextFree[s] = list[n]
    BY <1>0, <1>1, <1>s DEF Pushing, Linked
  <2> QED
    BY <1>s, <2>1, <2>2, CountsPushedBack
<1>3. Seats(s, WorkOps) = 1
  BY <1>0, <1>s, WorkedIsFree DEF WorkOps
<1>4. ~On(n, list, s)
  <2>1. Bit(On(n, list, s)) + Seats(s, WorkOps) + Bit(refcount[s] > 0) = Bit(s < slotCount)
    BY <1>0, <1>1, PlacedIs
  <2>2. Bit(On(n, list, s)) \in {0, 1} /\ Bit(refcount[s] > 0) \in {0, 1} /\ Bit(s < slotCount) \in {0, 1}
    BY DEF Bit
  <2>3. Bit(On(n, list, s)) = 0
    BY <1>3, <2>1, <2>2
  <2> QED
    BY <2>3 DEF Bit
<1>5. PICK more : Longer(n, list, s, more)
  BY <1>1, <1>s, OnMore
<1>6. /\ more \in Lists /\ more[n + 1] = s /\ n + 1 \in Nat /\ \A i \in 0..n : more[i] = list[i]
      /\ \A r : On(n + 1, more, r) <=> On(n, list, r) \/ r = s
  BY <1>5 DEF Longer
<1>7. Linked(n + 1, more)'
  <2>1. more[0] = None /\ head'.slot = more[n + 1]
    BY <1>1, <1>2, <1>6 DEF Linked
  <2>2. ASSUME NEW i \in 1..(n + 1) PROVE more[i] \in Slots /\ nextFree'[more[i]] = more[i - 1]
    <3>1. CASE i = n + 1
      <4>1. i - 1 = n /\ n \in 0..n
        BY <3>1
      <4> QED
        BY <1>0, <1>2, <1>6, <3>1, <4>1
    <3>2. CASE i # n + 1
      <4>1. i \in 1..n /\ i \in 0..n /\ i - 1 \in 0..n
        BY <3>2
      <4> QED
        BY <1>0, <1>1, <1>6, <4>1 DEF Linked
    <3> QED
      BY <3>1, <3>2
  <2>3. ASSUME NEW i \in 1..(n + 1), NEW j \in 1..(n + 1), more[i] = more[j] PROVE i = j
    <3>1. \A k \in 1..(n + 1) : k = n + 1 \/ (k \in 1..n /\ k \in 0..n /\ more[k] # s)
      <4>1. ASSUME NEW k \in 1..(n + 1), k # n + 1 PROVE k \in 1..n /\ k \in 0..n /\ more[k] # s
        <5>1. k \in 1..n /\ k \in 0..n
          BY <4>1
        <5> QED
          BY <1>4, <1>6, <5>1 DEF On
      <4> QED
        BY <4>1
    <3>2. CASE i = n + 1 \/ j = n + 1
      BY <1>6, <2>3, <3>1, <3>2
    <3>3. CASE i # n + 1 /\ j # n + 1
      BY <1>1, <1>6, <2>3, <3>1, <3>3 DEF Linked
    <3> QED
      BY <3>2, <3>3
  <2> QED
    BY <2>1, <2>2, <2>3 DEF Linked
<1>8. ASSUME NEW r \in Slots
      PROVE  Bit(On(n + 1, more, r)) + SeatsNext(r, WorkOps) + Bit(refcount'[r] > 0) = Bit(r < slotCount')
  <2>1. Bit(On(n, list, r)) + Seats(r, WorkOps) + Bit(refcount[r] > 0) = Bit(r < slotCount)
    BY <1>0, <1>1, PlacedIs
  <2>2. SeatsNext(r, WorkOps) \in Nat /\ Seats(r, WorkOps) \in Nat /\ Bit(refcount[r] > 0) \in Int
    BY <1>0, CountsAre DEF Bit
  <2>3. CASE r = s
    <3>1. SeatsNext(r, WorkOps) = 0
      BY <1>2, <1>3, <2>3 DEF Shifted
    <3>2. Bit(On(n, list, r)) = 0 /\ Bit(On(n + 1, more, r)) = 1 /\ Seats(r, WorkOps) = 1
      BY <1>3, <1>4, <1>6, <2>3 DEF Bit
    <3> QED
      BY <1>0, <2>1, <2>2, <3>1, <3>2
  <2>4. CASE r # s
    <3>1. SeatsNext(r, WorkOps) = Seats(r, WorkOps)
      BY <1>2, <2>2, <2>4 DEF Shifted
    <3>2. Bit(On(n + 1, more, r)) = Bit(On(n, list, r))
      BY <1>6, <2>4 DEF Bit
    <3> QED
      BY <1>0, <2>1, <3>1, <3>2
  <2> QED
    BY <2>3, <2>4
<1>9. Placed(n + 1, more)'
  BY <1>0, <1>8, PlacedIs
<1>10. Popping(n + 1, more)'
  BY <1>0, <1>1, <1>6, PoppingFollows
<1> QED
  BY <1>6, <1>7, <1>9, <1>10 DEF Partition, Lists

\* PushLink writes the link of a slot that is not on the freelist.
LEMMA PartitionPushLink ==
    ASSUME Shape, Partition, RefcountIsHandles, NEW t \in Threads, PushLink(t)
    PROVE  Partition'
<1>0. /\ FramesType /\ FramesType' /\ UNCHANGED <<head, refcount, slotCount>> /\ Same(WorkOps)
      /\ frames[t] # <<>> /\ Top(t).op = "pushLink" /\ Len(frames[t]) \in 1..Len(frames[t]) /\
             Top(t) = frames[t][Len(frames[t])]
  <2>1. UNCHANGED <<head, refcount, slotCount>> /\ frames[t] # <<>> /\ Top(t).op = "pushLink" /\ FramesType'
    BY PushLinkDoes
  <2> QED
    BY <2>1, TopFacts, CountsPushLink DEF Shape, Types, FramesType
<1>s. PICK s \in Slots : s = Top(t).slot
  BY PushLinkDoes
<1>1. PICK n \in Nat, list \in Lists : Linked(n, list) /\ Placed(n, list) /\ Popping(n, list)
  BY DEF Partition, Lists
<1>2. Seats(s, WorkOps) = 1
  BY <1>0, <1>s, WorkedIsFree DEF WorkOps
<1>3. ~On(n, list, s)
  <2>1. Bit(On(n, list, s)) + Seats(s, WorkOps) + Bit(refcount[s] > 0) = Bit(s < slotCount)
    BY <1>0, <1>1, <1>s, PlacedIs
  <2>2. Bit(On(n, list, s)) \in {0, 1} /\ Bit(refcount[s] > 0) \in {0, 1} /\ Bit(s < slotCount) \in {0, 1}
    BY DEF Bit
  <2>3. Bit(On(n, list, s)) = 0
    BY <1>2, <2>1, <2>2
  <2> QED
    BY <2>3 DEF Bit
<1>4. \A r \in Slots : r # s => nextFree'[r] = nextFree[r]
  <2>1. nextFree' = [nextFree EXCEPT ![Top(t).slot] = Top(t).cur.slot] /\
          nextFree \in [Slots -> Slots \union {None, 0}]
    BY PushLinkDoes DEF Shape, Types
  <2> QED
    BY <1>s, <2>1
<1>5. \A i \in 1..n : list[i] \in Slots /\ list[i] # s
  BY <1>1, <1>3 DEF Linked, On
<1>6. Linked(n, list)'
  BY <1>0, <1>1, <1>4, <1>5 DEF Linked
<1>7. Placed(n, list)'
  BY <1>0, <1>1, PlacedIs DEF Same
<1>8. Popping(n, list)'
  <2> SUFFICES ASSUME NEW u \in Threads, frames'[u] # <<>>, NEW g, g = frames'[u][Len(frames'[u])],
        g.op \in {"popNext", "popCas"}
               PROVE  On(n, list, g.cur.slot) /\ (g.op = "popCas" => g.nxt = nextFree'[g.cur.slot])
    BY PoppingIs DEF Popper, On
  <2>1. PICK f : Becomes(t, f, "pushCas", Top(t).slot, Top(t).live)
    BY PushLinkDoes
  <2>2. u # t
    BY <2>1 DEF Becomes, Replaced
  <2>3. frames[u] # <<>> /\ g = Top(u)
    BY <2>1, <2>2 DEF Becomes, Replaced, Rest, Top
  <2>4. On(n, list, g.cur.slot) /\ (g.op = "popCas" => g.nxt = nextFree[g.cur.slot])
    BY <1>1, <2>3 DEF Popping
  <2>5. g.cur.slot \in Slots /\ g.cur.slot # s
    BY <1>5, <2>4 DEF On
  <2> QED
    BY <1>4, <2>4, <2>5
<1> QED
  BY <1>1, <1>6, <1>7, <1>8 DEF Partition, Lists

\* A count goes from zero, or to zero, only where a call takes the slot from it
\* or gives the slot to it.
LEMMA PartitionActivate ==
    ASSUME Shape, Shape', Partition, RefcountIsHandles, NEW t \in Threads, Activate(t)
    PROVE  Partition'
<1>0. /\ FramesType /\ FramesType' /\ UNCHANGED <<head, nextFree, slotCount>> /\ TopsFollow
      /\ frames[t] # <<>> /\ Top(t).op = "activate" /\ Len(frames[t]) \in 1..Len(frames[t]) /\
             Top(t) = frames[t][Len(frames[t])]
  <2>1. UNCHANGED <<head, nextFree, slotCount>> /\ frames[t] # <<>> /\ Top(t).op = "activate"
    BY ActivateDoes DEF Activate, freelist
  <2>2. TopsFollow
    BY TopsStep DEF MovedStep
  <2> QED
    BY <2>1, <2>2, TopFacts DEF Shape, Types, FramesType
<1>s. PICK s \in Slots : s = Top(t).slot
  BY ActivateDoes
<1>1. refcount[s] = 0 /\ Shifted(WorkOps, s, -1)
  <2>1. refcount[s] = 0
    BY <1>0, <1>s, WorkedIsFree DEF WorkOps
  <2> QED
    BY <1>s, <2>1, CountsActivate
<1>2. refcount' = [refcount EXCEPT ![s] = 1] /\ refcount \in [Slots -> Int]
  BY <1>s DEF Activate, Shape, Types
<1>3. ASSUME NEW r \in Slots
      PROVE  SeatsNext(r, WorkOps) + Bit(refcount'[r] > 0) = Seats(r, WorkOps) + Bit(refcount[r] > 0)
  <2>1. SeatsNext(r, WorkOps) \in Nat /\ Seats(r, WorkOps) \in Nat /\ Bit(refcount[r] > 0) \in Int
    BY <1>0, CountsAre DEF Bit
  <2>2. CASE r = s
    <3>1. refcount'[r] = 1 /\ refcount[r] = 0
      BY <1>1, <1>2, <2>2
    <3>2. Bit(refcount'[r] > 0) = 1 /\ Bit(refcount[r] > 0) = 0
      BY <3>1 DEF Bit
    <3>3. SeatsNext(r, WorkOps) = Seats(r, WorkOps) + (-1)
      BY <1>1, <2>2 DEF Shifted
    <3> QED
      BY <2>1, <3>2, <3>3
  <2>3. CASE r # s
    <3>1. refcount'[r] = refcount[r]
      BY <1>2, <2>3
    <3>2. SeatsNext(r, WorkOps) = Seats(r, WorkOps)
      BY <1>1, <2>1, <2>3 DEF Shifted
    <3> QED
      BY <3>1, <3>2
  <2> QED
    BY <2>2, <2>3
<1> QED
  BY <1>0, <1>3, PartitionShift

\* ReleaseAcquire: the last reference becomes a call that works on the slot.
LEMMA PartitionAcquire ==
    ASSUME Shape, Shape', Partition, RefcountIsHandles, NEW t \in Threads, ReleaseAcquire(t)
    PROVE  Partition'
<1>0. /\ FramesType /\ FramesType' /\ UNCHANGED <<head, nextFree, slotCount>> /\ TopsFollow
      /\ frames[t] # <<>> /\ Top(t).op = "dec" /\ Len(frames[t]) \in 1..Len(frames[t]) /\
             Top(t) = frames[t][Len(frames[t])]
  <2>1. UNCHANGED <<head, nextFree, slotCount>> /\ frames[t] # <<>> /\ Top(t).op = "dec"
    BY DEF ReleaseAcquire, freelist, At
  <2>2. TopsFollow
    BY TopsStep DEF MovedStep
  <2> QED
    BY <2>1, <2>2, TopFacts DEF Shape, Types, FramesType
<1>s. PICK s \in Slots : s = Top(t).slot
  BY ReleaseDoes
<1>1. refcount[s] \in Nat /\ refcount[s] >= 1
  <2>1. Seats(s, RefOps) >= 1 /\ Seats(s, RefOps) \in Nat
    BY <1>0, <1>s, SeatCounted DEF RefOps
  <2>2. refcount[s] \in Nat /\ refcount[s] >= Seats(s, RefOps)
    BY <1>s, RefsPositive
  <2> QED
    BY <2>1, <2>2
<1>2. refcount' = [refcount EXCEPT ![s] = @ - 1] /\ refcount \in [Slots -> Int]
  BY <1>s DEF ReleaseAcquire, Shape, Types
<1>3. /\ refcount[s] = 1 => Shifted(WorkOps, s, 1)
      /\ refcount[s] # 1 => Same(WorkOps)
  BY <1>s, CountsAcquire
<1>4. ASSUME NEW r \in Slots
      PROVE  SeatsNext(r, WorkOps) + Bit(refcount'[r] > 0) = Seats(r, WorkOps) + Bit(refcount[r] > 0)
  <2>1. SeatsNext(r, WorkOps) \in Nat /\ Seats(r, WorkOps) \in Nat /\ Bit(refcount[r] > 0) \in Int
    BY <1>0, CountsAre DEF Bit
  <2>2. CASE r = s /\ refcount[s] = 1
    <3>1. refcount'[r] = 0 /\ refcount[r] = 1
      BY <1>2, <2>2
    <3>2. Bit(refcount'[r] > 0) = 0 /\ Bit(refcount[r] > 0) = 1
      BY <3>1 DEF Bit
    <3>3. SeatsNext(r, WorkOps) = Seats(r, WorkOps) + 1
      BY <1>3, <2>2 DEF Shifted
    <3> QED
      BY <2>1, <3>2, <3>3
  <2>3. CASE r = s /\ refcount[s] # 1
    <3>1. refcount'[r] > 0 /\ refcount[r] > 0
      BY <1>1, <1>2, <2>3
    <3>2. SeatsNext(r, WorkOps) = Seats(r, WorkOps)
      BY <1>3, <2>3 DEF Same
    <3> QED
      BY <3>1, <3>2 DEF Bit
  <2>4. CASE r # s
    <3>1. refcount'[r] = refcount[r]
      BY <1>2, <2>4
    <3>2. SeatsNext(r, WorkOps) = Seats(r, WorkOps)
      BY <1>3, <2>1, <2>4 DEF Shifted, Same
    <3> QED
      BY <3>1, <3>2
  <2> QED
    BY <2>2, <2>3, <2>4
<1> QED
  BY <1>0, <1>4, PartitionShift

\* Drop and Copy: a copied handle had a reference already.
LEMMA PartitionHandles ==
    ASSUME Shape, Shape', Partition, RefcountIsHandles, NEW t \in Threads, NEW i \in Insts,
           Drop(t, i) \/ \E u \in Threads : Copy(t, u, i)
    PROVE  Partition'
<1>0. FramesType /\ FramesType' /\ UNCHANGED <<head, nextFree, slotCount>> /\ TopsFollow
  <2>1. UNCHANGED <<head, nextFree, slotCount>>
    BY DEF Drop, Copy, freelist
  <2>2. TopsFollow
    BY TopsStep DEF MovedStep
  <2> QED
    BY <2>1, <2>2 DEF Shape, Types, FramesType
<1>1. CASE Drop(t, i)
  BY <1>0, <1>1, CountsDrop, PartitionSame DEF Drop, counts
<1>2. ASSUME NEW u \in Threads, Copy(t, u, i) PROVE Partition'
  <2>1. handles[t][i] > 0 /\ refcount' = [refcount EXCEPT ![slotOf[i]] = @ + 1] /\
          refcount \in [Slots -> Int] /\ frames' = frames
    BY <1>2 DEF Copy, Shape, Types
  <2>2. PICK s \in Slots : s = slotOf[i]
    <3>1. slotOf[i] # None
      BY <2>1, HeldNow
    <3> QED
      BY <3>1 DEF Shape, Types
  <2>3. refcount[s] \in Nat /\ refcount[s] >= 1
    BY <2>1, <2>2, RefsPositive
  <2>4. ASSUME NEW r \in Slots
        PROVE  SeatsNext(r, WorkOps) + Bit(refcount'[r] > 0) = Seats(r, WorkOps) + Bit(refcount[r] > 0)
    <3>1. refcount'[r] > 0 <=> refcount[r] > 0
      BY <2>1, <2>2, <2>3
    <3> QED
      BY <2>1, <3>1 DEF SeatsNext, Seats, Bit
  <2> QED
    BY <1>0, <2>4, PartitionShift
<1> QED
  BY <1>1, <1>2

\* The steps that leave every slot where it is.
PlacedStep(t) ==
    \/ LimitReached(t) \/ HooksThrow(t)
    \/ \E k \in Kinds : Resolve(t, k)
    \/ ConstructMember(t) \/ Unwind(t) \/ HooksDone(t)
    \/ ReleaseLiveSlot(t) \/ CheckLive(t) \/ DeleteIfDead(t) \/ Bump(t)
    \/ \E f, s : Emptied(t, f, s)
    \/ Stop(t) \/ (Sweep(t) /\ Top(t).slot = 0) \/ DestroyRegistry(t)

\* They touch neither the freelist nor a count.
LEMMA PlacedStepDoes ==
    ASSUME Shape, NEW t \in Threads, PlacedStep(t)
    PROVE  Same(WorkOps) /\ UNCHANGED <<head, nextFree, slotCount, refcount>>
<1>1. CASE LimitReached(t) \/ HooksThrow(t)
  BY <1>1, CountsThrows, ThrowsDoes
<1>2. CASE ConstructMember(t) \/ \E k \in Kinds : Resolve(t, k)
  <2>1. UNCHANGED <<head, nextFree, slotCount, refcount>>
    BY <1>2 DEF ConstructMember, Resolve, freelist, counts
  <2> QED
    BY <1>2, <2>1, CountsResolve
<1>3. CASE Unwind(t)
  BY <1>3, CountsUnwind, UnwindDoes
<1>4. CASE HooksDone(t)
  <2>1. UNCHANGED <<head, nextFree, slotCount, refcount>>
    BY <1>4 DEF HooksDone, freelist, counts
  <2> QED
    BY <1>4, <2>1, CountsHooksDone
<1>5. CASE ReleaseLiveSlot(t) \/ CheckLive(t) \/ DeleteIfDead(t) \/ Bump(t) \/ (Sweep(t) /\ Top(t).slot = 0)
  <2>1. UNCHANGED <<head, nextFree, slotCount, refcount>>
    BY <1>5 DEF ReleaseLiveSlot, CheckLive, DeleteIfDead, Bump, Sweep, freelist, counts
  <2> QED
    BY <1>5, <2>1, CountsRest
<1>6. ASSUME NEW f, NEW s, Emptied(t, f, s) PROVE Same(WorkOps) /\ UNCHANGED <<head, nextFree, slotCount, refcount>>
  <2>1. UNCHANGED <<head, nextFree, slotCount, refcount>>
    BY <1>6 DEF Emptied
  <2> QED
    BY <1>6, <2>1, CountsEmptied
<1>7. CASE Stop(t) \/ DestroyRegistry(t)
  <2>1. UNCHANGED <<head, nextFree, slotCount, refcount>>
    BY <1>7 DEF Stop, DestroyRegistry, freelist, counts
  <2> QED
    BY <1>7, <2>1, CountsEnd
<1> QED
  BY <1>1, <1>2, <1>3, <1>4, <1>5, <1>6, <1>7 DEF PlacedStep

\* With one allocator, every step keeps the slots partitioned.
LEMMA PartitionStep ==
    ASSUME IInv, Shape', OneAllocator, NEW t \in Threads, StepOf(t)
    PROVE  Partition'
<1>0. Shape /\ Partition /\ Pushing /\ RefcountIsHandles /\ FramesType'
  BY DEF IInv, Shape, Types, FramesType
<1>1. ASSUME NEW f, Quiet(t, f) PROVE Partition'
  BY <1>0, <1>1, PartitionQuiet
<1>2. ASSUME NEW f, NEW s, Taken(t, f, s) PROVE Partition'
  <2>1. CASE Top(t).op = "popCas" /\ head = Top(t).cur /\ s = Top(t).cur.slot
             /\ head' = [gen |-> 0, slot |-> Top(t).nxt] /\ slotCount' = slotCount
    BY <1>0, <1>2, <2>1, PartitionPopped
  <2>2. CASE s = slotCount /\ slotCount' = slotCount + 1 /\ head' = head
    BY <1>0, <1>2, <2>2, PartitionGrown
  <2> QED
    BY <1>2, <2>1, <2>2 DEF Taken
<1>3. CASE PlacedStep(t)
  <2>1. TopsFollow
    <3>1. MovedStep(t)
      BY <1>3 DEF PlacedStep, MovedStep
    <3> QED
      BY <1>0, <3>1, TopsStep
  <2>2. Same(WorkOps) /\ UNCHANGED <<head, nextFree, slotCount, refcount>>
    BY <1>0, <1>3, PlacedStepDoes
  <2> QED
    BY <1>0, <2>1, <2>2, PartitionSame
<1>4. CASE Activate(t)
  BY <1>0, <1>4, PartitionActivate
<1>5. CASE ReleaseAcquire(t)
  BY <1>0, <1>5, PartitionAcquire
<1>6. ASSUME NEW i \in Insts, Drop(t, i) \/ \E u \in Threads : Copy(t, u, i) PROVE Partition'
  BY <1>0, <1>6, PartitionHandles
<1>7. CASE PushLink(t)
  BY <1>0, <1>7, PartitionPushLink
<1>8. CASE PushCas(t) /\ head = Top(t).cur
  BY <1>0, <1>8, PartitionPushedBack
<1> QED
  BY <1>1, <1>2, <1>3, <1>4, <1>5, <1>6, <1>7, <1>8 DEF StepOf, PlacedStep

\* Every step keeps the link of a slot that is about to be pushed.
LEMMA PushingStep ==
    ASSUME IInv, Shape', NEW t \in Threads, StepOf(t)
    PROVE  Pushing'
<1>0. Shape /\ Partition /\ Pushing /\ RefcountIsHandles
  BY DEF IInv
<1>1. ASSUME \A u \in Threads : frames'[u] # <<>> => \A g : g = frames'[u][Len(frames'[u])] /\ g.op = "pushCas" =>
                 frames[u] # <<>> /\ Top(u) = g,
             nextFree' = nextFree
      PROVE  Pushing'
  BY <1>0, <1>1 DEF Pushing, Top
<1>2. ASSUME NEW f, Quiet(t, f) PROVE Pushing'
  <2>1. nextFree' = nextFree
    BY <1>2 DEF Quiet, Data
  <2>2. ASSUME NEW u \in Threads, frames'[u] # <<>>, NEW g, g = frames'[u][Len(frames'[u])], g.op = "pushCas"
        PROVE  frames[u] # <<>> /\ Top(u) = g
    <3>1. u # t
      BY <1>2, <2>2 DEF Quiet, Replaced
    <3> QED
      BY <1>2, <2>2, <3>1 DEF Quiet, Replaced, Rest, Top
  <2> QED
    BY <1>1, <2>1, <2>2
<1>3. CASE MovedStep(t)
  <2>1. nextFree' = nextFree
    BY <1>3 DEF MovedStep, Taken, LimitReached, HooksThrow, Resolve, ConstructMember, Unwind, Activate,
         HooksDone, Drop, Copy,
                ReleaseAcquire, ReleaseLiveSlot, CheckLive, DeleteIfDead, Bump, PushCas, Emptied, Stop, Sweep,
                  DestroyRegistry, freelist
  <2>2. TopsFollow
    BY <1>0, <1>3, TopsStep
  <2> QED
    BY <1>1, <2>1, <2>2 DEF TopsFollow, CasOps
<1>4. CASE PushLink(t)
  <2>1. /\ frames[t] # <<>> /\ Top(t).op = "pushLink" /\
               nextFree' = [nextFree EXCEPT ![Top(t).slot] = Top(t).cur.slot]
        /\ nextFree \in [Slots -> Slots \union {None, 0}]
        /\ Len(frames[t]) \in 1..Len(frames[t]) /\ Top(t) = frames[t][Len(frames[t])] /\ FramesType
    BY <1>0, <1>4, PushLinkDoes, TopFacts DEF Shape, Types
  <2>2. PICK s \in Slots : s = Top(t).slot
    BY <1>0, <1>4, PushLinkDoes
  <2>3. PICK f : Becomes(t, f, "pushCas", Top(t).slot, Top(t).live) /\ f.cur = Top(t).cur
    BY <1>0, <1>4, PushLinkDoes
  <2> SUFFICES ASSUME NEW u \in Threads, frames'[u] # <<>>, NEW g, g = frames'[u][Len(frames'[u])], g.op = "pushCas"
               PROVE  nextFree'[g.slot] = g.cur.slot
    BY DEF Pushing, Top
  <2>4. CASE u = t
    <3>1. g = f
      BY <2>3, <2>4 DEF Becomes, Replaced
    <3>2. g.slot = s /\ g.cur = Top(t).cur
      BY <2>2, <2>3, <3>1 DEF Becomes
    <3> QED
      BY <2>1, <2>2, <3>2
  <2>5. CASE u # t
    <3>1. frames[u] # <<>> /\ g = Top(u)
      BY <2>3, <2>5 DEF Becomes, Replaced, Rest, Top
    <3>2. g.slot \in Slots /\ nextFree[g.slot] = g.cur.slot
      BY <1>0, <3>1, PushSlot DEF Pushing, PushOps
    <3>3. g.slot # s
      <4>1. Private(s, t, Len(frames[t]))
        BY <1>0, <2>1, <2>2, WorkerPrivate DEF WorkOps
      <4>2. Len(frames[u]) \in 1..Len(frames[u]) /\ Top(u) = frames[u][Len(frames[u])]
        BY <2>1, <3>1, FrameFacts
      <4> QED
        BY <2>5, <3>1, <4>1, <4>2 DEF Private, WorkOps
    <3> QED
      BY <2>1, <2>2, <3>2, <3>3
  <2> QED
    BY <2>4, <2>5
<1> QED
  BY <1>2, <1>3, <1>4 DEF StepOf, MovedStep

-----------------------------------------------------------------------------
(* The live-slot count.                                                    *)

\* The slots with a count above zero, and one slot that joins or leaves them.
UsedIn(r) == {s \in Slots : r[s] > 0}

\* They are finitely many.
LEMMA UsedFinite ==
    ASSUME NEW r
    PROVE  IsFiniteSet(UsedIn(r)) /\ Cardinality(UsedIn(r)) \in Nat
<1>1. IsFiniteSet(Slots)
  BY StoreConstants, FS_Interval DEF Slots
<1>2. UsedIn(r) \subseteq Slots
  BY DEF UsedIn
<1>3. IsFiniteSet(UsedIn(r))
  BY <1>1, <1>2, FS_Subset
<1> QED
  BY <1>3, FS_CardinalityType

Joins(q, r, s) == q[s] = 0 /\ r[s] > 0 /\ \A u \in Slots : u # s => r[u] = q[u]

\* One slot more.
LEMMA UsedMore ==
    ASSUME NEW q, NEW r, NEW s \in Slots, Joins(q, r, s)
    PROVE  Cardinality(UsedIn(r)) = Cardinality(UsedIn(q)) + 1
<1>1. s \notin UsedIn(q) /\ UsedIn(r) = UsedIn(q) \union {s}
  BY DEF Joins, UsedIn
<1> QED
  BY <1>1, UsedFinite, CardMore

\* LiveCount in these terms, before and after a step.
LEMMA LiveCountIs ==
    ASSUME FramesType, FramesType'
    PROVE  /\ LiveCount <=> liveSlots = Cardinality(UsedIn(refcount)) + Count(frames, LeaveFrames)
           /\ LiveCount' <=> liveSlots' = Cardinality(UsedIn(refcount')) + Count(frames', LeaveFrames)
<1>1. Used = UsedIn(refcount) /\ Used' = UsedIn(refcount')
  BY DEF Used, UsedIn
<1>2. Cardinality(Leaving) = Count(frames, LeaveFrames) /\ Cardinality(Leaving') = Count(frames', LeaveFrames)
  BY CountsAre
<1>3. LiveCount <=> liveSlots = Cardinality(Used) + Cardinality(Leaving)
  BY DEF LiveCount
<1>4. LiveCount' <=> liveSlots' = Cardinality(Used') + Cardinality(Leaving')
  BY DEF LiveCount
<1> QED
  BY <1>1, <1>2, <1>3, <1>4

\* Nothing that LiveCount speaks of changes.
LEMMA LiveSame ==
    ASSUME Shape, Shape', LiveCount, UNCHANGED <<liveSlots, refcount>>, SameLeaving
    PROVE  LiveCount'
<1>1. FramesType /\ FramesType'
  BY DEF Shape, Types, FramesType
<1> QED
  BY <1>1, LiveCountIs DEF SameLeaving

\* Activate counts the slot it puts in use.
LEMMA LiveActivate ==
    ASSUME IInv, Shape', NEW t \in Threads, Activate(t)
    PROVE  LiveCount'
<1>0. /\ FramesType /\ FramesType' /\ Shape /\ Partition /\ RefcountIsHandles /\ LiveCount
      /\ refcount \in [Slots -> Int] /\ liveSlots' = liveSlots + 1
  BY DEF IInv, Shape, Types, FramesType, Activate
<1>1. PICK s \in Slots : s = Top(t).slot
  BY <1>0, ActivateDoes
<1>2. frames[t] # <<>> /\ Top(t).op = "activate" /\ Len(frames[t]) \in 1..Len(frames[t]) /\
        Top(t) = frames[t][Len(frames[t])]
  BY <1>0, ActivateDoes, TopFacts
<1>3. refcount[s] = 0
  BY <1>0, <1>1, <1>2, WorkedIsFree DEF WorkOps
<1>4. refcount' = [refcount EXCEPT ![s] = 1]
  BY <1>1 DEF Activate
<1>5. Joins(refcount, refcount', s)
  BY <1>0, <1>1, <1>3, <1>4 DEF Joins
<1>6. Cardinality(UsedIn(refcount')) = Cardinality(UsedIn(refcount)) + 1
  BY <1>1, <1>5, UsedMore
<1>7. SameLeaving
  BY <1>0, CountsActivate
<1>8. Cardinality(UsedIn(refcount)) \in Nat /\ Count(frames, LeaveFrames) \in Nat
  BY <1>0, UsedFinite, CountsAre
<1> QED
  BY <1>0, <1>6, <1>7, <1>8, LiveCountIs DEF SameLeaving

\* The last release leaves with the slot it takes out of use.
LEMMA LiveAcquire ==
    ASSUME IInv, Shape', NEW t \in Threads, ReleaseAcquire(t)
    PROVE  LiveCount'
<1>0. /\ FramesType /\ FramesType' /\ Shape /\ RefcountIsHandles /\ LiveCount
      /\ refcount \in [Slots -> Int] /\ liveSlots' = liveSlots
  BY DEF IInv, Shape, Types, FramesType, ReleaseAcquire
<1>1. PICK s \in Slots : s = Top(t).slot
  BY <1>0, ReleaseDoes
<1>2. frames[t] # <<>> /\ Top(t).op = "dec"
  BY DEF ReleaseAcquire, At
<1>3. refcount[s] \in Nat /\ refcount[s] >= 1
  <2>0. Len(frames[t]) \in 1..Len(frames[t]) /\ Top(t) = frames[t][Len(frames[t])]
    BY <1>0, <1>2, TopFacts
  <2>1. Seats(s, RefOps) >= 1 /\ Seats(s, RefOps) \in Nat
    BY <1>0, <1>1, <1>2, <2>0, SeatCounted DEF RefOps
  <2>2. refcount[s] \in Nat /\ refcount[s] >= Seats(s, RefOps)
    BY <1>0, <1>1, RefsPositive
  <2> QED
    BY <2>1, <2>2
<1>4. refcount' = [refcount EXCEPT ![s] = @ - 1]
  BY <1>1 DEF ReleaseAcquire
<1>5. Cardinality(UsedIn(refcount)) \in Nat /\ Count(frames, LeaveFrames) \in Nat /\
        Cardinality(UsedIn(refcount')) \in Nat
  BY <1>0, UsedFinite, CountsAre
<1>6. CASE refcount[s] = 1
  <2>1. Joins(refcount', refcount, s)
    BY <1>0, <1>1, <1>4, <1>6 DEF Joins
  <2>2. Cardinality(UsedIn(refcount)) = Cardinality(UsedIn(refcount')) + 1
    BY <1>1, <2>1, UsedMore
  <2>3. Count(frames', LeaveFrames) = Count(frames, LeaveFrames) + 1
    BY <1>0, <1>1, <1>6, CountsAcquire
  <2> QED
    BY <1>0, <1>5, <2>2, <2>3, LiveCountIs
<1>7. CASE refcount[s] # 1
  <2>1. \A r \in Slots : refcount'[r] > 0 <=> refcount[r] > 0
    BY <1>0, <1>1, <1>3, <1>4, <1>7
  <2>2. UsedIn(refcount') = UsedIn(refcount)
    BY <2>1 DEF UsedIn
  <2>3. SameLeaving
    BY <1>0, <1>1, <1>7, CountsAcquire
  <2> QED
    BY <1>0, <2>2, <2>3, LiveCountIs DEF SameLeaving
<1> QED
  BY <1>6, <1>7

\* A copied handle leaves its slot in use.
LEMMA LiveCopy ==
    ASSUME IInv, Shape', NEW t \in Threads, NEW i \in Insts, NEW u \in Threads, Copy(t, u, i)
    PROVE  LiveCount'
<1>0. /\ FramesType /\ FramesType' /\ Shape /\ RefcountIsHandles /\ LiveCount
      /\ refcount \in [Slots -> Int] /\ liveSlots' = liveSlots /\ frames' = frames
      /\ handles[t][i] > 0 /\ refcount' = [refcount EXCEPT ![slotOf[i]] = @ + 1]
  BY DEF IInv, Shape, Types, FramesType, Copy
<1>1. PICK s \in Slots : s = slotOf[i]
  <2>1. slotOf[i] # None
    BY <1>0, HeldNow
  <2> QED
    BY <1>0, <2>1 DEF Shape, Types
<1>2. refcount[s] \in Nat /\ refcount[s] >= 1
  BY <1>0, <1>1, RefsPositive
<1>3. \A r \in Slots : refcount'[r] > 0 <=> refcount[r] > 0
  BY <1>0, <1>1, <1>2
<1>4. UsedIn(refcount') = UsedIn(refcount)
  BY <1>3 DEF UsedIn
<1> QED
  BY <1>0, <1>4, LiveCountIs

\* Every step keeps the live-slot count.
LEMMA LiveStep ==
    ASSUME IInv, Shape', NEW t \in Threads, StepOf(t)
    PROVE  LiveCount'
<1>0. Shape /\ LiveCount /\ FramesType /\ FramesType'
  BY DEF IInv, Shape, Types, FramesType
<1>1. ASSUME NEW f, Quiet(t, f) PROVE LiveCount'
  BY <1>0, <1>1, CountsQuiet, LiveSame DEF Quiet, Data
<1>2. ASSUME NEW f, NEW s, Taken(t, f, s) PROVE LiveCount'
  <2>1. UNCHANGED <<liveSlots, refcount>>
    BY <1>2 DEF Taken
  <2> QED
    BY <1>0, <1>2, <2>1, CountsTaken, LiveSame
<1>3. CASE LimitReached(t) \/ HooksThrow(t)
  BY <1>0, <1>3, CountsThrows, ThrowsDoes, LiveSame
<1>4. CASE ConstructMember(t) \/ \E k \in Kinds : Resolve(t, k)
  <2>1. UNCHANGED <<liveSlots, refcount>>
    BY <1>4 DEF ConstructMember, Resolve, counts
  <2> QED
    BY <1>0, <1>4, <2>1, CountsResolve, LiveSame
<1>5. CASE Unwind(t)
  BY <1>0, <1>5, CountsUnwind, UnwindDoes, LiveSame
<1>6. CASE HooksDone(t)
  <2>1. UNCHANGED <<liveSlots, refcount>>
    BY <1>6 DEF HooksDone, counts
  <2> QED
    BY <1>0, <1>6, <2>1, CountsHooksDone, LiveSame
<1>7. ASSUME NEW i \in Insts, Drop(t, i) PROVE LiveCount'
  <2>1. UNCHANGED <<liveSlots, refcount>>
    BY <1>7 DEF Drop, counts
  <2> QED
    BY <1>0, <1>7, <2>1, CountsDrop, LiveSame
<1>8. CASE ReleaseLiveSlot(t)
  <2>1. liveSlots' = liveSlots - 1 /\ refcount' = refcount
    BY <1>8 DEF ReleaseLiveSlot
  <2>2. Count(frames', LeaveFrames) = Count(frames, LeaveFrames) - 1
    BY <1>0, <1>8, CountsRest
  <2>3. Cardinality(UsedIn(refcount)) \in Nat /\ Count(frames, LeaveFrames) \in Nat
    BY <1>0, UsedFinite, CountsAre
  <2> QED
    BY <1>0, <2>1, <2>2, <2>3, LiveCountIs
<1>9. CASE CheckLive(t) \/ DeleteIfDead(t) \/ Bump(t) \/ (Sweep(t) /\ Top(t).slot = 0)
  <2>1. UNCHANGED <<liveSlots, refcount>>
    BY <1>9 DEF CheckLive, DeleteIfDead, Bump, Sweep, counts
  <2> QED
    BY <1>0, <1>9, <2>1, CountsRest, LiveSame
<1>10. CASE PushLink(t)
  BY <1>0, <1>10, CountsPushLink, PushLinkDoes, LiveSame
<1>11. CASE PushCas(t) /\ head = Top(t).cur
  BY <1>0, <1>11, CountsPushedBack, PushedBackDoes, LiveSame
<1>12. ASSUME NEW f, NEW s, Emptied(t, f, s) PROVE LiveCount'
  <2>1. UNCHANGED <<liveSlots, refcount>>
    BY <1>12 DEF Emptied
  <2> QED
    BY <1>0, <1>12, <2>1, CountsEmptied, LiveSame
<1>13. CASE Stop(t) \/ DestroyRegistry(t)
  <2>1. UNCHANGED <<liveSlots, refcount>>
    BY <1>13 DEF Stop, DestroyRegistry, counts
  <2> QED
    BY <1>0, <1>13, <2>1, CountsEnd, LiveSame
<1> QED
  BY <1>1, <1>2, <1>3, <1>4, <1>5, <1>6, <1>7, <1>8, <1>9, <1>10, <1>11, <1>12, <1>13, LiveActivate,
       LiveAcquire, LiveCopy DEF StepOf

-----------------------------------------------------------------------------
(* The end of the store.                                                   *)

\* Nobody who has a handle, or is at work on a slot, is left when no slot is live.
LEMMA NobodyLeft ==
    ASSUME Shape, RefcountIsHandles, LiveCount
    PROVE  /\ liveSlots \in Nat
           /\ liveSlots = 0 => \A s \in Slots : refcount[s] = 0
           /\ liveSlots = 0 => \A u \in Threads, k \in Nat : k \in 1..Len(frames[u]) =>
                  frames[u][k] \notin LeaveFrames
           /\ \A t \in Threads : frames[t] # <<>> /\ Top(t).op = "unlive" /\ liveSlots = 1 =>
                /\ \A s \in Slots : refcount[s] = 0
                /\ \A u \in Threads, k \in Nat : k \in 1..Len(frames[u]) /\ frames[u][k] \in LeaveFrames =>
                       u = t /\ k = Len(frames[t])
<1>0. FramesType
  BY DEF Shape, Types, FramesType
<1>1. Used = UsedIn(refcount) /\ Cardinality(Leaving) = Count(frames, LeaveFrames)
  BY <1>0, CountsOfModel DEF Used, UsedIn, Count
<1>2. IsFiniteSet(Used) /\ Cardinality(Used) \in Nat
  BY <1>1, UsedFinite
<1>3. Count(frames, LeaveFrames) \in Nat
  <2>1. frames \in Stacks
    BY <1>0 DEF FramesType, Stacks
  <2> QED
    BY <2>1, CallsFinite
<1>4. liveSlots = Cardinality(Used) + Count(frames, LeaveFrames)
  BY <1>1 DEF LiveCount
<1>5. liveSlots \in Nat /\ (liveSlots = 0 => Cardinality(Used) = 0 /\ Count(frames, LeaveFrames) = 0)
  BY <1>2, <1>3, <1>4
<1>6. ASSUME Cardinality(Used) = 0 PROVE \A s \in Slots : refcount[s] = 0
  <2>1. Used = {}
    BY <1>2, <1>6, FS_EmptySet
  <2>2. \A s \in Slots : refcount[s] \in Nat /\ ~(refcount[s] > 0)
    BY <2>1, RefsPositive DEF Used
  <2> QED
    BY <2>2
<1>7. ASSUME liveSlots = 0, NEW u \in Threads, NEW k \in Nat, k \in 1..Len(frames[u]),
             frames[u][k] \in LeaveFrames PROVE FALSE
  <2>1. Count(frames, LeaveFrames) >= 1
    BY <1>0, <1>7, CountAtLeast
  <2> QED
    BY <1>5, <1>7, <2>1
<1>8. ASSUME NEW t \in Threads, frames[t] # <<>>, Top(t).op = "unlive", liveSlots = 1
      PROVE  /\ \A s \in Slots : refcount[s] = 0
             /\ \A u \in Threads, k \in Nat : k \in 1..Len(frames[u]) /\ frames[u][k] \in LeaveFrames =>
                    u = t /\ k = Len(frames[t])
  <2>1. Len(frames[t]) \in 1..Len(frames[t]) /\ Top(t) = frames[t][Len(frames[t])] /\ Top(t) \in Frame
    BY <1>8, TopFacts
  <2>2. Top(t) \in LeaveFrames
    BY <1>8, <2>1, MakingOps DEF LeaveFrames, LeaveOps
  <2>3. /\ Count(frames, LeaveFrames) >= 1
        /\ \A u \in Threads : \A k \in 1..Len(frames[u]) :
             frames[u][k] \in LeaveFrames /\ ~(u = t /\ k = Len(frames[t])) => Count(frames, LeaveFrames) >= 2
    BY <1>0, <2>1, <2>2, CountAtLeast
  <2>4. Cardinality(Used) = 0 /\ ~(Count(frames, LeaveFrames) >= 2)
    BY <1>2, <1>3, <1>4, <1>8, <2>3
  <2> QED
    BY <1>6, <2>3, <2>4
<1> QED
  BY <1>5, <1>6, <1>7, <1>8

\* Once the registry is gone, a call that is not asking whether the store can go
\* has a slot in its hands, or a handle.
LEMMA LateCalls ==
    ASSUME Shape, RefcountIsHandles, phase \in {"dying", "dead"}, NEW u \in Threads, NEW k \in 1..Len(frames[u]),
           frames[u][k].op \notin AskOps
    PROVE  /\ frames[u][k].op \in {"dec"} \union LeaveOps /\ ~Making(frames[u][k]) /\ frames[u][k].slot \in Slots
           /\ frames[u][k] \in LeaveFrames \/ refcount[frames[u][k].slot] > 0
<1>1. ShapeOf(u) /\ FramesType
  BY DEF Shape, Types, FramesType
<1>2. frames[u][k] \in Frame /\ ~Making(frames[u][k]) /\ ReleasingOK(frames[u][k]) /\ frames[u][k].op # "sweep"
  <2>1. frames[u][k] \in Frame
    BY <1>1, FrameFacts
  <2>2. FrameOK(frames[u][k]) /\ (Making(frames[u][k]) => phase = "started") /\
          (frames[u][k].op = "sweep" => phase = "stopping")
    BY <1>1 DEF ShapeOf
  <2> QED
    BY <2>1, <2>2 DEF FrameOK
<1>3. frames[u][k].op \in {"dec"} \union LeaveOps /\ frames[u][k].slot \in Slots
  BY <1>2 DEF ReleasingOK, LeaveOps, PushOps
<1>4. CASE frames[u][k].op \in LeaveOps
  BY <1>2, <1>3, <1>4 DEF LeaveFrames
<1>5. CASE frames[u][k].op = "dec"
  <2>1. PICK s \in Slots : s = frames[u][k].slot
    BY <1>3
  <2>2. Seats(s, RefOps) >= 1 /\ Seats(s, RefOps) \in Nat
    BY <1>5, <2>1, SeatCounted DEF RefOps
  <2>3. refcount[s] \in Nat /\ refcount[s] >= Seats(s, RefOps)
    BY <2>1, RefsPositive
  <2>4. refcount[s] > 0
    BY <2>2, <2>3
  <2> QED
    BY <1>2, <1>3, <2>1, <2>4
<1> QED
  BY <1>2, <1>3, <1>4, <1>5

\* The steps that change the phase or delete the store.
LEMMA PhaseStep ==
    ASSUME Shape, NEW t \in Threads, StepOf(t)
    PROVE  /\ frees' = frees \/ DeleteIfDead(t)
           /\ phase' = phase \/ Stop(t) \/ (Sweep(t) /\ Top(t).slot = 0) \/ DestroyRegistry(t) \/
                  CheckLive(t) \/ DeleteIfDead(t)
<1>1. ASSUME NEW f, Quiet(t, f) PROVE frees' = frees /\ phase' = phase
  BY <1>1 DEF Quiet, Data
<1>2. ASSUME NEW f, NEW s, Taken(t, f, s) PROVE frees' = frees /\ phase' = phase
  BY <1>2 DEF Taken
<1>3. ASSUME NEW f, NEW s, Emptied(t, f, s) PROVE frees' = frees /\ phase' = phase
  BY <1>3 DEF Emptied
<1>4. CASE LimitReached(t) \/ HooksThrow(t) \/ (\E k \in Kinds : Resolve(t, k)) \/ ConstructMember(t) \/ Unwind(t)
           \/ Activate(t) \/ HooksDone(t) \/ (\E i \in Insts : Drop(t, i) \/ \E u \in Threads : Copy(t, u, i))
           \/ ReleaseAcquire(t) \/ ReleaseLiveSlot(t) \/ Bump(t) \/ PushLink(t) \/ PushCas(t)
  BY <1>4 DEF LimitReached, HooksThrow, Resolve, ConstructMember, Unwind, Activate, HooksDone, Drop, Copy,
       ReleaseAcquire,
              ReleaseLiveSlot, Bump, PushLink, PushCas
<1>5. CASE Stop(t) \/ (Sweep(t) /\ Top(t).slot = 0) \/ DestroyRegistry(t) \/ CheckLive(t)
  <2>1. frees' = frees
    BY <1>5 DEF Stop, Sweep, DestroyRegistry, CheckLive
  <2> QED
    BY <1>5, <2>1
<1> QED
  BY <1>1, <1>2, <1>3, <1>4, <1>5 DEF StepOf

\* What a thread can do once the registry is gone.
Releases(t) ==
    /\ frames[t] # <<>> /\ Top(t).op \notin AskOps /\ phase' = phase /\ frees' = frees /\ Rest(t)
    /\ liveSlots' = liveSlots /\ (frames'[t] # <<>> => frames'[t][Len(frames'[t])].op \notin AskOps)

\* A step of a release that neither asks nor leaves.
LEMMA LateRelease ==
    ASSUME Shape, NEW t \in Threads, NEW op, NEW next, Goes(t, op, next), op \notin AskOps, next \notin AskOps,
           phase' = phase, frees' = frees, liveSlots' = liveSlots
    PROVE  Releases(t)
<1>1. FramesType' /\ frames[t] # <<>> /\ ~Making(Top(t)) /\ Top(t).op = op
  BY DEF Goes
<1>2. ASSUME NEW f, Becomes(t, f, next, Top(t).slot, Top(t).live) PROVE Releases(t)
  BY <1>1, <1>2 DEF Becomes, Replaced, Releases
<1>3. CASE Popped(t)
  <2>1. frames'[t] # <<>> => frames'[t][Len(frames'[t])].op \in {"unwind", "bump", "sweep"}
    BY <1>1, <1>3, NoReserve
  <2> QED
    BY <1>1, <1>3, <2>1 DEF Popped, Releases, AskOps
<1> QED
  BY <1>2, <1>3 DEF Goes

\* It drops a handle, goes on with a release, or asks whether the store can go.
LEMMA LateStep ==
    ASSUME Shape, NEW t \in Threads, StepOf(t), phase \in {"dying", "dead"}
    PROVE  \/ \E i \in Insts : Drop(t, i)
           \/ Releases(t) \/ ReleaseLiveSlot(t) \/ CheckLive(t) \/ DeleteIfDead(t)
<1>0. frames[t] # <<>> => ~Making(Top(t)) /\ Top(t).op # "sweep"
  BY TopFacts
<1>1. ASSUME NEW f, Quiet(t, f) PROVE Releases(t)
  <2>1. frames[t] # <<>> /\ Replaced(t, f) /\ f.op \notin AskOps /\ Top(t).op \notin AskOps
    BY <1>1 DEF Quiet
  <2>2. UNCHANGED <<phase, frees, liveSlots>>
    BY <1>1 DEF Quiet, Data
  <2> QED
    BY <2>1, <2>2 DEF Replaced, Releases
<1>2. ASSUME NEW f, NEW s, Taken(t, f, s) PROVE FALSE
  BY <1>0, <1>2 DEF Taken
<1>3. CASE LimitReached(t) \/ HooksThrow(t)
  BY <1>0, <1>3, ThrowsDoes DEF Thrown
<1>4. CASE (\E k \in Kinds : Resolve(t, k)) \/ Stop(t) \/ DestroyRegistry(t) \/ \E i \in Insts,
        u \in Threads : Copy(t, u, i)
  BY <1>4 DEF Resolve, Stop, DestroyRegistry, Copy
<1>5. CASE ConstructMember(t) \/ Unwind(t) \/ Activate(t) \/ HooksDone(t)
  BY <1>0, <1>5, ConstructMemberDoes, UnwindDoes, ActivateDoes, HooksDoneDoes
<1>6. CASE ReleaseAcquire(t)
  <2>1. \E next : Goes(t, "dec", next) /\ next \notin AskOps
    BY <1>6, ReleaseDoes DEF AskOps
  <2>2. UNCHANGED <<phase, frees, liveSlots>>
    BY <1>6 DEF ReleaseAcquire
  <2> QED
    BY <2>1, <2>2, LateRelease DEF AskOps
<1>7. CASE Bump(t)
  <2>1. Goes(t, "bump", "pushLoad")
    BY <1>7, ReleaseDoes
  <2>2. UNCHANGED <<phase, frees, liveSlots>>
    BY <1>7 DEF Bump, counts
  <2> QED
    BY <2>1, <2>2, LateRelease DEF AskOps
<1>8. CASE PushLink(t)
  <2>1. PICK f : Becomes(t, f, "pushCas", Top(t).slot, Top(t).live)
    BY <1>8, PushLinkDoes
  <2>2. UNCHANGED <<phase, frees, liveSlots>> /\ frames[t] # <<>> /\ Top(t).op = "pushLink"
    BY <1>8, PushLinkDoes
  <2> QED
    BY <2>1, <2>2 DEF Becomes, Replaced, Releases, AskOps
<1>9. CASE PushCas(t) /\ head = Top(t).cur
  <2>1. UNCHANGED <<phase, frees, liveSlots>> /\ Goes(t, "pushCas", "unlive")
    BY <1>0, <1>9, PushedBackDoes
  <2> QED
    BY <2>1, LateRelease DEF AskOps
<1>10. ASSUME NEW f, NEW s, Emptied(t, f, s) PROVE Releases(t)
  <2>1. /\ frames[t] # <<>> /\ UNCHANGED <<phase, frees, liveSlots>> /\ Top(t).op \notin AskOps /\
               f.op \notin AskOps
        /\ Replaced(t, f) \/ \E g, r : Pushed(t, f, g) /\ Release(g, r)
    BY <1>10 DEF Emptied, AskOps
  <2>2. ASSUME NEW g, NEW r, Pushed(t, f, g), Release(g, r) PROVE Releases(t)
    <3>1. g.op = "dec" /\ Rest(t) /\ Len(frames'[t]) = Len(frames[t]) + 1 /\ frames'[t][Len(frames[t]) + 1] = g
      BY <2>2 DEF Pushed, Release
    <3>2. frames'[t][Len(frames'[t])].op \notin AskOps
      BY <3>1 DEF AskOps
    <3> QED
      BY <2>1, <3>1, <3>2 DEF Releases
  <2>3. CASE Replaced(t, f)
    BY <2>1, <2>3 DEF Replaced, Releases
  <2> QED
    BY <2>1, <2>2, <2>3
<1>11. CASE Sweep(t)
  BY <1>0, <1>11 DEF Sweep, At
<1> QED
  BY <1>1, <1>2, <1>3, <1>4, <1>5, <1>6, <1>7, <1>8, <1>9, <1>10, <1>11 DEF StepOf

\* Asking, for the calls after a step.
LEMMA AskingIs ==
    /\ \A u \in Threads : Asking(u)' <=> (frames'[u] # <<>> /\ frames'[u][Len(frames'[u])].op \in AskOps)
    /\ \A t \in Threads : Alone(t)' <=> \A u \in Threads \ {t} : frames'[u] = <<>>
<1>1. ASSUME NEW u \in Threads PROVE Asking(u)' <=> (frames'[u] # <<>> /\ frames'[u][Len(frames'[u])].op \in AskOps)
  BY DEF Asking, Top
<1>2. ASSUME NEW t \in Threads PROVE Alone(t)' <=> \A u \in Threads \ {t} : frames'[u] = <<>>
  BY DEF Alone
<1> QED
  BY <1>1, <1>2

\* A thread alone in the store asks, and then it is empty or the thread asks on.
LEMMA AskerGoes ==
    ASSUME Shape, NEW t \in Threads, Alone(t), Len(frames[t]) = 1, Asking(t), CheckLive(t) \/ DeleteIfDead(t)
    PROVE  /\ FramesType'
           /\ CheckLive(t) /\ liveSlots = 0 =>
                Asking(t)' /\ Alone(t)' /\ Len(frames'[t]) = 1 /\ frames'[t][Len(frames'[t])].op = "chkAlive"
           /\ CheckLive(t) /\ liveSlots # 0 => \A u \in Threads : frames'[u] = <<>>
           /\ DeleteIfDead(t) => (\A u \in Threads : frames'[u] = <<>>) /\ Top(t).op = "chkAlive"
<1>1. ASSUME NEW op, Goes(t, op, "done") PROVE \A u \in Threads : frames'[u] = <<>>
  <2>1. Popped(t) /\ FramesType'
    BY <1>1 DEF Goes, Becomes, Frame, Ops
  <2>2. Len(frames'[t]) = 0
    BY <2>1 DEF Popped
  <2>3. frames'[t] = <<>>
    <3>1. frames'[t] \in Seq(Frame)
      BY <2>1 DEF FramesType
    <3> QED
      BY <2>2, <3>1
  <2> QED
    BY <2>1, <2>3 DEF Popped, Rest, Alone
<1>2. ASSUME Goes(t, "chkLive", "chkAlive")
      PROVE  Asking(t)' /\ Alone(t)' /\ Len(frames'[t]) = 1 /\ frames'[t][Len(frames'[t])].op = "chkAlive"
  <2>1. PICK f : Becomes(t, f, "chkAlive", Top(t).slot, Top(t).live)
    BY <1>2 DEF Goes
  <2>2. Len(frames'[t]) = 1 /\ frames'[t][Len(frames'[t])].op = "chkAlive" /\ Rest(t)
    BY <2>1 DEF Becomes, Replaced
  <2>3. frames'[t] # <<>>
    BY <2>2
  <2> QED
    BY <2>2, <2>3, AskingIs DEF Rest, Alone, AskOps
<1>3. CASE CheckLive(t)
  <2>1. Goes(t, "chkLive", IF liveSlots = 0 THEN "chkAlive" ELSE "done")
    BY <1>3, ReleaseDoes
  <2>2. FramesType' /\ Top(t).op = "chkLive"
    BY <2>1 DEF Goes
  <2>3. ~DeleteIfDead(t)
    BY <2>2 DEF DeleteIfDead, At
  <2> QED
    BY <1>1, <1>2, <2>1, <2>2, <2>3
<1>4. CASE DeleteIfDead(t)
  <2>1. Goes(t, "chkAlive", "done")
    BY <1>4, ReleaseDoes
  <2>2. FramesType' /\ Top(t).op = "chkAlive"
    BY <2>1 DEF Goes
  <2>3. ~CheckLive(t)
    BY <2>2 DEF CheckLive, At
  <2> QED
    BY <1>1, <1>4, <2>1, <2>2, <2>3
<1> QED
  BY <1>3, <1>4

\* End after a step, part by part.
LEMMA EndIs ==
    /\ Undeleted' <=> (phase' \notin {"dying", "dead"} => frees' = 0)
    /\ Dying' <=> (phase' = "dying" =>
            /\ frees' = 0
            /\ \E t \in Threads : /\ Alone(t)' /\ Len(frames'[t]) = 1 /\ Asking(t)'
                                  /\ frames'[t][Len(frames'[t])].op = "chkAlive" => liveSlots' = 0)
    /\ Awaited' <=> (phase' = "dead" /\ liveSlots' # 0 => frees' = 0 /\ \A t \in Threads : ~Asking(t)')
    /\ Deleted' <=> (phase' = "dead" /\ liveSlots' = 0 =>
            \/ frees' = 1 /\ \A t \in Threads : frames'[t] = <<>>
            \/ frees' = 0 /\ \E t \in Threads : Asking(t)' /\ Len(frames'[t]) = 1 /\ Alone(t)')
    /\ End' <=> Undeleted' /\ Dying' /\ Awaited' /\ Deleted'
<1>1. Undeleted' <=> (phase' \notin {"dying", "dead"} => frees' = 0)
  BY DEF Undeleted, Alive
<1>2. Dying' <=> (phase' = "dying" =>
            /\ frees' = 0
            /\ \E t \in Threads : /\ Alone(t)' /\ Len(frames'[t]) = 1 /\ Asking(t)'
                                  /\ frames'[t][Len(frames'[t])].op = "chkAlive" => liveSlots' = 0)
  BY DEF Dying, Top
<1>3. Awaited' <=> (phase' = "dead" /\ liveSlots' # 0 => frees' = 0 /\ \A t \in Threads : ~Asking(t)')
  BY DEF Awaited
<1>4. Deleted' <=> (phase' = "dead" /\ liveSlots' = 0 =>
            \/ frees' = 1 /\ \A t \in Threads : frames'[t] = <<>>
            \/ frees' = 0 /\ \E t \in Threads : Asking(t)' /\ Len(frames'[t]) = 1 /\ Alone(t)')
  BY DEF Deleted
<1>5. End' <=> Undeleted' /\ Dying' /\ Awaited' /\ Deleted'
  BY DEF End
<1> QED
  BY <1>1, <1>2, <1>3, <1>4, <1>5

\* While the registry is alive nothing deletes the store; its destructor then asks,
\* alone in the store.
LEMMA EndAlive ==
    ASSUME IInv, Shape', NEW t \in Threads, StepOf(t), phase \notin {"dying", "dead"}
    PROVE  End'
<1>0. Shape /\ frees = 0 /\ Alive
  BY DEF IInv, End, Undeleted, Alive
<1>1. CASE ~DestroyRegistry(t)
  <2>1. phase' \notin {"dying", "dead"} /\ frees' = frees
    <3>1. CASE DeleteIfDead(t)
      BY <1>0, <3>1 DEF DeleteIfDead
    <3>2. CASE CheckLive(t)
      BY <1>0, <3>2 DEF CheckLive
    <3>3. CASE Stop(t)
      BY <1>0, <3>3 DEF Stop
    <3>4. CASE Sweep(t) /\ Top(t).slot = 0
      BY <1>0, <3>4 DEF Sweep
    <3> QED
      BY <1>0, <1>1, <3>1, <3>2, <3>3, <3>4, PhaseStep
  <2> QED
    BY <1>0, <2>1, EndIs
<1>2. CASE DestroyRegistry(t)
  <2>1. phase' = "dying" /\ frees' = frees /\ \A u \in Threads : frames[u] = <<>>
    BY <1>2 DEF DestroyRegistry
  <2>2. PICK f : Begun(t, f) /\ f.op = "chkLive"
    BY <1>0, <1>2, DestroyRegistryDoes
  <2>3. Len(frames'[t]) = 1 /\ frames'[t][Len(frames'[t])].op = "chkLive" /\ Rest(t)
    BY <2>2 DEF Begun
  <2>4. Alone(t)' /\ Asking(t)'
    <3>1. frames'[t] # <<>>
      BY <2>3
    <3> QED
      BY <2>1, <2>3, <3>1, AskingIs DEF Rest, AskOps
  <2> QED
    BY <1>0, <2>1, <2>3, <2>4, EndIs
<1> QED
  BY <1>1, <1>2

\* The destructor finds live slots and leaves, or finds none and deletes the store.
LEMMA EndDying ==
    ASSUME IInv, Shape', NEW t \in Threads, StepOf(t), phase = "dying"
    PROVE  End'
<1>0. Shape /\ frees = 0
  BY DEF IInv, End, Dying
<1>1. PICK a \in Threads : Alone(a) /\ Len(frames[a]) = 1 /\ Asking(a) /\ (Top(a).op = "chkAlive" => liveSlots = 0)
  BY DEF IInv, End, Dying
<1>2. frames[t] # <<>> => t = a /\ Top(t).op \in AskOps
  BY <1>1 DEF Alone, Asking
<1>3. ~Releases(t) /\ ~ReleaseLiveSlot(t) /\ \A i \in Insts : ~Drop(t, i)
  BY <1>2 DEF Releases, ReleaseLiveSlot, Drop, At, AskOps
<1>4. (CheckLive(t) \/ DeleteIfDead(t)) /\ t = a
  BY <1>0, <1>2, <1>3, LateStep DEF CheckLive, DeleteIfDead, At
<1>5. CASE CheckLive(t) /\ liveSlots = 0
  <2>1. Asking(t)' /\ Alone(t)' /\ Len(frames'[t]) = 1
    BY <1>0, <1>1, <1>4, <1>5, AskerGoes
  <2>2. phase' = "dying" /\ frees' = frees /\ liveSlots' = liveSlots
    BY <1>5 DEF CheckLive, counts
  <2> QED
    BY <1>0, <1>5, <2>1, <2>2, EndIs
<1>6. CASE CheckLive(t) /\ liveSlots # 0
  <2>1. \A u \in Threads : frames'[u] = <<>>
    BY <1>0, <1>1, <1>4, <1>6, AskerGoes
  <2>2. phase' = "dead" /\ frees' = frees /\ liveSlots' = liveSlots
    BY <1>6 DEF CheckLive, counts
  <2> QED
    BY <1>0, <1>6, <2>1, <2>2, EndIs, AskingIs
<1>7. CASE DeleteIfDead(t)
  <2>1. (\A u \in Threads : frames'[u] = <<>>) /\ Top(t).op = "chkAlive"
    BY <1>0, <1>1, <1>4, <1>7, AskerGoes
  <2>2. phase' = "dead" /\ frees' = 1 /\ liveSlots' = liveSlots
    BY <1>0, <1>7 DEF DeleteIfDead, Alive, counts
  <2>3. liveSlots' = 0
    BY <1>1, <1>4, <2>1, <2>2
  <2> QED
    BY <2>1, <2>2, <2>3, EndIs
<1> QED
  BY <1>4, <1>5, <1>6, <1>7

\* The last release: nobody else is in the store.
LEMMA LastLeaves ==
    ASSUME IInv, phase = "dead", NEW t \in Threads, frames[t] # <<>>, Top(t).op = "unlive", liveSlots = 1
    PROVE  Alone(t) /\ Len(frames[t]) = 1
<1>0. Shape /\ RefcountIsHandles /\ LiveCount /\ FramesType /\ (\A u \in Threads : ~Asking(u))
  BY DEF IInv, End, Awaited, Shape, Types, FramesType
<1>1. /\ \A s \in Slots : refcount[s] = 0
      /\ \A u \in Threads, k \in Nat : k \in 1..Len(frames[u]) /\ frames[u][k] \in LeaveFrames =>
             u = t /\ k = Len(frames[t])
  BY <1>0, NobodyLeft
<1>2. ASSUME NEW u \in Threads, NEW k \in Nat, k \in 1..Len(frames[u]), frames[u][k].op \notin AskOps
      PROVE  u = t /\ k = Len(frames[t])
  BY <1>0, <1>1, <1>2, LateCalls
<1>3. ASSUME NEW u \in Threads, u # t, frames[u] # <<>> PROVE FALSE
  <2>1. Len(frames[u]) \in 1..Len(frames[u]) /\ Top(u) = frames[u][Len(frames[u])] /\ Len(frames[u]) \in Nat
    BY <1>0, <1>3, FrameFacts
  <2>2. Top(u).op \notin AskOps
    BY <1>0, <1>3 DEF Asking
  <2> QED
    BY <1>2, <1>3, <2>1, <2>2
<1>4. ASSUME Len(frames[t]) # 1 PROVE FALSE
  <2>1. PICK m : m \in Nat /\ m = Len(frames[t]) /\ m # 0 /\ m # 1
    BY <1>0, <1>4, FrameFacts
  <2>2. m - 1 \in Nat /\ m - 1 \in 1..m /\ m - 1 # m
    <3>1. m \in Nat /\ m # 0 /\ m # 1
      BY <2>1
    <3> QED
      BY <3>1
  <2>3. PICK g : g = frames[t][m - 1]
    OBVIOUS
  <2>4. ~Making(Top(t))
    BY <1>0, MakingOps
  <2>5. g.op \in {"unwind", "bump", "sweep"}
    BY <1>0, <1>4, <2>1, <2>3, <2>4, BelowRelease
  <2> QED
    BY <1>2, <2>1, <2>2, <2>3, <2>5 DEF AskOps
<1> QED
  BY <1>3, <1>4 DEF Alone

\* Later only the last release asks, and nobody can come after it.
LEMMA EndDead ==
    ASSUME IInv, Shape', NEW t \in Threads, StepOf(t), phase = "dead"
    PROVE  End'
<1>0. Shape /\ RefcountIsHandles /\ LiveCount /\ FramesType /\ FramesType' /\ liveSlots \in Nat
  <2>1. Shape /\ RefcountIsHandles /\ LiveCount
    BY DEF IInv
  <2> QED
    BY <2>1, NobodyLeft DEF Shape, Types, FramesType
<1>1. CASE liveSlots # 0
  <2>0. frees = 0 /\ \A u \in Threads : ~Asking(u)
    BY <1>1 DEF IInv, End, Awaited
  <2>1. ~CheckLive(t) /\ ~DeleteIfDead(t)
    BY <2>0 DEF CheckLive, DeleteIfDead, At, Asking, AskOps
  <2>2. ASSUME phase' = "dead", frees' = frees, liveSlots' = liveSlots, Rest(t),
               frames'[t] # <<>> => frames'[t][Len(frames'[t])].op \notin AskOps
        PROVE  End'
    <3>1. ASSUME NEW u \in Threads, Asking(u)' PROVE FALSE
      <4>1. frames'[u] # <<>> /\ frames'[u][Len(frames'[u])].op \in AskOps
        BY <3>1, AskingIs
      <4>2. u # t
        BY <2>2, <4>1
      <4>3. Asking(u)
        BY <2>2, <4>1, <4>2 DEF Rest, Asking, Top
      <4> QED
        BY <2>0, <4>3
    <3> QED
      BY <1>1, <2>0, <2>2, <3>1, EndIs
  <2>3. ASSUME NEW i \in Insts, Drop(t, i) PROVE End'
    <3>1. UNCHANGED <<phase, frees, liveSlots>>
      BY <2>3 DEF Drop, counts
    <3>2. PICK g : Begun(t, g) /\ Release(g, slotOf[i])
      BY <1>0, <2>3, DropDoes
    <3>3. Rest(t) /\ frames'[t][Len(frames'[t])].op = "dec"
      BY <3>2 DEF Begun, Release
    <3> QED
      BY <2>2, <3>1, <3>3 DEF AskOps
  <2>4. CASE Releases(t)
    BY <2>2, <2>4 DEF Releases
  <2>5. CASE ReleaseLiveSlot(t)
    <3>1. frames[t] # <<>> /\ Top(t).op = "unlive" /\ UNCHANGED <<phase, frees>> /\
            liveSlots' = liveSlots - 1 /\ ~Making(Top(t))
      <4>1. frames[t] # <<>> /\ Top(t).op = "unlive" /\ UNCHANGED <<phase, frees>> /\ liveSlots' = liveSlots - 1
        BY <2>5 DEF ReleaseLiveSlot, At
      <4> QED
        BY <1>0, <4>1, MakingOps
    <3>2. Goes(t, "unlive", IF liveSlots = 1 THEN "chkLive" ELSE "done")
      BY <1>0, <2>5, ReleaseDoes
    <3>3. CASE liveSlots = 1
      <4>1. Alone(t) /\ Len(frames[t]) = 1
        BY <3>1, <3>3, LastLeaves
      <4>2. PICK f : Becomes(t, f, "chkLive", Top(t).slot, Top(t).live)
        BY <3>2, <3>3 DEF Goes
      <4>3. Rest(t) /\ Len(frames'[t]) = 1 /\ frames'[t][Len(frames'[t])].op = "chkLive"
        BY <4>1, <4>2 DEF Becomes, Replaced
      <4>4. Asking(t)' /\ Alone(t)'
        <5>1. frames'[t] # <<>>
          BY <4>3
        <5> QED
          BY <4>1, <4>3, <5>1, AskingIs DEF Rest, Alone, AskOps
      <4>5. liveSlots' = 0
        BY <3>1, <3>3
      <4> QED
        BY <2>0, <3>1, <4>3, <4>4, <4>5, EndIs
    <3>4. CASE liveSlots # 1
      <4>1. Popped(t)
        <5>1. Goes(t, "unlive", "done")
          BY <3>2, <3>4
        <5> QED
          BY <5>1 DEF Goes
      <4>2. frames'[t] # <<>> => frames'[t][Len(frames'[t])].op \in {"unwind", "bump", "sweep"}
        BY <1>0, <3>1, <4>1, NoReserve
      <4>3. liveSlots' # 0
        BY <1>0, <3>1, <3>4
      <4>4. ASSUME NEW u \in Threads, Asking(u)' PROVE FALSE
        <5>1. frames'[u] # <<>> /\ frames'[u][Len(frames'[u])].op \in AskOps
          BY <4>4, AskingIs
        <5>2. u # t
          BY <4>2, <5>1 DEF AskOps
        <5>3. Asking(u)
          BY <4>1, <5>1, <5>2 DEF Popped, Rest, Asking, Top
        <5> QED
          BY <2>0, <5>3
      <4> QED
        BY <2>0, <3>1, <4>3, <4>4, EndIs
    <3> QED
      BY <3>3, <3>4
  <2> QED
    BY <1>0, <2>1, <2>3, <2>4, <2>5, LateStep
<1>2. CASE liveSlots = 0
  <2>0. /\ \A s \in Slots : refcount[s] = 0
        /\ \A u \in Threads, k \in Nat : k \in 1..Len(frames[u]) => frames[u][k] \notin LeaveFrames
    BY <1>0, <1>2, NobodyLeft
  <2>1. ASSUME NEW i \in Insts, Drop(t, i) PROVE FALSE
    <3>1. handles[t][i] > 0
      BY <2>1 DEF Drop
    <3>2. PICK s \in Slots : s = slotOf[i]
      BY <1>0, <2>1, DropDoes
    <3>3. refcount[s] >= 1
      BY <1>0, <3>1, <3>2, RefsPositive
    <3> QED
      BY <2>0, <3>2, <3>3
  <2>2. frames[t] # <<>>
    <3>1. Releases(t) \/ ReleaseLiveSlot(t) \/ CheckLive(t) \/ DeleteIfDead(t)
      BY <1>0, <2>1, LateStep
    <3> QED
      BY <3>1 DEF Releases, ReleaseLiveSlot, CheckLive, DeleteIfDead, At
  <2>3. PICK a \in Threads : frees = 0 /\ Asking(a) /\ Len(frames[a]) = 1 /\ Alone(a)
    BY <1>2, <2>2 DEF IInv, End, Deleted
  <2>4. t = a /\ Top(t).op \in AskOps
    BY <2>2, <2>3 DEF Alone, Asking
  <2>5. CheckLive(t) \/ DeleteIfDead(t)
    BY <1>0, <2>1, <2>4, LateStep DEF Releases, ReleaseLiveSlot, At, AskOps
  <2>6. CASE CheckLive(t)
    <3>1. Asking(t)' /\ Alone(t)' /\ Len(frames'[t]) = 1
      BY <1>0, <1>2, <2>3, <2>4, <2>6, AskerGoes
    <3>2. phase' = "dead" /\ frees' = frees /\ liveSlots' = liveSlots
      BY <2>6 DEF CheckLive, counts
    <3> QED
      BY <1>2, <2>3, <3>1, <3>2, EndIs
  <2>7. CASE DeleteIfDead(t)
    <3>1. \A u \in Threads : frames'[u] = <<>>
      BY <1>0, <2>3, <2>4, <2>7, AskerGoes
    <3>2. phase' = "dead" /\ frees' = 1 /\ liveSlots' = liveSlots
      BY <2>3, <2>7 DEF DeleteIfDead, Alive, counts
    <3> QED
      BY <1>2, <3>1, <3>2, EndIs
  <2> QED
    BY <2>5, <2>6, <2>7
<1> QED
  BY <1>1, <1>2

\* Every step keeps End.
LEMMA EndStep ==
    ASSUME IInv, Shape', NEW t \in Threads, StepOf(t)
    PROVE  End'
BY EndAlive, EndDying, EndDead

-----------------------------------------------------------------------------
(* The invariant holds at first, and every step keeps it.                  *)

\* The invariant holds initially.
LEMMA InitHolds ==
    ASSUME Init
    PROVE  IInv
<1>c. None \notin Insts /\ None \notin Slots /\ None \notin Nat /\ MaxSlots \in Nat /\ MaxInst \in Nat /\
        0 \in 0..MaxSlots /\ 0 \in 0..MaxInst /\ 0 \in 0..MaxHandles
  BY StoreConstants DEF Insts, Slots
<1>f. \A t \in Threads : frames[t] = <<>> /\ Len(frames[t]) = 0 /\ 1..Len(frames[t]) = {} /\
        1..(Len(frames[t]) - 1) = {}
  BY DEF Init
<1>1. Types
  BY <1>c DEF Init, Types, Empty, Heads
<1>2. Shape
  BY <1>1, <1>c, <1>f DEF Shape, HeldHasSlot, ShapeOf, Init
<1>3. \A i \in Insts : Untouched(i)
  BY <1>c DEF Init, Untouched, Unheld
<1>4. Ids
  <2>1. \A t \in Threads : ReservedOf(t) /\ Waiting(t)
    BY <1>f DEF ReservedOf, Waiting
  <2>2. Stored /\ Tenants /\ DestroyedOnce
    <3>1. Stored
      BY DEF Init, Stored
    <3>2. \A i \in Insts : ~(\E t \in Threads : handles[t][i] > 0) /\ ~(\E m \in Insts : member[m] = i)
      BY <1>c DEF Init
    <3>3. DestroyedOnce
      BY DEF Init, DestroyedOnce
    <3> QED
      BY <3>1, <3>2, <3>3 DEF Tenants
  <2> QED
    BY <1>3, <1>f, <2>1, <2>2 DEF Ids
<1>5. Calls = {}
  BY <1>f DEF Calls
<1>6. Cardinality({}) = 0
  BY FS_EmptySet
<1>7. \A s : Working(s) = {} /\ CallHandles(s) = {}
  BY <1>5 DEF Working, CallHandles, CallsAt
<1>8. Partition
  <2>1. PICK list : list = [i \in Nat |-> None]
    OBVIOUS
  <2>2. list \in Lists /\ list[0] = None /\ 1..0 = {}
    BY <2>1 DEF Lists
  <2>3. Linked(0, list)
    BY <2>2 DEF Linked, Init, Empty
  <2>4. Placed(0, list)
    <3>1. ASSUME NEW s \in Slots
          PROVE  Bit(On(0, list, s)) + Cardinality(Working(s)) + Bit(refcount[s] > 0) = Bit(s < slotCount)
      <4>1. s \in Nat /\ slotCount = 0 /\ refcount[s] = 0
        BY <1>c DEF Init, Slots
      <4>2. ~On(0, list, s) /\ ~(refcount[s] > 0) /\ ~(s < slotCount)
        BY <2>2, <4>1 DEF On
      <4>3. Bit(On(0, list, s)) = 0 /\ Bit(refcount[s] > 0) = 0 /\ Bit(s < slotCount) = 0 /\
              Cardinality(Working(s)) = 0
        BY <1>6, <1>7, <4>2 DEF Bit
      <4> QED
        BY <4>3
    <3> QED
      BY <3>1 DEF Placed
  <2>5. Popping(0, list)
    BY <1>f DEF Popping
  <2> QED
    BY <2>2, <2>3, <2>4, <2>5 DEF Partition, Lists
<1>9. Pushing
  BY <1>f DEF Pushing
<1>10. RefcountIsHandles
  <2>1. ASSUME NEW s \in Slots
        PROVE  ThreadHandles(s) = {} /\ MemberHandles(s) = {} /\ {i \in lost : slotOf[i] = s} = {} /\
                   refcount[s] = 0
    <3>1. \A i \in Insts : slotOf[i] # s /\ member[i] = None
      BY <1>c DEF Init
    <3>2. ThreadHandles(s) = {}
      <4>1. \A h \in Threads \X Insts \X (1..MaxHandles) : h[2] \in Insts
        OBVIOUS
      <4> QED
        BY <3>1, <4>1 DEF ThreadHandles
    <3> QED
      BY <3>1, <3>2 DEF MemberHandles, Init
  <2> QED
    BY <1>6, <1>7, <2>1 DEF RefcountIsHandles
<1>11. LiveCount
  <2>1. Used = {} /\ Leaving = {} /\ liveSlots = 0
    BY <1>5 DEF Used, Leaving, Init
  <2> QED
    BY <1>6, <2>1 DEF LiveCount
<1>12. End
  BY DEF Init, End, Undeleted, Dying, Awaited, Deleted
<1> QED
  BY <1>2, <1>4, <1>8, <1>9, <1>10, <1>11, <1>12 DEF IInv

\* A step that changes nothing keeps it.
LEMMA Stutter ==
    ASSUME IInv, UNCHANGED vars
    PROVE  IInv'
<1>1. Shape'
  BY ShapeStep DEF IInv
<1>v. /\ head' = head /\ nextFree' = nextFree /\ generation' = generation /\ memory' = memory /\
             refcount' = refcount
      /\ slotCount' = slotCount /\ liveSlots' = liveSlots /\ phase' = phase /\ frees' = frees /\ frames' = frames
      /\ handles' = handles /\ member' = member /\ slotOf' = slotOf /\ insts' = insts /\ lost' = lost /\
             destroyed' = destroyed
  BY DEF vars
<1>2. Ids'
  BY <1>v DEF IInv, Ids, IdsOf, ReservedOf, Waiting, Stored, Tenants, DestroyedOnce, Untouched, Unheld, Reserve, Top
<1>3. Partition' /\ Pushing'
  <2>1. PICK n \in Nat, list \in Lists : Linked(n, list) /\ Placed(n, list) /\ Popping(n, list)
    BY DEF IInv, Partition, Lists
  <2>2. Linked(n, list)' /\ Popping(n, list)' /\ Pushing'
    BY <1>v, <2>1 DEF IInv, Linked, Popping, Pushing, Top, On
  <2>3. \A s : Working(s)' = Working(s)
    BY <1>v DEF Working, CallsAt, Calls
  <2>4. Placed(n, list)'
    BY <1>v, <2>1, <2>3 DEF Placed, On
  <2> QED
    BY <2>1, <2>2, <2>4 DEF Partition, Lists
<1>4. RefcountIsHandles'
  BY <1>v DEF IInv, RefcountIsHandles, ThreadHandles, MemberHandles, CallHandles, CallsAt, Calls
<1>5. LiveCount'
  BY <1>v DEF IInv, LiveCount, Used, Leaving, Calls
<1>6. End'
  BY <1>v DEF IInv, End, Undeleted, Dying, Awaited, Deleted, Alive, Alone, Asking, Top
<1> QED
  BY <1>1, <1>2, <1>3, <1>4, <1>5, <1>6 DEF IInv

\* With one allocator every step keeps it.
LEMMA IInvStep ==
    ASSUME IInv, OneAllocator, [Next]_vars
    PROVE  IInv'
<1>1. Shape /\ Shape'
  BY ShapeStep DEF IInv
<1>2. ASSUME NEW t \in Threads, StepOf(t) PROVE IInv'
  <2>1. Ids' /\ Pushing' /\ LiveCount' /\ End' /\ RefcountIsHandles'
    BY <1>1, <1>2, IdsStep, PushingStep, LiveStep, EndStep, RefsStep
  <2>2. Partition'
    BY <1>1, <1>2, PartitionStep
  <2> QED
    BY <1>1, <2>1, <2>2 DEF IInv
<1> QED
  BY <1>1, <1>2, Steps, Stutter

\* With one allocating thread, IInv is an invariant of the store.
THEOREM Inductive ==
    ASSUME OneAllocator
    PROVE  Spec => []IInv
<1>1. Init => IInv
  BY InitHolds
<1>2. IInv /\ [Next]_vars => IInv'
  BY IInvStep
<1> QED
  BY <1>1, <1>2, PTL DEF Spec

-----------------------------------------------------------------------------
(* The freelist, as the code walks it.                                     *)

\* The naturals are well founded.
LEMMA LessThanRelation ==
    \E R : IsWellFoundedOn(R, Nat) /\ \A x, y \in Nat : <<y, x>> \in R <=> y < x
<1>1. IsWellFoundedOn(OpToRel(<, Nat), Nat)
  BY NatLessThanWellFounded
<1>2. \A x, y \in Nat : <<y, x>> \in OpToRel(<, Nat) <=> y < x
  BY DEF OpToRel
<1> QED
  BY <1>1, <1>2, Zenon

\* A set of naturals that is not empty has a least element.
LEMMA LeastElement ==
    ASSUME NEW T \in SUBSET Nat, T # {}
    PROVE  \E m \in T : \A n \in T : m <= n
<1>1. PICK R : IsWellFoundedOn(R, Nat) /\ \A x, y \in Nat : <<y, x>> \in R <=> y < x
  BY LessThanRelation
<1>2. PICK m \in T : \A y \in T : ~ (<<y, m>> \in R)
  BY <1>1, WFMin
<1>3. \A y \in T : ~ (y < m)
  BY <1>1, <1>2
<1> QED
  BY <1>3

\* The freelist has at most MaxSlots slots: they differ.
LEMMA ListBounded ==
    ASSUME NEW n \in Nat, NEW list \in Lists, Linked(n, list)
    PROVE  n <= MaxSlots
<1>0. MaxSlots \in Nat
  BY StoreConstants
<1> SUFFICES ASSUME ~(n <= MaxSlots) PROVE FALSE
  OBVIOUS
<1>1. IsFiniteSet(1..n) /\ Cardinality(1..n) = n
  BY <1>0, FS_Interval
<1>2. IsFiniteSet(Slots) /\ Cardinality(Slots) = MaxSlots
  <2>1. MaxSlots - 1 \in Int /\ 0 \in Int
    BY <1>0
  <2>2. IsFiniteSet(0..(MaxSlots - 1)) /\
          Cardinality(0..(MaxSlots - 1)) = IF 0 > MaxSlots - 1 THEN 0 ELSE (MaxSlots - 1) - 0 + 1
    BY <2>1, FS_Interval
  <2>3. Cardinality(0..(MaxSlots - 1)) = MaxSlots
    BY <1>0, <2>2
  <2> QED
    BY <2>2, <2>3 DEF Slots
<1>3. PICK f : f = [i \in 1..n |-> list[i]]
  OBVIOUS
<1>4. f \in [1..n -> Slots]
  BY <1>3 DEF Linked
<1>5. Cardinality(Slots) < Cardinality(1..n)
  BY <1>0, <1>1, <1>2
<1>6. \E x, y \in 1..n : x # y /\ f[x] = f[y]
  BY <1>1, <1>2, <1>4, <1>5, FS_PigeonHole
<1> QED
  BY <1>3, <1>6 DEF Linked

\* What Chain is, for a head, a table of next slots and the bound.
IsChain(f, h, next) ==
    f = [n \in 0..MaxSlots |-> IF n = 0 THEN h ELSE IF f[n - 1] = None THEN None ELSE next[f[n - 1]]]
Back(n, list) == [m \in 0..MaxSlots |-> IF m <= n THEN list[n - m] ELSE None]

\* The list read from its end is a chain from the head,
LEMMA BackIsChain ==
    ASSUME NEW n \in Nat, NEW list \in Lists, Linked(n, list), NEW f, f = Back(n, list)
    PROVE  IsChain(f, head.slot, nextFree)
<1>0. MaxSlots \in Nat /\ None \notin Slots
  BY StoreConstants DEF Slots
<1>1. ASSUME NEW m \in 0..MaxSlots
      PROVE  f[m] = IF m = 0 THEN head.slot ELSE IF f[m - 1] = None THEN None ELSE nextFree[f[m - 1]]
  <2>0. \A k \in 0..MaxSlots : f[k] = IF k <= n THEN list[n - k] ELSE None
    BY DEF Back
  <2>1. CASE m = 0
    <3>1. f[m] = list[n]
      BY <2>0, <2>1
    <3> QED
      BY <2>1, <3>1 DEF Linked
  <2>2. CASE m # 0
    <3>0. m - 1 \in 0..MaxSlots
      <4>1. m \in Nat /\ m <= MaxSlots
        BY <1>0
      <4> QED
        BY <1>0, <2>2, <4>1
    <3>1. CASE m <= n
      <4>1. n - (m - 1) \in 1..n /\ (n - (m - 1)) - 1 = n - m /\ m - 1 <= n
        BY <2>2, <3>1
      <4>2. f[m - 1] = list[n - (m - 1)] /\ f[m] = list[n - m]
        BY <2>0, <3>0, <3>1, <4>1
      <4>3. list[n - (m - 1)] \in Slots /\ nextFree[list[n - (m - 1)]] = list[(n - (m - 1)) - 1]
        BY <4>1 DEF Linked
      <4>4. f[m - 1] # None /\ f[m] = nextFree[f[m - 1]]
        BY <1>0, <4>1, <4>2, <4>3
      <4> QED
        BY <2>2, <4>4
    <3>2. CASE m = n + 1
      <4>1. f[m] = None
        BY <2>0, <3>2
      <4>2. f[m - 1] = list[0]
        <5>1. m - 1 = n /\ n - (m - 1) = 0
          BY <3>2
        <5> QED
          BY <2>0, <3>0, <5>1
      <4>3. f[m - 1] = None
        BY <4>2 DEF Linked
      <4> QED
        BY <2>2, <4>1, <4>3
    <3>3. CASE m > n + 1
      <4>1. f[m] = None /\ f[m - 1] = None
        BY <2>0, <3>0, <3>3
      <4> QED
        BY <2>2, <4>1
    <3> QED
      BY <3>1, <3>2, <3>3
  <2> QED
    BY <2>1, <2>2
<1>2. f = [m \in 0..MaxSlots |-> f[m]]
  BY DEF Back
<1>3. [m \in 0..MaxSlots |-> f[m]] =
        [m \in 0..MaxSlots |-> IF m = 0 THEN head.slot ELSE IF f[m - 1] = None THEN None ELSE nextFree[f[m - 1]]]
  BY <1>1
<1> QED
  BY <1>2, <1>3 DEF IsChain

\* there is only one,
LEMMA OneChain ==
    ASSUME NEW f, NEW g, NEW h, NEW next, IsChain(f, h, next), IsChain(g, h, next)
    PROVE  \A n \in 0..MaxSlots : f[n] = g[n]
<1>0. MaxSlots \in Nat
  BY StoreConstants
<1>e. /\ \A n \in 0..MaxSlots : f[n] = IF n = 0 THEN h ELSE IF f[n - 1] = None THEN None ELSE next[f[n - 1]]
      /\ \A n \in 0..MaxSlots : g[n] = IF n = 0 THEN h ELSE IF g[n - 1] = None THEN None ELSE next[g[n - 1]]
  BY DEF IsChain
<1> DEFINE T == {n \in Nat : n \in 0..MaxSlots /\ f[n] # g[n]}
<1> SUFFICES ASSUME T # {} PROVE FALSE
  BY <1>0
<1>1. PICK l \in T : \A n \in T : l <= n
  BY LeastElement
<1>2. l \in Nat /\ l \in 0..MaxSlots /\ f[l] # g[l]
  OBVIOUS
<1>3. l # 0
  BY <1>2, <1>e
<1>4. l - 1 \in Nat /\ l - 1 \in 0..MaxSlots /\ ~(l <= l - 1)
  <2>1. l \in Nat /\ l <= MaxSlots /\ l # 0
    BY <1>0, <1>2, <1>3
  <2> QED
    BY <1>0, <2>1
<1>5. f[l - 1] = g[l - 1]
  BY <1>1, <1>4
<1> QED
  BY <1>2, <1>3, <1>5, <1>e

\* and so it is Chain.
LEMMA ChainIs ==
    ASSUME NEW n \in Nat, NEW list \in Lists, Linked(n, list)
    PROVE  \A m \in 0..MaxSlots : Chain[m] = IF m <= n THEN list[n - m] ELSE None
<1>1. PICK g : g = Back(n, list)
  OBVIOUS
<1>2. IsChain(g, head.slot, nextFree)
  BY <1>1, BackIsChain
<1>3. Chain = CHOOSE f : f = [m \in 0..MaxSlots |-> IF m = 0 THEN head.slot ELSE IF f[m - 1] = None THEN None ELSE nextFree[f[m - 1]]]
  BY DEF Chain
<1>4. \E f : f = [m \in 0..MaxSlots |-> IF m = 0 THEN head.slot ELSE IF f[m - 1] = None THEN None ELSE nextFree[f[m - 1]]]
  BY <1>2 DEF IsChain
<1>5. IsChain(Chain, head.slot, nextFree)
  BY <1>3, <1>4 DEF IsChain
<1>6. \A m \in 0..MaxSlots : Chain[m] = g[m]
  BY <1>2, <1>5, OneChain
<1> QED
  BY <1>1, <1>6 DEF Back

\* A slot is met once on the chain, or never.
LEMMA ChainCounts ==
    ASSUME NEW n \in Nat, NEW list \in Lists, Linked(n, list), NEW s \in Slots
    PROVE  Cardinality({m \in 0..MaxSlots : Chain[m] = s}) = Bit(On(n, list, s))
<1>0. None \notin Slots /\ MaxSlots \in Nat /\ n <= MaxSlots
  BY StoreConstants, ListBounded DEF Slots
<1>1. \A m \in 0..MaxSlots : Chain[m] = IF m <= n THEN list[n - m] ELSE None
  BY ChainIs
<1>2. CASE On(n, list, s)
  <2>1. PICK i \in 1..n : list[i] = s
    BY <1>2 DEF On
  <2>2. ASSUME NEW m \in 0..MaxSlots, Chain[m] = s PROVE m = n - i
    <3>1. m <= n /\ list[n - m] = s
      BY <1>0, <1>1, <2>2
    <3>2. n - m # 0
      BY <1>0, <3>1 DEF Linked
    <3>3. n - m \in 1..n
      BY <3>1, <3>2
    <3>4. n - m = i
      BY <2>1, <3>1, <3>3 DEF Linked
    <3> QED
      BY <3>1, <3>4
  <2>3. n - i \in 0..MaxSlots /\ n - i <= n /\ n - (n - i) = i
    BY <1>0, <2>1
  <2>4. Chain[n - i] = s
    BY <1>1, <2>1, <2>3
  <2>5. {m \in 0..MaxSlots : Chain[m] = s} = {n - i}
    BY <2>2, <2>3, <2>4
  <2>6. Cardinality({n - i}) = 1
    BY FS_Singleton
  <2> QED
    BY <1>2, <2>5, <2>6 DEF Bit
<1>3. CASE ~On(n, list, s)
  <2>1. ASSUME NEW m \in 0..MaxSlots, Chain[m] = s PROVE FALSE
    <3>1. m <= n /\ list[n - m] = s
      BY <1>0, <1>1, <2>1
    <3>2. n - m # 0
      BY <1>0, <3>1 DEF Linked
    <3>3. n - m \in 1..n
      BY <3>1, <3>2
    <3> QED
      BY <1>3, <3>1, <3>3 DEF On
  <2>2. {m \in 0..MaxSlots : Chain[m] = s} = {}
    BY <2>1
  <2> QED
    BY <1>3, <2>2, FS_EmptySet DEF Bit
<1> QED
  BY <1>2, <1>3

-----------------------------------------------------------------------------
(* The theorems.                                                           *)

\* The invariant implies SlotsPartitioned,
LEMMA SlotsPlaced ==
    ASSUME IInv
    PROVE  SlotsPartitioned
<1>1. PICK n \in Nat, list \in Lists : Linked(n, list) /\ Placed(n, list)
  BY DEF IInv, Partition, Lists
<1>2. n <= MaxSlots /\ MaxSlots \in Nat /\ MaxSlots \in 0..MaxSlots
  BY <1>1, ListBounded, StoreConstants
<1>3. Chain[MaxSlots] = None
  <2>1. Chain[MaxSlots] = IF MaxSlots <= n THEN list[n - MaxSlots] ELSE None
    BY <1>1, <1>2, ChainIs
  <2>2. MaxSlots <= n => n - MaxSlots = 0
    BY <1>1, <1>2
  <2> QED
    BY <1>1, <2>1, <2>2 DEF Linked
<1>4. ASSUME NEW s \in 0..(slotCount - 1)
      PROVE  Cardinality({m \in 0..MaxSlots : Chain[m] =
                 s}) + Cardinality(Working(s)) + (IF refcount[s] > 0 THEN 1 ELSE 0) = 1
  <2>1. s \in Slots /\ s < slotCount
    BY <1>2 DEF IInv, Shape, Types, Slots
  <2>2. Cardinality({m \in 0..MaxSlots : Chain[m] = s}) = Bit(On(n, list, s))
    BY <1>1, <2>1, ChainCounts
  <2>3. Bit(On(n, list, s)) + Cardinality(Working(s)) + Bit(refcount[s] > 0) = 1
    BY <1>1, <2>1 DEF Placed, Bit
  <2> QED
    BY <2>2, <2>3 DEF Bit
<1> QED
  BY <1>3, <1>4 DEF SlotsPartitioned

\* HeldIsAlive,
LEMMA HeldAlive ==
    ASSUME IInv
    PROVE  HeldIsAlive
<1> SUFFICES ASSUME phase = "started", NEW i \in Insts, Held(i) PROVE memory[slotOf[i]] = i /\ destroyed[i] = 0
  BY DEF HeldIsAlive, Held
<1>0. None \notin Insts
  BY StoreConstants DEF Insts
<1>1. slotOf[i] \in Slots
  BY DEF IInv, Shape, Types, HeldHasSlot, Held
<1>2. memory[slotOf[i]] = i
  BY DEF IInv, Ids, Tenants, Held
<1> QED
  BY <1>0, <1>1, <1>2 DEF IInv, Ids, Stored

\* DeletedLast,
LEMMA LastToGo ==
    ASSUME IInv
    PROVE  DeletedLast
<1>0. Shape /\ RefcountIsHandles /\ LiveCount /\ End /\ liveSlots \in Nat
  BY NobodyLeft DEF IInv
<1>1. frees \in {0, 1} /\ (frees = 1 => phase = "dead" /\ liveSlots = 0 /\ \A t \in Threads : frames[t] = <<>>)
  BY <1>0 DEF End, Undeleted, Dying, Awaited, Deleted, Alive
<1>2. ASSUME frees = 1, NEW s \in Slots PROVE ThreadHandles(s) = {} /\ MemberHandles(s) = {} /\ CallHandles(s) = {}
  <2>1. refcount[s] = 0
    BY <1>0, <1>1, <1>2, NobodyLeft
  <2>2. refcount[s] = RefsOf(handles, member, lost, slotOf, Seats(s, RefOps), s)
    BY <1>0, <1>2, RefsPositive
  <2>3. /\ Cardinality(THof(handles, slotOf, s)) \in Nat /\ Cardinality(MHof(member, slotOf, s)) \in Nat
        /\ Cardinality(LHof(lost, slotOf, s)) \in Nat /\ Seats(s, RefOps) \in Nat
    BY <1>0, RefTerms
  <2>4. Cardinality(THof(handles, slotOf, s)) = 0 /\ Cardinality(MHof(member, slotOf, s)) = 0
    BY <2>1, <2>2, <2>3 DEF RefsOf
  <2>5. lost \subseteq Insts
    BY <1>0 DEF Shape, Types
  <2>6. IsFiniteSet(THof(handles, slotOf, s)) /\ IsFiniteSet(MHof(member, slotOf, s))
    BY <2>5, HandleSetsFinite
  <2>7. THof(handles, slotOf, s) = {} /\ MHof(member, slotOf, s) = {}
    BY <2>4, <2>6, FS_EmptySet
  <2>8. ThreadHandles(s) = {} /\ MemberHandles(s) = {}
    BY <2>7 DEF ThreadHandles, MemberHandles, THof, MHof, Places
  <2>9. Calls = {}
    <3>1. \A t \in Threads : 1..Len(frames[t]) = {}
      BY <1>1, <1>2
    <3> QED
      BY <3>1 DEF Calls
  <2> QED
    BY <2>8, <2>9 DEF CallHandles, CallsAt
<1> QED
  BY <1>1, <1>2 DEF DeletedLast

\* and TypeOK.
LEMMA Typed ==
    ASSUME IInv
    PROVE  TypeOK
<1>0. Shape /\ RefcountIsHandles /\ LiveCount
  BY DEF IInv
<1>1. liveSlots \in Nat /\ \A s \in Slots : refcount[s] \in Nat
  BY <1>0, NobodyLeft, RefsPositive
<1>2. refcount \in [Slots -> Nat]
  BY <1>0, <1>1 DEF Shape, Types
<1> QED
  BY <1>0, <1>1, <1>2 DEF Shape, Types, TypeOK

\* The state of the store is well typed: no count goes below zero, and slotCount_
\* never exceeds the maximum.
THEOREM StoreTyped == ASSUME OneAllocator PROVE Spec => []TypeOK
<1>1. IInv => TypeOK
  BY Typed
<1> QED
  BY <1>1, Inductive, PTL

\* With one allocating thread, every slot handed out is in exactly one place: on
\* the freelist once, in use, or in the hands of one call.  So a pop never gives out
\* a slot that is in use, whatever the other threads push back meanwhile.
THEOREM StorePartitioned == ASSUME OneAllocator PROVE Spec => []SlotsPartitioned
<1>1. IInv => SlotsPartitioned
  BY SlotsPlaced
<1> QED
  BY <1>1, Inductive, PTL

\* The count of a slot is the number of handles to it, wherever they live.
THEOREM StoreCounted == ASSUME OneAllocator PROVE Spec => []RefcountIsHandles
<1>1. IInv => RefcountIsHandles
  BY DEF IInv
<1> QED
  BY <1>1, Inductive, PTL

\* Until stop(), a handle leads to its own live instance: the slot was neither
\* destroyed nor given to another instance under it.
THEOREM StoreHeld == ASSUME OneAllocator PROVE Spec => []HeldIsAlive
<1>1. IInv => HeldIsAlive
  BY HeldAlive
<1> QED
  BY <1>1, Inductive, PTL

\* No prototype is destroyed twice, by its last handle, by the sweep of stop() or
\* with the bean that holds it.
THEOREM StoreDestroysOnce == ASSUME OneAllocator PROVE Spec => []DestroyedOnce
<1>1. IInv => DestroyedOnce
  BY DEF IInv, Ids
<1> QED
  BY <1>1, Inductive, PTL

\* The store deletes itself at most once, when nobody is in it and no handle is left.
THEOREM StoreDeletedLast == ASSUME OneAllocator PROVE Spec => []DeletedLast
<1>1. IInv => DeletedLast
  BY LastToGo
<1> QED
  BY <1>1, Inductive, PTL
=============================================================================
