------------------------ MODULE PrototypeCallProofs ------------------------
(***************************************************************************)
(* PrototypeStore, first part of the proofs: the inductive invariant, what *)
(* every step does to the calls in progress, and the parts of the          *)
(* invariant that speak of them: the shape of the call stacks, and the     *)
(* reference counts (RefcountIsHandles).                                   *)
(*                                                                         *)
(* A step changes the calls of one thread in one of a few ways (Replaced,  *)
(* Pushed, Popped, Raised, Begun), and what the invariant counts are the   *)
(* calls that are at some operations with some slot; so each action is     *)
(* first reduced to its effect on the calls, then to its effect on those   *)
(* counts, and the rest of the proof speaks of counts alone.               *)
(***************************************************************************)
EXTENDS PrototypeStore, FiniteSetTheorems, TLAPS

\* What a frame looks like: a call that makes an instance, or one that releases a
\* handle, sweeps or asks whether the store can go.
Making(f) == f.inst # None
PopOps == {"popLoad", "popNext", "popCas", "grow"}
PushOps == {"pushLoad", "pushLink", "pushCas"}
WorkOps == {"construct", "activate", "unwind", "last", "take", "bump",
            "pushLoad", "pushLink", "pushCas"}
AskOps == {"chkLive", "chkAlive"}

\* A call that makes an instance has a slot from the pop on, or, with its own
\* allocation, from after the constructor; it gives the slot back when it throws.
MakingOK(f) ==
    /\ f.kind \in Kinds
    /\ f.inst \in Nat /\ 1 <= f.inst /\ f.inst <= insts
    /\ f.kind \in Holder => f.inst + 1 <= insts
    /\ f.op \in PopOps \union PushOps \union {"construct", "unwind", "activate", "hooks"}
    /\ f.op \in PopOps => f.slot = None
    /\ f.op \in {"construct", "unwind"} => (f.slot = None <=> f.kind \in OwnAlloc)
    /\ f.op \in {"activate", "hooks"} \union PushOps => f.slot # None
    /\ f.slot # None => f.slot \in Slots /\ slotOf[f.inst] \in Slots
    /\ f.op \in PushOps <=> ~f.live
    /\ f.op \in {"popNext", "popCas"} => f.cur.slot # None

\* A call that gives up a handle, or the sweep, or the question of who deletes.
ReleasingOK(f) ==
    /\ f.live
    /\ f.op \in {"dec", "last", "take", "bump", "unlive", "sweep"} \union PushOps \union AskOps
    /\ f.op \in {"dec", "last", "take", "bump", "unlive"} \union PushOps => f.slot \in Slots
    /\ f.op = "sweep" => f.slot \in 0..slotCount

FrameOK(f) == IF Making(f) THEN MakingOK(f) ELSE ReleasingOK(f)

\* g is called by f.
Nested(f, g) ==
    \/ f.op = "construct" /\ f.kind \in Holder /\ Making(g)
    \/ f.op \in {"unwind", "bump", "sweep"} /\ ~Making(g) /\ g.op # "sweep"

\* The calls of thread t fit on one another; a sweep is alone.
ShapeOf(t) ==
    /\ \A j \in 1..Len(frames[t]) :
        /\ FrameOK(frames[t][j])
        /\ Making(frames[t][j]) => t \in Allocators /\ phase = "started"
        /\ frames[t][j].op = "sweep" => /\ j = 1 /\ phase = "stopping"
                                        /\ \A u \in Threads \ {t} : frames[u] = <<>>
    /\ \A j \in 1..(Len(frames[t]) - 1) : Nested(frames[t][j], frames[t][j + 1])

Types ==
    /\ head \in Heads
    /\ nextFree \in [Slots -> Slots \union {None, 0}]
    /\ generation \in [Slots -> Nat]
    /\ memory \in [Slots -> Insts \union {None}]
    /\ refcount \in [Slots -> Int]
    /\ slotCount \in 0..MaxSlots
    /\ liveSlots \in Int
    /\ phase \in {"started", "stopping", "stopped", "dying", "dead"}
    /\ frees \in Nat
    /\ frames \in [Threads -> Seq(Frame)]
    /\ handles \in [Threads -> [Insts -> 0..MaxHandles]]
    /\ member \in [Insts -> Insts \union {None}]
    /\ slotOf \in [Insts -> Slots \union {None}]
    /\ insts \in 0..MaxInst
    /\ lost \subseteq Insts
    /\ destroyed \in [Insts -> Nat]

\* Who is held has a slot.
HeldHasSlot ==
    \A i \in Insts : (\/ \E t \in Threads : handles[t][i] > 0
                      \/ \E m \in Insts : member[m] = i) => slotOf[i] # None

Shape == Types /\ HeldHasSlot /\ \A t \in Threads : ShapeOf(t)

-----------------------------------------------------------------------------
(* Ids: every instance belongs to one call that makes it, or to its slot.  *)

\* Nobody has a handle to i yet.
Unheld(i) ==
    /\ \A t \in Threads : handles[t][i] = 0
    /\ \A m \in Insts : member[m] # i
    /\ i \notin lost
Untouched(i) ==
    Unheld(i) /\ slotOf[i] = None /\ destroyed[i] = 0 /\ \A s \in Slots : memory[s] # i

\* The call in frame j of t makes an instance that nobody else knows of.
IdsOf(t, j) ==
    LET f == frames[t][j] IN
    Making(f) =>
        /\ Unheld(f.inst)
        /\ f.slot = None => Untouched(f.inst)
        /\ f.slot # None => slotOf[f.inst] = f.slot
        /\ f.slot # None /\ f.op \notin PushOps => memory[f.slot] = f.inst
        /\ \A u \in Threads : \A k \in 1..Len(frames[u]) :
            Making(frames[u][k]) /\ frames[u][k].inst = f.inst => u = t /\ k = j

\* The constructor of a holder takes the next instance number for its member, which
\* nothing else has taken by then.
Reserve(f) == Making(f) /\ f.kind \in Holder /\ f.op \in PopOps \union {"construct"} /\ member[f.inst] = None
ReservedOf(t) ==
    frames[t] # <<>> /\ Reserve(Top(t)) =>
        /\ Untouched(Top(t).inst + 1)
        /\ \A u \in Threads : \A k \in 1..Len(frames[u]) :
            Making(frames[u][k]) => frames[u][k].inst # Top(t).inst + 1
Waiting(t) == \A j \in 1..(Len(frames[t]) - 1) : frames[t][j].op = "construct" => member[frames[t][j].inst] = None

\* A slot has the memory of an instance that is its own and not destroyed, and until
\* stop() whatever is held is in its slot.
Stored == \A s \in Slots : memory[s] # None => slotOf[memory[s]] = s /\ destroyed[memory[s]] = 0
Tenants ==
    phase = "started" =>
        \A i \in Insts : (\/ \E t \in Threads : handles[t][i] > 0
                          \/ \E m \in Insts : member[m] = i) => memory[slotOf[i]] = i

Ids ==
    /\ \A t \in Threads : \A j \in 1..Len(frames[t]) : IdsOf(t, j)
    /\ \A t \in Threads : ReservedOf(t) /\ Waiting(t)
    /\ \A i \in Insts : i > insts => Untouched(i)
    /\ Stored /\ Tenants /\ DestroyedOnce

-----------------------------------------------------------------------------
(* Partition: list[n], ..., list[1] are the slots of the freelist from its *)
(* head on, and a slot is on the list, with one call, or in use.           *)

Bit(b) == IF b THEN 1 ELSE 0
Linked(n, list) ==
    /\ list[0] = None /\ head.slot = list[n]
    /\ \A i \in 1..n : list[i] \in Slots /\ nextFree[list[i]] = list[i - 1]
    /\ \A i, j \in 1..n : list[i] = list[j] => i = j
On(n, list, s) == \E i \in 1..n : list[i] = s
Placed(n, list) ==
    \A s \in Slots : Bit(On(n, list, s)) + Cardinality(Working(s)) + Bit(refcount[s] > 0) = Bit(s < slotCount)
\* Between its load and its compare-and-swap a pop has a slot that is still on the
\* list, and the right next one.  (Pushes go to the front; nobody else pops.)
Popping(n, list) ==
    \A t \in Threads : frames[t] # <<>> /\ Top(t).op \in {"popNext", "popCas"} =>
        /\ On(n, list, Top(t).cur.slot)
        /\ Top(t).op = "popCas" => Top(t).nxt = nextFree[Top(t).cur.slot]
\* A push has linked its slot to the head it expects.
Pushing == \A t \in Threads : frames[t] # <<>> /\ Top(t).op = "pushCas" => nextFree[Top(t).slot] = Top(t).cur.slot
Partition == \E n \in Nat : \E list \in [Nat -> Slots \union {None}] :
    Linked(n, list) /\ Placed(n, list) /\ Popping(n, list)

-----------------------------------------------------------------------------
(* The live slots, and who deletes the store.                              *)

\* The slots in use, and those whose last reference is gone and that are not yet
\* counted out.
LeaveOps == {"last", "take", "bump", "pushLoad", "pushLink", "pushCas", "unlive"}
Leaving == {c \in Calls : frames[c[1]][c[2]].op \in LeaveOps /\ ~Making(frames[c[1]][c[2]])}
Used == {s \in Slots : refcount[s] > 0}
LiveCount == liveSlots = Cardinality(Used) + Cardinality(Leaving)

\* The store is deleted once its registry is dead and liveSlots_ is zero, by the
\* one thread that is then asking.
Alone(t) == \A u \in Threads \ {t} : frames[u] = <<>>
Asking(t) == frames[t] # <<>> /\ Top(t).op \in AskOps
Undeleted == Alive => frees = 0
Dying ==
    phase = "dying" =>
        /\ frees = 0
        /\ \E t \in Threads : /\ Alone(t) /\ Len(frames[t]) = 1 /\ Asking(t)
                              /\ Top(t).op = "chkAlive" => liveSlots = 0
Awaited == phase = "dead" /\ liveSlots # 0 => frees = 0 /\ \A t \in Threads : ~Asking(t)
Deleted ==
    phase = "dead" /\ liveSlots = 0 =>
        \/ frees = 1 /\ \A t \in Threads : frames[t] = <<>>
        \/ frees = 0 /\ \E t \in Threads : Asking(t) /\ Len(frames[t]) = 1 /\ Alone(t)
End == Undeleted /\ Dying /\ Awaited /\ Deleted

-----------------------------------------------------------------------------
(* What a step does to the calls of its thread t.                          *)

Rest(t) == \A u \in Threads \ {t} : frames'[u] = frames[u]

\* The innermost call becomes f.
Replaced(t, f) ==
    /\ Rest(t) /\ Len(frames[t]) # 0 /\ Len(frames'[t]) = Len(frames[t])
    /\ \A j \in 1..Len(frames[t]) : j # Len(frames[t]) => frames'[t][j] = frames[t][j]
    /\ frames'[t][Len(frames[t])] = f

\* The innermost call becomes f and calls g.
Pushed(t, f, g) ==
    /\ Rest(t) /\ Len(frames[t]) # 0 /\ Len(frames'[t]) = Len(frames[t]) + 1
    /\ \A j \in 1..Len(frames[t]) : j # Len(frames[t]) => frames'[t][j] = frames[t][j]
    /\ frames'[t][Len(frames[t])] = f /\ frames'[t][Len(frames[t]) + 1] = g

\* The innermost call returns.
Popped(t) ==
    /\ Rest(t) /\ Len(frames[t]) # 0 /\ Len(frames'[t]) = Len(frames[t]) - 1
    /\ \A j \in 1..Len(frames'[t]) : frames'[t][j] = frames[t][j]

\* An exception leaves the innermost call, and the one below unwinds.
Unwound(f) == [f EXCEPT !.op = "unwind"]
Raised(t) ==
    /\ Rest(t) /\ Len(frames[t]) # 0 /\ Len(frames'[t]) = Len(frames[t]) - 1
    /\ \A j \in 1..Len(frames'[t]) : j # Len(frames'[t]) => frames'[t][j] = frames[t][j]
    /\ Len(frames[t]) # 1 => frames'[t][Len(frames[t]) - 1] = Unwound(frames[t][Len(frames[t]) - 1])

\* Thread t, in no call, calls f.
Begun(t, f) ==
    Rest(t) /\ Len(frames[t]) = 0 /\ Len(frames'[t]) = 1 /\ frames'[t][1] = f

FramesType == frames \in [Threads -> Seq(Frame)]

\* The calls of a thread.
LEMMA FrameFacts ==
    ASSUME FramesType, NEW t \in Threads
    PROVE  /\ Len(frames[t]) \in Nat
           /\ frames[t] = <<>> <=> Len(frames[t]) = 0
           /\ \A j \in 1..Len(frames[t]) : frames[t][j] \in Frame
           /\ frames[t] # <<>> => Top(t) = frames[t][Len(frames[t])] /\ Top(t) \in Frame
                                    /\ Len(frames[t]) \in 1..Len(frames[t])
BY DEF FramesType, Top

\* Goto.
LEMMA GotoIs ==
    ASSUME FramesType, NEW t \in Threads, frames[t] # <<>>, NEW f \in Frame, Goto(t, f)
    PROVE  FramesType' /\ Replaced(t, f)
<1>1. Len(frames[t]) \in Nat \ {0} /\ frames[t] \in Seq(Frame)
  BY DEF FramesType
<1>2. frames' = [frames EXCEPT ![t] = [frames[t] EXCEPT ![Len(frames[t])] = f]]
  BY DEF Goto
<1>3. frames'[t] = [frames[t] EXCEPT ![Len(frames[t])] = f]
  BY <1>2 DEF FramesType
<1>4. frames'[t] \in Seq(Frame) /\ Len(frames'[t]) = Len(frames[t])
  BY <1>1, <1>3
<1>5. FramesType' /\ Rest(t)
  BY <1>2, <1>4 DEF FramesType, Rest
<1> QED
  BY <1>1, <1>3, <1>4, <1>5 DEF Replaced

\* Finish.
LEMMA FinishIs ==
    ASSUME FramesType, NEW t \in Threads, frames[t] # <<>>, Finish(t)
    PROVE  FramesType' /\ Popped(t)
<1>1. Len(frames[t]) \in Nat \ {0} /\ frames[t] \in Seq(Frame)
  BY DEF FramesType
<1>2. frames'[t] = SubSeq(frames[t], 1, Len(frames[t]) - 1)
  BY DEF FramesType, Finish, Under
<1>4. /\ frames'[t] \in Seq(Frame) /\ Len(frames'[t]) = Len(frames[t]) - 1
      /\ \A j \in 1..Len(frames'[t]) : frames'[t][j] = frames[t][j]
  BY <1>1, <1>2
<1>5. FramesType' /\ Rest(t)
  BY <1>4 DEF FramesType, Rest, Finish
<1> QED
  BY <1>1, <1>4, <1>5 DEF Popped

\* The calls under the innermost one.
LEMMA UnderIs ==
    ASSUME FramesType, NEW t \in Threads, frames[t] # <<>>
    PROVE  /\ Under(t) \in Seq(Frame) /\ Len(Under(t)) = Len(frames[t]) - 1
           /\ \A j \in 1..(Len(frames[t]) - 1) : Under(t)[j] = frames[t][j]
<1>1. Len(frames[t]) \in Nat \ {0} /\ frames[t] \in Seq(Frame)
  BY DEF FramesType
<1> QED
  BY <1>1 DEF Under

\* Raise.
LEMMA RaiseIs ==
    ASSUME FramesType, NEW t \in Threads, frames[t] # <<>>, Raise(t)
    PROVE  FramesType' /\ Raised(t)
<1>1. Len(frames[t]) \in Nat \ {0} /\ frames[t] \in Seq(Frame)
  BY DEF FramesType
<1>2. CASE Len(frames[t]) = 1
  <2>1. frames'[t] = <<>>
    BY <1>2 DEF Raise, FramesType
  <2>2. FramesType' /\ Rest(t)
    BY <1>2 DEF FramesType, Rest, Raise
  <2> QED
    BY <1>2, <2>1, <2>2 DEF Raised
<1>3. CASE Len(frames[t]) # 1
  <2>0. Len(frames[t]) - 1 \in Nat /\ Len(frames[t]) - 1 # 0
    BY <1>1, <1>3
  <2>1. frames'[t] = [Under(t) EXCEPT ![Len(frames[t]) - 1].op = "unwind"]
    BY <1>3 DEF Raise, FramesType
  <2>2. PICK q : q = Under(t)
    OBVIOUS
  <2>3. PICK n : n \in Nat /\ n # 0 /\ n = Len(frames[t]) - 1
    BY <2>0
  <2>4. q \in Seq(Frame) /\ Len(q) = n /\ \A j \in 1..n : q[j] = frames[t][j]
    BY <2>2, <2>3, UnderIs
  <2>49. n \in Nat /\ n # 0
    BY <2>3
  <2>50. n \in 1..n
    BY <2>49
  <2>51. n \in 1..Len(q) /\ q[n] = frames[t][n]
    BY <2>4, <2>50
  <2>52. \A j \in 1..Len(q) : q[j] \in Frame
    BY <2>4
  <2>5. n \in 1..Len(q) /\ q[n] \in Frame /\ q[n] = frames[t][n]
    BY <2>51, <2>52
  <2>6. PICK g : g = [q[n] EXCEPT !.op = "unwind"]
    OBVIOUS
  <2>7. g \in Frame /\ g = Unwound(frames[t][n])
    BY <2>5, <2>6 DEF Frame, Ops, Unwound
  <2>8. frames'[t] = [q EXCEPT ![n] = g]
    BY <2>1, <2>2, <2>3, <2>6
  <2>9. frames'[t] \in Seq(Frame) /\ Len(frames'[t]) = n
    BY <2>4, <2>5, <2>7, <2>8
  <2>10. (\A j \in 1..n : j # n => frames'[t][j] = frames[t][j]) /\ frames'[t][n] = g
    BY <2>4, <2>5, <2>8
  <2>11. FramesType' /\ Rest(t)
    BY <2>9 DEF FramesType, Rest, Raise
  <2> QED
    BY <1>1, <2>3, <2>7, <2>9, <2>10, <2>11 DEF Raised
<1> QED
  BY <1>2, <1>3

\* One sequence behind another, element by element.
LEMMA ConcatIs ==
    ASSUME NEW D, NEW q \in Seq(D), NEW r \in Seq(D)
    PROVE  /\ (q \o r) \in Seq(D) /\ Len(q \o r) = Len(q) + Len(r)
           /\ \A n \in 1..Len(q) : (q \o r)[n] = q[n]
           /\ \A n \in 1..Len(r) : (q \o r)[Len(q) + n] = r[n]
OBVIOUS

\* ReleaseMember.
LEMMA ReleaseMemberIs ==
    ASSUME FramesType, NEW t \in Threads, frames[t] # <<>>, NEW f \in Frame, NEW i,
           ReleaseMember(t, f, i),
           NEW g, g = Call("dec", None, None, slotOf[member[i]]),
           member[i] # None => g \in Frame
    PROVE  /\ FramesType'
           /\ member[i] = None => Replaced(t, f)
           /\ member[i] # None => Pushed(t, f, g)
<1>1. PICK q : q = Under(t)
  OBVIOUS
<1>2. Len(frames[t]) \in Nat \ {0} /\ frames[t] \in Seq(Frame)
  BY DEF FramesType
<1>3. q \in Seq(Frame) /\ Len(q) = Len(frames[t]) - 1 /\ \A j \in 1..(Len(frames[t]) - 1) : q[j] = frames[t][j]
  BY <1>1, UnderIs
<1>4. Rest(t)
  BY DEF ReleaseMember, Rest, FramesType
<1>5. CASE member[i] = None
  <2>1. frames'[t] = Append(q, f)
    BY <1>1, <1>5 DEF ReleaseMember, FramesType
  <2>2. /\ frames'[t] \in Seq(Frame) /\ Len(frames'[t]) = Len(frames[t])
        /\ \A j \in 1..(Len(frames[t]) - 1) : frames'[t][j] = q[j]
        /\ frames'[t][Len(frames[t])] = f
    BY <1>2, <1>3, <2>1
  <2>3. FramesType'
    BY <2>2 DEF FramesType, ReleaseMember
  <2> QED
    BY <1>2, <1>3, <1>4, <1>5, <2>2, <2>3 DEF Replaced
<1>6. CASE member[i] # None
  <2>1. frames'[t] = q \o <<f, g>>
    BY <1>1, <1>6 DEF ReleaseMember, FramesType
  <2>2. <<f, g>> \in Seq(Frame) /\ Len(<<f, g>>) = 2 /\ <<f, g>>[1] = f /\ <<f, g>>[2] = g
    BY <1>6
  <2>3. PICK r : r = <<f, g>>
    OBVIOUS
  <2>4. r \in Seq(Frame) /\ Len(r) = 2 /\ r[1] = f /\ r[2] = g /\ frames'[t] = q \o r
    BY <2>1, <2>2, <2>3
  <2>51. /\ frames'[t] \in Seq(Frame) /\ Len(frames'[t]) = Len(q) + Len(r)
         /\ \A j \in 1..Len(q) : frames'[t][j] = q[j]
         /\ \A j \in 1..Len(r) : frames'[t][Len(q) + j] = r[j]
    <3>1. /\ (q \o r) \in Seq(Frame) /\ Len(q \o r) = Len(q) + Len(r)
          /\ \A j \in 1..Len(q) : (q \o r)[j] = q[j]
          /\ \A j \in 1..Len(r) : (q \o r)[Len(q) + j] = r[j]
      <4>1. q \in Seq(Frame) /\ r \in Seq(Frame)
        BY <1>3, <2>4
      <4> QED
        BY <4>1, ConcatIs
    <3> QED
      BY <2>4, <3>1
  <2>52. frames'[t][Len(q) + 1] = r[1] /\ frames'[t][Len(q) + 2] = r[2]
    BY <2>4, <2>51
  <2>5. /\ frames'[t] \in Seq(Frame) /\ Len(frames'[t]) = Len(frames[t]) + 1
        /\ \A j \in 1..(Len(frames[t]) - 1) : frames'[t][j] = q[j]
        /\ frames'[t][Len(frames[t])] = r[1] /\ frames'[t][Len(frames[t]) + 1] = r[2]
    BY <1>2, <1>3, <2>4, <2>51, <2>52
  <2>6. FramesType'
    BY <2>5 DEF FramesType, ReleaseMember
  <2> QED
    BY <1>2, <1>3, <1>4, <1>6, <2>4, <2>5, <2>6 DEF Pushed
<1> QED
  BY <1>5, <1>6

\* A call in a thread that has none.
LEMMA BeginIs ==
    ASSUME FramesType, NEW t \in Threads, frames[t] = <<>>, NEW f \in Frame,
           frames' = [frames EXCEPT ![t] = <<f>>]
    PROVE  FramesType' /\ Begun(t, f)
<1>1. <<f>> \in Seq(Frame) /\ Len(<<f>>) = 1 /\ <<f>>[1] = f
  OBVIOUS
<1> QED
  BY <1>1 DEF FramesType, Begun, Rest

\* Append: the innermost call calls g.
LEMMA AppendIs ==
    ASSUME FramesType, NEW t \in Threads, frames[t] # <<>>, NEW g \in Frame,
           frames' = [frames EXCEPT ![t] = Append(frames[t], g)]
    PROVE  FramesType' /\ Pushed(t, Top(t), g)
<1>1. Len(frames[t]) \in Nat \ {0} /\ frames[t] \in Seq(Frame)
  BY DEF FramesType
<1>2. /\ Append(frames[t], g) \in Seq(Frame) /\ Len(Append(frames[t], g)) = Len(frames[t]) + 1
      /\ \A j \in 1..Len(frames[t]) : Append(frames[t], g)[j] = frames[t][j]
      /\ Append(frames[t], g)[Len(frames[t]) + 1] = g
  BY <1>1
<1>3. frames'[t] = Append(frames[t], g)
  BY DEF FramesType
<1> QED
  BY <1>1, <1>2, <1>3 DEF FramesType, Pushed, Rest, Top

-----------------------------------------------------------------------------
(* Counting calls.                                                         *)

\* The calls of q (the frames of this state or of the next) that are in F.
Stacks == [Threads -> Seq(Frame)]
Positions(q) == UNION {{t} \X (1..Len(q[t])) : t \in Threads}
CallsIn(q, F) == {c \in Positions(q) : q[c[1]][c[2]] \in F}
Count(q, F) == Cardinality(CallsIn(q, F))
Here(q, t, n, F) == IF n \in 1..Len(q[t]) /\ q[t][n] \in F THEN 1 ELSE 0
Weight(f, F) == IF f \in F THEN 1 ELSE 0

FramesAt(s, ops) == {f \in Frame : f.slot = s /\ f.op \in ops}
LeaveFrames == {f \in Frame : f.op \in LeaveOps /\ ~Making(f)}

\* Calls are pairs of a thread and a depth.
LEMMA CallIs ==
    ASSUME NEW q \in Stacks, NEW F
    PROVE  /\ \A c \in CallsIn(q, F) : /\ c[1] \in Threads /\ c[2] \in 1..Len(q[c[1]])
                                       /\ c = <<c[1], c[2]>> /\ q[c[1]][c[2]] \in F
           /\ \A t \in Threads : \A j \in 1..Len(q[t]) : <<t, j>> \in CallsIn(q, F) <=> q[t][j] \in F
<1>1. \A c \in Positions(q) : \E t \in Threads : c \in {t} \X (1..Len(q[t]))
  BY DEF Positions
<1>2. \A c \in Positions(q) : c[1] \in Threads /\ c[2] \in 1..Len(q[c[1]]) /\ c = <<c[1], c[2]>>
  BY <1>1
<1>3. \A t \in Threads : \A j \in 1..Len(q[t]) : <<t, j>> \in {t} \X (1..Len(q[t]))
  OBVIOUS
<1>4. ASSUME NEW t \in Threads, NEW j \in 1..Len(q[t]) PROVE <<t, j>> \in Positions(q)
  <2>1. <<t, j>> \in {t} \X (1..Len(q[t]))
    BY <1>3
  <2> QED
    BY <2>1 DEF Positions
<1> QED
  BY <1>2, <1>4 DEF CallsIn

\* There are finitely many calls.
LEMMA CallsFinite ==
    ASSUME NEW q \in Stacks, NEW F
    PROVE  IsFiniteSet(CallsIn(q, F)) /\ Count(q, F) \in Nat
<1>1. \A t \in Threads : IsFiniteSet({t} \X (1..Len(q[t])))
  <2> TAKE t \in Threads
  <2>1. Len(q[t]) \in Int
    OBVIOUS
  <2>2. IsFiniteSet(1..Len(q[t]))
    BY <2>1, FS_Interval
  <2>3. IsFiniteSet({t})
    BY FS_Singleton, Zenon
  <2> QED
    BY <2>2, <2>3, FS_Product
<1>2. PICK P : P = {{t} \X (1..Len(q[t])) : t \in Threads}
  OBVIOUS
<1>3. IsFiniteSet(P)
  <2>1. PICK f : f = [t \in Threads |-> {t} \X (1..Len(q[t]))]
    OBVIOUS
  <2>2. f \in Surjection(Threads, P)
    BY <1>2, <2>1 DEF Surjection
  <2> QED
    BY <2>2, StoreConstants, FS_Surjection
<1>4. IsFiniteSet(Positions(q))
  BY <1>1, <1>2, <1>3, FS_UNION DEF Positions
<1>5. CallsIn(q, F) \in SUBSET Positions(q)
  BY DEF CallsIn
<1> QED
  BY <1>4, <1>5, FS_Subset, FS_CardinalityType DEF Count

\* One element more.
LEMMA CardMore ==
    ASSUME NEW S, IsFiniteSet(S), NEW x, x \notin S, NEW T, T = S \union {x}
    PROVE  IsFiniteSet(T) /\ Cardinality(T) = Cardinality(S) + 1 /\ Cardinality(S) \in Nat
BY FS_AddElement, FS_CardinalityType

\* Without the call at depth n of t.
LEMMA CountWithout ==
    ASSUME NEW q \in Stacks, NEW F, NEW t \in Threads, NEW n \in Nat, n # 0,
           NEW R, R = {c \in CallsIn(q, F) : c # <<t, n>>}
    PROVE  Cardinality(R) \in Nat /\ Count(q, F) = Cardinality(R) + Here(q, t, n, F)
<1>1. IsFiniteSet(CallsIn(q, F)) /\ R \in SUBSET CallsIn(q, F)
  BY CallsFinite
<1>2. IsFiniteSet(R) /\ Cardinality(R) \in Nat
  BY <1>1, FS_Subset, FS_CardinalityType
<1>3. CASE n \in 1..Len(q[t]) /\ q[t][n] \in F
  <2>1. <<t, n>> \in CallsIn(q, F)
    BY <1>3, CallIs
  <2>2. CallsIn(q, F) = R \union {<<t, n>>} /\ <<t, n>> \notin R
    BY <2>1
  <2> QED
    BY <1>2, <1>3, <2>2, CardMore DEF Count, Here
<1>4. CASE ~(n \in 1..Len(q[t]) /\ q[t][n] \in F)
  <2>1. \A c \in CallsIn(q, F) : c # <<t, n>>
    BY <1>4, CallIs
  <2>2. R = CallsIn(q, F)
    BY <2>1
  <2>3. Here(q, t, n, F) = 0
    BY <1>4 DEF Here
  <2> QED
    <3>1. Count(q, F) = Cardinality(R)
      BY <2>2 DEF Count
    <3> QED
      BY <1>2, <2>3, <3>1
<1> QED
  BY <1>3, <1>4

\* q and r are alike but for the call at depth n of t.
AlikeBut(q, r, t, n) ==
    \A u \in Threads : \A j \in Nat : j # 0 /\ ~(u = t /\ j = n) =>
        /\ j <= Len(r[u]) <=> j <= Len(q[u])
        /\ j <= Len(q[u]) => r[u][j] = q[u][j]

\* Half of the next lemma.
LEMMA AlikeSubset ==
    ASSUME NEW q \in Stacks, NEW r \in Stacks, NEW F,
           NEW t \in Threads, NEW n \in Nat, n # 0, AlikeBut(q, r, t, n),
           NEW c \in CallsIn(q, F), c # <<t, n>>
    PROVE  c \in CallsIn(r, F)
<1>1. PICK u \in Threads : u = c[1]
  BY CallIs
<1>2. PICK j \in 1..Len(q[u]) : j = c[2]
  BY <1>1, CallIs
<1>3. c = <<u, j>> /\ q[u][j] \in F /\ Len(q[u]) \in Nat /\ Len(r[u]) \in Nat
  BY <1>1, <1>2, CallIs
<1>4. j \in Nat /\ j # 0 /\ j <= Len(q[u]) /\ ~(u = t /\ j = n)
  BY <1>2, <1>3
<1>5. j <= Len(r[u]) /\ r[u][j] = q[u][j]
  BY <1>4 DEF AlikeBut
<1>6. j \in 1..Len(r[u]) /\ r[u][j] \in F
  BY <1>3, <1>4, <1>5
<1> QED
  BY <1>3, <1>6, CallIs

\* One call changes, comes or goes.
LEMMA CountChanged ==
    ASSUME NEW q \in Stacks, NEW r \in Stacks, NEW F,
           NEW t \in Threads, NEW n \in Nat, n # 0, AlikeBut(q, r, t, n)
    PROVE  Count(r, F) = Count(q, F) - Here(q, t, n, F) + Here(r, t, n, F)
<1>1. PICK R : R = {c \in CallsIn(q, F) : c # <<t, n>>}
  OBVIOUS
<1>2. AlikeBut(r, q, t, n)
  BY DEF AlikeBut
<1>3. R = {c \in CallsIn(r, F) : c # <<t, n>>}
  BY <1>1, <1>2, AlikeSubset
<1>4. Cardinality(R) \in Nat /\ Count(q, F) = Cardinality(R) + Here(q, t, n, F)
  BY <1>1, CountWithout
<1>5. Count(r, F) = Cardinality(R) + Here(r, t, n, F)
  BY <1>3, CountWithout
<1> QED
  BY <1>4, <1>5 DEF Here

\* Counts when the innermost call of t becomes f.
LEMMA CountReplaced ==
    ASSUME FramesType, FramesType', NEW t \in Threads, NEW f, Replaced(t, f), NEW F
    PROVE  Count(frames', F) = Count(frames, F) - Weight(Top(t), F) + Weight(f, F)
<1>0. frames \in Stacks /\ frames' \in Stacks
  BY DEF FramesType, Stacks
<1>01. Count(frames, F) \in Nat
  BY <1>0, CallsFinite
<1>1. PICK n : n \in Nat /\ n # 0 /\ n = Len(frames[t])
  BY FrameFacts DEF Replaced
<1>2. frames[t][n] = Top(t) /\ frames'[t][n] = f /\ n \in 1..Len(frames[t]) /\ n \in 1..Len(frames'[t])
  BY <1>1, FrameFacts DEF Replaced, Top
<1>3. AlikeBut(frames, frames', t, n)
  BY <1>1, FrameFacts DEF AlikeBut, Replaced, Rest
<1>4. Here(frames, t, n, F) = Weight(Top(t), F) /\ Here(frames', t, n, F) = Weight(f, F)
  BY <1>2 DEF Here, Weight
<1>5. Count(frames', F) = Count(frames, F) - Here(frames, t, n, F) + Here(frames', t, n, F)
  BY <1>0, <1>1, <1>3, CountChanged
<1> QED
  BY <1>4, <1>5

\* Counts when it returns.
LEMMA CountPopped ==
    ASSUME FramesType, FramesType', NEW t \in Threads, Popped(t), NEW F
    PROVE  Count(frames', F) = Count(frames, F) - Weight(Top(t), F)
<1>0. frames \in Stacks /\ frames' \in Stacks
  BY DEF FramesType, Stacks
<1>01. Count(frames, F) \in Nat
  BY <1>0, CallsFinite
<1>1. PICK n : n \in Nat /\ n # 0 /\ n = Len(frames[t])
  BY FrameFacts DEF Popped
<1>2. frames[t][n] = Top(t) /\ n \in 1..Len(frames[t]) /\ n \notin 1..Len(frames'[t])
  BY <1>1, FrameFacts DEF Popped, Top
<1>3. AlikeBut(frames, frames', t, n)
  BY <1>1, FrameFacts DEF AlikeBut, Popped, Rest
<1>4. Here(frames, t, n, F) = Weight(Top(t), F) /\ Here(frames', t, n, F) = 0
  BY <1>2 DEF Here, Weight
<1>5. Count(frames', F) = Count(frames, F) - Here(frames, t, n, F) + Here(frames', t, n, F)
  BY <1>0, <1>1, <1>3, CountChanged
<1>6. Weight(Top(t), F) \in Nat
  BY DEF Weight
<1> QED
  BY <1>01, <1>4, <1>5, <1>6

\* Counts when t calls f and was in no call.
LEMMA CountBegun ==
    ASSUME FramesType, FramesType', NEW t \in Threads, NEW f, Begun(t, f), NEW F
    PROVE  Count(frames', F) = Count(frames, F) + Weight(f, F)
<1>0. frames \in Stacks /\ frames' \in Stacks
  BY DEF FramesType, Stacks
<1>01. Count(frames, F) \in Nat
  BY <1>0, CallsFinite
<1>1. 1 \in Nat /\ 1 # 0
  OBVIOUS
<1>3. AlikeBut(frames, frames', t, 1)
  <2>1. Len(frames[t]) = 0 /\ Len(frames'[t]) = 1
    BY DEF Begun
  <2>2. \A j \in Nat : j # 0 /\ j # 1 => ~(j <= 0) /\ ~(j <= 1)
    OBVIOUS
  <2>3. \A u \in Threads : u # t => frames'[u] = frames[u]
    BY DEF Begun, Rest
  <2> QED
    BY <2>1, <2>2, <2>3 DEF AlikeBut
<1>4. Here(frames, t, 1, F) = 0 /\ Here(frames', t, 1, F) = Weight(f, F)
  BY DEF Here, Weight, Begun
<1>5. Count(frames', F) = Count(frames, F) - Here(frames, t, 1, F) + Here(frames', t, 1, F)
  BY <1>0, <1>1, <1>3, CountChanged
<1>6. Weight(f, F) \in Nat
  BY DEF Weight
<1> QED
  BY <1>01, <1>4, <1>5, <1>6

\* Counts when the innermost call becomes f and calls g.
LEMMA CountPushed ==
    ASSUME FramesType, FramesType', NEW t \in Threads, NEW f \in Frame, NEW g, Pushed(t, f, g), NEW F
    PROVE  Count(frames', F) = Count(frames, F) - Weight(Top(t), F) + Weight(f, F) + Weight(g, F)
<1>0. frames \in Stacks /\ frames' \in Stacks
  BY DEF FramesType, Stacks
<1>01. Count(frames, F) \in Nat
  BY <1>0, CallsFinite
<1>1. PICK n : n \in Nat /\ n # 0 /\ n = Len(frames[t])
  BY FrameFacts DEF Pushed
<1>2. frames[t][n] = Top(t) /\ n \in 1..Len(frames[t])
  BY <1>1, FrameFacts DEF Pushed, Top
<1>3. PICK r : r = [frames EXCEPT ![t] = [frames[t] EXCEPT ![n] = f]]
  OBVIOUS
<1>4. r[t] = [frames[t] EXCEPT ![n] = f] /\ \A u \in Threads : u # t => r[u] = frames[u]
  BY <1>3 DEF FramesType
<1>5. r[t] \in Seq(Frame) /\ Len(r[t]) = n /\ r[t][n] = f /\ \A j \in 1..n : j # n => r[t][j] = frames[t][j]
  BY <1>1, <1>2, <1>4 DEF FramesType
<1>6. r \in Stacks
  BY <1>3, <1>5 DEF FramesType, Stacks
<1>7. AlikeBut(frames, r, t, n)
  BY <1>1, <1>4, <1>5 DEF AlikeBut
<1>8. AlikeBut(r, frames', t, n + 1)
  <2>1. \A j \in Nat : j # 0 /\ j # n + 1 =>
          (j <= Len(frames'[t]) <=> j <= n) /\ (j <= n => frames'[t][j] = r[t][j])
    BY <1>1, <1>5 DEF Pushed
  <2>2. \A u \in Threads : u # t => frames'[u] = r[u]
    BY <1>4 DEF Pushed, Rest
  <2> QED
    BY <1>5, <2>1, <2>2 DEF AlikeBut
<1>9. /\ Here(frames, t, n, F) = Weight(Top(t), F) /\ Here(r, t, n, F) = Weight(f, F)
      /\ Here(r, t, n + 1, F) = 0 /\ Here(frames', t, n + 1, F) = Weight(g, F)
  BY <1>1, <1>2, <1>5 DEF Here, Weight, Pushed
<1>10. Count(r, F) = Count(frames, F) - Weight(Top(t), F) + Weight(f, F)
  <2>1. Count(r, F) = Count(frames, F) - Here(frames, t, n, F) + Here(r, t, n, F)
    BY <1>0, <1>1, <1>6, <1>7, CountChanged
  <2> QED
    BY <1>9, <2>1
<1>11. Count(frames', F) = Count(r, F) - 0 + Weight(g, F)
  <2>0. n \in Nat /\ n # 0
    BY <1>1
  <2>1. n + 1 \in Nat /\ n + 1 # 0
    BY <2>0
  <2>2. Count(frames', F) = Count(r, F) - Here(r, t, n + 1, F) + Here(frames', t, n + 1, F)
    BY <1>0, <1>6, <1>8, <2>1, CountChanged
  <2> QED
    BY <1>9, <2>2
<1>12. Count(r, F) \in Nat
  BY <1>6, CallsFinite
<1>13. Weight(f, F) \in Nat /\ Weight(g, F) \in Nat /\ Weight(Top(t), F) \in Nat
  BY DEF Weight
<1> QED
  BY <1>01, <1>10, <1>11, <1>12, <1>13

\* Counts when an exception leaves the innermost call; below is nothing or a call
\* that is counted alike before and after.
LEMMA CountRaised ==
    ASSUME FramesType, FramesType', NEW t \in Threads, Raised(t), NEW F,
           Len(frames[t]) # 1 =>
               LET f == frames[t][Len(frames[t]) - 1] IN f \in F <=> Unwound(f) \in F
    PROVE  Count(frames', F) = Count(frames, F) - Weight(Top(t), F)
<1>0. frames \in Stacks /\ frames' \in Stacks
  BY DEF FramesType, Stacks
<1>01. Count(frames, F) \in Nat
  BY <1>0, CallsFinite
<1>1. PICK n : n \in Nat /\ n # 0 /\ n = Len(frames[t])
  BY FrameFacts DEF Raised
<1>2. frames[t][n] = Top(t) /\ n \in 1..Len(frames[t]) /\ frames[t] \in Seq(Frame)
  BY <1>1, FrameFacts DEF Raised, Top, FramesType
<1>3. PICK p : p = SubSeq(frames[t], 1, n - 1)
  OBVIOUS
<1>4. p \in Seq(Frame) /\ Len(p) = n - 1 /\ \A j \in 1..(n - 1) : p[j] = frames[t][j]
  BY <1>1, <1>2, <1>3
<1>5. PICK r : r = [frames EXCEPT ![t] = p]
  OBVIOUS
<1>6. r \in Stacks /\ r[t] = p /\ \A u \in Threads : u # t => r[u] = frames[u]
  BY <1>4, <1>5 DEF FramesType, Stacks
<1>7. AlikeBut(frames, r, t, n) /\ Here(r, t, n, F) = 0 /\ Here(frames, t, n, F) = Weight(Top(t), F)
  BY <1>1, <1>2, <1>4, <1>6 DEF AlikeBut, Here, Weight
<1>8. Count(r, F) = Count(frames, F) - Weight(Top(t), F)
  <2>1. Count(r, F) = Count(frames, F) - Here(frames, t, n, F) + Here(r, t, n, F)
    BY <1>0, <1>1, <1>6, <1>7, CountChanged
  <2>2. Weight(Top(t), F) \in Nat
    BY DEF Weight
  <2> QED
    BY <1>01, <1>7, <2>1, <2>2
<1>9. \A u \in Threads : u # t => frames'[u] = r[u]
  BY <1>6 DEF Raised, Rest
<1>10. CASE n = 1
  <2>0. 1 \in Nat /\ 1 # 0
    OBVIOUS
  <2>1. AlikeBut(r, frames', t, 1) /\ Here(r, t, 1, F) = 0 /\ Here(frames', t, 1, F) = 0
    BY <1>1, <1>4, <1>6, <1>9, <1>10 DEF AlikeBut, Here, Raised
  <2> QED
    <3>1. Count(frames', F) = Count(r, F) - Here(r, t, 1, F) + Here(frames', t, 1, F)
      BY <1>0, <1>6, <2>1, <2>0, CountChanged
    <3>2. Count(r, F) \in Nat
      BY <1>6, CallsFinite
    <3> QED
      BY <1>8, <2>1, <3>1, <3>2
<1>11. CASE n # 1
  <2>1. PICK m : m \in Nat /\ m # 0 /\ m = n - 1
    <3>1. n \in Nat /\ n # 0
      BY <1>1
    <3>2. n - 1 \in Nat /\ n - 1 # 0
      BY <1>11, <3>1
    <3> QED
      BY <3>2
  <2>11. m \in Nat /\ m # 0
    BY <2>1
  <2>12. m \in 1..(n - 1)
    <3>1. m = n - 1
      BY <2>1
    <3>2. m \in 1..m
      BY <2>11
    <3> QED
      BY <3>1, <3>2
  <2>2. Len(frames'[t]) = m /\ frames'[t][m] = Unwound(frames[t][m]) /\ r[t][m] = frames[t][m] /\ Len(r[t]) = m
    <3>1. Len(frames'[t]) = m /\ frames'[t][m] = Unwound(frames[t][m])
      BY <1>1, <1>11, <2>1 DEF Raised
    <3> QED
      BY <1>4, <1>6, <2>1, <2>12, <3>1
  <2>3. AlikeBut(r, frames', t, m)
    BY <1>1, <1>4, <1>6, <1>9, <2>1, <2>2 DEF AlikeBut, Raised
  <2>4. frames[t][m] \in F <=> Unwound(frames[t][m]) \in F
    BY <1>1, <1>11, <2>1
  <2>5. Here(r, t, m, F) = Here(frames', t, m, F) /\ Here(r, t, m, F) \in Nat
    BY <2>2, <2>4 DEF Here
  <2>6. Count(frames', F) = Count(r, F) - Here(r, t, m, F) + Here(frames', t, m, F)
    BY <1>0, <1>6, <2>11, <2>3, CountChanged
  <2>7. Count(r, F) \in Nat
    BY <1>6, CallsFinite
  <2> QED
    BY <1>8, <2>5, <2>6, <2>7
<1> QED
  BY <1>10, <1>11

\* A call that is counted.
LEMMA CountAtLeast ==
    ASSUME FramesType, NEW F, NEW t \in Threads, NEW j \in 1..Len(frames[t]), frames[t][j] \in F
    PROVE  /\ Count(frames, F) >= 1
           /\ \A u \in Threads : \A k \in 1..Len(frames[u]) :
                frames[u][k] \in F /\ ~(u = t /\ k = j) => Count(frames, F) >= 2
<1>0. frames \in Stacks /\ IsFiniteSet(CallsIn(frames, F)) /\ Count(frames, F) \in Nat
  BY CallsFinite DEF FramesType, Stacks
<1>1. <<t, j>> \in CallsIn(frames, F)
  BY <1>0, CallIs
<1>2. Count(frames, F) # 0
  BY <1>0, <1>1, FS_EmptySet DEF Count
<1>3. ASSUME NEW u \in Threads, NEW k \in 1..Len(frames[u]), frames[u][k] \in F, ~(u = t /\ k = j)
      PROVE  Count(frames, F) # 1
  <2>1. <<u, k>> \in CallsIn(frames, F) /\ <<u, k>> # <<t, j>>
    BY <1>0, <1>3, CallIs
  <2>2. ~ \E x : CallsIn(frames, F) = {x}
    BY <1>1, <2>1
  <2> QED
    BY <1>0, <2>2, FS_Singleton DEF Count
<1> QED
  BY <1>0, <1>2, <1>3

\* The sets of calls of the model, as counts.
LEMMA CountsOfModel ==
    /\ FramesType => \A s, ops : CallsAt(s, ops) = CallsIn(frames, FramesAt(s, ops))
    /\ FramesType' => \A s, ops : CallsAt(s, ops)' = CallsIn(frames', FramesAt(s, ops))
    /\ FramesType => Leaving = CallsIn(frames, LeaveFrames)
    /\ FramesType' => Leaving' = CallsIn(frames', LeaveFrames)
<1>1. Calls = Positions(frames) /\ Calls' = Positions(frames')
  BY DEF Calls, Positions
<1>2. \A q : q \in Stacks => \A c \in Positions(q) : q[c[1]][c[2]] \in Frame
  <2> TAKE q
  <2> HAVE q \in Stacks
  <2>1. \A c \in Positions(q) : \E t \in Threads : c \in {t} \X (1..Len(q[t]))
    BY DEF Positions
  <2> QED
    BY <2>1 DEF Stacks
<1>3. FramesType => \A c \in Positions(frames) : frames[c[1]][c[2]] \in Frame
  BY <1>2 DEF FramesType, Stacks
<1>4. FramesType' => \A c \in Positions(frames') : frames'[c[1]][c[2]] \in Frame
  BY <1>2 DEF FramesType, Stacks
<1> QED
  BY <1>1, <1>3, <1>4 DEF CallsAt, CallsIn, FramesAt, Leaving, LeaveFrames, Making

-----------------------------------------------------------------------------
(* What each action does, call by call.                                    *)

\* The innermost call of t goes on as f.
Becomes(t, f, op, slot, live) ==
    /\ f \in Frame /\ Replaced(t, f)
    /\ f.op = op /\ f.slot = slot /\ f.live = live
    /\ f.kind = Top(t).kind /\ f.inst = Top(t).inst

\* The innermost call of t is well formed.
LEMMA TopFacts ==
    ASSUME Shape, NEW t \in Threads, frames[t] # <<>>
    PROVE  /\ FramesType /\ Len(frames[t]) \in 1..Len(frames[t])
           /\ Top(t) \in Frame /\ Top(t) = frames[t][Len(frames[t])]
           /\ FrameOK(Top(t)) /\ (Making(Top(t)) => t \in Allocators /\ phase = "started")
           /\ Top(t).op = "sweep" => /\ Len(frames[t]) = 1 /\ phase = "stopping"
                                     /\ \A u \in Threads \ {t} : frames[u] = <<>>
<1>1. FramesType
  BY DEF Shape, Types, FramesType
<1> QED
  BY <1>1, FrameFacts DEF Shape, ShapeOf

\* The calls that make an instance.
LEMMA MakingOps ==
    ASSUME Shape, NEW t \in Threads, frames[t] # <<>>
    PROVE  /\ Top(t).op \in PopOps \union {"construct", "unwind", "activate", "hooks"} =>
                Making(Top(t)) /\ MakingOK(Top(t))
           /\ Top(t).op \in {"dec", "last", "take", "bump", "unlive", "sweep"} \union AskOps =>
                ~Making(Top(t)) /\ ReleasingOK(Top(t))
BY TopFacts DEF FrameOK, MakingOK, ReleasingOK, PopOps, PushOps, AskOps

\* Fields of a changed frame.
LEMMA FrameFields ==
    ASSUME NEW f \in Frame
    PROVE  /\ f.op \in Ops /\ f.kind \in Kinds \union {None} /\ f.inst \in Insts \union {None}
           /\ f.slot \in Slots \union {MaxSlots, None} /\ f.cur \in Heads
           /\ f.nxt \in Slots \union {None} /\ f.live \in BOOLEAN
BY DEF Frame

\* PopFrom.
LEMMA PopFromDoes ==
    ASSUME Shape, NEW t \in Threads, frames[t] # <<>>, PopFrom(t, head)
    PROVE  /\ FramesType'
           /\ \E f : /\ Becomes(t, f, IF head.slot = None THEN "grow" ELSE "popNext", Top(t).slot, Top(t).live)
                     /\ f.cur = head
<1>1. Top(t) \in Frame /\ FramesType /\ head \in Heads
  BY TopFacts DEF Shape, Types
<1>2. PICK f : f = [Top(t) EXCEPT !.cur = head, !.op = IF head.slot = None THEN "grow" ELSE "popNext"]
  OBVIOUS
<1>3. f \in Frame /\ Goto(t, f)
  BY <1>1, <1>2 DEF PopFrom, Frame, Ops
<1>4. FramesType' /\ Replaced(t, f)
  BY <1>1, <1>3, GotoIs
<1>5. /\ f.op = (IF head.slot = None THEN "grow" ELSE "popNext") /\ f.slot = Top(t).slot /\ f.live = Top(t).live
      /\ f.kind = Top(t).kind /\ f.inst = Top(t).inst /\ f.cur = head
  BY <1>1, <1>2 DEF Frame
<1> QED
  BY <1>3, <1>4, <1>5 DEF Becomes

\* Step.
LEMMA StepDoes ==
    ASSUME Shape, NEW t \in Threads, frames[t] # <<>>, NEW op \in Ops, Step(t, op)
    PROVE  /\ FramesType'
           /\ \E f : Becomes(t, f, op, Top(t).slot, Top(t).live) /\ f.cur = Top(t).cur /\ f.nxt = Top(t).nxt
<1>1. Top(t) \in Frame /\ FramesType
  BY TopFacts
<1>2. PICK f : f = [Top(t) EXCEPT !.op = op]
  OBVIOUS
<1>3. f \in Frame /\ Goto(t, f)
  BY <1>1, <1>2 DEF Step, Frame
<1>4. FramesType' /\ Replaced(t, f)
  BY <1>1, <1>3, GotoIs
<1>5. /\ f.op = op /\ f.slot = Top(t).slot /\ f.live = Top(t).live
      /\ f.kind = Top(t).kind /\ f.inst = Top(t).inst /\ f.cur = Top(t).cur /\ f.nxt = Top(t).nxt
  BY <1>1, <1>2 DEF Frame
<1> QED
  BY <1>3, <1>4, <1>5 DEF Becomes

\* TakeSlot.
AfterTake(k) == IF k \in OwnAlloc THEN "activate" ELSE "construct"

\* TakeSlot writes the metadata and moves the call on.
LEMMA TakeSlotDoes ==
    ASSUME Shape, NEW t \in Threads, frames[t] # <<>>, NEW s \in Slots, TakeSlot(t, s)
    PROVE  /\ FramesType'
           /\ memory' = [memory EXCEPT ![s] = Top(t).inst]
           /\ slotOf' = [slotOf EXCEPT ![Top(t).inst] = s]
           /\ \E f : Becomes(t, f, AfterTake(Top(t).kind), s, Top(t).live)
<1>1. Top(t) \in Frame /\ FramesType
  BY TopFacts
<1>2. PICK f : f = [Top(t) EXCEPT !.slot = s, !.op = AfterTake(Top(t).kind)]
  OBVIOUS
<1>3. f \in Frame /\ Goto(t, f)
  BY <1>1, <1>2 DEF TakeSlot, AfterTake, Frame, Ops
<1>4. FramesType' /\ Replaced(t, f)
  BY <1>1, <1>3, GotoIs
<1>5. /\ f.op = AfterTake(Top(t).kind) /\ f.slot = s /\ f.live = Top(t).live
      /\ f.kind = Top(t).kind /\ f.inst = Top(t).inst
  BY <1>1, <1>2 DEF Frame
<1> QED
  BY <1>3, <1>4, <1>5 DEF Becomes, TakeSlot

\* A new frame.
LEMMA CallFields ==
    ASSUME NEW op \in Ops, NEW k \in Kinds \union {None}, NEW i \in Insts \union {None},
           NEW s \in Slots \union {MaxSlots, None}
    PROVE  LET g == Call(op, k, i, s) IN
           /\ g \in Frame /\ g.op = op /\ g.kind = k /\ g.inst = i /\ g.slot = s /\ g.live
BY DEF Call, Frame, Empty, Heads

\* The handle that instance i holds is released in a call of its own.
Release(g, s) ==
    g \in Frame /\ g.op = "dec" /\ g.inst = None /\ g.slot = s /\ g.live

\* ReleaseMember calls that release, if there is a handle.
LEMMA ReleaseMemberDoes ==
    ASSUME Shape, NEW t \in Threads, frames[t] # <<>>, NEW f \in Frame, NEW i \in Insts,
           ReleaseMember(t, f, i)
    PROVE  /\ FramesType' /\ member' = [member EXCEPT ![i] = None]
           /\ member[i] = None => Replaced(t, f)
           /\ member[i] # None => /\ member[i] \in Insts /\ slotOf[member[i]] \in Slots
                                  /\ \E g : Pushed(t, f, g) /\ Release(g, slotOf[member[i]])
<1>1. FramesType /\ member \in [Insts -> Insts \union {None}] /\ slotOf \in [Insts -> Slots \union {None}]
  BY TopFacts DEF Shape, Types
<1>2. member[i] # None => member[i] \in Insts /\ slotOf[member[i]] \in Slots
  BY <1>1 DEF Shape, HeldHasSlot
<1>3. PICK g : g = Call("dec", None, None, slotOf[member[i]])
  OBVIOUS
<1>4. member[i] # None => g \in Frame /\ Release(g, slotOf[member[i]])
  <2> HAVE member[i] # None
  <2>1. "dec" \in Ops
    BY DEF Ops
  <2> QED
    BY <1>2, <1>3, <2>1, CallFields DEF Release
<1>5. FramesType' /\ (member[i] = None => Replaced(t, f)) /\ (member[i] # None => Pushed(t, f, g))
  BY <1>1, <1>3, <1>4, ReleaseMemberIs
<1> QED
  BY <1>2, <1>4, <1>5 DEF ReleaseMember

\* Everything but the calls in progress.
Data == <<head, nextFree, generation, memory, refcount, slotCount, liveSlots, phase, frees,
          handles, member, slotOf, insts, lost, destroyed>>

\* A step within one call, seen only by that call: it loads or compares, or goes on
\* to another part of the call that owns the same slot.
Quiet(t, f) ==
    /\ FramesType' /\ f \in Frame /\ Replaced(t, f) /\ frames[t] # <<>> /\ FrameOK(f)
    /\ f.kind = Top(t).kind /\ f.inst = Top(t).inst
    /\ f.slot = Top(t).slot /\ f.live = Top(t).live
    /\ f.op \notin AskOps \union {"sweep", "pushCas"} /\ Top(t).op \notin AskOps \union {"sweep"}
    /\ \A s \in Slots : f \in FramesAt(s, WorkOps) <=> Top(t) \in FramesAt(s, WorkOps)
    /\ \A s \in Slots : f \notin FramesAt(s, {"dec", "hooks"}) /\ Top(t) \notin FramesAt(s, {"dec", "hooks"})
    /\ f \in LeaveFrames <=> Top(t) \in LeaveFrames
    /\ Reserve(f) => Reserve(Top(t))
    /\ f.op \in PushOps <=> Top(t).op \in PushOps
    /\ f.op = "popNext" => f.cur = head /\ head.slot # None
    /\ f.op = "popCas" => Top(t).op = "popNext" /\ f.cur = Top(t).cur /\ f.nxt = nextFree[f.cur.slot]
    /\ UNCHANGED Data

\* Which steps of a call are quiet.
QuietOps(op, new, k) ==
    \/ op \in {"popLoad", "popCas"} /\ new \in {"grow", "popNext"}
    \/ op = "popNext" /\ new = "popCas"
    \/ op = "construct" /\ new = IF k \in OwnAlloc THEN "popLoad" ELSE "activate"
    \/ op = "construct" /\ new = "unwind"
    \/ op = "last" /\ new \in {"take", "bump"}
    \/ op \in {"pushLoad", "pushCas"} /\ new = "pushLink"

\* They keep a call well formed and in its class.
LEMMA QuietIs ==
    ASSUME Shape, NEW t \in Threads, frames[t] # <<>>, NEW f,
           Becomes(t, f, f.op, Top(t).slot, Top(t).live), FramesType', UNCHANGED Data,
           QuietOps(Top(t).op, f.op, Top(t).kind),
           f.op = "popNext" => f.cur = head /\ head.slot # None,
           f.op = "popCas" => f.cur = Top(t).cur /\ f.nxt = nextFree[f.cur.slot],
           Top(t).op = "construct" /\ f.op = "popLoad" /\ Top(t).kind \in Holder => member[Top(t).inst] # None
    PROVE  Quiet(t, f)
<1>1. /\ f \in Frame /\ Replaced(t, f) /\ f.slot = Top(t).slot /\ f.live = Top(t).live
      /\ f.kind = Top(t).kind /\ f.inst = Top(t).inst /\ Top(t) \in Frame
  BY TopFacts DEF Becomes
<1>2. FrameOK(Top(t))
  BY TopFacts
<1>3. None \notin Slots
  BY StoreConstants DEF Slots
<1>4. Making(f) <=> Making(Top(t))
  BY <1>1 DEF Making
<1>5. FrameOK(f)
  <2>1. CASE Making(f)
    <3>1. MakingOK(Top(t))
      BY <1>2, <1>4, <2>1 DEF FrameOK
    <3>2. /\ f.kind \in Kinds
          /\ f.inst \in Nat /\ 1 <= f.inst /\ f.inst <= insts
          /\ f.kind \in Holder => f.inst + 1 <= insts
          /\ f.slot # None => f.slot \in Slots /\ slotOf[f.inst] \in Slots
      BY <1>1, <3>1 DEF MakingOK
    <3>3. /\ f.op \in PopOps \union PushOps \union {"construct", "unwind", "activate", "hooks"}
          /\ f.op \in PopOps => f.slot = None
          /\ f.op \in {"construct", "unwind"} => (f.slot = None <=> f.kind \in OwnAlloc)
          /\ f.op \in {"activate", "hooks"} \union PushOps => f.slot # None
          /\ f.op \in PushOps <=> ~f.live
      BY <1>1, <3>1 DEF MakingOK, QuietOps, PopOps, PushOps
    <3>4. f.op \in {"popNext", "popCas"} => f.cur.slot # None
      BY <1>1, <3>1 DEF MakingOK, QuietOps, PopOps, PushOps
    <3> QED
      BY <2>1, <3>2, <3>3, <3>4 DEF FrameOK, MakingOK
  <2>2. CASE ~Making(f)
    <3>1. ReleasingOK(Top(t))
      BY <1>2, <1>4, <2>2 DEF FrameOK
    <3> QED
      BY <1>1, <2>2, <3>1 DEF FrameOK, ReleasingOK, QuietOps, PushOps, AskOps
  <2> QED
    BY <2>1, <2>2
<1>6. \A s \in Slots : f \in FramesAt(s, WorkOps) <=> Top(t) \in FramesAt(s, WorkOps)
  <2> TAKE s \in Slots
  <2>1. f.slot = s => (f.op \in WorkOps <=> Top(t).op \in WorkOps)
    <3> HAVE f.slot = s
    <3>1. CASE Making(f)
      <4>1. Making(Top(t)) /\ MakingOK(Top(t))
        BY <1>2, <1>4, <3>1 DEF FrameOK
      <4>2. Top(t).slot # None
        BY <1>1, <1>3
      <4>3. Top(t).op \notin PopOps /\ (Top(t).op = "construct" => Top(t).kind \notin OwnAlloc)
        BY <4>1, <4>2 DEF MakingOK
      <4> QED
        BY <4>3 DEF QuietOps, PopOps, PushOps, WorkOps
    <3>2. CASE ~Making(f)
      <4>1. ReleasingOK(Top(t))
        BY <1>2, <1>4, <3>2 DEF FrameOK
      <4> QED
        BY <4>1 DEF ReleasingOK, QuietOps, PushOps, AskOps, WorkOps
    <3> QED
      BY <3>1, <3>2
  <2> QED
    BY <1>1, <2>1 DEF FramesAt
<1>7. \A s \in Slots : f \notin FramesAt(s, {"dec", "hooks"}) /\ Top(t) \notin FramesAt(s, {"dec", "hooks"})
  BY DEF FramesAt, QuietOps
<1>8. f \in LeaveFrames <=> Top(t) \in LeaveFrames
  <2>1. ~Making(f) => (f.op \in LeaveOps <=> Top(t).op \in LeaveOps)
    <3> HAVE ~Making(f)
    <3>1. ReleasingOK(Top(t))
      BY <1>2, <1>4 DEF FrameOK
    <3> QED
      BY <3>1 DEF ReleasingOK, QuietOps, PushOps, AskOps, LeaveOps
  <2> QED
    BY <1>1, <1>4, <2>1 DEF LeaveFrames
<1>9. Reserve(f) => Reserve(Top(t))
  BY <1>1, <1>4 DEF Reserve, QuietOps, PopOps
<1>10. (f.op \in PushOps <=> Top(t).op \in PushOps) /\ (f.op = "popCas" => Top(t).op = "popNext")
  BY DEF QuietOps, PushOps
<1>11. f.op \notin AskOps \union {"sweep", "pushCas"} /\ Top(t).op \notin AskOps \union {"sweep"}
  BY DEF QuietOps, AskOps
<1> QED
  BY <1>1, <1>5, <1>6, <1>7, <1>8, <1>9, <1>10, <1>11 DEF Quiet

\* The quiet steps of the store's operations.
QuietStep(t) ==
    \/ PopLoad(t) \/ PopNext(t) \/ (PopCas(t) /\ head # Top(t).cur)
    \/ Constructed(t) \/ ConstructorThrows(t) \/ ReleaseLast(t)
    \/ PushLoad(t) \/ (PushCas(t) /\ head # Top(t).cur)

\* Each of them is quiet.
LEMMA QuietStepDoes ==
    ASSUME Shape, NEW t \in Threads, QuietStep(t)
    PROVE  \E f : Quiet(t, f)
<1>0. frames[t] # <<>>
  BY DEF QuietStep, PopLoad, PopNext, PopCas, Constructed, ConstructorThrows, ReleaseLast, PushLoad, PushCas, At
<1>1. Top(t) \in Frame /\ FramesType /\ head \in Heads
  BY <1>0, TopFacts DEF Shape, Types
<1>2. CASE PopLoad(t) \/ (PopCas(t) /\ head # Top(t).cur)
  <2>1. PopFrom(t, head) /\ UNCHANGED Data /\ Top(t).op \in {"popLoad", "popCas"}
    BY <1>2 DEF PopLoad, PopCas, At, Data, freelist, counts, objects
  <2>2. FramesType'
    BY <1>0, <2>1, PopFromDoes
  <2>3. PICK f : /\ Becomes(t, f, IF head.slot = None THEN "grow" ELSE "popNext", Top(t).slot, Top(t).live)
                 /\ f.cur = head
    BY <1>0, <2>1, PopFromDoes
  <2>4. f.op = (IF head.slot = None THEN "grow" ELSE "popNext") /\ Becomes(t, f, f.op, Top(t).slot, Top(t).live)
    BY <2>3 DEF Becomes
  <2>5. QuietOps(Top(t).op, f.op, Top(t).kind) /\ (f.op = "popNext" => head.slot # None) /\ f.op # "popCas" /\
          f.op # "popLoad"
    BY <2>1, <2>4 DEF QuietOps
  <2> QED
    BY <1>0, <2>1, <2>2, <2>3, <2>4, <2>5, QuietIs
<1>3. CASE PopNext(t)
  <2>1. PICK f : f = [Top(t) EXCEPT !.nxt = nextFree[Top(t).cur.slot], !.op = "popCas"]
    OBVIOUS
  <2>2. MakingOK(Top(t)) /\ Top(t).op = "popNext" /\ Goto(t, f) /\ UNCHANGED Data
    BY <1>0, <1>3, <2>1, MakingOps DEF PopNext, At, PopOps, Data, freelist, counts, objects
  <2>3. Top(t).cur.slot \in Slots
    BY <1>1, <2>2 DEF MakingOK, Frame, Heads
  <2>4. nextFree[Top(t).cur.slot] \in Slots \union {None}
    <3>1. nextFree \in [Slots -> Slots \union {None, 0}] /\ 0 \in Slots
      BY <2>3, StoreConstants DEF Shape, Types, Slots
    <3> QED
      BY <2>3, <3>1
  <2>5. f \in Frame
    BY <1>1, <2>1, <2>4 DEF Frame, Ops
  <2>6. FramesType' /\ Replaced(t, f)
    BY <1>0, <1>1, <2>2, <2>5, GotoIs
  <2>7. /\ f.op = "popCas" /\ f.slot = Top(t).slot /\ f.live = Top(t).live /\ f.nxt = nextFree[Top(t).cur.slot]
        /\ f.kind = Top(t).kind /\ f.inst = Top(t).inst /\ f.cur = Top(t).cur
    BY <1>1, <2>1 DEF Frame
  <2>8. Becomes(t, f, f.op, Top(t).slot, Top(t).live) /\ QuietOps(Top(t).op, f.op, Top(t).kind)
    BY <2>2, <2>5, <2>6, <2>7 DEF Becomes, QuietOps
  <2> QED
    BY <1>0, <2>2, <2>6, <2>7, <2>8, QuietIs
<1>4. CASE Constructed(t) \/ ConstructorThrows(t) \/ ReleaseLast(t)
  <2>1. PICK op \in Ops : /\ Step(t, op) /\ QuietOps(Top(t).op, op, Top(t).kind) /\ op \notin {"popNext", "popCas"}
                          /\ op = "popLoad" => (Top(t).kind \in Holder => member[Top(t).inst] # None)
    <3>1. CASE Constructed(t)
      BY <3>1 DEF Constructed, QuietOps, Ops, At
    <3>2. CASE ConstructorThrows(t)
      BY <3>2 DEF ConstructorThrows, QuietOps, Ops, At
    <3>3. CASE ReleaseLast(t)
      BY <3>3 DEF ReleaseLast, QuietOps, Ops, At
    <3> QED
      BY <1>4, <3>1, <3>2, <3>3
  <2>2. UNCHANGED Data
    BY <1>4 DEF Constructed, ConstructorThrows, ReleaseLast, Data, freelist, counts, objects
  <2>3. FramesType'
    BY <1>0, <2>1, StepDoes
  <2>4. PICK f : Becomes(t, f, op, Top(t).slot, Top(t).live)
    BY <1>0, <2>1, StepDoes
  <2>5. f.op = op /\ Becomes(t, f, f.op, Top(t).slot, Top(t).live)
    BY <2>4 DEF Becomes
  <2> QED
    BY <1>0, <2>1, <2>2, <2>3, <2>5, QuietIs
<1>5. CASE PushLoad(t) \/ (PushCas(t) /\ head # Top(t).cur)
  <2>1. PICK f : f = [Top(t) EXCEPT !.cur = head, !.op = "pushLink"]
    OBVIOUS
  <2>2. Top(t).op \in {"pushLoad", "pushCas"} /\ Goto(t, f) /\ UNCHANGED Data
    BY <1>5, <2>1 DEF PushLoad, PushCas, At, Data, freelist, counts, objects
  <2>5. f \in Frame
    BY <1>1, <2>1 DEF Frame, Ops
  <2>6. FramesType' /\ Replaced(t, f)
    BY <1>0, <1>1, <2>2, <2>5, GotoIs
  <2>7. /\ f.op = "pushLink" /\ f.slot = Top(t).slot /\ f.live = Top(t).live
        /\ f.kind = Top(t).kind /\ f.inst = Top(t).inst
    BY <1>1, <2>1 DEF Frame
  <2>8. Becomes(t, f, f.op, Top(t).slot, Top(t).live) /\ QuietOps(Top(t).op, f.op, Top(t).kind)
    BY <2>2, <2>5, <2>6, <2>7 DEF Becomes, QuietOps
  <2> QED
    BY <1>0, <2>2, <2>6, <2>7, <2>8, QuietIs
<1> QED
  BY <1>2, <1>3, <1>4, <1>5 DEF QuietStep

-----------------------------------------------------------------------------
(* What the other steps do.                                                *)

\* A slot is taken from the freelist or is a new one.
Taken(t, f, s) ==
    /\ FramesType' /\ frames[t] # <<>> /\ f \in Frame /\ Replaced(t, f)
    /\ Making(Top(t)) /\ MakingOK(Top(t))
    /\ f.op = AfterTake(Top(t).kind) /\ f.slot = s /\ f.live = Top(t).live
    /\ f.kind = Top(t).kind /\ f.inst = Top(t).inst
    /\ s \in Slots /\ memory' = [memory EXCEPT ![s] = Top(t).inst]
    /\ slotOf' = [slotOf EXCEPT ![Top(t).inst] = s]
    /\ \/ /\ Top(t).op = "popCas" /\ head = Top(t).cur /\ s = Top(t).cur.slot
          /\ head' = [gen |-> 0, slot |-> Top(t).nxt] /\ slotCount' = slotCount
       \/ /\ Top(t).op = "grow" /\ s = slotCount /\ slotCount' = slotCount + 1
          /\ head' = head
    /\ UNCHANGED <<nextFree, generation, refcount, liveSlots, phase, frees, handles, member,
                   insts, lost, destroyed>>

\* A successful pop, and growth, take a slot.
LEMMA TakenDoes ==
    ASSUME Shape, NEW t \in Threads, (PopCas(t) /\ head = Top(t).cur) \/ Grow(t)
    PROVE  \E f, s : Taken(t, f, s)
<1>0. frames[t] # <<>>
  BY DEF PopCas, Grow, At
<1>1. Top(t) \in Frame /\ Making(Top(t)) /\ MakingOK(Top(t)) /\ Top(t).op \in {"popCas", "grow"}
  BY <1>0, TopFacts, MakingOps DEF PopCas, Grow, At, PopOps
<1>2. PICK s : /\ TakeSlot(t, s)
               /\ \/ /\ Top(t).op = "popCas" /\ head = Top(t).cur /\ s = Top(t).cur.slot
                     /\ head' = [gen |-> 0, slot |-> Top(t).nxt] /\ slotCount' = slotCount
                  \/ /\ Top(t).op = "grow" /\ s = slotCount /\ slotCount' = slotCount + 1
                     /\ head' = head /\ slotCount < MaxSlots
  BY DEF PopCas, Grow, At, freelist
<1>3. s \in Slots
  <2>1. CASE Top(t).op = "popCas"
    BY <1>1, <1>2, <2>1 DEF MakingOK, Frame, Heads
  <2>2. CASE Top(t).op = "grow"
    BY <1>1, <1>2, <2>2, StoreConstants DEF Shape, Types, Slots
  <2> QED
    BY <1>1, <2>1, <2>2
<1>4. /\ FramesType' /\ memory' = [memory EXCEPT ![s] = Top(t).inst]
      /\ slotOf' = [slotOf EXCEPT ![Top(t).inst] = s]
  BY <1>0, <1>2, <1>3, TakeSlotDoes
<1>5. PICK f : Becomes(t, f, AfterTake(Top(t).kind), s, Top(t).live)
  BY <1>0, <1>2, <1>3, TakeSlotDoes
<1>6. UNCHANGED <<nextFree, generation, refcount, liveSlots, phase, frees, handles, member, insts, lost, destroyed>>
  BY DEF PopCas, Grow, freelist, counts
<1> QED
  BY <1>0, <1>1, <1>2, <1>3, <1>4, <1>5, <1>6 DEF Taken, Becomes

\* A call that makes an instance throws.
Thrown(t) ==
    /\ FramesType' /\ frames[t] # <<>> /\ Raised(t)
    /\ Making(Top(t)) /\ MakingOK(Top(t)) /\ t \in Allocators /\ phase = "started"

\* Raise throws.
LEMMA ThrownDoes ==
    ASSUME Shape, NEW t \in Threads, frames[t] # <<>>, Making(Top(t)), Raise(t)
    PROVE  Thrown(t)
BY TopFacts, RaiseIs DEF Thrown, FrameOK

\* A resolve starts.
Starting(f, k, i) ==
    /\ f \in Frame /\ f.op = FirstOp(k) /\ f.kind = k /\ f.inst = i /\ f.slot = None /\ f.live

\* Resolve begins a call for a fresh instance.
LEMMA ResolveDoes ==
    ASSUME Shape, NEW t \in Threads, NEW k \in Kinds, Resolve(t, k)
    PROVE  /\ insts + 1 \in Insts /\ insts + Needs(k) \in 0..MaxInst
           /\ FramesType' /\ \E f : Begun(t, f) /\ Starting(f, k, insts + 1)
<1>1. insts \in 0..MaxInst /\ FramesType /\ frames[t] = <<>>
  BY DEF Shape, Types, FramesType, Resolve
<1>2. insts + 1 \in Insts /\ insts + Needs(k) \in 0..MaxInst
  BY <1>1, StoreConstants DEF Insts, Resolve, Needs
<1>3. PICK f : f = Call(FirstOp(k), k, insts + 1, None)
  OBVIOUS
<1>4. FirstOp(k) \in Ops
  BY DEF FirstOp, Ops
<1>5. Starting(f, k, insts + 1)
  BY <1>2, <1>3, <1>4, CallFields DEF Starting
<1>6. frames' = [frames EXCEPT ![t] = <<f>>] /\ f \in Frame
  BY <1>3, <1>5 DEF Resolve, Starting
<1> QED
  BY <1>1, <1>2, <1>5, <1>6, BeginIs

\* The constructor of a holder calls a resolve for the next instance.
LEMMA ConstructMemberDoes ==
    ASSUME Shape, NEW t \in Threads, ConstructMember(t)
    PROVE  /\ FramesType' /\ frames[t] # <<>> /\ Making(Top(t)) /\ MakingOK(Top(t))
           /\ Top(t).op = "construct" /\ Top(t).kind \in Holder /\ member[Top(t).inst] = None
           /\ Top(t).inst + 1 \in Insts /\ UNCHANGED Data
           /\ \E g, k : k \in Kinds \ Holder /\ Pushed(t, Top(t), g) /\ Starting(g, k, Top(t).inst + 1)
<1>0. /\ frames[t] # <<>> /\ Top(t).op = "construct" /\ Top(t).kind \in Holder /\ member[Top(t).inst] = None
      /\ UNCHANGED Data
  BY DEF ConstructMember, At, Data, freelist, counts, objects
<1>1. Making(Top(t)) /\ MakingOK(Top(t)) /\ Top(t) \in Frame /\ FramesType
  BY <1>0, MakingOps, TopFacts
<1>2. Top(t).inst + 1 \in Insts
  BY <1>0, <1>1, StoreConstants DEF MakingOK, Shape, Types, Insts
<1>3. PICK k \in Kinds \ Holder :
        frames' = [frames EXCEPT ![t] = Append(@, Call(FirstOp(k), k, Top(t).inst + 1, None))]
  BY DEF ConstructMember
<1>4. PICK g : g = Call(FirstOp(k), k, Top(t).inst + 1, None)
  OBVIOUS
<1>5. FirstOp(k) \in Ops
  BY DEF FirstOp, Ops
<1>6. Starting(g, k, Top(t).inst + 1)
  BY <1>2, <1>4, <1>5, CallFields DEF Starting
<1>7. frames' = [frames EXCEPT ![t] = Append(frames[t], g)] /\ g \in Frame
  BY <1>3, <1>4, <1>6 DEF Starting
<1>8. FramesType' /\ Pushed(t, Top(t), g)
  BY <1>0, <1>1, <1>7, AppendIs
<1> QED
  BY <1>0, <1>1, <1>2, <1>6, <1>8

\* The constructor of the innermost call gave up: first the handle it holds is
\* released, then the slot goes back or, without one, the exception goes on.
LEMMA UnwindDoes ==
    ASSUME Shape, NEW t \in Threads, Unwind(t)
    PROVE  /\ FramesType' /\ frames[t] # <<>> /\ Making(Top(t)) /\ MakingOK(Top(t)) /\ Top(t).op = "unwind"
           /\ Top(t).inst \in Insts
           /\ UNCHANGED <<head, nextFree, generation, refcount, slotCount, liveSlots, phase, frees,
                          handles, slotOf, insts, lost, destroyed>>
           /\ \/ /\ member[Top(t).inst] \in Insts /\ slotOf[member[Top(t).inst]] \in Slots
                 /\ \E g : Pushed(t, Top(t), g) /\ Release(g, slotOf[member[Top(t).inst]])
                 /\ member' = [member EXCEPT ![Top(t).inst] = None] /\ UNCHANGED memory
              \/ /\ member[Top(t).inst] = None /\ Top(t).slot = None /\ Thrown(t)
                 /\ UNCHANGED <<member, memory>>
              \/ /\ member[Top(t).inst] = None /\ Top(t).slot \in Slots
                 /\ \E f : Becomes(t, f, "pushLoad", Top(t).slot, FALSE)
                 /\ memory' = [memory EXCEPT ![Top(t).slot] = None] /\ UNCHANGED member
<1>0. frames[t] # <<>> /\ Top(t).op = "unwind"
  BY DEF Unwind, At
<1>1. Making(Top(t)) /\ MakingOK(Top(t)) /\ Top(t) \in Frame /\ FramesType
  BY <1>0, MakingOps, TopFacts
<1>2. Top(t).inst \in Insts /\ (Top(t).slot # None => Top(t).slot \in Slots)
  BY <1>1 DEF MakingOK, Frame, Making
<1>3. UNCHANGED <<head, nextFree, generation, refcount, slotCount, liveSlots, phase, frees,
                  handles, slotOf, insts, lost, destroyed>>
  BY DEF Unwind, freelist, counts
<1>4. CASE member[Top(t).inst] # None
  <2>1. ReleaseMember(t, Top(t), Top(t).inst) /\ UNCHANGED memory
    BY <1>4 DEF Unwind
  <2>2. /\ FramesType' /\ member' = [member EXCEPT ![Top(t).inst] = None]
        /\ member[Top(t).inst] \in Insts /\ slotOf[member[Top(t).inst]] \in Slots
        /\ \E g : Pushed(t, Top(t), g) /\ Release(g, slotOf[member[Top(t).inst]])
    BY <1>0, <1>1, <1>2, <1>4, <2>1, ReleaseMemberDoes
  <2> QED
    BY <1>0, <1>1, <1>2, <1>3, <2>1, <2>2
<1>5. CASE member[Top(t).inst] = None /\ Top(t).kind \in OwnAlloc
  <2>1. Raise(t) /\ UNCHANGED <<member, memory>> /\ Top(t).slot = None
    BY <1>0, <1>1, <1>5 DEF Unwind, MakingOK
  <2>2. Thrown(t)
    BY <1>0, <1>1, <2>1, ThrownDoes
  <2> QED
    BY <1>0, <1>1, <1>2, <1>3, <1>5, <2>1, <2>2 DEF Thrown
<1>6. CASE member[Top(t).inst] = None /\ Top(t).kind \notin OwnAlloc
  <2>1. PICK f : f = [Top(t) EXCEPT !.op = "pushLoad", !.live = FALSE]
    OBVIOUS
  <2>2. Goto(t, f) /\ memory' = [memory EXCEPT ![Top(t).slot] = None] /\ UNCHANGED member
    BY <1>6, <2>1 DEF Unwind
  <2>3. f \in Frame /\ f.op = "pushLoad" /\ f.slot = Top(t).slot /\ f.live = FALSE /\ f.kind = Top(t).kind /\
          f.inst = Top(t).inst
    BY <1>1, <2>1 DEF Frame, Ops
  <2>4. FramesType' /\ Replaced(t, f)
    BY <1>0, <1>1, <2>2, <2>3, GotoIs
  <2>5. Top(t).slot \in Slots
    BY <1>0, <1>1, <1>6 DEF MakingOK
  <2>6. Becomes(t, f, "pushLoad", Top(t).slot, FALSE)
    BY <2>3, <2>4 DEF Becomes
  <2> QED
    BY <1>0, <1>1, <1>2, <1>3, <1>6, <2>2, <2>4, <2>5, <2>6
<1> QED
  BY <1>4, <1>5, <1>6

\* Activate goes on to the hooks.
LEMMA ActivateDoes ==
    ASSUME Shape, NEW t \in Threads, Activate(t)
    PROVE  /\ FramesType' /\ frames[t] # <<>> /\ Making(Top(t)) /\ MakingOK(Top(t)) /\ Top(t).op = "activate"
           /\ Top(t).slot \in Slots /\ \E f : Becomes(t, f, "hooks", Top(t).slot, Top(t).live)
<1>0. frames[t] # <<>> /\ Top(t).op = "activate" /\ Step(t, "hooks") /\ "hooks" \in Ops
  BY DEF Activate, At, Ops
<1>1. Making(Top(t)) /\ MakingOK(Top(t))
  BY <1>0, MakingOps
<1>2. FramesType' /\ \E f : Becomes(t, f, "hooks", Top(t).slot, Top(t).live)
  BY <1>0, StepDoes
<1> QED
  BY <1>0, <1>1, <1>2 DEF MakingOK

\* The handle goes to the thread, or to the bean whose constructor called.
LEMMA HooksDoneDoes ==
    ASSUME Shape, NEW t \in Threads, HooksDone(t)
    PROVE  /\ FramesType' /\ frames[t] # <<>> /\ Making(Top(t)) /\ MakingOK(Top(t)) /\ Top(t).op = "hooks"
           /\ Top(t).inst \in Insts /\ Top(t).slot \in Slots /\ Popped(t)
           /\ \/ /\ Len(frames[t]) = 1 /\ member' = member
                 /\ handles' = [handles EXCEPT ![t][Top(t).inst] = 1]
              \/ /\ Len(frames[t]) # 1 /\ handles' = handles
                 /\ frames[t][Len(frames[t]) - 1].inst \in Insts
                 /\ member' = [member EXCEPT ![frames[t][Len(frames[t]) - 1].inst] = Top(t).inst]
<1>0. frames[t] # <<>> /\ Top(t).op = "hooks" /\ Finish(t)
  BY DEF HooksDone, At
<1>1. Making(Top(t)) /\ MakingOK(Top(t)) /\ FramesType /\ Top(t) \in Frame
  BY <1>0, MakingOps, TopFacts
<1>2. FramesType' /\ Popped(t)
  BY <1>0, <1>1, FinishIs
<1>3. Top(t).inst \in Insts /\ Top(t).slot \in Slots
  BY <1>0, <1>1 DEF MakingOK, Making, Frame
<1>4. CASE Len(frames[t]) # 1
  <2>0. Len(frames[t]) \in Nat /\ Len(frames[t]) # 0
    BY <1>0, <1>1, FrameFacts
  <2>01. Len(frames[t]) - 1 \in Nat /\ Len(frames[t]) - 1 # 0
    BY <1>4, <2>0
  <2>1. PICK n : n \in Nat /\ n # 0 /\ n = Len(frames[t]) - 1
    BY <2>01
  <2>20. n \in Nat /\ n # 0 /\ Len(frames[t]) = n + 1
    BY <2>0, <2>1
  <2>2. n \in 1..n /\ n \in 1..(Len(frames[t]) - 1) /\ n \in 1..Len(frames[t]) /\ n + 1 = Len(frames[t])
    BY <2>20
  <2>3. Under(t)[n] = frames[t][n] /\ frames[t][n] \in Frame
    BY <1>0, <1>1, <2>1, <2>2, UnderIs, FrameFacts
  <2>4. Nested(frames[t][n], Top(t)) /\ FrameOK(frames[t][n])
    BY <2>2 DEF Shape, ShapeOf, Top
  <2>5. frames[t][n].op = "construct"
    BY <1>1, <2>4 DEF Nested
  <2>6. frames[t][n].inst \in Insts
    BY <2>3, <2>4, <2>5 DEF FrameOK, Making, ReleasingOK, AskOps, PushOps, Frame
  <2> QED
    BY <1>0, <1>1, <1>2, <1>3, <1>4, <2>1, <2>3, <2>6 DEF HooksDone
<1> QED
  BY <1>0, <1>1, <1>2, <1>3, <1>4 DEF HooksDone

\* Drop begins the release of a handle to a slot.
LEMMA DropDoes ==
    ASSUME Shape, NEW t \in Threads, NEW i \in Insts, Drop(t, i)
    PROVE  /\ FramesType' /\ slotOf[i] \in Slots /\ \E g : Begun(t, g) /\ Release(g, slotOf[i])
<1>1. FramesType /\ frames[t] = <<>> /\ slotOf \in [Insts -> Slots \union {None}]
  BY DEF Shape, Types, FramesType, Drop
<1>2. slotOf[i] \in Slots
  BY <1>1 DEF Shape, HeldHasSlot, Drop
<1>3. PICK g : g = Call("dec", None, None, slotOf[i])
  OBVIOUS
<1>4. "dec" \in Ops
  BY DEF Ops
<1>5. Release(g, slotOf[i])
  BY <1>2, <1>3, <1>4, CallFields DEF Release
<1>6. g \in Frame /\ frames' = [frames EXCEPT ![t] = <<g>>]
  BY <1>3, <1>5 DEF Drop, Release
<1> QED
  BY <1>1, <1>2, <1>5, <1>6, BeginIs

\* A call that makes nothing takes its next step, or its last.
Goes(t, op, next) ==
    /\ FramesType' /\ frames[t] # <<>> /\ ~Making(Top(t)) /\ ReleasingOK(Top(t)) /\ Top(t).op = op
    /\ \/ next # "done" /\ \E f : Becomes(t, f, next, Top(t).slot, Top(t).live)
       \/ next = "done" /\ Popped(t)

\* Step takes the next step of such a call.
LEMMA GoesOn ==
    ASSUME Shape, NEW t \in Threads, NEW op, NEW next \in Ops, At(t, op), Step(t, next), ~Making(Top(t))
    PROVE  Goes(t, op, next)
<1>1. frames[t] # <<>> /\ Top(t).op = op /\ ReleasingOK(Top(t))
  BY TopFacts DEF At, FrameOK
<1>2. FramesType' /\ \E f : Becomes(t, f, next, Top(t).slot, Top(t).live)
  BY <1>1, StepDoes
<1>3. next # "done"
  BY DEF Ops
<1> QED
  BY <1>1, <1>2, <1>3 DEF Goes

\* Finish takes its last.
LEMMA GoesAway ==
    ASSUME Shape, NEW t \in Threads, NEW op, At(t, op), Finish(t), ~Making(Top(t))
    PROVE  Goes(t, op, "done")
<1>1. frames[t] # <<>> /\ Top(t).op = op /\ ReleasingOK(Top(t)) /\ FramesType
  BY TopFacts DEF At, FrameOK
<1> QED
  BY <1>1, FinishIs DEF Goes

\* The steps of a release and of the question whether the store can go.
LEMMA ReleaseDoes ==
    ASSUME Shape, NEW t \in Threads
    PROVE  /\ ReleaseAcquire(t) => /\ Top(t).slot \in Slots
                                   /\ Goes(t, "dec", IF refcount[Top(t).slot] = 1 THEN "last" ELSE "done")
           /\ ReleaseLiveSlot(t) => Goes(t, "unlive", IF liveSlots = 1 THEN "chkLive" ELSE "done")
           /\ CheckLive(t) => Goes(t, "chkLive", IF liveSlots = 0 THEN "chkAlive" ELSE "done")
           /\ DeleteIfDead(t) => Goes(t, "chkAlive", "done")
           /\ Bump(t) => Top(t).slot \in Slots /\ Goes(t, "bump", "pushLoad")
<1>0. At(t, "dec") \/ At(t, "unlive") \/ At(t, "chkLive") \/ At(t, "chkAlive") \/ At(t, "bump") =>
        ~Making(Top(t)) /\ ReleasingOK(Top(t))
  BY MakingOps DEF At, AskOps
<1>1. At(t, "dec") \/ At(t, "bump") => Top(t).slot \in Slots
  BY <1>0 DEF ReleasingOK, At
<1>2. {"last", "chkLive", "chkAlive", "pushLoad"} \subseteq Ops
  BY DEF Ops
<1>3. ASSUME ReleaseAcquire(t) PROVE Goes(t, "dec", IF refcount[Top(t).slot] = 1 THEN "last" ELSE "done")
  BY <1>0, <1>2, <1>3, GoesOn, GoesAway DEF ReleaseAcquire
<1>4. ASSUME ReleaseLiveSlot(t) PROVE Goes(t, "unlive", IF liveSlots = 1 THEN "chkLive" ELSE "done")
  BY <1>0, <1>2, <1>4, GoesOn, GoesAway DEF ReleaseLiveSlot
<1>5. ASSUME CheckLive(t) PROVE Goes(t, "chkLive", IF liveSlots = 0 THEN "chkAlive" ELSE "done")
  BY <1>0, <1>2, <1>5, GoesOn, GoesAway DEF CheckLive
<1>6. ASSUME DeleteIfDead(t) PROVE Goes(t, "chkAlive", "done")
  BY <1>0, <1>6, GoesAway DEF DeleteIfDead
<1>7. ASSUME Bump(t) PROVE Goes(t, "bump", "pushLoad")
  BY <1>0, <1>2, <1>7, GoesOn DEF Bump
<1> QED
  BY <1>1, <1>3, <1>4, <1>5, <1>6, <1>7 DEF ReleaseAcquire, Bump

\* The slot of a call that pushes it.
LEMMA PushSlot ==
    ASSUME Shape, NEW t \in Threads, frames[t] # <<>>, Top(t).op \in PushOps
    PROVE  Top(t).slot \in Slots /\ FrameOK(Top(t)) /\ Top(t) \in Frame
           /\ (Making(Top(t)) <=> ~Top(t).live)
BY TopFacts DEF FrameOK, MakingOK, ReleasingOK, PushOps

\* PushLink writes the link of the slot it pushes, and nothing else.
LEMMA PushLinkDoes ==
    ASSUME Shape, NEW t \in Threads, PushLink(t)
    PROVE  /\ FramesType' /\ frames[t] # <<>> /\ Top(t).op = "pushLink" /\ Top(t).slot \in Slots
           /\ \E f : Becomes(t, f, "pushCas", Top(t).slot, Top(t).live) /\ f.cur = Top(t).cur
           /\ nextFree' = [nextFree EXCEPT ![Top(t).slot] = Top(t).cur.slot]
           /\ UNCHANGED <<head, generation, refcount, slotCount, liveSlots, phase, frees,
                          handles, member, slotOf, insts, lost, destroyed, memory>>
<1>0. frames[t] # <<>> /\ Top(t).op = "pushLink" /\ Step(t, "pushCas") /\ "pushCas" \in Ops
  BY DEF PushLink, At, Ops
<1>1. Top(t).slot \in Slots
  BY <1>0, PushSlot DEF PushOps
<1>2. /\ FramesType'
      /\ \E f : Becomes(t, f, "pushCas", Top(t).slot, Top(t).live) /\ f.cur = Top(t).cur
  BY <1>0, StepDoes
<1> QED
  BY <1>0, <1>1, <1>2 DEF PushLink, counts, objects

\* The slot goes on the freelist.
LEMMA PushedBackDoes ==
    ASSUME Shape, NEW t \in Threads, PushCas(t), head = Top(t).cur
    PROVE  /\ FramesType' /\ frames[t] # <<>> /\ Top(t).op = "pushCas" /\ Top(t).slot \in Slots
           /\ head' = [gen |-> generation[Top(t).slot], slot |-> Top(t).slot]
           /\ UNCHANGED <<nextFree, generation, refcount, slotCount, liveSlots, phase, frees,
                          handles, member, slotOf, insts, lost, destroyed, memory>>
           /\ \/ Making(Top(t)) /\ Thrown(t)
              \/ ~Making(Top(t)) /\ Goes(t, "pushCas", "unlive")
<1>0. frames[t] # <<>> /\ Top(t).op = "pushCas" /\ At(t, "pushCas")
  BY DEF PushCas, At
<1>1. Top(t).slot \in Slots /\ (Making(Top(t)) <=> ~Top(t).live)
  BY <1>0, PushSlot DEF PushOps
<1>2. head' = [gen |-> generation[Top(t).slot], slot |-> Top(t).slot] /\
        (IF Top(t).live THEN Step(t, "unlive") ELSE Raise(t))
  BY DEF PushCas
<1>3. "unlive" \in Ops
  BY DEF Ops
<1>4. \/ Making(Top(t)) /\ Thrown(t)
      \/ ~Making(Top(t)) /\ Goes(t, "pushCas", "unlive")
  BY <1>0, <1>1, <1>2, <1>3, GoesOn, ThrownDoes
<1>5. UNCHANGED <<nextFree, generation, refcount, slotCount, liveSlots, phase, frees,
                  handles, member, slotOf, insts, lost, destroyed, memory>>
  BY DEF PushCas, counts, objects
<1> QED
  BY <1>0, <1>1, <1>2, <1>4, <1>5 DEF Thrown, Goes

\* The instance in slot s, if there is one, is destroyed, and the handle that it
\* holds is released; the innermost call goes on as f.
Emptied(t, f, s) ==
    /\ FramesType' /\ frames[t] # <<>> /\ ~Making(Top(t)) /\ ReleasingOK(Top(t)) /\ f \in Frame /\
           f.inst = None /\ f.live
    /\ s \in Slots /\ memory' = [memory EXCEPT ![s] = None]
    /\ \/ Top(t).op = "take" /\ Top(t).slot = s /\ f.op = "bump" /\ f.slot = s
       \/ Top(t).op = "sweep" /\ Top(t).slot = s + 1 /\ f.op = "sweep" /\ f.slot = s
    /\ UNCHANGED <<head, nextFree, generation, refcount, slotCount, liveSlots, phase, frees,
                   handles, slotOf, insts, lost>>
    /\ \/ memory[s] = None /\ Replaced(t, f) /\ UNCHANGED <<member, destroyed>>
       \/ /\ memory[s] \in Insts
          /\ destroyed' = [destroyed EXCEPT ![memory[s]] = @ + 1]
          /\ member' = [member EXCEPT ![memory[s]] = None]
          /\ \/ member[memory[s]] = None /\ Replaced(t, f)
             \/ /\ member[memory[s]] \in Insts /\ slotOf[member[memory[s]]] \in Slots
                /\ \E g : Pushed(t, f, g) /\ Release(g, slotOf[member[memory[s]]])

\* executeDestructionLifecycle, call by call.
LEMMA DestroyDoes ==
    ASSUME Shape, NEW t \in Threads, frames[t] # <<>>, NEW f \in Frame, NEW i \in Insts, DestroyInstance(t, f, i)
    PROVE  /\ FramesType' /\ destroyed' = [destroyed EXCEPT ![i] = @ + 1]
           /\ member' = [member EXCEPT ![i] = None] /\ UNCHANGED <<handles, slotOf, insts, lost>>
           /\ \/ member[i] = None /\ Replaced(t, f)
              \/ /\ member[i] \in Insts /\ slotOf[member[i]] \in Slots
                 /\ \E g : Pushed(t, f, g) /\ Release(g, slotOf[member[i]])
<1>1. ReleaseMember(t, f, i)
  BY DEF DestroyInstance
<1> QED
  BY <1>1, ReleaseMemberDoes DEF DestroyInstance

\* The last release and the sweep empty a slot.
LEMMA EmptiedDoes ==
    ASSUME Shape, NEW t \in Threads, TakeSlotMeta(t) \/ (Sweep(t) /\ Top(t).slot # 0)
    PROVE  \E f, s : Emptied(t, f, s)
<1>0. frames[t] # <<>> /\ Top(t).op \in {"take", "sweep"}
  BY DEF TakeSlotMeta, Sweep, At
<1>1. ~Making(Top(t)) /\ ReleasingOK(Top(t)) /\ Top(t) \in Frame /\ FramesType
  BY <1>0, TopFacts, MakingOps
<1>2. PICK s : s = IF Top(t).op = "take" THEN Top(t).slot ELSE Top(t).slot - 1
  OBVIOUS
<1>3. /\ s \in Slots
      /\ Top(t).op = "take" => Top(t).slot = s
      /\ Top(t).op = "sweep" => Top(t).slot = s + 1
  <2>1. CASE Top(t).op = "take"
    BY <1>1, <1>2, <2>1 DEF ReleasingOK
  <2>2. CASE Top(t).op = "sweep"
    <3>1. Top(t).slot # 0
      BY <2>2 DEF TakeSlotMeta, At
    <3>2. slotCount \in 0..MaxSlots /\ Top(t).slot \in 0..slotCount /\ MaxSlots \in Nat
      BY <1>1, <2>2, StoreConstants DEF ReleasingOK, Shape, Types
    <3> QED
      BY <1>2, <2>2, <3>1, <3>2 DEF Slots
  <2> QED
    BY <1>0, <2>1, <2>2
<1>4. PICK f : f = IF Top(t).op = "take" THEN [Top(t) EXCEPT !.op = "bump"] ELSE [Top(t) EXCEPT !.slot = Top(t).slot - 1]
  OBVIOUS
<1>5. /\ f \in Frame /\ f.inst = None /\ f.live /\ f.slot = s
      /\ Top(t).op = "take" => f.op = "bump"
      /\ Top(t).op = "sweep" => f.op = "sweep"
  <2>1. Top(t).inst = None /\ Top(t).live
    BY <1>1 DEF Making, ReleasingOK
  <2>2. CASE Top(t).op = "take"
    BY <1>1, <1>3, <1>4, <2>1, <2>2 DEF Frame, Ops
  <2>3. CASE Top(t).op = "sweep"
    <3>1. f = [Top(t) EXCEPT !.slot = s]
      BY <1>2, <1>4, <2>3
    <3> QED
      BY <1>1, <1>3, <2>1, <2>3, <3>1 DEF Frame
  <2> QED
    BY <1>0, <2>2, <2>3
<1>6. /\ memory' = [memory EXCEPT ![s] = None]
      /\ IF memory[s] = None THEN Goto(t, f) /\ UNCHANGED objects ELSE DestroyInstance(t, f, memory[s])
      /\ UNCHANGED <<freelist, counts, slotCount, phase, frees>>
  <2>1. CASE Top(t).op = "take"
    <3>1. TakeSlotMeta(t)
      BY <2>1 DEF Sweep, At
    <3> QED
      BY <1>2, <1>4, <2>1, <3>1 DEF TakeSlotMeta
  <2>2. CASE Top(t).op = "sweep"
    <3>1. Sweep(t) /\ Top(t).slot # 0
      BY <2>2 DEF TakeSlotMeta, At
    <3> QED
      BY <1>2, <1>4, <2>2, <3>1 DEF Sweep
  <2> QED
    BY <1>0, <2>1, <2>2
<1>7. memory[s] # None => memory[s] \in Insts
  BY <1>3 DEF Shape, Types
<1>8. CASE memory[s] = None
  <2>1. FramesType' /\ Replaced(t, f) /\ UNCHANGED <<member, destroyed, handles, slotOf, insts, lost>>
    BY <1>0, <1>1, <1>5, <1>6, <1>8, GotoIs DEF objects
  <2>2. UNCHANGED <<head, nextFree, generation, refcount, slotCount, liveSlots, phase, frees>>
    BY <1>6 DEF freelist, counts
  <2>3. Emptied(t, f, s)
    BY <1>0, <1>1, <1>3, <1>5, <1>6, <1>8, <2>1, <2>2 DEF Emptied
  <2> QED
    BY <2>3
<1>9. CASE memory[s] # None
  <2>0. DestroyInstance(t, f, memory[s]) /\ memory[s] \in Insts
    BY <1>6, <1>7, <1>9
  <2>1. PICK i \in Insts : i = memory[s]
    BY <2>0
  <2>2. /\ FramesType' /\ destroyed' = [destroyed EXCEPT ![i] = @ + 1]
        /\ member' = [member EXCEPT ![i] = None] /\ UNCHANGED <<handles, slotOf, insts, lost>>
        /\ \/ member[i] = None /\ Replaced(t, f)
           \/ /\ member[i] \in Insts /\ slotOf[member[i]] \in Slots
              /\ \E g : Pushed(t, f, g) /\ Release(g, slotOf[member[i]])
    BY <1>0, <1>5, <2>0, <2>1, DestroyDoes
  <2>3. UNCHANGED <<head, nextFree, generation, refcount, slotCount, liveSlots, phase, frees>>
    BY <1>6 DEF freelist, counts
  <2>4. Emptied(t, f, s)
    BY <1>0, <1>1, <1>3, <1>5, <1>6, <2>1, <2>2, <2>3 DEF Emptied
  <2> QED
    BY <2>4
<1> QED
  BY <1>8, <1>9

\* The end of the sweep.
LEMMA SweptDoes ==
    ASSUME Shape, NEW t \in Threads, Sweep(t), Top(t).slot = 0
    PROVE  /\ Goes(t, "sweep", "done") /\ phase' = "stopped" /\ phase = "stopping" /\ Len(frames[t]) = 1
           /\ \A u \in Threads \ {t} : frames[u] = <<>>
           /\ UNCHANGED <<head, nextFree, generation, refcount, slotCount, liveSlots, frees,
                          handles, member, slotOf, insts, lost, destroyed, memory>>
<1>0. frames[t] # <<>> /\ Top(t).op = "sweep" /\ At(t, "sweep")
  BY DEF Sweep, At
<1>1. ~Making(Top(t)) /\ phase = "stopping" /\ Len(frames[t]) = 1 /\ \A u \in Threads \ {t} : frames[u] = <<>>
  BY <1>0, TopFacts, MakingOps
<1>2. Finish(t) /\ phase' = "stopped"
  BY DEF Sweep
<1>3. UNCHANGED <<head, nextFree, generation, refcount, slotCount, liveSlots, frees,
                  handles, member, slotOf, insts, lost, destroyed, memory>>
  BY DEF Sweep, freelist, counts, objects
<1> QED
  BY <1>0, <1>1, <1>2, <1>3, GoesAway

\* stop() and the destructor of the registry.
LEMMA StopDoes ==
    ASSUME Shape, NEW t \in Threads, Stop(t)
    PROVE  FramesType' /\ \E f : /\ f \in Frame /\ Begun(t, f) /\ f.op = "sweep" /\ f.slot = slotCount
                                 /\ f.inst = None /\ f.live
<1>1. FramesType /\ frames[t] = <<>> /\ slotCount \in 0..MaxSlots
  BY DEF Shape, Types, FramesType, Stop
<1>2. "sweep" \in Ops /\ slotCount \in Slots \union {MaxSlots, None}
  BY <1>1, StoreConstants DEF Ops, Slots
<1>3. PICK f : f = Call("sweep", None, None, slotCount)
  OBVIOUS
<1>4. f \in Frame /\ f.op = "sweep" /\ f.slot = slotCount /\ f.inst = None /\ f.live
  BY <1>2, <1>3, CallFields
<1>5. frames' = [frames EXCEPT ![t] = <<f>>]
  BY <1>3 DEF Stop
<1> QED
  BY <1>1, <1>4, <1>5, BeginIs

\* The destructor of the registry asks whether the store can go.
LEMMA DestroyRegistryDoes ==
    ASSUME Shape, NEW t \in Threads, DestroyRegistry(t)
    PROVE  FramesType' /\ \E f : /\ f \in Frame /\ Begun(t, f) /\ f.op = "chkLive" /\ f.slot = None
                                 /\ f.inst = None /\ f.live
<1>1. FramesType /\ frames[t] = <<>>
  BY DEF Shape, Types, FramesType, DestroyRegistry
<1>2. "chkLive" \in Ops
  BY DEF Ops
<1>3. PICK f : f = Call("chkLive", None, None, None)
  OBVIOUS
<1>4. f \in Frame /\ f.op = "chkLive" /\ f.slot = None /\ f.inst = None /\ f.live
  BY <1>2, <1>3, CallFields
<1>5. frames' = [frames EXCEPT ![t] = <<f>>]
  BY <1>3 DEF DestroyRegistry
<1> QED
  BY <1>1, <1>4, <1>5, BeginIs

\* LimitReached and HooksThrow leave by an exception.
LEMMA ThrowsDoes ==
    ASSUME Shape, NEW t \in Threads, LimitReached(t) \/ HooksThrow(t)
    PROVE  /\ Thrown(t) /\ Top(t).inst \in Insts
           /\ UNCHANGED <<head, nextFree, generation, refcount, slotCount, liveSlots, phase, frees,
                          handles, member, slotOf, insts, destroyed, memory>>
           /\ \/ Top(t).op = "grow" /\ Top(t).slot = None /\ lost' \in {lost, lost \union {Top(t).inst}}
              \/ Top(t).op = "hooks" /\ Top(t).slot \in Slots /\ lost' = lost \union {Top(t).inst}
<1>0. frames[t] # <<>> /\ Top(t).op \in {"grow", "hooks"} /\ Raise(t)
  BY DEF LimitReached, HooksThrow, At
<1>1. Making(Top(t)) /\ MakingOK(Top(t)) /\ Top(t) \in Frame
  BY <1>0, TopFacts, MakingOps DEF PopOps
<1>2. Top(t).inst \in Insts
  BY <1>1 DEF Making, Frame
<1>3. Thrown(t)
  BY <1>0, <1>1, ThrownDoes
<1>4. Top(t).op = "grow" => Top(t).slot = None /\ lost' \in {lost, lost \union {Top(t).inst}}
  BY <1>1 DEF LimitReached, HooksThrow, At, MakingOK, PopOps
<1>5. Top(t).op = "hooks" => Top(t).slot \in Slots /\ lost' = lost \union {Top(t).inst}
  BY <1>1 DEF LimitReached, HooksThrow, At, MakingOK
<1>6. UNCHANGED <<head, nextFree, generation, refcount, slotCount, liveSlots, phase, frees,
                  handles, member, slotOf, insts, destroyed, memory>>
  BY DEF LimitReached, HooksThrow, freelist, counts
<1> QED
  BY <1>0, <1>2, <1>3, <1>4, <1>5, <1>6

-----------------------------------------------------------------------------
(* The shape of the calls in progress is preserved.                        *)

\* What the shape of a call depends on only grows.
Grown ==
    /\ insts <= insts' /\ slotCount <= slotCount'
    /\ \A i \in Insts : slotOf[i] \in Slots => slotOf'[i] \in Slots
    /\ phase' = phase \/ phase \notin {"started", "stopping"}

\* So a call keeps its shape.
LEMMA FrameOKGrows ==
    ASSUME Types, Types', Grown, NEW f \in Frame, FrameOK(f)
    PROVE  FrameOK(f)'
<1>1. insts \in Nat /\ insts' \in Nat /\ slotCount \in Nat /\ slotCount' \in Nat /\ insts' <= MaxInst /\
        MaxInst \in Nat
  BY StoreConstants DEF Types
<1>2. CASE Making(f)
  <2>1. MakingOK(f)
    BY <1>2 DEF FrameOK
  <2>2. f.inst \in Insts
    BY <1>1, <2>1, <1>2 DEF Making, Frame
  <2>3. f.inst <= insts' /\ (f.kind \in Holder => f.inst + 1 <= insts')
    BY <1>1, <2>1 DEF MakingOK, Grown
  <2>4. f.slot # None => slotOf'[f.inst] \in Slots
    BY <2>1, <2>2 DEF MakingOK, Grown
  <2> QED
    BY <1>2, <2>1, <2>3, <2>4 DEF FrameOK, MakingOK, Making
<1>3. CASE ~Making(f)
  <2>1. ReleasingOK(f)
    BY <1>3 DEF FrameOK
  <2>2. f.op = "sweep" => f.slot \in 0..slotCount'
    BY <1>1, <2>1 DEF ReleasingOK, Grown
  <2> QED
    BY <1>3, <2>1, <2>2 DEF FrameOK, ReleasingOK, Making
<1> QED
  BY <1>2, <1>3

\* A call that a step leaves as it was.
Settled(u, j, g) ==
    /\ FrameOK(g) /\ (Making(g) => u \in Allocators /\ phase = "started")
    /\ g.op = "sweep" => j = 1 /\ phase = "stopping" /\ \A v \in Threads \ {u} : frames[v] = <<>>

\* Shape, call by call.
LEMMA ShapeSettled ==
    /\ \A u \in Threads : ShapeOf(u) <=>
        /\ \A j \in 1..Len(frames[u]) : Settled(u, j, frames[u][j])
        /\ \A j \in 1..(Len(frames[u]) - 1) : Nested(frames[u][j], frames[u][j + 1])
    /\ \A u \in Threads : ShapeOf(u)' <=>
        /\ (\A j \in 1..Len(frames[u]) : Settled(u, j, frames[u][j]))'
        /\ (\A j \in 1..(Len(frames[u]) - 1) : Nested(frames[u][j], frames[u][j + 1]))'
BY DEF ShapeOf, Settled

\* The calls below the innermost one, and those of other threads, keep theirs.
LEMMA SettledKept ==
    ASSUME Shape, Types', Grown, NEW t \in Threads, Rest(t), NEW u \in Threads, NEW j \in 1..Len(frames[u]),
           u = t \/ frames[t] # <<>> \/ phase # "stopping", NEW g, g = frames[u][j]
    PROVE  Settled(u, j, g)' /\ g \in Frame
<1>1. Settled(u, j, g) /\ Types /\ g \in Frame
  BY DEF Shape, ShapeOf, Settled, Types
<1>2. FrameOK(g)'
  BY <1>1, FrameOKGrows DEF Settled
<1>3. Making(g)' => Making(g)
  BY DEF Making
<1>4. Making(g) => u \in Allocators /\ phase' = "started"
  BY <1>1 DEF Settled, Grown
<1>5. g.op = "sweep" => j = 1 /\ phase' = "stopping" /\ \A v \in Threads \ {u} : frames'[v] = <<>>
  <2> HAVE g.op = "sweep"
  <2>1. j = 1 /\ phase = "stopping" /\ \A v \in Threads \ {u} : frames[v] = <<>>
    BY <1>1 DEF Settled
  <2>2. u = t
    BY <2>1
  <2> QED
    BY <2>1, <2>2 DEF Grown, Rest
<1> QED
  BY <1>1, <1>2, <1>3, <1>4, <1>5 DEF Settled

\* The other threads.
LEMMA ShapeOthers ==
    ASSUME Shape, Types', Grown, NEW t \in Threads, Rest(t), frames[t] # <<>> \/ phase # "stopping",
           NEW u \in Threads \ {t}
    PROVE  ShapeOf(u)'
<1>1. frames'[u] = frames[u]
  BY DEF Rest
<1>2. ASSUME NEW j \in 1..Len(frames[u]) PROVE \A g : g = frames[u][j] => Settled(u, j, g)'
  BY <1>2, SettledKept
<1>3. (\A j \in 1..Len(frames[u]) : Settled(u, j, frames[u][j]))'
  BY <1>1, <1>2 DEF Settled, FrameOK, MakingOK, ReleasingOK, Making
<1>4. \A j \in 1..(Len(frames[u]) - 1) : Nested(frames[u][j], frames[u][j + 1])
  BY DEF Shape, ShapeOf
<1>5. (\A j \in 1..(Len(frames[u]) - 1) : Nested(frames[u][j], frames[u][j + 1]))'
  BY <1>1, <1>4 DEF Nested, Making
<1> QED
  BY <1>3, <1>5, ShapeSettled

\* The thread that takes the step, call by call.
LEMMA ShapeOwn ==
    ASSUME NEW t \in Threads, NEW n, n = Len(frames'[t]),
           \A j \in 1..n : \A g : g = frames'[t][j] => Settled(t, j, g)',
           \A j \in 1..(n - 1) : \A f, g : f = frames'[t][j] /\ g = frames'[t][j + 1] => Nested(f, g)
    PROVE  ShapeOf(t)'
<1>3. (\A j \in 1..Len(frames[t]) : Settled(t, j, frames[t][j]))'
  BY DEF Settled, FrameOK, MakingOK, ReleasingOK, Making
<1>5. (\A j \in 1..(Len(frames[t]) - 1) : Nested(frames[t][j], frames[t][j + 1]))'
  BY DEF Nested, Making
<1> QED
  BY <1>3, <1>5, ShapeSettled

\* What is called by what, before the step.
LEMMA NestedBefore ==
    ASSUME Shape, NEW t \in Threads, NEW j \in 1..(Len(frames[t]) - 1)
    PROVE  Nested(frames[t][j], frames[t][j + 1])
BY DEF Shape, ShapeOf

\* The innermost call goes on.
LEMMA ShapeReplaced ==
    ASSUME Shape, Types', Grown, NEW t \in Threads, NEW f, Replaced(t, f), frames[t] # <<>>, FrameOK(f)',
           Making(f) <=> Making(Top(t)), f.op = "sweep" <=> Top(t).op = "sweep"
    PROVE  \A u \in Threads : ShapeOf(u)'
<1>0. Rest(t) /\ FramesType
  BY TopFacts DEF Replaced
<1>1. PICK n : n \in Nat /\ n # 0 /\ n = Len(frames[t])
  BY <1>0, FrameFacts
<1>2. /\ n = Len(frames'[t]) /\ frames'[t][n] = f /\ Top(t) = frames[t][n] /\ n \in 1..Len(frames[t])
      /\ \A j \in 1..n : j # n => frames'[t][j] = frames[t][j]
  BY <1>0, <1>1, FrameFacts DEF Replaced
<1>3. ASSUME NEW j \in 1..n, NEW g, g = frames'[t][j] PROVE Settled(t, j, g)'
  <2>1. CASE j = n
    <3>1. g = f
      BY <1>2, <1>3, <2>1
    <3>3. PICK h : h = Top(t)
      OBVIOUS
    <3>4. Settled(t, j, h)' /\ (Making(f) <=> Making(h)) /\ (f.op = "sweep" <=> h.op = "sweep")
      BY <1>0, <1>1, <1>2, <2>1, <3>3, SettledKept
    <3> QED
      BY <3>1, <3>4 DEF Settled, Making
  <2>2. CASE j # n
    BY <1>0, <1>1, <1>2, <1>3, <2>2, SettledKept
  <2> QED
    BY <2>1, <2>2
<1>4. ASSUME NEW j \in 1..(n - 1), NEW h, NEW g, h = frames'[t][j], g = frames'[t][j + 1] PROVE Nested(h, g)
  <2>1. j \in 1..n /\ j # n /\ j + 1 \in 1..n
    BY <1>1
  <2>2. Nested(frames[t][j], frames[t][j + 1]) /\ h = frames[t][j]
    BY <1>1, <1>2, <1>4, <2>1, NestedBefore
  <2>3. CASE j + 1 = n
    BY <1>2, <1>4, <2>2, <2>3 DEF Nested
  <2>4. CASE j + 1 # n
    BY <1>2, <1>4, <2>1, <2>2, <2>4
  <2> QED
    BY <2>3, <2>4
<1>5. ShapeOf(t)'
  BY <1>2, <1>3, <1>4, ShapeOwn
<1> QED
  BY <1>0, <1>5, ShapeOthers

\* The innermost call goes on as f and calls g.
LEMMA ShapePushed ==
    ASSUME Shape, Types', Grown, NEW t \in Threads, NEW f, NEW g, Pushed(t, f, g), frames[t] # <<>>,
           FrameOK(f)', Making(f) <=> Making(Top(t)), f.op = "sweep" <=> Top(t).op = "sweep",
           FrameOK(g)', Nested(f, g), Making(g) => Making(f), g.op # "sweep"
    PROVE  \A u \in Threads : ShapeOf(u)'
<1>0. Rest(t) /\ FramesType
  BY TopFacts DEF Pushed
<1>1. PICK n : n \in Nat /\ n # 0 /\ n = Len(frames[t])
  BY <1>0, FrameFacts
<1>11. n \in Nat /\ n # 0 /\ n + 1 \in Nat /\ n + 1 # n /\ \A j \in 1..(n + 1) : j = n + 1 \/ j \in 1..n
  BY <1>1
<1>2. /\ n + 1 = Len(frames'[t]) /\ frames'[t][n] = f /\ frames'[t][n + 1] = g
      /\ Top(t) = frames[t][n] /\ n \in 1..Len(frames[t])
      /\ \A j \in 1..n : j # n => frames'[t][j] = frames[t][j]
  BY <1>0, <1>1, FrameFacts DEF Pushed
<1>3. ASSUME NEW j \in 1..(n + 1), NEW h, h = frames'[t][j] PROVE Settled(t, j, h)'
  <2>0. PICK k : k = Top(t)
    OBVIOUS
  <2>1. Settled(t, n, k)' /\ (Making(f) <=> Making(k)) /\ (f.op = "sweep" <=> k.op = "sweep")
    BY <1>0, <1>1, <1>2, <2>0, SettledKept
  <2>2. CASE j = n + 1
    <3>1. h = g
      BY <1>2, <1>3, <2>2
    <3> QED
      BY <3>1, <2>1 DEF Settled, Making
  <2>3. CASE j = n
    <3>1. h = f
      BY <1>2, <1>3, <2>3
    <3> QED
      BY <3>1, <2>1, <2>3 DEF Settled, Making
  <2>4. CASE j \in 1..n /\ j # n
    BY <1>0, <1>1, <1>2, <1>3, <2>4, SettledKept
  <2> QED
    BY <1>11, <2>2, <2>3, <2>4
<1>4. ASSUME NEW j \in 1..n, NEW h, NEW k, h = frames'[t][j], k = frames'[t][j + 1] PROVE Nested(h, k)
  <2>1. j \in Nat /\ (j # n => j \in 1..(n - 1) /\ j + 1 \in 1..n)
    BY <1>11
  <2>2. CASE j = n
    BY <1>2, <1>4, <2>2
  <2>3. CASE j # n /\ j + 1 = n
    <3>1. Nested(frames[t][j], frames[t][j + 1]) /\ h = frames[t][j] /\ k = f /\ frames[t][j + 1] = Top(t)
      BY <1>1, <1>2, <1>4, <2>1, <2>3, NestedBefore
    <3> QED
      BY <3>1 DEF Nested
  <2>4. CASE j # n /\ j + 1 # n
    BY <1>1, <1>2, <1>4, <2>1, <2>4, NestedBefore
  <2> QED
    BY <2>2, <2>3, <2>4
<1>5. ShapeOf(t)'
  <2>1. n + 1 - 1 = n
    BY <1>11
  <2> QED
    BY <1>2, <1>3, <1>4, <2>1, ShapeOwn
<1> QED
  BY <1>0, <1>5, ShapeOthers

\* The innermost call returns.
LEMMA ShapePopped ==
    ASSUME Shape, Types', Grown, NEW t \in Threads, Popped(t), frames[t] # <<>>
    PROVE  \A u \in Threads : ShapeOf(u)'
<1>0. Rest(t) /\ FramesType
  BY TopFacts DEF Popped
<1>1. PICK n : n \in Nat /\ n # 0 /\ n = Len(frames[t])
  BY <1>0, FrameFacts
<1>2. n - 1 = Len(frames'[t]) /\ \A j \in 1..(n - 1) : frames'[t][j] = frames[t][j]
  BY <1>0, <1>1, FrameFacts DEF Popped
<1>3. ASSUME NEW j \in 1..(n - 1), NEW h, h = frames'[t][j] PROVE Settled(t, j, h)'
  <2>1. j \in 1..n
    BY <1>1
  <2> QED
    BY <1>0, <1>1, <1>2, <1>3, <2>1, SettledKept
<1>4. ASSUME NEW j \in 1..(n - 1 - 1), NEW h, NEW k, h = frames'[t][j], k = frames'[t][j + 1] PROVE Nested(h, k)
  <2>1. j \in 1..(n - 1) /\ j + 1 \in 1..(n - 1)
    BY <1>1
  <2> QED
    BY <1>1, <1>2, <1>4, <2>1, NestedBefore
<1>5. ShapeOf(t)'
  BY <1>2, <1>3, <1>4, ShapeOwn
<1> QED
  BY <1>0, <1>5, ShapeOthers

\* A call unwinds when what it called throws: it is the constructor of a holder.
LEMMA BelowThrown ==
    ASSUME Shape, NEW t \in Threads, frames[t] # <<>>, Making(Top(t)), Len(frames[t]) # 1,
           NEW g, g = frames[t][Len(frames[t]) - 1]
    PROVE  /\ g \in Frame /\ g.op = "construct" /\ g.kind \in Holder /\ Making(g) /\ MakingOK(g)
           /\ Len(frames[t]) - 1 \in 1..(Len(frames[t]) - 1) /\ Len(frames[t]) - 1 \in 1..Len(frames[t])
           /\ Unwound(g) \in Frame /\ Unwound(g).op = "unwind" /\ Unwound(g).inst = g.inst
           /\ Unwound(g).kind = g.kind /\ Unwound(g).slot = g.slot /\ Unwound(g).live = g.live
<1>0. FramesType
  BY TopFacts
<1>1. Len(frames[t]) \in Nat /\ Len(frames[t]) # 0
  BY <1>0, FrameFacts
<1>2. Len(frames[t]) - 1 \in Nat /\ Len(frames[t]) - 1 # 0
  BY <1>1
<1>3. PICK n : n \in Nat /\ n # 0 /\ n = Len(frames[t]) - 1
  BY <1>2
<1>4. n \in Nat /\ n # 0 /\ Len(frames[t]) = n + 1
  BY <1>1, <1>3
<1>5. n \in 1..(Len(frames[t]) - 1) /\ n \in 1..Len(frames[t])
  BY <1>4
<1>6. g = frames[t][n] /\ Nested(g, Top(t)) /\ g \in Frame /\ FrameOK(g)
  BY <1>0, <1>3, <1>4, <1>5, NestedBefore, FrameFacts DEF Top, Shape, ShapeOf
<1>7. g.op = "construct" /\ g.kind \in Holder
  BY <1>6 DEF Nested
<1>8. Making(g) /\ MakingOK(g)
  BY <1>6, <1>7 DEF FrameOK, ReleasingOK, AskOps, PushOps
<1>9. /\ Unwound(g) \in Frame /\ Unwound(g).op = "unwind" /\ Unwound(g).inst = g.inst
      /\ Unwound(g).kind = g.kind /\ Unwound(g).slot = g.slot /\ Unwound(g).live = g.live
  BY <1>6 DEF Unwound, Frame, Ops
<1> QED
  BY <1>3, <1>5, <1>6, <1>7, <1>8, <1>9

\* An exception leaves the innermost call.
LEMMA ShapeThrown ==
    ASSUME Shape, Types', Grown, NEW t \in Threads, Thrown(t)
    PROVE  \A u \in Threads : ShapeOf(u)'
<1>0. Rest(t) /\ FramesType /\ frames[t] # <<>> /\ Making(Top(t)) /\ Raised(t) /\ t \in Allocators /\
        phase = "started"
  BY TopFacts DEF Thrown, Raised
<1>1. PICK n : n \in Nat /\ n # 0 /\ n = Len(frames[t])
  BY <1>0, FrameFacts
<1>9. n \in Nat /\ n # 0
  BY <1>1
<1>10. n - 1 \in Nat /\ \A j \in 1..(n - 1) : j \in 1..n /\ n # 1
  BY <1>9
<1>2. /\ n - 1 = Len(frames'[t])
      /\ \A j \in 1..(n - 1) : j # n - 1 => frames'[t][j] = frames[t][j]
      /\ n # 1 => frames'[t][n - 1] = Unwound(frames[t][n - 1])
  BY <1>0, <1>1, FrameFacts DEF Raised
<1>3. ASSUME NEW j \in 1..(n - 1), NEW h, h = frames'[t][j] PROVE Settled(t, j, h)'
  <2>1. CASE j # n - 1
    BY <1>0, <1>1, <1>10, <1>2, <1>3, <2>1, SettledKept
  <2>2. CASE j = n - 1
    <3>1. PICK g : g = frames[t][n - 1]
      OBVIOUS
    <3>2. n # 1 /\ h = Unwound(g)
      BY <1>10, <1>2, <1>3, <2>2, <3>1
    <3>3. /\ g \in Frame /\ g.op = "construct" /\ Making(g) /\ MakingOK(g)
          /\ h \in Frame /\ h.op = "unwind" /\ h.inst = g.inst
          /\ h.kind = g.kind /\ h.slot = g.slot /\ h.live = g.live
      BY <1>0, <1>1, <3>1, <3>2, BelowThrown
    <3>4. FrameOK(h) /\ Making(h)
      BY <3>3 DEF FrameOK, MakingOK, Making, PushOps, PopOps
    <3>5. FrameOK(h)'
      BY <3>3, <3>4, FrameOKGrows DEF Shape
    <3> QED
      BY <1>0, <3>3, <3>5 DEF Settled, Grown
  <2> QED
    BY <2>1, <2>2
<1>4. ASSUME NEW j \in 1..(n - 1 - 1), NEW h, NEW k, h = frames'[t][j], k = frames'[t][j + 1] PROVE Nested(h, k)
  <2>1. j \in 1..(n - 1) /\ j + 1 \in 1..(n - 1) /\ j # n - 1 /\ n # 1 /\ (j + 1 = n - 1 \/ j + 1 # n - 1)
    BY <1>9
  <2>2. Nested(frames[t][j], frames[t][j + 1]) /\ h = frames[t][j]
    BY <1>1, <1>2, <1>4, <2>1, NestedBefore
  <2>3. CASE j + 1 # n - 1
    BY <1>2, <1>4, <2>1, <2>2, <2>3
  <2>4. CASE j + 1 = n - 1
    <3>1. PICK g : g = frames[t][n - 1]
      OBVIOUS
    <3>2. k = Unwound(g) /\ g = frames[t][j + 1]
      BY <1>2, <1>4, <2>1, <2>4, <3>1
    <3>3. k.inst = g.inst /\ g.op = "construct" /\ k.op = "unwind"
      BY <1>0, <1>1, <2>1, <3>1, <3>2, BelowThrown
    <3> QED
      BY <2>2, <3>2, <3>3 DEF Nested, Making
  <2> QED
    BY <2>3, <2>4
<1>5. ShapeOf(t)'
  BY <1>2, <1>3, <1>4, ShapeOwn
<1> QED
  BY <1>0, <1>5, ShapeOthers

\* A thread in no call makes one.
LEMMA ShapeBegun ==
    ASSUME Shape, Types', Grown, NEW t \in Threads, NEW f, Begun(t, f), FrameOK(f)', phase # "stopping",
           Making(f) => t \in Allocators /\ phase = "started", f.op # "sweep"
    PROVE  \A u \in Threads : ShapeOf(u)'
<1>0. Rest(t) /\ Len(frames'[t]) = 1 /\ frames'[t][1] = f
  BY DEF Begun
<1>3. ASSUME NEW j \in 1..1, NEW h, h = frames'[t][j] PROVE Settled(t, j, h)'
  <2>1. h = f
    BY <1>0, <1>3
  <2> QED
    BY <2>1 DEF Settled, Grown, Making
<1>4. ASSUME NEW j \in 1..(1 - 1), NEW h, NEW k, h = frames'[t][j], k = frames'[t][j + 1] PROVE Nested(h, k)
  OBVIOUS
<1>5. ShapeOf(t)'
  BY <1>0, <1>3, <1>4, ShapeOwn
<1> QED
  BY <1>0, <1>5, ShapeOthers

\* Shape, from its parts.
ShapeNext == Types' /\ HeldHasSlot' /\ \A u \in Threads : ShapeOf(u)'

\* The data that only some steps change.
LEMMA HeldKept ==
    ASSUME Shape, Types',
           \A i \in Insts : slotOf[i] # None => slotOf'[i] # None,
           \A i \in Insts, t \in Threads : handles'[t][i] > 0 => slotOf[i] # None,
           \A i \in Insts, m \in Insts : member'[m] = i => slotOf[i] # None
    PROVE  HeldHasSlot'
BY DEF HeldHasSlot

\* A held instance has a slot, as two facts.
LEMMA HeldNow ==
    ASSUME Shape
    PROVE  /\ \A i \in Insts, t \in Threads : handles[t][i] > 0 => slotOf[i] # None
           /\ \A i \in Insts, m \in Insts : member[m] = i => slotOf[i] # None
BY DEF Shape, HeldHasSlot

\* A quiet step keeps Shape.
LEMMA ShapeQuiet ==
    ASSUME Shape, NEW t \in Threads, NEW f, Quiet(t, f)
    PROVE  ShapeNext
<1>1. Types' /\ Grown
  BY DEF Shape, Types, Grown, Quiet, Data, FramesType
<1>2. HeldHasSlot'
  BY DEF Shape, HeldHasSlot, Quiet, Data
<1>3. FrameOK(f)'
  BY DEF Quiet, Data, FrameOK, MakingOK, ReleasingOK, Making
<1>4. (Making(f) <=> Making(Top(t))) /\ (f.op = "sweep" <=> Top(t).op = "sweep") /\ Replaced(t, f) /\
        frames[t] # <<>>
  BY DEF Quiet, Making
<1> QED
  BY <1>1, <1>2, <1>3, <1>4, ShapeReplaced DEF ShapeNext

\* Taking a slot keeps Shape.
LEMMA ShapeTaken ==
    ASSUME Shape, NEW t \in Threads, NEW f, NEW s, Taken(t, f, s)
    PROVE  ShapeNext
<1>0. /\ Top(t) \in Frame /\ Top(t).inst \in Insts /\ MakingOK(Top(t)) /\ s \in Slots /\ f \in Frame
      /\ frames[t] # <<>>
  BY TopFacts DEF Taken, Making, Frame
<1>1. Types'
  <2>1. head' \in Heads
    <3>1. head \in Heads
      BY DEF Shape, Types
    <3>2. Top(t).nxt \in Slots \union {None}
      BY <1>0 DEF Frame
    <3>3. head' = [gen |-> 0, slot |-> Top(t).nxt] \/ head' = head
      BY DEF Taken
    <3> QED
      BY <3>1, <3>2, <3>3 DEF Heads
  <2>2. memory' \in [Slots -> Insts \union {None}] /\ slotOf' \in [Insts -> Slots \union {None}]
    BY <1>0 DEF Taken, Shape, Types
  <2>3. slotCount' \in 0..MaxSlots
    BY <1>0, StoreConstants DEF Taken, Shape, Types, Slots
  <2> QED
    BY <2>1, <2>2, <2>3 DEF Shape, Types, Taken, FramesType
<1>2. \A i \in Insts : slotOf'[i] \in {slotOf[i], s}
  BY <1>0 DEF Taken, Shape, Types
<1>3. Grown
  <2>1. slotCount <= slotCount' /\ insts <= insts' /\ phase' = phase
    BY DEF Taken, Shape, Types
  <2> QED
    BY <1>0, <1>2, <2>1 DEF Grown
<1>4. HeldHasSlot'
  <2>1. s # None
    BY <1>0, StoreConstants DEF Slots
  <2> QED
    BY <1>1, <1>2, <2>1, HeldKept, HeldNow DEF Taken
<1>5. FrameOK(f)'
  <2>1. f.op \in {"construct", "activate"} /\ (f.op = "construct" <=> f.kind \notin OwnAlloc) /\ f.slot \in Slots
    BY DEF Taken, AfterTake
  <2>2. s # None /\ slotOf'[f.inst] = s
    BY <1>0, StoreConstants DEF Slots, Taken, Shape, Types
  <2>3. Making(f) /\ f.live /\ f.kind = Top(t).kind /\ f.inst = Top(t).inst /\ insts' = insts
    BY <1>0 DEF Taken, Making, MakingOK, PushOps
  <2>30. /\ f.kind \in Kinds /\ f.inst \in Nat /\ 1 <= f.inst /\ f.inst <= insts
         /\ (f.kind \in Holder => f.inst + 1 <= insts)
    BY <1>0, <2>3 DEF MakingOK
  <2>31. f.slot # None /\ f.slot \in Slots /\ slotOf'[f.inst] \in Slots
    BY <2>1, <2>2, <1>0 DEF Taken
  <2>4. MakingOK(f)'
    BY <2>1, <2>3, <2>30, <2>31 DEF MakingOK, PushOps, PopOps
  <2> QED
    BY <2>3, <2>4 DEF FrameOK, Making
<1>6. (Making(f) <=> Making(Top(t))) /\ (f.op = "sweep" <=> Top(t).op = "sweep") /\ Replaced(t, f)
  BY DEF Taken, Making, AfterTake
<1> QED
  BY <1>0, <1>1, <1>3, <1>4, <1>5, <1>6, ShapeReplaced DEF ShapeNext

\* Reaching the limit, or a throwing hook, keeps Shape.
LEMMA ShapeThrows ==
    ASSUME Shape, NEW t \in Threads, LimitReached(t) \/ HooksThrow(t)
    PROVE  ShapeNext
<1>0. /\ Thrown(t) /\ Top(t).inst \in Insts
      /\ UNCHANGED <<head, nextFree, generation, refcount, slotCount, liveSlots, phase, frees,
                     handles, member, slotOf, insts, destroyed, memory>>
      /\ lost' \in {lost, lost \union {Top(t).inst}}
  BY ThrowsDoes
<1>1. Types' /\ Grown
  BY <1>0 DEF Shape, Types, Grown, Thrown, FramesType
<1>2. HeldHasSlot'
  BY <1>0 DEF Shape, HeldHasSlot
<1> QED
  BY <1>0, <1>1, <1>2, ShapeThrown DEF ShapeNext

\* A resolve that has just started is well formed.
LEMMA StartingOK ==
    ASSUME NEW f, NEW k \in Kinds, NEW i \in Insts, Starting(f, k, i), i <= insts',
           k \in Holder => i + 1 <= insts'
    PROVE  FrameOK(f)' /\ Making(f) /\ f.op # "sweep"
<1>1. f.op \in {"construct", "popLoad"} /\ (f.op = "construct" <=> k \in OwnAlloc) /\ f.slot = None /\
        f.live /\ f.kind = k /\ f.inst = i
  BY DEF Starting, FirstOp
<1>2. Making(f) /\ i \in Nat /\ 1 <= i
  BY <1>1, StoreConstants DEF Making, Insts
<1>3. MakingOK(f)'
  BY <1>1, <1>2 DEF MakingOK, PushOps, PopOps
<1> QED
  BY <1>1, <1>2, <1>3 DEF FrameOK, Making

\* Resolve keeps Shape.
LEMMA ShapeResolve ==
    ASSUME Shape, NEW t \in Threads, NEW k \in Kinds, Resolve(t, k)
    PROVE  ShapeNext
<1>0. /\ insts + 1 \in Insts /\ insts + Needs(k) \in 0..MaxInst /\ insts' = insts + Needs(k)
      /\ FramesType' /\ t \in Allocators /\ phase = "started"
      /\ UNCHANGED <<head, nextFree, generation, refcount, liveSlots, memory, slotCount, phase, frees,
                     handles, member, slotOf, lost, destroyed>>
  BY ResolveDoes DEF Resolve, freelist, counts
<1>1. PICK f : Begun(t, f) /\ Starting(f, k, insts + 1)
  BY ResolveDoes
<1>2. Types' /\ insts \in Nat
  BY <1>0 DEF Shape, Types, FramesType
<1>3. insts <= insts' /\ insts + 1 <= insts' /\ (k \in Holder => insts + 1 + 1 <= insts')
  BY <1>0, <1>2 DEF Needs
<1>4. Grown
  BY <1>0, <1>3 DEF Grown, Shape, Types
<1>5. HeldHasSlot'
  BY <1>0 DEF Shape, HeldHasSlot
<1>6. FrameOK(f)' /\ Making(f) /\ f.op # "sweep"
  BY <1>0, <1>1, <1>3, StartingOK
<1> QED
  BY <1>0, <1>1, <1>2, <1>4, <1>5, <1>6, ShapeBegun DEF ShapeNext

\* Resolving a member keeps Shape.
LEMMA ShapeConstructMember ==
    ASSUME Shape, NEW t \in Threads, ConstructMember(t)
    PROVE  ShapeNext
<1>0. /\ FramesType' /\ frames[t] # <<>> /\ Making(Top(t)) /\ MakingOK(Top(t)) /\ Top(t) \in Frame
      /\ Top(t).op = "construct" /\ Top(t).kind \in Holder
      /\ Top(t).inst + 1 \in Insts /\ UNCHANGED Data
  BY ConstructMemberDoes, TopFacts
<1>1. PICK g, k : k \in Kinds \ Holder /\ Pushed(t, Top(t), g) /\ Starting(g, k, Top(t).inst + 1)
  BY ConstructMemberDoes
<1>2. Types' /\ Grown
  BY <1>0 DEF Shape, Types, Grown, Data, FramesType
<1>3. HeldHasSlot'
  BY <1>0 DEF Shape, HeldHasSlot, Data
<1>4. Top(t).inst + 1 <= insts'
  BY <1>0 DEF MakingOK, Data
<1>5. FrameOK(g)' /\ Making(g) /\ g.op # "sweep"
  BY <1>0, <1>1, <1>4, StartingOK
<1>6. PICK f : f = Top(t)
  OBVIOUS
<1>7. FrameOK(f)'
  BY <1>0, <1>2, <1>6, FrameOKGrows DEF Shape, FrameOK
<1>8. Nested(f, g) /\ Making(f) /\ Making(Top(t)) /\ f.op = Top(t).op
  BY <1>0, <1>5, <1>6 DEF Nested
<1> QED
  BY <1>0, <1>1, <1>2, <1>3, <1>5, <1>6, <1>7, <1>8, ShapePushed DEF ShapeNext

\* A release that has just started is well formed.
LEMMA ReleaseOK ==
    ASSUME NEW g, NEW s \in Slots, Release(g, s)
    PROVE  FrameOK(g)' /\ ~Making(g) /\ g.op # "sweep"
BY DEF Release, FrameOK, ReleasingOK, Making

\* Unwind keeps Shape.
LEMMA ShapeUnwind ==
    ASSUME Shape, NEW t \in Threads, Unwind(t)
    PROVE  ShapeNext
<1>0. /\ FramesType' /\ frames[t] # <<>> /\ Making(Top(t)) /\ MakingOK(Top(t)) /\ Top(t).op = "unwind"
      /\ Top(t).inst \in Insts /\ Top(t) \in Frame
      /\ UNCHANGED <<head, nextFree, generation, refcount, slotCount, liveSlots, phase, frees,
                     handles, slotOf, insts, lost, destroyed>>
  BY UnwindDoes, TopFacts
<1>1. Grown
  BY <1>0 DEF Grown, Shape, Types
<1>2. CASE /\ member[Top(t).inst] \in Insts /\ slotOf[member[Top(t).inst]] \in Slots
           /\ \E g : Pushed(t, Top(t), g) /\ Release(g, slotOf[member[Top(t).inst]])
           /\ member' = [member EXCEPT ![Top(t).inst] = None] /\ UNCHANGED memory
  <2>1. PICK g : Pushed(t, Top(t), g) /\ Release(g, slotOf[member[Top(t).inst]])
    BY <1>2
  <2>2. FrameOK(g)' /\ ~Making(g) /\ g.op # "sweep"
    BY <1>2, <2>1, ReleaseOK
  <2>3. member' \in [Insts -> Insts \union {None}] /\ \A i \in Insts, m \in Insts : member'[m] = i => member[m] = i
    <3>1. None \notin Insts /\ member \in [Insts -> Insts \union {None}]
      BY StoreConstants DEF Shape, Types, Insts
    <3> QED
      BY <1>0, <1>2, <3>1
  <2>4. Types'
    BY <1>0, <1>2, <2>3 DEF Shape, Types, FramesType
  <2>5. HeldHasSlot'
    BY <1>0, <2>3, <2>4, HeldKept, HeldNow
  <2>6. PICK f : f = Top(t)
    OBVIOUS
  <2>7. FrameOK(f)' /\ Nested(f, g) /\ Making(f) /\ f.op = Top(t).op
    BY <1>0, <1>1, <2>2, <2>4, <2>6, FrameOKGrows DEF Shape, FrameOK, Nested
  <2> QED
    BY <1>0, <1>1, <2>1, <2>2, <2>4, <2>5, <2>6, <2>7, ShapePushed DEF ShapeNext
<1>3. CASE Thrown(t) /\ UNCHANGED <<member, memory>>
  <2>1. Types'
    BY <1>0, <1>3 DEF Shape, Types, FramesType
  <2>2. HeldHasSlot'
    BY <1>0, <1>3 DEF Shape, HeldHasSlot
  <2> QED
    BY <1>1, <1>3, <2>1, <2>2, ShapeThrown DEF ShapeNext
<1>4. CASE /\ Top(t).slot \in Slots
           /\ \E f : Becomes(t, f, "pushLoad", Top(t).slot, FALSE)
           /\ memory' = [memory EXCEPT ![Top(t).slot] = None] /\ UNCHANGED member
  <2>1. PICK f : Becomes(t, f, "pushLoad", Top(t).slot, FALSE)
    BY <1>4
  <2>2. Types'
    BY <1>0, <1>4 DEF Shape, Types, FramesType
  <2>3. HeldHasSlot'
    BY <1>0, <1>4 DEF Shape, HeldHasSlot
  <2>4. f \in Frame /\ f.op = "pushLoad" /\ f.slot = Top(t).slot /\ f.live = FALSE /\ f.kind = Top(t).kind /\
          f.inst = Top(t).inst /\ Replaced(t, f)
    BY <2>1 DEF Becomes
  <2>5. Making(f) /\ f.slot # None
    BY <1>0, <1>4, <2>4, StoreConstants DEF Making, Slots
  <2>6. MakingOK(f)
    BY <1>0, <2>4, <2>5 DEF MakingOK, PushOps, PopOps
  <2>7. FrameOK(f)'
    BY <1>1, <2>2, <2>4, <2>5, <2>6, FrameOKGrows DEF Shape, FrameOK
  <2> QED
    BY <1>0, <1>1, <2>2, <2>3, <2>4, <2>5, <2>7, ShapeReplaced DEF ShapeNext
<1> QED
  BY <1>2, <1>3, <1>4, UnwindDoes

\* Activate keeps Shape.
LEMMA ShapeActivate ==
    ASSUME Shape, NEW t \in Threads, Activate(t)
    PROVE  ShapeNext
<1>0. /\ FramesType' /\ frames[t] # <<>> /\ Making(Top(t)) /\ MakingOK(Top(t)) /\ Top(t).op = "activate"
      /\ Top(t).slot \in Slots
      /\ refcount' = [refcount EXCEPT ![Top(t).slot] = 1] /\ liveSlots' = liveSlots + 1
      /\ UNCHANGED <<head, nextFree, generation, slotCount, phase, frees,
                     handles, member, memory, slotOf, insts, lost, destroyed>>
  BY ActivateDoes DEF Activate, freelist, objects
<1>1. PICK f : Becomes(t, f, "hooks", Top(t).slot, Top(t).live)
  BY ActivateDoes
<1>2. Types'
  <2>1. refcount' \in [Slots -> Int] /\ liveSlots' \in Int
    BY <1>0 DEF Shape, Types
  <2> QED
    BY <1>0, <2>1 DEF Shape, Types, FramesType
<1>3. Grown /\ HeldHasSlot'
  BY <1>0 DEF Shape, Types, HeldHasSlot, Grown
<1>4. f \in Frame /\ f.op = "hooks" /\ f.slot = Top(t).slot /\ f.live = Top(t).live /\ f.kind = Top(t).kind /\
        f.inst = Top(t).inst /\ Replaced(t, f)
  BY <1>1 DEF Becomes
<1>5. Making(f)
  BY <1>0, <1>4 DEF Making
<1>6. MakingOK(f)
  BY <1>0, <1>4, <1>5 DEF MakingOK, PushOps, PopOps
<1>7. FrameOK(f)'
  BY <1>2, <1>3, <1>4, <1>5, <1>6, FrameOKGrows DEF Shape, FrameOK
<1> QED
  BY <1>0, <1>2, <1>3, <1>4, <1>5, <1>7, ShapeReplaced DEF ShapeNext

\* Returning the handle keeps Shape.
LEMMA ShapeHooksDone ==
    ASSUME Shape, NEW t \in Threads, HooksDone(t)
    PROVE  ShapeNext
<1>0. /\ FramesType' /\ frames[t] # <<>> /\ MakingOK(Top(t)) /\ Popped(t)
      /\ Top(t).inst \in Insts /\ Top(t).slot \in Slots /\ slotOf[Top(t).inst] # None
      /\ UNCHANGED <<head, nextFree, generation, refcount, liveSlots, slotOf, insts, lost, destroyed, memory,
                     slotCount, phase, frees>>
  <2>1. /\ FramesType' /\ frames[t] # <<>> /\ MakingOK(Top(t)) /\ Popped(t)
        /\ Top(t).inst \in Insts /\ Top(t).slot \in Slots
    BY HooksDoneDoes
  <2>2. None \notin Slots
    BY StoreConstants DEF Slots
  <2>3. slotOf[Top(t).inst] # None
    BY <2>1, <2>2 DEF MakingOK
  <2> QED
    BY <2>1, <2>3 DEF HooksDone, freelist, counts
<1>1. /\ handles' \in [Threads -> [Insts -> 0..MaxHandles]]
      /\ \A i \in Insts, u \in Threads : handles'[u][i] > 0 => handles[u][i] > 0 \/ i = Top(t).inst
  <2>1. handles \in [Threads -> [Insts -> 0..MaxHandles]] /\ 1 \in 0..MaxHandles
    BY StoreConstants DEF Shape, Types
  <2>2. handles' = handles \/ handles' = [handles EXCEPT ![t] = [handles[t] EXCEPT ![Top(t).inst] = 1]]
    BY HooksDoneDoes
  <2>3. CASE handles' = [handles EXCEPT ![t] = [handles[t] EXCEPT ![Top(t).inst] = 1]]
    <3>1. PICK h : h = [handles[t] EXCEPT ![Top(t).inst] = 1]
      OBVIOUS
    <3>2. h \in [Insts -> 0..MaxHandles] /\ \A i \in Insts : h[i] # handles[t][i] => i = Top(t).inst
      BY <1>0, <2>1, <3>1
    <3>3. handles' = [handles EXCEPT ![t] = h]
      BY <2>3, <3>1
    <3> QED
      BY <2>1, <3>2, <3>3
  <2> QED
    BY <2>1, <2>2, <2>3
<1>2. /\ member' \in [Insts -> Insts \union {None}]
      /\ \A i \in Insts, m \in Insts : member'[m] = i => member[m] = i \/ i = Top(t).inst
  <2>1. member \in [Insts -> Insts \union {None}]
    BY DEF Shape, Types
  <2>2. member' = member \/ \E m \in Insts : member' = [member EXCEPT ![m] = Top(t).inst]
    BY HooksDoneDoes
  <2> QED
    BY <1>0, <2>1, <2>2
<1>3. Types'
  BY <1>0, <1>1, <1>2 DEF Shape, Types, FramesType
<1>4. Grown
  BY <1>0 DEF Shape, Types, Grown
<1>5. HeldHasSlot'
  BY <1>0, <1>1, <1>2, <1>3, HeldKept, HeldNow
<1> QED
  BY <1>0, <1>3, <1>4, <1>5, ShapePopped DEF ShapeNext

\* A step of a call that makes nothing keeps the shape of the calls.
LEMMA ShapeGoes ==
    ASSUME Shape, Types', Grown, NEW t \in Threads, NEW op, NEW next, Goes(t, op, next), op # "sweep",
           next = "done" \/ (next \in {"last", "pushLoad", "unlive"} /\ Top(t).slot \in Slots) \/ next \in AskOps
    PROVE  \A u \in Threads : ShapeOf(u)'
<1>1. CASE next = "done"
  BY <1>1, ShapePopped DEF Goes
<1>2. CASE next # "done"
  <2>1. PICK f : Becomes(t, f, next, Top(t).slot, Top(t).live)
    BY <1>2 DEF Goes
  <2>2. f \in Frame /\ f.op = next /\ f.slot = Top(t).slot /\ f.live /\ f.inst = None /\ Replaced(t, f)
    BY <2>1 DEF Becomes, Goes, Making, ReleasingOK
  <2>3. ~Making(f) /\ ~Making(Top(t)) /\ Top(t).op # "sweep" /\ f.op # "sweep" /\ frames[t] # <<>>
    BY <1>2, <2>2 DEF Making, Goes, AskOps
  <2>4. FrameOK(f)'
    BY <1>2, <2>2 DEF FrameOK, ReleasingOK, Making, AskOps, PushOps
  <2> QED
    BY <2>2, <2>3, <2>4, ShapeReplaced
<1> QED
  BY <1>1, <1>2

\* The steps of a release keep Shape.
LEMMA ShapeRelease ==
    ASSUME Shape, NEW t \in Threads,
           ReleaseAcquire(t) \/ ReleaseLiveSlot(t) \/ CheckLive(t) \/ DeleteIfDead(t) \/ Bump(t)
    PROVE  ShapeNext
<1>0. Types /\ HeldHasSlot
  BY DEF Shape
<1>1. CASE ReleaseAcquire(t)
  <2>1. Top(t).slot \in Slots /\ Goes(t, "dec", IF refcount[Top(t).slot] = 1 THEN "last" ELSE "done")
    BY <1>1, ReleaseDoes
  <2>2. refcount' \in [Slots -> Int] /\ FramesType'
    BY <1>0, <1>1, <2>1 DEF Types, ReleaseAcquire, Goes
  <2>3. Types' /\ Grown /\ HeldHasSlot'
    BY <1>0, <1>1, <2>2 DEF Types, HeldHasSlot, Grown, FramesType, ReleaseAcquire, freelist, objects
  <2> QED
    BY <2>1, <2>3, ShapeGoes DEF ShapeNext
<1>2. CASE ReleaseLiveSlot(t)
  <2>1. Goes(t, "unlive", IF liveSlots = 1 THEN "chkLive" ELSE "done")
    BY <1>2, ReleaseDoes
  <2>3. Types' /\ Grown /\ HeldHasSlot'
    BY <1>0, <1>2, <2>1 DEF Types, HeldHasSlot, Grown, FramesType, ReleaseLiveSlot, Goes, freelist, objects
  <2> QED
    BY <2>1, <2>3, ShapeGoes DEF ShapeNext, AskOps
<1>3. CASE CheckLive(t)
  <2>1. Goes(t, "chkLive", IF liveSlots = 0 THEN "chkAlive" ELSE "done")
    BY <1>3, ReleaseDoes
  <2>3. Types' /\ Grown /\ HeldHasSlot'
    BY <1>0, <1>3, <2>1 DEF Types, HeldHasSlot, Grown, FramesType, CheckLive, Goes, freelist, counts, objects
  <2> QED
    BY <2>1, <2>3, ShapeGoes DEF ShapeNext, AskOps
<1>4. CASE DeleteIfDead(t)
  <2>1. Goes(t, "chkAlive", "done")
    BY <1>4, ReleaseDoes
  <2>3. Types' /\ Grown /\ HeldHasSlot'
    BY <1>0, <1>4, <2>1 DEF Types, HeldHasSlot, Grown, FramesType, DeleteIfDead, Goes, freelist, counts,
         objects, Alive
  <2> QED
    BY <2>1, <2>3, ShapeGoes DEF ShapeNext
<1>5. CASE Bump(t)
  <2>1. Top(t).slot \in Slots /\ Goes(t, "bump", "pushLoad")
    BY <1>5, ReleaseDoes
  <2>2. memory' \in [Slots -> Insts \union {None}] /\ generation' \in [Slots -> Nat] /\ FramesType'
    BY <1>0, <1>5, <2>1 DEF Types, Bump, Goes
  <2>3. Types' /\ Grown /\ HeldHasSlot'
    BY <1>0, <1>5, <2>2 DEF Types, HeldHasSlot, Grown, FramesType, Bump, counts, objects
  <2> QED
    BY <2>1, <2>3, ShapeGoes DEF ShapeNext
<1> QED
  BY <1>1, <1>2, <1>3, <1>4, <1>5

\* PushLink keeps Shape.
LEMMA ShapePushLink ==
    ASSUME Shape, NEW t \in Threads, PushLink(t)
    PROVE  ShapeNext
<1>0. /\ FramesType' /\ frames[t] # <<>> /\ Top(t).op = "pushLink" /\ Top(t).slot \in Slots
      /\ nextFree' = [nextFree EXCEPT ![Top(t).slot] = Top(t).cur.slot]
      /\ UNCHANGED <<head, generation, refcount, slotCount, liveSlots, phase, frees,
                     handles, member, slotOf, insts, lost, destroyed, memory>>
  BY PushLinkDoes
<1>1. PICK f : Becomes(t, f, "pushCas", Top(t).slot, Top(t).live)
  BY PushLinkDoes
<1>2. FrameOK(Top(t)) /\ Top(t) \in Frame
  BY <1>0, TopFacts
<1>3. nextFree' \in [Slots -> Slots \union {None, 0}]
  BY <1>0, <1>2 DEF Shape, Types, Frame, Heads
<1>4. Types' /\ Grown /\ HeldHasSlot'
  BY <1>0, <1>3 DEF Shape, Types, HeldHasSlot, Grown, FramesType
<1>5. f \in Frame /\ f.op = "pushCas" /\ f.slot = Top(t).slot /\ f.live = Top(t).live /\
        f.kind = Top(t).kind /\ f.inst = Top(t).inst /\ Replaced(t, f)
  BY <1>1 DEF Becomes
<1>6. Making(f) <=> Making(Top(t))
  BY <1>5 DEF Making
<1>7. FrameOK(f)
  BY <1>0, <1>2, <1>5, <1>6 DEF FrameOK, MakingOK, ReleasingOK, PushOps, PopOps, AskOps
<1>8. FrameOK(f)'
  BY <1>4, <1>5, <1>7, FrameOKGrows DEF Shape
<1> QED
  BY <1>0, <1>4, <1>5, <1>6, <1>8, ShapeReplaced DEF ShapeNext

\* A successful push keeps Shape.
LEMMA ShapePushedBack ==
    ASSUME Shape, NEW t \in Threads, PushCas(t), head = Top(t).cur
    PROVE  ShapeNext
<1>0. /\ FramesType' /\ frames[t] # <<>> /\ Top(t).op = "pushCas" /\ Top(t).slot \in Slots
      /\ head' = [gen |-> generation[Top(t).slot], slot |-> Top(t).slot]
      /\ UNCHANGED <<nextFree, generation, refcount, slotCount, liveSlots, phase, frees,
                     handles, member, slotOf, insts, lost, destroyed, memory>>
      /\ (Thrown(t) \/ Goes(t, "pushCas", "unlive"))
  BY PushedBackDoes
<1>1. head' \in Heads
  BY <1>0 DEF Shape, Types, Heads
<1>2. Types' /\ Grown /\ HeldHasSlot'
  BY <1>0, <1>1 DEF Shape, Types, HeldHasSlot, Grown, FramesType
<1> QED
  BY <1>0, <1>2, ShapeThrown, ShapeGoes DEF ShapeNext

\* Emptying a slot keeps Shape.
LEMMA ShapeEmptied ==
    ASSUME Shape, NEW t \in Threads, NEW f, NEW s, Emptied(t, f, s)
    PROVE  ShapeNext
<1>0. /\ FramesType' /\ frames[t] # <<>> /\ ~Making(Top(t)) /\ ReleasingOK(Top(t)) /\ f \in Frame /\
             f.inst = None /\ f.live
      /\ s \in Slots /\ memory' = [memory EXCEPT ![s] = None]
      /\ UNCHANGED <<head, nextFree, generation, refcount, slotCount, liveSlots, phase, frees,
                     handles, slotOf, insts, lost>>
      /\ f.op \in {"bump", "sweep"} /\ f.slot = s /\ (f.op = "sweep" <=> Top(t).op = "sweep")
      /\ Top(t).op = "sweep" => Top(t).slot = s + 1
  BY DEF Emptied
<1>1. /\ member' \in [Insts -> Insts \union {None}] /\ destroyed' \in [Insts -> Nat]
      /\ \A i \in Insts, m \in Insts : member'[m] = i => member[m] = i
  <2>1. None \notin Insts /\ member \in [Insts -> Insts \union {None}] /\ destroyed \in [Insts -> Nat]
    BY StoreConstants DEF Shape, Types, Insts
  <2>2. \/ UNCHANGED <<member, destroyed>>
        \/ \E i \in Insts : destroyed' = [destroyed EXCEPT ![i] = @ + 1] /\ member' = [member EXCEPT ![i] = None]
    BY DEF Emptied
  <2> QED
    BY <2>1, <2>2
<1>2. memory' \in [Slots -> Insts \union {None}]
  BY <1>0 DEF Shape, Types
<1>3. Types'
  BY <1>0, <1>1, <1>2 DEF Shape, Types, FramesType
<1>4. Grown
  BY <1>0 DEF Shape, Types, Grown
<1>5. HeldHasSlot'
  BY <1>0, <1>1, <1>3, HeldKept, HeldNow
<1>6. FrameOK(f) /\ ~Making(f)
  <2>1. f.op = "sweep" => f.slot \in 0..slotCount
    <3> HAVE f.op = "sweep"
    <3>1. s + 1 \in 0..slotCount /\ slotCount \in Nat /\ s \in Nat
      BY <1>0, StoreConstants DEF ReleasingOK, Shape, Types, Slots
    <3> QED
      BY <1>0, <3>1
  <2> QED
    BY <1>0, <2>1 DEF FrameOK, ReleasingOK, Making, AskOps, PushOps
<1>7. FrameOK(f)'
  BY <1>0, <1>3, <1>4, <1>6, FrameOKGrows DEF Shape
<1>8. CASE Replaced(t, f)
  BY <1>0, <1>3, <1>4, <1>5, <1>6, <1>7, <1>8, ShapeReplaced DEF ShapeNext
<1>9. CASE ~Replaced(t, f)
  <2>1. PICK r : r \in Slots /\ \E g : Pushed(t, f, g) /\ Release(g, r)
    BY <1>9 DEF Emptied
  <2>2. PICK g : Pushed(t, f, g) /\ Release(g, r)
    BY <2>1
  <2>3. FrameOK(g)' /\ ~Making(g) /\ g.op # "sweep"
    BY <2>1, <2>2, ReleaseOK
  <2>4. Nested(f, g)
    BY <1>0, <2>3 DEF Nested
  <2> QED
    BY <1>0, <1>3, <1>4, <1>5, <1>6, <1>7, <2>2, <2>3, <2>4, ShapePushed DEF ShapeNext
<1> QED
  BY <1>8, <1>9

\* Dropping and copying handles keeps Shape.
LEMMA ShapeHandles ==
    ASSUME Shape, NEW t \in Threads, NEW i \in Insts, Drop(t, i) \/ \E u \in Threads : Copy(t, u, i)
    PROVE  ShapeNext
<1>0. Types /\ HeldHasSlot /\ handles \in [Threads -> [Insts -> 0..MaxHandles]] /\ MaxHandles \in Nat /\
        handles[t][i] > 0
  BY StoreConstants DEF Shape, Types, Drop, Copy
<1>1. CASE Drop(t, i)
  <2>1. PICK g : Begun(t, g) /\ Release(g, slotOf[i])
    BY <1>1, DropDoes
  <2>2. FramesType' /\ slotOf[i] \in Slots /\ phase # "stopping"
    BY <1>1, DropDoes DEF Drop
  <2>3. FrameOK(g)' /\ ~Making(g) /\ g.op # "sweep"
    BY <2>1, <2>2, ReleaseOK
  <2>4. /\ handles' \in [Threads -> [Insts -> 0..MaxHandles]]
        /\ \A j \in Insts, u \in Threads : handles'[u][j] > 0 => handles[u][j] > 0
    <3>1. PICK h : h = [handles[t] EXCEPT ![i] = @ - 1]
      OBVIOUS
    <3>2. handles[t] \in [Insts -> 0..MaxHandles] /\ handles[t][i] - 1 \in 0..MaxHandles
      BY <1>0
    <3>3. h \in [Insts -> 0..MaxHandles] /\ \A j \in Insts : h[j] > 0 => handles[t][j] > 0
      BY <1>0, <3>1, <3>2
    <3>4. handles' = [handles EXCEPT ![t] = h]
      BY <1>1, <3>1 DEF Drop
    <3> QED
      BY <1>0, <3>3, <3>4
  <2>5. UNCHANGED <<head, nextFree, generation, refcount, liveSlots, memory, slotCount, phase, frees, member,
          slotOf, insts,
                    lost, destroyed>>
    BY <1>1 DEF Drop, freelist, counts
  <2>6. Types' /\ Grown
    BY <1>0, <2>2, <2>4, <2>5 DEF Types, Grown, FramesType
  <2>7. HeldHasSlot'
    BY <2>4, <2>5, <2>6, HeldKept, HeldNow
  <2> QED
    BY <2>1, <2>2, <2>3, <2>6, <2>7, ShapeBegun DEF ShapeNext
<1>2. CASE \E u \in Threads : Copy(t, u, i)
  <2>1. PICK u \in Threads : Copy(t, u, i)
    BY <1>2
  <2>2. slotOf[i] # None /\ slotOf[i] \in Slots
    BY <1>0, HeldNow DEF Types
  <2>3. refcount' \in [Slots -> Int]
    BY <1>0, <2>1, <2>2 DEF Types, Copy
  <2>4. /\ handles' \in [Threads -> [Insts -> 0..MaxHandles]]
        /\ \A j \in Insts, v \in Threads : handles'[v][j] > 0 => handles[v][j] > 0 \/ j = i
    <3>1. PICK h : h = [handles[u] EXCEPT ![i] = @ + 1]
      OBVIOUS
    <3>2. handles[u] \in [Insts -> 0..MaxHandles] /\ handles[u][i] + 1 \in 0..MaxHandles
      BY <1>0, <2>1 DEF Copy
    <3>3. h \in [Insts -> 0..MaxHandles] /\ \A j \in Insts : h[j] > 0 => handles[u][j] > 0 \/ j = i
      BY <3>1, <3>2
    <3>4. handles' = [handles EXCEPT ![u] = h]
      BY <2>1, <3>1 DEF Copy
    <3> QED
      BY <1>0, <3>3, <3>4
  <2>5. UNCHANGED <<head, nextFree, generation, liveSlots, memory, slotCount, phase, frees, frames, member,
          slotOf, insts,
                    lost, destroyed>>
    BY <2>1 DEF Copy, freelist
  <2>6. Types'
    BY <1>0, <2>3, <2>4, <2>5 DEF Types
  <2>7. HeldHasSlot'
    BY <2>2, <2>4, <2>5, <2>6, HeldKept, HeldNow
  <2>8. \A v \in Threads : ShapeOf(v)'
    BY <2>5 DEF Shape, ShapeOf, FrameOK, MakingOK, ReleasingOK, Making, Nested
  <2> QED
    BY <2>6, <2>7, <2>8 DEF ShapeNext
<1> QED
  BY <1>1, <1>2

\* Stop keeps Shape.
LEMMA ShapeStop ==
    ASSUME Shape, NEW t \in Threads, Stop(t)
    PROVE  ShapeNext
<1>0. /\ \A u \in Threads : frames[u] = <<>>
      /\ phase' = "stopping" /\ FramesType'
      /\ UNCHANGED <<head, nextFree, generation, refcount, liveSlots, memory, slotCount, frees, handles,
             member, slotOf, insts,
                     lost, destroyed>>
  BY StopDoes DEF Stop, freelist, counts, objects
<1>1. PICK f : /\ f \in Frame /\ Begun(t, f) /\ f.op = "sweep" /\ f.slot = slotCount
               /\ f.inst = None /\ f.live
  BY StopDoes
<1>2. Types' /\ HeldHasSlot'
  BY <1>0 DEF Shape, Types, HeldHasSlot, FramesType
<1>3. slotCount \in 0..slotCount /\ slotCount' = slotCount
  BY <1>0 DEF Shape, Types
<1>4. FrameOK(f)' /\ ~Making(f)
  BY <1>1, <1>3 DEF FrameOK, ReleasingOK, Making, AskOps, PushOps
<1>5. \A u \in Threads \ {t} : frames'[u] = <<>>
  BY <1>0, <1>1 DEF Begun, Rest
<1>6. ASSUME NEW u \in Threads PROVE ShapeOf(u)'
  <2>1. CASE u = t
    <3>1. Len(frames'[t]) = 1 /\ frames'[t][1] = f
      BY <1>1 DEF Begun
    <3>2. ASSUME NEW j \in 1..1, NEW h, h = frames'[t][j] PROVE Settled(t, j, h)'
      <4>1. h = f /\ j = 1
        BY <3>1, <3>2
      <4> QED
        BY <1>0, <1>4, <1>5, <4>1 DEF Settled, Making
    <3>3. ASSUME NEW j \in 1..(1 - 1), NEW h, NEW k, h = frames'[t][j], k = frames'[t][j + 1] PROVE Nested(h, k)
      OBVIOUS
    <3> QED
      BY <2>1, <3>1, <3>2, <3>3, ShapeOwn
  <2>2. CASE u # t
    <3>1. Len(frames'[u]) = 0
      BY <1>5, <2>2
    <3> QED
      BY <3>1 DEF ShapeOf
  <2> QED
    BY <2>1, <2>2
<1> QED
  BY <1>2, <1>6 DEF ShapeNext

\* The end of the sweep keeps Shape.
LEMMA ShapeSwept ==
    ASSUME Shape, NEW t \in Threads, Sweep(t), Top(t).slot = 0
    PROVE  ShapeNext
<1>0. /\ Goes(t, "sweep", "done") /\ phase' = "stopped" /\ Len(frames[t]) = 1
      /\ \A u \in Threads \ {t} : frames[u] = <<>>
      /\ UNCHANGED <<head, nextFree, generation, refcount, slotCount, liveSlots, frees,
                     handles, member, slotOf, insts, lost, destroyed, memory>>
  BY SweptDoes
<1>1. FramesType' /\ Popped(t)
  BY <1>0 DEF Goes
<1>2. Types' /\ HeldHasSlot'
  BY <1>0, <1>1 DEF Shape, Types, HeldHasSlot, FramesType
<1>3. \A u \in Threads : Len(frames'[u]) = 0
  BY <1>0, <1>1 DEF Popped, Rest
<1>4. \A u \in Threads : ShapeOf(u)'
  BY <1>3 DEF ShapeOf
<1> QED
  BY <1>2, <1>4 DEF ShapeNext

\* DestroyRegistry keeps Shape.
LEMMA ShapeDestroyRegistry ==
    ASSUME Shape, NEW t \in Threads, DestroyRegistry(t)
    PROVE  ShapeNext
<1>0. /\ phase' = "dying" /\ phase = "stopped" /\ FramesType'
      /\ UNCHANGED <<head, nextFree, generation, refcount, liveSlots, memory, slotCount, frees, handles,
             member, slotOf, insts,
                     lost, destroyed>>
  BY DestroyRegistryDoes DEF DestroyRegistry, freelist, counts, objects
<1>1. PICK f : /\ f \in Frame /\ Begun(t, f) /\ f.op = "chkLive" /\ f.slot = None
               /\ f.inst = None /\ f.live
  BY DestroyRegistryDoes
<1>2. Types' /\ HeldHasSlot' /\ Grown
  BY <1>0 DEF Shape, Types, HeldHasSlot, FramesType, Grown
<1>4. FrameOK(f)' /\ ~Making(f)
  BY <1>1 DEF FrameOK, ReleasingOK, Making, AskOps, PushOps
<1> QED
  BY <1>0, <1>1, <1>2, <1>4, ShapeBegun DEF ShapeNext

\* Every step is one of these.
StepOf(t) ==
    \/ \E f : Quiet(t, f)
    \/ \E f, s : Taken(t, f, s)
    \/ LimitReached(t) \/ HooksThrow(t)
    \/ \E k \in Kinds : Resolve(t, k)
    \/ ConstructMember(t) \/ Unwind(t) \/ Activate(t) \/ HooksDone(t)
    \/ \E i \in Insts : Drop(t, i) \/ \E u \in Threads : Copy(t, u, i)
    \/ ReleaseAcquire(t) \/ ReleaseLiveSlot(t) \/ CheckLive(t) \/ DeleteIfDead(t) \/ Bump(t)
    \/ PushLink(t) \/ (PushCas(t) /\ head = Top(t).cur)
    \/ \E f, s : Emptied(t, f, s)
    \/ Stop(t) \/ (Sweep(t) /\ Top(t).slot = 0) \/ DestroyRegistry(t)

\* Next is a step of some thread.
LEMMA Steps ==
    ASSUME Shape, Next
    PROVE  \E t \in Threads : StepOf(t)
<1>1. PICK t \in Threads :
        \/ \E k \in Kinds : Resolve(t, k)
        \/ \E i \in Insts : Drop(t, i) \/ \E u \in Threads : Copy(t, u, i)
        \/ Stop(t) \/ DestroyRegistry(t)
        \/ Continue(t)
  BY DEF Next
<1>2. QuietStep(t) => StepOf(t)
  BY QuietStepDoes DEF StepOf
<1>3. (PopCas(t) /\ head = Top(t).cur) \/ Grow(t) => StepOf(t)
  BY TakenDoes DEF StepOf
<1>4. TakeSlotMeta(t) \/ (Sweep(t) /\ Top(t).slot # 0) => StepOf(t)
  BY EmptiedDoes DEF StepOf
<1>5. CASE Continue(t)
  BY <1>2, <1>3, <1>4, <1>5 DEF Continue, QuietStep, StepOf
<1> QED
  BY <1>1, <1>5 DEF StepOf

\* The calls in progress keep their shape, whoever allocates.
LEMMA ShapeStep ==
    ASSUME Shape, [Next]_vars
    PROVE  Shape'
<1>1. CASE UNCHANGED vars
  <2>1. Types' /\ HeldHasSlot'
    BY <1>1 DEF vars, Shape, Types, HeldHasSlot
  <2>2. \A v \in Threads : ShapeOf(v)'
    BY <1>1 DEF vars, Shape, ShapeOf, FrameOK, MakingOK, ReleasingOK, Making, Nested
  <2> QED
    BY <2>1, <2>2 DEF Shape
<1>2. CASE Next
  <2>1. PICK t \in Threads : StepOf(t)
    BY <1>2, Steps
  <2>2. ShapeNext
    BY <2>1, ShapeQuiet, ShapeTaken, ShapeThrows, ShapeResolve, ShapeConstructMember, ShapeUnwind,
       ShapeActivate, ShapeHooksDone, ShapeHandles, ShapeRelease, ShapePushLink, ShapePushedBack,
       ShapeEmptied, ShapeStop, ShapeSwept, ShapeDestroyRegistry DEF StepOf
  <2> QED
    BY <2>2 DEF ShapeNext, Shape
<1> QED
  BY <1>1, <1>2

-----------------------------------------------------------------------------
(* How the steps change the calls that are at some point with some slot.   *)

RefOps == {"dec", "hooks"}
Seat(slot, op, s, ops) == IF slot = s /\ op \in ops THEN 1 ELSE 0
SeatOf(f, s, ops) == Seat(f.slot, f.op, s, ops)
Seats(s, ops) == Count(frames, FramesAt(s, ops))
SeatsNext(s, ops) == Count(frames', FramesAt(s, ops))

\* A call counts for one slot and one set of operations.
LEMMA SeatWeight ==
    ASSUME NEW f \in Frame, NEW s, NEW ops
    PROVE  Weight(f, FramesAt(s, ops)) = SeatOf(f, s, ops) /\ SeatOf(f, s, ops) \in {0, 1}
BY DEF Weight, FramesAt, SeatOf, Seat

\* The sets of the model, counted.
LEMMA CountsAre ==
    ASSUME FramesType, FramesType'
    PROVE  /\ \A s : Cardinality(Working(s)) = Seats(s, WorkOps) /\ Cardinality(Working(s)') = SeatsNext(s, WorkOps)
           /\ \A s : Cardinality(CallHandles(s)) = Seats(s, RefOps) /\
                  Cardinality(CallHandles(s)') = SeatsNext(s, RefOps)
           /\ Cardinality(Leaving) = Count(frames, LeaveFrames) /\
                  Cardinality(Leaving') = Count(frames', LeaveFrames)
           /\ \A s, ops : Seats(s, ops) \in Nat /\ SeatsNext(s, ops) \in Nat
           /\ Count(frames, LeaveFrames) \in Nat /\ Count(frames', LeaveFrames) \in Nat
<1>1. frames \in Stacks /\ frames' \in Stacks
  BY DEF FramesType, Stacks
<1>2. /\ \A s, ops : CallsAt(s, ops) = CallsIn(frames, FramesAt(s, ops))
      /\ \A s, ops : CallsAt(s, ops)' = CallsIn(frames', FramesAt(s, ops))
      /\ Leaving = CallsIn(frames, LeaveFrames) /\ Leaving' = CallsIn(frames', LeaveFrames)
  BY CountsOfModel
<1>3. \A s : Working(s) = CallsAt(s, WorkOps) /\ Working(s)' = CallsAt(s, WorkOps)'
  BY DEF Working, WorkOps
<1>4. \A s : CallHandles(s) = CallsAt(s, RefOps) /\ CallHandles(s)' = CallsAt(s, RefOps)'
  BY DEF CallHandles, RefOps
<1>5. \A F : Count(frames, F) \in Nat /\ Count(frames', F) \in Nat
  BY <1>1, CallsFinite
<1> QED
  BY <1>2, <1>3, <1>4, <1>5 DEF Count, Seats, SeatsNext

\* The count, when the innermost call is replaced,
LEMMA SeatReplaced ==
    ASSUME FramesType, FramesType', NEW t \in Threads, frames[t] # <<>>, NEW f \in Frame, Replaced(t, f),
           NEW s, NEW ops
    PROVE  SeatsNext(s, ops) = Seats(s, ops) - SeatOf(Top(t), s, ops) + SeatOf(f, s, ops)
<1>1. Top(t) \in Frame
  BY FrameFacts
<1> QED
  BY <1>1, CountReplaced, SeatWeight DEF Seats, SeatsNext

\* returns,
LEMMA SeatPopped ==
    ASSUME FramesType, FramesType', NEW t \in Threads, frames[t] # <<>>, Popped(t), NEW s, NEW ops
    PROVE  SeatsNext(s, ops) = Seats(s, ops) - SeatOf(Top(t), s, ops)
<1>1. Top(t) \in Frame
  BY FrameFacts
<1> QED
  BY <1>1, CountPopped, SeatWeight DEF Seats, SeatsNext

\* calls another,
LEMMA SeatPushed ==
    ASSUME FramesType, FramesType', NEW t \in Threads, frames[t] # <<>>, NEW f \in Frame, NEW g \in Frame,
           Pushed(t, f, g),
           NEW s, NEW ops
    PROVE  SeatsNext(s, ops) = Seats(s, ops) - SeatOf(Top(t), s, ops) + SeatOf(f, s, ops) + SeatOf(g, s, ops)
<1>1. Top(t) \in Frame
  BY FrameFacts
<1> QED
  BY <1>1, CountPushed, SeatWeight DEF Seats, SeatsNext

\* or is the first;
LEMMA SeatBegun ==
    ASSUME FramesType, FramesType', NEW t \in Threads, NEW f \in Frame, Begun(t, f), NEW s, NEW ops
    PROVE  SeatsNext(s, ops) = Seats(s, ops) + SeatOf(f, s, ops)
BY CountBegun, SeatWeight DEF Seats, SeatsNext

\* when it throws,
LEMMA SeatThrown ==
    ASSUME Shape, NEW t \in Threads, Thrown(t), NEW s, NEW ops, "construct" \in ops <=> "unwind" \in ops
    PROVE  SeatsNext(s, ops) = Seats(s, ops) - SeatOf(Top(t), s, ops)
<1>1. FramesType /\ FramesType' /\ Raised(t) /\ frames[t] # <<>> /\ Making(Top(t)) /\ Top(t) \in Frame
  BY TopFacts DEF Thrown
<1>2. Len(frames[t]) # 1 => (frames[t][Len(frames[t]) - 1] \in FramesAt(s, ops)
                               <=> Unwound(frames[t][Len(frames[t]) - 1]) \in FramesAt(s, ops))
  BY <1>1, BelowThrown DEF FramesAt
<1>3. Count(frames', FramesAt(s, ops)) = Count(frames, FramesAt(s, ops)) - Weight(Top(t), FramesAt(s, ops))
  BY <1>1, <1>2, CountRaised
<1> QED
  BY <1>1, <1>3, SeatWeight DEF Seats, SeatsNext

\* and when a call that makes nothing takes a step.
LEMMA SeatGoes ==
    ASSUME Shape, NEW t \in Threads, NEW op, NEW next, Goes(t, op, next), NEW s, NEW ops, "done" \notin ops
    PROVE  SeatsNext(s, ops) = Seats(s, ops) - Seat(Top(t).slot, op, s, ops) + Seat(Top(t).slot, next, s, ops)
<1>1. FramesType /\ FramesType' /\ frames[t] # <<>> /\ Top(t) \in Frame /\ Top(t).op = op
  BY TopFacts DEF Goes
<1>2. SeatOf(Top(t), s, ops) = Seat(Top(t).slot, op, s, ops)
  BY <1>1 DEF SeatOf
<1>3. CASE next = "done"
  <2>1. Popped(t)
    BY <1>3 DEF Goes
  <2>2. SeatsNext(s, ops) = Seats(s, ops) - SeatOf(Top(t), s, ops)
    BY <1>1, <2>1, SeatPopped
  <2>3. Seat(Top(t).slot, next, s, ops) = 0
    BY <1>3 DEF Seat
  <2>4. Seats(s, ops) \in Nat /\ SeatOf(Top(t), s, ops) \in {0, 1}
    BY <1>1, CountsAre, SeatWeight
  <2> QED
    BY <1>2, <2>2, <2>3, <2>4
<1>4. CASE next # "done"
  <2>1. PICK f : Becomes(t, f, next, Top(t).slot, Top(t).live)
    BY <1>4 DEF Goes
  <2>2. f \in Frame /\ Replaced(t, f) /\ SeatOf(f, s, ops) = Seat(Top(t).slot, next, s, ops)
    BY <2>1 DEF Becomes, SeatOf
  <2> QED
    BY <1>1, <1>2, <2>2, SeatReplaced
<1> QED
  BY <1>3, <1>4

\* The same for the calls that are giving up a reference already released.
LEMMA LeaveThrown ==
    ASSUME Shape, NEW t \in Threads, Thrown(t)
    PROVE  Count(frames', LeaveFrames) = Count(frames, LeaveFrames)
<1>1. FramesType /\ FramesType' /\ Raised(t) /\ frames[t] # <<>> /\ Making(Top(t)) /\ Top(t) \in Frame
  BY TopFacts DEF Thrown
<1>2. Len(frames[t]) # 1 => (frames[t][Len(frames[t]) - 1] \in LeaveFrames
                               <=> Unwound(frames[t][Len(frames[t]) - 1]) \in LeaveFrames)
  BY <1>1, BelowThrown DEF LeaveFrames, Making
<1>3. Count(frames', LeaveFrames) = Count(frames, LeaveFrames) - Weight(Top(t), LeaveFrames)
  BY <1>1, <1>2, CountRaised
<1>4. Weight(Top(t), LeaveFrames) = 0 /\ Count(frames, LeaveFrames) \in Nat
  BY <1>1, CountsAre DEF Weight, LeaveFrames
<1> QED
  BY <1>3, <1>4

\* The calls that leave a slot, over such a step.
LEMMA LeaveGoes ==
    ASSUME Shape, NEW t \in Threads, NEW op, NEW next, Goes(t, op, next)
    PROVE  Count(frames', LeaveFrames) = Count(frames, LeaveFrames) - Bit(op \in LeaveOps) + Bit(next \in LeaveOps)
<1>1. FramesType /\ FramesType' /\ frames[t] # <<>> /\ Top(t) \in Frame /\ Top(t).op = op /\ ~Making(Top(t))
  BY TopFacts DEF Goes
<1>2. Weight(Top(t), LeaveFrames) = Bit(op \in LeaveOps) /\ Count(frames, LeaveFrames) \in Nat
  BY <1>1, CountsAre DEF Weight, LeaveFrames, Bit
<1>3. CASE next = "done"
  <2>1. Popped(t)
    BY <1>3 DEF Goes
  <2>2. Count(frames', LeaveFrames) = Count(frames, LeaveFrames) - Weight(Top(t), LeaveFrames)
    BY <1>1, <2>1, CountPopped
  <2>3. Bit(next \in LeaveOps) = 0 /\ Bit(op \in LeaveOps) \in {0, 1}
    BY <1>3 DEF Bit, LeaveOps
  <2> QED
    BY <1>2, <2>2, <2>3
<1>4. CASE next # "done"
  <2>1. PICK f : Becomes(t, f, next, Top(t).slot, Top(t).live)
    BY <1>4 DEF Goes
  <2>2. f \in Frame /\ Replaced(t, f) /\ Weight(f, LeaveFrames) = Bit(next \in LeaveOps)
    BY <1>1, <2>1 DEF Becomes, Weight, LeaveFrames, Bit, Making
  <2> QED
    BY <1>1, <1>2, <2>2, CountReplaced
<1> QED
  BY <1>3, <1>4

\* What a step adds to the calls that work on a slot, to those that stand for a
\* reference, and to those that leave.
Same(ops) == \A s \in Slots : SeatsNext(s, ops) = Seats(s, ops)
Shifted(ops, r, d) == \A s \in Slots : SeatsNext(s, ops) = Seats(s, ops) + IF s = r THEN d ELSE 0
SameLeaving == Count(frames', LeaveFrames) = Count(frames, LeaveFrames)

\* A quiet step moves no call from one count to another.
LEMMA CountsQuiet ==
    ASSUME Shape, NEW t \in Threads, NEW f, Quiet(t, f)
    PROVE  Same(WorkOps) /\ Same(RefOps) /\ SameLeaving
<1>1. FramesType /\ FramesType' /\ f \in Frame /\ Top(t) \in Frame /\ Replaced(t, f) /\ frames[t] # <<>>
  BY TopFacts DEF Quiet
<1>2. \A F : Count(frames', F) = Count(frames, F) - Weight(Top(t), F) + Weight(f, F)
  BY <1>1, CountReplaced
<1>3. \A F : (Top(t) \in F <=> f \in F) => Weight(Top(t), F) = Weight(f, F) /\ Weight(f, F) \in {0, 1}
  BY DEF Weight
<1>4. \A F : Count(frames, F) \in Nat
  <2>1. frames \in Stacks
    BY <1>1 DEF FramesType, Stacks
  <2> QED
    BY <2>1, CallsFinite
<1>5. \A F : (Top(t) \in F <=> f \in F) => Count(frames', F) = Count(frames, F)
  <2> TAKE F
  <2> HAVE Top(t) \in F <=> f \in F
  <2>1. Weight(Top(t), F) = Weight(f, F) /\ Weight(f, F) \in {0, 1} /\ Count(frames, F) \in Nat
    BY <1>3, <1>4
  <2> QED
    BY <1>2, <2>1
<1>6. \A s \in Slots : (Top(t) \in FramesAt(s, WorkOps) <=> f \in FramesAt(s, WorkOps))
                        /\ (Top(t) \in FramesAt(s, RefOps) <=> f \in FramesAt(s, RefOps))
  BY DEF Quiet, RefOps
<1>7. Top(t) \in LeaveFrames <=> f \in LeaveFrames
  BY DEF Quiet
<1> QED
  BY <1>5, <1>6, <1>7 DEF Same, SameLeaving, Seats, SeatsNext

\* A making call that goes on as a making call does not leave.
LEMMA LeaveMaking ==
    ASSUME Shape, FramesType', NEW t \in Threads, frames[t] # <<>>, NEW f \in Frame, Replaced(t, f),
           Making(Top(t)), Making(f)
    PROVE  SameLeaving
<1>1. FramesType /\ Top(t) \in Frame
  BY TopFacts
<1>2. Count(frames', LeaveFrames) =
        Count(frames, LeaveFrames) - Weight(Top(t), LeaveFrames) + Weight(f, LeaveFrames)
  BY <1>1, CountReplaced
<1>3. Weight(Top(t), LeaveFrames) = 0 /\ Weight(f, LeaveFrames) = 0 /\ Count(frames, LeaveFrames) \in Nat
  BY <1>1, CountsAre DEF Weight, LeaveFrames
<1> QED
  BY <1>2, <1>3 DEF SameLeaving

\* The slot that is taken is now worked on.
LEMMA CountsTaken ==
    ASSUME Shape, NEW t \in Threads, NEW f, NEW r, Taken(t, f, r)
    PROVE  Shifted(WorkOps, r, 1) /\ Same(RefOps) /\ SameLeaving
<1>1. FramesType /\ FramesType' /\ f \in Frame /\ Top(t) \in Frame /\ Replaced(t, f) /\ frames[t] # <<>>
  BY TopFacts DEF Taken
<1>2. f.slot = r /\ f.op \in {"construct", "activate"} /\ Top(t).op \in {"popCas", "grow"} /\ Making(f) /\
        Making(Top(t))
  BY DEF Taken, AfterTake, Making
<1>3. ASSUME NEW s \in Slots
      PROVE  /\ SeatOf(f, s, WorkOps) = (IF s = r THEN 1 ELSE 0) /\ SeatOf(Top(t), s, WorkOps) = 0
             /\ SeatOf(f, s, RefOps) = 0 /\ SeatOf(Top(t), s, RefOps) = 0
             /\ Seats(s, WorkOps) \in Nat /\ Seats(s, RefOps) \in Nat
  BY <1>1, <1>2, CountsAre DEF SeatOf, Seat, WorkOps, RefOps
<1>4. \A s \in Slots : SeatsNext(s, WorkOps) =
        Seats(s, WorkOps) - SeatOf(Top(t), s, WorkOps) + SeatOf(f, s, WorkOps)
  BY <1>1, SeatReplaced
<1>5. \A s \in Slots : SeatsNext(s, RefOps) = Seats(s, RefOps) - SeatOf(Top(t), s, RefOps) + SeatOf(f, s, RefOps)
  BY <1>1, SeatReplaced
<1>6. Shifted(WorkOps, r, 1)
  BY <1>3, <1>4 DEF Shifted
<1>7. Same(RefOps)
  BY <1>3, <1>5 DEF Same
<1> QED
  BY <1>1, <1>2, <1>6, <1>7, LeaveMaking

\* An exception leaves a call that is not at work on a slot, or one that has just
\* put it back.
LEMMA CountsThrown ==
    ASSUME Shape, NEW t \in Threads, Thrown(t)
    PROVE  /\ SameLeaving
           /\ \A s \in Slots : SeatsNext(s, WorkOps) = Seats(s, WorkOps) - SeatOf(Top(t), s, WorkOps)
           /\ \A s \in Slots : SeatsNext(s, RefOps) = Seats(s, RefOps) - SeatOf(Top(t), s, RefOps)
<1>1. ("construct" \in WorkOps <=> "unwind" \in WorkOps) /\ ("construct" \in RefOps <=> "unwind" \in RefOps)
  BY DEF WorkOps, RefOps
<1> QED
  BY <1>1, SeatThrown, LeaveThrown DEF SameLeaving

\* Nothing at all.
LEMMA CountsStarting ==
    ASSUME FramesType, FramesType', NEW t \in Threads, NEW g \in Frame, g.slot \notin Slots \/ g.op = "sweep",
           Making(g) \/ g.op \notin LeaveOps,
           Begun(t, g) \/ (frames[t] # <<>> /\ Pushed(t, Top(t), g))
    PROVE  Same(WorkOps) /\ Same(RefOps) /\ SameLeaving
<1>1. ASSUME NEW s \in Slots
      PROVE  /\ SeatOf(g, s, WorkOps) = 0 /\ SeatOf(g, s, RefOps) = 0
             /\ Seats(s, WorkOps) \in Nat /\ Seats(s, RefOps) \in Nat
  BY CountsAre DEF SeatOf, Seat, WorkOps, RefOps
<1>2. Weight(g, LeaveFrames) = 0 /\ Count(frames, LeaveFrames) \in Nat
  BY CountsAre DEF Weight, LeaveFrames
<1>3. CASE Begun(t, g)
  <2>1. ASSUME NEW s \in Slots
        PROVE  SeatsNext(s, WorkOps) = Seats(s, WorkOps) /\ SeatsNext(s, RefOps) = Seats(s, RefOps)
    <3>1. SeatsNext(s, WorkOps) = Seats(s, WorkOps) + SeatOf(g, s, WorkOps)
      BY <1>3, SeatBegun
    <3>2. SeatsNext(s, RefOps) = Seats(s, RefOps) + SeatOf(g, s, RefOps)
      BY <1>3, SeatBegun
    <3> QED
      BY <1>1, <3>1, <3>2
  <2>2. Count(frames', LeaveFrames) = Count(frames, LeaveFrames) + Weight(g, LeaveFrames)
    BY <1>3, CountBegun
  <2> QED
    BY <1>2, <2>1, <2>2 DEF Same, SameLeaving
<1>4. CASE frames[t] # <<>> /\ Pushed(t, Top(t), g)
  <2>0. Top(t) \in Frame
    BY <1>4, FrameFacts
  <2>1. ASSUME NEW s \in Slots
        PROVE  SeatsNext(s, WorkOps) = Seats(s, WorkOps) /\ SeatsNext(s, RefOps) = Seats(s, RefOps)
    <3>1. SeatsNext(s, WorkOps) = Seats(s, WorkOps) - SeatOf(Top(t), s, WorkOps) + SeatOf(Top(t), s,
            WorkOps) + SeatOf(g, s, WorkOps)
      BY <1>4, <2>0, SeatPushed
    <3>2. SeatsNext(s, RefOps) = Seats(s, RefOps) - SeatOf(Top(t), s, RefOps) + SeatOf(Top(t), s,
            RefOps) + SeatOf(g, s, RefOps)
      BY <1>4, <2>0, SeatPushed
    <3>3. SeatOf(Top(t), s, WorkOps) \in {0, 1} /\ SeatOf(Top(t), s, RefOps) \in {0, 1}
      BY <2>0, SeatWeight
    <3> QED
      BY <1>1, <3>1, <3>2, <3>3
  <2>2. Count(frames', LeaveFrames) =
          Count(frames, LeaveFrames) - Weight(Top(t), LeaveFrames) + Weight(Top(t), LeaveFrames) + Weight(g,
            LeaveFrames)
    BY <1>4, <2>0, CountPushed
  <2>3. Weight(Top(t), LeaveFrames) \in {0, 1}
    BY DEF Weight
  <2> QED
    BY <1>2, <2>1, <2>2, <2>3 DEF Same, SameLeaving
<1> QED
  BY <1>3, <1>4

\* A release starts, under the call that was innermost and now goes on as f.
LEMMA CountsRelease ==
    ASSUME FramesType, FramesType', NEW t \in Threads, NEW f \in Frame, NEW g, NEW r \in Slots, Release(g, r),
           Begun(t, g) \/ (/\ frames[t] # <<>> /\ Pushed(t, f, g)
                           /\ \A s \in Slots : SeatOf(f, s, WorkOps) = SeatOf(Top(t), s, WorkOps)
                           /\ \A s \in Slots : SeatOf(f, s, RefOps) = SeatOf(Top(t), s, RefOps)
                           /\ f \in LeaveFrames <=> Top(t) \in LeaveFrames)
    PROVE  Same(WorkOps) /\ Shifted(RefOps, r, 1) /\ SameLeaving
<1>0. g \in Frame
  BY DEF Release
<1>1. ASSUME NEW s \in Slots
      PROVE  /\ SeatOf(g, s, WorkOps) = 0 /\ SeatOf(g, s, RefOps) = IF s = r THEN 1 ELSE 0
             /\ Seats(s, WorkOps) \in Nat /\ Seats(s, RefOps) \in Nat
  BY CountsAre DEF SeatOf, Seat, WorkOps, RefOps, Release
<1>2. Weight(g, LeaveFrames) = 0 /\ Count(frames, LeaveFrames) \in Nat
  BY CountsAre DEF Weight, LeaveFrames, Release, LeaveOps
<1>3. CASE Begun(t, g)
  <2>1. ASSUME NEW s \in Slots
        PROVE  SeatsNext(s, WorkOps) = Seats(s, WorkOps) /\
                   SeatsNext(s, RefOps) = Seats(s, RefOps) + IF s = r THEN 1 ELSE 0
    <3>1. SeatsNext(s, WorkOps) = Seats(s, WorkOps) + SeatOf(g, s, WorkOps)
      BY <1>0, <1>3, SeatBegun
    <3>2. SeatsNext(s, RefOps) = Seats(s, RefOps) + SeatOf(g, s, RefOps)
      BY <1>0, <1>3, SeatBegun
    <3> QED
      BY <1>1, <3>1, <3>2
  <2>2. Count(frames', LeaveFrames) = Count(frames, LeaveFrames) + Weight(g, LeaveFrames)
    BY <1>0, <1>3, CountBegun
  <2> QED
    BY <1>2, <2>1, <2>2 DEF Same, Shifted, SameLeaving
<1>4. CASE ~Begun(t, g)
  <2>0. Top(t) \in Frame /\ frames[t] # <<>> /\ Pushed(t, f, g)
    BY <1>4, FrameFacts
  <2>1. ASSUME NEW s \in Slots
        PROVE  SeatsNext(s, WorkOps) = Seats(s, WorkOps) /\
                   SeatsNext(s, RefOps) = Seats(s, RefOps) + IF s = r THEN 1 ELSE 0
    <3>1. SeatsNext(s, WorkOps) = Seats(s, WorkOps) - SeatOf(Top(t), s, WorkOps) + SeatOf(f, s,
            WorkOps) + SeatOf(g, s, WorkOps)
      BY <1>0, <2>0, SeatPushed
    <3>2. SeatsNext(s, RefOps) = Seats(s, RefOps) - SeatOf(Top(t), s, RefOps) + SeatOf(f, s,
            RefOps) + SeatOf(g, s, RefOps)
      BY <1>0, <2>0, SeatPushed
    <3>3. SeatOf(Top(t), s, WorkOps) \in {0, 1} /\ SeatOf(Top(t), s, RefOps) \in {0, 1}
      BY <2>0, SeatWeight
    <3>4. SeatOf(f, s, WorkOps) = SeatOf(Top(t), s, WorkOps) /\ SeatOf(f, s, RefOps) = SeatOf(Top(t), s, RefOps)
      BY <1>4
    <3> QED
      BY <1>1, <3>1, <3>2, <3>3, <3>4
  <2>2. Count(frames', LeaveFrames) =
          Count(frames, LeaveFrames) - Weight(Top(t), LeaveFrames) + Weight(f, LeaveFrames) + Weight(g, LeaveFrames)
    BY <1>0, <2>0, CountPushed
  <2>3. Weight(Top(t), LeaveFrames) \in {0, 1} /\ Weight(f, LeaveFrames) = Weight(Top(t), LeaveFrames)
    BY <1>4 DEF Weight
  <2> QED
    BY <1>2, <2>1, <2>2, <2>3 DEF Same, Shifted, SameLeaving
<1> QED
  BY <1>3, <1>4

\* A step of a call that makes nothing, in both counts.
LEMMA CountsGoes ==
    ASSUME Shape, NEW t \in Threads, NEW op, NEW next, Goes(t, op, next)
    PROVE  /\ \A s \in Slots : SeatsNext(s, WorkOps) =
               Seats(s, WorkOps) - Seat(Top(t).slot, op, s, WorkOps) + Seat(Top(t).slot, next, s, WorkOps)
           /\ \A s \in Slots : SeatsNext(s, RefOps) =
                  Seats(s, RefOps) - Seat(Top(t).slot, op, s, RefOps) + Seat(Top(t).slot, next, s, RefOps)
           /\ \A s \in Slots : Seats(s, WorkOps) \in Nat /\ Seats(s, RefOps) \in Nat
<1>1. "done" \notin WorkOps /\ "done" \notin RefOps
  BY DEF WorkOps, RefOps
<1>2. FramesType /\ FramesType'
  BY TopFacts DEF Goes
<1> QED
  BY <1>1, <1>2, SeatGoes, CountsAre

\* The innermost call, which makes an instance, goes on at the same slot.
LEMMA CountsBecomes ==
    ASSUME Shape, FramesType', NEW t \in Threads, frames[t] # <<>>, Making(Top(t)), NEW f, NEW op, NEW live,
           Becomes(t, f, op, Top(t).slot, live)
    PROVE  /\ \A s \in Slots : SeatsNext(s, WorkOps) =
               Seats(s, WorkOps) - Seat(Top(t).slot, Top(t).op, s, WorkOps) + Seat(Top(t).slot, op, s, WorkOps)
           /\ \A s \in Slots : SeatsNext(s, RefOps) =
                  Seats(s, RefOps) - Seat(Top(t).slot, Top(t).op, s, RefOps) + Seat(Top(t).slot, op, s, RefOps)
           /\ \A s \in Slots : Seats(s, WorkOps) \in Nat /\ Seats(s, RefOps) \in Nat
           /\ SameLeaving
<1>1. FramesType /\ Top(t) \in Frame /\ f \in Frame /\ Replaced(t, f) /\ f.op = op /\ f.slot = Top(t).slot /\
        Making(f)
  BY TopFacts DEF Becomes, Making
<1>2. \A s, ops : SeatOf(f, s, ops) = Seat(Top(t).slot, op, s, ops) /\
        SeatOf(Top(t), s, ops) = Seat(Top(t).slot, Top(t).op, s, ops)
  BY <1>1 DEF SeatOf
<1>3. \A s, ops : SeatsNext(s, ops) = Seats(s, ops) - SeatOf(Top(t), s, ops) + SeatOf(f, s, ops)
  BY <1>1, SeatReplaced
<1> QED
  BY <1>1, <1>2, <1>3, CountsAre, LeaveMaking

\* What each step that moves a slot or a reference adds to the counts.
LEMMA CountsActivate ==
    ASSUME Shape, NEW t \in Threads, Activate(t)
    PROVE  Shifted(WorkOps, Top(t).slot, -1) /\ Shifted(RefOps, Top(t).slot, 1) /\ SameLeaving
<1>1. /\ FramesType' /\ frames[t] # <<>> /\ Making(Top(t)) /\ Top(t).op = "activate"
      /\ \E f : Becomes(t, f, "hooks", Top(t).slot, Top(t).live)
  BY ActivateDoes
<1>2. ASSUME NEW s \in Slots
      PROVE  /\ Seat(Top(t).slot, "activate", s, WorkOps) = (IF s = Top(t).slot THEN 1 ELSE 0) /\
                 Seat(Top(t).slot, "hooks", s, WorkOps) = 0
             /\ Seat(Top(t).slot, "activate", s, RefOps) = 0 /\
                    Seat(Top(t).slot, "hooks", s, RefOps) = (IF s = Top(t).slot THEN 1 ELSE 0)
  BY DEF Seat, WorkOps, RefOps
<1>3. /\ \A s \in Slots : SeatsNext(s, WorkOps) =
             Seats(s, WorkOps) - Seat(Top(t).slot, "activate", s, WorkOps) + Seat(Top(t).slot, "hooks", s, WorkOps)
      /\ \A s \in Slots : SeatsNext(s, RefOps) =
             Seats(s, RefOps) - Seat(Top(t).slot, "activate", s, RefOps) + Seat(Top(t).slot, "hooks", s, RefOps)
      /\ \A s \in Slots : Seats(s, WorkOps) \in Nat /\ Seats(s, RefOps) \in Nat
      /\ SameLeaving
  BY <1>1, CountsBecomes
<1>4. ASSUME NEW s \in Slots
      PROVE  /\ SeatsNext(s, WorkOps) = Seats(s, WorkOps) + IF s = Top(t).slot THEN -1 ELSE 0
             /\ SeatsNext(s, RefOps) = Seats(s, RefOps) + IF s = Top(t).slot THEN 1 ELSE 0
  BY <1>2, <1>3
<1> QED
  BY <1>3, <1>4 DEF Shifted

\* A resolve that returns gives its reference to the handle.
LEMMA CountsHooksDone ==
    ASSUME Shape, NEW t \in Threads, HooksDone(t)
    PROVE  Same(WorkOps) /\ Shifted(RefOps, Top(t).slot, -1) /\ SameLeaving
<1>1. /\ FramesType /\ FramesType' /\ frames[t] # <<>> /\ Making(Top(t)) /\ Top(t).op = "hooks" /\ Popped(t)
  BY HooksDoneDoes, TopFacts
<1>2. ASSUME NEW s \in Slots
      PROVE  /\ SeatOf(Top(t), s, WorkOps) = 0 /\ SeatOf(Top(t), s, RefOps) = (IF s = Top(t).slot THEN 1 ELSE 0)
             /\ Seats(s, WorkOps) \in Nat /\ Seats(s, RefOps) \in Nat
  BY <1>1, CountsAre DEF SeatOf, Seat, WorkOps, RefOps
<1>3. \A s, ops : SeatsNext(s, ops) = Seats(s, ops) - SeatOf(Top(t), s, ops)
  BY <1>1, SeatPopped
<1>4. ASSUME NEW s \in Slots
      PROVE  /\ SeatsNext(s, WorkOps) = Seats(s, WorkOps)
             /\ SeatsNext(s, RefOps) = Seats(s, RefOps) + IF s = Top(t).slot THEN -1 ELSE 0
  BY <1>2, <1>3
<1>5. Count(frames', LeaveFrames) = Count(frames, LeaveFrames) - Weight(Top(t), LeaveFrames)
  BY <1>1, CountPopped
<1>6. Weight(Top(t), LeaveFrames) = 0 /\ Count(frames, LeaveFrames) \in Nat
  BY <1>1, CountsAre DEF Weight, LeaveFrames
<1> QED
  BY <1>4, <1>5, <1>6 DEF Same, Shifted, SameLeaving

\* A call that throws from its hooks loses the reference it stood for.
LEMMA CountsThrows ==
    ASSUME Shape, NEW t \in Threads, LimitReached(t) \/ HooksThrow(t)
    PROVE  Same(WorkOps) /\ Shifted(RefOps, Top(t).slot, -1) /\ SameLeaving
<1>1. /\ Thrown(t) /\ ((Top(t).op = "grow" /\ Top(t).slot = None) \/ (Top(t).op = "hooks" /\ Top(t).slot \in Slots))
  BY ThrowsDoes
<1>2. FramesType /\ FramesType' /\ None \notin Slots
  BY <1>1, TopFacts, StoreConstants DEF Thrown, Slots
<1>3. ASSUME NEW s \in Slots
      PROVE  /\ SeatOf(Top(t), s, WorkOps) = 0 /\ SeatOf(Top(t), s, RefOps) = (IF s = Top(t).slot THEN 1 ELSE 0)
             /\ Seats(s, WorkOps) \in Nat /\ Seats(s, RefOps) \in Nat
  BY <1>1, <1>2, CountsAre DEF SeatOf, Seat, WorkOps, RefOps
<1>4. ASSUME NEW s \in Slots
      PROVE  /\ SeatsNext(s, WorkOps) = Seats(s, WorkOps)
             /\ SeatsNext(s, RefOps) = Seats(s, RefOps) + IF s = Top(t).slot THEN -1 ELSE 0
  <2>1. SeatsNext(s, WorkOps) = Seats(s, WorkOps) - SeatOf(Top(t), s, WorkOps)
    BY <1>1, CountsThrown
  <2>2. SeatsNext(s, RefOps) = Seats(s, RefOps) - SeatOf(Top(t), s, RefOps)
    BY <1>1, CountsThrown
  <2> QED
    BY <1>3, <2>1, <2>2
<1> QED
  BY <1>1, <1>4, CountsThrown DEF Same, Shifted

\* A new resolve has no slot yet.
LEMMA CountsResolve ==
    ASSUME Shape, NEW t \in Threads, ConstructMember(t) \/ \E k \in Kinds : Resolve(t, k)
    PROVE  Same(WorkOps) /\ Same(RefOps) /\ SameLeaving
<1>0. None \notin Slots /\ FramesType
  BY StoreConstants DEF Slots, Shape, Types, FramesType
<1>01. None \notin Insts
  BY StoreConstants DEF Insts
<1>1. CASE ConstructMember(t)
  <2>1. PICK g, k : k \in Kinds \ Holder /\ Pushed(t, Top(t), g) /\ Starting(g, k, Top(t).inst + 1)
    BY <1>1, ConstructMemberDoes
  <2>2. FramesType' /\ frames[t] # <<>> /\ Top(t).inst + 1 \in Insts
    BY <1>1, ConstructMemberDoes
  <2>3. g \in Frame /\ g.slot \notin Slots /\ Making(g)
    BY <1>0, <1>01, <2>1, <2>2 DEF Starting, Making
  <2> QED
    BY <1>0, <2>1, <2>2, <2>3, CountsStarting
<1>2. CASE \E k \in Kinds : Resolve(t, k)
  <2>0. PICK k \in Kinds : Resolve(t, k)
    BY <1>2
  <2>1. PICK g : Begun(t, g) /\ Starting(g, k, insts + 1)
    BY <2>0, ResolveDoes
  <2>2. FramesType' /\ insts + 1 \in Insts
    BY <2>0, ResolveDoes
  <2>3. g \in Frame /\ g.slot \notin Slots /\ Making(g)
    BY <1>0, <1>01, <2>1, <2>2 DEF Starting, Making
  <2> QED
    BY <1>0, <2>1, <2>2, <2>3, CountsStarting
<1> QED
  BY <1>1, <1>2

\* Which of its three ways an unwinding constructor takes.
UnwindsMember(t) == Top(t).op = "unwind" /\ member[Top(t).inst] # None

\* Unwind starts the release of the member, or keeps the slot in hand.
LEMMA CountsUnwind ==
    ASSUME Shape, NEW t \in Threads, Unwind(t)
    PROVE  /\ Same(WorkOps) /\ SameLeaving
           /\ UnwindsMember(t) => Shifted(RefOps, slotOf[member[Top(t).inst]], 1)
           /\ ~UnwindsMember(t) => Same(RefOps)
<1>0. /\ FramesType /\ FramesType' /\ frames[t] # <<>> /\ Making(Top(t)) /\ Top(t).op = "unwind" /\ Top(t) \in Frame
      /\ None \notin Slots /\ None \notin Insts
  <2>1. FramesType' /\ frames[t] # <<>> /\ Making(Top(t)) /\ Top(t).op = "unwind"
    BY UnwindDoes
  <2>2. FramesType /\ Top(t) \in Frame
    BY <2>1, TopFacts
  <2> QED
    BY <2>1, <2>2, StoreConstants DEF Slots, Insts
<1>1. CASE /\ member[Top(t).inst] \in Insts /\ slotOf[member[Top(t).inst]] \in Slots
           /\ \E g : Pushed(t, Top(t), g) /\ Release(g, slotOf[member[Top(t).inst]])
  <2>1. PICK g : Pushed(t, Top(t), g) /\ Release(g, slotOf[member[Top(t).inst]])
    BY <1>1
  <2>2. UnwindsMember(t)
    BY <1>0, <1>1 DEF UnwindsMember
  <2>3. PICK r : r = slotOf[member[Top(t).inst]]
    OBVIOUS
  <2>4. r \in Slots /\ Release(g, r)
    BY <1>1, <2>1, <2>3
  <2>5. Same(WorkOps) /\ Shifted(RefOps, r, 1) /\ SameLeaving
    BY <1>0, <2>1, <2>4, CountsRelease
  <2> QED
    BY <2>2, <2>3, <2>5
<1>2. CASE member[Top(t).inst] = None /\ Top(t).slot = None /\ Thrown(t)
  <2>1. ASSUME NEW s \in Slots
        PROVE  /\ SeatOf(Top(t), s, WorkOps) = 0 /\ SeatOf(Top(t), s, RefOps) = 0
               /\ Seats(s, WorkOps) \in Nat /\ Seats(s, RefOps) \in Nat
    BY <1>0, <1>2, CountsAre DEF SeatOf, Seat, WorkOps, RefOps
  <2>2. SameLeaving /\ \A s \in Slots : /\ SeatsNext(s, WorkOps) = Seats(s, WorkOps) - SeatOf(Top(t), s, WorkOps)
                                        /\ SeatsNext(s, RefOps) = Seats(s, RefOps) - SeatOf(Top(t), s, RefOps)
    BY <1>2, CountsThrown
  <2>3. ASSUME NEW s \in Slots
        PROVE  SeatsNext(s, WorkOps) = Seats(s, WorkOps) /\ SeatsNext(s, RefOps) = Seats(s, RefOps)
    BY <2>1, <2>2
  <2> QED
    BY <1>2, <2>2, <2>3 DEF Same, UnwindsMember
<1>3. CASE member[Top(t).inst] = None /\ \E f : Becomes(t, f, "pushLoad", Top(t).slot, FALSE)
  <2>1. ASSUME NEW s \in Slots
        PROVE  /\ Seat(Top(t).slot, "unwind", s, WorkOps) = Seat(Top(t).slot, "pushLoad", s, WorkOps)
               /\ Seat(Top(t).slot, "unwind", s, RefOps) = Seat(Top(t).slot, "pushLoad", s, RefOps)
               /\ Seat(Top(t).slot, "unwind", s, WorkOps) \in {0, 1} /\
                      Seat(Top(t).slot, "unwind", s, RefOps) \in {0, 1}
    BY DEF Seat, WorkOps, RefOps
  <2>2. /\ \A s \in Slots : SeatsNext(s, WorkOps) =
               Seats(s, WorkOps) - Seat(Top(t).slot, "unwind", s, WorkOps) + Seat(Top(t).slot, "pushLoad", s,
                 WorkOps)
        /\ \A s \in Slots : SeatsNext(s, RefOps) =
               Seats(s, RefOps) - Seat(Top(t).slot, "unwind", s, RefOps) + Seat(Top(t).slot, "pushLoad", s, RefOps)
        /\ \A s \in Slots : Seats(s, WorkOps) \in Nat /\ Seats(s, RefOps) \in Nat
        /\ SameLeaving
    BY <1>0, <1>3, CountsBecomes
  <2>3. ASSUME NEW s \in Slots
        PROVE  SeatsNext(s, WorkOps) = Seats(s, WorkOps) /\ SeatsNext(s, RefOps) = Seats(s, RefOps)
    BY <2>1, <2>2
  <2> QED
    BY <1>3, <2>2, <2>3 DEF Same, UnwindsMember
<1> QED
  BY <1>1, <1>2, <1>3, UnwindDoes

\* The reference of a dropped handle passes to its release.
LEMMA CountsDrop ==
    ASSUME Shape, NEW t \in Threads, NEW i \in Insts, Drop(t, i)
    PROVE  Same(WorkOps) /\ Shifted(RefOps, slotOf[i], 1) /\ SameLeaving
<1>0. FramesType /\ FramesType' /\ slotOf[i] \in Slots
  BY DropDoes DEF Shape, Types, FramesType
<1>1. PICK g : Begun(t, g) /\ Release(g, slotOf[i])
  BY DropDoes
<1>2. g \in Frame
  BY <1>1 DEF Release
<1> QED
  BY <1>0, <1>1, <1>2, CountsRelease

\* A release gives its reference up; the last one takes the slot in hand.
LEMMA CountsAcquire ==
    ASSUME Shape, NEW t \in Threads, ReleaseAcquire(t)
    PROVE  /\ Shifted(RefOps, Top(t).slot, -1)
           /\ refcount[Top(t).slot] = 1 => /\ Shifted(WorkOps, Top(t).slot, 1)
                                           /\ Count(frames', LeaveFrames) = Count(frames, LeaveFrames) + 1
           /\ refcount[Top(t).slot] # 1 => Same(WorkOps) /\ SameLeaving
<1>0. PICK next : next = IF refcount[Top(t).slot] = 1 THEN "last" ELSE "done"
  OBVIOUS
<1>1. Goes(t, "dec", next)
  BY <1>0, ReleaseDoes
<1>2. /\ \A s \in Slots : SeatsNext(s, WorkOps) =
             Seats(s, WorkOps) - Seat(Top(t).slot, "dec", s, WorkOps) + Seat(Top(t).slot, next, s, WorkOps)
      /\ \A s \in Slots : SeatsNext(s, RefOps) =
             Seats(s, RefOps) - Seat(Top(t).slot, "dec", s, RefOps) + Seat(Top(t).slot, next, s, RefOps)
      /\ \A s \in Slots : Seats(s, WorkOps) \in Nat /\ Seats(s, RefOps) \in Nat
  BY <1>1, CountsGoes
<1>3. ASSUME NEW s \in Slots
      PROVE  /\ Seat(Top(t).slot, "dec", s, WorkOps) = 0
             /\ Seat(Top(t).slot, next, s, WorkOps) = IF s = Top(t).slot /\ next = "last" THEN 1 ELSE 0
             /\ Seat(Top(t).slot, "dec", s, RefOps) = IF s = Top(t).slot THEN 1 ELSE 0
             /\ Seat(Top(t).slot, next, s, RefOps) = 0
  BY <1>0 DEF Seat, WorkOps, RefOps
<1>4. ASSUME NEW s \in Slots
      PROVE  /\ SeatsNext(s, WorkOps) = Seats(s, WorkOps) + IF s = Top(t).slot /\ next = "last" THEN 1 ELSE 0
             /\ SeatsNext(s, RefOps) = Seats(s, RefOps) + IF s = Top(t).slot THEN -1 ELSE 0
             /\ Seats(s, WorkOps) \in Nat
  BY <1>2, <1>3
<1>5. Count(frames', LeaveFrames) = Count(frames, LeaveFrames) - Bit("dec" \in LeaveOps) + Bit(next \in LeaveOps)
  BY <1>1, LeaveGoes
<1>6. Bit("dec" \in LeaveOps) = 0 /\ Bit(next \in LeaveOps) = (IF next = "last" THEN 1 ELSE 0) /\
        Count(frames, LeaveFrames) \in Nat
  <2>1. FramesType /\ FramesType'
    BY <1>1, TopFacts DEF Goes
  <2> QED
    BY <1>0, <2>1, CountsAre DEF Bit, LeaveOps
<1>7. Count(frames', LeaveFrames) = Count(frames, LeaveFrames) + (IF next = "last" THEN 1 ELSE 0)
  BY <1>5, <1>6
<1>8. CASE refcount[Top(t).slot] = 1
  <2>1. next = "last"
    BY <1>0, <1>8
  <2> QED
    BY <1>4, <1>7, <1>8, <2>1 DEF Shifted
<1>9. CASE refcount[Top(t).slot] # 1
  <2>1. next # "last"
    BY <1>0, <1>9
  <2> QED
    BY <1>4, <1>6, <1>7, <1>9, <2>1 DEF Shifted, Same, SameLeaving
<1> QED
  BY <1>8, <1>9

\* The steps of a release that keep its slot in the same hands.
LEMMA CountsGoesSame ==
    ASSUME Shape, NEW t \in Threads, NEW op, NEW next, Goes(t, op, next),
           op \notin RefOps, next \notin RefOps, op \in WorkOps <=> next \in WorkOps
    PROVE  Same(WorkOps) /\ Same(RefOps)
<1>1. /\ \A s \in Slots : SeatsNext(s, WorkOps) =
             Seats(s, WorkOps) - Seat(Top(t).slot, op, s, WorkOps) + Seat(Top(t).slot, next, s, WorkOps)
      /\ \A s \in Slots : SeatsNext(s, RefOps) =
             Seats(s, RefOps) - Seat(Top(t).slot, op, s, RefOps) + Seat(Top(t).slot, next, s, RefOps)
      /\ \A s \in Slots : Seats(s, WorkOps) \in Nat /\ Seats(s, RefOps) \in Nat
  BY CountsGoes
<1>2. ASSUME NEW s \in Slots
      PROVE  /\ Seat(Top(t).slot, op, s, WorkOps) = Seat(Top(t).slot, next, s, WorkOps) /\
                 Seat(Top(t).slot, op, s, WorkOps) \in {0, 1}
             /\ Seat(Top(t).slot, op, s, RefOps) = 0 /\ Seat(Top(t).slot, next, s, RefOps) = 0
  BY DEF Seat
<1>3. ASSUME NEW s \in Slots
      PROVE  SeatsNext(s, WorkOps) = Seats(s, WorkOps) /\ SeatsNext(s, RefOps) = Seats(s, RefOps)
  BY <1>1, <1>2
<1> QED
  BY <1>3 DEF Same

\* The other steps of a release.
LEMMA CountsRest ==
    ASSUME Shape, NEW t \in Threads
    PROVE  /\ ReleaseLiveSlot(t) => /\ Same(WorkOps) /\ Same(RefOps)
                                    /\ Count(frames', LeaveFrames) = Count(frames, LeaveFrames) - 1
           /\ CheckLive(t) \/ DeleteIfDead(t) \/ Bump(t) \/ (Sweep(t) /\ Top(t).slot = 0) =>
                Same(WorkOps) /\ Same(RefOps) /\ SameLeaving
<1>1. ASSUME ReleaseLiveSlot(t)
      PROVE  Same(WorkOps) /\ Same(RefOps) /\ Count(frames', LeaveFrames) = Count(frames, LeaveFrames) - 1
  <2>0. PICK next : next = IF liveSlots = 1 THEN "chkLive" ELSE "done"
    OBVIOUS
  <2>1. Goes(t, "unlive", next)
    BY <1>1, <2>0, ReleaseDoes
  <2>2. "unlive" \notin RefOps /\ next \notin RefOps /\ "unlive" \notin WorkOps /\ next \notin WorkOps
    BY <2>0 DEF RefOps, WorkOps
  <2>3. Bit("unlive" \in LeaveOps) = 1 /\ Bit(next \in LeaveOps) = 0
    BY <2>0 DEF LeaveOps, Bit
  <2>4. Count(frames', LeaveFrames) =
          Count(frames, LeaveFrames) - Bit("unlive" \in LeaveOps) + Bit(next \in LeaveOps)
    BY <2>1, LeaveGoes
  <2>5. Count(frames, LeaveFrames) \in Nat
    <3>1. FramesType /\ FramesType'
      BY <2>1, TopFacts DEF Goes
    <3> QED
      BY <3>1, CountsAre
  <2>6. Same(WorkOps) /\ Same(RefOps)
    BY <2>1, <2>2, CountsGoesSame
  <2> QED
    BY <2>3, <2>4, <2>5, <2>6
<1>2. ASSUME CheckLive(t) \/ DeleteIfDead(t) \/ Bump(t) \/ (Sweep(t) /\ Top(t).slot = 0)
      PROVE  Same(WorkOps) /\ Same(RefOps) /\ SameLeaving
  <2>1. PICK op, next : /\ Goes(t, op, next)
                        /\ \/ op \in {"chkLive", "chkAlive", "sweep"} /\ next \in {"chkAlive", "done"}
                           \/ op = "bump" /\ next = "pushLoad"
    BY <1>2, ReleaseDoes, SweptDoes
  <2>2. op \notin RefOps /\ next \notin RefOps /\ (op \in WorkOps <=> next \in WorkOps)
    BY <2>1 DEF RefOps, WorkOps
  <2>3. Bit(op \in LeaveOps) = Bit(next \in LeaveOps) /\ Bit(op \in LeaveOps) \in {0, 1}
    BY <2>1 DEF LeaveOps, Bit
  <2>4. Count(frames', LeaveFrames) = Count(frames, LeaveFrames) - Bit(op \in LeaveOps) + Bit(next \in LeaveOps)
    BY <2>1, LeaveGoes
  <2>5. Count(frames, LeaveFrames) \in Nat
    <3>1. FramesType /\ FramesType'
      BY <2>1, TopFacts DEF Goes
    <3> QED
      BY <3>1, CountsAre
  <2>6. Same(WorkOps) /\ Same(RefOps)
    BY <2>1, <2>2, CountsGoesSame
  <2> QED
    BY <2>3, <2>4, <2>5, <2>6 DEF SameLeaving
<1> QED
  BY <1>1, <1>2

\* PushLink changes the call only from one part of the push to the next.
LEMMA CountsPushLink ==
    ASSUME Shape, NEW t \in Threads, PushLink(t)
    PROVE  Same(WorkOps) /\ Same(RefOps) /\ SameLeaving
<1>1. FramesType' /\ frames[t] # <<>> /\ Top(t).op = "pushLink"
  BY PushLinkDoes
<1>2. PICK f : Becomes(t, f, "pushCas", Top(t).slot, Top(t).live)
  BY PushLinkDoes
<1>3. FramesType /\ Top(t) \in Frame /\ f \in Frame /\ Replaced(t, f) /\ f.op = "pushCas" /\
        f.slot = Top(t).slot /\ f.inst = Top(t).inst
  BY <1>1, <1>2, TopFacts DEF Becomes
<1>4. \A s \in Slots : /\ f \in FramesAt(s, WorkOps) <=> Top(t) \in FramesAt(s, WorkOps)
                       /\ f \in FramesAt(s, RefOps) <=> Top(t) \in FramesAt(s, RefOps)
  BY <1>1, <1>3 DEF FramesAt, WorkOps, RefOps
<1>5. f \in LeaveFrames <=> Top(t) \in LeaveFrames
  BY <1>1, <1>3 DEF LeaveFrames, LeaveOps, Making
<1>6. \A F : Count(frames', F) = Count(frames, F) - Weight(Top(t), F) + Weight(f, F)
  BY <1>1, <1>3, CountReplaced
<1>7. \A F : (f \in F <=> Top(t) \in F) => Count(frames', F) = Count(frames, F)
  <2> TAKE F
  <2> HAVE f \in F <=> Top(t) \in F
  <2>1. Weight(Top(t), F) = Weight(f, F) /\ Weight(f, F) \in {0, 1}
    BY DEF Weight
  <2>2. frames \in Stacks
    BY <1>3 DEF FramesType, Stacks
  <2>3. Count(frames, F) \in Nat
    BY <2>2, CallsFinite
  <2> QED
    BY <1>6, <2>1, <2>3
<1> QED
  BY <1>4, <1>5, <1>7 DEF Same, SameLeaving, Seats, SeatsNext

\* The slot that is pushed back leaves the hands of its call.
LEMMA CountsPushedBack ==
    ASSUME Shape, NEW t \in Threads, PushCas(t), head = Top(t).cur
    PROVE  Shifted(WorkOps, Top(t).slot, -1) /\ Same(RefOps) /\ SameLeaving
<1>0. FramesType' /\ frames[t] # <<>> /\ Top(t).op = "pushCas" /\ Top(t).slot \in Slots
  BY PushedBackDoes
<1>00. FramesType
  BY <1>0, TopFacts
<1>1. ASSUME NEW s \in Slots
      PROVE  /\ Seat(Top(t).slot, "pushCas", s, WorkOps) = (IF s = Top(t).slot THEN 1 ELSE 0) /\
                 Seat(Top(t).slot, "pushCas", s, RefOps) = 0
             /\ Seat(Top(t).slot, "unlive", s, WorkOps) = 0 /\ Seat(Top(t).slot, "unlive", s, RefOps) = 0
             /\ Seats(s, WorkOps) \in Nat /\ Seats(s, RefOps) \in Nat
  BY <1>0, <1>00, CountsAre DEF Seat, WorkOps, RefOps
<1>2. CASE Thrown(t)
  <2>1. SameLeaving /\ \A s \in Slots : /\ SeatsNext(s, WorkOps) = Seats(s, WorkOps) - SeatOf(Top(t), s, WorkOps)
                                        /\ SeatsNext(s, RefOps) = Seats(s, RefOps) - SeatOf(Top(t), s, RefOps)
    BY <1>2, CountsThrown
  <2>2. \A s, ops : SeatOf(Top(t), s, ops) = Seat(Top(t).slot, "pushCas", s, ops)
    BY <1>0 DEF SeatOf
  <2>3. ASSUME NEW s \in Slots
        PROVE  SeatsNext(s, WorkOps) = Seats(s, WorkOps) + (IF s = Top(t).slot THEN -1 ELSE 0) /\
                   SeatsNext(s, RefOps) = Seats(s, RefOps)
    BY <1>1, <2>1, <2>2
  <2> QED
    BY <2>1, <2>3 DEF Same, Shifted
<1>3. CASE Goes(t, "pushCas", "unlive")
  <2>1. \A s \in Slots : /\ SeatsNext(s, WorkOps) = Seats(s, WorkOps) - Seat(Top(t).slot, "pushCas", s, WorkOps) + Seat(Top(t).slot, "unlive", s, WorkOps)
                         /\ SeatsNext(s, RefOps) = Seats(s, RefOps) - Seat(Top(t).slot, "pushCas", s,
                                RefOps) + Seat(Top(t).slot, "unlive", s, RefOps)
    BY <1>3, CountsGoes
  <2>3. ASSUME NEW s \in Slots
        PROVE  SeatsNext(s, WorkOps) = Seats(s, WorkOps) + (IF s = Top(t).slot THEN -1 ELSE 0) /\
                   SeatsNext(s, RefOps) = Seats(s, RefOps)
    BY <1>1, <2>1
  <2>4. Count(frames', LeaveFrames) =
          Count(frames, LeaveFrames) - Bit("pushCas" \in LeaveOps) + Bit("unlive" \in LeaveOps)
    BY <1>3, LeaveGoes
  <2>5. Bit("pushCas" \in LeaveOps) = 1 /\ Bit("unlive" \in LeaveOps) = 1 /\ Count(frames, LeaveFrames) \in Nat
    BY <1>0, <1>00, CountsAre DEF Bit, LeaveOps
  <2> QED
    BY <2>3, <2>4, <2>5 DEF Same, Shifted, SameLeaving
<1> QED
  BY <1>2, <1>3, PushedBackDoes

\* Stop and DestroyRegistry.
LEMMA CountsEnd ==
    ASSUME Shape, NEW t \in Threads, Stop(t) \/ DestroyRegistry(t)
    PROVE  Same(WorkOps) /\ Same(RefOps) /\ SameLeaving
<1>0. None \notin Slots /\ FramesType
  BY StoreConstants DEF Slots, Shape, Types, FramesType
<1>1. PICK g : /\ g \in Frame /\ Begun(t, g) /\ FramesType'
               /\ (g.op = "sweep" \/ (g.op = "chkLive" /\ g.slot = None))
  BY StopDoes, DestroyRegistryDoes
<1>2. (g.slot \notin Slots \/ g.op = "sweep") /\ g.op \notin LeaveOps
  BY <1>0, <1>1 DEF LeaveOps
<1> QED
  BY <1>0, <1>1, <1>2, CountsStarting

\* The instance whose destruction releases the handle it holds.
Frees(s) == memory[s] # None /\ member[memory[s]] # None

\* The member of a destroyed instance passes its reference to a release.
LEMMA CountsEmptied ==
    ASSUME Shape, NEW t \in Threads, NEW f, NEW s, Emptied(t, f, s)
    PROVE  /\ Same(WorkOps) /\ SameLeaving
           /\ Frees(s) => Shifted(RefOps, slotOf[member[memory[s]]], 1)
           /\ ~Frees(s) => Same(RefOps)
<1>0. /\ FramesType /\ FramesType' /\ frames[t] # <<>> /\ Top(t) \in Frame /\ f \in Frame /\ ~Making(Top(t)) /\
             ~Making(f)
  BY TopFacts DEF Emptied, Making
<1>1. \/ Top(t).op = "take" /\ Top(t).slot = s /\ f.op = "bump" /\ f.slot = s
      \/ Top(t).op = "sweep" /\ f.op = "sweep"
  BY DEF Emptied
<1>2. /\ \A r \in Slots : SeatOf(f, r, WorkOps) = SeatOf(Top(t), r, WorkOps)
      /\ \A r \in Slots : SeatOf(f, r, RefOps) = SeatOf(Top(t), r, RefOps)
      /\ f \in LeaveFrames <=> Top(t) \in LeaveFrames
  BY <1>0, <1>1 DEF SeatOf, Seat, WorkOps, RefOps, LeaveFrames, LeaveOps
<1>3. None \notin Insts
  BY StoreConstants DEF Insts
<1>4. CASE Frees(s)
  <2>1. ~(memory[s] = None) /\ ~(member[memory[s]] = None)
    BY <1>4 DEF Frees
  <2>2. slotOf[member[memory[s]]] \in Slots /\ \E g : Pushed(t, f, g) /\ Release(g, slotOf[member[memory[s]]])
    BY <2>1 DEF Emptied
  <2>3. PICK r : r = slotOf[member[memory[s]]]
    OBVIOUS
  <2>4. PICK g : Pushed(t, f, g) /\ Release(g, r)
    BY <2>2, <2>3
  <2>5. r \in Slots
    BY <2>2, <2>3
  <2>6. Same(WorkOps) /\ Shifted(RefOps, r, 1) /\ SameLeaving
    BY <1>0, <1>2, <2>4, <2>5, CountsRelease
  <2> QED
    BY <1>4, <2>3, <2>6
<1>5. CASE ~Frees(s)
  <2>1. Replaced(t, f)
    BY <1>3, <1>5 DEF Emptied, Frees
  <2>2. ASSUME NEW r \in Slots
        PROVE  SeatsNext(r, WorkOps) = Seats(r, WorkOps) /\ SeatsNext(r, RefOps) = Seats(r, RefOps)
    <3>1. /\ SeatsNext(r, WorkOps) = Seats(r, WorkOps) - SeatOf(Top(t), r, WorkOps) + SeatOf(f, r, WorkOps)
          /\ SeatsNext(r, RefOps) = Seats(r, RefOps) - SeatOf(Top(t), r, RefOps) + SeatOf(f, r, RefOps)
      BY <1>0, <2>1, SeatReplaced
    <3>2. /\ SeatOf(Top(t), r, WorkOps) \in {0, 1} /\ SeatOf(Top(t), r, RefOps) \in {0, 1}
          /\ Seats(r, WorkOps) \in Nat /\ Seats(r, RefOps) \in Nat
      BY <1>0, SeatWeight, CountsAre
    <3> QED
      BY <1>2, <3>1, <3>2
  <2>3. Count(frames', LeaveFrames) =
          Count(frames, LeaveFrames) - Weight(Top(t), LeaveFrames) + Weight(f, LeaveFrames)
    BY <1>0, <2>1, CountReplaced
  <2>4. Weight(Top(t), LeaveFrames) = Weight(f, LeaveFrames) /\ Weight(f, LeaveFrames) \in {0, 1} /\
          Count(frames, LeaveFrames) \in Nat
    BY <1>0, <1>2, CountsAre DEF Weight
  <2> QED
    BY <1>5, <2>2, <2>3, <2>4 DEF Same, SameLeaving
<1> QED
  BY <1>4, <1>5

-----------------------------------------------------------------------------
(* The handles to a slot, as sets that grow and shrink by one.             *)

HandleMaps == [Threads -> [Insts -> 0..MaxHandles]]
Places == Threads \X Insts \X (1..MaxHandles)
THof(h, so, s) == {x \in Places : so[x[2]] = s /\ x[3] <= h[x[1]][x[2]]}
MHof(m, so, s) == {i \in Insts : m[i] # None /\ so[m[i]] = s}
LHof(l, so, s) == {i \in l : so[i] = s}

\* x3 is the handle number of a triple.
LEMMA PlaceIs ==
    /\ \A x \in Places : x[1] \in Threads /\ x[2] \in Insts /\ x[3] \in 1..MaxHandles /\ x = <<x[1], x[2], x[3]>>
    /\ \A t \in Threads, i \in Insts, n \in 1..MaxHandles : <<t, i, n>> \in Places
BY DEF Places

\* There are finitely many places for a handle.
LEMMA PlacesFinite == IsFiniteSet(Places) /\ IsFiniteSet(Insts)
<1>1. 1 \in Int /\ MaxInst \in Int /\ MaxHandles \in Int
  BY StoreConstants
<1>2. IsFiniteSet(1..MaxHandles) /\ IsFiniteSet(Insts)
  BY <1>1, FS_Interval DEF Insts
<1>3. PICK P : P = Insts \X (1..MaxHandles)
  OBVIOUS
<1>4. PICK Q : Q = Threads \X P
  OBVIOUS
<1>5. IsFiniteSet(P)
  BY <1>2, <1>3, FS_Product
<1>6. IsFiniteSet(Q)
  BY <1>4, <1>5, StoreConstants, FS_Product
<1>7. PICK f : f = [x \in Q |-> <<x[1], x[2][1], x[2][2]>>]
  OBVIOUS
<1>8. \A x \in Q : f[x] \in Places
  BY <1>3, <1>4, <1>7, PlaceIs
<1>9. ASSUME NEW y \in Places PROVE \E x \in Q : f[x] = y
  <2>1. y[1] \in Threads /\ y[2] \in Insts /\ y[3] \in 1..MaxHandles /\ y = <<y[1], y[2], y[3]>>
    BY PlaceIs
  <2>2. PICK p : p = <<y[2], y[3]>>
    OBVIOUS
  <2>3. p \in P /\ p[1] = y[2] /\ p[2] = y[3]
    BY <1>3, <2>1, <2>2
  <2>4. PICK x : x = <<y[1], p>>
    OBVIOUS
  <2>5. x \in Q /\ x[1] = y[1] /\ x[2] = p
    BY <1>4, <2>1, <2>3, <2>4
  <2>6. f[x] = <<x[1], x[2][1], x[2][2]>>
    BY <1>7, <2>5
  <2> QED
    BY <2>1, <2>3, <2>5, <2>6
<1>10. f \in Surjection(Q, Places)
  BY <1>7, <1>8, <1>9 DEF Surjection
<1> QED
  BY <1>2, <1>6, <1>10, FS_Surjection

\* So every count of handles is a number.
LEMMA HandleSetsFinite ==
    ASSUME NEW h, NEW m, NEW l, l \subseteq Insts, NEW so, NEW s
    PROVE  /\ IsFiniteSet(THof(h, so, s)) /\ Cardinality(THof(h, so, s)) \in Nat
           /\ IsFiniteSet(MHof(m, so, s)) /\ Cardinality(MHof(m, so, s)) \in Nat
           /\ IsFiniteSet(LHof(l, so, s)) /\ Cardinality(LHof(l, so, s)) \in Nat
<1>1. THof(h, so, s) \in SUBSET Places /\ MHof(m, so, s) \in SUBSET Insts /\ LHof(l, so, s) \in SUBSET Insts
  BY DEF THof, MHof, LHof
<1>2. IsFiniteSet(THof(h, so, s))
  BY <1>1, PlacesFinite, FS_Subset
<1>3. IsFiniteSet(MHof(m, so, s))
  BY <1>1, PlacesFinite, FS_Subset
<1>4. IsFiniteSet(LHof(l, so, s))
  BY <1>1, PlacesFinite, FS_Subset
<1> QED
  BY <1>2, <1>3, <1>4, FS_CardinalityType

\* One handle more in a thread.
LEMMA HandleMore ==
    ASSUME NEW h \in HandleMaps, NEW k \in HandleMaps, NEW so, NEW t \in Threads, NEW i \in Insts,
           k[t][i] = h[t][i] + 1,
           \A u \in Threads : \A j \in Insts : ~(u = t /\ j = i) => k[u][j] = h[u][j],
           NEW s
    PROVE  Cardinality(THof(k, so, s)) = Cardinality(THof(h, so, s)) + IF so[i] = s THEN 1 ELSE 0
<1>1. h[t][i] \in 0..MaxHandles /\ k[t][i] \in 0..MaxHandles /\ MaxHandles \in Nat
  BY StoreConstants DEF HandleMaps
<1>2. PICK n : n \in 1..MaxHandles /\ n = k[t][i]
  BY <1>1
<1>3. \A x \in Places : ~(x[1] = t /\ x[2] = i) => (x[3] <= k[x[1]][x[2]] <=> x[3] <= h[x[1]][x[2]])
  BY PlaceIs
<1>4. \A x \in Places : x[1] = t /\ x[2] = i => (x[3] <= k[x[1]][x[2]] <=> (x[3] <= h[x[1]][x[2]] \/ x[3] = n))
  <2> TAKE x \in Places
  <2>1. x[3] \in 1..MaxHandles
    BY PlaceIs
  <2>2. PICK a : a \in Int /\ a = h[t][i]
    BY <1>1
  <2>3. n \in Int /\ n = a + 1 /\ k[t][i] = n /\ x[3] \in Int
    BY <1>1, <1>2, <2>1, <2>2
  <2>4. x[3] <= n <=> (x[3] <= a \/ x[3] = n)
    BY <2>2, <2>3
  <2> QED
    BY <2>2, <2>3, <2>4
<1>5. PICK p : p = <<t, i, n>>
  OBVIOUS
<1>6. p \in Places /\ p[1] = t /\ p[2] = i /\ p[3] = n
  BY <1>2, <1>5, PlaceIs
<1>7. \A x \in Places : x[1] = t /\ x[2] = i /\ x[3] = n <=> x = p
  BY <1>5, <1>6, PlaceIs
<1>8. ~(n <= h[t][i])
  BY <1>1, <1>2
<1>9. CASE so[i] = s
  <2>1. THof(k, so, s) = THof(h, so, s) \union {p}
    BY <1>3, <1>4, <1>6, <1>7, <1>9 DEF THof
  <2>2. p \notin THof(h, so, s)
    BY <1>6, <1>8 DEF THof
  <2>3. IsFiniteSet(THof(h, so, s))
    <3>1. {} \subseteq Insts
      OBVIOUS
    <3> QED
      BY <3>1, HandleSetsFinite
  <2> QED
    BY <1>9, <2>1, <2>2, <2>3, CardMore
<1>10. CASE so[i] # s
  <2>1. THof(k, so, s) = THof(h, so, s)
    BY <1>3, <1>10 DEF THof
  <2>2. Cardinality(THof(h, so, s)) \in Nat
    <3>1. {} \subseteq Insts
      OBVIOUS
    <3> QED
      BY <3>1, HandleSetsFinite
  <2> QED
    BY <1>10, <2>1, <2>2
<1> QED
  BY <1>9, <1>10

\* One member more.
Joined(m, k, i) == m[i] = None /\ k[i] # None /\ \A j \in Insts : j # i => k[j] = m[j]

\* It is counted once, at its slot.
LEMMA MemberMore ==
    ASSUME NEW m, NEW k, NEW so, NEW i \in Insts, Joined(m, k, i), NEW s
    PROVE  Cardinality(MHof(k, so, s)) = Cardinality(MHof(m, so, s)) + IF so[k[i]] = s THEN 1 ELSE 0
<1>0. {} \subseteq Insts
  OBVIOUS
<1>1. IsFiniteSet(MHof(m, so, s)) /\ Cardinality(MHof(m, so, s)) \in Nat
  BY <1>0, HandleSetsFinite
<1>2. i \notin MHof(m, so, s)
  BY DEF MHof, Joined
<1>3. CASE so[k[i]] = s
  <2>1. MHof(k, so, s) = MHof(m, so, s) \union {i}
    BY <1>3 DEF MHof, Joined
  <2> QED
    BY <1>1, <1>2, <1>3, <2>1, CardMore
<1>4. CASE so[k[i]] # s
  <2>1. MHof(k, so, s) = MHof(m, so, s)
    BY <1>4 DEF MHof, Joined
  <2> QED
    BY <1>1, <1>4, <2>1
<1> QED
  BY <1>3, <1>4

\* One lost instance more.
LEMMA LostMore ==
    ASSUME NEW l, l \subseteq Insts, NEW k, NEW i \in Insts, i \notin l, k = l \union {i}, NEW so, NEW s
    PROVE  Cardinality(LHof(k, so, s)) = Cardinality(LHof(l, so, s)) + IF so[i] = s THEN 1 ELSE 0
<1>1. IsFiniteSet(LHof(l, so, s)) /\ Cardinality(LHof(l, so, s)) \in Nat
  BY HandleSetsFinite
<1>2. i \notin LHof(l, so, s)
  BY DEF LHof
<1>3. CASE so[i] = s
  <2>1. LHof(k, so, s) = LHof(l, so, s) \union {i}
    BY <1>3 DEF LHof
  <2> QED
    BY <1>1, <1>2, <1>3, <2>1, CardMore
<1>4. CASE so[i] # s
  <2>1. LHof(k, so, s) = LHof(l, so, s)
    BY <1>4 DEF LHof
  <2> QED
    BY <1>1, <1>4, <2>1
<1> QED
  BY <1>3, <1>4

\* Giving a slot to an instance that nobody has a handle to.
LEMMA SlotGiven ==
    ASSUME NEW h \in HandleMaps, NEW m, NEW l, l \subseteq Insts, NEW so, NEW sp, NEW i \in Insts,
           \A j \in Insts : j # i => sp[j] = so[j],
           \A t \in Threads : h[t][i] = 0, \A j \in Insts : m[j] # i /\ (m[j] # None => m[j] \in Insts),
             i \notin l, NEW s
    PROVE  THof(h, sp, s) = THof(h, so, s) /\ MHof(m, sp, s) = MHof(m, so, s) /\ LHof(l, sp, s) = LHof(l, so, s)
<1>1. \A x \in Places : x[2] = i => ~(x[3] <= h[x[1]][x[2]])
  <2> TAKE x \in Places
  <2> HAVE x[2] = i
  <2>1. x[1] \in Threads /\ x[3] \in 1..MaxHandles
    BY PlaceIs
  <2>2. h[x[1]][x[2]] = 0
    BY <2>1
  <2> QED
    BY <2>1, <2>2
<1>2. THof(h, sp, s) = THof(h, so, s)
  BY <1>1, PlaceIs DEF THof
<1>3. MHof(m, sp, s) = MHof(m, so, s)
  BY DEF MHof
<1>4. LHof(l, sp, s) = LHof(l, so, s)
  BY DEF LHof
<1> QED
  BY <1>2, <1>3, <1>4

\* RefcountIsHandles, counted.
RefsOf(h, m, l, so, n, s) ==
    Cardinality(THof(h, so, s)) + Cardinality(MHof(m, so, s)) + n + Cardinality(LHof(l, so, s))

\* And that is what RefcountIsHandles says, before and after a step.
LEMMA RefcountIs ==
    ASSUME FramesType, FramesType'
    PROVE  /\ RefcountIsHandles <=> \A s \in Slots : refcount[s] =
               RefsOf(handles, member, lost, slotOf, Seats(s, RefOps), s)
           /\ RefcountIsHandles' <=> \A s \in Slots : refcount'[s] =
                  RefsOf(handles', member', lost', slotOf', SeatsNext(s, RefOps), s)
<1>1. \A s : /\ ThreadHandles(s) = THof(handles, slotOf, s) /\ ThreadHandles(s)' = THof(handles', slotOf', s)
             /\ MemberHandles(s) = MHof(member, slotOf, s) /\ MemberHandles(s)' = MHof(member', slotOf', s)
  BY DEF ThreadHandles, MemberHandles, THof, MHof, Places
<1>2. \A s : /\ Cardinality(CallHandles(s)) = Seats(s, RefOps) /\ Cardinality(CallHandles(s)') = SeatsNext(s, RefOps)
  BY CountsAre
<1>3. RefcountIsHandles <=> \A s \in Slots : refcount[s] =
        RefsOf(handles, member, lost, slotOf, Seats(s, RefOps), s)
  BY <1>1, <1>2 DEF RefcountIsHandles, RefsOf, LHof
<1>4. RefcountIsHandles' <=> \A s \in Slots : refcount'[s] =
        RefsOf(handles', member', lost', slotOf', SeatsNext(s, RefOps), s)
  BY <1>1, <1>2 DEF RefcountIsHandles, RefsOf, LHof
<1> QED
  BY <1>3, <1>4

-----------------------------------------------------------------------------
(* The inductive invariant: with one allocating thread.                    *)

\* Only one thread resolves prototypes at any time.
OneAllocator == \A t, u \in Allocators : t = u

IInv == Shape /\ Ids /\ Partition /\ Pushing /\ RefcountIsHandles /\ LiveCount /\ End

\* The terms of RefcountIsHandles are numbers.
LEMMA RefTerms ==
    ASSUME Shape
    PROVE  \A s : /\ Cardinality(THof(handles, slotOf, s)) \in Nat /\ Cardinality(MHof(member, slotOf, s)) \in Nat
                  /\ Cardinality(LHof(lost, slotOf, s)) \in Nat /\ \A ops : Seats(s, ops) \in Nat
<1>1. lost \subseteq Insts /\ frames \in Stacks
  BY DEF Shape, Types, Stacks
<1> QED
  BY <1>1, HandleSetsFinite, CallsFinite DEF Seats

\* A call at one of ops with slot s is counted.
LEMMA SeatCounted ==
    ASSUME Shape, NEW t \in Threads, NEW j \in 1..Len(frames[t]), NEW ops, frames[t][j].op \in ops,
           NEW s, s = frames[t][j].slot
    PROVE  /\ Seats(s, ops) >= 1 /\ Seats(s, ops) \in Nat
           /\ \A u \in Threads : \A k \in 1..Len(frames[u]) :
                frames[u][k].slot = s /\ frames[u][k].op \in ops /\ ~(u = t /\ k = j) => Seats(s, ops) >= 2
<1>1. FramesType
  BY DEF Shape, Types, FramesType
<1>2. \A u \in Threads : \A k \in 1..Len(frames[u]) : frames[u][k] \in Frame
  BY <1>1, FrameFacts
<1>3. frames[t][j] \in FramesAt(s, ops)
  BY <1>2 DEF FramesAt
<1>4. \A u \in Threads : \A k \in 1..Len(frames[u]) :
        frames[u][k].slot = s /\ frames[u][k].op \in ops => frames[u][k] \in FramesAt(s, ops)
  BY <1>2 DEF FramesAt
<1>5. Seats(s, ops) \in Nat
  BY RefTerms
<1> QED
  BY <1>1, <1>3, <1>4, <1>5, CountAtLeast DEF Seats

\* So a count is positive while somebody has a handle.
LEMMA RefsPositive ==
    ASSUME Shape, RefcountIsHandles, NEW s \in Slots
    PROVE  /\ refcount[s] \in Nat
           /\ refcount[s] = RefsOf(handles, member, lost, slotOf, Seats(s, RefOps), s)
           /\ refcount[s] >= Seats(s, RefOps)
           /\ \A t \in Threads, i \in Insts : handles[t][i] > 0 /\ slotOf[i] = s => refcount[s] >= 1
           /\ \A i \in Insts : member[i] # None /\ slotOf[member[i]] = s => refcount[s] >= 1
<1>1. /\ ThreadHandles(s) = THof(handles, slotOf, s) /\ MemberHandles(s) = MHof(member, slotOf, s)
      /\ Cardinality(CallHandles(s)) = Seats(s, RefOps)
  <2>1. FramesType
    BY DEF Shape, Types, FramesType
  <2>2. CallHandles(s) = CallsIn(frames, FramesAt(s, RefOps))
    BY <2>1, CountsOfModel DEF CallHandles, RefOps
  <2> QED
    BY <2>2 DEF ThreadHandles, MemberHandles, THof, MHof, Places, Seats, Count
<1>2. refcount[s] = RefsOf(handles, member, lost, slotOf, Seats(s, RefOps), s)
  BY <1>1 DEF RefcountIsHandles, RefsOf, LHof
<1>3. /\ Cardinality(THof(handles, slotOf, s)) \in Nat /\ Cardinality(MHof(member, slotOf, s)) \in Nat
      /\ Cardinality(LHof(lost, slotOf, s)) \in Nat /\ Seats(s, RefOps) \in Nat
  BY RefTerms
<1>4. refcount[s] \in Nat /\ refcount[s] >= Seats(s, RefOps)
      /\ refcount[s] >= Cardinality(THof(handles, slotOf, s)) /\ refcount[s] >= Cardinality(MHof(member, slotOf, s))
  BY <1>2, <1>3 DEF RefsOf
<1>5. lost \subseteq Insts
  BY DEF Shape, Types
<1>6. IsFiniteSet(THof(handles, slotOf, s)) /\ IsFiniteSet(MHof(member, slotOf, s))
  BY <1>5, HandleSetsFinite
<1>7. /\ THof(handles, slotOf, s) # {} => Cardinality(THof(handles, slotOf, s)) # 0
      /\ MHof(member, slotOf, s) # {} => Cardinality(MHof(member, slotOf, s)) # 0
  BY <1>6, FS_EmptySet
<1>8. ASSUME NEW t \in Threads, NEW i \in Insts, handles[t][i] > 0, slotOf[i] = s PROVE refcount[s] >= 1
  <2>1. handles[t][i] \in 0..MaxHandles /\ MaxHandles \in Nat
    BY StoreConstants DEF Shape, Types
  <2>2. 1 \in 1..MaxHandles /\ 1 <= handles[t][i]
    BY <1>8, <2>1
  <2>3. <<t, i, 1>> \in THof(handles, slotOf, s)
    BY <1>8, <2>2, PlaceIs DEF THof
  <2> QED
    BY <1>3, <1>4, <1>7, <2>3
<1>9. ASSUME NEW i \in Insts, member[i] # None, slotOf[member[i]] = s PROVE refcount[s] >= 1
  <2>1. i \in MHof(member, slotOf, s)
    BY <1>9 DEF MHof
  <2> QED
    BY <1>3, <1>4, <1>7, <2>1
<1> QED
  BY <1>2, <1>4, <1>8, <1>9

\* Whoever works on a slot finds its count at zero.
LEMMA WorkedIsFree ==
    ASSUME Shape, Partition, RefcountIsHandles, NEW t \in Threads, NEW j \in 1..Len(frames[t]),
           frames[t][j].op \in WorkOps, NEW s \in Slots, s = frames[t][j].slot
    PROVE  /\ refcount[s] = 0 /\ Seats(s, WorkOps) = 1 /\ s < slotCount
           /\ \A u \in Threads : \A k \in 1..Len(frames[u]) :
                frames[u][k].slot = s /\ frames[u][k].op \in WorkOps => u = t /\ k = j
<1>1. PICK n \in Nat, list \in [Nat -> Slots \union {None}] : Placed(n, list)
  BY DEF Partition
<1>2. Cardinality(Working(s)) = Seats(s, WorkOps)
  <2>1. FramesType
    BY DEF Shape, Types, FramesType
  <2>2. Working(s) = CallsIn(frames, FramesAt(s, WorkOps))
    BY <2>1, CountsOfModel DEF Working, WorkOps
  <2> QED
    BY <2>2 DEF Seats, Count
<1>3. Seats(s, WorkOps) >= 1 /\ Seats(s, WorkOps) \in Nat
  BY SeatCounted
<1>4. Bit(On(n, list, s)) + Seats(s, WorkOps) + Bit(refcount[s] > 0) = Bit(s < slotCount)
  BY <1>1, <1>2 DEF Placed
<1>5. Bit(On(n, list, s)) \in {0, 1} /\ Bit(refcount[s] > 0) \in {0, 1} /\ Bit(s < slotCount) \in {0, 1}
  BY DEF Bit
<1>6. Seats(s, WorkOps) = 1 /\ Bit(refcount[s] > 0) = 0 /\ Bit(s < slotCount) = 1
  BY <1>3, <1>4, <1>5
<1>7. refcount[s] \in Nat
  BY RefsPositive
<1>8. refcount[s] = 0 /\ s < slotCount
  BY <1>6, <1>7 DEF Bit
<1> QED
  BY <1>6, <1>8, SeatCounted

\* Nothing that RefcountIsHandles speaks of changes.
LEMMA RefsSame ==
    ASSUME Shape, FramesType', RefcountIsHandles, Same(RefOps), UNCHANGED <<refcount, handles, member, lost,
           slotOf>>
    PROVE  RefcountIsHandles'
<1>1. FramesType
  BY DEF Shape, Types, FramesType
<1> QED
  BY <1>1, RefcountIs DEF Same

\* Taking a slot changes no count: nobody holds the instance yet.
LEMMA RefsTaken ==
    ASSUME IInv, NEW t \in Threads, NEW f, NEW r, Taken(t, f, r)
    PROVE  RefcountIsHandles'
<1>1. FramesType /\ FramesType' /\ Shape /\ Top(t).inst \in Insts /\ Len(frames[t]) \in 1..Len(frames[t]) /\
        Top(t) = frames[t][Len(frames[t])]
      /\ Making(Top(t))
  BY TopFacts DEF Taken, IInv, Making, Frame
<1>2. Unheld(Top(t).inst)
  BY <1>1 DEF IInv, Ids, IdsOf
<1>3. /\ refcount' = refcount /\ handles' = handles /\ member' = member /\ lost' = lost
      /\ slotOf' = [slotOf EXCEPT ![Top(t).inst] = r]
  BY DEF Taken
<1>4. /\ handles \in HandleMaps /\ lost \subseteq Insts /\ member \in [Insts -> Insts \union {None}]
      /\ slotOf \in [Insts -> Slots \union {None}]
  BY <1>1 DEF Shape, Types, HandleMaps
<1>5. \A j \in Insts : j # Top(t).inst => slotOf'[j] = slotOf[j]
  BY <1>3, <1>4
<1>6. \A s : /\ THof(handles, slotOf', s) = THof(handles, slotOf, s) /\ MHof(member, slotOf', s) = MHof(member, slotOf, s)
             /\ LHof(lost, slotOf', s) = LHof(lost, slotOf, s)
  <2>1. PICK i \in Insts : i = Top(t).inst
    BY <1>1
  <2>2. (\A u \in Threads : handles[u][i] = 0) /\
          (\A j \in Insts : member[j] # i /\ (member[j] # None => member[j] \in Insts)) /\ i \notin lost
    BY <1>2, <1>4, <2>1 DEF Unheld
  <2>3. PICK sp : sp = slotOf'
    OBVIOUS
  <2>4. \A j \in Insts : j # i => sp[j] = slotOf[j]
    BY <1>5, <2>1, <2>3
  <2>5. \A s : /\ THof(handles, sp, s) = THof(handles, slotOf, s) /\ MHof(member, sp, s) = MHof(member, slotOf, s)
               /\ LHof(lost, sp, s) = LHof(lost, slotOf, s)
    <3>1. PICK h, m, l, so : h = handles /\ m = member /\ l = lost /\ so = slotOf
      OBVIOUS
    <3>2. /\ h \in HandleMaps /\ l \subseteq Insts /\ \A j \in Insts : j # i => sp[j] = so[j]
          /\ \A u \in Threads : h[u][i] = 0
          /\ \A j \in Insts : m[j] # i /\ (m[j] # None => m[j] \in Insts)
          /\ i \notin l
      BY <1>4, <2>2, <2>4, <3>1
    <3>3. ASSUME NEW s
          PROVE  THof(h, sp, s) = THof(h, so, s) /\ MHof(m, sp, s) = MHof(m, so, s) /\
                     LHof(l, sp, s) = LHof(l, so, s)
      BY <3>2, SlotGiven
    <3> QED
      BY <3>1, <3>3
  <2> QED
    BY <2>3, <2>5
<1>7. Same(RefOps)
  BY <1>1, CountsTaken
<1> QED
  BY <1>1, <1>3, <1>6, <1>7, RefcountIs DEF IInv, RefsOf, Same

\* An exception after activation leaves one reference with a lost instance.
LEMMA RefsThrows ==
    ASSUME IInv, NEW t \in Threads, LimitReached(t) \/ HooksThrow(t)
    PROVE  RefcountIsHandles'
<1>1. Shape /\ Thrown(t) /\ Top(t).inst \in Insts /\ UNCHANGED <<refcount, handles, member, slotOf>>
  BY ThrowsDoes DEF IInv
<1>2. /\ FramesType /\ FramesType' /\ Len(frames[t]) \in 1..Len(frames[t]) /\
             Top(t) = frames[t][Len(frames[t])] /\ Making(Top(t))
      /\ lost \subseteq Insts
  BY <1>1, TopFacts DEF Thrown, Shape, Types
<1>3. IdsOf(t, Len(frames[t]))
  BY <1>2 DEF IInv, Ids
<1>4. Top(t).inst \notin lost /\ (Top(t).slot = None => slotOf[Top(t).inst] = None) /\
        (Top(t).slot # None => slotOf[Top(t).inst] = Top(t).slot)
  BY <1>2, <1>3 DEF IdsOf, Unheld, Untouched
<1>5. Shifted(RefOps, Top(t).slot, -1)
  BY <1>1, CountsThrows
<1>6. None \notin Slots
  BY StoreConstants DEF Slots
<1>7. ASSUME NEW s \in Slots PROVE refcount'[s] = RefsOf(handles', member', lost', slotOf', SeatsNext(s, RefOps), s)
  <2>1. refcount[s] = RefsOf(handles, member, lost, slotOf, Seats(s, RefOps), s)
    BY <1>1, RefsPositive DEF IInv
  <2>2. SeatsNext(s, RefOps) = Seats(s, RefOps) + IF s = Top(t).slot THEN -1 ELSE 0
    BY <1>5 DEF Shifted
  <2>3. lost' = lost \union {Top(t).inst} =>
          Cardinality(LHof(lost', slotOf, s)) =
            Cardinality(LHof(lost, slotOf, s)) + IF slotOf[Top(t).inst] = s THEN 1 ELSE 0
    BY <1>1, <1>2, <1>4, LostMore
  <2>4. /\ Cardinality(THof(handles, slotOf, s)) \in Nat /\ Cardinality(MHof(member, slotOf, s)) \in Nat
        /\ Cardinality(LHof(lost, slotOf, s)) \in Nat /\ Seats(s, RefOps) \in Nat
    BY <1>1, RefTerms
  <2>5. Cardinality(LHof(lost', slotOf, s)) + SeatsNext(s, RefOps) =
          Cardinality(LHof(lost, slotOf, s)) + Seats(s, RefOps)
    <3>1. CASE Top(t).slot = None
      <4>1. SeatsNext(s, RefOps) = Seats(s, RefOps)
        BY <1>6, <2>2, <2>4, <3>1
      <4>2. Cardinality(LHof(lost', slotOf, s)) = Cardinality(LHof(lost, slotOf, s))
        <5>1. CASE lost' = lost
          BY <5>1
        <5>2. CASE lost' = lost \union {Top(t).inst}
          BY <1>4, <1>6, <2>3, <2>4, <3>1, <5>2
        <5> QED
          BY <1>6, <3>1, <5>1, <5>2, <1>1, ThrowsDoes
      <4> QED
        BY <4>1, <4>2
    <3>2. CASE Top(t).slot # None
      <4>1. lost' = lost \union {Top(t).inst} /\ slotOf[Top(t).inst] = Top(t).slot
        BY <1>1, <1>4, <3>2, ThrowsDoes
      <4> QED
        BY <2>2, <2>3, <2>4, <4>1
    <3> QED
      BY <3>1, <3>2
  <2>6. Cardinality(LHof(lost', slotOf, s)) \in Nat /\ SeatsNext(s, RefOps) \in Int
    <3>1. lost' \subseteq Insts
      BY <1>1, <1>2, ThrowsDoes
    <3> QED
      BY <2>2, <2>4, <3>1, HandleSetsFinite
  <2> QED
    BY <1>1, <2>1, <2>4, <2>5, <2>6 DEF RefsOf
<1> QED
  BY <1>2, <1>7, RefcountIs

\* What a step adds to the handles to s it adds to the count.
Moved(s, a, b, c) ==
    /\ a \in Int /\ b \in Int /\ c \in Int
    /\ Cardinality(THof(handles', slotOf', s)) = Cardinality(THof(handles, slotOf, s)) + a
    /\ Cardinality(MHof(member', slotOf', s)) = Cardinality(MHof(member, slotOf, s)) + b
    /\ SeatsNext(s, RefOps) = Seats(s, RefOps) + c
    /\ refcount'[s] = refcount[s] + a + b + c

\* Then the counts still agree.
LEMMA RefsMoved ==
    ASSUME Shape, FramesType', RefcountIsHandles, UNCHANGED <<lost, slotOf>>,
           \A s \in Slots : \E a, b, c : Moved(s, a, b, c)
    PROVE  RefcountIsHandles'
<1>1. FramesType
  BY DEF Shape, Types, FramesType
<1>2. ASSUME NEW s \in Slots PROVE refcount'[s] = RefsOf(handles', member', lost', slotOf', SeatsNext(s, RefOps), s)
  <2>1. PICK a, b, c : Moved(s, a, b, c)
    OBVIOUS
  <2>2. refcount[s] = RefsOf(handles, member, lost, slotOf, Seats(s, RefOps), s)
    BY RefsPositive
  <2>3. /\ Cardinality(THof(handles, slotOf, s)) \in Nat /\ Cardinality(MHof(member, slotOf, s)) \in Nat
        /\ Cardinality(LHof(lost, slotOf, s)) \in Nat /\ Seats(s, RefOps) \in Nat
    BY RefTerms
  <2>4. LHof(lost', slotOf', s) = LHof(lost, slotOf, s)
    OBVIOUS
  <2> QED
    BY <2>1, <2>2, <2>3, <2>4 DEF RefsOf, Moved
<1> QED
  BY <1>1, <1>2, RefcountIs

\* Its parts.
LEMMA MovedIs ==
    ASSUME NEW s, NEW a \in Int, NEW b \in Int, NEW c \in Int,
           Cardinality(THof(handles', slotOf', s)) = Cardinality(THof(handles, slotOf, s)) + a,
           Cardinality(MHof(member', slotOf', s)) = Cardinality(MHof(member, slotOf, s)) + b,
           SeatsNext(s, RefOps) = Seats(s, RefOps) + c,
           refcount'[s] = refcount[s] + a + b + c
    PROVE  Moved(s, a, b, c)
BY DEF Moved

\* Activate: the count of a free slot becomes one, for the call itself.
LEMMA RefsActivate ==
    ASSUME IInv, NEW t \in Threads, Activate(t)
    PROVE  RefcountIsHandles'
<1>1. /\ Shape /\ FramesType' /\ frames[t] # <<>> /\ Top(t).slot \in Slots /\ Top(t).op = "activate"
      /\ refcount' = [refcount EXCEPT ![Top(t).slot] = 1] /\ UNCHANGED <<handles, member, lost, slotOf>>
  BY ActivateDoes DEF IInv, Activate, objects
<1>2. /\ Len(frames[t]) \in 1..Len(frames[t]) /\ Top(t) = frames[t][Len(frames[t])] /\ refcount \in [Slots -> Int]
  BY <1>1, TopFacts DEF Shape, Types
<1>3. refcount[Top(t).slot] = 0
  <2>1. frames[t][Len(frames[t])].op \in WorkOps
    BY <1>1, <1>2 DEF WorkOps
  <2> QED
    BY <1>1, <1>2, <2>1, WorkedIsFree DEF IInv
<1>4. Shifted(RefOps, Top(t).slot, 1)
  BY <1>1, CountsActivate
<1>5. ASSUME NEW s \in Slots PROVE Moved(s, 0, 0, IF s = Top(t).slot THEN 1 ELSE 0)
  <2>1. refcount'[s] = refcount[s] + 0 + 0 + (IF s = Top(t).slot THEN 1 ELSE 0)
    BY <1>1, <1>2, <1>3
  <2>2. /\ Cardinality(THof(handles, slotOf, s)) \in Nat /\ Cardinality(MHof(member, slotOf, s)) \in Nat
    BY <1>1, RefTerms
  <2> QED
    BY <1>1, <1>4, <2>1, <2>2 DEF Moved, Shifted
<1> QED
  BY <1>1, <1>5, RefsMoved DEF IInv

\* HooksDone: from the call to a thread, or to the bean that holds it.
LEMMA RefsHooksDone ==
    ASSUME IInv, NEW t \in Threads, HooksDone(t)
    PROVE  RefcountIsHandles'
<1>1. /\ Shape /\ FramesType' /\ frames[t] # <<>> /\ Top(t).slot \in Slots /\ Top(t).op = "hooks" /\
             Top(t).inst \in Insts
      /\ Making(Top(t)) /\ UNCHANGED <<refcount, lost, slotOf>>
  BY HooksDoneDoes DEF IInv, HooksDone, counts
<1>2. /\ Len(frames[t]) \in 1..Len(frames[t]) /\ Top(t) = frames[t][Len(frames[t])] /\ refcount \in [Slots -> Int]
      /\ handles \in HandleMaps /\ member \in [Insts -> Insts \union {None}] /\ FramesType
  BY <1>1, TopFacts DEF Shape, Types, HandleMaps
<1>20. None \notin Slots /\ None \notin Insts /\ 0 \in 0..MaxHandles /\ 1 \in 0..MaxHandles
  BY StoreConstants DEF Slots, Insts
<1>3. Unheld(Top(t).inst) /\ slotOf[Top(t).inst] = Top(t).slot
  BY <1>1, <1>2, <1>20 DEF IInv, Ids, IdsOf
<1>4. Shifted(RefOps, Top(t).slot, -1)
  BY <1>1, CountsHooksDone
<1>5. CASE Len(frames[t]) = 1 /\ member' = member /\ handles' = [handles EXCEPT ![t][Top(t).inst] = 1]
  <2>0. PICK i \in Insts : i = Top(t).inst
    BY <1>1
  <2>1. handles' = [handles EXCEPT ![t] = [handles[t] EXCEPT ![i] = 1]] /\ handles[t] \in [Insts -> 0..MaxHandles]
    BY <1>2, <1>5, <2>0 DEF HandleMaps
  <2>2. handles[t][i] = 0
    BY <1>3, <2>0 DEF Unheld
  <2>3. handles'[t] = [handles[t] EXCEPT ![i] = 1] /\ \A u \in Threads : u # t => handles'[u] = handles[u]
    BY <1>2, <2>1 DEF HandleMaps
  <2>4. handles' \in HandleMaps
    BY <1>2, <1>20, <2>1 DEF HandleMaps
  <2>5. handles'[t][i] = handles[t][i] + 1 /\ \A u \in Threads : \A j \in Insts : ~(u = t /\ j = i) =>
          handles'[u][j] = handles[u][j]
    BY <2>1, <2>2, <2>3
  <2>6. \A s : Cardinality(THof(handles', slotOf, s)) =
          Cardinality(THof(handles, slotOf, s)) + IF slotOf[i] = s THEN 1 ELSE 0
    BY <1>2, <2>4, <2>5, HandleMore
  <2>7. ASSUME NEW s \in Slots
        PROVE  Moved(s, IF s = Top(t).slot THEN 1 ELSE 0, 0, IF s = Top(t).slot THEN -1 ELSE 0)
    <3>1. slotOf[i] = s <=> s = Top(t).slot
      BY <1>3, <2>0
    <3>2. refcount'[s] = refcount[s] + (IF s = Top(t).slot THEN 1 ELSE 0) + 0 + (IF s = Top(t).slot THEN -1 ELSE 0)
      BY <1>1, <1>2
    <3>3. Cardinality(MHof(member, slotOf, s)) \in Nat
      BY <1>1, RefTerms
    <3>4. PICK a, c : a = (IF s = Top(t).slot THEN 1 ELSE 0) /\ c = (IF s = Top(t).slot THEN -1 ELSE 0)
      OBVIOUS
    <3>5. a \in Int /\ c \in Int
      BY <3>4
    <3>6. Cardinality(THof(handles', slotOf, s)) = Cardinality(THof(handles, slotOf, s)) + a
      BY <2>6, <3>1, <3>4
    <3>7. Cardinality(THof(handles', slotOf', s)) = Cardinality(THof(handles, slotOf, s)) + a
      BY <1>1, <3>6
    <3>8. Cardinality(MHof(member', slotOf', s)) = Cardinality(MHof(member, slotOf, s)) + 0
      BY <1>1, <1>5, <3>3
    <3>9. SeatsNext(s, RefOps) = Seats(s, RefOps) + c
      BY <1>4, <3>4 DEF Shifted
    <3>10. refcount'[s] = refcount[s] + a + 0 + c
      BY <3>2, <3>4
    <3>11. Moved(s, a, 0, c)
      BY <3>5, <3>7, <3>8, <3>9, <3>10, MovedIs
    <3> QED
      BY <3>4, <3>11
  <2> QED
    BY <1>1, <2>7, RefsMoved DEF IInv
<1>6. CASE /\ Len(frames[t]) # 1 /\ handles' = handles
           /\ frames[t][Len(frames[t]) - 1].inst \in Insts
           /\ member' = [member EXCEPT ![frames[t][Len(frames[t]) - 1].inst] = Top(t).inst]
  <2>0. PICK i \in Insts : i = frames[t][Len(frames[t]) - 1].inst
    BY <1>6
  <2>1. PICK g : g = frames[t][Len(frames[t]) - 1]
    OBVIOUS
  <2>2. g.op = "construct" /\ Len(frames[t]) - 1 \in 1..(Len(frames[t]) - 1)
    BY <1>1, <1>6, <2>1, BelowThrown
  <2>3. member[i] = None
    BY <2>0, <2>1, <2>2 DEF IInv, Ids, Waiting
  <2>4. member'[i] = Top(t).inst /\ \A j \in Insts : j # i => member'[j] = member[j]
    BY <1>2, <1>6, <2>0
  <2>5. \A s : Cardinality(MHof(member', slotOf, s)) =
          Cardinality(MHof(member, slotOf, s)) + IF slotOf[member'[i]] = s THEN 1 ELSE 0
    <3>1. Joined(member, member', i)
      BY <1>1, <1>20, <2>3, <2>4 DEF Joined
    <3> QED
      BY <3>1, MemberMore
  <2>7. ASSUME NEW s \in Slots
        PROVE  Moved(s, 0, IF s = Top(t).slot THEN 1 ELSE 0, IF s = Top(t).slot THEN -1 ELSE 0)
    <3>1. slotOf[member'[i]] = s <=> s = Top(t).slot
      BY <1>3, <2>4
    <3>2. refcount'[s] = refcount[s] + 0 + (IF s = Top(t).slot THEN 1 ELSE 0) + (IF s = Top(t).slot THEN -1 ELSE 0)
      BY <1>1, <1>2
    <3>3. Cardinality(THof(handles, slotOf, s)) \in Nat
      BY <1>1, RefTerms
    <3>4. PICK b, c : b = (IF s = Top(t).slot THEN 1 ELSE 0) /\ c = (IF s = Top(t).slot THEN -1 ELSE 0)
      OBVIOUS
    <3>5. b \in Int /\ c \in Int
      BY <3>4
    <3>6. Cardinality(MHof(member', slotOf, s)) = Cardinality(MHof(member, slotOf, s)) + b
      BY <2>5, <3>1, <3>4
    <3>7. Cardinality(MHof(member', slotOf', s)) = Cardinality(MHof(member, slotOf, s)) + b
      BY <1>1, <3>6
    <3>8. Cardinality(THof(handles', slotOf', s)) = Cardinality(THof(handles, slotOf, s)) + 0
      BY <1>1, <1>6, <3>3
    <3>9. SeatsNext(s, RefOps) = Seats(s, RefOps) + c
      BY <1>4, <3>4 DEF Shifted
    <3>10. refcount'[s] = refcount[s] + 0 + b + c
      BY <3>2, <3>4
    <3>11. Moved(s, 0, b, c)
      BY <3>5, <3>7, <3>8, <3>9, <3>10, MovedIs
    <3> QED
      BY <3>4, <3>11
  <2> QED
    BY <1>1, <2>7, RefsMoved DEF IInv
<1> QED
  BY <1>1, <1>5, <1>6, HooksDoneDoes

\* A bean gives up the handle it holds to a release of its own.
LEMMA RefsMember ==
    ASSUME Shape, FramesType', RefcountIsHandles, NEW i \in Insts, member[i] \in Insts,
           member' = [member EXCEPT ![i] = None], UNCHANGED <<refcount, handles, lost, slotOf>>,
           Shifted(RefOps, slotOf[member[i]], 1)
    PROVE  RefcountIsHandles'
<1>1. member \in [Insts -> Insts \union {None}] /\ refcount \in [Slots -> Int] /\ None \notin Insts
  BY StoreConstants DEF Shape, Types, Insts
<1>2. member'[i] = None /\ \A j \in Insts : j # i => member'[j] = member[j]
  BY <1>1
<1>3. \A s : Cardinality(MHof(member, slotOf, s)) =
        Cardinality(MHof(member', slotOf, s)) + IF slotOf[member[i]] = s THEN 1 ELSE 0
  <2>1. Joined(member', member, i)
    BY <1>1, <1>2 DEF Joined
  <2> QED
    BY <2>1, MemberMore
<1>4. ASSUME NEW s \in Slots
      PROVE  Moved(s, 0, IF s = slotOf[member[i]] THEN -1 ELSE 0, IF s = slotOf[member[i]] THEN 1 ELSE 0)
  <2>1. Cardinality(THof(handles, slotOf, s)) \in Nat /\ Cardinality(MHof(member, slotOf, s)) \in Nat
    BY RefTerms
  <2>2. Cardinality(MHof(member', slotOf, s)) \in Nat
    <3>1. lost \subseteq Insts
      BY DEF Shape, Types
    <3> QED
      BY <3>1, HandleSetsFinite
  <2>20. Cardinality(MHof(member, slotOf, s)) =
           Cardinality(MHof(member', slotOf, s)) + IF slotOf[member[i]] = s THEN 1 ELSE 0
    BY <1>3
  <2>3. Cardinality(MHof(member', slotOf, s)) =
          Cardinality(MHof(member, slotOf, s)) + IF s = slotOf[member[i]] THEN -1 ELSE 0
    BY <2>1, <2>2, <2>20
  <2>4. refcount'[s] = refcount[s] + 0 + (IF s = slotOf[member[i]] THEN -1 ELSE 0) + (IF s =
          slotOf[member[i]] THEN 1 ELSE 0)
    BY <1>1
  <2> QED
    BY <2>1, <2>3, <2>4 DEF Moved, Shifted
<1> QED
  BY <1>4, RefsMoved

\* Unwind: from the bean to a release.
LEMMA RefsUnwind ==
    ASSUME IInv, NEW t \in Threads, Unwind(t)
    PROVE  RefcountIsHandles'
<1>1. /\ Shape /\ RefcountIsHandles /\ FramesType' /\ Top(t).op = "unwind" /\ Top(t).inst \in Insts
      /\ UNCHANGED <<refcount, handles, lost, slotOf>> /\ None \notin Insts
  <2>1. None \notin Insts
    BY StoreConstants DEF Insts
  <2> QED
    BY <2>1, UnwindDoes DEF IInv
<1>2. CASE member[Top(t).inst] \in Insts /\ member' = [member EXCEPT ![Top(t).inst] = None]
  <2>1. UnwindsMember(t)
    BY <1>1, <1>2 DEF UnwindsMember
  <2> QED
    BY <1>1, <1>2, <2>1, CountsUnwind, RefsMember
<1>3. CASE member[Top(t).inst] = None /\ UNCHANGED member
  <2>1. ~UnwindsMember(t)
    BY <1>3 DEF UnwindsMember
  <2> QED
    BY <1>1, <1>3, <2>1, CountsUnwind, RefsSame
<1> QED
  BY <1>1, <1>2, <1>3, UnwindDoes

\* Destruction: from the destroyed bean to a release.
LEMMA RefsEmptied ==
    ASSUME IInv, NEW t \in Threads, NEW f, NEW s, Emptied(t, f, s)
    PROVE  RefcountIsHandles'
<1>1. /\ Shape /\ RefcountIsHandles /\ FramesType'
      /\ UNCHANGED <<refcount, handles, lost, slotOf>> /\ None \notin Insts
  <2>1. None \notin Insts
    BY StoreConstants DEF Insts
  <2> QED
    BY <2>1 DEF Emptied, IInv
<1>2. CASE Frees(s)
  <2>1. memory[s] \in Insts /\ member' = [member EXCEPT ![memory[s]] = None] /\ member[memory[s]] \in Insts
    BY <1>2 DEF Frees, Emptied
  <2> QED
    BY <1>1, <1>2, <2>1, CountsEmptied, RefsMember
<1>3. CASE ~Frees(s)
  <2>1. member' = member
    <3>1. CASE memory[s] = None
      BY <1>1, <3>1 DEF Emptied
    <3>2. CASE memory[s] # None
      <4>1. member[memory[s]] = None /\ memory[s] \in Insts /\ member' = [member EXCEPT ![memory[s]] = None]
        BY <1>3, <3>2 DEF Frees, Emptied
      <4>2. member \in [Insts -> Insts \union {None}]
        BY <1>1 DEF Shape, Types
      <4> QED
        BY <4>1, <4>2
    <3> QED
      BY <3>1, <3>2
  <2> QED
    BY <1>1, <1>3, <2>1, CountsEmptied, RefsSame
<1> QED
  BY <1>2, <1>3

\* ReleaseAcquire: one reference less.
LEMMA RefsAcquire ==
    ASSUME IInv, NEW t \in Threads, ReleaseAcquire(t)
    PROVE  RefcountIsHandles'
<1>1. /\ Shape /\ RefcountIsHandles /\ FramesType' /\ Top(t).slot \in Slots
      /\ refcount' = [refcount EXCEPT ![Top(t).slot] = @ - 1] /\ UNCHANGED <<handles, member, lost, slotOf>>
  BY ReleaseDoes DEF IInv, ReleaseAcquire, objects, Goes
<1>2. Shifted(RefOps, Top(t).slot, -1)
  BY <1>1, CountsAcquire
<1>3. refcount \in [Slots -> Int]
  BY <1>1 DEF Shape, Types
<1>5. ASSUME NEW s \in Slots PROVE Moved(s, 0, 0, IF s = Top(t).slot THEN -1 ELSE 0)
  <2>1. refcount'[s] = refcount[s] + 0 + 0 + (IF s = Top(t).slot THEN -1 ELSE 0)
    BY <1>1, <1>3
  <2>2. /\ Cardinality(THof(handles, slotOf, s)) \in Nat /\ Cardinality(MHof(member, slotOf, s)) \in Nat
    BY <1>1, RefTerms
  <2> QED
    BY <1>1, <1>2, <2>1, <2>2 DEF Moved, Shifted
<1> QED
  BY <1>1, <1>5, RefsMoved

\* Drop passes a reference on; Copy adds one.
LEMMA RefsHandles ==
    ASSUME IInv, NEW t \in Threads, NEW i \in Insts, Drop(t, i) \/ \E u \in Threads : Copy(t, u, i)
    PROVE  RefcountIsHandles'
<1>0. /\ Shape /\ RefcountIsHandles /\ handles \in HandleMaps /\ MaxHandles \in Nat /\ handles[t][i] > 0
      /\ refcount \in [Slots -> Int] /\ FramesType /\ slotOf[i] \in Slots
  <2>1. Shape /\ RefcountIsHandles /\ handles[t][i] > 0
    BY DEF IInv, Drop, Copy
  <2>2. slotOf[i] # None
    BY <2>1, HeldNow
  <2> QED
    BY <2>1, <2>2, StoreConstants DEF Shape, Types, HandleMaps, FramesType
<1>1. CASE Drop(t, i)
  <2>1. handles' = [handles EXCEPT ![t] = [handles[t] EXCEPT ![i] = @ - 1]] /\
          handles[t] \in [Insts -> 0..MaxHandles]
        /\ UNCHANGED <<refcount, member, lost, slotOf>> /\ FramesType'
    BY <1>0, <1>1, DropDoes DEF HandleMaps, Drop, counts
  <2>2. handles[t][i] \in 0..MaxHandles /\ handles[t][i] - 1 \in 0..MaxHandles
    BY <1>0, <2>1
  <2>3. handles'[t] = [handles[t] EXCEPT ![i] = handles[t][i] - 1] /\ \A u \in Threads : u # t =>
          handles'[u] = handles[u]
    BY <1>0, <2>1 DEF HandleMaps
  <2>4. handles' \in HandleMaps
    BY <1>0, <2>1, <2>2 DEF HandleMaps
  <2>50. handles'[t][i] = handles[t][i] - 1 /\ \A j \in Insts : j # i => handles'[t][j] = handles[t][j]
    BY <2>1, <2>3
  <2>51. handles[t][i] = handles'[t][i] + 1
    <3>1. PICK n : n \in Int /\ n = handles[t][i]
      BY <2>2
    <3> QED
      BY <2>50, <3>1
  <2>52. \A u \in Threads : \A j \in Insts : ~(u = t /\ j = i) => handles[u][j] = handles'[u][j]
    BY <2>3, <2>50
  <2>5. handles[t][i] = handles'[t][i] + 1 /\ \A u \in Threads : \A j \in Insts : ~(u = t /\ j = i) =>
          handles[u][j] = handles'[u][j]
    BY <2>51, <2>52
  <2>6. \A s : Cardinality(THof(handles, slotOf, s)) =
          Cardinality(THof(handles', slotOf, s)) + IF slotOf[i] = s THEN 1 ELSE 0
    BY <1>0, <2>4, <2>5, HandleMore
  <2>7. Shifted(RefOps, slotOf[i], 1)
    BY <1>0, <1>1, CountsDrop
  <2>8. ASSUME NEW s \in Slots PROVE Moved(s, IF s = slotOf[i] THEN -1 ELSE 0, 0, IF s = slotOf[i] THEN 1 ELSE 0)
    <3>1. refcount'[s] = refcount[s] + (IF s = slotOf[i] THEN -1 ELSE 0) + 0 + (IF s = slotOf[i] THEN 1 ELSE 0)
      BY <1>0, <2>1
    <3>2. Cardinality(MHof(member, slotOf, s)) \in Nat /\ Cardinality(THof(handles, slotOf, s)) \in Nat
      BY <1>0, RefTerms
    <3>3. Cardinality(THof(handles', slotOf, s)) \in Nat
      <4>1. {} \subseteq Insts
        OBVIOUS
      <4> QED
        BY <4>1, HandleSetsFinite
    <3>40. Cardinality(THof(handles, slotOf, s)) =
             Cardinality(THof(handles', slotOf, s)) + IF slotOf[i] = s THEN 1 ELSE 0
      BY <2>6
    <3>4. Cardinality(THof(handles', slotOf, s)) =
            Cardinality(THof(handles, slotOf, s)) + IF s = slotOf[i] THEN -1 ELSE 0
      BY <3>2, <3>3, <3>40
    <3> QED
      BY <2>1, <2>7, <3>1, <3>2, <3>4 DEF Moved, Shifted
  <2> QED
    BY <1>0, <2>1, <2>8, RefsMoved
<1>2. CASE \E u \in Threads : Copy(t, u, i)
  <2>0. PICK u \in Threads : Copy(t, u, i)
    BY <1>2
  <2>1. handles' = [handles EXCEPT ![u] = [handles[u] EXCEPT ![i] = @ + 1]] /\
          handles[u] \in [Insts -> 0..MaxHandles]
        /\ refcount' = [refcount EXCEPT ![slotOf[i]] = @ + 1]
        /\ UNCHANGED <<frames, member, lost, slotOf>> /\ FramesType' /\ handles[u][i] < MaxHandles
    BY <1>0, <2>0 DEF HandleMaps, Copy, FramesType
  <2>2. handles[u][i] \in 0..MaxHandles /\ handles[u][i] + 1 \in 0..MaxHandles
    BY <1>0, <2>1
  <2>3. handles'[u] = [handles[u] EXCEPT ![i] = handles[u][i] + 1] /\ \A v \in Threads : v # u =>
          handles'[v] = handles[v]
    BY <1>0, <2>1 DEF HandleMaps
  <2>4. handles' \in HandleMaps
    BY <1>0, <2>1, <2>2 DEF HandleMaps
  <2>5. handles'[u][i] = handles[u][i] + 1 /\ \A v \in Threads : \A j \in Insts : ~(v = u /\ j = i) =>
          handles'[v][j] = handles[v][j]
    BY <2>1, <2>2, <2>3
  <2>6. \A s : Cardinality(THof(handles', slotOf, s)) =
          Cardinality(THof(handles, slotOf, s)) + IF slotOf[i] = s THEN 1 ELSE 0
    BY <1>0, <2>4, <2>5, HandleMore
  <2>7. \A s : SeatsNext(s, RefOps) = Seats(s, RefOps) + 0
    BY <1>0, <2>1, RefTerms DEF SeatsNext, Seats
  <2>8. ASSUME NEW s \in Slots PROVE Moved(s, IF s = slotOf[i] THEN 1 ELSE 0, 0, 0)
    <3>1. refcount'[s] = refcount[s] + (IF s = slotOf[i] THEN 1 ELSE 0) + 0 + 0
      BY <1>0, <2>1
    <3>2. Cardinality(MHof(member, slotOf, s)) \in Nat
      BY <1>0, RefTerms
    <3>4. PICK a : a = (IF s = slotOf[i] THEN 1 ELSE 0)
      OBVIOUS
    <3>5. a \in Int
      BY <3>4
    <3>6. Cardinality(THof(handles', slotOf, s)) = Cardinality(THof(handles, slotOf, s)) + a
      BY <2>6, <3>4
    <3>7. Cardinality(THof(handles', slotOf', s)) = Cardinality(THof(handles, slotOf, s)) + a
      BY <2>1, <3>6
    <3>8. Cardinality(MHof(member', slotOf', s)) = Cardinality(MHof(member, slotOf, s)) + 0
      BY <2>1, <3>2
    <3>9. SeatsNext(s, RefOps) = Seats(s, RefOps) + 0
      BY <2>7
    <3>10. refcount'[s] = refcount[s] + a + 0 + 0
      BY <3>1, <3>4
    <3>11. Moved(s, a, 0, 0)
      BY <3>5, <3>7, <3>8, <3>9, <3>10, MovedIs
    <3> QED
      BY <3>4, <3>11
  <2> QED
    BY <1>0, <2>1, <2>8, RefsMoved
<1> QED
  BY <1>1, <1>2

\* The steps that touch no reference.
LEMMA RefsQuiet ==
    ASSUME IInv, NEW t \in Threads,
           \/ \E f : Quiet(t, f)
           \/ ConstructMember(t) \/ \E k \in Kinds : Resolve(t, k)
           \/ ReleaseLiveSlot(t) \/ CheckLive(t) \/ DeleteIfDead(t) \/ Bump(t) \/ (Sweep(t) /\ Top(t).slot = 0)
           \/ PushLink(t) \/ (PushCas(t) /\ head = Top(t).cur) \/ Stop(t) \/ DestroyRegistry(t)
    PROVE  RefcountIsHandles' /\ Same(RefOps) /\ FramesType' /\ UNCHANGED <<refcount, handles, member, lost,
               slotOf>>
<1>1. Shape /\ RefcountIsHandles
  BY DEF IInv
<1>2. Same(RefOps)
  BY <1>1, CountsQuiet, CountsResolve, CountsRest, CountsPushLink, CountsPushedBack, CountsEnd
<1>3. UNCHANGED <<refcount, handles, member, lost, slotOf>>
  BY DEF Quiet, ConstructMember, Resolve, ReleaseLiveSlot, CheckLive, DeleteIfDead, Bump, Sweep, PushLink,
       PushCas, Stop,
         DestroyRegistry, Data, counts, objects
<1>4. FramesType'
  <2>1. (\E f : Quiet(t, f)) => FramesType'
    BY DEF Quiet
  <2>2. ReleaseLiveSlot(t) \/ CheckLive(t) \/ DeleteIfDead(t) \/ Bump(t) => FramesType'
    BY <1>1, ReleaseDoes DEF Goes
  <2>3. (Sweep(t) /\ Top(t).slot = 0) => FramesType'
    BY <1>1, SweptDoes DEF Goes
  <2> QED
    BY <1>1, <2>1, <2>2, <2>3, ConstructMemberDoes, ResolveDoes, PushLinkDoes, PushedBackDoes, StopDoes,
         DestroyRegistryDoes
<1> QED
  BY <1>1, <1>2, <1>3, <1>4, RefsSame

\* Every step keeps the counts equal to the handles.
LEMMA RefsStep ==
    ASSUME IInv, NEW t \in Threads, StepOf(t)
    PROVE  RefcountIsHandles'
BY RefsQuiet, RefsTaken, RefsThrows, RefsUnwind, RefsActivate, RefsHooksDone, RefsHandles, RefsAcquire,
     RefsEmptied DEF StepOf
=============================================================================
