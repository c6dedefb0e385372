---------------------------- MODULE ScopesProofs ----------------------------
(***************************************************************************)
(* Proofs about the session beans of scopes: which instances are alive,    *)
(* what is found, in which order beans are destroyed, and what becomes of  *)
(* every block of memory, for any scopes, beans, injections, bindings and  *)
(* depth of callbacks.                                                     *)
(*                                                                         *)
(* Above Shape there are three layers.  Ledger: every instance is in the   *)
(* place that its life says.  Arranged: the insertion order of a running   *)
(* scope names what is stored, every bean behind those injected in it.     *)
(* Calls: a sweep has before it whatever is stored, in such an order, and a*)
(* constructor has not been overtaken by another of the same bean.  The    *)
(* last two are what carries the order of construction through the         *)
(* callbacks to the destruction callbacks.                                 *)
(***************************************************************************)
EXTENDS Scopes, WellFoundedInduction, TLAPS

-----------------------------------------------------------------------------
(***************************************************************************)
(* The shape of the state: numbered slots, calls in progress that fit on   *)
(* one another, and what every action does, seen from the descriptors.     *)
(*                                                                         *)
(* Find() goes through the number of a slot and an array that is shorter   *)
(* than the numbering.  Each lemma Shape<Action> says what an action does  *)
(* to what is found (FindsKept, FindsStored, FindsReset), to the instances *)
(* (InstAfter, InstMade) and to the calls (Moves, Rises, Ends), so that    *)
(* the layers above never see an array or a slot number.                   *)
(***************************************************************************)

\* The descriptors that have a session slot.
Known == {slots[n] : n \in 1..Len(slots)}
Queued(s) == {pending[s][n] : n \in 1..Len(pending[s])}
Ordered(s) == {order[s][n] : n \in 1..Len(order[s])}
Todo(f) == {f.todo[n] : n \in 1..Len(f.todo)}

\* The slots are numbered from the start of the root on, each for one descriptor.
Numbering ==
    /\ IsInjective(slots)
    /\ Known = IF root = "created" THEN {} ELSE Beans \union 1..Len(bound)
    /\ Len(bound) <= Len(inst) /\ Len(inst) <= MaxInst
    /\ \A s \in Scopes : Len(array[s]) <= Len(slots)
    /\ \A i \in 1..Len(inst) : inst[i].desc \in Beans \union 1..Len(bound)
    /\ \A s \in Scopes : \A n \in 1..Len(order[s]) : order[s][n] \in Known
    /\ \A s \in Scopes : \A n \in 1..Len(pending[s]) : pending[s][n] \in 1..Len(inst)

\* The scope of a call is in the state that the call needs.
FrameOK(f) ==
    /\ f.op = "root" => f.at = "next" /\ f.scope = None
    /\ f.op # "root" => f.scope \in Scopes
    /\ f.op \in {"make", "bind"} => state[f.scope] = "Running" /\ f.at \in {"construct", "callback"} /\ f.desc \in Known
    /\ f.at = "construct" => f.op = "make" /\ f.desc \in Beans
    /\ f.op = "start" => state[f.scope] = "Stopped" /\ Todo(f) \subseteq Queued(f.scope)
    /\ f.op = "start" /\ f.at = "callback" => f.todo # <<>> /\ f.desc \in Known
    /\ f.op \in {"stop", "restart"} => state[f.scope] = "Stopping" /\ Todo(f) \subseteq Known
    /\ f.op \in {"stop", "restart"} /\ f.at = "callback" => f.desc \in Known

Quiescent ==
    /\ root # "started" => frames = <<>> /\ \A s \in Scopes : state[s] = "Stopped"
    /\ root = "stopped" => \A s \in Scopes : retired[s] = {} /\ pending[s] = <<>>

Stack ==
    /\ \A n \in 1..Len(frames) : FrameOK(frames[n])
    /\ \A n \in 1..Len(frames) : frames[n].op = "root" => n = 1
    /\ \A m, n \in 1..Len(frames) :
        /\ m # n /\ frames[m].op \in {"start", "stop", "restart"} => frames[m].scope # frames[n].scope
        /\ m # n /\ frames[m].at = "construct" /\ frames[n].at = "construct" => frames[m].desc # frames[n].desc

Shape == TypeOK /\ Numbering /\ Quiescent /\ Stack

-----------------------------------------------------------------------------
(* Natural numbers.                                                        *)

\* The order of the naturals as a well-founded relation.
LEMMA LessThanRelation ==
    \E R : IsWellFoundedOn(R, Nat) /\ \A x, y \in Nat : <<y, x>> \in R <=> y < x
<1>1. IsWellFoundedOn(OpToRel(<, Nat), Nat)
  BY NatLessThanWellFounded
<1>2. \A x, y \in Nat : <<y, x>> \in OpToRel(<, Nat) <=> y < x
  BY DEF OpToRel
<1> QED
  BY <1>1, <1>2, Zenon

\* A set of naturals that is not empty has a least element.
LEMMA LeastElement ==
    ASSUME NEW T \in SUBSET Nat, T # {}
    PROVE  \E m \in T : \A n \in T : m <= n
<1>1. PICK R : IsWellFoundedOn(R, Nat) /\ \A x, y \in Nat : <<y, x>> \in R <=> y < x
  BY LessThanRelation
<1>2. PICK m \in T : \A y \in T : ~ (<<y, m>> \in R)
  BY <1>1, WFMin
<1>3. \A y \in T : ~ (y < m)
  BY <1>1, <1>2
<1> QED
  BY <1>3

-----------------------------------------------------------------------------
(* The array of a scope, read through the numbers of the slots.            *)

\* A function on 1..L is a sequence.
LEMMA ArrayIsSeq ==
    ASSUME NEW I, NEW L \in Nat, NEW f \in [1..L -> I]
    PROVE  f \in Seq(I) /\ Len(f) = L
OBVIOUS

\* push_back, element by element.
LEMMA AppendIs ==
    ASSUME NEW D, NEW q \in Seq(D), NEW d \in D
    PROVE  /\ Append(q, d) \in Seq(D) /\ Len(Append(q, d)) = Len(q) + 1
           /\ \A n \in 1..Len(q) : Append(q, d)[n] = q[n]
           /\ \A n \in 1..Len(q) + 1 : n \notin 1..Len(q) => n = Len(q) + 1 /\ Append(q, d)[n] = d
OBVIOUS

\* One sequence behind another, element by element.
LEMMA ConcatIs ==
    ASSUME NEW D, NEW q \in Seq(D), NEW r \in Seq(D)
    PROVE  /\ (q \o r) \in Seq(D) /\ Len(q \o r) = Len(q) + Len(r)
           /\ \A n \in 1..Len(q) : (q \o r)[n] = q[n]
           /\ \A n \in 1..Len(r) : (q \o r)[Len(q) + n] = r[n]
OBVIOUS

\* SlotOf and Find(), for given slots q and array a.
Pos(q, d) == CHOOSE n \in 1..Len(q) : q[n] = d
FindIn(q, a, d) == IF Pos(q, d) <= Len(a) THEN a[Pos(q, d)] ELSE None

\* Slots that are numbered once are found by their number.
LEMMA FindIs ==
    ASSUME NEW D, NEW q \in Seq(D), IsInjective(q), NEW n \in 1..Len(q), NEW a
    PROVE  /\ Pos(q, q[n]) = n
           /\ FindIn(q, a, q[n]) = IF n <= Len(a) THEN a[n] ELSE None
<1>1. Pos(q, q[n]) = n
  BY DEF IsInjective, Pos
<1> QED
  BY <1>1 DEF FindIn

\* Find() in a state and in the next one, in terms of FindIn.
LEMMA FindState ==
    /\ \A d : SlotOf(d) = Pos(slots, d)
    /\ \A s, d : Find(s, d) = FindIn(slots, array[s], d)
    /\ \A s, d : Find(s, d)' = FindIn(slots', array'[s], d)
BY DEF Find, FindIn, SlotOf, Pos

\* resize(): nothing is found.
LEMMA FindFresh ==
    ASSUME NEW D, NEW q \in Seq(D), IsInjective(q), NEW n \in 1..Len(q)
    PROVE  /\ FindIn(q, <<>>, q[n]) = None
           /\ FindIn(q, [m \in 1..Len(q) |-> None], q[n]) = None
<1> DEFINE a == [m \in 1..Len(q) |-> None]
<1>1. Len(a) = Len(q) /\ a[n] = None
  OBVIOUS
<1>2. FindIn(q, a, q[n]) = None
  BY <1>1, FindIs
<1>3. Len(<<>>) = 0
  OBVIOUS
<1>4. FindIn(q, <<>>, q[n]) = None
  BY <1>3, FindIs
<1> QED
  BY <1>2, <1>4

Placed(a, n, i) == [Grown(a, n) EXCEPT ![n] = i]

\* growAndStore(): the instance is found, and the others as before.
LEMMA FindStored ==
    ASSUME NEW D, NEW q \in Seq(D), IsInjective(q), NEW I, None \in I,
           NEW a \in Seq(I), Len(a) <= Len(q), NEW n \in 1..Len(q), NEW i \in I
    PROVE  /\ Placed(a, n, i) \in Seq(I) /\ Len(Placed(a, n, i)) <= Len(q)
           /\ \A m \in 1..Len(q) :
                FindIn(q, Placed(a, n, i), q[m]) = IF m = n THEN i ELSE FindIn(q, a, q[m])
<1> DEFINE b == Placed(a, n, i)
<1> DEFINE L == IF n > Len(a) THEN n ELSE Len(a)
<1>1. L \in Nat /\ n \in 1..L /\ L <= Len(q) /\ Len(a) <= L
  OBVIOUS
<1>2. Grown(a, n) = [m \in 1..L |-> IF m <= Len(a) THEN a[m] ELSE None]
  BY DEF Grown
<1> HIDE DEF L
<1> DEFINE e(m) == IF m = n THEN i ELSE IF m <= Len(a) THEN a[m] ELSE None
<1>3. b = [m \in 1..L |-> e(m)]
  BY <1>1, <1>2 DEF Placed
<1> HIDE DEF b
<1>4. \A m \in 1..L : e(m) \in I
  BY <1>1
<1>5. b \in Seq(I) /\ Len(b) = L /\ \A m \in 1..L : b[m] = e(m)
  <2> HIDE DEF e
  <2>1. b \in [1..L -> I]
    BY <1>3, <1>4
  <2>2. L \in Nat /\ DOMAIN b = 1..L
    BY <1>1, <1>3
  <2>3. b \in Seq(I) /\ Len(b) = L
    BY <2>1, <2>2, ArrayIsSeq
  <2>4. \A m \in 1..L : b[m] = e(m)
    BY <1>3
  <2> QED
    BY <2>3, <2>4
<1>6. ASSUME NEW m \in 1..Len(q)
      PROVE  FindIn(q, b, q[m]) = IF m = n THEN i ELSE FindIn(q, a, q[m])
  <2>1. FindIn(q, b, q[m]) = IF m <= L THEN b[m] ELSE None
    BY <1>5, FindIs
  <2>2. FindIn(q, a, q[m]) = IF m <= Len(a) THEN a[m] ELSE None
    BY FindIs
  <2> QED
    BY <1>1, <1>5, <2>1, <2>2
<1> QED
  BY <1>1, <1>5, <1>6 DEF b

Cleared(a, n) == [a EXCEPT ![n] = None]

\* The slot of a destroyed instance is cleared.
LEMMA FindCleared ==
    ASSUME NEW D, NEW q \in Seq(D), IsInjective(q), NEW I, None \in I,
           NEW a \in Seq(I), NEW n \in 1..Len(q), n <= Len(a)
    PROVE  /\ Cleared(a, n) \in Seq(I) /\ Len(Cleared(a, n)) = Len(a)
           /\ \A m \in 1..Len(q) :
                FindIn(q, Cleared(a, n), q[m]) = IF m = n THEN None ELSE FindIn(q, a, q[m])
<1> DEFINE b == Cleared(a, n)
<1>1. b \in Seq(I) /\ Len(b) = Len(a) /\ \A m \in 1..Len(a) : b[m] = IF m = n THEN None ELSE a[m]
  BY DEF Cleared
<1> HIDE DEF b
<1>2. ASSUME NEW m \in 1..Len(q)
      PROVE  FindIn(q, b, q[m]) = IF m = n THEN None ELSE FindIn(q, a, q[m])
  <2>1. FindIn(q, b, q[m]) = IF m <= Len(a) THEN b[m] ELSE None
    BY <1>1, FindIs
  <2>2. FindIn(q, a, q[m]) = IF m <= Len(a) THEN a[m] ELSE None
    BY FindIs
  <2> QED
    BY <1>1, <2>1, <2>2
<1> QED
  BY <1>1, <1>2 DEF b

Absent(q, d) == \A n \in 1..Len(q) : q[n] # d

\* A slot is given to one more descriptor, which is not found yet.
LEMMA SlotsAppend ==
    ASSUME NEW D, NEW q \in Seq(D), IsInjective(q), NEW d \in D, Absent(q, d)
    PROVE  /\ Append(q, d) \in Seq(D) /\ Len(Append(q, d)) = Len(q) + 1
           /\ IsInjective(Append(q, d)) /\ Append(q, d)[Len(q) + 1] = d
           /\ \A n \in 1..Len(q) : Append(q, d)[n] = q[n]
<1> DEFINE r == Append(q, d)
<1>1. r \in Seq(D) /\ Len(r) = Len(q) + 1 /\ \A n \in 1..Len(r) : r[n] = IF n <= Len(q) THEN q[n] ELSE d
  OBVIOUS
<1> HIDE DEF r
<1>2. IsInjective(r)
  BY <1>1 DEF IsInjective, Absent
<1>3. r[Len(q) + 1] = d /\ \A n \in 1..Len(q) : r[n] = q[n]
  BY <1>1
<1> QED
  BY <1>1, <1>2, <1>3 DEF r

\* A slot more at the end: what was found is found, and nothing for the new one.
LEMMA FindExtended ==
    ASSUME NEW D, NEW q \in Seq(D), IsInjective(q), NEW d \in D, Absent(q, d),
           NEW I, NEW a \in Seq(I), Len(a) <= Len(q)
    PROVE  /\ \A n \in 1..Len(q) : FindIn(Append(q, d), a, q[n]) = FindIn(q, a, q[n])
           /\ FindIn(Append(q, d), a, d) = None
<1> DEFINE r == Append(q, d)
<1>1. /\ r \in Seq(D) /\ Len(r) = Len(q) + 1 /\ IsInjective(r) /\ r[Len(q) + 1] = d
      /\ \A n \in 1..Len(q) : r[n] = q[n]
  BY SlotsAppend
<1> HIDE DEF r
<1>2. Len(q) \in Nat /\ Len(a) \in Nat
  OBVIOUS
<1>3. ASSUME NEW n \in 1..Len(r)
      PROVE  FindIn(r, a, r[n]) = IF n <= Len(a) THEN a[n] ELSE None
  BY <1>1, FindIs
<1>4. ASSUME NEW n \in 1..Len(q)
      PROVE  FindIn(q, a, q[n]) = IF n <= Len(a) THEN a[n] ELSE None
  BY FindIs
<1>5. \A n \in 1..Len(q) : FindIn(r, a, q[n]) = FindIn(q, a, q[n])
  BY <1>1, <1>2, <1>3, <1>4
<1>6. PICK k \in 1..Len(r) : k = Len(q) + 1
  BY <1>1, <1>2
<1>7. FindIn(r, a, d) = None
  BY <1>1, <1>2, <1>3, <1>6
<1> QED
  BY <1>5, <1>7 DEF r

-----------------------------------------------------------------------------
(* The instances.                                                          *)

Instance == [desc : Descs, scope : Scopes, life : {"made", "destroyed", "freed", "corrupt"}]

\* What is destroyed or freed keeps its descriptor and its scope.
LEMMA AfterIs ==
    ASSUME NEW is \in Seq(Instance), NEW F, NEW K, F \cap K = {}
    PROVE  /\ After(is, F, K) \in Seq(Instance) /\ Len(After(is, F, K)) = Len(is)
           /\ \A i \in 1..Len(is) :
                /\ After(is, F, K)[i].desc = is[i].desc
                /\ After(is, F, K)[i].scope = is[i].scope
                /\ After(is, F, K)[i].life =
                     IF i \in F THEN IF is[i].life = "freed" THEN "corrupt" ELSE "freed"
                     ELSE IF i \in K THEN IF is[i].life = "made" THEN "destroyed" ELSE "corrupt"
                     ELSE is[i].life
<1> DEFINE L(i) == CASE i \in F -> IF is[i].life = "freed" THEN "corrupt" ELSE "freed"
                     [] i \in K -> IF is[i].life = "made" THEN "destroyed" ELSE "corrupt"
                     [] OTHER -> is[i].life
           R(i) == [is[i] EXCEPT !.life = L(i)]
<1>1. \A i \in 1..Len(is) : is[i] \in Instance
  OBVIOUS
<1>2. \A i \in 1..Len(is) : L(i) \in {"made", "destroyed", "freed", "corrupt"}
  BY <1>1 DEF Instance
<1>3. After(is, F, K) = [i \in 1..Len(is) |-> R(i)]
  BY DEF After
<1> HIDE DEF L
<1>4. \A i \in 1..Len(is) : /\ R(i) \in Instance /\ R(i).desc = is[i].desc
                            /\ R(i).scope = is[i].scope /\ R(i).life = L(i)
  BY <1>1, <1>2 DEF Instance
<1> HIDE DEF R
<1>5. After(is, F, K) \in [1..Len(is) -> Instance]
  BY <1>3, <1>4
<1>6. After(is, F, K) \in Seq(Instance) /\ Len(After(is, F, K)) = Len(is)
  BY <1>3, <1>5
<1>7. \A i \in 1..Len(is) : After(is, F, K)[i] = R(i)
  BY <1>3
<1> QED
  BY <1>4, <1>6, <1>7 DEF L

-----------------------------------------------------------------------------
(* The calls in progress.                                                  *)

\* The call on top.
LEMMA TopCall ==
    ASSUME TypeOK, frames # <<>>
    PROVE  /\ Depth \in Nat \ {0} /\ Depth \in 1..Len(frames) /\ Len(frames) = Depth
           /\ Top \in Frame /\ Top = frames[Depth]
BY DEF TypeOK, Depth, Top

\* The first m calls stay, and f, if it is there, is above them.
Below(m) ==
    /\ m \in 0..Len(frames)
    /\ Len(frames') \in {m, m + 1}
    /\ \A n \in 1..m : frames'[n] = frames[n]

\* The call on top goes on as f.
Moves(f) == Below(Depth - 1) /\ Len(frames') = Depth /\ frames'[Depth] = f
\* A call f starts inside the one on top.
Rises(f) == Below(Depth) /\ Len(frames') = Depth + 1 /\ frames'[Depth + 1] = f
\* Calls end.
Ends == \E m \in 0..Depth - 1 : Below(m) /\ Len(frames') = m

\* A call inside the one on top.
LEMMA PushFrames ==
    ASSUME TypeOK, NEW f \in Frame, frames' = Append(frames, f)
    PROVE  /\ frames' \in Seq(Frame) /\ Below(Depth)
           /\ Len(frames') = Depth + 1 /\ frames'[Depth + 1] = f
BY DEF TypeOK, Depth, Below

\* The call on top goes on.
LEMMA GotoFrames ==
    ASSUME TypeOK, frames # <<>>, NEW f \in Frame, Goto(f)
    PROVE  /\ frames' \in Seq(Frame) /\ Below(Depth - 1)
           /\ Len(frames') = Depth /\ frames'[Depth] = f
BY DEF TypeOK, Depth, Below, Goto

\* The call on top ends, and another takes its place.
LEMMA ReplaceFrames ==
    ASSUME TypeOK, frames # <<>>, NEW f \in Frame,
           frames' = Append(SubSeq(frames, 1, Depth - 1), f)
    PROVE  /\ frames' \in Seq(Frame) /\ Below(Depth - 1)
           /\ Len(frames') = Depth /\ frames'[Depth] = f
<1> DEFINE q == SubSeq(frames, 1, Depth - 1)
<1>0. frames \in Seq(Frame) /\ Depth \in Nat \ {0} /\ Depth = Len(frames)
  BY DEF TypeOK, Depth
<1>1. /\ Depth \in Nat \ {0} /\ Depth = Len(frames) /\ q \in Seq(Frame) /\ Len(q) = Depth - 1
      /\ \A n \in 1..Depth - 1 : q[n] = frames[n]
  BY <1>0
<1> HIDE DEF q
<1>2. frames' = Append(q, f)
  BY DEF q
<1> QED
  BY <1>1, <1>2 DEF Below

\* Calls end, by a return or an exception.
LEMMA CutFrames ==
    ASSUME TypeOK, frames # <<>>, Finish \/ Raise
    PROVE  /\ frames' \in Seq(Frame)
           /\ \E m \in 0..Depth - 1 : Below(m) /\ Len(frames') = m
<1>1. Depth \in Nat \ {0} /\ Depth = Len(frames) /\ frames \in Seq(Frame)
  BY DEF TypeOK, Depth
<1>2. PICK m \in 0..Depth - 1 : frames' = SubSeq(frames, 1, m)
  BY <1>1 DEF Finish, Raise
<1>3. /\ frames' \in Seq(Frame) /\ Len(frames') = m
      /\ \A n \in 1..m : frames'[n] = frames[n]
  BY <1>1, <1>2
<1> QED
  BY <1>1, <1>3 DEF Below

\* A step leaves the state of s alone and forgets none of its pending bindings.
Undisturbed(s) ==
    /\ state'[s] = state[s]
    /\ \A n \in 1..Len(pending[s]) : \E m \in 1..Len(pending'[s]) : pending'[s][m] = pending[s][n]

\* What a call relies on is still there.
LEMMA FrameKept ==
    ASSUME NEW f, FrameOK(f), Known \subseteq Known', f.op # "root" => Undisturbed(f.scope)
    PROVE  FrameOK(f)'
<1>1. f.op # "root" => Queued(f.scope) \subseteq Queued(f.scope)'
  BY DEF Undisturbed, Queued
<1> QED
  BY <1>1 DEF FrameOK, Undisturbed

\* f fits on top of the first m calls.
Fits(m, f) ==
    /\ f.op = "root" => m = 0
    /\ \A n \in 1..m :
        /\ f.op \in {"start", "stop", "restart"} \/ frames[n].op \in {"start", "stop", "restart"}
             => frames[n].scope # f.scope
        /\ f.at = "construct" /\ frames[n].at = "construct" => frames[n].desc # f.desc

\* The stack after a step.
LEMMA StackKept ==
    ASSUME Stack, NEW m \in Nat, Below(m), Len(frames) \in Nat, Known \subseteq Known',
           \A n \in 1..m : frames[n].op # "root" => Undisturbed(frames[n].scope),
           NEW f, Len(frames') = m + 1 => frames'[m + 1] = f /\ FrameOK(f)' /\ Fits(m, f)
    PROVE  Stack'
<1>1. /\ \A n \in 1..m : n \in 1..Len(frames) /\ frames'[n] = frames[n]
      /\ \A n \in 1..Len(frames') : n \in 1..m \/ (n = m + 1 /\ Len(frames') = m + 1)
  BY DEF Below
<1>2. ASSUME NEW n \in 1..Len(frames')
      PROVE  FrameOK(frames[n])'
  <2>1. PICK g : g = frames'[n]
    OBVIOUS
  <2>2. CASE n \in 1..m
    <3>1. g = frames[n] /\ FrameOK(g)
      BY <1>1, <2>1, <2>2 DEF Stack
    <3>2. FrameOK(g)'
      BY <2>2, <3>1, FrameKept
    <3> QED
      BY <2>1, <3>2
  <2>3. CASE n = m + 1 /\ Len(frames') = m + 1
    BY <2>3
  <2> QED
    BY <1>1, <2>2, <2>3
<1>3. \A n \in 1..Len(frames') : frames'[n].op = "root" => n = 1
  BY <1>1 DEF Stack, Fits
<1>4. ASSUME NEW k \in 1..Len(frames'), NEW n \in 1..Len(frames'), k # n
      PROVE  /\ frames'[k].op \in {"start", "stop", "restart"} => frames'[k].scope # frames'[n].scope
             /\ frames'[k].at = "construct" /\ frames'[n].at = "construct"
                    => frames'[k].desc # frames'[n].desc
  <2>1. CASE k \in 1..m /\ n \in 1..m
    <3>1. k \in 1..Len(frames) /\ n \in 1..Len(frames)
      BY <1>1, <2>1
    <3>2. /\ frames[k].op \in {"start", "stop", "restart"} => frames[k].scope # frames[n].scope
          /\ frames[k].at = "construct" /\ frames[n].at = "construct" => frames[k].desc # frames[n].desc
      BY <1>4, <3>1 DEF Stack
    <3> QED
      BY <1>1, <2>1, <3>2
  <2>2. CASE k = m + 1 /\ n \in 1..m /\ Len(frames') = m + 1
    BY <1>1, <2>2 DEF Fits
  <2>3. CASE n = m + 1 /\ k \in 1..m /\ Len(frames') = m + 1
    BY <1>1, <2>3 DEF Fits
  <2> QED
    BY <1>1, <1>4, <2>1, <2>2, <2>3
<1> QED
  BY <1>2, <1>3, <1>4 DEF Stack

-----------------------------------------------------------------------------
(* What the operations do to the slots and to what is found in them.       *)

\* Known' after a step, and what is found, compared with the state before.
Found(u, d) == IF d \in Known THEN Find(u, d) ELSE None
FindsKept == \A u \in Scopes : \A d \in Known' : Find(u, d)' = Found(u, d)
FindsStored(s, e, i) ==
    \A u \in Scopes : \A d \in Known' :
        Find(u, d)' = IF u = s /\ d = e THEN i ELSE Found(u, d)
FindsReset(s) ==
    \A u \in Scopes : \A d \in Known' : Find(u, d)' = IF u = s THEN None ELSE Found(u, d)

\* The descriptor of a binding gets its slot, if it is new.
LEMMA SlotsExtended ==
    ASSUME TypeOK, Numbering, NEW k \in BindKeys, NEW d, d = BindDesc(k),
           root # "stopped", Len(inst) < MaxInst,
           bound' = IF d > Len(bound) THEN Append(bound, k) ELSE bound,
           slots' = KnownSlots(d), root' = root
    PROVE  /\ d \in 1..Len(bound) + 1 /\ d \in BoundIds
           /\ bound' \in Seq(BindKeys) /\ slots' \in Seq(Descs)
           /\ Len(bound') \in {Len(bound), Len(bound) + 1} /\ d \in 1..Len(bound')
           /\ IsInjective(slots') /\ Len(slots) <= Len(slots')
           /\ Known' = IF root = "created" THEN {} ELSE Beans \union 1..Len(bound')
           /\ Known \subseteq Known' /\ (root = "started" => d \in Known')
           /\ \A u \in Scopes : \A e \in Known' :
                FindIn(slots', array[u], e) = Found(u, e)
<1>1. /\ bound \in Seq(BindKeys) /\ slots \in Seq(Descs) /\ Len(bound) \in Nat /\ Len(slots) \in Nat
      /\ Len(inst) \in Nat /\ Len(bound) < MaxInst /\ MaxInst \in Nat
      /\ root \in {"created", "started", "stopped"}
  BY ScopeConstants DEF TypeOK, Numbering
<1>2. Binding(k) \subseteq 1..Len(bound)
  BY DEF Binding
<1>3. Binding(k) # {} => \E e \in Binding(k) : \A x \in Binding(k) : e <= x
  BY <1>2, LeastElement
<1>4. d \in 1..Len(bound) + 1
  BY <1>1, <1>2, <1>3 DEF BindDesc
<1>5. d \in BoundIds
  BY <1>1, <1>4 DEF BoundIds
<1>6. CASE root = "started" /\ d > Len(bound)
  <2>1. d = Len(bound) + 1 /\ bound' = Append(bound, k) /\ slots' = Append(slots, d)
    BY <1>1, <1>4, <1>6 DEF KnownSlots
  <2>2. Absent(slots, d)
    <3>1. d \notin Known
      <4>1. \A b \in Beans : b \notin Nat
        BY ScopeConstants
      <4>2. Known = Beans \union 1..Len(bound) /\ d \in Nat /\ d \notin 1..Len(bound)
        BY <1>1, <1>6, <2>1 DEF Numbering
      <4> QED
        BY <4>1, <4>2
    <3> QED
      BY <3>1 DEF Known, Absent
  <2>3. d \in Descs /\ IsInjective(slots)
    BY <1>5 DEF Descs, Numbering
  <2>4. \A u \in Scopes : array[u] \in Seq(Insts \union {None}) /\ Len(array[u]) <= Len(slots)
    BY DEF TypeOK, Numbering
  <2>0. /\ slots \in Seq(Descs) /\ IsInjective(slots) /\ d \in Descs /\ Absent(slots, d)
        /\ slots' = Append(slots, d)
    BY <1>1, <2>1, <2>2, <2>3
  <2>5. /\ slots' \in Seq(Descs) /\ Len(slots') = Len(slots) + 1 /\ IsInjective(slots')
        /\ slots'[Len(slots) + 1] = d /\ \A n \in 1..Len(slots) : slots'[n] = slots[n]
    BY ONLY <2>0, SlotsAppend
  <2>6. Known' = Known \union {d}
    <3>1. \A n \in 1..Len(slots') : n \in 1..Len(slots) \/ n = Len(slots) + 1
      BY <1>1, <2>5
    <3>2. 1..Len(slots) \subseteq 1..Len(slots') /\ Len(slots) + 1 \in 1..Len(slots')
      BY <1>1, <2>5
    <3> QED
      BY <2>5, <3>1, <3>2 DEF Known
  <2>7. bound' \in Seq(BindKeys) /\ Len(bound') = Len(bound) + 1
    BY <1>1, <2>1
  <2>8. ASSUME NEW u \in Scopes, NEW e \in Known'
        PROVE  FindIn(slots', array[u], e) = Found(u, e)
    <3>0. array[u] \in Seq(Insts \union {None}) /\ Len(array[u]) <= Len(slots)
      BY <2>4
    <3>1. CASE e \in Known
      <4>1. PICK n \in 1..Len(slots) : e = slots[n]
        BY <3>1 DEF Known
      <4>2. FindIn(slots', array[u], slots[n]) = FindIn(slots, array[u], slots[n])
        BY ONLY <2>0, <3>0, n \in 1..Len(slots), FindExtended
      <4> QED
        BY <2>5, <3>1, <4>1, <4>2, FindState DEF Found
    <3>2. CASE e \notin Known
      <4>1. FindIn(slots', array[u], d) = None
        BY ONLY <2>0, <3>0, FindExtended
      <4> QED
        BY <2>6, <3>2, <4>1 DEF Found
    <3> QED
      BY <3>1, <3>2
  <2>9. Known' = Beans \union 1..Len(bound')
    BY <1>1, <1>6, <2>1, <2>6, <2>7 DEF Numbering
  <2> QED
    BY <1>1, <1>4, <1>5, <1>6, <2>1, <2>5, <2>6, <2>7, <2>8, <2>9
<1>7. CASE ~ (root = "started" /\ d > Len(bound))
  <2>1. slots' = slots /\ Known' = Known
    BY <1>7 DEF KnownSlots, Known
  <2>2. bound' \in Seq(BindKeys) /\ Len(bound') \in {Len(bound), Len(bound) + 1}
        /\ d \in 1..Len(bound') /\ (root = "started" => bound' = bound)
    BY <1>1, <1>4, <1>7
  <2>3. \A u \in Scopes : \A e \in Known' : FindIn(slots', array[u], e) = Found(u, e)
    BY <2>1, FindState DEF Found
  <2>4. Known' = IF root = "created" THEN {} ELSE Beans \union 1..Len(bound')
    BY <1>1, <2>1, <2>2 DEF Numbering
  <2>5. IsInjective(slots') /\ slots' \in Seq(Descs) /\ Len(slots) <= Len(slots')
    BY <1>1, <2>1 DEF Numbering
  <2>6. root = "started" => d \in Known'
    BY <2>2, <2>4
  <2> QED
    BY <1>4, <1>5, <2>1, <2>2, <2>3, <2>4, <2>5, <2>6
<1> QED
  BY <1>6, <1>7

\* store(): the instance is found, the descriptor is last in the order, and the
\* retired block of the descriptor is gone.
LEMMA StoreEffect ==
    ASSUME TypeOK, slots' \in Seq(Descs), IsInjective(slots'), Len(slots) <= Len(slots'),
           \A u \in Scopes : Len(array[u]) <= Len(slots),
           NEW s \in Scopes, NEW d \in Known', NEW i \in Insts, Store(s, d, i, slots')
    PROVE  /\ array' \in [Scopes -> Seq(Insts \union {None})]
           /\ order' \in [Scopes -> Seq(Descs)] /\ retired' \in [Scopes -> SUBSET Insts]
           /\ \A u \in Scopes : Len(array'[u]) <= Len(slots')
           /\ \A u \in Scopes : \A e \in Known' :
                FindIn(slots', array'[u], e) =
                    IF u = s /\ e = d THEN i ELSE FindIn(slots', array[u], e)
           /\ \A u \in Scopes : order'[u] = IF u = s THEN Append(order[u], d) ELSE order[u]
           /\ \A u \in Scopes : retired'[u] = IF u = s THEN {r \in retired[u] : inst[r].desc # d}
                                              ELSE retired[u]
<1>0. slots \in Seq(Descs) /\ Len(slots) \in Nat /\ Len(slots') \in Nat
  BY DEF TypeOK
<1>1. PICK n \in 1..Len(slots') : d = slots'[n]
  BY DEF Known
<1>2. d \in Descs /\ Pos(slots', d) = n
  <2>1. d \in Descs
    BY <1>1
  <2> QED
    BY ONLY <1>1, <2>1, slots' \in Seq(Descs), IsInjective(slots'), FindIs
<1>3. /\ array' = [array EXCEPT ![s] = [Grown(array[s], n) EXCEPT ![n] = i]]
      /\ order' = [order EXCEPT ![s] = Append(order[s], d)]
      /\ retired' = [retired EXCEPT ![s] = {r \in retired[s] : inst[r].desc # d}]
  BY <1>2 DEF Store, Pos, TypeOK
<1> DEFINE b == Placed(array[s], n, i)
<1>4. array[s] \in Seq(Insts \union {None}) /\ Len(array[s]) \in Nat /\ Len(array[s]) <= Len(slots')
  BY <1>0 DEF TypeOK
<1>5. /\ b \in Seq(Insts \union {None}) /\ Len(b) <= Len(slots')
      /\ \A m \in 1..Len(slots') :
            FindIn(slots', b, slots'[m]) = IF m = n THEN i ELSE FindIn(slots', array[s], slots'[m])
  <2>1. i \in Insts \union {None} /\ None \in Insts \union {None}
    OBVIOUS
  <2> QED
    BY ONLY n \in 1..Len(slots'), <1>4, <2>1, slots' \in Seq(Descs), IsInjective(slots'), FindStored
<1> HIDE DEF b
<1>6. array' = [array EXCEPT ![s] = b]
  BY <1>3 DEF b, Placed
<1>7. /\ array' \in [Scopes -> Seq(Insts \union {None})]
      /\ array'[s] = b /\ \A u \in Scopes \ {s} : array'[u] = array[u]
  BY <1>5, <1>6 DEF TypeOK
<1>8. \A u \in Scopes : Len(array'[u]) <= Len(slots')
  <2>1. \A u \in Scopes : Len(array[u]) \in Nat
    BY DEF TypeOK
  <2> QED
    BY <1>0, <1>5, <1>7, <2>1
<1>9. ASSUME NEW u \in Scopes, NEW e \in Known'
      PROVE  FindIn(slots', array'[u], e) = IF u = s /\ e = d THEN i ELSE FindIn(slots', array[u], e)
  <2>1. PICK m \in 1..Len(slots') : e = slots'[m]
    BY DEF Known
  <2>2. m = n <=> e = d
    BY <1>0, <1>1, <2>1 DEF IsInjective
  <2> QED
    BY <1>5, <1>7, <2>1, <2>2
<1>10. /\ order' \in [Scopes -> Seq(Descs)]
       /\ \A u \in Scopes : order'[u] = IF u = s THEN Append(order[u], d) ELSE order[u]
  <2>1. Append(order[s], d) \in Seq(Descs)
    BY <1>2 DEF TypeOK
  <2> QED
    BY <1>3, <2>1 DEF TypeOK
<1>11. /\ retired' \in [Scopes -> SUBSET Insts]
       /\ \A u \in Scopes : retired'[u] = IF u = s THEN {r \in retired[u] : inst[r].desc # d}
                                          ELSE retired[u]
  BY <1>3 DEF TypeOK
<1> QED
  BY <1>7, <1>8, <1>9, <1>10, <1>11

-----------------------------------------------------------------------------
(* Shape is preserved, and what each step does to what is found.           *)

\* Inside a call the root is started; so it is while a scope runs.
LEMMA RootStarted ==
    ASSUME Shape, frames # <<>> \/ \E s \in Scopes : state[s] # "Stopped"
    PROVE  root = "started"
BY DEF Shape, Quiescent

\* Calls start, go on or end; the stores and the bindings stay.
LEMMA ShapeQuiet ==
    ASSUME Shape, root = "started",
           UNCHANGED <<root, bound, slots, inst, store, pending, lost>>,
           state' \in [Scopes -> {"Stopped", "Running", "Stopping"}],
           frames' \in Seq(Frame), NEW m \in Nat, Below(m),
           \A n \in 1..m : frames[n].op # "root" => state'[frames[n].scope] = state[frames[n].scope],
           NEW f, Len(frames') = m + 1 => frames'[m + 1] = f /\ FrameOK(f)' /\ Fits(m, f)
    PROVE  Shape' /\ FindsKept /\ Known' = Known
<1>1. TypeOK'
  BY DEF Shape, TypeOK, store
<1>2. Numbering'
  BY DEF Shape, Numbering, Known, store
<1>3. Quiescent'
  BY DEF Quiescent
<1>4. Known' = Known
  BY DEF Known
<1>5. Stack'
  <2>1. \A n \in 1..m : frames[n].op # "root" => Undisturbed(frames[n].scope)
    BY DEF Undisturbed
  <2>2. Stack /\ Len(frames) \in Nat
    BY DEF Shape, TypeOK
  <2> QED
    BY <1>4, <2>1, <2>2, StackKept
<1>6. FindsKept
  BY <1>4, FindState DEF FindsKept, Found, store
<1> QED
  BY <1>1, <1>2, <1>3, <1>4, <1>5, <1>6 DEF Shape

\* The call that takes the place of the one on top has its scope.
LEMMA FitsTop ==
    ASSUME Shape, frames # <<>>, NEW f, f.scope = Top.scope, f.op = "root" => Top.op = "root",
           f.op \in {"start", "stop", "restart"} => Top.op \in {"start", "stop", "restart"},
           f.at = "construct" => Top.at = "construct" /\ f.desc = Top.desc
    PROVE  Fits(Depth - 1, f)
<1>1. /\ Depth \in Nat \ {0} /\ Len(frames) = Depth /\ Top = frames[Depth]
      /\ Depth \in 1..Len(frames)
  BY TopCall DEF Shape
<1>2. Stack
  BY DEF Shape
<1>3. f.op = "root" => Depth - 1 = 0
  BY <1>1, <1>2 DEF Stack
<1>4. ASSUME NEW n \in 1..Depth - 1
      PROVE  /\ f.op \in {"start", "stop", "restart"} \/ frames[n].op \in {"start", "stop", "restart"}
                  => frames[n].scope # f.scope
             /\ f.at = "construct" /\ frames[n].at = "construct" => frames[n].desc # f.desc
  <2>1. n \in 1..Len(frames) /\ n # Depth
    BY <1>1
  <2> QED
    BY <1>1, <1>2, <2>1 DEF Stack
<1> QED
  BY <1>3, <1>4 DEF Fits

\* A start, a stop or a restart is alone in its scope.
LEMMA AloneInScope ==
    ASSUME Shape, frames # <<>>, Top.op \in {"start", "stop", "restart"}, NEW n \in 1..Depth - 1
    PROVE  frames[n].scope # Top.scope
<1>1. /\ Depth \in Nat \ {0} /\ Len(frames) = Depth /\ Top = frames[Depth]
      /\ Depth \in 1..Len(frames) /\ n \in 1..Len(frames) /\ n # Depth
  BY TopCall DEF Shape
<1> QED
  BY <1>1 DEF Shape, Stack

\* What FrameOK says of the call on top.
LEMMA TopOK ==
    ASSUME Shape, frames # <<>>
    PROVE  FrameOK(Top) /\ Top \in Frame /\ root = "started"
<1>1. Top = frames[Depth] /\ Depth \in 1..Len(frames) /\ Top \in Frame
  BY TopCall DEF Shape
<1> QED
  BY <1>1, RootStarted DEF Shape, Stack

\* Calls end.
LEMMA ShapeCut ==
    ASSUME Shape, frames # <<>>, Finish \/ Raise,
           UNCHANGED <<root, bound, slots, inst, state, store, pending, lost>>
    PROVE  Shape' /\ FindsKept /\ Known' = Known
<1>1. frames' \in Seq(Frame) /\ Depth \in Nat
  BY CutFrames, TopCall DEF Shape
<1>2. PICK m \in 0..Depth - 1 : Below(m) /\ Len(frames') = m
  BY CutFrames DEF Shape
<1>3. state' \in [Scopes -> {"Stopped", "Running", "Stopping"}] /\ root = "started" /\ m \in Nat
      /\ Len(frames') # m + 1
  BY <1>1, <1>2, TopOK DEF Shape, TypeOK
<1> QED
  BY <1>1, <1>2, <1>3, ShapeQuiet

\* A call goes on as f.
LEMMA ShapeGoto ==
    ASSUME Shape, frames # <<>>, NEW f \in Frame, Goto(f),
           UNCHANGED <<root, bound, slots, inst, state, store, pending, lost>>,
           FrameOK(f)', Fits(Depth - 1, f)
    PROVE  Shape' /\ FindsKept /\ Known' = Known
<1>1. /\ frames' \in Seq(Frame) /\ Below(Depth - 1) /\ Depth \in Nat \ {0}
      /\ Len(frames') = Depth /\ frames'[Depth] = f
  BY GotoFrames, TopCall DEF Shape
<1>2. PICK m \in Nat : m = Depth - 1
  BY <1>1
<1>3. Below(m) /\ Fits(m, f) /\ (Len(frames') = m + 1 => frames'[m + 1] = f)
  BY <1>1, <1>2
<1>4. state' \in [Scopes -> {"Stopped", "Running", "Stopping"}] /\ root = "started"
  BY TopOK DEF Shape, TypeOK
<1> QED
  BY <1>1, <1>3, <1>4, ShapeQuiet

\* A call f starts.
LEMMA ShapePush ==
    ASSUME Shape, root = "started", NEW f \in Frame, frames' = Append(frames, f),
           UNCHANGED <<root, bound, slots, inst, store, pending, lost>>,
           state' \in [Scopes -> {"Stopped", "Running", "Stopping"}],
           \A n \in 1..Depth : frames[n].op # "root" => state'[frames[n].scope] = state[frames[n].scope],
           FrameOK(f)', Fits(Depth, f)
    PROVE  Shape' /\ FindsKept /\ Known' = Known
<1>1. /\ frames' \in Seq(Frame) /\ Below(Depth) /\ Depth \in Nat
      /\ Len(frames') = Depth + 1 /\ frames'[Depth + 1] = f
  BY PushFrames DEF Shape, Depth, TypeOK
<1>2. PICK m \in Nat : m = Depth
  BY <1>1
<1>3. Below(m) /\ Fits(m, f) /\ (Len(frames') = m + 1 => frames'[m + 1] = f)
      /\ \A n \in 1..m : frames[n].op # "root" => state'[frames[n].scope] = state[frames[n].scope]
  BY <1>1, <1>2
<1> QED
  BY <1>1, <1>3, ShapeQuiet

\* A constructor starts.
LEMMA ShapeMake ==
    ASSUME Shape, NEW s \in Scopes, state[s] = "Running", NEW b \in Beans, ~InConstruction(b),
           frames' = Append(frames, Call("make", "construct", s, b, <<>>)),
           UNCHANGED <<root, bound, slots, inst, state, store, pending, lost>>
    PROVE  /\ Shape' /\ FindsKept /\ Known' = Known /\ b \in Known
           /\ \E f : Rises(f) /\ f.op = "make" /\ f.scope = s /\ f.desc = b
<1>1. root = "started"
  BY RootStarted
<1>2. PICK f : f = Call("make", "construct", s, b, <<>>)
  OBVIOUS
<1>3. f \in Frame
  <2>1. <<>> \in Seq(Descs \union Insts) /\ b \in Descs
    BY DEF Descs
  <2> QED
    BY <1>2, <2>1 DEF Call, Frame
<1>4. f.op = "make" /\ f.at = "construct" /\ f.scope = s /\ f.desc = b
  BY <1>2 DEF Call
<1>5. Known' = Known /\ b \in Known
  BY <1>1 DEF Known, Shape, Numbering
<1>6. FrameOK(f)'
  BY <1>4, <1>5 DEF FrameOK
<1>7. Fits(Depth, f)
  <2>1. ASSUME NEW n \in 1..Depth, frames[n].op \in {"start", "stop", "restart"}
        PROVE  frames[n].scope # s
    <3>1. FrameOK(frames[n])
      BY DEF Shape, Stack, Depth
    <3> QED
      BY <2>1, <3>1 DEF FrameOK
  <2> QED
    BY <1>4, <2>1 DEF Fits, InConstruction
<1>8. state' \in [Scopes -> {"Stopped", "Running", "Stopping"}]
  BY DEF Shape, TypeOK
<1>9. Shape' /\ FindsKept /\ Known' = Known
  BY <1>1, <1>2, <1>3, <1>6, <1>7, <1>8, ShapePush
<1>10. Rises(f)
  BY <1>2, <1>3, PushFrames DEF Rises, Shape
<1> QED
  BY <1>4, <1>5, <1>9, <1>10

\* A scope begins to stop.
LEMMA ShapeStopping ==
    ASSUME Shape, NEW s \in Scopes, state[s] = "Running", NEW op \in {"stop", "restart"},
           \A n \in 1..Depth : frames[n].scope # s, Stopping(s, op),
           UNCHANGED <<root, bound, slots, inst, store, pending, lost>>
    PROVE  /\ Shape' /\ FindsKept /\ Known' = Known
           /\ \A u \in Scopes : state'[u] = IF u = s THEN "Stopping" ELSE state[u]
           /\ \E f : Rises(f) /\ f.op = op /\ f.at = "next" /\ f.scope = s /\ f.todo = order[s]
<1>1. root = "started"
  BY RootStarted
<1>2. PICK f : f = Call(op, "next", s, None, order[s])
  OBVIOUS
<1>3. f \in Frame
  <2>1. order[s] \in Seq(Descs \union Insts)
    BY DEF Shape, TypeOK
  <2> QED
    BY <1>2, <2>1 DEF Call, Frame
<1>4. f.op = op /\ f.at = "next" /\ f.scope = s /\ f.todo = order[s]
  BY <1>2 DEF Call
<1>5. /\ state' \in [Scopes -> {"Stopped", "Running", "Stopping"}]
      /\ state'[s] = "Stopping" /\ \A u \in Scopes \ {s} : state'[u] = state[u]
  BY DEF Stopping, Shape, TypeOK
<1>6. FrameOK(f)'
  <2>1. Known' = Known /\ \A n \in 1..Len(order[s]) : order[s][n] \in Known
    BY DEF Known, Shape, Numbering
  <2>2. Todo(f) \subseteq Known'
    BY <1>4, <2>1 DEF Todo
  <2> QED
    BY <1>4, <1>5, <2>2 DEF FrameOK, Todo
<1>7. Fits(Depth, f)
  BY <1>4 DEF Fits
<1>8. ASSUME NEW n \in 1..Depth, frames[n].op # "root"
      PROVE  state'[frames[n].scope] = state[frames[n].scope]
  <2>1. FrameOK(frames[n])
    BY DEF Shape, Stack, Depth
  <2> QED
    BY <1>5, <1>8, <2>1 DEF FrameOK
<1>9. frames' = Append(frames, f)
  BY <1>2 DEF Stopping
<1>10. Shape' /\ FindsKept /\ Known' = Known
  BY <1>1, <1>2, <1>3, <1>5, <1>6, <1>7, <1>8, <1>9, ShapePush
<1>11. Rises(f)
  BY <1>3, <1>9, PushFrames DEF Rises, Shape
<1> QED
  BY <1>4, <1>5, <1>10, <1>11

\* A callback of start() returns: the next binding.
LEMMA ShapeStartReturns ==
    ASSUME Shape, StartCallbackReturns
    PROVE  /\ Shape' /\ FindsKept /\ Known' = Known
           /\ \E f : Moves(f) /\ f.op = "start" /\ f.at = "next"
<1>1. /\ frames # <<>> /\ Top.op = "start" /\ Top.at = "callback"
      /\ UNCHANGED <<root, bound, slots, inst, state, store, pending, lost>>
  BY DEF StartCallbackReturns, At
<1>2. FrameOK(Top) /\ Top \in Frame
  BY <1>1, TopOK
<1>3. Top.todo \in Seq(Descs \union Insts) /\ Top.todo # <<>>
  BY <1>1, <1>2 DEF FrameOK, Frame
<1>4. /\ Tail(Top.todo) \in Seq(Descs \union Insts)
      /\ \A n \in 1..Len(Tail(Top.todo)) : n + 1 \in 1..Len(Top.todo) /\ Tail(Top.todo)[n] = Top.todo[n + 1]
  BY <1>3
<1>5. PICK f : f = [Top EXCEPT !.at = "next", !.todo = Tail(Top.todo)]
  OBVIOUS
<1>6. f \in Frame /\ f.op = "start" /\ f.at = "next" /\ f.scope = Top.scope /\ f.todo = Tail(Top.todo)
  BY <1>1, <1>2, <1>4, <1>5 DEF Frame
<1>7. Goto(f)
  BY <1>2, <1>5 DEF StartCallbackReturns, Frame
<1>8. FrameOK(f)'
  <2>1. Todo(f) \subseteq Todo(Top)
    BY <1>4, <1>6 DEF Todo
  <2>2. Todo(Top) \subseteq Queued(Top.scope) /\ Top.scope \in Scopes /\ state[Top.scope] = "Stopped"
    BY <1>1, <1>2 DEF FrameOK
  <2>3. PICK s : s = Top.scope
    OBVIOUS
  <2>4. Todo(f) \subseteq Queued(s)' /\ state'[s] = "Stopped"
    BY <1>1, <2>1, <2>2, <2>3 DEF Queued
  <2>5. f.scope = s /\ Todo(f)' = Todo(f)
    BY <1>6, <2>3
  <2> QED
    BY <1>6, <2>2, <2>3, <2>4, <2>5 DEF FrameOK
<1>9. Fits(Depth - 1, f)
  BY <1>1, <1>6, FitsTop
<1>10. Shape' /\ FindsKept /\ Known' = Known
  BY <1>1, <1>6, <1>7, <1>8, <1>9, ShapeGoto
<1>11. Moves(f)
  BY <1>1, <1>6, <1>7, GotoFrames DEF Moves, Shape
<1> QED
  BY <1>6, <1>10, <1>11

\* What a sweep does to the call that runs it.
SweepFrame(f, d) ==
    /\ f.op = Top.op /\ f.scope = Top.scope /\ f.desc = d
    /\ f.todo = SubSeq(Top.todo, 1, Len(Top.todo) - 1)
    /\ f.at = IF Find(Top.scope, d) = None THEN "next" ELSE "callback"

\* The sweep of stop() or restart() takes the next descriptor.
LEMMA ShapeSweep ==
    ASSUME Shape, Sweep
    PROVE  /\ Shape' /\ FindsKept /\ Known' = Known
           /\ \E f \in Frame : Moves(f) /\ SweepFrame(f, Top.todo[Len(Top.todo)])
<1>1. /\ frames # <<>> /\ Top.op \in {"stop", "restart"} /\ Top.at = "next" /\ Top.todo # <<>>
      /\ UNCHANGED <<root, bound, slots, inst, state, store, pending, lost>>
  BY DEF Sweep, Sweeping, At
<1>2. FrameOK(Top) /\ Top \in Frame
  BY <1>1, TopOK
<1>3. Top.todo \in Seq(Descs \union Insts) /\ Len(Top.todo) \in Nat \ {0}
  BY <1>1, <1>2 DEF Frame
<1> DEFINE q == SubSeq(Top.todo, 1, Len(Top.todo) - 1)
           d == Top.todo[Len(Top.todo)]
           a == IF Find(Top.scope, d) = None THEN "next" ELSE "callback"
<1>4. /\ q \in Seq(Descs \union Insts) /\ Len(q) = Len(Top.todo) - 1
      /\ \A n \in 1..Len(q) : n \in 1..Len(Top.todo) /\ q[n] = Top.todo[n]
  BY <1>3
<1>5. Todo(Top) \subseteq Known /\ Known \subseteq Descs
  BY <1>1, <1>2 DEF FrameOK, Known, Shape, TypeOK
<1>6. d \in Known
  BY <1>3, <1>5 DEF Todo
<1>7. PICK f : f = [Top EXCEPT !.todo = q, !.desc = d, !.at = a]
  OBVIOUS
<1>8. Goto(f)
  BY <1>2, <1>7 DEF Sweep, Frame
<1> HIDE DEF q, d
<1>9. f \in Frame /\ f.op = Top.op /\ f.at = a /\ f.scope = Top.scope /\ f.todo = q /\ f.desc = d
  BY <1>1, <1>2, <1>4, <1>5, <1>6, <1>7 DEF Frame
<1>10. FrameOK(f)'
  <2>1. Todo(f) \subseteq Known
    BY <1>4, <1>5, <1>9 DEF Todo
  <2>2. Top.scope \in Scopes /\ state[Top.scope] = "Stopping"
    BY <1>1, <1>2 DEF FrameOK
  <2>3. PICK s : s = Top.scope
    OBVIOUS
  <2>4. PICK e : e = d
    OBVIOUS
  <2>5. Known' = Known
    BY <1>1 DEF Known
  <2>6. /\ f.scope = s /\ f.desc = e /\ e \in Known' /\ f.at \in {"next", "callback"}
        /\ f.op \in {"stop", "restart"} /\ s \in Scopes /\ state'[s] = "Stopping" /\ Todo(f) \subseteq Known'
    BY <1>1, <1>6, <1>9, <2>1, <2>2, <2>3, <2>4, <2>5
  <2> QED
    BY <2>6 DEF FrameOK, Todo
<1>11. Fits(Depth - 1, f)
  BY <1>1, <1>9, FitsTop
<1>12. SweepFrame(f, d)
  BY <1>9 DEF SweepFrame, q
<1>13. Shape' /\ FindsKept /\ Known' = Known
  BY <1>1, <1>8, <1>9, <1>10, <1>11, ShapeGoto
<1>14. Moves(f)
  BY <1>1, <1>8, <1>9, GotoFrames DEF Moves, Shape
<1> QED
  BY <1>9, <1>12, <1>13, <1>14 DEF d

\* The root begins to stop.
LEMMA ShapeRootStop ==
    ASSUME Shape, RootStop
    PROVE  /\ Shape' /\ FindsKept /\ Known' = Known
           /\ \E f : Rises(f) /\ f.op = "root" /\ f.at = "next"
<1>1. /\ frames = <<>> /\ root = "started" /\ frames' = <<Call("root", "next", None, None, <<>>)>>
      /\ UNCHANGED <<root, bound, slots, inst, state, store, pending, lost>>
  BY DEF RootStop
<1>2. PICK f : f = Call("root", "next", None, None, <<>>)
  OBVIOUS
<1>3. f \in Frame
  <2>1. <<>> \in Seq(Descs \union Insts)
    OBVIOUS
  <2> QED
    BY <1>2, <2>1 DEF Call, Frame
<1>4. Depth = 0 /\ frames' = Append(frames, f)
  BY <1>1, <1>2 DEF Depth
<1>5. FrameOK(f)'
  BY <1>2 DEF FrameOK, Call
<1>6. Fits(Depth, f)
  BY <1>2, <1>4 DEF Fits, Call
<1>7. state' \in [Scopes -> {"Stopped", "Running", "Stopping"}]
  BY <1>1 DEF Shape, TypeOK
<1>8. Shape' /\ FindsKept /\ Known' = Known
  BY <1>1, <1>3, <1>4, <1>5, <1>6, <1>7, ShapePush
<1>9. Rises(f) /\ f.op = "root" /\ f.at = "next"
  BY <1>2, <1>3, <1>4, PushFrames DEF Rises, Shape, Call
<1> QED
  BY <1>8, <1>9

-----------------------------------------------------------------------------
(* Steps that change instances, arrays and bindings.                       *)

\* What is left of a life l of instance i when F is freed and K destroyed.
LifeAfter(l, i, F, K) ==
    IF i \in F THEN IF l = "freed" THEN "corrupt" ELSE "freed"
    ELSE IF i \in K THEN IF l = "made" THEN "destroyed" ELSE "corrupt"
    ELSE l

InstAfter(F, K) ==
    \A i \in 1..Len(inst) :
        /\ inst'[i].desc = inst[i].desc /\ inst'[i].scope = inst[i].scope
        /\ inst'[i].life = LifeAfter(inst[i].life, i, F, K)

\* One more instance.
InstMade(d, s, F) ==
    /\ Len(inst') = Len(inst) + 1 /\ InstAfter(F, {})
    /\ LET n == Len(inst) + 1 IN
        inst'[n].desc = d /\ inst'[n].scope = s /\ inst'[n].life = LifeAfter("made", n, F, {})

\* What After does to the instances, one by one.
LEMMA AfterState ==
    ASSUME TypeOK, NEW F, NEW K, F \cap K = {}, inst' = After(inst, F, K)
    PROVE  inst' \in Seq(Instance) /\ Len(inst') = Len(inst) /\ InstAfter(F, K)
<1>1. inst \in Seq(Instance)
  BY DEF TypeOK, Instance
<1> QED
  BY <1>1, AfterIs DEF InstAfter, LifeAfter

\* An instance is added and blocks are freed, instance by instance.
LEMMA MadeState ==
    ASSUME TypeOK, NEW d \in Descs, NEW s \in Scopes, NEW F,
           inst' = After(Append(inst, Made(d, s)), F, {})
    PROVE  inst' \in Seq(Instance) /\ InstMade(d, s, F)
<1>1. inst \in Seq(Instance) /\ Len(inst) \in Nat
  BY DEF TypeOK, Instance
<1>2. Made(d, s) \in Instance
  BY DEF Made, Instance
<1> DEFINE is == Append(inst, Made(d, s))
<1>3. /\ is \in Seq(Instance) /\ Len(is) = Len(inst) + 1 /\ is[Len(inst) + 1] = Made(d, s)
      /\ \A i \in 1..Len(inst) : is[i] = inst[i]
  BY <1>1, <1>2
<1> HIDE DEF is
<1>4. /\ inst' \in Seq(Instance) /\ Len(inst') = Len(is)
      /\ \A i \in 1..Len(is) :
           /\ inst'[i].desc = is[i].desc /\ inst'[i].scope = is[i].scope
           /\ inst'[i].life = LifeAfter(is[i].life, i, F, {})
  <2>1. F \cap {} = {} /\ inst' = After(is, F, {})
    BY DEF is
  <2> QED
    BY <1>3, <2>1, AfterIs DEF LifeAfter
<1>5. \A i \in 1..Len(inst) : i \in 1..Len(is)
  BY <1>1, <1>3
<1>6. Len(inst) + 1 \in 1..Len(is)
  BY <1>1, <1>3
<1>7. InstAfter(F, {})
  BY <1>3, <1>4, <1>5 DEF InstAfter
<1> QED
  BY <1>3, <1>4, <1>6, <1>7 DEF InstMade, Made

\* What store() does, seen from the descriptors.
StoreStep(s, d, i) ==
    /\ d \in Known' /\ Known \subseteq Known' /\ FindsStored(s, d, i)
    /\ \A u \in Scopes : order'[u] = IF u = s THEN Append(order[u], d) ELSE order[u]
    /\ \A u \in Scopes : retired'[u] = IF u = s THEN {r \in retired[u] : inst[r].desc # d} ELSE retired[u]

\* store(): an instance gets the slot of a descriptor that has one.
LEMMA ShapeStore ==
    ASSUME Shape, root = "started", UNCHANGED <<root, state, pending, lost>>,
           bound' \in Seq(BindKeys), slots' \in Seq(Descs), IsInjective(slots'),
           Len(slots) <= Len(slots'),
           Known' = Beans \union 1..Len(bound'), Known \subseteq Known',
           NEW s \in Scopes, NEW d \in Known', NEW i \in Insts, Store(s, d, i, slots'),
           \A u \in Scopes : \A e \in Known' : FindIn(slots', array[u], e) = Found(u, e),
           inst' \in Seq(Instance), Len(inst) <= Len(inst'), Len(inst') <= MaxInst, Len(bound') <= Len(inst'),
           \A j \in 1..Len(inst') : inst'[j].desc \in Beans \union 1..Len(bound'),
           frames' \in Seq(Frame), NEW m \in Nat, Below(m),
           NEW f, Len(frames') = m + 1 => frames'[m + 1] = f /\ FrameOK(f)' /\ Fits(m, f)
    PROVE  Shape' /\ StoreStep(s, d, i)
<1>0. TypeOK /\ \A u \in Scopes : Len(array[u]) <= Len(slots)
  BY DEF Shape, Numbering
<1>1. /\ array' \in [Scopes -> Seq(Insts \union {None})]
      /\ order' \in [Scopes -> Seq(Descs)] /\ retired' \in [Scopes -> SUBSET Insts]
      /\ \A u \in Scopes : Len(array'[u]) <= Len(slots')
      /\ \A u \in Scopes : \A e \in Known' :
            FindIn(slots', array'[u], e) = IF u = s /\ e = d THEN i ELSE FindIn(slots', array[u], e)
      /\ \A u \in Scopes : order'[u] = IF u = s THEN Append(order[u], d) ELSE order[u]
      /\ \A u \in Scopes : retired'[u] = IF u = s THEN {r \in retired[u] : inst[r].desc # d}
                                         ELSE retired[u]
  BY <1>0, StoreEffect
<1>2. TypeOK'
  BY <1>0, <1>1 DEF TypeOK, Instance
<1>3. ASSUME NEW u \in Scopes, NEW n \in 1..Len(order'[u])
      PROVE  order'[u][n] \in Known'
  <2>1. order[u] \in Seq(Descs) /\ d \in Descs
    BY <1>0 DEF TypeOK, Known
  <2>0. CASE u # s
    BY <1>1, <2>0 DEF Shape, Numbering
  <2>4. /\ Len(Append(order[u], d)) = Len(order[u]) + 1
        /\ \A j \in 1..Len(order[u]) : Append(order[u], d)[j] = order[u][j]
        /\ \A j \in 1..Len(order[u]) + 1 : j \notin 1..Len(order[u]) => Append(order[u], d)[j] = d
    BY ONLY <2>1, AppendIs
  <2>2. CASE u = s /\ n \in 1..Len(order[u])
    <3>1. order[u][n] \in Known
      BY <2>2 DEF Shape, Numbering
    <3>2. order'[u][n] = order[u][n]
      BY <1>1, <2>2, <2>4
    <3> QED
      BY <3>1, <3>2
  <2>3. CASE u = s /\ n \notin 1..Len(order[u])
    BY <1>1, <2>3, <2>4
  <2> QED
    BY <2>0, <2>2, <2>3
<1>8. \A u \in Scopes : \A n \in 1..Len(pending'[u]) : pending'[u][n] \in 1..Len(inst')
  <2>1. \A u \in Scopes : \A n \in 1..Len(pending[u]) : pending[u][n] \in 1..Len(inst)
    BY DEF Shape, Numbering
  <2>2. Len(inst) \in Nat /\ Len(inst') \in Nat
    BY <1>0 DEF TypeOK
  <2>3. 1..Len(inst) \subseteq 1..Len(inst')
    BY <2>2
  <2> QED
    BY <2>1, <2>3
<1>4. Numbering'
  BY <1>1, <1>3, <1>8 DEF Numbering
<1>5. Quiescent'
  BY DEF Quiescent
<1>6. Stack'
  <2>1. \A n \in 1..m : frames[n].op # "root" => Undisturbed(frames[n].scope)
    BY DEF Undisturbed
  <2>2. Stack /\ Len(frames) \in Nat
    BY DEF Shape, TypeOK
  <2> QED
    BY <2>1, <2>2, StackKept
<1>7. FindsStored(s, d, i)
  BY <1>1, FindState DEF FindsStored
<1> QED
  BY <1>1, <1>2, <1>4, <1>5, <1>6, <1>7 DEF Shape, StoreStep

\* bindSession in a running scope.
LEMMA ShapeBindRunning ==
    ASSUME Shape, NEW s \in Scopes, NEW k \in BindKeys, BindRunning(s, k)
    PROVE  /\ Shape' /\ UNCHANGED <<root, state, pending, lost>> /\ state[s] = "Running"
           /\ \E f : Rises(f) /\ f.op = "bind" /\ f.at = "callback"
           /\ \E d \in Nat :
                /\ StoreStep(s, d, Len(inst) + 1) /\ InstMade(d, s, Replaced(s, d))
                /\ d \in Known => Find(s, d) = None
<1>1. PICK d : d = BindDesc(k)
  OBVIOUS
<1>2. /\ state[s] = "Running" /\ Len(inst) < MaxInst
      /\ d <= Len(bound) => Find(s, d) = None
      /\ bound' = IF d > Len(bound) THEN Append(bound, k) ELSE bound
      /\ slots' = KnownSlots(d)
      /\ inst' = After(Append(inst, Made(d, s)), Replaced(s, d), {})
      /\ Store(s, d, Len(inst) + 1, slots')
      /\ frames' = Append(frames, Call("bind", "callback", s, d, <<>>))
      /\ UNCHANGED <<root, state, pending, lost>>
  BY <1>1 DEF BindRunning, Push
<1>3. root = "started"
  BY <1>2, RootStarted
<1>4. TypeOK /\ Numbering /\ Stack
  BY DEF Shape
<1>5. /\ d \in 1..Len(bound) + 1 /\ d \in BoundIds
      /\ bound' \in Seq(BindKeys) /\ slots' \in Seq(Descs)
      /\ Len(bound') \in {Len(bound), Len(bound) + 1} /\ d \in 1..Len(bound')
      /\ IsInjective(slots') /\ Len(slots) <= Len(slots')
      /\ Known' = Beans \union 1..Len(bound')
      /\ Known \subseteq Known' /\ d \in Known'
      /\ \A u \in Scopes : \A e \in Known' : FindIn(slots', array[u], e) = Found(u, e)
  BY <1>1, <1>2, <1>3, <1>4, SlotsExtended
<1>6. d \in Descs /\ Len(inst) \in Nat /\ Len(inst) + 1 \in Insts /\ Len(bound) \in Nat /\ d \in Nat
      /\ Len(bound) <= Len(inst)
  BY <1>2, <1>4, <1>5, ScopeConstants DEF Descs, TypeOK, Insts, Numbering
<1>7. inst' \in Seq(Instance) /\ InstMade(d, s, Replaced(s, d))
  BY <1>2, <1>4, <1>6, MadeState
<1>8. Len(inst) <= Len(inst') /\ Len(inst') <= MaxInst /\ Len(bound') <= Len(inst')
  BY <1>2, <1>5, <1>6, <1>7, ScopeConstants DEF InstMade
<1>9. \A j \in 1..Len(inst') : inst'[j].desc \in Beans \union 1..Len(bound')
  <2>1. \A j \in 1..Len(inst') : j \in 1..Len(inst) \/ j = Len(inst) + 1
    BY <1>6, <1>7 DEF InstMade
  <2>2. \A j \in 1..Len(inst) : inst[j].desc \in Beans \union 1..Len(bound')
    BY <1>4, <1>5, <1>6 DEF Numbering
  <2> QED
    BY <1>5, <1>7, <2>1, <2>2 DEF InstMade, InstAfter
<1>10. PICK f : f = Call("bind", "callback", s, d, <<>>)
  OBVIOUS
<1>11. f \in Frame /\ f.op = "bind" /\ f.at = "callback" /\ f.scope = s /\ f.desc = d
  <2>1. <<>> \in Seq(Descs \union Insts)
    OBVIOUS
  <2> QED
    BY <1>6, <1>10, <2>1 DEF Call, Frame
<1>12. FrameOK(f)'
  BY <1>2, <1>5, <1>11 DEF FrameOK
<1>13. Fits(Depth, f)
  <2>1. ASSUME NEW n \in 1..Depth, frames[n].op \in {"start", "stop", "restart"}
        PROVE  frames[n].scope # s
    <3>1. FrameOK(frames[n])
      BY <1>4 DEF Stack, Depth
    <3> QED
      BY <1>2, <2>1, <3>1 DEF FrameOK
  <2> QED
    BY <1>11, <2>1 DEF Fits
<1>14. PICK m \in Nat : m = Depth
  BY <1>4 DEF Depth, TypeOK
<1>15. /\ frames' \in Seq(Frame) /\ Below(m) /\ Len(frames') = m + 1 /\ frames'[m + 1] = f
  BY <1>2, <1>4, <1>10, <1>11, <1>14, PushFrames
<1>16. Shape' /\ StoreStep(s, d, Len(inst) + 1)
  <2>1. PICK i \in Insts : i = Len(inst) + 1
    BY <1>6
  <2>2. Store(s, d, i, slots') /\ Fits(m, f)
    BY <1>2, <1>13, <1>14, <2>1
  <2>3. Shape' /\ StoreStep(s, d, i)
    BY <1>2, <1>3, <1>5, <1>7, <1>8, <1>9, <1>12, <1>15, <2>2, ShapeStore
  <2> QED
    BY <2>1, <2>3
<1>17. d \in Known => Find(s, d) = None
  <2>1. d \in Known => d <= Len(bound)
    <3>1. \A b \in Beans : b \notin Nat
      BY ScopeConstants
    <3>2. Known = Beans \union 1..Len(bound)
      BY <1>3, <1>4 DEF Numbering
    <3> QED
      BY <1>6, <3>1, <3>2
  <2> QED
    BY <1>2, <2>1
<1>18. Rises(f)
  BY <1>14, <1>15 DEF Rises
<1> QED
  BY <1>2, <1>6, <1>7, <1>11, <1>16, <1>17, <1>18

\* A constructor returns.
LEMMA ShapeConstructed ==
    ASSUME Shape, Constructed
    PROVE  /\ Shape' /\ UNCHANGED <<root, state, pending, lost>>
           /\ StoreStep(Top.scope, Top.desc, Len(inst) + 1)
           /\ InstMade(Top.desc, Top.scope, Replaced(Top.scope, Top.desc))
           /\ \E f : Moves(f) /\ f.op = "make" /\ f.at = "callback"
<1>1. /\ frames # <<>> /\ Top.op = "make" /\ Top.at = "construct" /\ Len(inst) < MaxInst
      /\ inst' = After(Append(inst, Made(Top.desc, Top.scope)), Replaced(Top.scope, Top.desc), {})
      /\ Store(Top.scope, Top.desc, Len(inst) + 1, slots)
      /\ Goto([Top EXCEPT !.at = "callback"])
      /\ UNCHANGED <<root, bound, slots, state, pending, lost>>
  BY DEF Constructed, At
<1>2. FrameOK(Top) /\ Top \in Frame /\ root = "started"
  BY <1>1, TopOK
<1>3. TypeOK /\ Numbering /\ Stack
  BY DEF Shape
<1>4. PICK s, d : s = Top.scope /\ d = Top.desc
  OBVIOUS
<1>5. s \in Scopes /\ d \in Beans /\ d \in Known /\ d \in Descs /\ state[s] = "Running"
  BY <1>1, <1>2, <1>4 DEF FrameOK, Descs
<1>6. inst' \in Seq(Instance) /\ InstMade(d, s, Replaced(s, d))
  BY <1>1, <1>3, <1>4, <1>5, MadeState
<1>7. /\ Len(inst) \in Nat /\ Len(inst) + 1 \in Insts /\ Len(inst') = Len(inst) + 1
      /\ Len(inst') <= MaxInst /\ Len(bound) <= Len(inst) /\ Len(bound) \in Nat
  BY <1>1, <1>3, <1>6, ScopeConstants DEF TypeOK, Insts, Numbering, InstMade
<1>8. \A j \in 1..Len(inst') : inst'[j].desc \in Beans \union 1..Len(bound)
  <2>1. \A j \in 1..Len(inst') : j \in 1..Len(inst) \/ j = Len(inst) + 1
    BY <1>7
  <2>2. \A j \in 1..Len(inst) : inst[j].desc \in Beans \union 1..Len(bound)
    BY <1>3 DEF Numbering
  <2> QED
    BY <1>5, <1>6, <2>1, <2>2 DEF InstMade, InstAfter
<1>9. Known' = Known /\ Known = Beans \union 1..Len(bound)
  BY <1>1, <1>2, <1>3 DEF Known, Numbering
<1>10. PICK f : f = [Top EXCEPT !.at = "callback"]
  OBVIOUS
<1>11. f \in Frame /\ f.op = "make" /\ f.at = "callback" /\ f.scope = s /\ f.desc = d /\ Goto(f)
  BY <1>1, <1>2, <1>4, <1>10 DEF Frame
<1>12. FrameOK(f)'
  BY <1>1, <1>5, <1>9, <1>11 DEF FrameOK
<1>13. Fits(Depth - 1, f)
  BY <1>1, <1>4, <1>11, FitsTop
<1>14. Depth \in Nat \ {0} /\ frames' \in Seq(Frame) /\ Moves(f)
  BY <1>1, <1>3, <1>11, GotoFrames, TopCall DEF Moves
<1>15. PICK m \in Nat : m = Depth - 1
  BY <1>14
<1>16. Below(m) /\ Fits(m, f) /\ (Len(frames') = m + 1 => frames'[m + 1] = f)
  BY <1>13, <1>14, <1>15 DEF Moves
<1>17. \A u \in Scopes : \A e \in Known' : FindIn(slots', array[u], e) = Found(u, e)
  BY <1>1, <1>9, FindState DEF Found
<1>18. /\ bound' \in Seq(BindKeys) /\ slots' \in Seq(Descs) /\ IsInjective(slots')
       /\ Len(slots) <= Len(slots') /\ Known' = Beans \union 1..Len(bound') /\ Known \subseteq Known'
       /\ Len(inst) <= Len(inst') /\ Len(bound') <= Len(inst') /\ d \in Known'
       /\ \A j \in 1..Len(inst') : inst'[j].desc \in Beans \union 1..Len(bound')
  BY <1>1, <1>3, <1>5, <1>7, <1>8, <1>9 DEF TypeOK, Numbering
<1>19. PICK i \in Insts : i = Len(inst) + 1
  BY <1>7
<1>20. Store(s, d, i, slots')
  BY <1>1, <1>4, <1>19
<1>21. Shape' /\ StoreStep(s, d, i)
  BY <1>1, <1>2, <1>5, <1>6, <1>7, <1>12, <1>14, <1>16, <1>17, <1>18, <1>20, ShapeStore
<1> QED
  BY <1>1, <1>4, <1>6, <1>11, <1>14, <1>19, <1>21

\* start() stores the next pending binding.
LEMMA ShapeStartStores ==
    ASSUME Shape, StartStores
    PROVE  /\ Shape' /\ UNCHANGED <<root, state, pending, lost>>
           /\ LET i == Head(Top.todo) IN
              /\ i \in Queued(Top.scope)
              /\ StoreStep(Top.scope, inst[i].desc, i)
              /\ Len(inst') = Len(inst) /\ InstAfter(Replaced(Top.scope, inst[i].desc), {})
           /\ \E f : Moves(f) /\ f.op = "start" /\ f.at = "callback"
<1>1. /\ frames # <<>> /\ Top.op = "start" /\ Top.at = "next" /\ Top.todo # <<>>
      /\ UNCHANGED <<root, bound, slots, state, pending, lost>>
  BY DEF StartStores, At
<1>2. FrameOK(Top) /\ Top \in Frame /\ root = "started"
  BY <1>1, TopOK
<1>3. TypeOK /\ Numbering /\ Stack
  BY DEF Shape
<1>4. PICK i, s, d : i = Head(Top.todo) /\ s = Top.scope /\ d = inst[i].desc
  OBVIOUS
<1>5. /\ Store(s, d, i, slots') /\ inst' = After(inst, Replaced(s, d), {})
      /\ Goto([Top EXCEPT !.at = "callback", !.desc = d])
  BY <1>1, <1>4 DEF StartStores
<1>6. s \in Scopes /\ Todo(Top) \subseteq Queued(s) /\ state[s] = "Stopped"
  BY <1>1, <1>2, <1>4 DEF FrameOK
<1>7. i \in Todo(Top)
  <2>1. Top.todo \in Seq(Descs \union Insts)
    BY <1>2 DEF Frame
  <2>2. 1 \in 1..Len(Top.todo) /\ Head(Top.todo) = Top.todo[1]
    BY <1>1, <2>1
  <2> QED
    BY <1>4, <2>2 DEF Todo
<1>8. i \in Queued(s) /\ i \in 1..Len(inst) /\ i \in Insts
  <2>1. i \in Queued(s)
    BY <1>6, <1>7
  <2>2. i \in 1..Len(inst)
    BY <1>3, <1>6, <2>1 DEF Queued, Numbering
  <2> QED
    BY <1>3, <2>1, <2>2, ScopeConstants DEF TypeOK, Insts, Numbering
<1>9. Known' = Known /\ Known = Beans \union 1..Len(bound)
  BY <1>1, <1>2, <1>3 DEF Known, Numbering
<1>10. d \in Known /\ d \in Descs
  <2>1. d \in Known
    BY <1>3, <1>4, <1>8, <1>9 DEF Numbering
  <2> QED
    BY <1>3, <2>1 DEF Known, TypeOK
<1>11. inst' \in Seq(Instance) /\ Len(inst') = Len(inst) /\ InstAfter(Replaced(s, d), {})
  BY <1>3, <1>5, AfterState
<1>12. PICK f : f = [Top EXCEPT !.at = "callback", !.desc = d]
  OBVIOUS
<1>13. /\ f \in Frame /\ f.op = "start" /\ f.at = "callback" /\ f.scope = s /\ f.desc = d
       /\ f.todo = Top.todo /\ Goto(f)
  BY <1>1, <1>2, <1>4, <1>5, <1>10, <1>12 DEF Frame
<1>14. FrameOK(f)'
  <2>1. Todo(f) \subseteq Queued(s)
    BY <1>6, <1>13 DEF Todo
  <2>2. Todo(f) \subseteq Queued(s)' /\ state'[s] = "Stopped" /\ d \in Known' /\ f.todo # <<>>
    BY <1>1, <1>6, <1>9, <1>10, <1>13, <2>1 DEF Queued
  <2>3. Todo(f)' = Todo(f)
    BY DEF Todo
  <2> QED
    BY <1>6, <1>13, <2>2, <2>3 DEF FrameOK
<1>15. Fits(Depth - 1, f)
  BY <1>1, <1>4, <1>13, FitsTop
<1>16. Depth \in Nat \ {0} /\ frames' \in Seq(Frame) /\ Moves(f)
  BY <1>1, <1>3, <1>13, GotoFrames, TopCall DEF Moves
<1>17. PICK m \in Nat : m = Depth - 1
  BY <1>16
<1>18. Below(m) /\ Fits(m, f) /\ (Len(frames') = m + 1 => frames'[m + 1] = f)
  BY <1>15, <1>16, <1>17 DEF Moves
<1>19. \A u \in Scopes : \A e \in Known' : FindIn(slots', array[u], e) = Found(u, e)
  BY <1>1, <1>9, FindState DEF Found
<1>20. \A j \in 1..Len(inst') : inst'[j].desc \in Beans \union 1..Len(bound')
  BY <1>1, <1>3, <1>11 DEF InstAfter, Numbering
<1>21. /\ bound' \in Seq(BindKeys) /\ slots' \in Seq(Descs) /\ IsInjective(slots')
       /\ Len(slots) <= Len(slots') /\ Known' = Beans \union 1..Len(bound') /\ Known \subseteq Known'
       /\ Len(inst) <= Len(inst') /\ Len(inst') <= MaxInst /\ Len(bound') <= Len(inst') /\ d \in Known'
  BY <1>1, <1>3, <1>9, <1>10, <1>11 DEF TypeOK, Numbering
<1>22. Shape' /\ StoreStep(s, d, i)
  BY <1>1, <1>2, <1>5, <1>6, <1>8, <1>11, <1>14, <1>16, <1>18, <1>19, <1>20, <1>21, ShapeStore
<1> QED
  BY <1>1, <1>4, <1>8, <1>11, <1>13, <1>16, <1>22

\* bindSession before the scope runs.
LEMMA ShapeBindQueued ==
    ASSUME Shape, NEW s \in Scopes, NEW k \in BindKeys, BindQueued(s, k)
    PROVE  /\ Shape' /\ Known \subseteq Known' /\ FindsKept
           /\ UNCHANGED <<root, state, order, retired, frames, lost>>
           /\ \E d \in Nat : InstMade(d, s, {})
           /\ \A u \in Scopes : pending'[u] = IF u = s THEN Append(pending[u], Len(inst) + 1)
                                              ELSE pending[u]
<1>1. PICK d : d = BindDesc(k)
  OBVIOUS
<1>2. /\ root # "stopped" /\ Len(inst) < MaxInst
      /\ bound' = IF d > Len(bound) THEN Append(bound, k) ELSE bound
      /\ slots' = KnownSlots(d)
      /\ inst' = Append(inst, Made(d, s))
      /\ pending' = [pending EXCEPT ![s] = Append(@, Len(inst) + 1)]
      /\ UNCHANGED <<root, state, store, frames, lost>>
  BY <1>1 DEF BindQueued
<1>4. TypeOK /\ Numbering /\ Stack
  BY DEF Shape
<1>5. /\ d \in 1..Len(bound) + 1 /\ d \in BoundIds
      /\ bound' \in Seq(BindKeys) /\ slots' \in Seq(Descs)
      /\ Len(bound') \in {Len(bound), Len(bound) + 1} /\ d \in 1..Len(bound')
      /\ IsInjective(slots') /\ Len(slots) <= Len(slots')
      /\ Known' = IF root = "created" THEN {} ELSE Beans \union 1..Len(bound')
      /\ Known \subseteq Known'
      /\ \A u \in Scopes : \A e \in Known' : FindIn(slots', array[u], e) = Found(u, e)
  BY <1>1, <1>2, <1>4, SlotsExtended
<1>6. d \in Descs /\ Len(inst) \in Nat /\ Len(inst) + 1 \in Insts /\ Len(bound) \in Nat /\ d \in Nat
      /\ Len(bound) <= Len(inst)
  BY <1>2, <1>4, <1>5, ScopeConstants DEF Descs, TypeOK, Insts, Numbering
<1>7. inst' \in Seq(Instance) /\ InstMade(d, s, {})
  <2>1. inst \in Seq(Instance) /\ Made(d, s) \in Instance
    BY <1>4, <1>6 DEF TypeOK, Instance, Made
  <2>2. /\ inst' \in Seq(Instance) /\ Len(inst') = Len(inst) + 1
        /\ \A n \in 1..Len(inst) : inst'[n] = inst[n]
    BY ONLY <1>2, <2>1, AppendIs
  <2>3. inst'[Len(inst) + 1] = Made(d, s)
    BY <1>2, <1>6, <2>1
  <2> QED
    BY <2>2, <2>3 DEF InstMade, InstAfter, LifeAfter, Made
<1>8. Len(inst') = Len(inst) + 1 /\ Len(inst') <= MaxInst /\ Len(bound') <= Len(inst')
  BY <1>2, <1>5, <1>6, <1>7, ScopeConstants DEF InstMade
<1>9. \A j \in 1..Len(inst') : inst'[j].desc \in Beans \union 1..Len(bound')
  <2>1. \A j \in 1..Len(inst') : j \in 1..Len(inst) \/ j = Len(inst) + 1
    BY <1>6, <1>7 DEF InstMade
  <2>2. \A j \in 1..Len(inst) : inst[j].desc \in Beans \union 1..Len(bound')
    BY <1>4, <1>5, <1>6 DEF Numbering
  <2> QED
    BY <1>5, <1>7, <2>1, <2>2 DEF InstMade, InstAfter
<1>10. /\ pending' \in [Scopes -> Seq(Insts)]
       /\ \A u \in Scopes : pending'[u] = IF u = s THEN Append(pending[u], Len(inst) + 1) ELSE pending[u]
  <2>1. Append(pending[s], Len(inst) + 1) \in Seq(Insts)
    BY <1>4, <1>6 DEF TypeOK
  <2> QED
    BY <1>2, <1>4, <2>1 DEF TypeOK
<1>11. ASSUME NEW u \in Scopes, u = s
       PROVE  /\ Len(pending'[u]) = Len(pending[u]) + 1 /\ Len(pending[u]) \in Nat
              /\ \A n \in 1..Len(pending[u]) : pending'[u][n] = pending[u][n]
              /\ \A n \in 1..Len(pending[u]) + 1 :
                    n \notin 1..Len(pending[u]) => pending'[u][n] = Len(inst) + 1
  <2>1. pending[u] \in Seq(Insts) /\ Len(inst) + 1 \in Insts /\ pending'[u] = Append(pending[u], Len(inst) + 1)
    BY <1>4, <1>6, <1>10, <1>11 DEF TypeOK
  <2> QED
    BY ONLY <2>1, AppendIs
<1>12. \A u \in Scopes : \A n \in 1..Len(pending'[u]) : pending'[u][n] \in 1..Len(inst')
  <2>1. \A u \in Scopes : \A n \in 1..Len(pending[u]) : pending[u][n] \in 1..Len(inst)
    BY <1>4 DEF Numbering
  <2>2. 1..Len(inst) \subseteq 1..Len(inst') /\ Len(inst) + 1 \in 1..Len(inst')
    BY <1>6, <1>8
  <2> QED
    BY <1>10, <1>11, <2>1, <2>2
<1>13. TypeOK'
  BY <1>2, <1>4, <1>5, <1>7, <1>10 DEF TypeOK, Instance, store
<1>14. Numbering'
  <2>1. \A u \in Scopes : Len(array'[u]) <= Len(slots')
    <3>1. Len(slots) \in Nat /\ Len(slots') \in Nat
      BY <1>4, <1>5 DEF TypeOK
    <3>2. \A u \in Scopes : Len(array[u]) \in Nat /\ Len(array[u]) <= Len(slots) /\ array'[u] = array[u]
      BY <1>2, <1>4 DEF Numbering, TypeOK, store
    <3> QED
      BY <1>5, <3>1, <3>2
  <2>2. \A u \in Scopes : \A n \in 1..Len(order'[u]) : order'[u][n] \in Known'
    BY <1>2, <1>4, <1>5 DEF Numbering, store
  <2> QED
    BY <1>2, <1>5, <1>8, <1>9, <1>12, <2>1, <2>2 DEF Numbering
<1>15. Quiescent'
  BY <1>2 DEF Shape, Quiescent, store
<1>16. Stack'
  <2>1. \A u \in Scopes : Undisturbed(u)
    <3>1. \A u \in Scopes : pending[u] \in Seq(Insts)
      BY <1>4 DEF TypeOK
    <3> QED
      BY <1>2, <1>10, <1>11, <3>1 DEF Undisturbed
  <2>2. PICK m \in Nat : m = Len(frames)
    BY <1>4 DEF TypeOK
  <2>3. Below(m) /\ Len(frames') # m + 1 /\ Len(frames) \in Nat
    BY <1>2, <2>2 DEF Below
  <2>4. \A n \in 1..m : frames[n].op # "root" => Undisturbed(frames[n].scope)
    BY <1>4, <2>1, <2>2 DEF Stack, FrameOK
  <2> QED
    BY <1>4, <1>5, <2>3, <2>4, StackKept
<1>17. FindsKept
  BY <1>2, <1>5, FindState DEF FindsKept, store
<1> QED
  BY <1>2, <1>5, <1>6, <1>7, <1>10, <1>13, <1>14, <1>15, <1>16, <1>17 DEF Shape, store

\* The slots are numbered: the bindings so far, then the discovered beans.
LEMMA ShapeRootStart ==
    ASSUME Shape, RootStart
    PROVE  /\ Shape' /\ Known \subseteq Known' /\ FindsKept
           /\ UNCHANGED <<bound, inst, state, store, pending, frames, lost>>
<1>1. /\ root = "created" /\ frames = <<>> /\ root' = "started"
      /\ slots' = [n \in 1..Len(bound) |-> n] \o Discovered
      /\ UNCHANGED <<bound, inst, state, store, pending, frames, lost>>
  BY DEF RootStart
<1>2. TypeOK /\ Numbering /\ Quiescent
  BY DEF Shape
<1>3. /\ Discovered \in Seq(Beans) /\ IsInjective(Discovered) /\ \A b \in Beans : b \notin Nat
      /\ \A m, n \in 1..Len(Discovered) : Discovered[m] = Discovered[n] => m = n
      /\ Len(Discovered) \in Nat /\ Beans = {Discovered[n] : n \in 1..Len(Discovered)}
  BY ScopeConstants DEF Beans, IsInjective
<1>4. Len(bound) \in Nat /\ 1..Len(bound) \subseteq BoundIds
  BY <1>2, ScopeConstants DEF TypeOK, Numbering, BoundIds
<1> DEFINE q == [n \in 1..Len(bound) |-> n]
<1>5. q \in Seq(Descs) /\ Len(q) = Len(bound) /\ \A n \in 1..Len(bound) : q[n] = n
  <2>1. q \in [1..Len(bound) -> Descs]
    BY <1>4 DEF Descs
  <2>2. q \in Seq(Descs) /\ Len(q) = Len(bound)
    BY <1>4, <2>1, ArrayIsSeq
  <2> QED
    BY <2>2
<1>6. Discovered \in Seq(Descs)
  BY <1>3 DEF Descs
<1> HIDE DEF q
<1>7. slots' = q \o Discovered
  BY <1>1 DEF q
<1>8. /\ slots' \in Seq(Descs) /\ Len(slots') = Len(bound) + Len(Discovered)
      /\ \A n \in 1..Len(slots') :
           slots'[n] = IF n <= Len(bound) THEN n ELSE Discovered[n - Len(bound)]
  <2>1. /\ slots' \in Seq(Descs) /\ Len(slots') = Len(q) + Len(Discovered)
        /\ \A n \in 1..Len(q) : slots'[n] = q[n]
        /\ \A n \in 1..Len(Discovered) : slots'[Len(q) + n] = Discovered[n]
    <3>0. q \in Seq(Descs)
      BY <1>5
    <3>1. /\ (q \o Discovered) \in Seq(Descs) /\ Len(q \o Discovered) = Len(q) + Len(Discovered)
          /\ \A n \in 1..Len(q) : (q \o Discovered)[n] = q[n]
          /\ \A n \in 1..Len(Discovered) : (q \o Discovered)[Len(q) + n] = Discovered[n]
      BY ONLY <3>0, <1>6, ConcatIs
    <3> QED
      BY <1>7, <3>1
  <2>2. ASSUME NEW n \in 1..Len(slots'), n > Len(bound)
        PROVE  slots'[n] = Discovered[n - Len(bound)]
    <3>1. PICK k \in 1..Len(Discovered) : n = Len(q) + k
      <4>1. n - Len(bound) \in 1..Len(Discovered) /\ n = Len(q) + (n - Len(bound))
        BY <1>3, <1>4, <1>5, <2>1, <2>2
      <4> QED
        BY <4>1
    <3>2. k = n - Len(bound)
      BY <1>3, <1>4, <1>5, <3>1
    <3> QED
      BY <2>1, <3>1, <3>2
  <2>3. ASSUME NEW n \in 1..Len(slots'), n <= Len(bound)
        PROVE  slots'[n] = n
    <3>1. n \in 1..Len(q)
      BY <1>4, <1>5, <2>3
    <3> QED
      BY <1>5, <2>1, <3>1
  <2> QED
    BY <1>4, <1>5, <2>1, <2>2, <2>3
<1>9. \A n \in 1..Len(slots') : n > Len(bound) =>
          n - Len(bound) \in 1..Len(Discovered) /\ slots'[n] = Discovered[n - Len(bound)] /\ slots'[n] \in Beans
  BY <1>3, <1>4, <1>8
<1>10. \A n \in 1..Len(slots') : n <= Len(bound) => n \in 1..Len(bound) /\ slots'[n] = n
  BY <1>4, <1>8
<1>11. IsInjective(slots')
  <2> SUFFICES ASSUME NEW m \in 1..Len(slots'), NEW n \in 1..Len(slots'), slots'[m] = slots'[n]
               PROVE  m = n
    BY <1>8 DEF IsInjective
  <2>1. CASE m <= Len(bound) /\ n <= Len(bound)
    BY <1>10, <2>1
  <2>2. CASE m > Len(bound) /\ n > Len(bound)
    <3>1. m - Len(bound) = n - Len(bound)
      BY <1>3, <1>9, <2>2
    <3> QED
      BY <1>4, <1>8, <3>1
  <2>3. CASE m <= Len(bound) /\ n > Len(bound)
    <3>1. slots'[m] \in Nat /\ slots'[n] \in Beans
      BY <1>4, <1>9, <1>10, <2>3
    <3> QED
      BY <1>3, <3>1
  <2>4. CASE m > Len(bound) /\ n <= Len(bound)
    <3>1. slots'[n] \in Nat /\ slots'[m] \in Beans
      BY <1>4, <1>9, <1>10, <2>4
    <3> QED
      BY <1>3, <3>1
  <2> QED
    BY <1>4, <1>8, <2>1, <2>2, <2>3, <2>4
<1>12. Known' = Beans \union 1..Len(bound)
  <2>1. Known' \subseteq Beans \union 1..Len(bound)
    BY <1>4, <1>8, <1>9, <1>10 DEF Known
  <2>2. ASSUME NEW n \in 1..Len(bound)
        PROVE  n \in Known'
    <3>1. n \in 1..Len(slots') /\ slots'[n] = n
      BY <1>3, <1>4, <1>8
    <3> QED
      BY <3>1 DEF Known
  <2>3. ASSUME NEW b \in Beans
        PROVE  b \in Known'
    <3>1. PICK n \in 1..Len(Discovered) : b = Discovered[n]
      BY <1>3
    <3>2. PICK k \in 1..Len(slots') : k = n + Len(bound)
      <4>1. n + Len(bound) \in 1..Len(slots')
        BY <1>3, <1>4, <1>8
      <4> QED
        BY <4>1
    <3>3. k > Len(bound) /\ k - Len(bound) = n
      BY <1>3, <1>4, <3>2
    <3>4. slots'[k] = b
      BY <1>9, <3>1, <3>3
    <3> QED
      BY <3>4 DEF Known
  <2> QED
    BY <2>1, <2>2, <2>3
<1>13. Known = {} /\ Len(slots) = 0
  <2>1. Known = {} /\ Len(slots) \in Nat
    BY <1>1, <1>2 DEF Numbering, TypeOK
  <2>2. Len(slots) # 0 => slots[1] \in Known
    BY <2>1 DEF Known
  <2> QED
    BY <2>1, <2>2
<1>14. \A u \in Scopes : array[u] = <<>> /\ array'[u] = <<>>
  <2>1. \A u \in Scopes : array[u] \in Seq(Insts \union {None}) /\ Len(array[u]) <= 0
    BY <1>2, <1>13 DEF TypeOK, Numbering
  <2> QED
    BY <1>1, <2>1 DEF store
<1>15. TypeOK'
  BY <1>1, <1>2, <1>8 DEF TypeOK, store
<1>16. Numbering'
  <2>1. \A u \in Scopes : Len(array'[u]) <= Len(slots')
    BY <1>3, <1>4, <1>8, <1>14
  <2>2. \A u \in Scopes : \A n \in 1..Len(order'[u]) : order'[u][n] \in Known'
    BY <1>1, <1>2, <1>13 DEF Numbering, store
  <2> QED
    BY <1>1, <1>2, <1>11, <1>12, <2>1, <2>2 DEF Numbering
<1>17. Quiescent' /\ Stack'
  BY <1>1 DEF Quiescent, Stack
<1>18. FindsKept
  <2> SUFFICES ASSUME NEW u \in Scopes, NEW d \in Known'
               PROVE  Find(u, d)' = None
    BY <1>13 DEF FindsKept, Found
  <2>1. PICK n \in 1..Len(slots') : d = slots'[n]
    BY DEF Known
  <2>2. FindIn(slots', <<>>, slots'[n]) = None
    BY ONLY n \in 1..Len(slots'), <1>8, <1>11, FindFresh
  <2> QED
    BY <1>14, <2>1, <2>2, FindState
<1> QED
  BY <1>1, <1>13, <1>15, <1>16, <1>17, <1>18 DEF Shape

\* The array of a scope becomes a.
LEMMA ArrayReset ==
    ASSUME Shape, slots' = slots, NEW s \in Scopes, NEW a, a = Resized \/ a = <<>>,
           array' = [array EXCEPT ![s] = a]
    PROVE  /\ array' \in [Scopes -> Seq(Insts \union {None})] /\ FindsReset(s)
           /\ \A u \in Scopes : Len(array'[u]) <= Len(slots)
<1>1. TypeOK /\ Numbering
  BY DEF Shape
<1>2. slots \in Seq(Descs) /\ Len(slots) \in Nat /\ IsInjective(slots)
  BY <1>1 DEF TypeOK, Numbering
<1>3. /\ a \in Seq(Insts \union {None}) /\ Len(a) <= Len(slots)
      /\ \A n \in 1..Len(slots) : FindIn(slots, a, slots[n]) = None
  <2>1. CASE a = <<>>
    <3>1. a \in Seq(Insts \union {None}) /\ Len(a) <= Len(slots)
      BY <1>2, <2>1
    <3> QED
      BY <1>2, <2>1, <3>1, FindFresh
  <2>2. CASE a = Resized
    <3>1. a = [n \in 1..Len(slots) |-> None]
      BY <2>2 DEF Resized
    <3>2. a \in [1..Len(slots) -> Insts \union {None}]
      BY <3>1
    <3>3. a \in Seq(Insts \union {None}) /\ Len(a) = Len(slots)
      BY <1>2, <3>2, ArrayIsSeq
    <3> QED
      BY <1>2, <3>1, <3>3, FindFresh
  <2> QED
    BY <2>1, <2>2
<1>4. /\ array' \in [Scopes -> Seq(Insts \union {None})]
      /\ array'[s] = a /\ \A u \in Scopes \ {s} : array'[u] = array[u]
  BY <1>1, <1>3 DEF TypeOK
<1>5. \A u \in Scopes : Len(array'[u]) <= Len(slots)
  BY <1>1, <1>3, <1>4 DEF Numbering
<1>6. Known' = Known
  BY DEF Known
<1>7. FindsReset(s)
  <2> SUFFICES ASSUME NEW u \in Scopes, NEW d \in Known
               PROVE  Find(u, d)' = IF u = s THEN None ELSE Find(u, d)
    BY <1>6 DEF FindsReset, Found
  <2>1. PICK n \in 1..Len(slots) : d = slots[n]
    BY DEF Known
  <2> QED
    BY <1>3, <1>4, <2>1, FindState
<1> QED
  BY <1>4, <1>5, <1>7

\* The slots and bindings stay.
LEMMA ShapeReset ==
    ASSUME Shape, UNCHANGED <<root, bound, slots>>, root = "started",
           state' \in [Scopes -> {"Stopped", "Running", "Stopping"}],
           array' \in [Scopes -> Seq(Insts \union {None})],
           \A u \in Scopes : Len(array'[u]) <= Len(slots),
           inst' \in Seq(Instance), Len(inst') = Len(inst),
           \A i \in 1..Len(inst) : inst'[i].desc = inst[i].desc,
           order' \in [Scopes -> Seq(Descs)],
           \A u \in Scopes : order'[u] = order[u] \/ order'[u] = <<>>,
           retired' \in [Scopes -> SUBSET Insts],
           pending' \in [Scopes -> Seq(Insts)],
           \A u \in Scopes : pending'[u] = pending[u] \/ pending'[u] = <<>>,
           lost' \subseteq Insts, frames' \in Seq(Frame), NEW m \in Nat, Below(m),
           \A n \in 1..m : frames[n].op # "root" =>
                state'[frames[n].scope] = state[frames[n].scope]
                /\ pending'[frames[n].scope] = pending[frames[n].scope],
           NEW f, Len(frames') = m + 1 => frames'[m + 1] = f /\ FrameOK(f)' /\ Fits(m, f)
    PROVE  Shape' /\ Known' = Known
<1>1. TypeOK'
  BY DEF Shape, TypeOK, Instance
<1>2. Known' = Known
  BY DEF Known
<1>3. ASSUME NEW u \in Scopes, NEW n \in 1..Len(order'[u])
      PROVE  order'[u][n] \in Known
  <2>1. order'[u] # <<>>
    OBVIOUS
  <2>2. order'[u] = order[u]
    BY <2>1
  <2> QED
    BY <2>2 DEF Shape, Numbering
<1>4. ASSUME NEW u \in Scopes, NEW n \in 1..Len(pending'[u])
      PROVE  pending'[u][n] \in 1..Len(inst')
  <2>1. pending'[u] # <<>>
    OBVIOUS
  <2>2. pending'[u] = pending[u]
    BY <2>1
  <2> QED
    BY <2>2 DEF Shape, Numbering
<1>5. Numbering'
  <2>1. Numbering
    BY DEF Shape
  <2>2. \A i \in 1..Len(inst') : inst'[i].desc \in Beans \union 1..Len(bound')
    BY <2>1 DEF Numbering
  <2> QED
    BY <1>2, <1>3, <1>4, <2>1, <2>2 DEF Numbering
<1>6. Quiescent'
  BY DEF Quiescent
<1>7. Stack'
  <2>1. \A n \in 1..m : frames[n].op # "root" => Undisturbed(frames[n].scope)
    BY DEF Undisturbed
  <2>2. Stack /\ Len(frames) \in Nat
    BY DEF Shape, TypeOK
  <2> QED
    BY <1>2, <2>1, <2>2, StackKept
<1> QED
  BY <1>1, <1>2, <1>5, <1>6, <1>7 DEF Shape

\* The call that start() is.
LEMMA StartFrame ==
    ASSUME Shape, NEW s \in Scopes, UNCHANGED <<slots, pending>>, state'[s] = "Stopped"
    PROVE  \E f \in Frame :
             /\ f = Call("start", "next", s, None, pending[s]) /\ FrameOK(f)'
             /\ f.op = "start" /\ f.at = "next" /\ f.scope = s
<1>1. PICK f : f = Call("start", "next", s, None, pending[s])
  OBVIOUS
<1>2. f \in Frame
  <2>1. pending[s] \in Seq(Descs \union Insts)
    BY DEF Shape, TypeOK
  <2> QED
    BY <1>1, <2>1 DEF Call, Frame
<1>3. f.op = "start" /\ f.at = "next" /\ f.scope = s /\ f.todo = pending[s]
  BY <1>1 DEF Call
<1>4. Todo(f) \subseteq Queued(s)'
  BY <1>3 DEF Todo, Queued
<1>5. FrameOK(f)'
  BY <1>3, <1>4 DEF FrameOK, Todo
<1> QED
  BY <1>1, <1>2, <1>3, <1>5

\* start(): a fresh array, and a call that goes over the pending bindings.
LEMMA ShapeScopeStart ==
    ASSUME Shape, NEW s \in Scopes, ScopeStart(s)
    PROVE  /\ Shape' /\ Known' = Known /\ FindsReset(s) /\ state[s] = "Stopped"
           /\ UNCHANGED <<root, inst, state, order, retired, pending, lost>>
           /\ \A n \in 1..Depth : frames[n].scope # s
           /\ \E f : Rises(f) /\ f.op = "start" /\ f.at = "next" /\ f.scope = s
<1>1. /\ root = "started" /\ state[s] = "Stopped" /\ \A n \in 1..Depth : frames[n].scope # s
      /\ array' = [array EXCEPT ![s] = Resized]
      /\ frames' = Append(frames, Call("start", "next", s, None, pending[s]))
      /\ UNCHANGED <<root, bound, slots, inst, state, order, retired, pending, lost>>
  BY DEF ScopeStart, Starting, Free
<1>2. /\ array' \in [Scopes -> Seq(Insts \union {None})] /\ FindsReset(s)
      /\ \A u \in Scopes : Len(array'[u]) <= Len(slots)
  BY <1>1, ArrayReset
<1>3. TypeOK
  BY DEF Shape
<1>4. PICK f \in Frame : /\ f = Call("start", "next", s, None, pending[s]) /\ FrameOK(f)'
                         /\ f.op = "start" /\ f.at = "next" /\ f.scope = s
  BY <1>1, StartFrame
<1>5. frames' \in Seq(Frame) /\ Rises(f)
  BY <1>1, <1>3, <1>4, PushFrames DEF Rises
<1>6. Fits(Depth, f)
  BY <1>1, <1>4 DEF Fits
<1>7. PICK m \in Nat : m = Depth
  BY <1>3 DEF Depth, TypeOK
<1>8. Below(m) /\ Fits(m, f) /\ (Len(frames') = m + 1 => frames'[m + 1] = f)
  BY <1>5, <1>6, <1>7 DEF Rises
<1>9. /\ state' \in [Scopes -> {"Stopped", "Running", "Stopping"}]
      /\ inst' \in Seq(Instance) /\ order' \in [Scopes -> Seq(Descs)]
      /\ retired' \in [Scopes -> SUBSET Insts] /\ pending' \in [Scopes -> Seq(Insts)]
      /\ lost' \subseteq Insts
  BY <1>1, <1>3 DEF TypeOK, Instance
<1>10. Shape' /\ Known' = Known
  BY <1>1, <1>2, <1>4, <1>5, <1>8, <1>9, ShapeReset
<1> QED
  BY <1>1, <1>2, <1>4, <1>5, <1>10

\* restart() goes on as start().
LEMMA ShapeRestartDone ==
    ASSUME Shape, RestartDone
    PROVE  /\ Shape' /\ Known' = Known /\ FindsReset(Top.scope)
           /\ frames # <<>> /\ Top.op = "restart" /\ Top.at = "next" /\ Top.todo = <<>>
           /\ UNCHANGED <<root, inst, retired, pending, lost>>
           /\ \A u \in Scopes : state'[u] = IF u = Top.scope THEN "Stopped" ELSE state[u]
           /\ \A u \in Scopes : order'[u] = IF u = Top.scope THEN <<>> ELSE order[u]
           /\ \E f : Moves(f) /\ f.op = "start" /\ f.at = "next" /\ f.scope = Top.scope
<1>1. /\ frames # <<>> /\ Top.op = "restart" /\ Top.at = "next" /\ Top.todo = <<>>
      /\ UNCHANGED <<root, bound, slots, inst, retired, pending, lost>>
  BY DEF RestartDone, At
<1>2. FrameOK(Top) /\ root = "started"
  BY <1>1, TopOK
<1>3. PICK s \in Scopes : s = Top.scope
  BY <1>1, <1>2 DEF FrameOK
<1>4. /\ order' = [order EXCEPT ![s] = <<>>] /\ state' = [state EXCEPT ![s] = "Stopped"]
      /\ array' = [array EXCEPT ![s] = Resized]
      /\ frames' = Append(SubSeq(frames, 1, Depth - 1), Call("start", "next", s, None, pending[s]))
  BY <1>3 DEF RestartDone, Starting
<1>5. TypeOK
  BY DEF Shape
<1>6. /\ array' \in [Scopes -> Seq(Insts \union {None})] /\ FindsReset(s)
      /\ \A u \in Scopes : Len(array'[u]) <= Len(slots)
  BY <1>1, <1>4, ArrayReset
<1>7. /\ state' \in [Scopes -> {"Stopped", "Running", "Stopping"}]
      /\ \A u \in Scopes : state'[u] = IF u = s THEN "Stopped" ELSE state[u]
  BY <1>4, <1>5 DEF TypeOK
<1>8. /\ order' \in [Scopes -> Seq(Descs)]
      /\ \A u \in Scopes : order'[u] = IF u = s THEN <<>> ELSE order[u]
  <2>1. <<>> \in Seq(Descs)
    OBVIOUS
  <2> QED
    BY <1>4, <1>5, <2>1 DEF TypeOK
<1>9. PICK f \in Frame : /\ f = Call("start", "next", s, None, pending[s]) /\ FrameOK(f)'
                         /\ f.op = "start" /\ f.at = "next" /\ f.scope = s
  BY <1>1, <1>7, StartFrame
<1>10. frames' \in Seq(Frame) /\ Moves(f) /\ Depth \in Nat \ {0}
  BY <1>1, <1>4, <1>5, <1>9, ReplaceFrames, TopCall DEF Moves
<1>11. Fits(Depth - 1, f)
  BY <1>1, <1>3, <1>9, FitsTop
<1>12. PICK m \in Nat : m = Depth - 1
  BY <1>10
<1>13. Below(m) /\ Fits(m, f) /\ (Len(frames') = m + 1 => frames'[m + 1] = f)
  BY <1>10, <1>11, <1>12 DEF Moves
<1>14. ASSUME NEW n \in 1..m, frames[n].op # "root"
       PROVE  state'[frames[n].scope] = state[frames[n].scope]
              /\ pending'[frames[n].scope] = pending[frames[n].scope]
  <2>1. frames[n].scope # s
    BY <1>1, <1>3, <1>12, AloneInScope
  <2>2. FrameOK(frames[n])
    BY <1>13 DEF Below, Shape, Stack
  <2> QED
    BY <1>1, <1>7, <1>14, <2>1, <2>2 DEF FrameOK
<1>15. /\ inst' \in Seq(Instance) /\ Len(inst') = Len(inst)
       /\ retired' \in [Scopes -> SUBSET Insts] /\ pending' \in [Scopes -> Seq(Insts)]
       /\ lost' \subseteq Insts
  BY <1>1, <1>5 DEF TypeOK, Instance
<1>16. Shape' /\ Known' = Known
  BY <1>1, <1>2, <1>6, <1>7, <1>8, <1>9, <1>10, <1>13, <1>14, <1>15, ShapeReset
<1> QED
  BY <1>1, <1>3, <1>6, <1>7, <1>8, <1>9, <1>10, <1>16

\* Calls in other scopes go on below the one that ends.
LEMMA EndsBelow ==
    ASSUME Shape, frames # <<>>, Top.op \in {"start", "stop", "restart"}, Finish,
           \A u \in Scopes : u # Top.scope => state'[u] = state[u] /\ pending'[u] = pending[u]
    PROVE  /\ frames' \in Seq(Frame)
           /\ \E m \in Nat :
                /\ m = Depth - 1 /\ Below(m) /\ Len(frames') = m
                /\ \A n \in 1..m : frames[n].op # "root" =>
                     state'[frames[n].scope] = state[frames[n].scope]
                     /\ pending'[frames[n].scope] = pending[frames[n].scope]
<1>1. Depth \in Nat \ {0} /\ Depth = Len(frames) /\ frames \in Seq(Frame)
  BY DEF Shape, TypeOK, Depth
<1>2. PICK m \in Nat : m = Depth - 1
  BY <1>1
<1>3. frames' = SubSeq(frames, 1, m)
  BY <1>2 DEF Finish
<1>4. /\ frames' \in Seq(Frame) /\ Len(frames') = m
      /\ \A n \in 1..m : frames'[n] = frames[n]
  BY <1>1, <1>2, <1>3
<1>5. Below(m)
  BY <1>1, <1>2, <1>4 DEF Below
<1>6. ASSUME NEW n \in 1..m, frames[n].op # "root"
      PROVE  state'[frames[n].scope] = state[frames[n].scope]
             /\ pending'[frames[n].scope] = pending[frames[n].scope]
  <2>1. frames[n].scope # Top.scope
    BY <1>2, AloneInScope
  <2>2. FrameOK(frames[n])
    BY <1>5 DEF Below, Shape, Stack
  <2> QED
    BY <1>6, <2>1, <2>2 DEF FrameOK
<1> QED
  BY <1>2, <1>4, <1>5, <1>6

\* start() ends: the scope runs and nothing is pending.
LEMMA ShapeStartDone ==
    ASSUME Shape, StartDone
    PROVE  /\ Shape' /\ Known' = Known /\ FindsKept /\ Ends
           /\ frames # <<>> /\ Top.op = "start" /\ Top.at = "next"
           /\ UNCHANGED <<root, inst, order, retired>>
           /\ \A u \in Scopes : state'[u] = IF u = Top.scope THEN "Running" ELSE state[u]
           /\ \A u \in Scopes : pending'[u] = IF u = Top.scope THEN <<>> ELSE pending[u]
           /\ lost' = lost \union (Range(pending[Top.scope]) \ Range(array[Top.scope]))
<1>1. /\ frames # <<>> /\ Top.op = "start" /\ Top.at = "next" /\ Finish
      /\ UNCHANGED <<root, bound, slots, inst, store>>
  BY DEF StartDone, At
<1>2. FrameOK(Top) /\ root = "started"
  BY <1>1, TopOK
<1>3. PICK s \in Scopes : s = Top.scope
  BY <1>1, <1>2 DEF FrameOK
<1>4. /\ pending' = [pending EXCEPT ![s] = <<>>] /\ state' = [state EXCEPT ![s] = "Running"]
      /\ lost' = lost \union (Range(pending[s]) \ Range(array[s]))
  BY <1>3 DEF StartDone
<1>5. TypeOK
  BY DEF Shape
<1>6. /\ state' \in [Scopes -> {"Stopped", "Running", "Stopping"}]
      /\ \A u \in Scopes : state'[u] = IF u = s THEN "Running" ELSE state[u]
  BY <1>4, <1>5 DEF TypeOK
<1>7. /\ pending' \in [Scopes -> Seq(Insts)]
      /\ \A u \in Scopes : pending'[u] = IF u = s THEN <<>> ELSE pending[u]
  <2>1. <<>> \in Seq(Insts)
    OBVIOUS
  <2> QED
    BY <1>4, <1>5, <2>1 DEF TypeOK
<1>8. lost' \subseteq Insts
  BY <1>4, <1>5 DEF TypeOK, Range
<1>9. frames' \in Seq(Frame)
  BY <1>1, <1>3, <1>6, <1>7, EndsBelow
<1>10. PICK m \in Nat : /\ m = Depth - 1 /\ Below(m) /\ Len(frames') = m
                        /\ \A n \in 1..m : frames[n].op # "root" =>
                             state'[frames[n].scope] = state[frames[n].scope]
                             /\ pending'[frames[n].scope] = pending[frames[n].scope]
  BY <1>1, <1>3, <1>6, <1>7, EndsBelow
<1>11. /\ inst' \in Seq(Instance) /\ Len(inst') = Len(inst) /\ Len(frames') # m + 1
       /\ retired' \in [Scopes -> SUBSET Insts] /\ order' \in [Scopes -> Seq(Descs)]
       /\ array' \in [Scopes -> Seq(Insts \union {None})]
       /\ \A u \in Scopes : Len(array'[u]) <= Len(slots)
  BY <1>1, <1>5, <1>10 DEF TypeOK, Instance, store, Shape, Numbering
<1>12. Shape' /\ Known' = Known
  <2>1. /\ \A u \in Scopes : order'[u] = order[u] \/ order'[u] = <<>>
        /\ \A u \in Scopes : pending'[u] = pending[u] \/ pending'[u] = <<>>
        /\ \A i \in 1..Len(inst) : inst'[i].desc = inst[i].desc
    BY <1>1, <1>7 DEF store
  <2> QED
    BY <1>1, <1>2, <1>6, <1>7, <1>8, <1>9, <1>10, <1>11, <2>1, ShapeReset
<1>13. FindsKept
  BY <1>1, <1>12, FindState DEF FindsKept, Found, store
<1>14. Ends
  BY <1>10 DEF Ends
<1> QED
  BY <1>1, <1>3, <1>4, <1>6, <1>7, <1>12, <1>13, <1>14 DEF store

\* The callbacks of a swept instance return.
LEMMA ShapeSweepDestroys ==
    ASSUME Shape, SweepDestroys, Find(Top.scope, Top.desc) # None
    PROVE  LET s == Top.scope  i == Find(s, Top.desc)  keep == Top.op = "restart" IN
           /\ Shape' /\ Known' = Known /\ FindsStored(s, Top.desc, None)
           /\ frames # <<>> /\ Top.op \in {"stop", "restart"} /\ Top.at = "callback"
           /\ UNCHANGED <<root, state, order, pending, lost>>
           /\ i \in Insts /\ Len(inst') = Len(inst)
           /\ InstAfter(IF keep THEN {} ELSE {i}, IF keep THEN {i} ELSE {})
           /\ \A u \in Scopes : retired'[u] = IF keep /\ u = s THEN retired[u] \union {i} ELSE retired[u]
           /\ \E f : Moves(f) /\ f.op = Top.op /\ f.at = "next" /\ f.scope = s /\ f.todo = Top.todo
<1>1. /\ frames # <<>> /\ Top.op \in {"stop", "restart"} /\ Top.at = "callback"
      /\ Goto([Top EXCEPT !.at = "next"])
      /\ UNCHANGED <<root, bound, slots, state, order, pending, lost>>
  BY DEF SweepDestroys, Sweeping, At
<1>2. FrameOK(Top) /\ Top \in Frame /\ root = "started"
  BY <1>1, TopOK
<1>3. PICK s, d, i : /\ s \in Scopes /\ d \in Known
                    /\ s = Top.scope /\ d = Top.desc /\ i = Find(s, d)
  BY <1>1, <1>2 DEF FrameOK
<1>4. TypeOK /\ Numbering
  BY DEF Shape
<1>5. slots \in Seq(Descs) /\ IsInjective(slots) /\ array[s] \in Seq(Insts \union {None})
      /\ Len(array[s]) \in Nat /\ Len(slots) \in Nat /\ Len(array[s]) <= Len(slots)
  BY <1>3, <1>4 DEF TypeOK, Numbering
<1>6. PICK n \in 1..Len(slots) : d = slots[n]
  BY <1>3 DEF Known
<1>7. Pos(slots, d) = n /\ FindIn(slots, array[s], d) = IF n <= Len(array[s]) THEN array[s][n] ELSE None
  BY <1>5, <1>6, FindIs
<1>8. n <= Len(array[s]) /\ i = array[s][n] /\ i \in Insts /\ SlotOf(d) = n
  <2>1. i # None /\ i = FindIn(slots, array[s], d) /\ SlotOf(d) = n
    BY <1>3, <1>7, FindState
  <2>2. n <= Len(array[s]) /\ i = array[s][n]
    BY <1>7, <2>1
  <2>3. n \in 1..Len(array[s])
    BY <1>5, <2>2
  <2> QED
    BY <1>5, <2>1, <2>2, <2>3
<1> DEFINE keep == Top.op = "restart"
           F == IF keep THEN {} ELSE {i}
           K == IF keep THEN {i} ELSE {}
<1>9. /\ inst' = After(inst, F, K)
      /\ retired' = IF keep THEN [retired EXCEPT ![s] = @ \union {i}] ELSE retired
      /\ array' = [array EXCEPT ![s][n] = None]
  BY <1>3, <1>8 DEF SweepDestroys
<1>10. inst' \in Seq(Instance) /\ Len(inst') = Len(inst) /\ InstAfter(F, K)
  <2>1. F \cap K = {}
    OBVIOUS
  <2> QED
    BY <1>4, <1>9, <2>1, AfterState
<1>11. /\ retired' \in [Scopes -> SUBSET Insts]
       /\ \A u \in Scopes : retired'[u] = IF keep /\ u = s THEN retired[u] \union {i} ELSE retired[u]
  BY <1>4, <1>8, <1>9 DEF TypeOK
<1> DEFINE b == Cleared(array[s], n)
<1>12. /\ b \in Seq(Insts \union {None}) /\ Len(b) = Len(array[s])
       /\ \A m \in 1..Len(slots) :
            FindIn(slots, b, slots[m]) = IF m = n THEN None ELSE FindIn(slots, array[s], slots[m])
  <2>1. None \in Insts \union {None}
    OBVIOUS
  <2>2. n \in 1..Len(slots) /\ n <= Len(array[s])
    BY <1>8
  <2> QED
    BY ONLY <1>5, <2>1, <2>2, FindCleared
<1> HIDE DEF b
<1>13. array' = [array EXCEPT ![s] = b]
  BY <1>4, <1>9 DEF b, Cleared, TypeOK
<1>14. /\ array' \in [Scopes -> Seq(Insts \union {None})]
       /\ array'[s] = b /\ \A u \in Scopes \ {s} : array'[u] = array[u]
  BY <1>3, <1>4, <1>12, <1>13 DEF TypeOK
<1>15. ASSUME NEW u \in Scopes
       PROVE  Len(array'[u]) <= Len(slots)
  <2>1. CASE u = s
    BY <1>5, <1>12, <1>14, <2>1
  <2>2. CASE u # s
    BY <1>4, <1>14, <2>2 DEF Numbering
  <2> QED
    BY <2>1, <2>2
<1>16. Known' = Known
  BY <1>1 DEF Known
<1>17. FindsStored(s, d, None)
  <2> SUFFICES ASSUME NEW u \in Scopes, NEW e \in Known
               PROVE  Find(u, e)' = IF u = s /\ e = d THEN None ELSE Find(u, e)
    BY <1>16 DEF FindsStored, Found
  <2>1. PICK m \in 1..Len(slots) : e = slots[m]
    BY DEF Known
  <2>2. m = n <=> e = d
    BY <1>5, <1>6, <2>1 DEF IsInjective
  <2> QED
    BY <1>1, <1>12, <1>14, <2>1, <2>2, FindState
<1>18. PICK f : f = [Top EXCEPT !.at = "next"]
  OBVIOUS
<1>19. /\ f \in Frame /\ f.op = Top.op /\ f.at = "next" /\ f.scope = s /\ f.todo = Top.todo
       /\ f.desc = d /\ Goto(f)
  BY <1>1, <1>2, <1>3, <1>18 DEF Frame
<1>20. FrameOK(f)'
  <2>1. Todo(f) = Todo(Top) /\ Todo(Top) \subseteq Known /\ state[s] = "Stopping"
    BY <1>1, <1>2, <1>3, <1>19 DEF FrameOK, Todo
  <2>2. f.op \in {"stop", "restart"} /\ state'[s] = "Stopping" /\ Todo(f) \subseteq Known'
    BY <1>1, <1>16, <1>19, <2>1
  <2> QED
    BY <1>3, <1>19, <2>2 DEF FrameOK, Todo
<1>21. Fits(Depth - 1, f)
  BY <1>1, <1>3, <1>19, FitsTop
<1>22. frames' \in Seq(Frame) /\ Moves(f) /\ Depth \in Nat \ {0}
  BY <1>1, <1>4, <1>19, GotoFrames, TopCall DEF Moves
<1>23. PICK m \in Nat : m = Depth - 1
  BY <1>22
<1>24. Below(m) /\ Fits(m, f) /\ (Len(frames') = m + 1 => frames'[m + 1] = f)
  BY <1>21, <1>22, <1>23 DEF Moves
<1>25. /\ state' \in [Scopes -> {"Stopped", "Running", "Stopping"}]
       /\ order' \in [Scopes -> Seq(Descs)] /\ pending' \in [Scopes -> Seq(Insts)]
       /\ lost' \subseteq Insts /\ \A j \in 1..Len(inst) : inst'[j].desc = inst[j].desc
  BY <1>1, <1>4, <1>10 DEF TypeOK, InstAfter
<1>26. Shape'
  <2> HIDE DEF F, K, keep
  <2> QED
    BY <1>1, <1>2, <1>10, <1>11, <1>14, <1>15, <1>20, <1>22, <1>24, <1>25, ShapeReset
<1> QED
  BY <1>1, <1>3, <1>8, <1>10, <1>11, <1>16, <1>17, <1>19, <1>22, <1>26

\* The sweep of stop() has come to its end.
LEMMA ShapeStopDone ==
    ASSUME Shape, StopDone
    PROVE  /\ Shape' /\ Known' = Known /\ FindsReset(Top.scope) /\ Ends
           /\ frames # <<>> /\ Top.op = "stop" /\ Top.at = "next" /\ Top.todo = <<>>
           /\ UNCHANGED <<root, pending, lost>>
           /\ Len(inst') = Len(inst) /\ InstAfter(retired[Top.scope], {})
           /\ \A u \in Scopes : state'[u] = IF u = Top.scope THEN "Stopped" ELSE state[u]
           /\ \A u \in Scopes : order'[u] = IF u = Top.scope THEN <<>> ELSE order[u]
           /\ \A u \in Scopes : retired'[u] = IF u = Top.scope THEN {} ELSE retired[u]
<1>1. /\ frames # <<>> /\ Top.op = "stop" /\ Top.at = "next" /\ Top.todo = <<>> /\ Finish
      /\ UNCHANGED <<root, bound, slots, pending, lost>>
  BY DEF StopDone, At
<1>2. FrameOK(Top) /\ root = "started"
  BY <1>1, TopOK
<1>3. PICK s \in Scopes : s = Top.scope
  BY <1>1, <1>2 DEF FrameOK
<1>4. /\ inst' = After(inst, retired[s], {}) /\ retired' = [retired EXCEPT ![s] = {}]
      /\ array' = [array EXCEPT ![s] = <<>>] /\ order' = [order EXCEPT ![s] = <<>>]
      /\ state' = [state EXCEPT ![s] = "Stopped"]
  BY <1>3 DEF StopDone
<1>5. TypeOK
  BY DEF Shape
<1>6. /\ array' \in [Scopes -> Seq(Insts \union {None})] /\ FindsReset(s)
      /\ \A u \in Scopes : Len(array'[u]) <= Len(slots)
  BY <1>1, <1>4, ArrayReset
<1>7. /\ state' \in [Scopes -> {"Stopped", "Running", "Stopping"}]
      /\ \A u \in Scopes : state'[u] = IF u = s THEN "Stopped" ELSE state[u]
  BY <1>4, <1>5 DEF TypeOK
<1>8. /\ order' \in [Scopes -> Seq(Descs)]
      /\ \A u \in Scopes : order'[u] = IF u = s THEN <<>> ELSE order[u]
  <2>1. <<>> \in Seq(Descs)
    OBVIOUS
  <2> QED
    BY <1>4, <1>5, <2>1 DEF TypeOK
<1>9. /\ retired' \in [Scopes -> SUBSET Insts]
      /\ \A u \in Scopes : retired'[u] = IF u = s THEN {} ELSE retired[u]
  BY <1>4, <1>5 DEF TypeOK
<1>10. inst' \in Seq(Instance) /\ Len(inst') = Len(inst) /\ InstAfter(retired[s], {})
  BY <1>4, <1>5, AfterState
<1>11. frames' \in Seq(Frame)
  BY <1>1, <1>3, <1>7, EndsBelow
<1>12. PICK m \in Nat : /\ m = Depth - 1 /\ Below(m) /\ Len(frames') = m
                        /\ \A n \in 1..m : frames[n].op # "root" =>
                             state'[frames[n].scope] = state[frames[n].scope]
                             /\ pending'[frames[n].scope] = pending[frames[n].scope]
  BY <1>1, <1>3, <1>7, EndsBelow
<1>13. /\ \A j \in 1..Len(inst) : inst'[j].desc = inst[j].desc
       /\ pending' \in [Scopes -> Seq(Insts)] /\ lost' \subseteq Insts /\ Len(frames') # m + 1
  BY <1>1, <1>5, <1>10, <1>12 DEF InstAfter, TypeOK
<1>14. Shape' /\ Known' = Known
  BY <1>1, <1>2, <1>6, <1>7, <1>8, <1>9, <1>10, <1>11, <1>12, <1>13, ShapeReset
<1>15. Ends
  BY <1>12 DEF Ends
<1> QED
  BY <1>1, <1>3, <1>6, <1>7, <1>8, <1>9, <1>10, <1>14, <1>15

\* The context is destroyed.
LEMMA ShapeRootStopDone ==
    ASSUME Shape, RootStopDone
    PROVE  /\ Shape' /\ Known' = Known
           /\ \A u \in Scopes : \A d \in Known : Find(u, d)' = None
           /\ root' = "stopped" /\ frames' = <<>> /\ UNCHANGED <<state, lost>>
           /\ frames # <<>> /\ Top.op = "root" /\ \A u \in Scopes : state[u] = "Stopped"
           /\ Len(inst') = Len(inst)
           /\ InstAfter(UNION {Range(pending[u]) \union retired[u] : u \in Scopes}, {})
           /\ \A u \in Scopes : retired'[u] = {} /\ pending'[u] = <<>> /\ order'[u] = <<>>
<1>1. /\ frames # <<>> /\ Top.op = "root" /\ Finish /\ root' = "stopped"
      /\ \A u \in Scopes : state[u] = "Stopped"
      /\ inst' = After(inst, UNION {Range(pending[u]) \union retired[u] : u \in Scopes}, {})
      /\ retired' = [u \in Scopes |-> {}] /\ pending' = [u \in Scopes |-> <<>>]
      /\ array' = [u \in Scopes |-> <<>>] /\ order' = [u \in Scopes |-> <<>>]
      /\ UNCHANGED <<bound, slots, state, lost>>
  BY DEF RootStopDone, At
<1>2. TypeOK /\ Numbering /\ Stack /\ root = "started"
  BY <1>1, TopOK DEF Shape
<1>3. Depth = 1 /\ frames' = <<>>
  <2>1. Depth \in 1..Len(frames) /\ Top = frames[Depth] /\ frames \in Seq(Frame)
    BY <1>1, <1>2, TopCall DEF TypeOK
  <2>2. Depth = 1
    BY <1>1, <1>2, <2>1 DEF Stack
  <2>3. frames' = SubSeq(frames, 1, 0)
    BY <1>1, <2>2 DEF Finish
  <2> QED
    BY <2>1, <2>2, <2>3
<1>4. /\ inst' \in Seq(Instance) /\ Len(inst') = Len(inst)
      /\ InstAfter(UNION {Range(pending[u]) \union retired[u] : u \in Scopes}, {})
  <2>1. PICK F : F = UNION {Range(pending[u]) \union retired[u] : u \in Scopes}
    OBVIOUS
  <2>2. inst' \in Seq(Instance) /\ Len(inst') = Len(inst) /\ InstAfter(F, {})
    BY <1>1, <1>2, <2>1, AfterState
  <2> QED
    BY <2>1, <2>2
<1>5. /\ array' \in [Scopes -> Seq(Insts \union {None})] /\ pending' \in [Scopes -> Seq(Insts)]
      /\ order' \in [Scopes -> Seq(Descs)] /\ retired' \in [Scopes -> SUBSET Insts]
      /\ frames' \in Seq(Frame)
  <2>1. <<>> \in Seq(Insts \union {None}) /\ <<>> \in Seq(Insts) /\ <<>> \in Seq(Descs)
        /\ <<>> \in Seq(Frame)
    OBVIOUS
  <2> QED
    BY <1>1, <1>3, <2>1
<1>6. TypeOK'
  BY <1>1, <1>2, <1>4, <1>5 DEF TypeOK, Instance
<1>7. Known' = Known
  BY <1>1 DEF Known
<1>8. Numbering'
  <2>1. Len(<<>>) = 0 /\ Len(slots) \in Nat
    BY <1>2 DEF TypeOK
  <2>2. /\ \A u \in Scopes : Len(array'[u]) <= Len(slots')
        /\ \A u \in Scopes : \A n \in 1..Len(order'[u]) : order'[u][n] \in Known'
        /\ \A u \in Scopes : \A n \in 1..Len(pending'[u]) : pending'[u][n] \in 1..Len(inst')
    BY <1>1, <2>1
  <2>3. \A j \in 1..Len(inst') : inst'[j].desc \in Beans \union 1..Len(bound')
    BY <1>1, <1>2, <1>4 DEF Numbering, InstAfter
  <2> QED
    BY <1>1, <1>2, <1>4, <1>7, <2>2, <2>3 DEF Numbering
<1>9. Quiescent' /\ Stack'
  BY <1>1, <1>3 DEF Quiescent, Stack
<1>10. ASSUME NEW u \in Scopes, NEW d \in Known
       PROVE  Find(u, d)' = None
  <2>1. PICK n \in 1..Len(slots) : d = slots[n]
    BY DEF Known
  <2>2. slots \in Seq(Descs) /\ IsInjective(slots)
    BY <1>2 DEF TypeOK, Numbering
  <2>3. FindIn(slots, <<>>, slots[n]) = None
    BY ONLY n \in 1..Len(slots), <2>2, FindFresh
  <2> QED
    BY <1>1, <2>1, <2>3, FindState
<1> QED
  BY <1>1, <1>3, <1>4, <1>6, <1>7, <1>8, <1>9, <1>10 DEF Shape

-----------------------------------------------------------------------------
(***************************************************************************)
(* The layers above the shape: Ledger, Arranged and Calls.                 *)
(***************************************************************************)

\* The instances that pointers lead to.
Live(i, s) == i \in 1..Len(inst) /\ inst[i].life = "made" /\ inst[i].scope = s

\* A slot leads to a live instance of its descriptor, which is queued as well
\* until the scope runs.
Sound ==
    \A s \in Scopes : \A d \in Known : Find(s, d) # None =>
        /\ Live(Find(s, d), s) /\ inst[Find(s, d)].desc = d
        /\ Find(s, d) \in Queued(s) <=> state[s] = "Stopped"

\* What is queued lives, and is a binding.
Waiting == \A s \in Scopes : \A i \in Queued(s) : Live(i, s) /\ inst[i].desc \in Nat

\* A retired block is that of a destroyed instance.
Retained ==
    \A s \in Scopes : \A i \in retired[s] :
        i \in 1..Len(inst) /\ inst[i].life = "destroyed" /\ inst[i].scope = s

\* No instance is forgotten.
Entry(i, s) ==
    /\ inst[i].life # "corrupt"
    /\ inst[i].life = "made" => \/ inst[i].desc \in Known /\ Find(s, inst[i].desc) = i
                                \/ i \in Queued(s) \union lost
    /\ inst[i].life = "destroyed" => i \in retired[s]
Entries == \A i \in 1..Len(inst) : Entry(i, inst[i].scope)

Ledger == Sound /\ Waiting /\ Retained /\ Entries

\* A bean is at most once in q, behind the beans injected in it.
DepsFirst(q) ==
    /\ \A m, n \in 1..Len(q) : q[m] \in Beans /\ q[m] = q[n] => m = n
    /\ \A n \in 1..Len(q) : q[n] \in Beans =>
            \A b \in Deps[q[n]] : \E m \in 1..Len(q) : m < n /\ q[m] = b
Stored(s, q) == \A n \in 1..Len(q) : q[n] \in Beans => Find(s, q[n]) # None

\* The insertion order names what is stored; while the scope runs, every bean in
\* it is stored, once, behind the beans injected in it.
ArrangedIn(s) ==
    /\ state[s] # "Stopping" => \A d \in Known : Find(s, d) # None => d \in Ordered(s)
    /\ state[s] = "Running" => DepsFirst(order[s]) /\ Stored(s, order[s])
    /\ state[s] = "Stopped" => \A n \in 1..Len(order[s]) : order[s][n] \notin Beans
Arranged == \A s \in Scopes : ArrangedIn(s)

\* What a call relies on in the store of its scope.  A constructor has not been
\* overtaken; a sweep still has before it whatever is stored, and its beans in an
\* order in which each comes behind the beans injected in it.
Expects(f) ==
    /\ f.at = "construct" => Find(f.scope, f.desc) = None
    /\ f.op \in {"stop", "restart"} =>
        /\ \A d \in Known : Find(f.scope, d) # None =>
                d \in Todo(f) \/ (f.at = "callback" /\ f.desc = d)
        /\ DepsFirst(f.todo) /\ Stored(f.scope, f.todo)
        /\ f.at = "callback" =>
            /\ Find(f.scope, f.desc) # None
            /\ f.desc \in Beans => Deps[f.desc] \subseteq Todo(f) /\ f.desc \notin Todo(f)
Calls == \A n \in 1..Len(frames) : Expects(frames[n])

Inv == Shape /\ Ledger /\ Arranged /\ Calls

-----------------------------------------------------------------------------
(* Ledger is preserved.                                                    *)

\* An instance that is neither freed nor destroyed lives on.
LEMMA LiveKept ==
    ASSUME TypeOK, TypeOK', Len(inst) <= Len(inst'), NEW F, NEW K, InstAfter(F, K),
           NEW i, NEW s, Live(i, s), i \notin F \union K
    PROVE  Live(i, s)' /\ inst'[i].desc = inst[i].desc
<1>1. i \in 1..Len(inst) /\ Len(inst) \in Nat /\ Len(inst') \in Nat
  <2>1. inst \in Seq(Instance) /\ inst' \in Seq(Instance)
    BY DEF TypeOK, Instance
  <2>2. i \in 1..Len(inst)
    BY DEF Live
  <2> QED
    BY <2>1, <2>2
<1>2. i \in 1..Len(inst')
  BY <1>1
<1> QED
  BY <1>1, <1>2 DEF Live, InstAfter, LifeAfter

\* An instance has a scope, and is not None.
LEMMA InstanceIs ==
    ASSUME TypeOK, NEW i \in 1..Len(inst)
    PROVE  inst[i].scope \in Scopes /\ i \in Nat /\ i # None
<1>1. inst \in Seq(Instance)
  BY DEF TypeOK, Instance
<1>2. inst[i] \in Instance /\ i \in Nat
  BY <1>1
<1> QED
  BY <1>2, ScopeConstants DEF Instance

\* Nothing happens to the instances and the queues.
LEMMA LedgerQuiet ==
    ASSUME Ledger, Known \subseteq Known', FindsKept, UNCHANGED <<inst, retired, pending, lost>>,
           \A u \in Scopes : state'[u] = "Stopped" <=> state[u] = "Stopped", TypeOK
    PROVE  Ledger'
<1>1. \A u : Queued(u)' = Queued(u)
  BY DEF Queued
<1>2. ASSUME NEW u \in Scopes, NEW d \in Known', Find(u, d)' # None
      PROVE  d \in Known /\ Find(u, d)' = Find(u, d) /\ Find(u, d) # None
  BY <1>2 DEF FindsKept, Found
<1>3. Sound'
  BY <1>1, <1>2 DEF Ledger, Sound, Live
<1>4. Waiting' /\ Retained'
  BY <1>1 DEF Ledger, Waiting, Retained, Live
<1>5. ASSUME NEW i \in 1..Len(inst)
      PROVE  Entry(i, inst[i].scope)'
  <2>1. PICK s, d : s \in Scopes /\ s = inst[i].scope /\ d = inst[i].desc
    BY InstanceIs
  <2>2. Entry(i, s)
    BY <2>1 DEF Ledger, Entries
  <2>3. d \in Known /\ Find(s, d) = i => d \in Known' /\ Find(s, d)' = i
    BY <2>1 DEF FindsKept, Found
  <2> QED
    BY <1>1, <2>1, <2>2, <2>3 DEF Entry
<1> QED
  BY <1>3, <1>4, <1>5 DEF Ledger, Entries

\* A binding is queued.
LEMMA LedgerQueued ==
    ASSUME Shape, Shape', Ledger, Known \subseteq Known', FindsKept,
           UNCHANGED <<state, retired, lost>>, NEW s \in Scopes, NEW e \in Nat, InstMade(e, s, {}),
           \A u \in Scopes : pending'[u] = IF u = s THEN Append(pending[u], Len(inst) + 1)
                                           ELSE pending[u]
    PROVE  Ledger'
<1>1. PICK k : k = Len(inst) + 1
  OBVIOUS
<1>a. TypeOK /\ TypeOK' /\ Numbering'
  BY DEF Shape
<1>0. /\ Len(inst) \in Nat /\ TypeOK /\ TypeOK' /\ MaxInst \in Nat
      /\ Len(inst') <= MaxInst
  <2>1. Len(inst) \in Nat
    BY <1>a DEF TypeOK
  <2> QED
    BY <1>a, <2>1, ScopeConstants DEF Numbering
<1>2. /\ Len(inst') = k /\ InstAfter({}, {})
      /\ inst'[k].desc = e /\ inst'[k].scope = s /\ inst'[k].life = "made"
      /\ TypeOK /\ TypeOK' /\ Len(inst) <= Len(inst') /\ k \in 1..Len(inst') /\ k \notin 1..Len(inst)
      /\ k \in Insts /\ \A i \in 1..Len(inst') : i \in 1..Len(inst) \/ i = k
  <2>1. /\ Len(inst') = k /\ InstAfter({}, {})
        /\ inst'[k].desc = e /\ inst'[k].scope = s /\ inst'[k].life = "made"
    BY <1>1 DEF InstMade, LifeAfter
  <2>2. /\ Len(inst) <= Len(inst') /\ k \in 1..Len(inst') /\ k \notin 1..Len(inst)
        /\ k \in Insts /\ \A i \in 1..Len(inst') : i \in 1..Len(inst) \/ i = k
    BY <1>0, <1>1, <2>1 DEF Insts
  <2> QED
    BY <1>0, <2>1, <2>2
<1>3. ASSUME NEW u \in Scopes
      PROVE  /\ Queued(u)' = IF u = s THEN Queued(u) \union {k} ELSE Queued(u)
             /\ k \notin Queued(u)
  <2>0. k \notin Queued(u) /\ pending[u] \in Seq(Insts)
    BY <1>2 DEF Queued, Shape, Numbering, TypeOK
  <2>1. CASE u # s
    <3>1. pending'[u] = pending[u]
      BY <2>1
    <3> QED
      BY <2>0, <2>1, <3>1 DEF Queued
  <2>2. CASE u = s
    <3>1. pending[u] \in Seq(Insts) /\ pending'[u] = Append(pending[u], k) /\ k \in Insts
      BY <1>1, <1>2, <2>0, <2>2
    <3>2. /\ Len(pending'[u]) = Len(pending[u]) + 1
          /\ \A n \in 1..Len(pending[u]) : pending'[u][n] = pending[u][n]
          /\ \A n \in 1..Len(pending[u]) + 1 :
                n \notin 1..Len(pending[u]) => n = Len(pending[u]) + 1 /\ pending'[u][n] = k
      BY ONLY <3>1, AppendIs
    <3>3. \E n \in 1..Len(pending'[u]) : n \notin 1..Len(pending[u]) /\ n \in 1..Len(pending[u]) + 1
      BY <3>1, <3>2
    <3>4. 1..Len(pending[u]) \subseteq 1..Len(pending'[u])
      BY <3>1, <3>2
    <3>5. Queued(u)' = Queued(u) \union {k}
      <4>1. \A n \in 1..Len(pending'[u]) : pending'[u][n] \in Queued(u) \union {k}
        BY <3>2 DEF Queued
      <4>2. k \in Queued(u)'
        BY <3>2, <3>3 DEF Queued
      <4>3. \A n \in 1..Len(pending[u]) : pending[u][n] \in Queued(u)'
        BY <3>2, <3>4 DEF Queued
      <4> QED
        BY <4>1, <4>2, <4>3 DEF Queued
    <3> QED
      BY <2>0, <2>2, <3>5
  <2> QED
    BY <2>1, <2>2
<1>4. ASSUME NEW i, NEW u, Live(i, u)
      PROVE  Live(i, u)' /\ inst'[i].desc = inst[i].desc
  <2>1. i \notin {} \union {}
    OBVIOUS
  <2> QED
    BY ONLY <1>2, <1>4, <2>1, LiveKept
<1>5. Sound'
  <2> SUFFICES ASSUME NEW u \in Scopes, NEW d \in Known', Find(u, d)' # None
               PROVE  /\ Live(Find(u, d), u)' /\ inst'[Find(u, d)'].desc = d
                      /\ Find(u, d)' \in Queued(u)' <=> state'[u] = "Stopped"
    BY DEF Sound
  <2>1. PICK i : i = Find(u, d)'
    OBVIOUS
  <2>2. d \in Known /\ i = Find(u, d) /\ i # None
    BY <2>1 DEF FindsKept, Found
  <2>3. /\ Live(i, u) /\ inst[i].desc = d
        /\ i \in Queued(u) <=> state[u] = "Stopped"
    BY <2>2 DEF Ledger, Sound
  <2>4. i # k
    BY <1>2, <2>3 DEF Live
  <2>5. Live(i, u)' /\ inst'[i].desc = d
    BY <1>4, <2>3
  <2>6. i \in Queued(u)' <=> state'[u] = "Stopped"
    BY <1>3, <2>3, <2>4
  <2> QED
    BY <2>1, <2>5, <2>6
<1>6. Waiting'
  <2> SUFFICES ASSUME NEW u \in Scopes, NEW i \in Queued(u)'
               PROVE  Live(i, u)' /\ inst'[i].desc \in Nat
    BY DEF Waiting
  <2>1. CASE i \in Queued(u)
    BY <1>4, <2>1 DEF Ledger, Waiting
  <2>2. CASE i = k /\ u = s
    BY <1>2, <2>2 DEF Live
  <2> QED
    BY <1>3, <2>1, <2>2
<1>7. Retained'
  BY <1>2 DEF Ledger, Retained, InstAfter, LifeAfter
<1>8. ASSUME NEW i \in 1..Len(inst')
      PROVE  Entry(i, inst[i].scope)'
  <2>1. CASE i = k
    BY <1>2, <1>3, <2>1 DEF Entry
  <2>2. CASE i \in 1..Len(inst)
    <3>1. PICK u, d : u \in Scopes /\ u = inst[i].scope /\ d = inst[i].desc
      BY <1>2, <2>2, InstanceIs
    <3>2. Entry(i, u)
      BY <2>2, <3>1 DEF Ledger, Entries
    <3>3. inst'[i].life = inst[i].life /\ inst'[i].desc = d /\ inst'[i].scope = u
      BY <1>2, <2>2, <3>1 DEF InstAfter, LifeAfter
    <3>4. d \in Known /\ Find(u, d) = i => d \in Known' /\ Find(u, d)' = i
      BY <3>1 DEF FindsKept, Found
    <3> QED
      BY <1>3, <3>1, <3>2, <3>3, <3>4 DEF Entry
  <2> QED
    BY <1>2, <2>1, <2>2
<1> QED
  BY <1>5, <1>6, <1>7, <1>8 DEF Ledger, Entries

\* An instance gets its slot: a new one, or one from the queue.
LEMMA LedgerStored ==
    ASSUME Shape, Shape', Ledger, UNCHANGED <<state, pending, lost>>, NEW s \in Scopes, NEW e, NEW k,
           StoreStep(s, e, k), Len(inst) <= Len(inst'), InstAfter(Replaced(s, e), {}),
           \A i \in 1..Len(inst') : i \in 1..Len(inst) \/ i = k, k \notin Replaced(s, e),
           Live(k, s)', inst'[k].desc = e,
           k \in Queued(s) <=> state[s] = "Stopped",
           e \in Known => Find(s, e) \in Queued(s) \union {None}
    PROVE  Ledger'
<1>1. TypeOK /\ TypeOK'
  BY DEF Shape
<1>2. \A u : Queued(u)' = Queued(u)
  BY DEF Queued
<1>3. /\ Known \subseteq Known' /\ e \in Known'
      /\ \A u \in Scopes : \A d \in Known' : Find(u, d)' = IF u = s /\ d = e THEN k ELSE Found(u, d)
      /\ \A u \in Scopes : retired'[u] = IF u = s THEN {r \in retired[u] : inst[r].desc # e} ELSE retired[u]
  BY DEF StoreStep, FindsStored
<1>4. \A i \in Replaced(s, e) : i \in 1..Len(inst) /\ inst[i].life = "destroyed" /\ inst[i].scope = s
                                /\ inst[i].desc = e
  BY DEF Replaced, Ledger, Retained
<1>5. ASSUME NEW i, NEW u, Live(i, u)
      PROVE  Live(i, u)' /\ inst'[i].desc = inst[i].desc
  <2>1. i \notin Replaced(s, e) \union {}
    BY <1>4, <1>5 DEF Live
  <2> QED
    BY <1>1, <1>5, <2>1, LiveKept
<1>6. Sound'
  <2> SUFFICES ASSUME NEW u \in Scopes, NEW d \in Known', Find(u, d)' # None
               PROVE  /\ Live(Find(u, d), u)' /\ inst'[Find(u, d)'].desc = d
                      /\ Find(u, d)' \in Queued(u)' <=> state'[u] = "Stopped"
    BY DEF Sound
  <2>1. PICK i : i = Find(u, d)'
    OBVIOUS
  <2>2. CASE u = s /\ d = e
    BY <1>2, <1>3, <2>1, <2>2
  <2>3. CASE ~ (u = s /\ d = e)
    <3>1. d \in Known /\ i = Find(u, d) /\ i # None
      BY <1>3, <2>1, <2>3 DEF Found
    <3>2. /\ Live(i, u) /\ inst[i].desc = d
          /\ i \in Queued(u) <=> state[u] = "Stopped"
      BY <3>1 DEF Ledger, Sound
    <3>3. Live(i, u)' /\ inst'[i].desc = d
      BY <1>5, <3>2
    <3> QED
      BY <1>2, <2>1, <3>2, <3>3
  <2> QED
    BY <2>2, <2>3
<1>7. Waiting'
  BY <1>2, <1>5 DEF Ledger, Waiting
<1>8. Retained'
  <2> SUFFICES ASSUME NEW u \in Scopes, NEW i \in retired'[u]
               PROVE  i \in 1..Len(inst') /\ inst'[i].life = "destroyed" /\ inst'[i].scope = u
    BY DEF Retained
  <2>1. i \in retired[u] /\ i \notin Replaced(s, e)
    <3>1. i \in retired[u]
      BY <1>3
    <3>2. i \in 1..Len(inst) /\ inst[i].scope = u
      BY <3>1 DEF Ledger, Retained
    <3> QED
      BY <1>3, <1>4, <3>1, <3>2
  <2>2. i \in 1..Len(inst) /\ inst[i].life = "destroyed" /\ inst[i].scope = u
    BY <2>1 DEF Ledger, Retained
  <2>3. i \in 1..Len(inst')
    BY <1>1, <2>2 DEF TypeOK
  <2> QED
    BY <2>1, <2>2, <2>3 DEF InstAfter, LifeAfter
<1>9. ASSUME NEW i \in 1..Len(inst')
      PROVE  Entry(i, inst[i].scope)'
  <2>1. CASE i = k
    BY <1>3, <2>1 DEF Entry, Live
  <2>2. CASE i \in 1..Len(inst) /\ i # k
    <3>1. PICK u, d : u \in Scopes /\ u = inst[i].scope /\ d = inst[i].desc
      BY <1>1, <2>2, InstanceIs
    <3>2. Entry(i, u)
      BY <2>2, <3>1 DEF Ledger, Entries
    <3>3. /\ inst'[i].life = LifeAfter(inst[i].life, i, Replaced(s, e), {})
          /\ inst'[i].desc = d /\ inst'[i].scope = u
      BY <2>2, <3>1 DEF InstAfter
    <3>4. CASE i \in Replaced(s, e)
      BY <1>4, <3>1, <3>3, <3>4 DEF Entry, LifeAfter
    <3>5. CASE i \notin Replaced(s, e)
      <4>1. inst'[i].life = inst[i].life
        BY <3>3, <3>5 DEF LifeAfter
      <4>2. inst[i].life = "destroyed" => i \in retired'[u]
        BY <1>3, <3>1, <3>2, <3>5 DEF Entry, Replaced
      <4>3. ASSUME d \in Known, Find(u, d) = i
            PROVE  \/ d \in Known' /\ Find(u, d)' = i
                   \/ i \in Queued(u)
        <5>1. i # None
          BY <1>1, <2>2, InstanceIs
        <5> QED
          BY <1>3, <3>1, <4>3, <5>1 DEF Found
      <4> QED
        BY <1>2, <3>1, <3>2, <3>3, <4>1, <4>2, <4>3 DEF Entry
    <3> QED
      BY <3>4, <3>5
  <2> QED
    BY <2>1, <2>2
<1> QED
  BY <1>6, <1>7, <1>8, <1>9 DEF Ledger, Entries

\* The array of a scope is given up, when nothing is in it but what is queued;
\* blocks in F are freed.
LEMMA LedgerReset ==
    ASSUME Shape, Shape', Ledger, UNCHANGED <<pending, lost>>, Known' = Known,
           NEW s \in Scopes, FindsReset(s), NEW F \in SUBSET retired[s], Len(inst') = Len(inst),
           InstAfter(F, {}),
           \A u \in Scopes : retired'[u] = IF u = s THEN retired[u] \ F ELSE retired[u],
           \A u \in Scopes \ {s} : state'[u] = state[u],
           \A d \in Known : Find(s, d) \in Queued(s) \union {None}
    PROVE  Ledger'
<1>1. TypeOK /\ TypeOK' /\ Len(inst) <= Len(inst')
  <2>1. TypeOK /\ TypeOK'
    BY DEF Shape
  <2>2. Len(inst) \in Nat
    BY <2>1 DEF TypeOK
  <2> QED
    BY <2>1, <2>2
<1>2. \A u : Queued(u)' = Queued(u)
  BY DEF Queued
<1>3. \A i \in F : i \in 1..Len(inst) /\ inst[i].life = "destroyed" /\ inst[i].scope = s
  BY DEF Ledger, Retained
<1>4. ASSUME NEW i, NEW u, Live(i, u)
      PROVE  Live(i, u)' /\ inst'[i].desc = inst[i].desc
  <2>1. i \notin F \union {}
    BY <1>3, <1>4 DEF Live
  <2> QED
    BY <1>1, <1>4, <2>1, LiveKept
<1>5. Sound'
  <2> SUFFICES ASSUME NEW u \in Scopes, NEW d \in Known', Find(u, d)' # None
               PROVE  /\ Live(Find(u, d), u)' /\ inst'[Find(u, d)'].desc = d
                      /\ Find(u, d)' \in Queued(u)' <=> state'[u] = "Stopped"
    BY DEF Sound
  <2>1. PICK i : i = Find(u, d)'
    OBVIOUS
  <2>2. u # s /\ d \in Known /\ i = Find(u, d) /\ i # None
    BY <2>1 DEF FindsReset, Found
  <2>3. /\ Live(i, u) /\ inst[i].desc = d
        /\ i \in Queued(u) <=> state[u] = "Stopped"
    BY <2>2 DEF Ledger, Sound
  <2>4. Live(i, u)' /\ inst'[i].desc = d
    BY <1>4, <2>3
  <2> QED
    BY <1>2, <2>1, <2>2, <2>3, <2>4
<1>6. Waiting'
  BY <1>2, <1>4 DEF Ledger, Waiting
<1>7. Retained'
  <2> SUFFICES ASSUME NEW u \in Scopes, NEW i \in retired'[u]
               PROVE  i \in 1..Len(inst') /\ inst'[i].life = "destroyed" /\ inst'[i].scope = u
    BY DEF Retained
  <2>1. i \in retired[u] /\ i \in 1..Len(inst) /\ inst[i].life = "destroyed" /\ inst[i].scope = u
    BY DEF Ledger, Retained
  <2>2. i \notin F
    BY <1>3, <2>1
  <2> QED
    BY <2>1, <2>2 DEF InstAfter, LifeAfter
<1>8. ASSUME NEW i \in 1..Len(inst')
      PROVE  Entry(i, inst[i].scope)'
  <2>1. PICK u, d : u \in Scopes /\ u = inst[i].scope /\ d = inst[i].desc
    BY <1>1, InstanceIs
  <2>2. Entry(i, u)
    BY <2>1 DEF Ledger, Entries
  <2>3. /\ inst'[i].life = LifeAfter(inst[i].life, i, F, {})
        /\ inst'[i].desc = d /\ inst'[i].scope = u
    BY <2>1 DEF InstAfter
  <2>4. CASE i \in F
    BY <1>3, <2>1, <2>3, <2>4 DEF Entry, LifeAfter
  <2>5. CASE i \notin F
    <3>1. inst'[i].life = inst[i].life
      BY <2>3, <2>5 DEF LifeAfter
    <3>2. inst[i].life = "destroyed" => i \in retired'[u]
      BY <2>1, <2>2, <2>5 DEF Entry
    <3>3. ASSUME d \in Known, Find(u, d) = i
          PROVE  \/ d \in Known' /\ Find(u, d)' = i
                 \/ i \in Queued(u)
      <4>1. i # None
        BY <1>1, InstanceIs
      <4> QED
        BY <2>1, <3>3, <4>1 DEF FindsReset, Found
    <3> QED
      BY <1>2, <2>1, <2>2, <2>3, <3>1, <3>2, <3>3 DEF Entry
  <2> QED
    BY <2>4, <2>5
<1> QED
  BY <1>5, <1>6, <1>7, <1>8 DEF Ledger, Entries

\* What is found is in the array, and the other way round.
LEMMA ArrayFound ==
    ASSUME Shape, NEW s \in Scopes, NEW n \in 1..Len(array[s])
    PROVE  n \in 1..Len(slots) /\ slots[n] \in Known /\ Find(s, slots[n]) = array[s][n]
<1>1. /\ slots \in Seq(Descs) /\ IsInjective(slots) /\ Len(slots) \in Nat
      /\ Len(array[s]) \in Nat /\ Len(array[s]) <= Len(slots)
  BY DEF Shape, TypeOK, Numbering
<1>2. n \in 1..Len(slots)
  BY <1>1
<1>3. FindIn(slots, array[s], slots[n]) = IF n <= Len(array[s]) THEN array[s][n] ELSE None
  BY ONLY <1>1, <1>2, FindIs
<1> QED
  BY <1>1, <1>2, <1>3, FindState DEF Known

\* What is found is an element of the array.
LEMMA FindInRange ==
    ASSUME NEW D, NEW q \in Seq(D), IsInjective(q), NEW n \in 1..Len(q),
           NEW I, NEW a \in Seq(I), FindIn(q, a, q[n]) # None
    PROVE  FindIn(q, a, q[n]) \in Range(a)
<1>1. FindIn(q, a, q[n]) = IF n <= Len(a) THEN a[n] ELSE None
  BY FindIs
<1>2. n \in 1..Len(a) /\ FindIn(q, a, q[n]) = a[n]
  BY <1>1
<1> QED
  BY <1>2 DEF Range

\* What a scope finds is in its array.
LEMMA FoundInArray ==
    ASSUME Shape, NEW s \in Scopes, NEW d \in Known, Find(s, d) # None
    PROVE  Find(s, d) \in Range(array[s])
<1>1. /\ slots \in Seq(Descs) /\ IsInjective(slots)
      /\ array[s] \in Seq(Insts \union {None})
  BY DEF Shape, TypeOK, Numbering
<1>2. PICK n \in 1..Len(slots) : d = slots[n]
  BY DEF Known
<1>3. FindIn(slots, array[s], slots[n]) # None /\ n \in 1..Len(slots)
  BY <1>2, FindState
<1>4. FindIn(slots, array[s], slots[n]) \in Range(array[s])
  BY ONLY <1>1, <1>3, FindInRange
<1> QED
  BY <1>2, <1>4, FindState

\* start() ends: a queued binding is in its slot or is lost.
LEMMA LedgerStarted ==
    ASSUME Shape, Ledger, UNCHANGED <<inst, retired>>, Known' = Known, FindsKept,
           NEW s \in Scopes, state[s] = "Stopped",
           \A u \in Scopes : state'[u] = IF u = s THEN "Running" ELSE state[u],
           \A u \in Scopes : pending'[u] = IF u = s THEN <<>> ELSE pending[u],
           lost' = lost \union (Range(pending[s]) \ Range(array[s]))
    PROVE  Ledger'
<1>1. TypeOK
  BY DEF Shape
<1>2. /\ Queued(s)' = {} /\ Queued(s) = Range(pending[s])
      /\ \A u \in Scopes \ {s} : Queued(u)' = Queued(u)
  <2>1. Len(<<>>) = 0 /\ pending[s] \in Seq(Insts)
    BY <1>1 DEF TypeOK
  <2> QED
    BY <2>1 DEF Queued, Range
<1>3. Sound'
  <2> SUFFICES ASSUME NEW u \in Scopes, NEW d \in Known', Find(u, d)' # None
               PROVE  /\ Live(Find(u, d), u)' /\ inst'[Find(u, d)'].desc = d
                      /\ Find(u, d)' \in Queued(u)' <=> state'[u] = "Stopped"
    BY DEF Sound
  <2>1. PICK i : i = Find(u, d)'
    OBVIOUS
  <2>2. d \in Known /\ i = Find(u, d) /\ i # None
    BY <2>1 DEF FindsKept, Found
  <2>3. /\ Live(i, u) /\ inst[i].desc = d
        /\ i \in Queued(u) <=> state[u] = "Stopped"
    BY <2>2 DEF Ledger, Sound
  <2> QED
    BY <1>2, <2>1, <2>3 DEF Live
<1>4. Waiting' /\ Retained'
  BY <1>2 DEF Ledger, Waiting, Retained, Live
<1>5. ASSUME NEW i \in 1..Len(inst)
      PROVE  Entry(i, inst[i].scope)'
  <2>1. PICK u, d : u \in Scopes /\ u = inst[i].scope /\ d = inst[i].desc
    BY <1>1, InstanceIs
  <2>2. Entry(i, u)
    BY <2>1 DEF Ledger, Entries
  <2>3. d \in Known /\ Find(u, d) = i => d \in Known' /\ Find(u, d)' = i
    BY <2>1 DEF FindsKept, Found
  <2>4. ASSUME i \in Queued(u), u = s
        PROVE  (d \in Known /\ Find(u, d) = i) \/ i \in lost'
    <3>1. CASE i \in Range(array[s])
      <4>1. PICK n \in 1..Len(array[s]) : array[s][n] = i
        BY <1>1, <3>1 DEF Range, TypeOK
      <4>2. slots[n] \in Known /\ Find(s, slots[n]) = i /\ i # None
        BY <1>1, <4>1, ArrayFound, InstanceIs
      <4>3. inst[i].desc = slots[n]
        BY <4>2 DEF Ledger, Sound
      <4> QED
        BY <2>1, <2>4, <4>2, <4>3
    <3>2. CASE i \notin Range(array[s])
      BY <1>2, <2>4, <3>2
    <3> QED
      BY <3>1, <3>2
  <2> QED
    BY <1>2, <2>1, <2>2, <2>3, <2>4 DEF Entry
<1> QED
  BY <1>3, <1>4, <1>5 DEF Ledger, Entries

\* The instance k of s is freed, or destroyed and its block retired.
Destroys(s, k, op) ==
    /\ InstAfter(IF op = "restart" THEN {} ELSE {k}, IF op = "restart" THEN {k} ELSE {})
    /\ \A u \in Scopes : retired'[u] = IF op = "restart" /\ u = s THEN retired[u] \union {k}
                                        ELSE retired[u]

\* A swept instance is destroyed: freed, or its block retired.
LEMMA LedgerSwept ==
    ASSUME Shape, Shape', Ledger, UNCHANGED <<state, pending, lost>>, Known' = Known,
           NEW s \in Scopes, state[s] # "Stopped", NEW e \in Known, NEW k, k = Find(s, e), k # None,
           FindsStored(s, e, None), Len(inst') = Len(inst), NEW op, Destroys(s, k, op)
    PROVE  Ledger'
<1>1. TypeOK /\ TypeOK' /\ Len(inst) <= Len(inst')
  <2>1. TypeOK /\ TypeOK'
    BY DEF Shape
  <2>2. Len(inst) \in Nat
    BY <2>1 DEF TypeOK
  <2> QED
    BY <2>1, <2>2
<1>a. /\ InstAfter(IF op = "restart" THEN {} ELSE {k}, IF op = "restart" THEN {k} ELSE {})
      /\ \A u \in Scopes : retired'[u] = IF op = "restart" /\ u = s THEN retired[u] \union {k}
                                          ELSE retired[u]
  BY DEF Destroys
<1>2. \A u : Queued(u)' = Queued(u)
  BY DEF Queued
<1>3. Live(k, s) /\ inst[k].desc = e /\ k \notin Queued(s)
  BY DEF Ledger, Sound
<1>4. \A u \in Scopes : \A d \in Known : Find(u, d)' = IF u = s /\ d = e THEN None ELSE Find(u, d)
  BY DEF FindsStored, Found
<1>5. ASSUME NEW i, NEW u, Live(i, u), i # k
      PROVE  Live(i, u)' /\ inst'[i].desc = inst[i].desc
  <2>1. PICK F, K : F = (IF op = "restart" THEN {} ELSE {k}) /\ K = (IF op = "restart" THEN {k} ELSE {})
    OBVIOUS
  <2>2. InstAfter(F, K) /\ i \notin F \union K
    BY <1>a, <1>5, <2>1
  <2> QED
    BY ONLY <1>1, <1>5, <2>2, LiveKept
<1>6. Sound'
  <2> SUFFICES ASSUME NEW u \in Scopes, NEW d \in Known', Find(u, d)' # None
               PROVE  /\ Live(Find(u, d), u)' /\ inst'[Find(u, d)'].desc = d
                      /\ Find(u, d)' \in Queued(u)' <=> state'[u] = "Stopped"
    BY DEF Sound
  <2>1. PICK i : i = Find(u, d)'
    OBVIOUS
  <2>2. ~ (u = s /\ d = e) /\ d \in Known /\ i = Find(u, d) /\ i # None
    BY <1>4, <2>1
  <2>3. /\ Live(i, u) /\ inst[i].desc = d
        /\ i \in Queued(u) <=> state[u] = "Stopped"
    BY <2>2 DEF Ledger, Sound
  <2>4. i # k
    BY <1>3, <2>2, <2>3 DEF Live
  <2>5. Live(i, u)' /\ inst'[i].desc = d
    BY <1>5, <2>3, <2>4
  <2> QED
    BY <1>2, <2>1, <2>3, <2>5
<1>7. Waiting'
  <2> SUFFICES ASSUME NEW u \in Scopes, NEW i \in Queued(u)
               PROVE  Live(i, u)' /\ inst'[i].desc \in Nat
    BY <1>2 DEF Waiting
  <2>1. Live(i, u) /\ inst[i].desc \in Nat
    BY DEF Ledger, Waiting
  <2>2. i # k
    BY <1>3, <2>1 DEF Live
  <2> QED
    BY <1>5, <2>1, <2>2
<1>8. Retained'
  <2> SUFFICES ASSUME NEW u \in Scopes, NEW i \in retired'[u]
               PROVE  i \in 1..Len(inst') /\ inst'[i].life = "destroyed" /\ inst'[i].scope = u
    BY DEF Retained
  <2>1. CASE i \in retired[u]
    <3>1. i \in 1..Len(inst) /\ inst[i].life = "destroyed" /\ inst[i].scope = u
      BY <2>1 DEF Ledger, Retained
    <3>2. i # k
      BY <1>3, <3>1 DEF Live
    <3> QED
      BY <1>a, <3>1, <3>2 DEF InstAfter, LifeAfter
  <2>2. CASE i = k /\ u = s /\ op = "restart"
    BY <1>a, <1>3, <2>2 DEF InstAfter, LifeAfter, Live
  <2> QED
    BY <1>a, <2>1, <2>2
<1>9. ASSUME NEW i \in 1..Len(inst')
      PROVE  Entry(i, inst[i].scope)'
  <2>1. PICK u, d : u \in Scopes /\ u = inst[i].scope /\ d = inst[i].desc
    BY <1>1, InstanceIs
  <2>2. Entry(i, u)
    BY <2>1 DEF Ledger, Entries
  <2>3. inst'[i].desc = d /\ inst'[i].scope = u
    BY <1>a, <2>1 DEF InstAfter
  <2>4. CASE i = k
    <3>1. u = s /\ inst'[i].life = IF op = "restart" THEN "destroyed" ELSE "freed"
      BY <1>a, <1>3, <2>1, <2>4 DEF InstAfter, LifeAfter, Live
    <3>2. op = "restart" => i \in retired'[s]
      BY <1>a, <2>4
    <3> QED
      BY <2>1, <2>3, <3>1, <3>2 DEF Entry
  <2>5. CASE i # k
    <3>1. inst'[i].life = inst[i].life
      BY <1>a, <2>5 DEF InstAfter, LifeAfter
    <3>2. d \in Known /\ Find(u, d) = i => d \in Known' /\ Find(u, d)' = i
      BY <1>4, <2>1, <2>5
    <3>3. i \in retired[u] => i \in retired'[u]
      BY <1>a, <2>1
    <3> QED
      BY <1>2, <2>1, <2>2, <2>3, <3>1, <3>2, <3>3 DEF Entry
  <2> QED
    BY <2>4, <2>5
<1> QED
  BY <1>6, <1>7, <1>8, <1>9 DEF Ledger, Entries

\* The context is destroyed, with what was queued and what was retired.
LEMMA LedgerGone ==
    ASSUME Shape, Shape', Ledger, Known' = Known, UNCHANGED lost,
           \A u \in Scopes : state[u] = "Stopped", \A u \in Scopes : \A d \in Known : Find(u, d)' = None,
           NEW F, F = UNION {Range(pending[u]) \union retired[u] : u \in Scopes},
           Len(inst') = Len(inst), InstAfter(F, {}),
           \A u \in Scopes : retired'[u] = {} /\ pending'[u] = <<>>
    PROVE  Ledger'
<1>1. TypeOK
  BY DEF Shape
<1>2. \A u \in Scopes : Queued(u)' = {} /\ Queued(u) = Range(pending[u])
  <2>1. Len(<<>>) = 0 /\ \A u \in Scopes : pending[u] \in Seq(Insts)
    BY <1>1 DEF TypeOK
  <2> QED
    BY <2>1 DEF Queued, Range
<1>3. \A i \in F : i \in 1..Len(inst) /\ inst[i].life \in {"made", "destroyed"}
  BY <1>2 DEF Ledger, Waiting, Retained, Live
<1>4. Sound' /\ Waiting' /\ Retained'
  BY <1>2 DEF Sound, Waiting, Retained
<1>5. ASSUME NEW i \in 1..Len(inst')
      PROVE  Entry(i, inst[i].scope)'
  <2>1. PICK u, d : u \in Scopes /\ u = inst[i].scope /\ d = inst[i].desc
    BY <1>1, InstanceIs
  <2>2. Entry(i, u)
    BY <2>1 DEF Ledger, Entries
  <2>3. /\ inst'[i].life = LifeAfter(inst[i].life, i, F, {})
        /\ inst'[i].desc = d /\ inst'[i].scope = u
    BY <2>1 DEF InstAfter
  <2>4. CASE i \in F
    BY <1>3, <2>1, <2>3, <2>4 DEF Entry, LifeAfter
  <2>5. CASE i \notin F
    <3>1. inst'[i].life = inst[i].life
      BY <2>3, <2>5 DEF LifeAfter
    <3>2. inst[i].life # "destroyed" /\ i \notin Queued(u)
      BY <1>2, <2>1, <2>2, <2>5 DEF Entry
    <3>3. ~ (d \in Known /\ Find(u, d) = i)
      <4>1. i # None
        BY <1>1, InstanceIs
      <4> QED
        BY <2>1, <3>2, <4>1 DEF Ledger, Sound
    <3> QED
      BY <2>1, <2>2, <2>3, <3>1, <3>2, <3>3 DEF Entry
  <2> QED
    BY <2>4, <2>5
<1> QED
  BY <1>4, <1>5 DEF Ledger, Entries

-----------------------------------------------------------------------------
(* Calls and Arranged are preserved.                                       *)

\* Nothing is stored in u and nothing leaves its slots.
ScopeKept(u) == \A d \in Known' : Find(u, d)' = Found(u, d)

\* Every scope is kept but s.
LEMMA OthersKept ==
    ASSUME NEW s, NEW e, NEW i,
           FindsKept \/ FindsStored(s, e, i) \/ FindsReset(s)
    PROVE  \A u \in Scopes : u # s => ScopeKept(u)
BY DEF FindsKept, FindsStored, FindsReset, ScopeKept

\* A step that leaves what is found alone does so for every scope.
LEMMA AllKept ==
    ASSUME FindsKept
    PROVE  \A u \in Scopes : ScopeKept(u)
BY DEF FindsKept, ScopeKept

\* What a scope has stored stays stored when the scope is kept.
LEMMA StoredKept ==
    ASSUME NEW u, ScopeKept(u), Known \subseteq Known', NEW q,
           \A n \in 1..Len(q) : q[n] \in Known, Stored(u, q)
    PROVE  Stored(u, q)'
BY DEF Stored, ScopeKept, Found

\* What a call expects of a scope that is kept.
LEMMA ExpectsKept ==
    ASSUME NEW f, FrameOK(f), Expects(f), Known \subseteq Known', ScopeKept(f.scope)
    PROVE  Expects(f)'
<1>1. f.at = "construct" => Find(f.scope, f.desc)' = None
  BY DEF FrameOK, Expects, ScopeKept, Found
<1>2. ASSUME f.op \in {"stop", "restart"}
      PROVE  /\ \A d \in Known' : Find(f.scope, d)' # None =>
                    d \in Todo(f) \/ (f.at = "callback" /\ f.desc = d)
             /\ Stored(f.scope, f.todo)'
             /\ f.at = "callback" => Find(f.scope, f.desc)' # None
  <2>1. \A d \in Known' : Find(f.scope, d)' # None => d \in Known /\ Find(f.scope, d) # None
    BY DEF ScopeKept, Found
  <2>2. \A d \in Known : Find(f.scope, d) # None =>
            d \in Todo(f) \/ (f.at = "callback" /\ f.desc = d)
    BY <1>2 DEF Expects
  <2>3. \A n \in 1..Len(f.todo) : f.todo[n] \in Known
    BY <1>2 DEF FrameOK, Todo
  <2>4. Stored(f.scope, f.todo)'
    BY <1>2, <2>3, StoredKept DEF Expects
  <2>5. f.at = "callback" => Find(f.scope, f.desc)' # None
    BY <1>2 DEF FrameOK, Expects, ScopeKept, Found
  <2> QED
    BY <2>1, <2>2, <2>4, <2>5
<1>3. DepsFirst(f.todo)' = DepsFirst(f.todo) /\ Todo(f)' = Todo(f)
  BY DEF DepsFirst, Todo
<1> QED
  BY <1>1, <1>2, <1>3 DEF Expects

\* A constructor is not overtaken, and no other call expects anything here.
LEMMA ExpectsConstruct ==
    ASSUME NEW f, f.op \notin {"stop", "restart"},
           f.at = "construct" => Find(f.scope, f.desc)' = None
    PROVE  Expects(f)'
BY DEF Expects

\* The calls after a step.
LEMMA CallsKept ==
    ASSUME Shape, Calls, Known \subseteq Known', NEW m \in Nat, Below(m),
           \A n \in 1..m : \A g : g = frames[n] =>
                \/ ScopeKept(g.scope)
                \/ /\ g.op \notin {"stop", "restart"}
                   /\ g.at = "construct" => Find(g.scope, g.desc)' = None,
           NEW f, Len(frames') = m + 1 => frames'[m + 1] = f /\ Expects(f)'
    PROVE  Calls'
<1>0. Len(frames) \in Nat
  BY DEF Shape, TypeOK
<1>1. /\ \A n \in 1..m : n \in 1..Len(frames) /\ frames'[n] = frames[n]
      /\ \A n \in 1..Len(frames') : n \in 1..m \/ (n = m + 1 /\ Len(frames') = m + 1)
  BY <1>0 DEF Below
<1>2. ASSUME NEW n \in 1..Len(frames')
      PROVE  Expects(frames[n])'
  <2>1. PICK g : g = frames'[n]
    OBVIOUS
  <2>2. CASE n \in 1..m
    <3>1. g = frames[n] /\ FrameOK(g) /\ Expects(g)
      BY <1>1, <2>1, <2>2 DEF Shape, Stack, Calls
    <3>2. CASE ScopeKept(g.scope)
      <4>1. Expects(g)'
        BY <3>1, <3>2, ExpectsKept
      <4> QED
        BY <2>1, <4>1
    <3>3. CASE g.op \notin {"stop", "restart"} /\ (g.at = "construct" => Find(g.scope, g.desc)' = None)
      <4>1. Expects(g)'
        BY <3>3, ExpectsConstruct
      <4> QED
        BY <2>1, <4>1
    <3> QED
      BY <2>2, <3>1, <3>2, <3>3
  <2>3. CASE n = m + 1 /\ Len(frames') = m + 1
    BY <2>3
  <2> QED
    BY <1>1, <2>2, <2>3
<1> QED
  BY <1>2 DEF Calls

\* What is found does not change.
LEMMA CallsFindsKept ==
    ASSUME Shape, Calls, Known \subseteq Known', FindsKept, NEW m \in Nat, Below(m),
           NEW f, Len(frames') = m + 1 => frames'[m + 1] = f /\ Expects(f)'
    PROVE  Calls'
<1>1. ASSUME NEW n \in 1..m, NEW g, g = frames[n]
      PROVE  \/ ScopeKept(g.scope)
             \/ /\ g.op \notin {"stop", "restart"}
                /\ g.at = "construct" => Find(g.scope, g.desc)' = None
  <2>1. n \in 1..Len(frames)
    BY DEF Below, Shape, TypeOK
  <2>2. FrameOK(g)
    BY <1>1, <2>1 DEF Shape, Stack
  <2> QED
    BY <2>2, AllKept DEF FrameOK
<1> QED
  BY <1>1, CallsKept

\* What is found changes in s only, and none of the calls below is in s.
LEMMA CallsOthers ==
    ASSUME Shape, Calls, Known \subseteq Known', NEW s, \A u \in Scopes : u # s => ScopeKept(u),
           NEW m \in Nat, Below(m), \A n \in 1..m : frames[n].scope # s,
           NEW f, Len(frames') = m + 1 => frames'[m + 1] = f /\ Expects(f)'
    PROVE  Calls'
<1>1. ASSUME NEW n \in 1..m, NEW g, g = frames[n]
      PROVE  \/ ScopeKept(g.scope)
             \/ /\ g.op \notin {"stop", "restart"}
                /\ g.at = "construct" => Find(g.scope, g.desc)' = None
  <2>1. n \in 1..Len(frames)
    BY DEF Below, Shape, TypeOK
  <2>2. FrameOK(g) /\ g.scope # s
    BY <1>1, <2>1 DEF Shape, Stack
  <2> QED
    BY <2>2 DEF FrameOK
<1> QED
  BY <1>1, CallsKept

\* e is stored in s, where nothing is being stopped and e not being constructed.
LEMMA CallsStored ==
    ASSUME Shape, Calls, NEW s \in Scopes, state[s] # "Stopping", NEW e, NEW i, StoreStep(s, e, i),
           NEW m \in Nat, Below(m),
           \A n \in 1..m : frames[n].at = "construct" => frames[n].desc # e,
           NEW f, Len(frames') = m + 1 => frames'[m + 1] = f /\ Expects(f)'
    PROVE  Calls'
<1>1. ASSUME NEW n \in 1..m, NEW g, g = frames[n]
      PROVE  \/ ScopeKept(g.scope)
             \/ /\ g.op \notin {"stop", "restart"}
                /\ g.at = "construct" => Find(g.scope, g.desc)' = None
  <2>1. n \in 1..Len(frames)
    BY DEF Below, Shape, TypeOK
  <2>2. FrameOK(g) /\ Expects(g)
    BY <1>1, <2>1 DEF Shape, Stack, Calls
  <2>3. CASE g.scope = s
    <3>1. g.op \notin {"stop", "restart"}
      BY <2>2, <2>3 DEF FrameOK
    <3>2. ASSUME g.at = "construct"
          PROVE  Find(g.scope, g.desc)' = None
      <4>1. g.desc \in Known /\ g.desc # e /\ Find(g.scope, g.desc) = None
        BY <1>1, <2>2, <3>2 DEF FrameOK, Expects
      <4> QED
        BY <2>3, <4>1 DEF StoreStep, FindsStored, Found
    <3> QED
      BY <3>1, <3>2
  <2>4. CASE g.scope # s
    <3>1. g.scope \in Scopes => ScopeKept(g.scope)
      BY <2>4, OthersKept DEF StoreStep
    <3> QED
      BY <2>2, <3>1 DEF FrameOK
  <2> QED
    BY <2>3, <2>4
<1>2. Known \subseteq Known'
  BY DEF StoreStep
<1> QED
  BY <1>1, <1>2, CallsKept

\* A scope in which nothing is stored keeps its order.
LEMMA ArrangedKept ==
    ASSUME Shape, NEW u \in Scopes, ArrangedIn(u), Known \subseteq Known', ScopeKept(u),
           order'[u] = order[u],
           \/ state'[u] = state[u] \/ state'[u] = "Stopping"
           \/ state[u] = "Stopped" /\ state'[u] = "Running"
    PROVE  ArrangedIn(u)'
<1>1. Ordered(u)' = Ordered(u)
  BY DEF Ordered
<1>2. state'[u] # "Stopping" => \A d \in Known' : Find(u, d)' # None => d \in Ordered(u)'
  BY <1>1 DEF ArrangedIn, ScopeKept, Found
<1>3. ASSUME state'[u] = "Running"
      PROVE  DepsFirst(order[u]) /\ Stored(u, order[u])
  <2>1. CASE state[u] = "Running"
    BY <2>1 DEF ArrangedIn
  <2>2. CASE state[u] = "Stopped"
    BY <2>2 DEF ArrangedIn, DepsFirst, Stored
  <2> QED
    BY <1>3, <2>1, <2>2
<1>4. ASSUME state'[u] = "Running"
      PROVE  DepsFirst(order[u])' /\ Stored(u, order[u])'
  <2>1. PICK q : q = order[u]
    OBVIOUS
  <2>2. \A n \in 1..Len(q) : q[n] \in Known
    BY <2>1 DEF Shape, Numbering
  <2>3. Stored(u, q)'
    BY <1>3, <1>4, <2>1, <2>2, StoredKept
  <2>4. DepsFirst(q)'
    BY <1>3, <1>4, <2>1 DEF DepsFirst
  <2>5. order'[u] = q
    BY <2>1
  <2> QED
    BY <2>3, <2>4, <2>5
<1>5. state'[u] = "Stopped" => \A n \in 1..Len(order'[u]) : order'[u][n] \notin Beans
  BY DEF ArrangedIn
<1> QED
  BY <1>2, <1>4, <1>5 DEF ArrangedIn

\* Nothing changes in the slots and the orders.
LEMMA ArrangedQuiet ==
    ASSUME Shape, Arranged, Known \subseteq Known', FindsKept, order' = order,
           \A u \in Scopes :
               \/ state'[u] = state[u] \/ state'[u] = "Stopping"
               \/ state[u] = "Stopped" /\ state'[u] = "Running"
    PROVE  Arranged'
<1>1. ASSUME NEW u \in Scopes
      PROVE  ArrangedIn(u)'
  BY AllKept, ArrangedKept DEF Arranged
<1> QED
  BY <1>1 DEF Arranged

\* The others are as they were.
LEMMA ArrangedOthers ==
    ASSUME Shape, Arranged, Known \subseteq Known', NEW s \in Scopes,
           \A u \in Scopes : u # s => ScopeKept(u) /\ order'[u] = order[u] /\ state'[u] = state[u],
           ArrangedIn(s)'
    PROVE  Arranged'
<1>1. ASSUME NEW u \in Scopes, u # s
      PROVE  ArrangedIn(u)'
  BY <1>1, ArrangedKept DEF Arranged
<1> QED
  BY <1>1 DEF Arranged

\* The array is given up and the order with it, or there are only bindings in it.
LEMMA ArrangedReset ==
    ASSUME Shape, Arranged, Known' = Known, NEW s \in Scopes, FindsReset(s), state'[s] = "Stopped",
           \A u \in Scopes : u # s => order'[u] = order[u] /\ state'[u] = state[u],
           order'[s] = <<>> \/ (order'[s] = order[s] /\ state[s] = "Stopped")
    PROVE  Arranged'
<1>1. \A u \in Scopes : u # s => ScopeKept(u)
  BY OthersKept
<1>2. \A d \in Known' : Find(s, d)' = None
  BY DEF FindsReset
<1>3. \A n \in 1..Len(order'[s]) : order'[s][n] \notin Beans
  BY DEF Arranged, ArrangedIn
<1>4. ArrangedIn(s)'
  BY <1>2, <1>3 DEF ArrangedIn
<1> QED
  BY <1>1, <1>4, ArrangedOthers

Elems(q) == {q[n] : n \in 1..Len(q)}

\* A bean goes behind the beans injected in it.
LEMMA DepsFirstAppend ==
    ASSUME NEW D, NEW q \in Seq(D), NEW d \in D, DepsFirst(q),
           d \in Beans => d \notin Elems(q) /\ Deps[d] \subseteq Elems(q)
    PROVE  DepsFirst(Append(q, d)) /\ Elems(Append(q, d)) = Elems(q) \union {d}
<1>1. PICK r : r = Append(q, d)
  OBVIOUS
<1>2. /\ Len(r) = Len(q) + 1 /\ \A n \in 1..Len(q) : r[n] = q[n]
      /\ \A n \in 1..Len(q) + 1 : n \notin 1..Len(q) => n = Len(q) + 1 /\ r[n] = d
  BY ONLY <1>1, q \in Seq(D), d \in D, AppendIs
<1>3. Len(q) \in Nat
  OBVIOUS
<1>4. PICK k : k = Len(q) + 1
  OBVIOUS
<1>5. /\ k \in 1..Len(r) /\ k \notin 1..Len(q) /\ r[k] = d
      /\ \A n \in 1..Len(r) : n = k \/ n \in 1..Len(q)
      /\ \A n \in 1..Len(q) : n \in 1..Len(r) /\ n < k
  BY <1>2, <1>3, <1>4
<1>6. ASSUME NEW m \in 1..Len(r), NEW n \in 1..Len(r), r[m] \in Beans, r[m] = r[n]
      PROVE  m = n
  <2>1. CASE m \in 1..Len(q) /\ n \in 1..Len(q)
    BY <1>2, <1>6, <2>1 DEF DepsFirst
  <2>2. CASE m = k /\ n \in 1..Len(q)
    BY <1>2, <1>5, <1>6, <2>2 DEF Elems
  <2>3. CASE m \in 1..Len(q) /\ n = k
    BY <1>2, <1>5, <1>6, <2>3 DEF Elems
  <2> QED
    BY <1>5, <2>1, <2>2, <2>3
<1>7. ASSUME NEW n \in 1..Len(r), r[n] \in Beans, NEW b \in Deps[r[n]]
      PROVE  \E m \in 1..Len(r) : m < n /\ r[m] = b
  <2>1. CASE n \in 1..Len(q)
    <3>1. PICK m \in 1..Len(q) : m < n /\ q[m] = b
      BY <1>2, <1>7, <2>1 DEF DepsFirst
    <3> QED
      BY <1>2, <1>5, <3>1
  <2>2. CASE n = k
    <3>1. PICK m \in 1..Len(q) : q[m] = b
      BY <1>5, <1>7, <2>2 DEF Elems
    <3> QED
      BY <1>2, <1>5, <2>2, <3>1
  <2> QED
    BY <1>5, <2>1, <2>2
<1>8. Elems(r) = Elems(q) \union {d}
  BY <1>2, <1>5 DEF Elems
<1>9. DepsFirst(r)
  BY <1>6, <1>7 DEF DepsFirst
<1> QED
  BY <1>1, <1>8, <1>9

\* The last bean is taken away, and those injected in it are left.
Cut(q) == SubSeq(q, 1, Len(q) - 1)
Final(q) == q[Len(q)]
\* The rest of the order is an order of the same kind.
LEMMA DepsFirstCut ==
    ASSUME NEW D, NEW q \in Seq(D), q # <<>>, DepsFirst(q)
    PROVE  /\ DepsFirst(Cut(q)) /\ Elems(q) = Elems(Cut(q)) \union {Final(q)}
           /\ Final(q) \in Beans =>
                Deps[Final(q)] \subseteq Elems(Cut(q)) /\ Final(q) \notin Elems(Cut(q))
<1>0. PICK r, d : r = Cut(q) /\ r = SubSeq(q, 1, Len(q) - 1) /\ d = Final(q) /\ d = q[Len(q)]
  BY DEF Cut, Final
<1>1. PICK k \in Nat : k = Len(q) /\ k # 0
  OBVIOUS
<1>2. Len(r) = k - 1 /\ \A n \in 1..k - 1 : r[n] = q[n]
  BY <1>0, <1>1
<1>3. /\ \A n \in 1..Len(r) : n \in 1..Len(q) /\ n # k /\ r[n] = q[n]
      /\ \A n \in 1..Len(q) : n < k => n \in 1..Len(r)
      /\ k \in 1..Len(q) /\ \A n \in 1..Len(q) : n = k \/ n < k
  BY <1>1, <1>2
<1>4. Elems(q) = Elems(r) \union {d}
  BY <1>0, <1>1, <1>3 DEF Elems
<1>5. ASSUME NEW n \in 1..Len(q), q[n] \in Beans, NEW b \in Deps[q[n]]
      PROVE  \E m \in 1..Len(r) : m < n /\ r[m] = b
  <2>1. PICK m \in 1..Len(q) : m < n /\ q[m] = b
    BY <1>5 DEF DepsFirst
  <2>2. m < k
    BY <1>1, <1>3, <2>1
  <2> QED
    BY <1>3, <2>1, <2>2
<1>6. DepsFirst(r)
  <2>1. \A m, n \in 1..Len(r) : r[m] \in Beans /\ r[m] = r[n] => m = n
    BY <1>3 DEF DepsFirst
  <2>2. \A n \in 1..Len(r) : r[n] \in Beans =>
            \A b \in Deps[r[n]] : \E m \in 1..Len(r) : m < n /\ r[m] = b
    BY <1>3, <1>5
  <2> QED
    BY <2>1, <2>2 DEF DepsFirst
<1>7. ASSUME d \in Beans
      PROVE  Deps[d] \subseteq Elems(r) /\ d \notin Elems(r)
  <2>1. Deps[d] \subseteq Elems(r)
    BY <1>0, <1>1, <1>3, <1>5, <1>7 DEF Elems
  <2>2. d \notin Elems(r)
    BY <1>0, <1>1, <1>3, <1>7 DEF Elems, DepsFirst
  <2> QED
    BY <2>1, <2>2
<1> QED
  BY <1>0, <1>4, <1>6, <1>7

\* A binding, or a bean whose dependencies are there, is stored.
LEMMA ArrangedStored ==
    ASSUME Shape, Arranged, NEW s \in Scopes, state[s] # "Stopping", state' = state,
           NEW e, NEW i, i # None, StoreStep(s, e, i),
           \/ e \in Nat
           \/ /\ state[s] = "Running" /\ e \in Known /\ Find(s, e) = None
              /\ \A b \in Deps[e] : b \in Known /\ Find(s, b) # None
    PROVE  Arranged'
<1>1. PICK q : q = order[s]
  OBVIOUS
<1>2. q \in Seq(Descs) /\ \A n \in 1..Len(q) : q[n] \in Known
  <2>1. TypeOK /\ Numbering
    BY DEF Shape
  <2>2. q \in Seq(Descs)
    BY <1>1, <2>1 DEF TypeOK
  <2>3. \A n \in 1..Len(q) : q[n] \in Known
    BY <1>1, <2>1 DEF Numbering
  <2> QED
    BY <2>2, <2>3
<1>3. /\ Known \subseteq Known' /\ e \in Known'
      /\ \A u \in Scopes : \A d \in Known' : Find(u, d)' = IF u = s /\ d = e THEN i ELSE Found(u, d)
      /\ \A u \in Scopes : order'[u] = IF u = s THEN Append(order[u], e) ELSE order[u]
  BY DEF StoreStep, FindsStored
<1>4. e \in Nat => e \notin Beans
  BY ScopeConstants
<1>5. Ordered(s) = Elems(q) /\ ArrangedIn(s)
  BY <1>1 DEF Ordered, Elems, Arranged
<1>6. PICK D : q \in Seq(D) /\ e \in D
  <2>1. q \in Seq(Descs \union {e})
    BY <1>2
  <2> QED
    BY <2>1
<1>7. PICK r : r = Append(q, e)
  OBVIOUS
<1>8. r = order'[s] /\ Elems(r) = Elems(q) \union {e} /\ Ordered(s)' = Elems(r)
  <2>1. r = order'[s]
    BY <1>1, <1>3, <1>7
  <2>2. /\ Len(r) = Len(q) + 1 /\ \A n \in 1..Len(q) : r[n] = q[n]
        /\ \A n \in 1..Len(q) + 1 : n \notin 1..Len(q) => n = Len(q) + 1 /\ r[n] = e
    BY ONLY <1>6, <1>7, AppendIs
  <2>3. PICK k : k \in 1..Len(r) /\ k \notin 1..Len(q) /\ r[k] = e
    <3>1. /\ Len(q) + 1 \in 1..Len(q) + 1 /\ Len(q) + 1 \notin 1..Len(q)
      BY <1>6
    <3> QED
      BY <2>2, <3>1
  <2>4. /\ \A n \in 1..Len(q) : n \in 1..Len(r) /\ r[n] = q[n]
        /\ \A n \in 1..Len(r) : n \in 1..Len(q) \/ r[n] = e
    BY <1>6, <2>2
  <2>5. Elems(r) = Elems(q) \union {e}
    BY <2>3, <2>4 DEF Elems
  <2> QED
    BY <2>1, <2>5 DEF Elems, Ordered
<1>9. \A d \in Known' : Find(s, d)' # None => d \in Ordered(s)'
  BY <1>3, <1>5, <1>8 DEF ArrangedIn, Found
<1>10. ASSUME state[s] = "Running"
       PROVE  DepsFirst(r) /\ Stored(s, r)'
  <2>1. DepsFirst(q) /\ Stored(s, q)
    BY <1>1, <1>5, <1>10 DEF ArrangedIn
  <2>2. ASSUME e \in Beans
        PROVE  e \notin Elems(q) /\ Deps[e] \subseteq Elems(q)
    <3>1. Find(s, e) = None /\ \A b \in Deps[e] : b \in Known /\ Find(s, b) # None
      BY <1>4, <2>2
    <3>2. e \notin Elems(q)
      BY <2>1, <2>2, <3>1 DEF Stored, Elems
    <3> QED
      BY <1>5, <1>10, <3>1, <3>2 DEF ArrangedIn
  <2>3. DepsFirst(r)
    BY <1>6, <1>7, <2>1, <2>2, DepsFirstAppend
  <2>4. ASSUME NEW n \in 1..Len(r), r[n] \in Beans
        PROVE  Find(s, r[n])' # None
    <3>1. PICK d : d = r[n]
      OBVIOUS
    <3>2. d \in Elems(q) \union {e}
      BY <1>8, <3>1 DEF Elems
    <3>3. CASE d = e
      BY <1>3, <3>1, <3>3
    <3>4. CASE d \in Elems(q) /\ d # e
      <4>1. d \in Known /\ Find(s, d) # None
        BY <1>2, <2>1, <2>4, <3>1, <3>4 DEF Elems, Stored
      <4>2. Find(s, d)' # None
        BY <1>3, <3>4, <4>1 DEF Found
      <4> QED
        BY <3>1, <4>2
    <3> QED
      BY <3>2, <3>3, <3>4
  <2> QED
    BY <2>3, <2>4 DEF Stored
<1>11. ASSUME state[s] = "Stopped"
       PROVE  \A n \in 1..Len(r) : r[n] \notin Beans
  <2>1. \A d \in Elems(q) : d \notin Beans
    BY <1>1, <1>5, <1>11 DEF ArrangedIn, Elems
  <2>2. e \notin Beans
    BY <1>4, <1>11
  <2>3. \A n \in 1..Len(r) : r[n] \in Elems(r)
    BY DEF Elems
  <2> QED
    BY <1>8, <2>1, <2>2, <2>3
<1>12. ArrangedIn(s)'
  <2>1. DepsFirst(r)' = DepsFirst(r)
    BY DEF DepsFirst
  <2>2. order'[s] = r /\ state'[s] = state[s]
    BY <1>8
  <2> QED
    BY <1>9, <1>10, <1>11, <2>1, <2>2 DEF ArrangedIn
<1>13. \A u \in Scopes : u # s => ScopeKept(u) /\ order'[u] = order[u] /\ state'[u] = state[u]
  BY <1>3 DEF ScopeKept
<1> QED
  BY <1>3, <1>12, <1>13, ArrangedOthers

-----------------------------------------------------------------------------
(* Inv is preserved, action by action.                                     *)

\* Calls start, go on or end; a scope may begin to stop.
LEMMA InvQuiet ==
    ASSUME Inv, Shape', FindsKept, Known' = Known, UNCHANGED <<inst, order, retired, pending, lost>>,
           \A u \in Scopes : state'[u] = state[u] \/ (state[u] = "Running" /\ state'[u] = "Stopping"),
           NEW m \in Nat, Below(m),
           NEW f, Len(frames') = m + 1 => frames'[m + 1] = f /\ Expects(f)'
    PROVE  Inv'
<1>1. Shape /\ Ledger /\ Arranged /\ Calls /\ TypeOK
  BY DEF Inv, Shape
<1>2. Ledger'
  BY <1>1, LedgerQuiet
<1>3. Arranged'
  BY <1>1, ArrangedQuiet
<1>4. Calls'
  BY <1>1, CallsFindsKept
<1> QED
  BY <1>2, <1>3, <1>4 DEF Inv

\* The call on top goes on as f, or f starts inside it.
LEMMA InvCall ==
    ASSUME Inv, Shape', FindsKept, Known' = Known, UNCHANGED <<inst, order, retired, pending, lost>>,
           \A u \in Scopes : state'[u] = state[u] \/ (state[u] = "Running" /\ state'[u] = "Stopping"),
           NEW f, (frames # <<>> /\ Moves(f)) \/ Rises(f), Expects(f)'
    PROVE  Inv'
<1>1. Depth \in Nat /\ (frames # <<>> => Depth \in Nat \ {0})
  BY DEF Inv, Shape, TypeOK, Depth
<1>2. CASE frames # <<>> /\ Moves(f)
  <2>1. PICK m \in Nat : m = Depth - 1
    BY <1>1, <1>2
  <2>2. Below(m) /\ (Len(frames') = m + 1 => frames'[m + 1] = f)
    BY <1>1, <1>2, <2>1 DEF Moves
  <2> QED
    BY <2>2, InvQuiet
<1>3. CASE Rises(f)
  <2>1. PICK m \in Nat : m = Depth
    BY <1>1
  <2>2. Below(m) /\ (Len(frames') = m + 1 => frames'[m + 1] = f)
    BY <1>3, <2>1 DEF Rises
  <2> QED
    BY <2>2, InvQuiet
<1> QED
  BY <1>2, <1>3

\* Calls end.
LEMMA InvCut ==
    ASSUME Inv, frames # <<>>, Finish \/ Raise,
           UNCHANGED <<root, bound, slots, inst, state, store, pending, lost>>
    PROVE  Inv'
<1>1. Shape /\ TypeOK
  BY DEF Inv, Shape
<1>2. Shape' /\ FindsKept /\ Known' = Known
  BY <1>1, ShapeCut
<1>3. PICK m \in 0..Depth - 1 : Below(m) /\ Len(frames') = m
  BY <1>1, CutFrames
<1>4. m \in Nat /\ Len(frames') # m + 1
  BY <1>3
<1> QED
  BY <1>2, <1>3, <1>4, InvQuiet DEF store

\* A constructor starts: of a bean that is resolved, or of a missing dependency.
LEMMA InvMake ==
    ASSUME Inv, NEW s \in Scopes, state[s] = "Running", NEW b \in Beans, ~InConstruction(b),
           Find(s, b) = None,
           frames' = Append(frames, Call("make", "construct", s, b, <<>>)),
           UNCHANGED <<root, bound, slots, inst, state, store, pending, lost>>
    PROVE  Inv'
<1>1. Shape' /\ FindsKept /\ Known' = Known /\ b \in Known
  BY ShapeMake DEF Inv
<1>2. PICK f : Rises(f) /\ f.op = "make" /\ f.scope = s /\ f.desc = b
  BY ShapeMake DEF Inv
<1>3. Find(s, b)' = None
  BY <1>1 DEF FindsKept, Found
<1>4. Expects(f)'
  BY <1>2, <1>3, ExpectsConstruct
<1> QED
  BY <1>1, <1>2, <1>4, InvCall DEF store

\* A scope begins to stop: the sweep has the insertion order before it.
LEMMA InvStopping ==
    ASSUME Inv, NEW s \in Scopes, state[s] = "Running", NEW op \in {"stop", "restart"},
           \A n \in 1..Depth : frames[n].scope # s, Stopping(s, op),
           UNCHANGED <<root, bound, slots, inst, store, pending, lost>>
    PROVE  Inv'
<1>1. /\ Shape' /\ FindsKept /\ Known' = Known
      /\ \A u \in Scopes : state'[u] = IF u = s THEN "Stopping" ELSE state[u]
  BY ShapeStopping DEF Inv
<1>2. PICK f : Rises(f) /\ f.op = op /\ f.at = "next" /\ f.scope = s /\ f.todo = order[s]
  BY ShapeStopping DEF Inv
<1>3. ArrangedIn(s)
  BY DEF Inv, Arranged
<1>4. DepsFirst(f.todo) /\ Stored(s, f.todo) /\ Todo(f) = Ordered(s)
  BY <1>2, <1>3 DEF ArrangedIn, Todo, Ordered
<1>5. \A n \in 1..Len(f.todo) : f.todo[n] \in Known
  BY <1>2 DEF Inv, Shape, Numbering
<1>6. Stored(s, f.todo)'
  <2>1. ScopeKept(s)
    BY <1>1, AllKept
  <2> QED
    BY <1>1, <1>4, <1>5, <2>1, StoredKept
<1>7. \A d \in Known' : Find(s, d)' # None => d \in Todo(f)
  BY <1>1, <1>3, <1>4 DEF FindsKept, Found, ArrangedIn
<1>8. Expects(f)'
  <2>1. DepsFirst(f.todo)' /\ Todo(f)' = Todo(f)
    BY <1>4 DEF DepsFirst, Todo
  <2> QED
    BY <1>2, <1>6, <1>7, <2>1 DEF Expects
<1> QED
  BY <1>1, <1>2, <1>8, InvCall DEF store

\* A callback of start() returns.
LEMMA InvStartReturns ==
    ASSUME Inv, StartCallbackReturns
    PROVE  Inv'
<1>1. Shape' /\ FindsKept /\ Known' = Known
  BY ShapeStartReturns DEF Inv
<1>2. PICK f : Moves(f) /\ f.op = "start" /\ f.at = "next"
  BY ShapeStartReturns DEF Inv
<1>3. Expects(f)'
  BY <1>2, ExpectsConstruct
<1>4. frames # <<>> /\ UNCHANGED <<inst, state, order, retired, pending, lost>>
  BY DEF StartCallbackReturns, At, store
<1> QED
  BY <1>1, <1>2, <1>3, <1>4, InvCall

\* BeanContext::stop() begins.
LEMMA InvRootStop ==
    ASSUME Inv, RootStop
    PROVE  Inv'
<1>1. Shape' /\ FindsKept /\ Known' = Known
  BY ShapeRootStop DEF Inv
<1>2. PICK f : Rises(f) /\ f.op = "root" /\ f.at = "next"
  BY ShapeRootStop DEF Inv
<1>3. Expects(f)'
  BY <1>2, ExpectsConstruct
<1>4. UNCHANGED <<inst, state, order, retired, pending, lost>>
  BY DEF RootStop, store
<1> QED
  BY <1>1, <1>2, <1>3, <1>4, InvCall

\* What the call on top expects.
LEMMA TopExpects ==
    ASSUME Inv, frames # <<>>
    PROVE  Expects(Top)
<1>1. Top = frames[Depth] /\ Depth \in 1..Len(frames)
  BY TopCall DEF Inv, Shape
<1> QED
  BY <1>1 DEF Inv, Calls

\* The sweep takes the last descriptor.
LEMMA InvSweep ==
    ASSUME Inv, Sweep
    PROVE  Inv'
<1>1. Shape' /\ FindsKept /\ Known' = Known
  BY ShapeSweep DEF Inv
<1>2. PICK d, q, s : d = Top.todo[Len(Top.todo)] /\ q = Top.todo /\ s = Top.scope
  OBVIOUS
<1>3. PICK f \in Frame : Moves(f) /\ SweepFrame(f, d)
  BY <1>2, ShapeSweep DEF Inv
<1>4. /\ frames # <<>> /\ Top.op \in {"stop", "restart"} /\ Top.at = "next" /\ q # <<>>
      /\ UNCHANGED <<inst, state, order, retired, pending, lost>>
  BY <1>2 DEF Sweep, Sweeping, At, store
<1>5. FrameOK(Top) /\ Top \in Frame /\ Expects(Top)
  BY <1>4, TopOK, TopExpects DEF Inv
<1>6. /\ q \in Seq(Descs \union Insts) /\ s \in Scopes /\ Elems(q) \subseteq Known
      /\ DepsFirst(q) /\ Stored(s, q)
      /\ \A e \in Known : Find(s, e) # None => e \in Elems(q)
  BY <1>2, <1>4, <1>5 DEF FrameOK, Frame, Expects, Todo, Elems
<1>7. /\ f.op \in {"stop", "restart"} /\ f.scope = s /\ f.desc = d
      /\ f.todo = SubSeq(q, 1, Len(q) - 1)
      /\ f.at = IF Find(s, d) = None THEN "next" ELSE "callback"
  BY <1>2, <1>3, <1>4 DEF SweepFrame
<1>8. PICK r : r = f.todo
  OBVIOUS
<1>9. /\ DepsFirst(r) /\ Elems(q) = Elems(r) \union {d} /\ Elems(r) \subseteq Elems(q)
      /\ d \in Beans => Deps[d] \subseteq Elems(r) /\ d \notin Elems(r)
  <2>1. PICK D : D = Descs \union Insts
    OBVIOUS
  <2>2. q \in Seq(D) /\ q # <<>> /\ DepsFirst(q)
    BY <1>4, <1>6, <2>1
  <2>3. /\ DepsFirst(Cut(q)) /\ Elems(q) = Elems(Cut(q)) \union {Final(q)}
        /\ Final(q) \in Beans =>
             Deps[Final(q)] \subseteq Elems(Cut(q)) /\ Final(q) \notin Elems(Cut(q))
    BY ONLY <2>2, DepsFirstCut
  <2>4. r = Cut(q) /\ d = Final(q)
    BY <1>2, <1>7, <1>8 DEF Cut, Final
  <2> QED
    BY <2>3, <2>4
<1>10. Todo(f) = Elems(r) /\ ScopeKept(s) /\ d \in Known
  BY <1>1, <1>6, <1>8, <1>9, AllKept DEF Todo, Elems
<1>11. Stored(s, r)'
  <2>1. \A n \in 1..Len(r) : r[n] \in Elems(r)
    BY DEF Elems
  <2>2. \A e \in Elems(q) : e \in Beans => Find(s, e) # None
    BY <1>6 DEF Stored, Elems
  <2>3. Stored(s, r)
    BY <1>9, <2>1, <2>2 DEF Stored
  <2>4. \A n \in 1..Len(r) : r[n] \in Known
    BY <1>6, <1>9, <2>1
  <2> QED
    BY <1>1, <1>10, <2>3, <2>4, StoredKept
<1>12. \A e \in Known' : Find(s, e)' = Find(s, e)
  BY <1>1, <1>10 DEF ScopeKept, Found
<1>13. Expects(f)'
  <2>1. DepsFirst(r)' /\ Todo(f)' = Elems(r)
    BY <1>9, <1>10 DEF DepsFirst, Todo
  <2>2. \A e \in Known' : Find(s, e)' # None => e \in Elems(r) \/ (f.at = "callback" /\ f.desc = e)
    BY <1>1, <1>6, <1>7, <1>9, <1>12
  <2>3. f.at = "callback" => Find(s, d)' # None
    BY <1>1, <1>7, <1>10, <1>12
  <2> QED
    BY <1>7, <1>8, <1>9, <1>11, <2>1, <2>2, <2>3 DEF Expects
<1> QED
  BY <1>1, <1>3, <1>4, <1>13, InvCall

\* bindSession before the scope runs.
LEMMA InvBindQueued ==
    ASSUME Inv, NEW s \in Scopes, NEW k \in BindKeys, BindQueued(s, k)
    PROVE  Inv'
<1>1. Shape /\ Ledger /\ Arranged /\ Calls
  BY DEF Inv
<1>2. /\ Shape' /\ Known \subseteq Known' /\ FindsKept
      /\ UNCHANGED <<root, state, order, retired, frames, lost>>
      /\ \A u \in Scopes : pending'[u] = IF u = s THEN Append(pending[u], Len(inst) + 1)
                                         ELSE pending[u]
  BY <1>1, ShapeBindQueued
<1>3. PICK d \in Nat : InstMade(d, s, {})
  BY <1>1, ShapeBindQueued
<1>4. Ledger'
  BY <1>1, <1>2, <1>3, LedgerQueued
<1>5. Arranged'
  BY <1>1, <1>2, ArrangedQuiet
<1>6. Calls'
  <2>1. PICK m \in Nat : m = Len(frames)
    BY <1>1 DEF Shape, TypeOK
  <2>2. Below(m) /\ Len(frames') # m + 1
    BY <1>2, <2>1 DEF Below
  <2> QED
    BY <1>1, <1>2, <2>2, CallsFindsKept
<1> QED
  BY <1>2, <1>4, <1>5, <1>6 DEF Inv

\* The root starts: slots are numbered, and nothing is in them.
LEMMA InvRootStart ==
    ASSUME Inv, RootStart
    PROVE  Inv'
<1>1. Shape /\ Ledger /\ Arranged /\ Calls /\ TypeOK
  BY DEF Inv, Shape
<1>2. /\ Shape' /\ Known \subseteq Known' /\ FindsKept
      /\ UNCHANGED <<inst, state, order, retired, pending, frames, lost>>
  BY <1>1, ShapeRootStart DEF store
<1>3. Ledger'
  BY <1>1, <1>2, LedgerQuiet
<1>4. Arranged'
  BY <1>1, <1>2, ArrangedQuiet
<1>5. Calls'
  <2>1. PICK m \in Nat : m = Len(frames)
    BY <1>1 DEF TypeOK
  <2>2. Below(m) /\ Len(frames') # m + 1
    BY <1>2, <2>1 DEF Below
  <2> QED
    BY <1>1, <1>2, <2>2, CallsFindsKept
<1> QED
  BY <1>2, <1>3, <1>4, <1>5 DEF Inv

\* The instance that is made is not one of those it replaces.
LEMMA MadeIsLive ==
    ASSUME Shape, Ledger, NEW s \in Scopes, NEW d, NEW k, k = Len(inst) + 1,
           InstMade(d, s, Replaced(s, d)), state[s] = "Running"
    PROVE  /\ Len(inst) <= Len(inst') /\ InstAfter(Replaced(s, d), {})
           /\ \A i \in 1..Len(inst') : i \in 1..Len(inst) \/ i = k
           /\ k \notin Replaced(s, d) /\ Live(k, s)' /\ inst'[k].desc = d
           /\ k \in Queued(s) <=> state[s] = "Stopped"
           /\ k # None
<1>1. Len(inst) \in Nat /\ TypeOK /\ Numbering
  BY DEF Shape, TypeOK
<1>2. Len(inst') = k /\ k \in Nat /\ k \in 1..Len(inst') /\ k \notin 1..Len(inst) /\ k # None
      /\ Len(inst) <= Len(inst')
  BY <1>1, ScopeConstants DEF InstMade
<1>3. \A i \in 1..Len(inst') : i \in 1..Len(inst) \/ i = k
  BY <1>1, <1>2
<1>4. k \notin Replaced(s, d) /\ k \notin Queued(s)
  BY <1>1, <1>2 DEF Replaced, Ledger, Retained, Queued, Numbering
<1>5. Live(k, s)' /\ inst'[k].desc = d
  BY <1>2, <1>4 DEF InstMade, LifeAfter, Live
<1> QED
  BY <1>2, <1>3, <1>4, <1>5 DEF InstMade

\* bindSession in a running scope.
LEMMA InvBindRunning ==
    ASSUME Inv, NEW s \in Scopes, NEW k \in BindKeys, BindRunning(s, k)
    PROVE  Inv'
<1>1. Shape /\ Ledger /\ Arranged /\ Calls /\ TypeOK
  BY DEF Inv, Shape
<1>2. Shape' /\ UNCHANGED <<root, state, pending, lost>> /\ state[s] = "Running"
  BY <1>1, ShapeBindRunning
<1>3. PICK f : Rises(f) /\ f.op = "bind" /\ f.at = "callback"
  BY <1>1, ShapeBindRunning
<1>4. PICK d \in Nat : /\ StoreStep(s, d, Len(inst) + 1) /\ InstMade(d, s, Replaced(s, d))
                       /\ d \in Known => Find(s, d) = None
  BY <1>1, ShapeBindRunning
<1>5. PICK i : i = Len(inst) + 1
  OBVIOUS
<1>6. /\ Len(inst) <= Len(inst') /\ InstAfter(Replaced(s, d), {})
      /\ \A j \in 1..Len(inst') : j \in 1..Len(inst) \/ j = i
      /\ i \notin Replaced(s, d) /\ Live(i, s)' /\ inst'[i].desc = d
      /\ i \in Queued(s) <=> state[s] = "Stopped"
      /\ i # None
  BY <1>1, <1>2, <1>4, <1>5, MadeIsLive
<1>7. StoreStep(s, d, i) /\ (d \in Known => Find(s, d) \in Queued(s) \union {None})
  BY <1>4, <1>5
<1>8. Ledger'
  BY <1>1, <1>2, <1>6, <1>7, LedgerStored
<1>9. Arranged'
  BY <1>1, <1>2, <1>6, <1>7, ArrangedStored
<1>10. Calls'
  <2>1. PICK m \in Nat : m = Depth
    BY <1>1 DEF Depth, TypeOK
  <2>2. Below(m) /\ (Len(frames') = m + 1 => frames'[m + 1] = f)
    BY <1>3, <2>1 DEF Rises
  <2>3. Expects(f)'
    BY <1>3, ExpectsConstruct
  <2>4. ASSUME NEW n \in 1..m, frames[n].at = "construct"
        PROVE  frames[n].desc # d
    <3>1. FrameOK(frames[n])
      BY <1>1, <2>1 DEF Shape, Stack, Depth
    <3> QED
      BY <2>4, <3>1, ScopeConstants DEF FrameOK
  <2> QED
    BY <1>1, <1>2, <1>7, <2>2, <2>3, <2>4, CallsStored
<1> QED
  BY <1>2, <1>8, <1>9, <1>10 DEF Inv

\* A constructor returns.
LEMMA InvConstructed ==
    ASSUME Inv, Constructed
    PROVE  Inv'
<1>1. Shape /\ Ledger /\ Arranged /\ Calls /\ TypeOK
  BY DEF Inv, Shape
<1>2. Shape' /\ UNCHANGED <<root, state, pending, lost>>
  BY <1>1, ShapeConstructed
<1>3. PICK f : Moves(f) /\ f.op = "make" /\ f.at = "callback"
  BY <1>1, ShapeConstructed
<1>4. PICK s, d, i : s = Top.scope /\ d = Top.desc /\ i = Len(inst) + 1
  OBVIOUS
<1>5. StoreStep(s, d, i) /\ InstMade(d, s, Replaced(s, d))
  BY <1>1, <1>4, ShapeConstructed
<1>6. frames # <<>> /\ Top.op = "make" /\ Top.at = "construct" /\ Missing = {}
  BY DEF Constructed, At
<1>7. FrameOK(Top) /\ Expects(Top)
  BY <1>1, <1>6, TopOK, TopExpects
<1>8. s \in Scopes /\ d \in Beans /\ d \in Known /\ state[s] = "Running" /\ Find(s, d) = None
  BY <1>4, <1>6, <1>7 DEF FrameOK, Expects
<1>9. \A b \in Deps[d] : b \in Known /\ Find(s, b) # None
  <2>1. Deps[d] \subseteq Beans /\ Beans \subseteq Known
    BY <1>1, <1>6, <1>8, RootStarted, ScopeConstants DEF Shape, Numbering
  <2>2. \A b \in Deps[d] : Find(s, b) # None
    BY <1>4, <1>6 DEF Missing
  <2> QED
    BY <2>1, <2>2
<1>10. /\ Len(inst) <= Len(inst') /\ InstAfter(Replaced(s, d), {})
       /\ \A j \in 1..Len(inst') : j \in 1..Len(inst) \/ j = i
       /\ i \notin Replaced(s, d) /\ Live(i, s)' /\ inst'[i].desc = d
       /\ i \in Queued(s) <=> state[s] = "Stopped"
       /\ i # None
  BY <1>1, <1>4, <1>5, <1>8, MadeIsLive
<1>11. Ledger'
  BY <1>1, <1>2, <1>5, <1>8, <1>10, LedgerStored
<1>12. Arranged'
  BY <1>1, <1>2, <1>5, <1>8, <1>9, <1>10, ArrangedStored
<1>13. Calls'
  <2>0. Depth \in Nat \ {0} /\ Depth \in 1..Len(frames) /\ Top = frames[Depth] /\ Depth = Len(frames)
    BY <1>1, <1>6, TopCall
  <2>1. PICK m \in Nat : m = Depth - 1
    BY <2>0
  <2>2. Below(m) /\ (Len(frames') = m + 1 => frames'[m + 1] = f)
    BY <1>3, <2>0, <2>1 DEF Moves
  <2>3. Expects(f)'
    BY <1>3, ExpectsConstruct
  <2>4. ASSUME NEW n \in 1..m, frames[n].at = "construct"
        PROVE  frames[n].desc # d
    <3>1. n \in 1..Len(frames) /\ n # Depth
      BY <2>0, <2>1
    <3> QED
      BY <1>1, <1>4, <1>6, <2>0, <2>4, <3>1 DEF Shape, Stack
  <2> QED
    BY <1>1, <1>2, <1>5, <1>8, <2>2, <2>3, <2>4, CallsStored
<1> QED
  BY <1>2, <1>11, <1>12, <1>13 DEF Inv

\* start() stores a binding from the queue.
LEMMA InvStartStores ==
    ASSUME Inv, StartStores
    PROVE  Inv'
<1>1. Shape /\ Ledger /\ Arranged /\ Calls /\ TypeOK
  BY DEF Inv, Shape
<1>2. Shape' /\ UNCHANGED <<root, state, pending, lost>>
  BY <1>1, ShapeStartStores
<1>3. PICK f : Moves(f) /\ f.op = "start" /\ f.at = "callback"
  BY <1>1, ShapeStartStores
<1>4. PICK i, s, d : i = Head(Top.todo) /\ s = Top.scope /\ d = inst[i].desc
  OBVIOUS
<1>5. /\ i \in Queued(s) /\ StoreStep(s, d, i)
      /\ Len(inst') = Len(inst) /\ InstAfter(Replaced(s, d), {})
  BY <1>1, <1>4, ShapeStartStores
<1>6. frames # <<>> /\ Top.op = "start"
  BY DEF StartStores, At
<1>7. s \in Scopes /\ state[s] = "Stopped"
  BY <1>1, <1>4, <1>6, TopOK DEF FrameOK
<1>8. Live(i, s) /\ d \in Nat
  BY <1>1, <1>4, <1>5, <1>7 DEF Ledger, Waiting
<1>9. i \in 1..Len(inst) /\ i # None /\ Len(inst) <= Len(inst') /\ TypeOK'
  <2>1. i \in 1..Len(inst) /\ TypeOK'
    BY <1>2, <1>8 DEF Live, Shape
  <2>2. i # None
    BY <1>1, <2>1, InstanceIs
  <2>3. inst \in Seq(Instance)
    BY <1>1 DEF TypeOK, Instance
  <2>4. Len(inst) \in Nat
    BY <2>3
  <2> QED
    BY <1>5, <2>1, <2>2, <2>4
<1>10. i \notin Replaced(s, d)
  BY <1>1, <1>7, <1>8 DEF Replaced, Ledger, Retained, Live
<1>11. Live(i, s)' /\ inst'[i].desc = d
  <2>1. i \notin Replaced(s, d) \union {}
    BY <1>10
  <2>2. Live(i, s)' /\ inst'[i].desc = inst[i].desc
    BY <1>1, <1>5, <1>8, <1>9, <2>1, LiveKept
  <2> QED
    BY <1>4, <2>2
<1>12. d \in Known => Find(s, d) \in Queued(s) \union {None}
  BY <1>1, <1>7 DEF Ledger, Sound
<1>13. \A j \in 1..Len(inst') : j \in 1..Len(inst) \/ j = i
  BY <1>5
<1>14. Ledger'
  BY <1>1, <1>2, <1>5, <1>7, <1>9, <1>10, <1>11, <1>12, <1>13, LedgerStored
<1>15. Arranged'
  BY <1>1, <1>2, <1>5, <1>7, <1>8, <1>9, ArrangedStored
<1>16. Calls'
  <2>0. Depth \in Nat \ {0} /\ Depth = Len(frames)
    BY <1>1, <1>6, TopCall
  <2>1. PICK m \in Nat : m = Depth - 1
    BY <2>0
  <2>2. Below(m) /\ (Len(frames') = m + 1 => frames'[m + 1] = f)
    BY <1>3, <2>0, <2>1 DEF Moves
  <2>3. Expects(f)'
    BY <1>3, ExpectsConstruct
  <2>4. ASSUME NEW n \in 1..m, frames[n].at = "construct"
        PROVE  frames[n].desc # d
    <3>1. n \in 1..Len(frames)
      BY <2>0, <2>1
    <3>2. FrameOK(frames[n])
      BY <1>1, <3>1 DEF Shape, Stack
    <3> QED
      BY <1>8, <2>4, <3>2, ScopeConstants DEF FrameOK
  <2> QED
    BY <1>1, <1>5, <1>7, <2>2, <2>3, <2>4, CallsStored
<1> QED
  BY <1>2, <1>14, <1>15, <1>16 DEF Inv

\* start() gives the scope a fresh array.
LEMMA InvScopeStart ==
    ASSUME Inv, NEW s \in Scopes, ScopeStart(s)
    PROVE  Inv'
<1>1. Shape /\ Ledger /\ Arranged /\ Calls /\ TypeOK
  BY DEF Inv, Shape
<1>2. /\ Shape' /\ Known' = Known /\ FindsReset(s) /\ state[s] = "Stopped"
      /\ UNCHANGED <<root, inst, state, order, retired, pending, lost>>
      /\ \A n \in 1..Depth : frames[n].scope # s
  BY <1>1, ShapeScopeStart
<1>3. PICK f : Rises(f) /\ f.op = "start" /\ f.at = "next" /\ f.scope = s
  BY <1>1, ShapeScopeStart
<1>4. Ledger'
  <2>1. \A d \in Known : Find(s, d) \in Queued(s) \union {None}
    BY <1>1, <1>2 DEF Ledger, Sound
  <2>2. Len(inst') = Len(inst) /\ InstAfter({}, {}) /\ {} \in SUBSET retired[s]
    BY <1>2 DEF InstAfter, LifeAfter
  <2>3. /\ \A u \in Scopes : retired'[u] = IF u = s THEN retired[u] \ {} ELSE retired[u]
        /\ \A u \in Scopes \ {s} : state'[u] = state[u]
    BY <1>2
  <2> QED
    BY <1>1, <1>2, <2>1, <2>2, <2>3, LedgerReset
<1>5. Arranged'
  BY <1>1, <1>2, ArrangedReset
<1>6. Calls'
  <2>1. PICK m \in Nat : m = Depth
    BY <1>1 DEF Depth, TypeOK
  <2>2. Below(m) /\ (Len(frames') = m + 1 => frames'[m + 1] = f) /\ \A n \in 1..m : frames[n].scope # s
    BY <1>2, <1>3, <2>1 DEF Rises
  <2>3. Expects(f)'
    BY <1>3, ExpectsConstruct
  <2>4. \A u \in Scopes : u # s => ScopeKept(u)
    BY <1>2, OthersKept
  <2> QED
    BY <1>1, <1>2, <2>2, <2>3, <2>4, CallsOthers
<1> QED
  BY <1>2, <1>4, <1>5, <1>6 DEF Inv

\* A sweep that has nothing before it has left nothing in the slots.
LEMMA SweptClean ==
    ASSUME Inv, frames # <<>>, Top.op \in {"stop", "restart"}, Top.at = "next", Top.todo = <<>>
    PROVE  /\ Top.scope \in Scopes /\ state[Top.scope] = "Stopping"
           /\ \A d \in Known : Find(Top.scope, d) = None
<1>1. FrameOK(Top) /\ Expects(Top)
  BY TopOK, TopExpects DEF Inv
<1>2. Todo(Top) = {}
  BY DEF Todo
<1> QED
  BY <1>1, <1>2 DEF FrameOK, Expects

\* restart() goes on as start().
LEMMA InvRestartDone ==
    ASSUME Inv, RestartDone
    PROVE  Inv'
<1>1. Shape /\ Ledger /\ Arranged /\ Calls /\ TypeOK
  BY DEF Inv, Shape
<1>2. PICK s : s = Top.scope
  OBVIOUS
<1>3. /\ Shape' /\ Known' = Known /\ FindsReset(s)
      /\ frames # <<>> /\ Top.op = "restart" /\ Top.at = "next" /\ Top.todo = <<>>
      /\ UNCHANGED <<root, inst, retired, pending, lost>>
      /\ \A u \in Scopes : state'[u] = IF u = s THEN "Stopped" ELSE state[u]
      /\ \A u \in Scopes : order'[u] = IF u = s THEN <<>> ELSE order[u]
  BY <1>1, <1>2, ShapeRestartDone
<1>4. PICK f : Moves(f) /\ f.op = "start" /\ f.at = "next" /\ f.scope = s
  BY <1>1, <1>2, ShapeRestartDone
<1>5. s \in Scopes /\ \A d \in Known : Find(s, d) = None
  BY <1>2, <1>3, SweptClean
<1>6. Ledger'
  <2>1. \A d \in Known : Find(s, d) \in Queued(s) \union {None}
    BY <1>5
  <2>2. Len(inst') = Len(inst) /\ InstAfter({}, {}) /\ {} \in SUBSET retired[s]
    BY <1>3 DEF InstAfter, LifeAfter
  <2>3. /\ \A u \in Scopes : retired'[u] = IF u = s THEN retired[u] \ {} ELSE retired[u]
        /\ \A u \in Scopes \ {s} : state'[u] = state[u]
    BY <1>3
  <2> QED
    BY <1>1, <1>3, <1>5, <2>1, <2>2, <2>3, LedgerReset
<1>7. Arranged'
  BY <1>1, <1>3, <1>5, ArrangedReset
<1>8. Calls'
  <2>0. Depth \in Nat \ {0}
    BY <1>1, <1>3, TopCall
  <2>1. PICK m \in Nat : m = Depth - 1
    BY <2>0
  <2>2. Below(m) /\ (Len(frames') = m + 1 => frames'[m + 1] = f)
    BY <1>4, <2>0, <2>1 DEF Moves
  <2>3. \A n \in 1..m : frames[n].scope # s
    BY <1>1, <1>2, <1>3, <2>1, AloneInScope
  <2>4. Expects(f)'
    BY <1>4, ExpectsConstruct
  <2>5. \A u \in Scopes : u # s => ScopeKept(u)
    BY <1>3, OthersKept
  <2> QED
    BY <1>1, <1>3, <2>2, <2>3, <2>4, <2>5, CallsOthers
<1> QED
  BY <1>3, <1>6, <1>7, <1>8 DEF Inv

\* stop() ends.
LEMMA InvStopDone ==
    ASSUME Inv, StopDone
    PROVE  Inv'
<1>1. Shape /\ Ledger /\ Arranged /\ Calls /\ TypeOK
  BY DEF Inv, Shape
<1>2. PICK s : s = Top.scope
  OBVIOUS
<1>3. /\ Shape' /\ Known' = Known /\ FindsReset(s) /\ Ends
      /\ frames # <<>> /\ Top.op = "stop" /\ Top.at = "next" /\ Top.todo = <<>>
      /\ UNCHANGED <<root, pending, lost>>
      /\ Len(inst') = Len(inst) /\ InstAfter(retired[s], {})
      /\ \A u \in Scopes : state'[u] = IF u = s THEN "Stopped" ELSE state[u]
      /\ \A u \in Scopes : order'[u] = IF u = s THEN <<>> ELSE order[u]
      /\ \A u \in Scopes : retired'[u] = IF u = s THEN {} ELSE retired[u]
  BY <1>1, <1>2, ShapeStopDone
<1>4. s \in Scopes /\ \A d \in Known : Find(s, d) = None
  BY <1>2, <1>3, SweptClean
<1>5. Ledger'
  <2>1. \A d \in Known : Find(s, d) \in Queued(s) \union {None}
    BY <1>4
  <2>2. PICK F : F = retired[s]
    OBVIOUS
  <2>3. /\ \A u \in Scopes : retired'[u] = IF u = s THEN retired[u] \ F ELSE retired[u]
        /\ \A u \in Scopes \ {s} : state'[u] = state[u]
        /\ F \in SUBSET retired[s] /\ InstAfter(F, {})
    BY <1>3, <2>2
  <2> QED
    BY <1>1, <1>3, <1>4, <2>1, <2>3, LedgerReset
<1>6. Arranged'
  BY <1>1, <1>3, <1>4, ArrangedReset
<1>7. Calls'
  <2>1. PICK m \in 0..Depth - 1 : Below(m) /\ Len(frames') = m
    BY <1>3 DEF Ends
  <2>0. Depth \in Nat \ {0}
    BY <1>1, <1>3, TopCall
  <2>2. m \in Nat /\ Len(frames') # m + 1 /\ 1..m \subseteq 1..Depth - 1
    BY <2>0, <2>1
  <2>3. \A n \in 1..m : frames[n].scope # s
    BY <1>1, <1>2, <1>3, <2>2, AloneInScope
  <2>4. \A u \in Scopes : u # s => ScopeKept(u)
    BY <1>3, OthersKept
  <2> QED
    BY <1>1, <1>3, <2>1, <2>2, <2>3, <2>4, CallsOthers
<1> QED
  BY <1>3, <1>5, <1>6, <1>7 DEF Inv

\* start() ends.
LEMMA InvStartDone ==
    ASSUME Inv, StartDone
    PROVE  Inv'
<1>1. Shape /\ Ledger /\ Arranged /\ Calls /\ TypeOK
  BY DEF Inv, Shape
<1>2. PICK s : s = Top.scope
  OBVIOUS
<1>3. /\ Shape' /\ Known' = Known /\ FindsKept /\ Ends
      /\ frames # <<>> /\ Top.op = "start" /\ Top.at = "next"
      /\ UNCHANGED <<root, inst, order, retired>>
      /\ \A u \in Scopes : state'[u] = IF u = s THEN "Running" ELSE state[u]
      /\ \A u \in Scopes : pending'[u] = IF u = s THEN <<>> ELSE pending[u]
      /\ lost' = lost \union (Range(pending[s]) \ Range(array[s]))
  BY <1>1, <1>2, ShapeStartDone
<1>4. s \in Scopes /\ state[s] = "Stopped"
  BY <1>1, <1>2, <1>3, TopOK DEF FrameOK
<1>5. Ledger'
  BY <1>1, <1>3, <1>4, LedgerStarted
<1>6. Arranged'
  <2>1. \A u \in Scopes : \/ state'[u] = state[u] \/ state'[u] = "Stopping"
                          \/ state[u] = "Stopped" /\ state'[u] = "Running"
    BY <1>3, <1>4
  <2> QED
    BY <1>1, <1>3, <2>1, ArrangedQuiet
<1>7. Calls'
  <2>1. PICK m \in 0..Depth - 1 : Below(m) /\ Len(frames') = m
    BY <1>3 DEF Ends
  <2>2. m \in Nat /\ Len(frames') # m + 1
    BY <2>1
  <2> QED
    BY <1>1, <1>3, <2>1, <2>2, CallsFindsKept
<1> QED
  BY <1>3, <1>5, <1>6, <1>7 DEF Inv

\* A swept instance is destroyed.
LEMMA InvSweepDestroys ==
    ASSUME Inv, SweepDestroys
    PROVE  Inv'
<1>1. Shape /\ Ledger /\ Arranged /\ Calls /\ TypeOK
  BY DEF Inv, Shape
<1>2. frames # <<>> /\ Top.op \in {"stop", "restart"} /\ Top.at = "callback"
  BY DEF SweepDestroys, Sweeping, At
<1>3. FrameOK(Top) /\ Expects(Top)
  BY <1>1, <1>2, TopOK, TopExpects
<1>4. PICK s, d, i, op : s = Top.scope /\ d = Top.desc /\ i = Find(s, d) /\ op = Top.op
  OBVIOUS
<1>5. /\ s \in Scopes /\ d \in Known /\ state[s] = "Stopping" /\ i # None
      /\ \A e \in Known : Find(s, e) # None => e \in Todo(Top) \/ e = d
      /\ DepsFirst(Top.todo) /\ Stored(s, Top.todo) /\ Todo(Top) \subseteq Known
      /\ d \in Beans => d \notin Todo(Top)
  BY <1>2, <1>3, <1>4 DEF FrameOK, Expects
<1>6. /\ Shape' /\ Known' = Known /\ FindsStored(s, d, None)
      /\ UNCHANGED <<root, state, order, pending, lost>>
      /\ Len(inst') = Len(inst)
      /\ InstAfter(IF op = "restart" THEN {} ELSE {i}, IF op = "restart" THEN {i} ELSE {})
      /\ \A u \in Scopes : retired'[u] = IF op = "restart" /\ u = s THEN retired[u] \union {i} ELSE retired[u]
  BY <1>1, <1>4, <1>5, ShapeSweepDestroys
<1>7. PICK f : Moves(f) /\ f.op = Top.op /\ f.at = "next" /\ f.scope = s /\ f.todo = Top.todo
  BY <1>1, <1>4, <1>5, ShapeSweepDestroys
<1>8. Ledger'
  <2>1. /\ UNCHANGED <<state, pending, lost>> /\ Known' = Known /\ s \in Scopes /\ state[s] # "Stopped"
        /\ d \in Known /\ i = Find(s, d) /\ i # None /\ Len(inst') = Len(inst) /\ FindsStored(s, d, None)
        /\ Destroys(s, i, op) /\ Shape'
    BY <1>4, <1>5, <1>6 DEF Destroys
  <2> QED
    BY ONLY <1>1, <2>1, LedgerSwept
<1>9. \A u \in Scopes : u # s => ScopeKept(u)
  BY <1>6, OthersKept
<1>10. Arranged'
  <2>1. ArrangedIn(s)'
    BY <1>5, <1>6 DEF ArrangedIn
  <2> QED
    BY <1>1, <1>5, <1>6, <1>9, <2>1, ArrangedOthers
<1>11. Expects(f)'
  <2>1. PICK r : r = f.todo
    OBVIOUS
  <2>2. Todo(f) = Elems(r) /\ Todo(Top) = Elems(r) /\ r = Top.todo
    BY <1>7, <2>1 DEF Todo, Elems
  <2>3. \A e \in Known' : Find(s, e)' = IF e = d THEN None ELSE Find(s, e)
    BY <1>5, <1>6 DEF FindsStored, Found
  <2>4. Stored(s, r)'
    <3>1. ASSUME NEW n \in 1..Len(r), r[n] \in Beans
          PROVE  Find(s, r[n])' # None
      <4>1. PICK e : e = r[n]
        OBVIOUS
      <4>2. e \in Elems(r) /\ e # d /\ e \in Known /\ Find(s, e) # None
        BY <1>5, <2>2, <3>1, <4>1 DEF Elems, Stored
      <4>3. Find(s, e)' # None
        BY <1>6, <2>3, <4>2
      <4> QED
        BY <4>1, <4>3
    <3> QED
      BY <3>1 DEF Stored
  <2>5. \A e \in Known' : Find(s, e)' # None => e \in Elems(r)
    BY <1>5, <1>6, <2>2, <2>3
  <2>6. DepsFirst(r)' /\ Todo(f)' = Elems(r)
    BY <1>5, <2>2 DEF DepsFirst, Todo
  <2> QED
    BY <1>7, <2>1, <2>4, <2>5, <2>6 DEF Expects
<1>12. Calls'
  <2>0. Depth \in Nat \ {0}
    BY <1>1, <1>2, TopCall
  <2>1. PICK m \in Nat : m = Depth - 1
    BY <2>0
  <2>2. Below(m) /\ (Len(frames') = m + 1 => frames'[m + 1] = f)
    BY <1>7, <2>0, <2>1 DEF Moves
  <2>3. \A n \in 1..m : frames[n].scope # s
    BY <1>1, <1>2, <1>4, <2>1, AloneInScope
  <2> QED
    BY <1>1, <1>6, <1>9, <1>11, <2>2, <2>3, CallsOthers
<1> QED
  BY <1>6, <1>8, <1>10, <1>12 DEF Inv

\* The context is destroyed.
LEMMA InvRootStopDone ==
    ASSUME Inv, RootStopDone
    PROVE  Inv'
<1>1. Shape /\ Ledger
  BY DEF Inv
<1>2. PICK F : F = UNION {Range(pending[u]) \union retired[u] : u \in Scopes}
  OBVIOUS
<1>3. /\ Shape' /\ Known' = Known
      /\ \A u \in Scopes : \A d \in Known : Find(u, d)' = None
      /\ frames' = <<>> /\ UNCHANGED <<state, lost>>
      /\ \A u \in Scopes : state[u] = "Stopped"
      /\ Len(inst') = Len(inst) /\ InstAfter(F, {})
      /\ \A u \in Scopes : retired'[u] = {} /\ pending'[u] = <<>> /\ order'[u] = <<>>
  BY <1>1, <1>2, ShapeRootStopDone
<1>4. Ledger'
  BY <1>1, <1>2, <1>3, LedgerGone
<1>5. Arranged'
  BY <1>3 DEF Arranged, ArrangedIn
<1>6. Calls'
  BY <1>3 DEF Calls
<1> QED
  BY <1>3, <1>4, <1>5, <1>6 DEF Inv

-----------------------------------------------------------------------------
(* The theorems.                                                           *)

\* The invariant holds before anything is started.
LEMMA InvInit ==
    ASSUME Init
    PROVE  Inv
<1>1. Len(<<>>) = 0 /\ 1..0 = {}
  OBVIOUS
<1>2. TypeOK
  <2>1. \A S : <<>> \in Seq(S)
    OBVIOUS
  <2> QED
    BY <2>1 DEF Init, TypeOK
<1>3. Known = {}
  BY <1>1 DEF Init, Known
<1>4. Numbering
  BY <1>1, <1>3, ScopeConstants DEF Init, Numbering, IsInjective
<1>5. Quiescent /\ Stack
  BY <1>1 DEF Init, Quiescent, Stack
<1>6. Ledger
  BY <1>1, <1>3 DEF Init, Ledger, Sound, Waiting, Retained, Entries, Queued
<1>7. Arranged
  BY <1>1, <1>3 DEF Init, Arranged, ArrangedIn
<1>8. Calls
  BY <1>1 DEF Init, Calls
<1> QED
  BY <1>2, <1>4, <1>5, <1>6, <1>7, <1>8 DEF Inv, Shape

\* A step that changes nothing keeps the invariant.
LEMMA InvUnchanged ==
    ASSUME Inv, UNCHANGED vars
    PROVE  Inv'
<1>1. Known' = Known /\ FindsKept
  <2>1. Known' = Known
    BY DEF vars, Known
  <2> QED
    BY <2>1, FindState DEF vars, FindsKept, Found
<1>3. PICK m \in Nat : m = Len(frames)
  BY DEF Inv, Shape, TypeOK
<1>4. Below(m) /\ Len(frames') # m + 1
  BY <1>3 DEF Below, vars
<1>2. Shape'
  <2>0. TypeOK /\ Numbering /\ Quiescent /\ Stack
    BY DEF Inv, Shape
  <2>1. TypeOK'
    BY <2>0 DEF TypeOK, vars
  <2>2. Numbering'
    BY <1>1, <2>0 DEF Numbering, vars
  <2>3. Quiescent'
    BY <2>0 DEF Quiescent, vars
  <2>4. Stack'
    <3>1. \A n \in 1..m : Undisturbed(frames[n].scope)
      BY DEF Undisturbed, vars
    <3> QED
      BY <1>1, <1>3, <1>4, <2>0, <3>1, StackKept
  <2> QED
    BY <2>1, <2>2, <2>3, <2>4 DEF Shape
<1> QED
  BY <1>1, <1>2, <1>4, InvQuiet DEF vars

\* Every step keeps the invariant.
LEMMA InvNext ==
    ASSUME Inv, [Next]_vars
    PROVE  Inv'
<1>1. CASE RootStart
  BY <1>1, InvRootStart
<1>2. CASE RootStop
  BY <1>2, InvRootStop
<1>3. CASE RootStopDone
  BY <1>3, InvRootStopDone
<1>4. CASE Gone \/ UNCHANGED vars
  BY <1>4, InvUnchanged DEF Gone
<1>5. ASSUME NEW s \in Scopes, NEW k \in BindKeys, BindQueued(s, k) \/ BindRunning(s, k)
      PROVE  Inv'
  BY <1>5, InvBindQueued, InvBindRunning
<1>6. ASSUME NEW s \in Scopes, NEW b \in Beans, Resolve(s, b)
      PROVE  Inv'
  BY <1>6, InvMake DEF Resolve, Push
<1>7. ASSUME NEW s \in Scopes, ScopeStart(s)
      PROVE  Inv'
  BY <1>7, InvScopeStart
<1>8. ASSUME NEW s \in Scopes, ScopeStop(s) \/ Restart(s)
      PROVE  Inv'
  <2>1. \A n \in 1..Depth : frames[n].scope # s
    BY <1>8 DEF ScopeStop, Restart, Free
  <2> QED
    BY <1>8, <2>1, InvStopping DEF ScopeStop, Restart
<1>9. ASSUME NEW s \in Scopes, RootStopsScope(s)
      PROVE  Inv'
  <2>1. frames # <<>> /\ Top.op = "root" /\ Shape /\ TypeOK
    BY <1>9 DEF RootStopsScope, At, Inv, Shape
  <2>2. Depth = 1 /\ Top = frames[1] /\ Top.scope = None
    <3>1. Depth \in 1..Len(frames) /\ Top = frames[Depth]
      BY <2>1, TopCall
    <3>2. Depth = 1
      BY <2>1, <3>1 DEF Shape, Stack
    <3> QED
      BY <2>1, <3>1, <3>2, TopOK DEF FrameOK
  <2>3. \A n \in 1..Depth : frames[n].scope # s
    BY <2>2, ScopeConstants
  <2> QED
    BY <1>9, <2>3, InvStopping DEF RootStopsScope
<1>10. CASE ConstructDep
  <2>1. /\ frames # <<>> /\ Top.op = "make" /\ Top.at = "construct"
        /\ UNCHANGED <<root, bound, slots, inst, state, store, pending, lost>>
    BY <1>10 DEF ConstructDep, At
  <2>2. PICK b \in Missing : /\ ~InConstruction(b)
                             /\ frames' = Append(frames, Call("make", "construct", Top.scope, b, <<>>))
    BY <1>10 DEF ConstructDep
  <2>3. FrameOK(Top)
    BY <2>1, TopOK DEF Inv
  <2>4. PICK s \in Scopes : s = Top.scope /\ state[s] = "Running"
    BY <2>1, <2>3 DEF FrameOK
  <2>5. b \in Beans /\ Find(s, b) = None
    BY <2>1, <2>2, <2>3, <2>4, ScopeConstants DEF Missing, FrameOK
  <2> QED
    BY <2>1, <2>2, <2>4, <2>5, InvMake
<1>11. CASE Constructed
  BY <1>11, InvConstructed
<1>12. CASE ConstructorThrows \/ CreationCallbackReturns \/ CreationCallbackThrows \/ StartCallbackThrows
  BY <1>12, InvCut
     DEF ConstructorThrows, CreationCallbackReturns, CreationCallbackThrows, StartCallbackThrows, At
<1>13. CASE StartStores
  BY <1>13, InvStartStores
<1>14. CASE StartCallbackReturns
  BY <1>14, InvStartReturns
<1>15. CASE StartDone
  BY <1>15, InvStartDone
<1>16. CASE Sweep
  BY <1>16, InvSweep
<1>17. CASE SweepDestroys
  BY <1>17, InvSweepDestroys
<1>18. CASE StopDone
  BY <1>18, InvStopDone
<1>19. CASE RestartDone
  BY <1>19, InvRestartDone
<1> QED
  BY <1>1, <1>2, <1>3, <1>4, <1>5, <1>6, <1>7, <1>8, <1>9, <1>10, <1>11, <1>12, <1>13, <1>14,
     <1>15, <1>16, <1>17, <1>18, <1>19 DEF Next

\* The inductive invariant of the scopes holds in every reachable state, for any
\* scopes, beans, injections, bindings and depth of callbacks.
THEOREM InvHolds == Spec => []Inv
<1>1. Init => Inv
  BY InvInit
<1>2. Inv /\ [Next]_vars => Inv'
  BY InvNext
<1> QED
  BY <1>1, <1>2, PTL DEF Spec

\* Arrays, orders, queues and calls stay well typed.
THEOREM TypeCorrect == Spec => []TypeOK
<1>1. Inv => TypeOK
  BY DEF Inv, Shape
<1> QED
  BY <1>1, InvHolds, PTL

\* FindIsLive: SessionStore::find() never returns an instance that stopScope()
\* destroyed, nor one of another bean or scope, in whatever callback it is called.
THEOREM HandlesLeadToLive == Spec => []FindIsLive
<1>1. Inv => FindIsLive
  <2> SUFFICES ASSUME Inv, NEW s \in Scopes, NEW n \in 1..Len(array[s]), array[s][n] # None
               PROVE  /\ inst[array[s][n]].life = "made" /\ inst[array[s][n]].scope = s
                      /\ inst[array[s][n]].desc = slots[n]
    BY DEF FindIsLive
  <2>1. slots[n] \in Known /\ Find(s, slots[n]) = array[s][n]
    BY ArrayFound DEF Inv
  <2> QED
    BY <2>1 DEF Inv, Ledger, Sound, Live
<1> QED
  BY <1>1, InvHolds, PTL

\* DestroyedOnce: no sweep of stopScope(), no store() and no destructor destroys an
\* instance or frees a block a second time.
THEOREM NoneDestroyedTwice == Spec => []DestroyedOnce
<1>1. Inv => DestroyedOnce
  BY DEF Inv, Ledger, Entries, Entry, DestroyedOnce
<1> QED
  BY <1>1, InvHolds, PTL

\* Accounted: every instance is in a slot, queued, retired or freed, and freed ones
\* are nowhere; only bindings that start() drops from pendingRuntimeSessions_ are lost.
THEOREM NoneForgotten == Spec => []Accounted
<1>1. Inv => Accounted
  <2> SUFFICES ASSUME Inv, NEW i \in 1..Len(inst), NEW s, s = inst[i].scope
               PROVE  /\ inst[i].life = "made" =>
                             i \in Range(array[s]) \union Range(pending[s]) \union lost
                      /\ inst[i].life = "destroyed" <=> i \in retired[s]
                      /\ inst[i].life = "freed" => i \notin Range(array[s]) \union Range(pending[s])
    BY DEF Accounted
  <2>1. Shape /\ TypeOK /\ Ledger /\ s \in Scopes /\ i # None
    BY InstanceIs DEF Inv, Shape
  <2>2. Entry(i, s)
    BY <2>1 DEF Ledger, Entries
  <2>3. Queued(s) = Range(pending[s])
    <3>1. pending[s] \in Seq(Insts)
      BY <2>1 DEF TypeOK
    <3> QED
      BY <3>1 DEF Queued, Range
  <2>4. inst[i].life = "made" => i \in Range(array[s]) \union Range(pending[s]) \union lost
    <3>1. inst[i].desc \in Known /\ Find(s, inst[i].desc) = i => i \in Range(array[s])
      BY <2>1, FoundInArray
    <3> QED
      BY <2>2, <2>3, <3>1 DEF Entry
  <2>5. inst[i].life = "destroyed" <=> i \in retired[s]
    BY <2>1, <2>2 DEF Entry, Ledger, Retained
  <2>6. i \in Range(array[s]) => inst[i].life = "made"
    <3>1. ASSUME i \in Range(array[s])
          PROVE  inst[i].life = "made"
      <4>1. PICK n \in 1..Len(array[s]) : array[s][n] = i
        BY <2>1, <3>1 DEF Range, TypeOK
      <4>2. slots[n] \in Known /\ Find(s, slots[n]) = i
        BY <2>1, <4>1, ArrayFound
      <4> QED
        BY <2>1, <4>2 DEF Ledger, Sound, Live
    <3> QED
      BY <3>1
  <2>7. i \in Queued(s) => inst[i].life = "made"
    BY <2>1 DEF Ledger, Waiting, Live
  <2> QED
    BY <2>3, <2>4, <2>5, <2>6, <2>7
<1> QED
  BY <1>1, InvHolds, PTL

\* NoneOutlivesScope: stopScope() leaves nothing alive in the scope but the queued
\* bindings, and BeanContext::stop() nothing at all.
THEOREM NoneOutlives == Spec => []NoneOutlivesScope
<1>1. Inv => NoneOutlivesScope
  <2> SUFFICES ASSUME Inv PROVE NoneOutlivesScope
    OBVIOUS
  <2>1. ASSUME NEW i \in 1..Len(inst), NEW s, s = inst[i].scope, state[s] = "Stopped",
               inst[i].life = "made"
        PROVE  s \in Scopes /\ i \in Range(pending[s]) \union lost
    <3>1. TypeOK /\ Ledger /\ s \in Scopes /\ i # None
      BY <2>1, InstanceIs DEF Inv, Shape
    <3>2. Entry(i, s)
      BY <2>1, <3>1 DEF Ledger, Entries
    <3>3. i \in Queued(s) \union lost
      BY <2>1, <3>1, <3>2 DEF Entry, Ledger, Sound
    <3>4. pending[s] \in Seq(Insts)
      BY <3>1 DEF TypeOK
    <3> QED
      BY <3>1, <3>3, <3>4 DEF Queued, Range
  <2>2. ASSUME root = "stopped", NEW i \in 1..Len(inst)
        PROVE  inst[i].life = "freed" \/ i \in lost
    <3>1. PICK s : s = inst[i].scope
      OBVIOUS
    <3>2. /\ s \in Scopes /\ state[s] = "Stopped" /\ retired[s] = {} /\ pending[s] = <<>>
          /\ inst[i].life \in {"made", "destroyed", "freed", "corrupt"} /\ Entry(i, s)
      <4>1. TypeOK /\ Quiescent /\ inst \in Seq(Instance)
        BY DEF Inv, Shape, TypeOK, Instance
      <4>2. inst[i] \in Instance
        BY <4>1
      <4> QED
        BY <2>2, <3>1, <4>1, <4>2 DEF Instance, Quiescent, Inv, Ledger, Entries
    <3>3. Range(pending[s]) = {}
      BY <3>2 DEF Range
    <3> QED
      BY <2>1, <3>1, <3>2, <3>3 DEF Entry
  <2> QED
    BY <2>1, <2>2 DEF NoneOutlivesScope
<1> QED
  BY <1>1, InvHolds, PTL

\* DepsOutlive: stopScope() goes through insertionOrder_ backwards, so whatever is
\* injected in a bean is still stored when the destruction callbacks of the bean run.
THEOREM DependenciesOutlive == Spec => []DepsOutlive
<1>1. Inv => DepsOutlive
  <2> SUFFICES ASSUME Inv, NEW n \in 1..Depth, NEW f, f = frames[n],
                      f.op \in {"stop", "restart"}, f.at = "callback", f.desc \in Beans,
                      NEW b \in Deps[f.desc]
               PROVE  Find(f.scope, b) # None
    BY DEF DepsOutlive
  <2>1. Expects(f)
    BY DEF Inv, Calls, Depth
  <2>2. b \in Todo(f) /\ Stored(f.scope, f.todo) /\ b \in Beans
    BY <2>1, ScopeConstants DEF Expects
  <2> QED
    BY <2>2 DEF Todo, Stored
<1> QED
  BY <1>1, InvHolds, PTL

-----------------------------------------------------------------------------
(* The retired blocks.                                                     *)

\* The block that store() frees is that of a bean which is there again.
LEMMA StoreReplaces ==
    ASSUME Shape', Ledger', NEW s \in Scopes, NEW d, NEW k, k # None, StoreStep(s, d, k),
           NEW u \in Scopes, NEW i \in retired[u] \ retired'[u]
    PROVE  inst[i].desc \in {inst'[j].desc : j \in Range(array'[u]) \ {None}}
<1>1. u = s /\ inst[i].desc = d /\ d \in Known'
  BY DEF StoreStep
<1>2. Find(s, d)' = k
  BY <1>1 DEF StoreStep, FindsStored
<1>3. k \in Range(array'[s])
  <2>1. /\ slots' \in Seq(Descs) /\ IsInjective(slots')
        /\ array'[s] \in Seq(Insts \union {None})
    BY DEF Shape, TypeOK, Numbering
  <2>2. PICK n \in 1..Len(slots') : d = slots'[n]
    BY <1>1 DEF Known
  <2>3. FindIn(slots', array'[s], slots'[n]) = k
    BY <1>2, <2>2, FindState
  <2>4. n \in 1..Len(slots') /\ FindIn(slots', array'[s], slots'[n]) # None
    BY <2>2, <2>3
  <2> QED
    BY ONLY <2>1, <2>3, <2>4, FindInRange
<1>4. inst'[k].desc = d
  BY <1>1, <1>2 DEF Ledger, Sound
<1> QED
  BY <1>1, <1>3, <1>4

\* What the property asks of a step.
Kept ==
    \A s \in Scopes : \A i \in retired[s] \ retired'[s] :
        \/ inst[i].desc \in {inst'[j].desc : j \in Range(array'[s]) \ {None}}
        \/ state'[s] = "Stopped" /\ frames # <<>> /\ Top.op \in {"stop", "root"}

\* A step keeps a retired block, or replaces its bean, or is the end of a stop.
LEMMA KeptNext ==
    ASSUME Inv, [Next]_vars
    PROVE  Kept
<1>0. Inv' /\ Shape /\ Shape' /\ Ledger /\ Ledger' /\ TypeOK /\ Len(inst) + 1 # None
  <2>1. Inv'
    BY InvNext
  <2>2. Shape /\ Shape' /\ Ledger /\ Ledger' /\ TypeOK
    BY <2>1 DEF Inv, Shape
  <2>3. Len(inst) \in Nat
    BY <2>2 DEF TypeOK
  <2> QED
    BY <2>1, <2>2, <2>3, ScopeConstants
<1>1. ASSUME \A u \in Scopes : retired[u] \subseteq retired'[u]
      PROVE  Kept
  BY <1>1 DEF Kept
<1>2. CASE Constructed
  <2>1. StoreStep(Top.scope, Top.desc, Len(inst) + 1)
    BY <1>0, <1>2, ShapeConstructed
  <2>2. Top.scope \in Scopes
    <3>1. frames # <<>> /\ Top.op = "make"
      BY <1>2 DEF Constructed, At
    <3> QED
      BY <1>0, <3>1, TopOK DEF FrameOK
  <2> QED
    BY <1>0, <2>1, <2>2, StoreReplaces DEF Kept
<1>3. CASE StartStores
  <2>1. PICK i, s : i = Head(Top.todo) /\ s = Top.scope
    OBVIOUS
  <2>2. i \in Queued(s) /\ StoreStep(s, inst[i].desc, i)
    BY <1>0, <1>3, <2>1, ShapeStartStores
  <2>3. s \in Scopes
    <3>1. frames # <<>> /\ Top.op = "start"
      BY <1>3 DEF StartStores, At
    <3> QED
      BY <1>0, <2>1, <3>1, TopOK DEF FrameOK
  <2>4. i # None
    <3>1. i \in 1..Len(inst)
      BY <1>0, <2>2, <2>3 DEF Ledger, Waiting, Live
    <3> QED
      BY <1>0, <3>1, InstanceIs
  <2> QED
    BY <1>0, <2>2, <2>3, <2>4, StoreReplaces DEF Kept
<1>4. ASSUME NEW s \in Scopes, NEW k \in BindKeys, BindRunning(s, k)
      PROVE  Kept
  <2>1. PICK d \in Nat : StoreStep(s, d, Len(inst) + 1)
    BY <1>0, <1>4, ShapeBindRunning
  <2> QED
    BY <1>0, <2>1, StoreReplaces DEF Kept
<1>5. CASE SweepDestroys
  <2>1. PICK s, i : retired' = [retired EXCEPT ![s] = @ \union {i}] \/ retired' = retired
    BY <1>5 DEF SweepDestroys
  <2>2. retired \in [Scopes -> SUBSET Insts]
    BY <1>0 DEF TypeOK
  <2> QED
    BY <1>1, <2>1, <2>2
<1>6. CASE StopDone
  <2>1. PICK s : s = Top.scope
    OBVIOUS
  <2>2. /\ frames # <<>> /\ Top.op = "stop" /\ retired' = [retired EXCEPT ![s] = {}]
        /\ state' = [state EXCEPT ![s] = "Stopped"]
    BY <1>6, <2>1 DEF StopDone, At
  <2>3. \A u \in Scopes : u # s => retired'[u] = retired[u]
    BY <1>0, <2>2 DEF TypeOK
  <2>4. s \in Scopes => state'[s] = "Stopped"
    BY <1>0, <2>2 DEF TypeOK
  <2> QED
    BY <2>2, <2>3, <2>4 DEF Kept
<1>7. CASE RootStopDone
  BY <1>7 DEF RootStopDone, At, Kept
<1>8. CASE UNCHANGED retired
  BY <1>1, <1>8
<1>9. ASSUME NEW s \in Scopes, NEW k \in BindKeys, BindQueued(s, k)
      PROVE  UNCHANGED retired
  BY <1>9 DEF BindQueued, store
<1>10. ASSUME NEW s \in Scopes, NEW b \in Beans, Resolve(s, b)
       PROVE  UNCHANGED retired
  BY <1>10 DEF Resolve, store
<1>11. ASSUME NEW s \in Scopes, ScopeStart(s) \/ ScopeStop(s) \/ Restart(s) \/ RootStopsScope(s)
       PROVE  UNCHANGED retired
  BY <1>11 DEF ScopeStart, ScopeStop, Restart, RootStopsScope, store
<1>12. CASE RootStart \/ RootStop \/ Gone \/ UNCHANGED vars
  BY <1>8, <1>12 DEF RootStart, RootStop, Gone, vars, store
<1>13. CASE ConstructDep \/ ConstructorThrows \/ CreationCallbackReturns \/ CreationCallbackThrows
  BY <1>8, <1>13
     DEF ConstructDep, ConstructorThrows, CreationCallbackReturns, CreationCallbackThrows, store
<1>14. CASE StartCallbackReturns \/ StartCallbackThrows \/ StartDone \/ Sweep \/ RestartDone
  BY <1>8, <1>14 DEF StartCallbackReturns, StartCallbackThrows, StartDone, Sweep, RestartDone, store
<1> QED
  BY <1>2, <1>3, <1>4, <1>5, <1>6, <1>7, <1>8, <1>9, <1>10, <1>11, <1>12, <1>13, <1>14 DEF Next

\* The action property KeptUntilReplaced: whatever callbacks resolve, bind or
\* throw, store() (SessionStore) frees a retired block only when the bean is in
\* its slot again, and otherwise only the end of stop() does.
THEOREM RetiredKept == Spec => KeptUntilReplaced
<1>1. Inv /\ [Next]_vars
        => [\A s \in Scopes : \A i \in retired[s] \ retired'[s] :
               \/ inst[i].desc \in {inst'[j].desc : j \in Range(array'[s]) \ {None}}
               \/ state'[s] = "Stopped" /\ frames # <<>> /\ Top.op \in {"stop", "root"}]_vars
  BY KeptNext DEF Kept
<1> QED
  BY <1>1, InvHolds, PTL DEF Spec, KeptUntilReplaced

=============================================================================
