--------------------------- MODULE ContainerProofs ---------------------------
(***************************************************************************)
(* A registry and the threads that use it, for every number of threads,    *)
(* beans and programs.  Thread-local instances: what a thread finds is its *)
(* own and alive, and the instances of a listed thread are destroyed by    *)
(* its exit or by stop(), never by both.  Tokens of the wait graph: each   *)
(* belongs to one thread or to the free list.                              *)
(***************************************************************************)
EXTENDS Container, SequenceTheorems, FiniteSetTheorems, WellFoundedInduction, TLAPS

-----------------------------------------------------------------------------
(* Sequences: what FlattenSeq computes.                                    *)

\* The order of the naturals as a relation, for WFMin.
LEMMA LessThanRelation ==
    \E R : IsWellFoundedOn(R, Nat) /\ \A x, y \in Nat : <<y, x>> \in R <=> y < x
<1>1. IsWellFoundedOn(OpToRel(<, Nat), Nat)
  BY NatLessThanWellFounded
<1>2. \A x, y \in Nat : <<y, x>> \in OpToRel(<, Nat) <=> y < x
  BY DEF OpToRel
<1> QED
  BY <1>1, <1>2, Zenon

\* A set of naturals that is not empty has a least element: what replaces induction here.
LEMMA LeastElement ==
    ASSUME NEW T \in SUBSET Nat, T # {}
    PROVE  \E m \in T : \A n \in T : m <= n
<1>1. PICK R : IsWellFoundedOn(R, Nat) /\ \A x, y \in Nat : <<y, x>> \in R <=> y < x
  BY LessThanRelation
<1>2. PICK m \in T : \A y \in T : ~ (<<y, m>> \in R)
  BY <1>1, WFMin
<1>3. \A y \in T : ~ (y < m)
  BY <1>1, <1>2
<1> QED
  BY <1>3

\* e is an element of the sequence s; no element of s is there twice.
Holds(s, e) == \E m \in 1..Len(s) : s[m] = e
Once(s) == \A m, n \in 1..Len(s) : s[m] = s[n] => m = n

\* The elements of a concatenation.
LEMMA JoinedSeqs ==
    ASSUME NEW S, NEW s \in Seq(S), NEW r \in Seq(S)
    PROVE  /\ s \o r \in Seq(S)
           /\ \A e : Holds(s \o r, e) <=> (Holds(s, e) \/ Holds(r, e))
           /\ Once(s) /\ Once(r) /\ (\A e : ~(Holds(s, e) /\ Holds(r, e))) => Once(s \o r)
<1>1. /\ s \o r \in Seq(S) /\ Len(s) \in Nat /\ Len(r) \in Nat /\ Len(s \o r) = Len(s) + Len(r)
      /\ \A m \in 1..Len(s \o r) : (s \o r)[m] = IF m <= Len(s) THEN s[m] ELSE r[m - Len(s)]
  OBVIOUS
<1> DEFINE q == s \o r
<1>2. /\ \A m \in 1..Len(s) : m \in 1..Len(q) /\ q[m] = s[m]
      /\ \A m \in 1..Len(r) : m + Len(s) \in 1..Len(q) /\ q[m + Len(s)] = r[m]
  <2>1. \A m \in 1..Len(s) : m \in 1..Len(q) /\ q[m] = s[m]
    BY <1>1
  <2>2. ASSUME NEW m \in 1..Len(r) PROVE m + Len(s) \in 1..Len(q) /\ q[m + Len(s)] = r[m]
    <3>1. m + Len(s) \in 1..Len(q) /\ ~(m + Len(s) <= Len(s)) /\ (m + Len(s)) - Len(s) = m
      BY <1>1
    <3> QED
      BY <1>1, <3>1
  <2> QED
    BY <2>1, <2>2
<1>3. \A m \in 1..Len(q) : (m \in 1..Len(s) /\ q[m] = s[m]) \/ (m - Len(s) \in 1..Len(r) /\ q[m] = r[m - Len(s)])
  BY <1>1
<1>4. \A e : Holds(q, e) <=> (Holds(s, e) \/ Holds(r, e))
  <2> TAKE e
  <2>1. ASSUME Holds(q, e) PROVE Holds(s, e) \/ Holds(r, e)
    BY <1>3, <2>1 DEF Holds
  <2>2. ASSUME Holds(s, e) PROVE Holds(q, e)
    BY <1>2, <2>2 DEF Holds
  <2>3. ASSUME Holds(r, e) PROVE Holds(q, e)
    BY <1>2, <2>3 DEF Holds
  <2> QED
    BY <2>1, <2>2, <2>3
<1>5. ASSUME Once(s), Once(r), \A e : ~(Holds(s, e) /\ Holds(r, e)) PROVE Once(q)
  <2> SUFFICES ASSUME NEW m \in 1..Len(q), NEW n \in 1..Len(q), q[m] = q[n] PROVE m = n
    BY DEF Once
  <2>1. CASE m \in 1..Len(s) /\ q[m] = s[m] /\ n \in 1..Len(s) /\ q[n] = s[n]
    BY <1>5, <2>1 DEF Once
  <2>2. CASE m - Len(s) \in 1..Len(r) /\ q[m] = r[m - Len(s)] /\ n - Len(s) \in 1..Len(r) /\ q[n] = r[n - Len(s)]
    <3>1. m - Len(s) = n - Len(s)
      BY <1>5, <2>2 DEF Once
    <3> QED
      BY <1>1, <3>1
  <2>3. CASE m \in 1..Len(s) /\ q[m] = s[m] /\ n - Len(s) \in 1..Len(r) /\ q[n] = r[n - Len(s)]
    BY <1>5, <2>3 DEF Holds
  <2>4. CASE m - Len(s) \in 1..Len(r) /\ q[m] = r[m - Len(s)] /\ n \in 1..Len(s) /\ q[n] = s[n]
    BY <1>5, <2>4 DEF Holds
  <2> QED
    BY <1>3, <2>1, <2>2, <2>3, <2>4
<1> QED
  BY <1>1, <1>4, <1>5

\* f[i] is the concatenation of the first i sequences of q, as FlattenSeq defines it.
IsFlat(f, q, n) == f = [i \in 1..n |-> IF i = 1 THEN q[i] ELSE f[i - 1] \o q[i]]

\* That recursive definition has a solution, so FlattenSeq's CHOOSE finds it.
LEMMA FlatExists ==
    ASSUME NEW q, NEW n \in Nat
    PROVE  \E f : IsFlat(f, q, n)
<1> DEFINE T == {m \in Nat : ~\E f : IsFlat(f, q, m)}
<1> SUFFICES ASSUME T # {} PROVE FALSE
  OBVIOUS
<1>1. PICK l \in T : \A m \in T : l <= m
  BY LeastElement
<1>2. l \in Nat /\ ~\E f : IsFlat(f, q, l)
  OBVIOUS
<1>3. CASE l = 0
  <2>1. PICK f : f = [i \in 1..0 |-> 0]
    OBVIOUS
  <2>2. f = [i \in 1..0 |-> IF i = 1 THEN q[i] ELSE f[i - 1] \o q[i]]
    BY <2>1
  <2> QED
    BY <1>2, <1>3, <2>2 DEF IsFlat
<1>4. CASE l # 0
  <2>1. PICK j \in Nat : l = j + 1
    <3>1. l - 1 \in Nat /\ l = (l - 1) + 1
      BY <1>2, <1>4
    <3> QED
      BY <3>1
  <2>2. j \notin T
    BY <1>1, <1>2, <2>1
  <2>3. PICK f : IsFlat(f, q, j)
    BY <2>2
  <2>4. PICK g : g = [i \in 1..l |-> IF i = 1 THEN q[i] ELSE f[i - 1] \o q[i]]
    OBVIOUS
  <2>5. \A i \in 1..j : i \in 1..l /\ g[i] = f[i]
    <3> TAKE i \in 1..j
    <3>1. i \in 1..l
      BY <2>1
    <3>2. f = [k \in 1..j |-> IF k = 1 THEN q[k] ELSE f[k - 1] \o q[k]]
      BY <2>3 DEF IsFlat
    <3>3. f[i] = IF i = 1 THEN q[i] ELSE f[i - 1] \o q[i]
      BY <3>2
    <3>4. g[i] = IF i = 1 THEN q[i] ELSE f[i - 1] \o q[i]
      BY <2>4, <3>1
    <3> QED
      BY <3>1, <3>3, <3>4
  <2>6. \A i \in 1..l : i # 1 => i - 1 \in 1..j
    BY <2>1
  <2>7. \A i \in 1..l : (IF i = 1 THEN q[i] ELSE f[i - 1] \o q[i])
                        = (IF i = 1 THEN q[i] ELSE g[i - 1] \o q[i])
    BY <2>5, <2>6
  <2>8. g = [i \in 1..l |-> IF i = 1 THEN q[i] ELSE g[i - 1] \o q[i]]
    BY <2>4, <2>7
  <2> QED
    BY <1>2, <2>8 DEF IsFlat
<1> QED
  BY <1>3, <1>4

\* No element is in two of the sequences, or twice in one.
Separate(q) ==
    /\ \A i \in 1..Len(q) : Once(q[i])
    /\ \A i, j \in 1..Len(q) : \A e : Holds(q[i], e) /\ Holds(q[j], e) => i = j

\* s has the elements of the first k sequences of q.
Gathers(s, S, q, k) ==
    /\ s \in Seq(S)
    /\ \A e : Holds(s, e) <=> \E i \in 1..k : Holds(q[i], e)
    /\ Separate(q) => Once(s)

\* So has each f[k], by the least k for which it would not.
LEMMA FlatGathers ==
    ASSUME NEW S, NEW q \in Seq(Seq(S)), NEW f, IsFlat(f, q, Len(q)), NEW k \in 1..Len(q)
    PROVE  Gathers(f[k], S, q, k)
<1> DEFINE T == {m \in 1..Len(q) : ~Gathers(f[m], S, q, m)}
<1>0. Len(q) \in Nat /\ \A m \in 1..Len(q) : q[m] \in Seq(S)
  OBVIOUS
<1> SUFFICES ASSUME T # {} PROVE FALSE
  OBVIOUS
<1>1. PICK l \in T : \A m \in T : l <= m
  <2>1. T \in SUBSET Nat
    BY <1>0
  <2> QED
    BY <2>1, LeastElement
<1>2. l \in 1..Len(q) /\ ~Gathers(f[l], S, q, l)
  OBVIOUS
<1>a. f[l] = IF l = 1 THEN q[l] ELSE f[l - 1] \o q[l]
  BY <1>2 DEF IsFlat
<1>3. CASE l = 1
  <2>1. f[l] = q[1] /\ q[1] \in Seq(S) /\ 1 \in 1..Len(q)
    BY <1>0, <1>2, <1>3, <1>a
  <2>2. \A e : Holds(q[1], e) <=> \E i \in 1..1 : Holds(q[i], e)
    OBVIOUS
  <2> QED
    BY <1>2, <1>3, <2>1, <2>2 DEF Gathers, Separate
<1>4. CASE l # 1
  <2>1. PICK j \in 1..Len(q) : l = j + 1 /\ l - 1 = j
    <3>1. l - 1 \in 1..Len(q) /\ l = (l - 1) + 1
      BY <1>0, <1>2, <1>4
    <3> QED
      BY <3>1
  <2>2. j \notin T
    BY <1>0, <1>1, <2>1
  <2>3. Gathers(f[j], S, q, j)
    BY <2>2
  <2>4. f[l] = f[j] \o q[l] /\ q[l] \in Seq(S) /\ f[j] \in Seq(S)
    BY <1>0, <1>2, <1>4, <1>a, <2>1, <2>3 DEF Gathers
  <2>5. 1..l = 1..j \union {l}
    BY <1>0, <1>2, <2>1
  <2>6. /\ f[l] \in Seq(S)
        /\ \A e : Holds(f[l], e) <=> (Holds(f[j], e) \/ Holds(q[l], e))
        /\ Once(f[j]) /\ Once(q[l]) /\ (\A e : ~(Holds(f[j], e) /\ Holds(q[l], e))) => Once(f[l])
    BY <2>4, JoinedSeqs
  <2>7. \A e : Holds(f[l], e) <=> \E i \in 1..l : Holds(q[i], e)
    <3> TAKE e
    <3>1. Holds(f[j], e) <=> \E i \in 1..j : Holds(q[i], e)
      BY <2>3 DEF Gathers
    <3>2. (\E i \in 1..l : Holds(q[i], e)) <=> ((\E i \in 1..j : Holds(q[i], e)) \/ Holds(q[l], e))
      BY <2>5, Zenon
    <3> QED
      BY <2>6, <3>1, <3>2
  <2>8. ASSUME Separate(q) PROVE Once(f[l])
    <3>1. Once(f[j]) /\ Once(q[l])
      BY <1>2, <2>3, <2>8 DEF Gathers, Separate
    <3>2. ASSUME NEW e, Holds(f[j], e), Holds(q[l], e) PROVE FALSE
      <4>1. PICK i \in 1..j : Holds(q[i], e)
        BY <2>3, <3>2 DEF Gathers
      <4>2. i \in 1..Len(q) /\ i # l
        BY <1>0, <1>2, <2>1
      <4> QED
        BY <1>2, <2>8, <3>2, <4>1, <4>2 DEF Separate
    <3> QED
      BY <2>6, <3>1, <3>2
  <2> QED
    BY <1>2, <2>6, <2>7, <2>8 DEF Gathers
<1> QED
  BY <1>3, <1>4

\* What FlattenSeq computes, for every sequence of sequences.
LEMMA FlattenGathers ==
    ASSUME NEW S, NEW q \in Seq(Seq(S))
    PROVE  Gathers(TL!FlattenSeq(q), S, q, Len(q))
<1>1. CASE Len(q) = 0
  <2>1. TL!FlattenSeq(q) = q /\ q = <<>>
    BY <1>1 DEF TL!FlattenSeq
  <2> QED
    BY <1>1, <2>1 DEF Gathers, Holds, Once
<1>2. CASE Len(q) # 0
  <2>1. PICK f : /\ TL!FlattenSeq(q) = f[Len(q)]
                 /\ f = CHOOSE g : g = [i \in 1..Len(q) |-> IF i = 1 THEN q[i] ELSE g[i - 1] \o q[i]]
    BY <1>2 DEF TL!FlattenSeq
  <2>2. \E g : g = [i \in 1..Len(q) |-> IF i = 1 THEN q[i] ELSE g[i - 1] \o q[i]]
    <3>1. Len(q) \in Nat
      OBVIOUS
    <3>2. PICK g : IsFlat(g, q, Len(q))
      BY <3>1, FlatExists
    <3>3. g = [i \in 1..Len(q) |-> IF i = 1 THEN q[i] ELSE g[i - 1] \o q[i]]
      BY <3>2 DEF IsFlat
    <3> QED
      BY <3>3
  <2>3. f = [i \in 1..Len(q) |-> IF i = 1 THEN q[i] ELSE f[i - 1] \o q[i]]
    BY <2>1, <2>2
  <2>4. IsFlat(f, q, Len(q)) /\ Len(q) \in 1..Len(q)
    <3>1. IsFlat(f, q, Len(q))
      BY <2>3 DEF IsFlat
    <3>2. Len(q) \in 1..Len(q)
      BY <1>2
    <3> QED
      BY <3>1, <3>2
  <2> QED
    BY <2>1, <2>4, FlatGathers
<1> QED
  BY <1>1, <1>2

\* A sequence, whatever its elements are.
IsSeq(s) == \E S : s \in Seq(S)

\* Domain and length of such a sequence.
LEMMA SeqFacts ==
    ASSUME NEW s, IsSeq(s)
    PROVE  /\ Len(s) \in Nat /\ DOMAIN s = 1..Len(s) /\ s = [n \in 1..Len(s) |-> s[n]]
           /\ (s = <<>>) <=> (Len(s) = 0)
<1>1. PICK S : s \in Seq(S)
  BY DEF IsSeq
<1> QED
  BY <1>1

\* A sequence over a set is one over every larger set.
LEMMA SeqUp ==
    ASSUME NEW S, NEW T, S \subseteq T, NEW s \in Seq(S)
    PROVE  s \in Seq(T)
OBVIOUS

\* A function on 1..L is a sequence of length L.
LEMMA DomIsSeq ==
    ASSUME NEW L \in Nat, NEW s, s = [n \in 1..L |-> s[n]]
    PROVE  IsSeq(s) /\ Len(s) = L
<1>1. PICK S : S = {s[n] : n \in 1..L}
  OBVIOUS
<1>2. s \in [1..L -> S]
  BY <1>1
<1>3. s \in Seq(S) /\ Len(s) = L
  BY <1>2
<1> QED
  BY <1>3 DEF IsSeq

\* Append on any sequence: the calls on the stack are records of no fixed type.
LEMMA AppendFacts ==
    ASSUME NEW s, IsSeq(s), NEW e
    PROVE  /\ IsSeq(Append(s, e)) /\ Len(Append(s, e)) = Len(s) + 1
           /\ \A n \in 1..Len(s) : Append(s, e)[n] = s[n]
           /\ Append(s, e)[Len(s) + 1] = e
<1>1. PICK S : s \in Seq(S)
  BY DEF IsSeq
<1>2. s \in Seq(S \union {e})
  BY <1>1, SeqUp
<1>3. /\ Append(s, e) \in Seq(S \union {e}) /\ Len(Append(s, e)) = Len(s) + 1
      /\ \A n \in 1..Len(s) : Append(s, e)[n] = s[n]
      /\ Append(s, e)[Len(s) + 1] = e
  BY <1>2
<1> QED
  BY <1>3 DEF IsSeq

\* The sequence without its last element.
LEMMA PrefixFacts ==
    ASSUME NEW s, IsSeq(s), s # <<>>
    PROVE  /\ IsSeq(SubSeq(s, 1, Len(s) - 1)) /\ Len(SubSeq(s, 1, Len(s) - 1)) = Len(s) - 1
           /\ \A n \in 1..(Len(s) - 1) : SubSeq(s, 1, Len(s) - 1)[n] = s[n]
<1>1. PICK S : s \in Seq(S)
  BY DEF IsSeq
<1>2. Len(s) \in Nat \ {0}
  BY <1>1
<1>3. /\ SubSeq(s, 1, Len(s) - 1) \in Seq(S) /\ Len(SubSeq(s, 1, Len(s) - 1)) = Len(s) - 1
      /\ \A n \in 1..(Len(s) - 1) : SubSeq(s, 1, Len(s) - 1)[n] = s[n]
  <2>1. Len(s) - 1 \in Int /\ 1 \in Int /\ \A n \in 1..(Len(s) - 1) : s[n] \in S
    BY <1>1, <1>2
  <2>2. /\ SubSeq(s, 1, Len(s) - 1) \in Seq(S)
        /\ Len(SubSeq(s, 1, Len(s) - 1)) = IF 1 <= Len(s) - 1 THEN (Len(s) - 1) - 1 + 1 ELSE 0
        /\ \A n \in 1..((Len(s) - 1) - 1 + 1) : SubSeq(s, 1, Len(s) - 1)[n] = s[1 + n - 1]
    BY <1>1, <2>1, SubSeqProperties
  <2>3. (Len(s) - 1) - 1 + 1 = Len(s) - 1 /\ \A n \in 1..(Len(s) - 1) : 1 + n - 1 = n
    BY <1>2
  <2> QED
    BY <1>2, <2>2, <2>3
<1> QED
  BY <1>3 DEF IsSeq

\* One element is replaced.
Changed(s, k, e, r) == r = [s EXCEPT ![k] = e]

\* A replacement keeps length and the other elements.
LEMMA ExceptFacts ==
    ASSUME NEW s, IsSeq(s), NEW k \in 1..Len(s), NEW e, NEW r, Changed(s, k, e, r)
    PROVE  /\ IsSeq(r) /\ Len(r) = Len(s)
           /\ \A n \in 1..Len(s) : r[n] = IF n = k THEN e ELSE s[n]
<1>1. PICK S : s \in Seq(S)
  BY DEF IsSeq
<1>2. s \in Seq(S \union {e})
  BY <1>1, SeqUp
<1>3. /\ r \in Seq(S \union {e}) /\ Len(r) = Len(s)
      /\ \A n \in 1..Len(s) : r[n] = IF n = k THEN e ELSE s[n]
  BY <1>2 DEF Changed
<1> QED
  BY <1>3 DEF IsSeq

\* The sequence without its first element.
LEMMA TailFacts ==
    ASSUME NEW s, IsSeq(s), s # <<>>
    PROVE  /\ IsSeq(Tail(s)) /\ Len(Tail(s)) = Len(s) - 1 /\ Head(s) = s[1]
           /\ \A n \in 1..(Len(s) - 1) : Tail(s)[n] = s[n + 1]
<1>1. PICK S : s \in Seq(S)
  BY DEF IsSeq
<1>3. /\ Tail(s) \in Seq(S) /\ Len(Tail(s)) = Len(s) - 1 /\ Head(s) = s[1]
      /\ \A n \in 1..(Len(s) - 1) : Tail(s)[n] = s[n + 1]
  BY <1>1
<1> QED
  BY <1>3 DEF IsSeq

-----------------------------------------------------------------------------
(* The calls of the owning thread.                                         *)

\* A call in progress; one that ends the use of the context; the points it may be at.
IsCall(f) == f = [op |-> f.op, at |-> f.at, desc |-> f.desc, todo |-> f.todo, uses |-> f.uses]
Ending(f) == f.op \in {"stop", "exit", "rollback"}
PointOK(f) ==
    \/ f.op = "start" /\ f.at \in {"context", "bound", "eager"}
    \/ f.op = "make" /\ f.at \in {"constructor", "hooks"}
    \/ f.op = "bind" /\ f.at \in {"insert", "flush", "order", "singles", "heads", "ties", "listeners"}
    \/ f.op = "stop" /\ f.at \in {"destroying", "released", "sweeping"}
    \/ f.op = "exit" /\ f.at \in {"destroying", "released"}
    \/ f.op = "rollback" /\ f.at = "destroying"

\* The n-th of len calls, in a context that is up or not.  A call that ends the use
\* of the context is the only one and has cleared started_; the others need it.
CallOK(f, n, len, up) ==
    /\ IsCall(f) /\ PointOK(f)
    /\ Ending(f) => len = 1 /\ ~up
    /\ ~Ending(f) => up
    /\ f.op = "start" => n = 1

\* The calls of the owning thread, which the other invariants need for one thing:
\* while stop() sweeps, it is the innermost call and nothing else moves it.
CallsInv ==
    /\ IsSeq(frames)
    /\ \A n \in 1..Len(frames) : CallOK(frames[n], n, Len(frames), started)
    /\ phase # "live" => frames = <<>> /\ ~started
    /\ cat \in Catalogs

\* Where user code may call the context from.
Open == frames = <<>> \/ ~Ending(Top)

\* The innermost call.
LEMMA TopFacts ==
    ASSUME CallsInv, frames # <<>>
    PROVE  /\ Len(frames) \in Nat \ {0} /\ Depth = Len(frames) /\ Depth \in 1..Len(frames)
           /\ Top = frames[Len(frames)] /\ CallOK(Top, Len(frames), Len(frames), started)
<1>1. IsSeq(frames) /\ \A n \in 1..Len(frames) : CallOK(frames[n], n, Len(frames), started)
  BY DEF CallsInv
<1>2. Len(frames) \in Nat \ {0}
  BY <1>1, SeqFacts
<1> QED
  BY <1>1, <1>2 DEF Depth, Top

\* A call as it is made.
LEMMA CallIs ==
    ASSUME NEW o, NEW a, NEW d, NEW q
    PROVE  /\ IsCall(Call(o, a, d, q)) /\ Call(o, a, d, q).op = o /\ Call(o, a, d, q).at = a
           /\ Call(o, a, d, q).desc = d /\ Call(o, a, d, q).todo = q /\ Call(o, a, d, q).uses = {}
BY DEF IsCall, Call

\* Nothing of the calls changes.
LEMMA CallsSame ==
    ASSUME CallsInv, UNCHANGED <<frames, phase, started, cat>>
    PROVE  CallsInv'
BY DEF CallsInv, CallOK

\* The innermost call goes on.
LEMMA CallsGoto ==
    ASSUME CallsInv, frames # <<>>, NEW f, Goto(f), IsCall(f), PointOK(f), f.op = Top.op,
           UNCHANGED <<phase, started, cat>>
    PROVE  CallsInv' /\ Len(frames') = Len(frames)
           /\ \A n \in 1..Len(frames) : frames'[n] = IF n = Len(frames) THEN f ELSE frames[n]
<1>1. /\ Len(frames) \in Nat \ {0} /\ Depth = Len(frames) /\ Depth \in 1..Len(frames)
      /\ Top = frames[Len(frames)] /\ CallOK(Top, Len(frames), Len(frames), started)
  BY TopFacts
<1>a. frames' = [frames EXCEPT ![Len(frames)] = f] /\ IsSeq(frames) /\ Len(frames) \in 1..Len(frames)
  BY <1>1 DEF Goto, CallsInv
<1>2. /\ IsSeq(frames') /\ Len(frames') = Len(frames)
      /\ \A n \in 1..Len(frames) : frames'[n] = IF n = Len(frames) THEN f ELSE frames[n]
  <2>1. Changed(frames, Len(frames), f, frames')
    BY <1>a DEF Changed
  <2> QED
    BY <1>a, <2>1, ExceptFacts
<1>3. ASSUME NEW n \in 1..Len(frames') PROVE CallOK(frames'[n], n, Len(frames'), started')
  <2>1. CASE n = Len(frames)
    BY <1>1, <1>2, <2>1 DEF CallOK, Ending
  <2>2. CASE n # Len(frames)
    BY <1>1, <1>2, <2>2 DEF CallOK, Ending, CallsInv
  <2> QED
    BY <2>1, <2>2
<1>4. phase' = "live"
  BY DEF CallsInv
<1> QED
  BY <1>2, <1>3, <1>4 DEF CallsInv

\* A call is made.
LEMMA CallsPush ==
    ASSUME CallsInv, Open, NEW f, Push(f), IsCall(f), PointOK(f), phase = "live",
           Ending(f) => frames = <<>> /\ ~started', ~Ending(f) => started',
           f.op = "start" => frames = <<>>, frames # <<>> => started',
           UNCHANGED <<phase, cat>>
    PROVE  CallsInv' /\ Len(frames') = Len(frames) + 1
           /\ (\A n \in 1..Len(frames) : frames'[n] = frames[n]) /\ frames'[Len(frames) + 1] = f
<1>1. /\ IsSeq(frames') /\ Len(frames') = Len(frames) + 1
      /\ (\A n \in 1..Len(frames) : frames'[n] = frames[n]) /\ frames'[Len(frames) + 1] = f
  BY AppendFacts DEF Push, CallsInv
<1>2. Len(frames) \in Nat /\ (frames = <<>> <=> Len(frames) = 0)
  BY SeqFacts DEF CallsInv
<1>3. ASSUME NEW n \in 1..Len(frames') PROVE CallOK(frames'[n], n, Len(frames'), started')
  <2>1. CASE n = Len(frames) + 1
    BY <1>1, <1>2, <2>1 DEF CallOK, Ending
  <2>2. CASE n # Len(frames) + 1
    <3>1. n \in 1..Len(frames) /\ frames'[n] = frames[n] /\ frames # <<>>
      BY <1>1, <1>2, <2>2
    <3>2. CallOK(frames[n], n, Len(frames), started) /\ Top = frames[Len(frames)]
      BY <3>1, TopFacts DEF CallsInv
    <3>3. ~Ending(frames[n])
      <4>1. ASSUME Ending(frames[n]) PROVE FALSE
        <5>0. Len(frames) = 1
          BY <3>2, <4>1 DEF CallOK
        <5>1. Len(frames) = 1 /\ n = 1
          BY <3>1, <5>0
        <5> QED
          BY <3>1, <3>2, <4>1, <5>1 DEF Open
      <4> QED
        BY <4>1
    <3> QED
      BY <3>1, <3>2, <3>3 DEF CallOK, Ending
  <2> QED
    BY <2>1, <2>2
<1> QED
  BY <1>1, <1>3 DEF CallsInv

\* The innermost call returns, and the context may be stopped by then.
LEMMA CallsReturn ==
    ASSUME CallsInv, frames # <<>>, Return, started' = started, cat' = cat,
           phase' = phase \/ Ending(Top)
    PROVE  CallsInv' /\ Len(frames') = Len(frames) - 1
           /\ \A n \in 1..Len(frames') : n \in 1..Len(frames) /\ frames'[n] = frames[n]
<1>1. /\ Len(frames) \in Nat \ {0} /\ Depth = Len(frames) /\ Depth \in 1..Len(frames)
      /\ Top = frames[Len(frames)] /\ CallOK(Top, Len(frames), Len(frames), started)
  BY TopFacts
<1>2. /\ IsSeq(frames') /\ Len(frames') = Len(frames) - 1
      /\ \A n \in 1..(Len(frames) - 1) : frames'[n] = frames[n]
  BY <1>1, PrefixFacts DEF Return, CallsInv
<1>a. \A n \in 1..Len(frames') : n \in 1..Len(frames) /\ frames'[n] = frames[n]
  BY <1>1, <1>2
<1>3. ASSUME NEW n \in 1..Len(frames') PROVE CallOK(frames'[n], n, Len(frames'), started')
  <2>1. n \in 1..(Len(frames) - 1) /\ n \in 1..Len(frames) /\ frames'[n] = frames[n] /\ Len(frames) # 1
    BY <1>1, <1>2
  <2>2. CallOK(frames[n], n, Len(frames), started) /\ ~Ending(frames[n])
    BY <2>1 DEF CallsInv, CallOK
  <2> QED
    BY <2>1, <2>2 DEF CallOK, Ending
<1>4. phase' # "live" => frames' = <<>> /\ ~started'
  <2>1. phase = "live"
    BY DEF CallsInv
  <2>2. CASE Ending(Top)
    <3>1. Len(frames') = 0 /\ ~started
      BY <1>1, <1>2, <2>2 DEF CallOK
    <3> QED
      BY <1>2, <3>1, SeqFacts
  <2> QED
    BY <2>1, <2>2
<1> QED
  BY <1>2, <1>a, <1>3, <1>4 DEF CallsInv

\* The steps that leave the calls alone.
LookSteps == LookSingle \/ LookEntry \/ LookFlag \/ LookFind \/ LookDone

\* Those steps change no call.
LEMMA QuietCalls ==
    ASSUME \/ (\E s : Discover(s)) \/ (\E k : BindEarly(k)) \/ StartRejected
           \/ (\E t, n : ResolveUnbuilt(t, n)) \/ (\E c, t, n : SetDefault(c, t, n) \/ ClearDefault(c, t))
           \/ (\E t, n : LookBegin(t, n)) \/ LookSteps
    PROVE  UNCHANGED <<frames, phase, started, cat>>
BY DEF Discover, BindEarly, StartRejected, ResolveUnbuilt, SetDefault, ClearDefault, LookBegin, LookSteps,
       LookSingle, LookEntry, LookFlag, LookFind, LookDone

\* A part of a call is set.
SetAt(f, x, g) == g = [f EXCEPT !.at = x]
SetTodo(f, x, g) == g = [f EXCEPT !.todo = x]
SetUses(f, x, g) == g = [f EXCEPT !.uses = x]
SetNext(f, x, y, g) == g = [f EXCEPT !.at = x, !.todo = y]

\* The call's point is set, the rest stays.
LEMMA CallAt ==
    ASSUME NEW f, IsCall(f), NEW x, NEW g, SetAt(f, x, g)
    PROVE  /\ IsCall(g) /\ g.op = f.op /\ g.desc = f.desc
           /\ g.at = x /\ g.todo = f.todo /\ g.uses = f.uses
<1>1. PICK o, a, d, q, u : f = [op |-> o, at |-> a, desc |-> d, todo |-> q, uses |-> u]
  BY DEF IsCall
<1>2. g = [op |-> o, at |-> x, desc |-> d, todo |-> q, uses |-> u]
  BY <1>1 DEF SetAt
<1> QED
  BY <1>1, <1>2 DEF IsCall

\* The call's list is set, the rest stays.
LEMMA CallTodo ==
    ASSUME NEW f, IsCall(f), NEW x, NEW g, SetTodo(f, x, g)
    PROVE  /\ IsCall(g) /\ g.op = f.op /\ g.desc = f.desc
           /\ g.at = f.at /\ g.todo = x /\ g.uses = f.uses
<1>1. PICK o, a, d, q, u : f = [op |-> o, at |-> a, desc |-> d, todo |-> q, uses |-> u]
  BY DEF IsCall
<1>2. g = [op |-> o, at |-> a, desc |-> d, todo |-> x, uses |-> u]
  BY <1>1 DEF SetTodo
<1> QED
  BY <1>1, <1>2 DEF IsCall

\* The call's injected beans are set, the rest stays.
LEMMA CallUses ==
    ASSUME NEW f, IsCall(f), NEW x, NEW g, SetUses(f, x, g)
    PROVE  /\ IsCall(g) /\ g.op = f.op /\ g.desc = f.desc
           /\ g.at = f.at /\ g.todo = f.todo /\ g.uses = x
<1>1. PICK o, a, d, q, u : f = [op |-> o, at |-> a, desc |-> d, todo |-> q, uses |-> u]
  BY DEF IsCall
<1>2. g = [op |-> o, at |-> a, desc |-> d, todo |-> q, uses |-> x]
  BY <1>1 DEF SetUses
<1> QED
  BY <1>1, <1>2 DEF IsCall

\* The call's point and list are set, the rest stays.
LEMMA CallNext ==
    ASSUME NEW f, IsCall(f), NEW x, NEW y, NEW g, SetNext(f, x, y, g)
    PROVE  /\ IsCall(g) /\ g.op = f.op /\ g.desc = f.desc
           /\ g.at = x /\ g.todo = y /\ g.uses = f.uses
<1>1. PICK o, a, d, q, u : f = [op |-> o, at |-> a, desc |-> d, todo |-> q, uses |-> u]
  BY DEF IsCall
<1>2. g = [op |-> o, at |-> x, desc |-> d, todo |-> y, uses |-> u]
  BY <1>1 DEF SetNext
<1> QED
  BY <1>1, <1>2 DEF IsCall

\* The steps that move the innermost call.
GotoSteps ==
    \/ ContextAnnounced \/ BoundAnnounced \/ EagerFound \/ Made \/ DestroyNext \/ StopSweeps \/ BindStep
    \/ (ReleaseAll /\ Top.op # "rollback") \/ \E t, n : ResolveFound(t, n)

\* What becomes of the innermost call.
GoesOn(f) ==
    /\ f.op = Top.op /\ f.desc = Top.desc
    /\ \/ Top.op = "start" /\ Top.at = "context" /\ f.at = "bound" /\ f.todo = Top.todo /\ f.uses = Top.uses
       \/ Top.op = "start" /\ Top.at = "bound" /\ f.at \in {"bound", "eager"} /\ f.uses = Top.uses
       \/ Top.op = "start" /\ Top.at = "eager" /\ f.at = "eager" /\ f.uses = Top.uses
       \/ Top.op = "make" /\ Top.at = "constructor" /\ f.at \in {"constructor", "hooks"}
       \/ Top.op = "bind" /\ Top.at # "listeners" /\ f.at # "insert" /\ f.todo = Top.todo /\ f.uses = Top.uses
       \/ Ending(Top) /\ Top.at = "destroying" /\ f.at \in {"destroying", "released"} /\ f.uses = Top.uses
       \/ Top.op = "stop" /\ Top.at = "released" /\ f.at = "sweeping" /\ f.todo = Top.todo /\ f.uses = Top.uses

\* Each of them moves it to a point of the same call.
LEMMA StepGoesOn ==
    ASSUME CallsInv, GotoSteps
    PROVE  frames # <<>> /\ UNCHANGED <<phase, started, cat>>
           /\ \E f : Goto(f) /\ IsCall(f) /\ PointOK(f) /\ GoesOn(f)
<1>0. frames # <<>> /\ UNCHANGED <<phase, started, cat>>
  BY DEF GotoSteps, ContextAnnounced, BoundAnnounced, EagerFound, Made, DestroyNext, StopSweeps, BindStep,
         ReleaseAll, ResolveFound, In, registry
<1>1. IsCall(Top) /\ PointOK(Top)
  BY <1>0, TopFacts DEF CallOK
<1>2. CASE ContextAnnounced
  <2>1. Goto([Top EXCEPT !.at = "bound"]) /\ Top.op = "start" /\ Top.at = "context"
    BY <1>2 DEF ContextAnnounced, In
  <2>f. PICK f : SetAt(Top, "bound", f)
    BY DEF SetAt
  <2>2. IsCall(f) /\ f.op = Top.op /\ f.at = "bound" /\ f.desc = Top.desc /\ f.todo = Top.todo /\ f.uses = Top.uses
    BY <1>1, <2>f, CallAt
  <2>3. PointOK(f) /\ GoesOn(f)
    BY <2>1, <2>2 DEF PointOK, GoesOn
  <2> QED
    BY <1>0, <2>1, <2>f, <2>2, <2>3 DEF SetAt, SetTodo, SetUses
<1>3. CASE BoundAnnounced
  <2>1. Goto(IF Top.todo # <<>> THEN [Top EXCEPT !.todo = Tail(@)]
             ELSE [Top EXCEPT !.at = "eager", !.todo = Eager]) /\ Top.op = "start" /\ Top.at = "bound"
    BY <1>3 DEF BoundAnnounced, In
  <2>a. CASE Top.todo # <<>>
    <3>f. PICK f : SetTodo(Top, Tail(Top.todo), f)
      BY DEF SetTodo
    <3>2. IsCall(f) /\ f.op = Top.op /\ f.at = Top.at /\ f.desc = Top.desc /\ f.uses = Top.uses
      BY <1>1, <3>f, CallTodo
    <3>3. PointOK(f) /\ GoesOn(f)
      BY <2>1, <3>2 DEF PointOK, GoesOn
    <3> QED
      BY <1>0, <2>1, <2>a, <3>f, <3>2, <3>3 DEF SetTodo
  <2>b. CASE Top.todo = <<>>
    <3>f. PICK f : SetNext(Top, "eager", Eager, f)
      BY DEF SetNext
    <3>2. IsCall(f) /\ f.op = Top.op /\ f.at = "eager" /\ f.desc = Top.desc /\ f.uses = Top.uses
      BY <1>1, <3>f, CallNext
    <3>3. PointOK(f) /\ GoesOn(f)
      BY <2>1, <3>2 DEF PointOK, GoesOn
    <3> QED
      BY <1>0, <2>1, <2>b, <3>f, <3>2, <3>3 DEF SetNext
  <2> QED
    BY <2>a, <2>b
<1>4. CASE EagerFound
  <2>1. Goto([Top EXCEPT !.todo = Tail(Top.todo)]) /\ Top.op = "start" /\ Top.at = "eager"
    BY <1>4 DEF EagerFound, In
  <2>f. PICK f : SetTodo(Top, Tail(Top.todo), f)
    BY DEF SetTodo
  <2>2. IsCall(f) /\ f.op = Top.op /\ f.at = Top.at /\ f.desc = Top.desc /\ f.uses = Top.uses
    BY <1>1, <2>f, CallTodo
  <2>3. PointOK(f) /\ GoesOn(f)
    BY <2>1, <2>2 DEF PointOK, GoesOn
  <2> QED
    BY <1>0, <2>1, <2>f, <2>2, <2>3 DEF SetAt, SetTodo, SetUses
<1>5. CASE Made
  <2>1. Goto([Top EXCEPT !.at = "hooks"]) /\ Top.op = "make" /\ Top.at = "constructor"
    BY <1>5 DEF Made, In
  <2>f. PICK f : SetAt(Top, "hooks", f)
    BY DEF SetAt
  <2>2. IsCall(f) /\ f.op = Top.op /\ f.at = "hooks" /\ f.desc = Top.desc
    BY <1>1, <2>f, CallAt
  <2>3. PointOK(f) /\ GoesOn(f)
    BY <2>1, <2>2 DEF PointOK, GoesOn
  <2> QED
    BY <1>0, <2>1, <2>f, <2>2, <2>3 DEF SetAt, SetTodo, SetUses
<1>6. CASE DestroyNext
  <2>1. Goto([Top EXCEPT !.todo = Tail(Top.todo)]) /\ Top.at = "destroying"
    BY <1>6 DEF DestroyNext
  <2>f. PICK f : SetTodo(Top, Tail(Top.todo), f)
    BY DEF SetTodo
  <2>2. IsCall(f) /\ f.op = Top.op /\ f.at = Top.at /\ f.desc = Top.desc /\ f.uses = Top.uses
    BY <1>1, <2>f, CallTodo
  <2>3. PointOK(f) /\ GoesOn(f)
    BY <1>1, <2>1, <2>2 DEF PointOK, GoesOn, Ending
  <2> QED
    BY <1>0, <2>1, <2>f, <2>2, <2>3 DEF SetAt, SetTodo, SetUses
<1>7. CASE StopSweeps
  <2>1. Goto([Top EXCEPT !.at = "sweeping"]) /\ Top.op = "stop" /\ Top.at = "released"
    BY <1>7 DEF StopSweeps, In
  <2>f. PICK f : SetAt(Top, "sweeping", f)
    BY DEF SetAt
  <2>2. IsCall(f) /\ f.op = Top.op /\ f.at = "sweeping" /\ f.desc = Top.desc /\ f.todo = Top.todo /\
          f.uses = Top.uses
    BY <1>1, <2>f, CallAt
  <2>3. PointOK(f) /\ GoesOn(f)
    BY <2>1, <2>2 DEF PointOK, GoesOn
  <2> QED
    BY <1>0, <2>1, <2>f, <2>2, <2>3 DEF SetAt, SetTodo, SetUses
<1>8. CASE BindStep
  <2>1. PICK n \in 1..(Len(Stages) - 1) : Top.at = Stages[n] /\ Goto([Top EXCEPT !.at = Stages[n + 1]])
    BY <1>8 DEF BindStep
  <2>2. Top.op = "bind"
    BY <1>8 DEF BindStep
  <2>3. Len(Stages) = 7 /\ n \in {1, 2, 3, 4, 5, 6}
    BY <2>1 DEF Stages
  <2>4. /\ Stages[n + 1] \in {"flush", "order", "singles", "heads", "ties", "listeners"}
        /\ Stages[n] # "listeners"
    BY <2>3 DEF Stages
  <2>f. PICK f : SetAt(Top, Stages[n + 1], f)
    BY DEF SetAt
  <2>5. IsCall(f) /\ f.op = Top.op /\ f.at = Stages[n + 1] /\ f.desc = Top.desc /\ f.todo = Top.todo /\
          f.uses = Top.uses
    BY <1>1, <2>f, CallAt
  <2>6. PointOK(f) /\ GoesOn(f)
    BY <2>1, <2>2, <2>4, <2>5 DEF PointOK, GoesOn
  <2> QED
    BY <1>0, <2>1, <2>f, <2>5, <2>6 DEF SetAt, SetTodo, SetUses
<1>9. CASE ReleaseAll /\ Top.op # "rollback"
  <2>1. Goto([Top EXCEPT !.at = "released"]) /\ Top.at = "destroying" /\ Top.op # "rollback"
    BY <1>9 DEF ReleaseAll
  <2>f. PICK f : SetAt(Top, "released", f)
    BY DEF SetAt
  <2>2. IsCall(f) /\ f.op = Top.op /\ f.at = "released" /\ f.desc = Top.desc /\ f.uses = Top.uses
    BY <1>1, <2>f, CallAt
  <2>3. PointOK(f) /\ GoesOn(f)
    BY <1>1, <2>1, <2>2 DEF PointOK, GoesOn, Ending
  <2> QED
    BY <1>0, <2>1, <2>f, <2>2, <2>3 DEF SetAt, SetTodo, SetUses
<1>10. ASSUME NEW t, NEW n, ResolveFound(t, n) PROVE \E f : Goto(f) /\ IsCall(f) /\ PointOK(f) /\ GoesOn(f)
  <2>1. PICK x : Goto([Top EXCEPT !.uses = x]) /\ Top.op = "make" /\ Top.at = "constructor"
    BY <1>10 DEF ResolveFound, In
  <2>f. PICK f : SetUses(Top, x, f)
    BY DEF SetUses
  <2>2. IsCall(f) /\ f.op = Top.op /\ f.at = Top.at /\ f.desc = Top.desc
    BY <1>1, <2>f, CallUses
  <2>3. PointOK(f) /\ GoesOn(f)
    BY <2>1, <2>2 DEF PointOK, GoesOn
  <2> QED
    BY <2>1, <2>f, <2>2, <2>3 DEF SetUses
<1> QED
  BY <1>0, <1>2, <1>3, <1>4, <1>5, <1>6, <1>7, <1>8, <1>9, <1>10 DEF GotoSteps

\* The steps that make a call.
PushSteps ==
    \/ StartMerged \/ StartAgain \/ EagerClaim \/ (Stop /\ started) \/ ExitUnstopped
    \/ (\E t, n : ResolveClaim(t, n)) \/ (\E k : BindLate(k))

\* The call that is made.
Comes(f) ==
    /\ f.uses = {}
    /\ \/ f.op = "start" /\ f.at = "context" /\ frames = <<>> /\ started' /\ ~started
       \/ f.op = "make" /\ f.at = "constructor" /\ started /\ started'
       \/ f.op = "bind" /\ f.at = "insert" /\ started /\ started'
       \/ f.op \in {"stop", "exit"} /\ f.at = "destroying" /\ frames = <<>> /\ ~started' /\ started
          /\ f.todo = DestructionOrder

\* User code runs in no call that ends the use of the context.
LEMMA UserIsOpen ==
    ASSUME CallsInv, UserCode \/ Idle \/ In("start", "eager")
    PROVE  Open
<1>1. CASE frames = <<>>
  BY <1>1 DEF Open
<1>2. CASE frames # <<>>
  <2>1. PointOK(Top)
    BY <1>2, TopFacts DEF CallOK
  <2> QED
    BY <1>2, <2>1 DEF UserCode, Idle, In, Open, Ending, PointOK
<1> QED
  BY <1>1, <1>2

\* start() makes eager beans in a context that is up.
LEMMA EagerIsLive ==
    ASSUME CallsInv, In("start", "eager")
    PROVE  phase = "live" /\ started
<1>1. frames # <<>> /\ Top.op = "start"
  BY DEF In
<1>2. CallOK(Top, Len(frames), Len(frames), started)
  BY <1>1, TopFacts
<1> QED
  BY <1>1, <1>2 DEF CallsInv, CallOK, Ending

\* Each step that makes a call makes one that fits below the others.
LEMMA StepPushes ==
    ASSUME CallsInv, PushSteps
    PROVE  /\ Open /\ phase = "live" /\ UNCHANGED <<phase, cat>>
           /\ \E f : Push(f) /\ IsCall(f) /\ PointOK(f) /\ Comes(f)
<1>1. CASE StartMerged
  <2>1. PICK q : Push(Call("start", "context", NoDesc, q))
    BY <1>1 DEF StartMerged
  <2>2. Idle /\ ~started /\ started' /\ UNCHANGED <<phase, cat>>
    BY <1>1 DEF StartMerged
  <2>3. PICK f : f = Call("start", "context", NoDesc, q)
    OBVIOUS
  <2>4. IsCall(f) /\ f.op = "start" /\ f.at = "context" /\ f.uses = {}
    BY <2>3, CallIs
  <2>5. PointOK(f) /\ Comes(f)
    BY <2>2, <2>4 DEF PointOK, Comes, Idle
  <2> QED
    BY <2>1, <2>2, <2>3, <2>4, <2>5, UserIsOpen DEF Idle
<1>2. CASE StartAgain
  <2>1. PICK q : Push(Call("start", "context", NoDesc, q))
    BY <1>2 DEF StartAgain
  <2>2. Idle /\ ~started /\ started' /\ UNCHANGED <<phase, cat>>
    BY <1>2 DEF StartAgain
  <2>3. PICK f : f = Call("start", "context", NoDesc, q)
    OBVIOUS
  <2>4. IsCall(f) /\ f.op = "start" /\ f.at = "context" /\ f.uses = {}
    BY <2>3, CallIs
  <2>5. PointOK(f) /\ Comes(f)
    BY <2>2, <2>4 DEF PointOK, Comes, Idle
  <2> QED
    BY <2>1, <2>2, <2>3, <2>4, <2>5, UserIsOpen DEF Idle
<1>3. CASE EagerClaim
  <2>1. PICK d, q : Push(Call("make", "constructor", d, q))
    BY <1>3 DEF EagerClaim
  <2>2. In("start", "eager") /\ UNCHANGED <<phase, cat, started>>
    BY <1>3 DEF EagerClaim
  <2>3. PICK f : f = Call("make", "constructor", d, q)
    OBVIOUS
  <2>4. IsCall(f) /\ f.op = "make" /\ f.at = "constructor" /\ f.uses = {}
    BY <2>3, CallIs
  <2>a. phase = "live" /\ started
    BY <2>2, EagerIsLive
  <2>5. PointOK(f) /\ Comes(f)
    BY <2>2, <2>4, <2>a DEF PointOK, Comes
  <2> QED
    BY <2>1, <2>2, <2>3, <2>4, <2>5, <2>a, UserIsOpen
<1>4. CASE Stop /\ started
  <2>1. Push(Call("stop", "destroying", NoDesc, DestructionOrder))
    BY <1>4 DEF Stop
  <2>2. Idle /\ started /\ ~started' /\ UNCHANGED <<phase, cat>>
    BY <1>4 DEF Stop
  <2>3. PICK f : f = Call("stop", "destroying", NoDesc, DestructionOrder)
    OBVIOUS
  <2>4. IsCall(f) /\ f.op = "stop" /\ f.at = "destroying" /\ f.uses = {} /\ f.todo = DestructionOrder
    BY <2>3, CallIs
  <2>5. PointOK(f) /\ Comes(f)
    BY <2>2, <2>4 DEF PointOK, Comes, Idle
  <2> QED
    BY <2>1, <2>2, <2>3, <2>4, <2>5, UserIsOpen DEF Idle
<1>5. CASE ExitUnstopped
  <2>1. Push(Call("exit", "destroying", NoDesc, DestructionOrder))
    BY <1>5 DEF ExitUnstopped
  <2>2. Idle /\ started /\ ~started' /\ UNCHANGED <<phase, cat>>
    BY <1>5 DEF ExitUnstopped
  <2>3. PICK f : f = Call("exit", "destroying", NoDesc, DestructionOrder)
    OBVIOUS
  <2>4. IsCall(f) /\ f.op = "exit" /\ f.at = "destroying" /\ f.uses = {} /\ f.todo = DestructionOrder
    BY <2>3, CallIs
  <2>5. PointOK(f) /\ Comes(f)
    BY <2>2, <2>4 DEF PointOK, Comes, Idle
  <2> QED
    BY <2>1, <2>2, <2>3, <2>4, <2>5, UserIsOpen DEF Idle
<1>6. CASE \E t, n : ResolveClaim(t, n)
  <2>1. PICK d, q : Push(Call("make", "constructor", d, q))
    BY <1>6 DEF ResolveClaim
  <2>2. UserCode /\ started /\ UNCHANGED <<phase, cat, started>>
    BY <1>6 DEF ResolveClaim
  <2>3. PICK f : f = Call("make", "constructor", d, q)
    OBVIOUS
  <2>4. IsCall(f) /\ f.op = "make" /\ f.at = "constructor" /\ f.uses = {}
    BY <2>3, CallIs
  <2>5. PointOK(f) /\ Comes(f)
    BY <2>2, <2>4 DEF PointOK, Comes
  <2> QED
    BY <2>1, <2>2, <2>3, <2>4, <2>5, UserIsOpen DEF UserCode
<1>7. CASE \E k : BindLate(k)
  <2>1. PICK d, q : Push(Call("bind", "insert", d, q))
    BY <1>7 DEF BindLate
  <2>2. UserCode /\ started /\ UNCHANGED <<phase, cat, started>>
    BY <1>7 DEF BindLate
  <2>3. PICK f : f = Call("bind", "insert", d, q)
    OBVIOUS
  <2>4. IsCall(f) /\ f.op = "bind" /\ f.at = "insert" /\ f.uses = {}
    BY <2>3, CallIs
  <2>5. PointOK(f) /\ Comes(f)
    BY <2>2, <2>4 DEF PointOK, Comes
  <2> QED
    BY <2>1, <2>2, <2>3, <2>4, <2>5, UserIsOpen DEF UserCode
<1> QED
  BY <1>1, <1>2, <1>3, <1>4, <1>5, <1>6, <1>7 DEF PushSteps

\* The steps that return, all but the end of stop().
EarlyReturns == StartDone \/ MakeThrows \/ BindDone \/ (ReleaseAll /\ Top.op = "rollback")
ReturnSteps == EarlyReturns \/ Stopped

\* They return and change nothing else of the calls.
LEMMA StepReturns ==
    ASSUME CallsInv, ReturnSteps
    PROVE  /\ frames # <<>> /\ Return /\ started' = started /\ cat' = cat
           /\ phase' = phase \/ (Ending(Top) /\ Stopped)
BY DEF ReturnSteps, EarlyReturns, StartDone, MakeThrows, Stopped, BindDone, ReleaseAll, In, Ending

\* The steps that do more to the calls than push, move or return one.
LEMMA RestOfCalls ==
    ASSUME CallsInv, MadeReturns \/ StartThrows \/ DestroyRegistry \/ (Stop /\ ~started)
    PROVE  CallsInv'
<1>1. CASE MadeReturns
  <2>0. frames # <<>> /\ UNCHANGED <<phase, started, cat>> /\ In("make", "hooks")
    BY <1>1 DEF MadeReturns, In
  <2>1. /\ Len(frames) \in Nat \ {0} /\ Depth = Len(frames) /\ Top = frames[Len(frames)]
        /\ phase = "live"
    BY <2>0, TopFacts DEF CallsInv
  <2>2. frames' = [n \in 1..(Len(frames) - 1) |->
            IF n = Len(frames) - 1 /\ frames[n].at = "constructor"
            THEN [frames[n] EXCEPT !.uses = @ \union {Find(Top.desc)}] ELSE frames[n]]
    BY <1>1, <2>1 DEF MadeReturns
  <2>3. Len(frames) - 1 \in Nat
    BY <2>1
  <2>4. \A n \in 1..(Len(frames) - 1) : frames'[n] =
            IF n = Len(frames) - 1 /\ frames[n].at = "constructor"
            THEN [frames[n] EXCEPT !.uses = @ \union {Find(Top.desc)}] ELSE frames[n]
    BY <2>2
  <2>5. frames' = [n \in 1..(Len(frames) - 1) |-> frames'[n]]
    BY <2>2
  <2>6. IsSeq(frames') /\ Len(frames') = Len(frames) - 1
    BY <2>3, <2>5, DomIsSeq
  <2>7. ASSUME NEW n \in 1..Len(frames') PROVE CallOK(frames'[n], n, Len(frames'), started')
    <3>1. n \in 1..(Len(frames) - 1) /\ n \in 1..Len(frames) /\ Len(frames) # 1
      BY <2>1, <2>6
    <3>2. CallOK(frames[n], n, Len(frames), started)
      BY <3>1 DEF CallsInv
    <3>3. ~Ending(frames[n])
      BY <3>1, <3>2 DEF CallOK
    <3>4. CASE frames'[n] = frames[n]
      BY <2>0, <3>2, <3>3, <3>4 DEF CallOK
    <3>5. CASE frames'[n] # frames[n]
      <4>1. PICK x : SetUses(frames[n], x, frames'[n])
        BY <2>4, <3>1, <3>5 DEF SetUses
      <4>2. IsCall(frames[n]) /\ PointOK(frames[n])
        BY <3>2 DEF CallOK
      <4>3. IsCall(frames'[n]) /\ frames'[n].op = frames[n].op /\ frames'[n].at = frames[n].at
        BY <4>1, <4>2, CallUses
      <4>4. PointOK(frames'[n])
        BY <4>2, <4>3 DEF PointOK
      <4> QED
        BY <2>0, <3>2, <3>3, <4>3, <4>4 DEF CallOK, Ending
    <3> QED
      BY <3>4, <3>5
  <2> QED
    BY <2>0, <2>1, <2>6, <2>7 DEF CallsInv
<1>2. CASE StartThrows
  <2>0. /\ frames' = <<Call("rollback", "destroying", NoDesc, DestructionOrder)>>
        /\ ~started' /\ UNCHANGED <<phase, cat>> /\ frames # <<>>
    BY <1>2 DEF StartThrows, In
  <2>1. PICK f : f = Call("rollback", "destroying", NoDesc, DestructionOrder)
    OBVIOUS
  <2>2. IsCall(f) /\ f.op = "rollback" /\ f.at = "destroying"
    BY <2>1, CallIs
  <2>3. frames' = <<f>> /\ <<f>> \in Seq({f}) /\ Len(<<f>>) = 1 /\ <<f>>[1] = f
    BY <2>0, <2>1
  <2>4. IsSeq(frames') /\ Len(frames') = 1 /\ frames'[1] = f
    BY <2>3 DEF IsSeq
  <2>5. CallOK(f, 1, 1, started')
    BY <2>0, <2>2 DEF CallOK, Ending, PointOK
  <2>6. \A n \in 1..1 : n = 1
    OBVIOUS
  <2> QED
    BY <2>0, <2>4, <2>5, <2>6 DEF CallsInv
<1>3. CASE DestroyRegistry
  <2>1. frames' = <<>> /\ cat' = cat /\ started' = started /\ phase' = "dead"
    BY <1>3 DEF DestroyRegistry
  <2>2. ~started
    <3>1. CASE phase = "stopped"
      BY <3>1 DEF CallsInv
    <3>2. CASE In("exit", "released")
      <4>1. CallOK(Top, Len(frames), Len(frames), started) /\ Ending(Top)
        BY <3>2, TopFacts DEF In, Ending
      <4> QED
        BY <4>1 DEF CallOK
    <3> QED
      BY <1>3, <3>1, <3>2 DEF DestroyRegistry
  <2>3. <<>> \in Seq({}) /\ Len(<<>>) = 0
    OBVIOUS
  <2> QED
    BY <2>1, <2>2, <2>3 DEF CallsInv, IsSeq
<1>4. CASE Stop /\ ~started
  <2>1. frames' = frames /\ cat' = cat /\ ~started' /\ frames = <<>>
    BY <1>4 DEF Stop, Idle
  <2>3. <<>> \in Seq({}) /\ Len(<<>>) = 0
    OBVIOUS
  <2> QED
    BY <2>1, <2>3 DEF CallsInv, IsSeq
<1> QED
  BY <1>1, <1>2, <1>3, <1>4

\* Every step of the registry is one of those above.
RegistrySteps == Claims \/ Others \/ StopSweeps \/ DestroyRegistry

\* The steps of QuietCalls.
QuietSteps ==
    \/ (\E s : Discover(s)) \/ (\E k : BindEarly(k)) \/ StartRejected
    \/ (\E t, n : ResolveUnbuilt(t, n)) \/ (\E c, t, n : SetDefault(c, t, n) \/ ClearDefault(c, t))
    \/ (\E t, n : LookBegin(t, n)) \/ LookSteps

\* Every step of the registry is of one of these kinds.
LEMMA StepsSorted ==
    ASSUME RegistrySteps
    PROVE  \/ QuietSteps \/ GotoSteps \/ PushSteps \/ EarlyReturns
           \/ MadeReturns \/ StartThrows \/ DestroyRegistry \/ (Stop /\ ~started)
<1>1. CASE Claims
  BY <1>1, Zenon DEF Claims, PushSteps
<1>2. CASE Others
  <2>1. CASE (\E s \in cat.spans : Discover(s)) \/ (\E k \in cat.binds : BindEarly(k)) \/ StartRejected
    BY <2>1, Zenon DEF QuietSteps
  <2>2. CASE (\E k \in cat.binds : BindLate(k)) \/ StartMerged \/ StartAgain \/ ExitUnstopped
    BY <2>2, Zenon DEF PushSteps
  <2>3. CASE ContextAnnounced \/ BoundAnnounced \/ EagerFound \/ Made \/ DestroyNext \/ BindStep
    BY <2>3, Zenon DEF GotoSteps
  <2>4. CASE StartDone \/ MakeThrows \/ BindDone
    BY <2>4, Zenon DEF EarlyReturns
  <2>5. CASE MadeReturns \/ StartThrows
    BY <2>5, Zenon
  <2>6. CASE Stop
    BY <2>6, Zenon DEF PushSteps
  <2>7. CASE ReleaseAll
    BY <2>7, Zenon DEF EarlyReturns, GotoSteps
  <2>8. CASE \E q \in cat.asks : ResolveFound(q.type, q.name) \/ ResolveUnbuilt(q.type, q.name)
    BY <2>8, Zenon DEF GotoSteps, QuietSteps
  <2>9. CASE \E q \in cat.defaults, scoped \in BOOLEAN : SetDefault(scoped, q.type, q.name) \/
          ClearDefault(scoped, q.type)
    BY <2>9, Zenon DEF QuietSteps
  <2>10. CASE (\E q \in cat.looks : LookBegin(q.type, q.name)) \/ LookSteps
    BY <2>10, Zenon DEF QuietSteps
  <2> QED
    BY <1>2, <2>1, <2>2, <2>3, <2>4, <2>5, <2>6, <2>7, <2>8, <2>9, <2>10, Zenon DEF Others, LookSteps
<1>3. CASE StopSweeps
  BY <1>3, Zenon DEF GotoSteps
<1> QED
  BY <1>1, <1>2, <1>3, Zenon DEF RegistrySteps

\* stop() destroys the thread-local instances it has collected.
Sweeping == In("stop", "sweeping")

\* The calls stay well formed.
LEMMA CallsStep ==
    ASSUME CallsInv, RegistrySteps \/ Stopped
    PROVE  CallsInv'
<1>1. CASE QuietSteps
  BY <1>1, QuietCalls, CallsSame DEF QuietSteps
<1>2. CASE GotoSteps
  <2>1. frames # <<>> /\ UNCHANGED <<phase, started, cat>>
    BY <1>2, StepGoesOn
  <2>2. PICK f : Goto(f) /\ IsCall(f) /\ PointOK(f) /\ GoesOn(f)
    BY <1>2, StepGoesOn
  <2>3. f.op = Top.op
    BY <2>2 DEF GoesOn
  <2> QED
    BY <2>1, <2>2, <2>3, CallsGoto
<1>3. CASE PushSteps
  <2>1. Open /\ phase = "live" /\ UNCHANGED <<phase, cat>>
    BY <1>3, StepPushes
  <2>2. PICK f : Push(f) /\ IsCall(f) /\ PointOK(f) /\ Comes(f)
    BY <1>3, StepPushes
  <2>3. /\ Ending(f) => frames = <<>> /\ ~started'
        /\ ~Ending(f) => started'
        /\ f.op = "start" => frames = <<>>
        /\ frames # <<>> => started'
    BY <2>2 DEF Comes, Ending
  <2> QED
    BY <2>1, <2>2, <2>3, CallsPush
<1>4. CASE ReturnSteps
  BY <1>4, StepReturns, CallsReturn
<1>5. CASE MadeReturns \/ StartThrows \/ DestroyRegistry \/ (Stop /\ ~started)
  BY <1>5, RestOfCalls
<1> QED
  BY <1>1, <1>2, <1>3, <1>4, <1>5, StepsSorted DEF ReturnSteps

\* Only stop() itself ends its sweep.
LEMMA SweepGoesOn ==
    ASSUME CallsInv, RegistrySteps, Sweeping
    PROVE  Sweeping'
<1>0. frames # <<>> /\ Top.op = "stop" /\ Top.at = "sweeping" /\ Ending(Top)
  BY DEF Sweeping, In, Ending
<1>1. CASE QuietSteps
  BY <1>1, QuietCalls DEF QuietSteps, Sweeping, In, Top, Depth
<1>2. CASE GotoSteps
  <2>2. PICK f : Goto(f) /\ IsCall(f) /\ PointOK(f) /\ GoesOn(f)
    BY <1>2, StepGoesOn
  <2> QED
    BY <1>0, <2>2 DEF GoesOn
<1>3. CASE PushSteps
  BY <1>0, <1>3, StepPushes DEF Open
<1>4. CASE EarlyReturns
  BY <1>0, <1>4 DEF EarlyReturns, StartDone, MakeThrows, BindDone, ReleaseAll, In
<1>5. CASE MadeReturns \/ StartThrows \/ DestroyRegistry \/ (Stop /\ ~started)
  <2>1. phase # "stopped"
    BY <1>0 DEF CallsInv
  <2>2. CASE StartThrows
    <3>1. CallOK(Top, Len(frames), Len(frames), started)
      BY <1>0, TopFacts
    <3> QED
      BY <1>0, <2>2, <3>1 DEF StartThrows, In
  <2> QED
    BY <1>0, <1>5, <2>1, <2>2 DEF MadeReturns, DestroyRegistry, Stop, Idle, In
<1> QED
  BY <1>1, <1>2, <1>3, <1>4, <1>5, StepsSorted

\* A registry that is gone stays so, and only RegistryEnds destroys it.
LEMMA DeadStays ==
    ASSUME CallsInv, RegistrySteps \/ Stopped
    PROVE  phase = "dead" => phase' = "dead"
<1>1. CASE QuietSteps
  BY <1>1, QuietCalls DEF QuietSteps
<1>2. CASE GotoSteps
  BY <1>2, StepGoesOn
<1>3. CASE PushSteps
  BY <1>3, StepPushes
<1>4. CASE ReturnSteps
  BY <1>4, StepReturns DEF CallsInv
<1>5. CASE MadeReturns \/ StartThrows \/ DestroyRegistry \/ (Stop /\ ~started)
  BY <1>5 DEF MadeReturns, StartThrows, DestroyRegistry, Stop, Idle
<1> QED
  BY <1>1, <1>2, <1>3, <1>4, <1>5, StepsSorted DEF ReturnSteps

\* The same for the steps of registry and threads together.
LEMMA CallsNext ==
    ASSUME CallsInv, Next
    PROVE  CallsInv' /\ (phase = "dead" => phase' = "dead") /\ (Sweeping => Sweeping' \/ StopReturns)
<1>1. CASE ClaimByOwner \/ OwnerAlone \/ StopCollects \/ RegistryEnds
  <2>1. RegistrySteps
    BY <1>1 DEF RegistrySteps, ClaimByOwner, OwnerAlone, StopCollects, RegistryEnds
  <2> QED
    BY <2>1, CallsStep, DeadStays, SweepGoesOn
<1>2. CASE StopReturns
  <2>1. Stopped
    BY <1>2 DEF StopReturns
  <2> QED
    BY <1>2, <2>1, CallsStep, DeadStays
<1>3. CASE \/ SweepStep
           \/ \E t \in Threads : ClaimByOther(t) \/ OtherThread(t)
           \/ \E t \in Threads, b \in Beans : TouchLocal(t, b)
  <2>1. UNCHANGED vars
    BY <1>3 DEF SweepStep, ClaimByOther, OtherThread, TouchLocal
  <2>2. UNCHANGED <<frames, phase, started, cat>>
    BY <2>1 DEF vars
  <2> QED
    BY <2>2, CallsSame DEF Sweeping, In, Top, Depth
<1> QED
  BY <1>1, <1>2, <1>3 DEF Next

-----------------------------------------------------------------------------
(* The thread-local instances.                                             *)

\* The types of the thread-local part.
ThreadStates == {"new", "running", "exiting", "cleaning", "gone"}
Objects == {<<>>, <<"data">>, <<"cleanup">>, <<"data", "cleanup">>, <<"cleanup", "data">>}
Instance == [bean : Beans, thread : Threads, life : {"made", "destroyed"}, listed : BOOLEAN]

\* Each variable of the thread-local part has its type.
LocalTypes ==
    /\ thread \in [Threads -> [state : ThreadStates, made : Objects]]
    /\ registered \in SUBSET Threads
    /\ stores \in Seq(Threads)
    /\ local \in Seq(Instance)
    /\ order \in [Threads -> Seq(1..Len(local))]
    /\ todo \in [Threads -> Seq(1..Len(local))]

\* What a thread finds.
OrderOwn ==
    \A t \in Threads :
        /\ Once(order[t])
        /\ \A e : Holds(order[t], e) => local[e].thread = t /\ local[e].life = "made"
        /\ \A e, f : Holds(order[t], e) /\ Holds(order[t], f) /\ local[e].bean = local[f].bean => e = f

\* What is about to be destroyed.
TodoOwn ==
    \A t \in Threads :
        /\ Once(todo[t])
        /\ \A e : Holds(todo[t], e) => local[e].life = "made"
        /\ \A u \in Threads : \A e : Holds(todo[t], e) /\ Holds(todo[u], e) => t = u
        /\ \A u \in Threads : \A e : ~(Holds(todo[t], e) /\ Holds(order[u], e))

\* Which thread_local objects the thread has made.
HasData(m) == m \in {<<"data">>, <<"data", "cleanup">>, <<"cleanup", "data">>}
HasCleanup(m) == m \in {<<"cleanup">>, <<"data", "cleanup">>, <<"cleanup", "data">>}

\* What a thread is at; on: it is listed, reg: its TLCleanup knows of the registry,
\* sweeps: it is stop() that destroys on it.
ThreadOK(s, m, o, q, on, reg, sweeps) ==
    /\ on => reg
    /\ HasCleanup(m) => reg
    /\ m \in {<<"cleanup">>, <<"cleanup", "data">>} => ~on
    /\ s \in {"new", "running"} => m # <<"data">> /\ (m = <<>> => ~on)
    /\ s = "cleaning" => m \in {<<"cleanup">>, <<"data", "cleanup">>}
    /\ o # <<>> => HasData(m)
    /\ q # <<>> => sweeps \/ s = "cleaning"
    /\ s = "cleaning" /\ q # <<>> => ~on /\ m = <<"data", "cleanup">>

\* The invariant of the threads: ThreadOK of each, with the registry's list.
ThreadsOK ==
    /\ Once(stores)
    /\ thread[Main].state = "running"
    /\ \A t \in Threads :
        ThreadOK(thread[t].state, thread[t].made, order[t], todo[t], Holds(stores, t),
                 t \in registered, t = Main /\ Sweeping)

\* A thread past ~TLCleanup has nothing left that stop() would sweep.
ExitOK(s, m, o, on) ==
    s = "cleaning" \/ (s = "exiting" /\ m = <<"data">>) => o = <<>> \/ ~on

\* The same of every thread, while there is a registry.
ExitsOK == \A t \in Threads : ExitOK(thread[t].state, thread[t].made, order[t], Holds(stores, t))

\* LocalsDestroyed, without the count: an instance of a listed thread is with the
\* thread or about to be destroyed.
ListedKept ==
    \A i \in 1..Len(local) : local[i].life = "made" /\ local[i].listed =>
        \/ Holds(order[local[i].thread], i) /\ Holds(stores, local[i].thread)
        \/ \E t \in Threads : Holds(todo[t], i)

\* The inductive invariant.  LocalIsOwn and LocalsDestroyed alone are not inductive:
\* what a thread that exits has left depends on the order in which it made its
\* thread_local objects (ThreadOK) and on how far its exit has come (ExitOK).
LocalInv ==
    /\ LocalTypes /\ OrderOwn /\ TodoOwn /\ ThreadsOK
    /\ phase # "dead" => ExitsOK /\ ListedKept

\* The empty sequence.
LEMMA HoldsNone ==
    /\ \A e : ~Holds(<<>>, e)
    /\ Once(<<>>)
BY DEF Holds, Once

\* What a sequence holds is of its type.
LEMMA HoldsIn ==
    ASSUME NEW S, NEW s \in Seq(S), NEW e, Holds(s, e)
    PROVE  e \in S /\ s # <<>>
<1>1. PICK m \in 1..Len(s) : s[m] = e
  BY DEF Holds
<1> QED
  BY <1>1

\* StoreInstance, and the registration of a thread.
LEMMA HoldsAppend ==
    ASSUME NEW S, NEW s \in Seq(S), NEW e
    PROVE  /\ \A x : Holds(Append(s, e), x) <=> (Holds(s, x) \/ x = e)
           /\ Once(s) /\ ~Holds(s, e) => Once(Append(s, e))
           /\ Append(s, e) # <<>>
<1>1. PICK r : r = Append(s, e)
  OBVIOUS
<1>2. /\ Len(s) \in Nat /\ Len(r) = Len(s) + 1 /\ r[Len(s) + 1] = e
      /\ \A n \in 1..Len(s) : r[n] = s[n]
  BY <1>1
<1>3. \A n \in 1..Len(r) : n \in 1..Len(s) \/ n = Len(s) + 1
  BY <1>2
<1>4. \A n \in 1..Len(s) : n \in 1..Len(r)
  BY <1>2
<1>5. Len(s) + 1 \in 1..Len(r)
  BY <1>2
<1>6. \A x : Holds(r, x) <=> (Holds(s, x) \/ x = e)
  BY <1>2, <1>3, <1>4, <1>5 DEF Holds
<1>7. Once(s) /\ ~Holds(s, e) => Once(r)
  BY <1>2, <1>3, <1>4, <1>5 DEF Holds, Once
<1>8. r # <<>>
  BY <1>2
<1> QED
  BY <1>1, <1>6, <1>7, <1>8

\* The next instance to destroy is taken off the list.
LEMMA HoldsTail ==
    ASSUME NEW S, NEW s \in Seq(S), s # <<>>, Once(s)
    PROVE  /\ Tail(s) \in Seq(S) /\ Head(s) \in S /\ Holds(s, Head(s))
           /\ \A x : Holds(Tail(s), x) <=> (Holds(s, x) /\ x # Head(s))
           /\ Once(Tail(s))
<1>1. PICK r, h : r = Tail(s) /\ h = Head(s)
  OBVIOUS
<1>2. /\ Len(s) \in Nat \ {0} /\ r \in Seq(S) /\ Len(r) = Len(s) - 1 /\ h = s[1]
      /\ \A n \in 1..(Len(s) - 1) : r[n] = s[n + 1]
  BY <1>1
<1>3. 1 \in 1..Len(s) /\ Holds(s, h) /\ h \in S
  <2>1. 1 \in 1..Len(s)
    BY <1>2
  <2> QED
    BY <1>2, <2>1 DEF Holds
<1>4. \A n \in 1..Len(r) : n + 1 \in 1..Len(s) /\ n + 1 # 1 /\ r[n] = s[n + 1]
  BY <1>2
<1>5. \A n \in 1..Len(s) : n # 1 => n - 1 \in 1..Len(r) /\ (n - 1) + 1 = n
  BY <1>2
<1>6. ASSUME NEW x PROVE Holds(r, x) <=> (Holds(s, x) /\ x # h)
  <2>1. ASSUME Holds(r, x) PROVE Holds(s, x) /\ x # h
    <3>1. PICK n \in 1..Len(r) : r[n] = x
      BY <2>1 DEF Holds
    <3>2. n + 1 \in 1..Len(s) /\ n + 1 # 1 /\ s[n + 1] = x
      BY <1>4, <3>1
    <3> QED
      BY <1>2, <1>3, <3>2 DEF Holds, Once
  <2>2. ASSUME Holds(s, x), x # h PROVE Holds(r, x)
    <3>1. PICK n \in 1..Len(s) : s[n] = x
      BY <2>2 DEF Holds
    <3>2. n # 1
      BY <1>2, <2>2, <3>1
    <3>3. n - 1 \in 1..Len(r) /\ r[n - 1] = s[n]
      BY <1>4, <1>5, <3>2
    <3> QED
      BY <3>1, <3>3 DEF Holds
  <2> QED
    BY <2>1, <2>2
<1>7. Once(r)
  <2> SUFFICES ASSUME NEW m \in 1..Len(r), NEW n \in 1..Len(r), r[m] = r[n] PROVE m = n
    BY DEF Once
  <2>1. m + 1 = n + 1
    BY <1>4 DEF Once
  <2> QED
    BY <1>2, <2>1
<1> QED
  BY <1>1, <1>2, <1>3, <1>6, <1>7

\* Newest first.
LEMMA HoldsReverse ==
    ASSUME NEW S, NEW s \in Seq(S)
    PROVE  /\ TL!Reverse(s) \in Seq(S)
           /\ \A x : Holds(TL!Reverse(s), x) <=> Holds(s, x)
           /\ Once(s) => Once(TL!Reverse(s))
<1>1. PICK r : r = TL!Reverse(s)
  OBVIOUS
<1>2. r = [i \in 1..Len(s) |-> s[(Len(s) - i) + 1]] /\ Len(s) \in Nat
  BY <1>1 DEF TL!Reverse
<1>3. \A i \in 1..Len(s) : (Len(s) - i) + 1 \in 1..Len(s) /\ (Len(s) - ((Len(s) - i) + 1)) + 1 = i
  BY <1>2
<1>4. r \in Seq(S) /\ Len(r) = Len(s)
  <2>1. \A i \in 1..Len(s) : r[i] \in S
    BY <1>2, <1>3
  <2>2. r \in [1..Len(s) -> S]
    BY <1>2, <2>1
  <2> QED
    BY <1>2, <2>2
<1>5. \A i \in 1..Len(s) : r[i] = s[(Len(s) - i) + 1]
  BY <1>2
<1>6. ASSUME NEW x PROVE Holds(r, x) <=> Holds(s, x)
  <2>1. ASSUME Holds(r, x) PROVE Holds(s, x)
    BY <1>3, <1>4, <1>5, <2>1 DEF Holds
  <2>2. ASSUME Holds(s, x) PROVE Holds(r, x)
    <3>1. PICK n \in 1..Len(s) : s[n] = x
      BY <2>2 DEF Holds
    <3>2. PICK i \in 1..Len(s) : i = (Len(s) - n) + 1 /\ (Len(s) - i) + 1 = n
      BY <1>3
    <3>3. r[i] = x
      BY <1>5, <3>1, <3>2
    <3> QED
      BY <1>4, <3>3 DEF Holds
  <2> QED
    BY <2>1, <2>2
<1>7. ASSUME Once(s) PROVE Once(r)
  <2> SUFFICES ASSUME NEW m \in 1..Len(r), NEW n \in 1..Len(r), r[m] = r[n] PROVE m = n
    BY DEF Once
  <2>1. (Len(s) - m) + 1 = (Len(s) - n) + 1
    BY <1>3, <1>4, <1>5, <1>7 DEF Once
  <2> QED
    BY <1>2, <1>4, <2>1
<1> QED
  BY <1>1, <1>4, <1>6, <1>7

\* s without t, as CleanupCurrentThread computes it.
Removed(s, t, r) == r = TL!FlattenSeq([n \in 1..Len(s) |-> IF s[n] = t THEN <<>> ELSE <<s[n]>>])

\* std::remove of a thread from the list.
LEMMA HoldsRemoved ==
    ASSUME NEW S, NEW s \in Seq(S), NEW t, NEW r, Once(s), Removed(s, t, r)
    PROVE  /\ r \in Seq(S) /\ Once(r)
           /\ \A x : Holds(r, x) <=> (Holds(s, x) /\ x # t)
<1>1. PICK q : q = [n \in 1..Len(s) |-> IF s[n] = t THEN <<>> ELSE <<s[n]>>]
  OBVIOUS
<1>2. Len(s) \in Nat /\ \A n \in 1..Len(s) : q[n] = IF s[n] = t THEN <<>> ELSE <<s[n]>>
  BY <1>1
<1>3. \A n \in 1..Len(s) : q[n] \in Seq(S)
  <2>1. <<>> \in Seq(S) /\ \A y \in S : <<y>> \in Seq(S)
    OBVIOUS
  <2>2. \A n \in 1..Len(s) : s[n] \in S
    OBVIOUS
  <2> QED
    BY <1>2, <2>1, <2>2
<1>4. q \in Seq(Seq(S)) /\ Len(q) = Len(s)
  <2>1. q \in [1..Len(s) -> Seq(S)]
    BY <1>1, <1>3
  <2> QED
    BY <1>2, <2>1
<1>5. Gathers(r, S, q, Len(q))
  BY <1>1, <1>4, FlattenGathers DEF Removed
<1>6. \A y : \A x : Holds(<<y>>, x) <=> (x = y)
  <2> TAKE y
  <2> TAKE x
  <2>1. Len(<<y>>) = 1 /\ <<y>>[1] = y /\ 1..1 = {1}
    OBVIOUS
  <2> QED
    BY <2>1 DEF Holds
<1>7. \A n \in 1..Len(q) : \A x : Holds(q[n], x) <=> (s[n] = x /\ x # t)
  <2> TAKE n \in 1..Len(q)
  <2> TAKE x
  <2>1. CASE s[n] = t
    <3>1. q[n] = <<>>
      BY <1>2, <1>4, <2>1
    <3> QED
      BY <2>1, <3>1, HoldsNone
  <2>2. CASE s[n] # t
    <3>1. q[n] = <<s[n]>>
      BY <1>2, <1>4, <2>2
    <3> QED
      BY <2>2, <3>1, <1>6
  <2> QED
    BY <2>1, <2>2
<1>8. \A x : Holds(r, x) <=> (Holds(s, x) /\ x # t)
  <2> TAKE x
  <2>1. Holds(r, x) <=> \E n \in 1..Len(q) : Holds(q[n], x)
    BY <1>5 DEF Gathers
  <2>2. (\E n \in 1..Len(q) : Holds(q[n], x)) <=> (\E n \in 1..Len(q) : s[n] = x /\ x # t)
    BY <1>7
  <2>3. (\E n \in 1..Len(q) : s[n] = x /\ x # t) <=> (Holds(s, x) /\ x # t)
    BY <1>4 DEF Holds
  <2> QED
    BY <2>1, <2>2, <2>3
<1>9. Separate(q)
  <2>1. \A y : Once(<<y>>)
    BY DEF Once
  <2>2. \A n \in 1..Len(q) : Once(q[n])
    <3> TAKE n \in 1..Len(q)
    <3>1. q[n] = <<>> \/ q[n] = <<s[n]>>
      BY <1>2, <1>4
    <3> QED
      BY <2>1, <3>1, HoldsNone
  <2>3. \A i, j \in 1..Len(q) : \A e : Holds(q[i], e) /\ Holds(q[j], e) => i = j
    <3> SUFFICES ASSUME NEW i \in 1..Len(q), NEW j \in 1..Len(q), NEW e, Holds(q[i], e), Holds(q[j], e) PROVE i = j
      OBVIOUS
    <3>1. s[i] = e /\ s[j] = e
      BY <1>7
    <3> QED
      BY <1>4, <3>1 DEF Once
  <2> QED
    BY <2>2, <2>3 DEF Separate
<1> QED
  BY <1>5, <1>8, <1>9 DEF Gathers

\* What Sweep computes from the listed threads s.
Collected(s, o, r) == r = TL!FlattenSeq([n \in 1..Len(s) |-> o[s[n]]])

\* The threads of s, each once, and what is in order o for each, in no other's.
Sweepable(S, T, s, o) ==
    /\ s \in Seq(T) /\ o \in [T -> Seq(S)] /\ Once(s)
    /\ \A t \in T : Once(o[t])
    /\ \A t, u \in T : \A e : Holds(o[t], e) /\ Holds(o[u], e) => t = u

\* What stop() collects, thread by thread.
LEMMA HoldsCollected ==
    ASSUME NEW S, NEW T, NEW s, NEW o, NEW r, Sweepable(S, T, s, o), Collected(s, o, r)
    PROVE  /\ r \in Seq(S) /\ Once(r)
           /\ \A x : Holds(r, x) <=> \E t \in T : Holds(s, t) /\ Holds(o[t], x)
<1>0. /\ s \in Seq(T) /\ o \in [T -> Seq(S)] /\ Once(s)
      /\ \A t \in T : Once(o[t])
      /\ \A t, u \in T : \A e : Holds(o[t], e) /\ Holds(o[u], e) => t = u
  BY DEF Sweepable
<1>1. PICK q : q = [n \in 1..Len(s) |-> o[s[n]]]
  OBVIOUS
<1>2. Len(s) \in Nat /\ \A n \in 1..Len(s) : q[n] = o[s[n]] /\ s[n] \in T
  BY <1>0, <1>1
<1>4. q \in Seq(Seq(S)) /\ Len(q) = Len(s)
  <2>1. q \in [1..Len(s) -> Seq(S)]
    BY <1>0, <1>1, <1>2
  <2>2. Len(s) \in Nat
    BY <1>2
  <2>3. PICK Q, L : Q = Seq(S) /\ L = Len(s)
    OBVIOUS
  <2>4. q \in [1..L -> Q] /\ L \in Nat
    BY <2>1, <2>2, <2>3
  <2>5. q \in Seq(Q) /\ Len(q) = L
    BY <2>4
  <2> QED
    BY <2>3, <2>5
<1>5. Gathers(r, S, q, Len(q))
  BY <1>1, <1>4, FlattenGathers DEF Collected
<1>8. \A x : Holds(r, x) <=> \E t \in T : Holds(s, t) /\ Holds(o[t], x)
  <2> TAKE x
  <2>1. Holds(r, x) <=> \E n \in 1..Len(s) : Holds(q[n], x)
    BY <1>4, <1>5 DEF Gathers
  <2>2. ASSUME NEW n \in 1..Len(s), Holds(q[n], x) PROVE \E t \in T : Holds(s, t) /\ Holds(o[t], x)
    <3>1. s[n] \in T /\ Holds(o[s[n]], x)
      BY <1>2, <2>2
    <3>2. Holds(s, s[n])
      BY DEF Holds
    <3> QED
      BY <3>1, <3>2
  <2>3. ASSUME NEW t \in T, Holds(s, t), Holds(o[t], x) PROVE \E n \in 1..Len(s) : Holds(q[n], x)
    <3>1. PICK n \in 1..Len(s) : s[n] = t
      BY <2>3 DEF Holds
    <3>2. Holds(q[n], x)
      BY <1>2, <2>3, <3>1
    <3> QED
      BY <3>2
  <2> QED
    BY <2>1, <2>2, <2>3
<1>9. Separate(q)
  <2>2. \A n \in 1..Len(q) : Once(q[n])
    BY <1>0, <1>2, <1>4
  <2>3. \A i, j \in 1..Len(q) : \A e : Holds(q[i], e) /\ Holds(q[j], e) => i = j
    <3> SUFFICES ASSUME NEW i \in 1..Len(q), NEW j \in 1..Len(q), NEW e, Holds(q[i], e), Holds(q[j], e) PROVE i = j
      OBVIOUS
    <3>1. s[i] \in T /\ s[j] \in T /\ q[i] = o[s[i]] /\ q[j] = o[s[j]]
      BY <1>2, <1>4
    <3>2. s[i] = s[j]
      BY <1>0, <3>1
    <3> QED
      BY <1>0, <1>4, <3>2 DEF Once
  <2> QED
    BY <2>2, <2>3 DEF Separate
<1> QED
  BY <1>5, <1>8, <1>9 DEF Gathers

\* What a step of one thread, or of the registry, leaves alone of a thread.
Alike(u) ==
    /\ thread'[u] = thread[u] /\ order'[u] = order[u] /\ todo'[u] = todo[u]
    /\ (Holds(stores', u)) <=> (Holds(stores, u))
    /\ (u \in registered') <=> (u \in registered)

\* stop() sweeps until there is nothing left, and a registry that is gone stays so.
Calm ==
    /\ Sweeping /\ todo[Main] # <<>> => Sweeping'
    /\ phase = "dead" => phase' = "dead"

\* A step that changes one thread's part keeps ThreadsOK if it keeps that part.
LEMMA ThreadsAlike ==
    ASSUME ThreadsOK, Calm, Once(stores'), thread'[Main].state = "running", NEW t,
           \A u \in Threads \ {t} : Alike(u),
           t \in Threads => ThreadOK(thread'[t].state, thread'[t].made, order'[t], todo'[t], Holds(stores', t),
                                     t \in registered', t = Main /\ Sweeping')
    PROVE  ThreadsOK'
<1>1. ASSUME NEW u \in Threads
      PROVE  ThreadOK(thread'[u].state, thread'[u].made, order'[u], todo'[u], Holds(stores', u),
                      u \in registered', u = Main /\ Sweeping')
  <2>1. CASE u = t
    BY <2>1
  <2>2. CASE u # t
    <3>1. Alike(u)
      BY <2>2
    <3>2. ThreadOK(thread[u].state, thread[u].made, order[u], todo[u], Holds(stores, u),
                   u \in registered, u = Main /\ Sweeping)
      BY DEF ThreadsOK
    <3> QED
      BY <3>1, <3>2 DEF Alike, ThreadOK, Calm
  <2> QED
    BY <2>1, <2>2
<1> QED
  BY <1>1 DEF ThreadsOK

\* The same for ExitsOK.
LEMMA ExitsAlike ==
    ASSUME ExitsOK, NEW t, \A u \in Threads \ {t} : Alike(u),
           t \in Threads => ExitOK(thread'[t].state, thread'[t].made, order'[t], Holds(stores', t))
    PROVE  ExitsOK'
<1>1. ASSUME NEW u \in Threads PROVE ExitOK(thread'[u].state, thread'[u].made, order'[u], Holds(stores', u))
  <2>1. CASE u = t
    BY <2>1
  <2>2. CASE u # t
    <3>1. Alike(u) /\ ExitOK(thread[u].state, thread[u].made, order[u], Holds(stores, u))
      BY <2>2 DEF ExitsOK
    <3> QED
      BY <3>1 DEF Alike, ExitOK
  <2> QED
    BY <2>1, <2>2
<1> QED
  BY <1>1 DEF ExitsOK

\* Steps that move no instance.
LEMMA UnmovedLocals ==
    ASSUME OrderOwn, TodoOwn, UNCHANGED <<order, todo, local>>,
           \A u \in Threads : Holds(stores, u) => Holds(stores', u)
    PROVE  OrderOwn' /\ TodoOwn'
BY DEF OrderOwn, TodoOwn, Holds, Once

\* They keep ListedKept if no thread leaves the list.
LEMMA UnmovedListed ==
    ASSUME LocalTypes, ListedKept, UNCHANGED <<order, todo, local>>,
           \A u \in Threads : Holds(stores, u) => Holds(stores', u)
    PROVE  ListedKept'
<1> SUFFICES ASSUME NEW i \in 1..Len(local), local[i].life = "made", local[i].listed
             PROVE  \/ Holds(order[local[i].thread], i) /\ Holds(stores', local[i].thread)
                    \/ \E t \in Threads : Holds(todo[t], i)
  BY DEF ListedKept, Holds
<1>1. local[i].thread \in Threads
  <2>1. local[i] \in Instance
    BY DEF LocalTypes
  <2> QED
    BY <2>1 DEF Instance
<1>2. \/ Holds(order[local[i].thread], i) /\ Holds(stores, local[i].thread)
      \/ \E t \in Threads : Holds(todo[t], i)
  BY DEF ListedKept
<1> QED
  BY <1>1, <1>2

\* The thread_local objects.
Claimed(m) == IF m = <<>> THEN <<"cleanup">> ELSE IF m = <<"data">> THEN <<"data", "cleanup">> ELSE m
Touched(m) ==
    IF m \in {<<>>, <<"data">>} THEN <<"data", "cleanup">>
    ELSE IF m = <<"cleanup">> THEN <<"cleanup", "data">> ELSE m
Ended(m) ==
    IF m = <<"data", "cleanup">> THEN <<"data">> ELSE IF m = <<"cleanup", "data">> THEN <<"cleanup">> ELSE <<>>

\* The five states of a thread's thread_local objects are different.
LEMMA ObjectsDiffer ==
    /\ <<>> # <<"data">> /\ <<>> # <<"cleanup">> /\ <<>> # <<"data", "cleanup">> /\ <<>> # <<"cleanup", "data">>
    /\ <<"data">> # <<"cleanup">> /\ <<"data">> # <<"data", "cleanup">> /\ <<"data">> # <<"cleanup", "data">>
    /\ <<"cleanup">> # <<"data", "cleanup">> /\ <<"cleanup">> # <<"cleanup", "data">>
    /\ <<"data", "cleanup">> # <<"cleanup", "data">>
OBVIOUS

\* Has, Append, Front and Last on lists of at most two objects.
LEMMA ShortLists ==
    ASSUME NEW x, NEW y, NEW o
    PROVE  /\ ~TL!Has(<<>>, o) /\ (TL!Has(<<x>>, o)) <=> (o = x)
           /\ (TL!Has(<<x, y>>, o)) <=> (o = x \/ o = y)
           /\ Append(<<>>, x) = <<x>> /\ Append(<<x>>, y) = <<x, y>>
           /\ TL!Front(<<x>>) = <<>> /\ TL!Front(<<x, y>>) = <<x>>
           /\ TL!Last(<<x>>) = x /\ TL!Last(<<x, y>>) = y
<1>1. Len(<<>>) = 0 /\ Len(<<x>>) = 1 /\ Len(<<x, y>>) = 2
  OBVIOUS
<1>2. <<x>>[1] = x /\ <<x, y>>[1] = x /\ <<x, y>>[2] = y
  OBVIOUS
<1>3. 1..0 = {} /\ 1..1 = {1} /\ 1..2 = {1, 2}
  OBVIOUS
<1>4. ~TL!Has(<<>>, o)
  BY <1>1, <1>3 DEF TL!Has
<1>5. (TL!Has(<<x>>, o)) <=> (o = x)
  BY <1>1, <1>2, <1>3 DEF TL!Has
<1>6. (TL!Has(<<x, y>>, o)) <=> (o = x \/ o = y)
  BY <1>1, <1>2, <1>3 DEF TL!Has
<1>7. Append(<<>>, x) = <<x>> /\ Append(<<x>>, y) = <<x, y>>
  <2>1. Append(<<>>, x) = <<x>>
    OBVIOUS
  <2>2. Append(<<x>>, y) = <<x, y>>
    <3>0. PICK s : s = <<x>>
      OBVIOUS
    <3>a. s \in Seq({x})
      BY <3>0
    <3>b. IsSeq(s)
      BY <3>a DEF IsSeq
    <3>1. PICK r : r = Append(s, y)
      OBVIOUS
    <3>2. IsSeq(r) /\ Len(r) = Len(s) + 1 /\ (\A n \in 1..Len(s) : r[n] = s[n]) /\ r[Len(s) + 1] = y
      BY <3>b, <3>1, AppendFacts
    <3>3. Len(r) = 2 /\ r[1] = x /\ r[2] = y
      BY <1>1, <1>2, <3>0, <3>2
    <3>4. r = [n \in 1..2 |-> r[n]]
      BY <3>2, <3>3, SeqFacts
    <3>5. <<x, y>> = [n \in 1..2 |-> IF n = 1 THEN x ELSE y]
      OBVIOUS
    <3> QED
      BY <3>0, <3>1, <3>3, <3>4, <3>5, <1>3
  <2> QED
    BY <2>1, <2>2
<1>8. TL!Front(<<x>>) = <<>>
  BY <1>1 DEF TL!Front
<1>9. TL!Front(<<x, y>>) = <<x>>
  <2>1. <<x, y>> \in Seq({x, y}) /\ <<x, y>> # <<>>
    OBVIOUS
  <2>2. PICK r, s : r = SubSeq(s, 1, Len(s) - 1) /\ s = <<x, y>>
    OBVIOUS
  <2>3. IsSeq(r) /\ Len(r) = Len(s) - 1 /\ \A n \in 1..(Len(s) - 1) : r[n] = s[n]
    BY <2>1, <2>2, PrefixFacts DEF IsSeq
  <2>4. Len(r) = 1 /\ r[1] = x
    BY <1>1, <1>2, <2>2, <2>3
  <2>5. r = [n \in 1..1 |-> r[n]]
    BY <2>3, <2>4, SeqFacts
  <2>6. <<x>> = [n \in 1..1 |-> x]
    BY <1>3
  <2>7. r = <<x>>
    BY <2>4, <2>5, <2>6, <1>3
  <2> QED
    BY <2>2, <2>7 DEF TL!Front
<1>10. TL!Last(<<x>>) = x /\ TL!Last(<<x, y>>) = y
  BY <1>1, <1>2 DEF TL!Last
<1> QED
  BY <1>4, <1>5, <1>6, <1>7, <1>8, <1>9, <1>10

\* What first use and exit make of a thread's thread_local objects.
LEMMA MadeObjects ==
    ASSUME NEW m \in Objects
    PROVE  /\ TL!Using(m, "cleanup") = Claimed(m)
           /\ TL!Using(TL!Using(m, "data"), "cleanup") = Touched(m)
           /\ m # <<>> => TL!Front(m) = Ended(m)
           /\ m # <<>> /\ TL!Last(m) = "cleanup" => m \in {<<"cleanup">>, <<"data", "cleanup">>}
           /\ m # <<>> /\ TL!Last(m) = "data" => m \in {<<"data">>, <<"cleanup", "data">>}
           /\ {Claimed(m), Touched(m), Ended(m)} \subseteq Objects
<1>0. "data" # "cleanup"
  OBVIOUS
<1>u. \A l, o : TL!Using(l, o) = IF TL!Has(l, o) THEN l ELSE Append(l, o)
  BY DEF TL!Using
<1>1. CASE m = <<>>
  <2>1. TL!Using(m, "cleanup") = Claimed(m)
    BY <1>0, <1>u, <1>1, ObjectsDiffer, ShortLists DEF Claimed
  <2>2. TL!Using(TL!Using(m, "data"), "cleanup") = Touched(m)
    <3>1. TL!Using(m, "data") = <<"data">>
      BY <1>0, <1>u, <1>1, ObjectsDiffer, ShortLists
    <3>2. TL!Using(<<"data">>, "cleanup") = Touched(m)
      BY <1>0, <1>u, <1>1, ObjectsDiffer, ShortLists DEF Touched
    <3> QED
      BY <3>1, <3>2
  <2>3. m # <<>> => TL!Front(m) = Ended(m)
    BY <1>1, ObjectsDiffer, ShortLists DEF Ended
  <2>4. /\ m # <<>> /\ TL!Last(m) = "cleanup" => m \in {<<"cleanup">>, <<"data", "cleanup">>}
        /\ m # <<>> /\ TL!Last(m) = "data" => m \in {<<"data">>, <<"cleanup", "data">>}
    BY <1>0, <1>1, ObjectsDiffer, ShortLists
  <2>5. {Claimed(m), Touched(m), Ended(m)} \subseteq Objects
    BY <1>1, ObjectsDiffer DEF Claimed, Touched, Ended, Objects
  <2> QED
    BY <2>1, <2>2, <2>3, <2>4, <2>5
<1>2. CASE m = <<"data">>
  <2>1. TL!Using(m, "cleanup") = Claimed(m)
    BY <1>0, <1>u, <1>2, ObjectsDiffer, ShortLists DEF Claimed
  <2>2. TL!Using(TL!Using(m, "data"), "cleanup") = Touched(m)
    BY <1>0, <1>u, <1>2, ObjectsDiffer, ShortLists DEF Touched
  <2>3. m # <<>> => TL!Front(m) = Ended(m)
    BY <1>2, ObjectsDiffer, ShortLists DEF Ended
  <2>4. /\ m # <<>> /\ TL!Last(m) = "cleanup" => m \in {<<"cleanup">>, <<"data", "cleanup">>}
        /\ m # <<>> /\ TL!Last(m) = "data" => m \in {<<"data">>, <<"cleanup", "data">>}
    BY <1>0, <1>2, ObjectsDiffer, ShortLists
  <2>5. {Claimed(m), Touched(m), Ended(m)} \subseteq Objects
    BY <1>2, ObjectsDiffer DEF Claimed, Touched, Ended, Objects
  <2> QED
    BY <2>1, <2>2, <2>3, <2>4, <2>5
<1>3. CASE m = <<"cleanup">>
  <2>1. TL!Using(m, "cleanup") = Claimed(m)
    BY <1>0, <1>u, <1>3, ObjectsDiffer, ShortLists DEF Claimed
  <2>2. TL!Using(TL!Using(m, "data"), "cleanup") = Touched(m)
    <3>1. TL!Using(m, "data") = <<"cleanup", "data">>
      BY <1>0, <1>u, <1>3, ObjectsDiffer, ShortLists
    <3>2. TL!Using(<<"cleanup", "data">>, "cleanup") = Touched(m)
      BY <1>0, <1>u, <1>3, ObjectsDiffer, ShortLists DEF Touched
    <3> QED
      BY <3>1, <3>2
  <2>3. m # <<>> => TL!Front(m) = Ended(m)
    BY <1>3, ObjectsDiffer, ShortLists DEF Ended
  <2>4. /\ m # <<>> /\ TL!Last(m) = "cleanup" => m \in {<<"cleanup">>, <<"data", "cleanup">>}
        /\ m # <<>> /\ TL!Last(m) = "data" => m \in {<<"data">>, <<"cleanup", "data">>}
    BY <1>0, <1>3, ObjectsDiffer, ShortLists
  <2>5. {Claimed(m), Touched(m), Ended(m)} \subseteq Objects
    BY <1>3, ObjectsDiffer DEF Claimed, Touched, Ended, Objects
  <2> QED
    BY <2>1, <2>2, <2>3, <2>4, <2>5
<1>4. CASE m = <<"data", "cleanup">>
  <2>1. TL!Using(m, "cleanup") = Claimed(m)
    BY <1>0, <1>u, <1>4, ObjectsDiffer, ShortLists DEF Claimed
  <2>2. TL!Using(TL!Using(m, "data"), "cleanup") = Touched(m)
    BY <1>0, <1>u, <1>4, ObjectsDiffer, ShortLists DEF Touched
  <2>3. m # <<>> => TL!Front(m) = Ended(m)
    BY <1>4, ObjectsDiffer, ShortLists DEF Ended
  <2>4. /\ m # <<>> /\ TL!Last(m) = "cleanup" => m \in {<<"cleanup">>, <<"data", "cleanup">>}
        /\ m # <<>> /\ TL!Last(m) = "data" => m \in {<<"data">>, <<"cleanup", "data">>}
    BY <1>0, <1>4, ObjectsDiffer, ShortLists
  <2>5. {Claimed(m), Touched(m), Ended(m)} \subseteq Objects
    BY <1>4, ObjectsDiffer DEF Claimed, Touched, Ended, Objects
  <2> QED
    BY <2>1, <2>2, <2>3, <2>4, <2>5
<1>5. CASE m = <<"cleanup", "data">>
  <2>1. TL!Using(m, "cleanup") = Claimed(m)
    BY <1>0, <1>u, <1>5, ObjectsDiffer, ShortLists DEF Claimed
  <2>2. TL!Using(TL!Using(m, "data"), "cleanup") = Touched(m)
    BY <1>0, <1>u, <1>5, ObjectsDiffer, ShortLists DEF Touched
  <2>3. m # <<>> => TL!Front(m) = Ended(m)
    BY <1>5, ObjectsDiffer, ShortLists DEF Ended
  <2>4. /\ m # <<>> /\ TL!Last(m) = "cleanup" => m \in {<<"cleanup">>, <<"data", "cleanup">>}
        /\ m # <<>> /\ TL!Last(m) = "data" => m \in {<<"data">>, <<"cleanup", "data">>}
    BY <1>0, <1>5, ObjectsDiffer, ShortLists
  <2>5. {Claimed(m), Touched(m), Ended(m)} \subseteq Objects
    BY <1>5, ObjectsDiffer DEF Claimed, Touched, Ended, Objects
  <2> QED
    BY <2>1, <2>2, <2>3, <2>4, <2>5
<1> QED
  BY <1>1, <1>2, <1>3, <1>4, <1>5 DEF Objects

\* th is thread with t's state s and objects m.
Threadly(th, t, s, m) ==
    /\ th \in [Threads -> [state : ThreadStates, made : Objects]]
    /\ th[t].state = s /\ th[t].made = m
    /\ \A u \in Threads \ {t} : th[u] = thread[u]

\* The types, element by element.
LEMMA LocalFacts ==
    ASSUME LocalTypes
    PROVE  /\ Len(local) \in Nat
           /\ \A i \in 1..Len(local) : /\ local[i] \in Instance /\ local[i].thread \in Threads
           /\ \A t \in Threads : /\ thread[t].made \in Objects /\ thread[t].state \in ThreadStates
                                 /\ order[t] \in Seq(1..Len(local)) /\ todo[t] \in Seq(1..Len(local))
           /\ \A t \in Threads : \A e : Holds(order[t], e) \/ Holds(todo[t], e) => e \in 1..Len(local)
<1>1. Len(local) \in Nat /\ \A i \in 1..Len(local) : local[i] \in Instance
  BY DEF LocalTypes
<1>2. \A i \in 1..Len(local) : local[i].thread \in Threads
  BY <1>1 DEF Instance
<1>3. \A t \in Threads : /\ thread[t].made \in Objects /\ thread[t].state \in ThreadStates
                         /\ order[t] \in Seq(1..Len(local)) /\ todo[t] \in Seq(1..Len(local))
  BY DEF LocalTypes
<1>4. \A t \in Threads : \A e : Holds(order[t], e) \/ Holds(todo[t], e) => e \in 1..Len(local)
  BY <1>3, HoldsIn
<1> QED
  BY <1>1, <1>2, <1>3, <1>4

\* A part of one thread's record is set.
LEMMA ThreadSet ==
    ASSUME LocalTypes, NEW t \in Threads, NEW s \in ThreadStates, NEW m \in Objects
    PROVE  /\ thread' = [thread EXCEPT ![t].state = s] => Threadly(thread', t, s, thread[t].made)
           /\ thread' = [thread EXCEPT ![t].made = m] => Threadly(thread', t, thread[t].state, m)
           /\ thread' = [thread EXCEPT ![t].state = s, ![t].made = m] => Threadly(thread', t, s, m)
<1>1. thread \in [Threads -> [state : ThreadStates, made : Objects]]
  BY DEF LocalTypes
<1>2. ASSUME thread' = [thread EXCEPT ![t].state = s] PROVE Threadly(thread', t, s, thread[t].made)
  BY <1>1, <1>2 DEF Threadly
<1>3. ASSUME thread' = [thread EXCEPT ![t].made = m] PROVE Threadly(thread', t, thread[t].state, m)
  BY <1>1, <1>3 DEF Threadly
<1>4. ASSUME thread' = [thread EXCEPT ![t].state = s, ![t].made = m] PROVE Threadly(thread', t, s, m)
  BY <1>1, <1>4 DEF Threadly
<1> QED
  BY <1>2, <1>3, <1>4

\* A step that moves no instance keeps the invariant if it keeps the thread's part.
LEMMA QuietThread ==
    ASSUME LocalInv, Calm, NEW t \in Threads, NEW s, NEW m, Threadly(thread', t, s, m),
           registered' \in SUBSET Threads, stores' \in Seq(Threads), Once(stores'),
           UNCHANGED <<order, todo, local>>,
           \A u \in Threads : Holds(stores, u) => Holds(stores', u),
           \A u \in Threads \ {t} : (Holds(stores', u)) <=> (Holds(stores, u)),
           \A u \in Threads \ {t} : (u \in registered') <=> (u \in registered),
           t = Main => s = "running",
           ThreadOK(s, m, order[t], todo[t], Holds(stores', t), t \in registered', t = Main /\ Sweeping'),
           phase' # "dead" => ExitOK(s, m, order[t], Holds(stores', t))
    PROVE  LocalInv'
<1>1. LocalTypes'
  BY DEF LocalInv, LocalTypes, Threadly
<1>2. OrderOwn' /\ TodoOwn'
  BY UnmovedLocals DEF LocalInv
<1>3. \A u \in Threads \ {t} : Alike(u)
  BY DEF Alike, Threadly
<1>4. thread'[Main].state = "running"
  BY ContainerConstants DEF LocalInv, ThreadsOK, Threadly
<1>5. ThreadsOK'
  <2>1. ThreadOK(thread'[t].state, thread'[t].made, order'[t], todo'[t], Holds(stores', t),
                 t \in registered', t = Main /\ Sweeping')
    BY DEF Threadly
  <2> QED
    BY <1>3, <1>4, <2>1, ThreadsAlike DEF LocalInv
<1>6. ASSUME phase' # "dead" PROVE ExitsOK' /\ ListedKept'
  <2>1. phase # "dead" /\ ExitsOK /\ ListedKept /\ LocalTypes
    BY <1>6 DEF Calm, LocalInv
  <2>2. ExitOK(thread'[t].state, thread'[t].made, order'[t], Holds(stores', t))
    BY <1>6 DEF Threadly
  <2>3. ExitsOK'
    BY <1>3, <2>1, <2>2, ExitsAlike
  <2>4. ListedKept'
    BY <2>1, UnmovedListed
  <2> QED
    BY <2>3, <2>4
<1> QED
  BY <1>1, <1>2, <1>5, <1>6 DEF LocalInv

\* The registry moves alone.
LEMMA LocalsSame ==
    ASSUME LocalInv, Calm, UNCHANGED <<thread, registered, order, stores, local, todo>>
    PROVE  LocalInv'
<1>1. Main \in Threads
  BY ContainerConstants
<1>2. Threadly(thread', Main, thread[Main].state, thread[Main].made)
  BY DEF LocalInv, LocalTypes, Threadly
<1>3. thread[Main].state = "running"
  BY DEF LocalInv, ThreadsOK
<1>4. ThreadOK(thread[Main].state, thread[Main].made, order[Main], todo[Main], Holds(stores', Main),
               Main \in registered', Main = Main /\ Sweeping')
  BY <1>1 DEF LocalInv, ThreadsOK, ThreadOK, Calm
<1>5. phase' # "dead" => ExitOK(thread[Main].state, thread[Main].made, order[Main], Holds(stores', Main))
  BY <1>3 DEF ExitOK
<1>6. registered' \in SUBSET Threads /\ stores' \in Seq(Threads) /\ Once(stores')
  BY DEF LocalInv, LocalTypes, ThreadsOK
<1> QED
  BY <1>1, <1>2, <1>3, <1>4, <1>5, <1>6, QuietThread

\* What is known of a thread.
LEMMA ThreadFacts ==
    ASSUME LocalInv, NEW t \in Threads
    PROVE  /\ ThreadOK(thread[t].state, thread[t].made, order[t], todo[t], Holds(stores, t),
                       t \in registered, t = Main /\ Sweeping)
           /\ phase # "dead" => ExitOK(thread[t].state, thread[t].made, order[t], Holds(stores, t))
           /\ t = Main => thread[t].state = "running"
           /\ thread[t].made \in Objects /\ thread[t].state \in ThreadStates
           /\ registered \in SUBSET Threads /\ stores \in Seq(Threads) /\ Once(stores)
<1>1. LocalTypes /\ ThreadsOK /\ (phase # "dead" => ExitsOK)
  BY DEF LocalInv
<1> QED
  BY <1>1, LocalFacts DEF ThreadsOK, ExitsOK, LocalTypes

\* claimMaterializationOrWait(): the TLCleanup is made, the thread not listed.
LEMMA ClaimLocals ==
    ASSUME LocalInv, Calm, NEW t \in Threads, TL!Claim(t), thread[t].state = "running"
    PROVE  LocalInv'
<1>1. /\ thread' = [thread EXCEPT ![t].made = TL!Using(thread[t].made, "cleanup")]
      /\ registered' = registered \union {t} /\ UNCHANGED <<order, stores, local, todo>>
  BY DEF TL!Claim, LocalInv, LocalTypes
<1>2. TL!Using(thread[t].made, "cleanup") = Claimed(thread[t].made) /\ Claimed(thread[t].made) \in Objects
  BY ThreadFacts, MadeObjects
<1>3. Threadly(thread', t, "running", Claimed(thread[t].made))
  <2>1. LocalTypes /\ "running" \in ThreadStates
    BY DEF LocalInv, ThreadStates
  <2>2. thread' = [thread EXCEPT ![t].made = Claimed(thread[t].made)]
    BY <1>1, <1>2
  <2> QED
    BY <1>2, <2>1, <2>2, ThreadSet
<1>4. registered' \in SUBSET Threads /\ stores' \in Seq(Threads) /\ Once(stores')
  BY <1>1, ThreadFacts
<1>5. ThreadOK("running", Claimed(thread[t].made), order[t], todo[t], Holds(stores', t),
               t \in registered', t = Main /\ Sweeping')
  <2>1. t \in registered' /\ stores' = stores
    BY <1>1
  <2>2. ThreadOK("running", thread[t].made, order[t], todo[t], Holds(stores, t), t \in registered, t = Main /\
          Sweeping)
    BY ThreadFacts
  <2>3. todo[t] # <<>> => t = Main /\ Sweeping'
    BY <2>2 DEF ThreadOK, Calm
  <2>4. thread[t].made # <<"data">>
    BY <2>2 DEF ThreadOK
  <2> QED
    BY <2>1, <2>2, <2>3, <2>4, ObjectsDiffer DEF ThreadOK, Claimed, HasData, HasCleanup
<1>6. ExitOK("running", Claimed(thread[t].made), order[t], Holds(stores', t))
  BY DEF ExitOK
<1>7. \A u \in Threads \ {t} : (u \in registered') <=> (u \in registered)
  BY <1>1
<1> QED
  BY <1>1, <1>3, <1>4, <1>5, <1>6, <1>7, QuietThread

\* Register() by a thread that runs, or that cleans up and is in no list any more.
MayTouch(t) == thread[t].state = "running" \/ (thread[t].state = "cleaning" /\ todo[t] # <<>>)

\* What registration does to the thread's part, whatever becomes of its instances.
LEMMA Registers ==
    ASSUME LocalInv, Calm, NEW t \in Threads, TL!Register(t), MayTouch(t), todo' = todo,
           NEW o, o = <<>> => order[t] = <<>>
    PROVE  /\ Threadly(thread', t, thread[t].state, Touched(thread[t].made))
           /\ registered' \in SUBSET Threads /\ stores' \in Seq(Threads) /\ Once(stores')
           /\ \A u \in Threads : (Holds(stores', u)) <=> (Holds(stores, u) \/ (u = t /\ t \notin registered))
           /\ \A u \in Threads : (u \in registered') <=> (u \in registered \/ u = t)
           /\ ThreadOK(thread[t].state, Touched(thread[t].made), o, todo[t], Holds(stores', t),
                       t \in registered', t = Main /\ Sweeping')
           /\ phase' # "dead" => ExitOK(thread[t].state, Touched(thread[t].made), o, Holds(stores', t))
<1>1. /\ thread' = [thread EXCEPT ![t].made = TL!Using(TL!Using(thread[t].made, "data"), "cleanup")]
      /\ registered' = registered \union {t}
      /\ stores' = IF t \in registered THEN stores ELSE Append(stores, t)
  BY DEF TL!Register, LocalInv, LocalTypes
<1>2. /\ TL!Using(TL!Using(thread[t].made, "data"), "cleanup") = Touched(thread[t].made)
      /\ Touched(thread[t].made) \in Objects /\ thread[t].state \in ThreadStates
  BY ThreadFacts, MadeObjects
<1>3. Threadly(thread', t, thread[t].state, Touched(thread[t].made))
  <2>1. LocalTypes
    BY DEF LocalInv
  <2>2. thread' = [thread EXCEPT ![t].made = Touched(thread[t].made)]
    BY <1>1, <1>2
  <2> QED
    BY <1>2, <2>1, <2>2, ThreadSet
<1>f. /\ ThreadOK(thread[t].state, thread[t].made, order[t], todo[t], Holds(stores, t), t \in registered,
                  t = Main /\ Sweeping)
      /\ registered \in SUBSET Threads /\ stores \in Seq(Threads) /\ Once(stores)
  BY ThreadFacts
<1>4. /\ stores' \in Seq(Threads) /\ Once(stores')
      /\ \A u \in Threads : (Holds(stores', u)) <=> (Holds(stores, u) \/ (u = t /\ t \notin registered))
  <2>1. CASE t \in registered
    BY <1>1, <1>f, <2>1
  <2>2. CASE t \notin registered
    <3>1. ~Holds(stores, t)
      BY <1>f, <2>2 DEF ThreadOK
    <3>2. stores' = Append(stores, t)
      BY <1>1, <2>2
    <3>3. stores' \in Seq(Threads)
      BY <1>f, <3>2
    <3> QED
      BY <1>f, <2>2, <3>1, <3>2, <3>3, HoldsAppend
  <2> QED
    BY <2>1, <2>2
<1>5. registered' \in SUBSET Threads /\ \A u \in Threads : (u \in registered') <=> (u \in registered \/ u = t)
  BY <1>1, <1>f
<1>6. (Holds(stores', t)) <=> (Holds(stores, t) \/ t \notin registered)
  BY <1>4
<1>7. CASE thread[t].state = "running"
  <2>1. todo[t] # <<>> => t = Main /\ Sweeping'
    BY <1>f, <1>7 DEF ThreadOK, Calm
  <2>2. thread[t].made # <<"data">> /\ (thread[t].made = <<"cleanup">> => t \in registered /\ ~Holds(stores, t))
    BY <1>f, <1>7 DEF ThreadOK, HasCleanup
  <2>3. thread[t].made = <<"cleanup", "data">> => t \in registered /\ ~Holds(stores, t)
    BY <1>f DEF ThreadOK, HasCleanup
  <2>4. Touched(thread[t].made) \in {<<"data", "cleanup">>, <<"cleanup", "data">>}
    BY <2>2, ThreadFacts DEF Touched, Objects
  <2>5. Touched(thread[t].made) = <<"cleanup", "data">> => ~Holds(stores', t)
    BY <1>6, <2>2, <2>3, <2>4, ObjectsDiffer DEF Touched
  <2>6. ThreadOK("running", Touched(thread[t].made), o, todo[t], Holds(stores', t),
                 t \in registered', t = Main /\ Sweeping')
    BY <1>5, <2>1, <2>4, <2>5, ObjectsDiffer DEF ThreadOK, HasData
  <2> QED
    BY <1>3, <1>4, <1>5, <1>7, <2>6 DEF ExitOK
<1>8. CASE thread[t].state = "cleaning" /\ todo[t] # <<>>
  <2>1. thread[t].made = <<"data", "cleanup">> /\ ~Holds(stores, t) /\ t \in registered
    BY <1>f, <1>8, ObjectsDiffer DEF ThreadOK, HasCleanup
  <2>2. Touched(thread[t].made) = <<"data", "cleanup">> /\ ~Holds(stores', t)
    BY <1>6, <2>1, ObjectsDiffer DEF Touched
  <2>3. ThreadOK(thread[t].state, Touched(thread[t].made), o, todo[t], Holds(stores', t),
                 t \in registered', t = Main /\ Sweeping')
    BY <1>5, <1>8, <2>2, ObjectsDiffer DEF ThreadOK, HasData
  <2> QED
    BY <1>3, <1>4, <1>5, <2>2, <2>3 DEF ExitOK
<1> QED
  BY <1>7, <1>8 DEF MayTouch

\* The constructor of a thread-local bean throws.
LEMMA TouchThrowsLocals ==
    ASSUME LocalInv, Calm, NEW t \in Threads, NEW b, TL!TouchThrows(t, b), thread[t].state = "running"
    PROVE  LocalInv'
<1>1. TL!Register(t) /\ UNCHANGED <<order, local, todo>> /\ MayTouch(t)
  BY DEF TL!TouchThrows, MayTouch
<1>2. /\ Threadly(thread', t, thread[t].state, Touched(thread[t].made))
      /\ registered' \in SUBSET Threads /\ stores' \in Seq(Threads) /\ Once(stores')
      /\ \A u \in Threads : (Holds(stores', u)) <=> (Holds(stores, u) \/ (u = t /\ t \notin registered))
      /\ \A u \in Threads : (u \in registered') <=> (u \in registered \/ u = t)
      /\ ThreadOK(thread[t].state, Touched(thread[t].made), order[t], todo[t], Holds(stores', t),
                  t \in registered', t = Main /\ Sweeping')
      /\ phase' # "dead" => ExitOK(thread[t].state, Touched(thread[t].made), order[t], Holds(stores', t))
  BY <1>1, Registers
<1>3. /\ \A u \in Threads : Holds(stores, u) => Holds(stores', u)
      /\ \A u \in Threads \ {t} : (Holds(stores', u)) <=> (Holds(stores, u))
      /\ \A u \in Threads \ {t} : (u \in registered') <=> (u \in registered)
  BY <1>2
<1> QED
  BY <1>1, <1>2, <1>3, QuietThread

\* materializeThreadLocalInstance(), by a running thread or by a hook of an instance
\* that is being destroyed.
LEMMA TouchLocals ==
    ASSUME LocalInv, Calm, NEW t \in Threads, NEW b \in Beans, TL!Touch(t, b), MayTouch(t)
    PROVE  LocalInv'
<1> DEFINE e == Len(local) + 1
           r == [bean |-> b, thread |-> t, life |-> "made", listed |-> TL!Listed(t) \/ t \notin registered]
<1>1. /\ TL!Register(t) /\ UNCHANGED todo /\ local' = Append(local, r)
      /\ order' = [order EXCEPT ![t] = Append(order[t], e)] /\ TL!FindInstance(t, b) = {}
  BY DEF TL!Touch, TL!StoreInstance, LocalInv, LocalTypes
<1>t. LocalTypes /\ OrderOwn /\ TodoOwn /\ ThreadsOK
  BY DEF LocalInv
<1>2. /\ local \in Seq(Instance) /\ Len(local) \in Nat /\ order \in [Threads -> Seq(1..Len(local))]
      /\ todo \in [Threads -> Seq(1..Len(local))]
  BY <1>t DEF LocalTypes
<1>3. (TL!Listed(t)) <=> (Holds(stores, t))
  BY DEF TL!Listed, Holds
<1>4. r \in Instance
  BY DEF Instance
<1>5. /\ local' \in Seq(Instance) /\ Len(local') = e /\ local'[e] = r
      /\ \A i \in 1..Len(local) : local'[i] = local[i]
  BY <1>1, <1>2, <1>4
<1> HIDE DEF r
<1>6. /\ Threadly(thread', t, thread[t].state, Touched(thread[t].made))
      /\ registered' \in SUBSET Threads /\ stores' \in Seq(Threads) /\ Once(stores')
      /\ \A u \in Threads : (Holds(stores', u)) <=> (Holds(stores, u) \/ (u = t /\ t \notin registered))
      /\ \A u \in Threads : (u \in registered') <=> (u \in registered \/ u = t)
      /\ ThreadOK(thread[t].state, Touched(thread[t].made), Append(order[t], e), todo[t], Holds(stores', t),
                  t \in registered', t = Main /\ Sweeping')
      /\ phase' # "dead" => ExitOK(thread[t].state, Touched(thread[t].made), Append(order[t], e), Holds(stores', t))
  <2>1. Append(order[t], e) # <<>>
    BY <1>2, HoldsAppend
  <2> QED
    BY <1>1, <2>1, Registers
<1>7. /\ order'[t] = Append(order[t], e) /\ \A u \in Threads \ {t} : order'[u] = order[u]
  BY <1>1, <1>2
<1>a. \A u \in Threads : \A x : Holds(order[u], x) \/ Holds(todo[u], x) => x \in 1..Len(local) /\ x # e
  BY <1>2, <1>t, LocalFacts
<1>8. /\ \A x : Holds(order'[t], x) <=> (Holds(order[t], x) \/ x = e)
      /\ Once(order[t]) => Once(order'[t])
  <2>1. ~Holds(order[t], e) /\ order[t] \in Seq(1..Len(local))
    BY <1>2, <1>a
  <2> QED
    BY <1>7, <2>1, HoldsAppend
<1>9. order' \in [Threads -> Seq(1..Len(local'))] /\ todo' \in [Threads -> Seq(1..Len(local'))]
  <2>1. 1..Len(local) \subseteq 1..Len(local') /\ e \in 1..Len(local')
    BY <1>2, <1>5
  <2>2. \A s \in Seq(1..Len(local)) : s \in Seq(1..Len(local'))
    BY <2>1, SeqUp
  <2>3. todo' \in [Threads -> Seq(1..Len(local'))]
    BY <1>1, <1>2, <2>2
  <2>4. Append(order[t], e) \in Seq(1..Len(local'))
    BY <1>2, <2>1, <2>2
  <2> QED
    BY <1>1, <1>2, <2>2, <2>3, <2>4
<1>10. LocalTypes'
  BY <1>5, <1>6, <1>9 DEF LocalTypes, Threadly
<1>r. r.bean = b /\ r.thread = t /\ r.life = "made" /\ ((r.listed) => Holds(stores', t))
  BY <1>3, <1>6 DEF r
<1>11. OrderOwn'
  <2>1. ASSUME NEW u \in Threads
        PROVE  /\ Once(order'[u])
               /\ \A x : Holds(order'[u], x) => local'[x].thread = u /\ local'[x].life = "made"
               /\ \A x, y : Holds(order'[u], x) /\ Holds(order'[u], y) /\ local'[x].bean = local'[y].bean => x = y
    <3>0. /\ Once(order[u])
          /\ \A x : Holds(order[u], x) => local[x].thread = u /\ local[x].life = "made"
          /\ \A x, y : Holds(order[u], x) /\ Holds(order[u], y) /\ local[x].bean = local[y].bean => x = y
      BY <1>t DEF OrderOwn
    <3>1. CASE u # t
      <4>1. order'[u] = order[u]
        BY <1>7, <3>1
      <4>2. \A x : Holds(order[u], x) => local'[x] = local[x]
        BY <1>5, <1>a
      <4> QED
        BY <3>0, <4>1, <4>2
    <3>2. CASE u = t
      <4>1. \A x : Holds(order[t], x) => local'[x] = local[x] /\ local[x].bean # b
        <5> SUFFICES ASSUME NEW x, Holds(order[t], x) PROVE local'[x] = local[x] /\ local[x].bean # b
          OBVIOUS
        <5>1. x \in 1..Len(local) /\ local'[x] = local[x]
          BY <1>5, <1>a
        <5>2. \E n \in 1..Len(order[t]) : order[t][n] = x
          BY DEF Holds
        <5>3. x \notin TL!FindInstance(t, b)
          BY <1>1
        <5> QED
          BY <5>1, <5>2, <5>3 DEF TL!FindInstance
      <4>2. \A x : Holds(order'[t], x) => local'[x].thread = t /\ local'[x].life = "made"
        BY <1>5, <1>8, <1>r, <3>0, <3>2, <4>1
      <4>3. \A x, y : Holds(order'[t], x) /\ Holds(order'[t], y) /\ local'[x].bean = local'[y].bean => x = y
        BY <1>5, <1>8, <1>r, <3>0, <3>2, <4>1
      <4> QED
        BY <1>8, <3>0, <3>2, <4>2, <4>3
    <3> QED
      BY <3>1, <3>2
  <2> QED
    BY <2>1 DEF OrderOwn
<1>12. TodoOwn'
  <2>1. ASSUME NEW u \in Threads
        PROVE  /\ Once(todo[u])
               /\ \A x : Holds(todo[u], x) => local'[x].life = "made"
               /\ \A v \in Threads : \A x : Holds(todo[u], x) /\ Holds(todo[v], x) => u = v
               /\ \A v \in Threads : \A x : ~(Holds(todo[u], x) /\ Holds(order'[v], x))
    <3>0. /\ Once(todo[u])
          /\ \A x : Holds(todo[u], x) => local[x].life = "made"
          /\ \A v \in Threads : \A x : Holds(todo[u], x) /\ Holds(todo[v], x) => u = v
          /\ \A v \in Threads : \A x : ~(Holds(todo[u], x) /\ Holds(order[v], x))
      BY <1>t DEF TodoOwn
    <3>1. \A x : Holds(todo[u], x) => local'[x] = local[x]
      BY <1>5, <1>a
    <3>2. ASSUME NEW v \in Threads, NEW x, Holds(todo[u], x), Holds(order'[v], x) PROVE FALSE
      <4>1. CASE v = t
        BY <1>8, <1>a, <3>0, <3>2, <4>1
      <4>2. CASE v # t
        BY <1>7, <3>0, <3>2, <4>2
      <4> QED
        BY <4>1, <4>2
    <3> QED
      BY <3>0, <3>1, <3>2
  <2>2. todo' = todo
    BY <1>1
  <2> QED
    BY <2>1, <2>2 DEF TodoOwn
<1>13. \A u \in Threads \ {t} : Alike(u)
  BY <1>1, <1>6, <1>7 DEF Alike, Threadly
<1>14. ThreadsOK'
  <2>1. thread'[Main].state = "running"
    BY <1>6, <1>t, ContainerConstants DEF ThreadsOK, Threadly
  <2>2. ThreadOK(thread'[t].state, thread'[t].made, order'[t], todo'[t], Holds(stores', t),
                 t \in registered', t = Main /\ Sweeping')
    BY <1>1, <1>6, <1>7 DEF Threadly
  <2> QED
    BY <1>6, <1>13, <1>t, <2>1, <2>2, ThreadsAlike
<1>15. ASSUME phase' # "dead" PROVE ExitsOK' /\ ListedKept'
  <2>1. ExitsOK /\ ListedKept
    BY <1>15 DEF Calm, LocalInv
  <2>2. ExitsOK'
    <3>1. ExitOK(thread'[t].state, thread'[t].made, order'[t], Holds(stores', t))
      BY <1>6, <1>7, <1>15 DEF Threadly
    <3> QED
      BY <1>13, <2>1, <3>1, ExitsAlike
  <2>3. ASSUME NEW i \in 1..Len(local'), local'[i].life = "made", local'[i].listed
        PROVE  \/ Holds(order'[local'[i].thread], i) /\ Holds(stores', local'[i].thread)
               \/ \E u \in Threads : Holds(todo'[u], i)
    <3>1. CASE i = e
      BY <1>5, <1>8, <1>r, <2>3, <3>1
    <3>2. CASE i # e
      <4>1. i \in 1..Len(local) /\ local'[i] = local[i] /\ local[i].thread \in Threads
        BY <1>2, <1>5, <1>t, <3>2, LocalFacts
      <4>2. \/ Holds(order[local[i].thread], i) /\ Holds(stores, local[i].thread)
            \/ \E u \in Threads : Holds(todo[u], i)
        BY <2>1, <2>3, <4>1 DEF ListedKept
      <4>3. \A u \in Threads : Holds(order[u], i) => Holds(order'[u], i)
        BY <1>7, <1>8
      <4> QED
        BY <1>1, <1>6, <4>1, <4>2, <4>3
    <3> QED
      BY <3>1, <3>2
  <2> QED
    BY <2>2, <2>3 DEF ListedKept
<1> QED
  BY <1>10, <1>11, <1>12, <1>14, <1>15 DEF LocalInv

\* Steps of a thread's life that move no instance.
LEMMA LifeLocals ==
    ASSUME LocalInv, Calm, NEW t \in Threads, t # Main,
           TL!Spawn(t) \/ TL!ExitBegins(t) \/ TL!ExitDone(t) \/ TL!ExitCleaned(t)
    PROVE  LocalInv'
<1>1. UNCHANGED <<registered, order, stores, local, todo>>
  BY DEF TL!Spawn, TL!ExitBegins, TL!ExitDone, TL!ExitCleaned
<1>f. /\ ThreadOK(thread[t].state, thread[t].made, order[t], todo[t], Holds(stores, t), t \in registered,
                  t = Main /\ Sweeping)
      /\ phase # "dead" => ExitOK(thread[t].state, thread[t].made, order[t], Holds(stores, t))
      /\ registered \in SUBSET Threads /\ stores \in Seq(Threads) /\ Once(stores)
      /\ thread[t].made \in Objects /\ thread[t].state \in ThreadStates
  BY ThreadFacts
<1>t. LocalTypes
  BY DEF LocalInv
<1>s. phase' # "dead" => phase # "dead"
  BY DEF Calm
<1>2. ASSUME NEW s, NEW m, Threadly(thread', t, s, m),
             ThreadOK(s, m, order[t], todo[t], Holds(stores, t), t \in registered, t = Main /\ Sweeping'),
             phase # "dead" => ExitOK(s, m, order[t], Holds(stores, t))
      PROVE  LocalInv'
  <2>1. /\ registered' \in SUBSET Threads /\ stores' \in Seq(Threads) /\ Once(stores')
        /\ \A u \in Threads : Holds(stores, u) => Holds(stores', u)
        /\ \A u \in Threads \ {t} : (Holds(stores', u)) <=> (Holds(stores, u))
        /\ \A u \in Threads \ {t} : (u \in registered') <=> (u \in registered)
    BY <1>1, <1>f
  <2>2. ThreadOK(s, m, order[t], todo[t], Holds(stores', t), t \in registered', t = Main /\ Sweeping')
    BY <1>1, <1>2
  <2>3. phase' # "dead" => ExitOK(s, m, order[t], Holds(stores', t))
    BY <1>1, <1>2, <1>s
  <2> QED
    BY <1>1, <1>2, <2>1, <2>2, <2>3, QuietThread
<1>3. CASE TL!Spawn(t)
  <2>1. thread[t].state = "new" /\ thread' = [thread EXCEPT ![t].state = "running"]
    BY <1>3 DEF TL!Spawn
  <2>2. Threadly(thread', t, "running", thread[t].made)
    BY <1>t, <1>f, <2>1, ThreadSet DEF ThreadStates
  <2>3. ThreadOK("running", thread[t].made, order[t], todo[t], Holds(stores, t), t \in registered, t = Main /\
          Sweeping')
    BY <1>f, <2>1 DEF ThreadOK
  <2>4. ExitOK("running", thread[t].made, order[t], Holds(stores, t))
    BY DEF ExitOK
  <2> QED
    BY <1>2, <2>2, <2>3, <2>4
<1>4. CASE TL!ExitBegins(t)
  <2>1. thread[t].state = "running" /\ thread' = [thread EXCEPT ![t].state = "exiting"]
    BY <1>4 DEF TL!ExitBegins, TL!Running
  <2>2. Threadly(thread', t, "exiting", thread[t].made)
    BY <1>t, <1>f, <2>1, ThreadSet DEF ThreadStates
  <2>3. ThreadOK("exiting", thread[t].made, order[t], todo[t], Holds(stores, t), t \in registered, t = Main /\
          Sweeping')
    BY <1>f, <2>1 DEF ThreadOK
  <2>4. ExitOK("exiting", thread[t].made, order[t], Holds(stores, t))
    BY <1>f, <2>1 DEF ExitOK, ThreadOK
  <2> QED
    BY <1>2, <2>2, <2>3, <2>4
<1>5. CASE TL!ExitDone(t)
  <2>1. thread[t].state = "exiting" /\ thread' = [thread EXCEPT ![t].state = "gone"]
    BY <1>5 DEF TL!ExitDone
  <2>2. Threadly(thread', t, "gone", thread[t].made)
    BY <1>t, <1>f, <2>1, ThreadSet DEF ThreadStates
  <2>3. ThreadOK("gone", thread[t].made, order[t], todo[t], Holds(stores, t), t \in registered, t = Main /\
          Sweeping')
    BY <1>f, <2>1 DEF ThreadOK
  <2>4. ExitOK("gone", thread[t].made, order[t], Holds(stores, t))
    BY DEF ExitOK
  <2> QED
    BY <1>2, <2>2, <2>3, <2>4
<1>6. CASE TL!ExitCleaned(t)
  <2>1. /\ thread[t].state = "cleaning" /\ todo[t] = <<>>
        /\ thread' = [thread EXCEPT ![t].state = "exiting", ![t].made = TL!Front(thread[t].made)]
    BY <1>6, <1>t DEF TL!ExitCleaned, LocalTypes
  <2>2. thread[t].made \in {<<"cleanup">>, <<"data", "cleanup">>}
    BY <1>f, <2>1 DEF ThreadOK
  <2>3. TL!Front(thread[t].made) = Ended(thread[t].made) /\ Ended(thread[t].made) \in Objects
    BY <1>f, <2>2, ObjectsDiffer, MadeObjects
  <2>4. Threadly(thread', t, "exiting", Ended(thread[t].made))
    <3>1. "exiting" \in ThreadStates /\
            thread' = [thread EXCEPT ![t].state = "exiting", ![t].made = Ended(thread[t].made)]
      BY <2>1, <2>3 DEF ThreadStates
    <3> QED
      BY <1>t, <2>3, <3>1, ThreadSet
  <2>5. ThreadOK("exiting", Ended(thread[t].made), order[t], todo[t], Holds(stores, t), t \in registered,
          t = Main /\ Sweeping')
    <3>1. CASE thread[t].made = <<"cleanup">>
      <4>1. Ended(thread[t].made) = <<>> /\ order[t] = <<>>
        BY <1>f, <3>1, ObjectsDiffer DEF Ended, ThreadOK, HasData
      <4> QED
        BY <1>f, <2>1, <4>1, ObjectsDiffer DEF ThreadOK, HasCleanup
    <3>2. CASE thread[t].made = <<"data", "cleanup">>
      <4>1. Ended(thread[t].made) = <<"data">>
        BY <3>2 DEF Ended
      <4> QED
        BY <1>f, <2>1, <4>1, ObjectsDiffer DEF ThreadOK, HasCleanup, HasData
    <3> QED
      BY <2>2, <3>1, <3>2
  <2>6. phase # "dead" => ExitOK("exiting", Ended(thread[t].made), order[t], Holds(stores, t))
    BY <1>f, <2>1 DEF ExitOK
  <2> QED
    BY <1>2, <2>4, <2>5, <2>6
<1> QED
  BY <1>3, <1>4, <1>5, <1>6

\* Threads that lose their instances keep OrderOwn.
LEMMA OrderShrinks ==
    ASSUME OrderOwn, local' = local, \A u \in Threads : order'[u] = order[u] \/ order'[u] = <<>>
    PROVE  OrderOwn'
<1>1. ASSUME NEW u \in Threads
      PROVE  /\ Once(order'[u])
             /\ \A x : Holds(order'[u], x) => local[x].thread = u /\ local[x].life = "made"
             /\ \A x, y : Holds(order'[u], x) /\ Holds(order'[u], y) /\ local[x].bean = local[y].bean => x = y
  BY HoldsNone DEF OrderOwn
<1> QED
  BY <1>1 DEF OrderOwn

\* ~TLData: what it forgets is not listed.
LEMMA ForgetsLocals ==
    ASSUME LocalInv, Calm, NEW t \in Threads, t # Main, TL!ExitForgets(t)
    PROVE  LocalInv'
<1>t. LocalTypes /\ OrderOwn /\ TodoOwn /\ ThreadsOK
  BY DEF LocalInv
<1>1. /\ thread[t].state = "exiting" /\ thread[t].made # <<>> /\ TL!Last(thread[t].made) = "data"
      /\ thread' = [thread EXCEPT ![t].made = TL!Front(thread[t].made)]
      /\ order' = [order EXCEPT ![t] = <<>>] /\ UNCHANGED <<registered, stores, local, todo>>
  BY <1>t DEF TL!ExitForgets, TL!Exiting, LocalTypes
<1>f. /\ ThreadOK(thread[t].state, thread[t].made, order[t], todo[t], Holds(stores, t), t \in registered,
                  t = Main /\ Sweeping)
      /\ phase # "dead" => ExitOK(thread[t].state, thread[t].made, order[t], Holds(stores, t))
      /\ thread[t].made \in Objects
  BY ThreadFacts
<1>2. /\ thread[t].made \in {<<"data">>, <<"cleanup", "data">>}
      /\ TL!Front(thread[t].made) = Ended(thread[t].made) /\ Ended(thread[t].made) \in Objects
  BY <1>1, <1>f, MadeObjects
<1>3. Threadly(thread', t, "exiting", Ended(thread[t].made))
  <2>1. "exiting" \in ThreadStates /\ thread' = [thread EXCEPT ![t].made = Ended(thread[t].made)]
    BY <1>1, <1>2 DEF ThreadStates
  <2> QED
    BY <1>1, <1>2, <1>t, <2>1, ThreadSet
<1>4. order'[t] = <<>> /\ (\A u \in Threads \ {t} : order'[u] = order[u]) /\
        order' \in [Threads -> Seq(1..Len(local))]
  BY <1>1, <1>t DEF LocalTypes
<1>5. LocalTypes'
  BY <1>1, <1>3, <1>4, <1>t DEF LocalTypes, Threadly
<1>6. OrderOwn'
  BY <1>1, <1>4, <1>t, OrderShrinks
<1>7. TodoOwn'
  <2>1. \A v \in Threads : \A x : Holds(order'[v], x) => Holds(order[v], x)
    BY <1>4, HoldsNone
  <2>2. todo' = todo /\ local' = local
    BY <1>1
  <2> QED
    BY <1>t, <2>1, <2>2 DEF TodoOwn
<1>8. \A u \in Threads \ {t} : Alike(u)
  BY <1>1, <1>3, <1>4 DEF Alike, Threadly
<1>9. ThreadsOK'
  <2>1. thread'[Main].state = "running" /\ Once(stores')
    BY <1>1, <1>3, <1>t, ContainerConstants DEF ThreadsOK, Threadly
  <2>2. ThreadOK("exiting", Ended(thread[t].made), <<>>, todo[t], Holds(stores, t), t \in registered,
          t = Main /\ Sweeping')
    <3>1. CASE thread[t].made = <<"cleanup", "data">>
      <4>1. Ended(thread[t].made) = <<"cleanup">>
        BY <3>1, ObjectsDiffer DEF Ended
      <4> QED
        BY <1>1, <1>f, <3>1, <4>1, ObjectsDiffer DEF ThreadOK, HasCleanup, HasData
    <3>2. CASE thread[t].made = <<"data">>
      <4>1. Ended(thread[t].made) = <<>>
        BY <3>2, ObjectsDiffer DEF Ended
      <4> QED
        BY <1>1, <1>f, <4>1, ObjectsDiffer DEF ThreadOK, HasCleanup, HasData
    <3> QED
      BY <1>2, <3>1, <3>2
  <2>3. ThreadOK(thread'[t].state, thread'[t].made, order'[t], todo'[t], Holds(stores', t),
                 t \in registered', t = Main /\ Sweeping')
    BY <1>1, <1>3, <1>4, <2>2 DEF Threadly
  <2> QED
    BY <1>8, <1>t, <2>1, <2>3, ThreadsAlike
<1>10. ASSUME phase' # "dead" PROVE ExitsOK' /\ ListedKept'
  <2>1. ExitsOK /\ ListedKept /\ phase # "dead"
    BY <1>10 DEF Calm, LocalInv
  <2>2. ExitsOK'
    <3>1. ExitOK(thread'[t].state, thread'[t].made, order'[t], Holds(stores', t))
      BY <1>4 DEF ExitOK
    <3> QED
      BY <1>8, <2>1, <3>1, ExitsAlike
  <2>3. ASSUME NEW i \in 1..Len(local), local[i].life = "made", local[i].listed
        PROVE  \/ Holds(order'[local[i].thread], i) /\ Holds(stores, local[i].thread)
               \/ \E u \in Threads : Holds(todo[u], i)
    <3>1. local[i].thread \in Threads
      BY <1>t, LocalFacts
    <3>2. \/ Holds(order[local[i].thread], i) /\ Holds(stores, local[i].thread)
          \/ \E u \in Threads : Holds(todo[u], i)
      BY <2>1, <2>3 DEF ListedKept
    <3>3. CASE local[i].thread = t
      <4>1. order[t] = <<>> \/ ~Holds(stores, t)
        BY <1>1, <1>2, <1>f, <2>1 DEF ExitOK, ThreadOK
      <4> QED
        BY <3>2, <3>3, <4>1, HoldsNone
    <3>4. CASE local[i].thread # t
      BY <1>4, <3>1, <3>2, <3>4
    <3> QED
      BY <3>3, <3>4
  <2> QED
    BY <1>1, <2>2, <2>3 DEF ListedKept
<1> QED
  BY <1>5, <1>6, <1>7, <1>9, <1>10 DEF LocalInv

\* One instance is destroyed; it is nobody else's.
LEMMA DestroyLocals ==
    ASSUME LocalInv, Calm, NEW t \in Threads, TL!DestroyNext(t),
           t = Main => Sweeping'
    PROVE  LocalInv'
<1>t. LocalTypes /\ OrderOwn /\ TodoOwn /\ ThreadsOK
  BY DEF LocalInv
<1> DEFINE h == Head(todo[t])
<1>1. /\ todo[t] # <<>> /\ local' = TL!Destroyed(h) /\ todo' = [todo EXCEPT ![t] = Tail(todo[t])]
      /\ UNCHANGED <<thread, registered, order, stores>>
  BY <1>t DEF TL!DestroyNext, LocalTypes
<1>2. /\ todo[t] \in Seq(1..Len(local)) /\ Once(todo[t])
  BY <1>t, LocalFacts DEF TodoOwn
<1>3. /\ Tail(todo[t]) \in Seq(1..Len(local)) /\ h \in 1..Len(local) /\ Holds(todo[t], h)
      /\ \A x : Holds(Tail(todo[t]), x) <=> (Holds(todo[t], x) /\ x # h)
      /\ Once(Tail(todo[t]))
  BY <1>1, <1>2, HoldsTail
<1> HIDE DEF h
<1>4. local[h] \in Instance /\ local[h].life = "made" /\ local \in Seq(Instance) /\ Len(local) \in Nat
  BY <1>3, <1>t, LocalFacts DEF TodoOwn, LocalTypes
<1>5. local' = [local EXCEPT ![h].life = "destroyed"]
  BY <1>1, <1>4 DEF TL!Destroyed
<1>6. /\ local' \in Seq(Instance) /\ Len(local') = Len(local)
      /\ local'[h].life = "destroyed" /\ local'[h].thread = local[h].thread /\ local'[h].bean = local[h].bean
      /\ \A i \in 1..Len(local) : i # h => local'[i] = local[i]
  <2>1. PICK g : g = [local[h] EXCEPT !.life = "destroyed"]
    OBVIOUS
  <2>2. g \in Instance /\ g.life = "destroyed" /\ g.thread = local[h].thread /\ g.bean = local[h].bean
    BY <1>4, <2>1 DEF Instance
  <2>3. local' = [local EXCEPT ![h] = g]
    BY <1>5, <2>1
  <2>4. local' \in Seq(Instance) /\ Len(local') = Len(local) /\ local'[h] = g
        /\ \A i \in 1..Len(local) : i # h => local'[i] = local[i]
    BY <1>3, <1>4, <2>2, <2>3
  <2> QED
    BY <2>2, <2>4
<1>7. /\ todo'[t] = Tail(todo[t]) /\ \A u \in Threads \ {t} : todo'[u] = todo[u]
      /\ todo' \in [Threads -> Seq(1..Len(local))]
  BY <1>1, <1>3, <1>t DEF LocalTypes
<1>8. LocalTypes'
  BY <1>1, <1>6, <1>7, <1>t DEF LocalTypes
<1>9. \A u \in Threads : \A x : Holds(todo'[u], x) <=> (Holds(todo[u], x) /\ x # h)
  <2> TAKE u \in Threads
  <2> TAKE x
  <2>1. CASE u = t
    BY <1>3, <1>7, <2>1
  <2>2. CASE u # t
    <3>1. ~Holds(todo[u], h)
      BY <1>3, <1>t, <2>2 DEF TodoOwn
    <3> QED
      BY <1>7, <2>2, <3>1
  <2> QED
    BY <2>1, <2>2
<1>10. \A u \in Threads : ~Holds(order[u], h)
  BY <1>3, <1>t DEF TodoOwn
<1>11. /\ \A u \in Threads : \A x : Holds(order[u], x) => local'[x] = local[x]
       /\ \A u \in Threads : \A x : Holds(todo'[u], x) => local'[x] = local[x]
  BY <1>6, <1>9, <1>10, <1>t, LocalFacts
<1>12. OrderOwn'
  <2>1. order' = order
    BY <1>1
  <2>2. ASSUME NEW u \in Threads
        PROVE  /\ Once(order[u])
               /\ \A x : Holds(order[u], x) => local'[x].thread = u /\ local'[x].life = "made"
               /\ \A x, y : Holds(order[u], x) /\ Holds(order[u], y) /\ local'[x].bean = local'[y].bean => x = y
    BY <1>11, <1>t DEF OrderOwn
  <2> QED
    BY <2>1, <2>2 DEF OrderOwn
<1>13. TodoOwn'
  <2>1. order' = order
    BY <1>1
  <2>2. ASSUME NEW u \in Threads
        PROVE  /\ Once(todo'[u])
               /\ \A x : Holds(todo'[u], x) => local'[x].life = "made"
               /\ \A v \in Threads : \A x : Holds(todo'[u], x) /\ Holds(todo'[v], x) => u = v
               /\ \A v \in Threads : \A x : ~(Holds(todo'[u], x) /\ Holds(order[v], x))
    <3>1. Once(todo'[u])
      BY <1>3, <1>7, <1>t DEF TodoOwn
    <3>2. \A x : Holds(todo'[u], x) => local'[x].life = "made"
      BY <1>9, <1>11, <1>t DEF TodoOwn
    <3> QED
      BY <1>9, <1>t, <3>1, <3>2 DEF TodoOwn
  <2> QED
    BY <2>1, <2>2 DEF TodoOwn
<1>14. \A u \in Threads \ {t} : Alike(u)
  BY <1>1, <1>7 DEF Alike
<1>15. ThreadsOK'
  <2>1. ThreadOK(thread[t].state, thread[t].made, order[t], todo[t], Holds(stores, t), t \in registered,
          t = Main /\ Sweeping)
    BY ThreadFacts
  <2>2. ThreadOK(thread'[t].state, thread'[t].made, order'[t], todo'[t], Holds(stores', t),
                 t \in registered', t = Main /\ Sweeping')
    BY <1>1, <2>1 DEF ThreadOK
  <2>3. thread'[Main].state = "running" /\ Once(stores')
    BY <1>1, <1>t DEF ThreadsOK
  <2> QED
    BY <1>14, <1>t, <2>2, <2>3, ThreadsAlike
<1>16. ASSUME phase' # "dead" PROVE ExitsOK' /\ ListedKept'
  <2>1. ExitsOK /\ ListedKept
    BY <1>16 DEF Calm, LocalInv
  <2>2. ExitsOK'
    <3>1. ExitOK(thread'[t].state, thread'[t].made, order'[t], Holds(stores', t))
      BY <1>1, <2>1 DEF ExitsOK
    <3> QED
      BY <1>14, <2>1, <3>1, ExitsAlike
  <2>3. ASSUME NEW i \in 1..Len(local), local'[i].life = "made", local'[i].listed
        PROVE  \/ Holds(order[local'[i].thread], i) /\ Holds(stores, local'[i].thread)
               \/ \E u \in Threads : Holds(todo'[u], i)
    <3>1. i # h /\ local'[i] = local[i]
      BY <1>6, <2>3
    <3>2. \/ Holds(order[local[i].thread], i) /\ Holds(stores, local[i].thread)
          \/ \E u \in Threads : Holds(todo[u], i)
      BY <2>1, <2>3, <3>1 DEF ListedKept
    <3> QED
      BY <1>9, <3>1, <3>2
  <2> QED
    BY <1>1, <1>6, <2>2, <2>3 DEF ListedKept
<1> QED
  BY <1>8, <1>12, <1>13, <1>15, <1>16 DEF LocalInv

\* ~TLCleanup: the thread takes its instances off the registry, or finds none.
LEMMA CleansLocals ==
    ASSUME LocalInv, Calm, NEW t \in Threads, t # Main, TL!ExitCleans(t, phase # "dead"), phase' = phase
    PROVE  LocalInv'
<1>t. LocalTypes /\ OrderOwn /\ TodoOwn /\ ThreadsOK
  BY DEF LocalInv
<1>1. /\ thread[t].state = "exiting" /\ thread[t].made # <<>> /\ TL!Last(thread[t].made) = "cleanup"
      /\ thread' = [thread EXCEPT ![t].state = "cleaning"] /\ UNCHANGED <<registered, local>>
  BY DEF TL!ExitCleans, TL!Exiting
<1>f. /\ ThreadOK(thread[t].state, thread[t].made, order[t], todo[t], Holds(stores, t), t \in registered,
                  t = Main /\ Sweeping)
      /\ thread[t].made \in Objects
      /\ registered \in SUBSET Threads /\ stores \in Seq(Threads) /\ Once(stores)
  BY ThreadFacts
<1>2. thread[t].made \in {<<"cleanup">>, <<"data", "cleanup">>} /\ t \in registered
  BY <1>1, <1>f, MadeObjects DEF ThreadOK, HasCleanup
<1>3. Threadly(thread', t, "cleaning", thread[t].made)
  BY <1>1, <1>f, <1>t, ThreadSet DEF ThreadStates
<1>4. todo[t] = <<>>
  BY <1>1, <1>f DEF ThreadOK
<1>5. CASE phase # "dead" /\ order[t] # <<>>
  <2>1. /\ todo' = [todo EXCEPT ![t] = TL!Reverse(order[t])] /\ order' = [order EXCEPT ![t] = <<>>]
        /\ stores' = TL!FlattenSeq([n \in 1..Len(stores) |-> IF stores[n] = t THEN <<>> ELSE <<stores[n]>>])
    BY <1>2, <1>5 DEF TL!ExitCleans, TL!CleanupCurrentThread
  <2>2. stores' \in Seq(Threads) /\ Once(stores') /\ \A x : Holds(stores', x) <=> (Holds(stores, x) /\ x # t)
    <3>1. Removed(stores, t, stores')
      BY <2>1 DEF Removed
    <3> QED
      BY <1>f, <3>1, HoldsRemoved
  <2>3. order[t] \in Seq(1..Len(local)) /\ Once(order[t])
    BY <1>t, LocalFacts DEF OrderOwn
  <2>4. /\ TL!Reverse(order[t]) \in Seq(1..Len(local)) /\ Once(TL!Reverse(order[t]))
        /\ \A x : Holds(TL!Reverse(order[t]), x) <=> Holds(order[t], x)
    BY <2>3, HoldsReverse
  <2>5. /\ todo'[t] = TL!Reverse(order[t]) /\ (\A u \in Threads \ {t} : todo'[u] = todo[u])
        /\ todo' \in [Threads -> Seq(1..Len(local))]
        /\ order'[t] = <<>> /\ (\A u \in Threads \ {t} : order'[u] = order[u])
        /\ order' \in [Threads -> Seq(1..Len(local))]
    BY <2>1, <2>4, <1>t DEF LocalTypes
  <2>6. LocalTypes'
    BY <1>1, <1>3, <1>f, <1>t, <2>2, <2>5 DEF LocalTypes, Threadly
  <2>7. OrderOwn'
    BY <1>1, <1>t, <2>5, OrderShrinks
  <2>8. TodoOwn'
    <3>1. \A u \in Threads : \A x : Holds(todo'[u], x) <=> (Holds(todo[u], x) \/ (u = t /\ Holds(order[t], x)))
      BY <1>4, <2>4, <2>5, HoldsNone
    <3>2. \A u \in Threads : \A x : Holds(order'[u], x) <=> (Holds(order[u], x) /\ u # t)
      BY <2>5, HoldsNone
    <3>o. \A u, v \in Threads : \A x : Holds(order[u], x) /\ Holds(order[v], x) => u = v
      BY <1>t DEF OrderOwn
    <3>3. ASSUME NEW u \in Threads
          PROVE  /\ Once(todo'[u])
                 /\ \A x : Holds(todo'[u], x) => local[x].life = "made"
                 /\ \A v \in Threads : \A x : Holds(todo'[u], x) /\ Holds(todo'[v], x) => u = v
                 /\ \A v \in Threads : \A x : ~(Holds(todo'[u], x) /\ Holds(order'[v], x))
      <4>1. Once(todo'[u])
        BY <1>t, <2>4, <2>5 DEF TodoOwn
      <4>2. \A x : Holds(todo'[u], x) => local[x].life = "made"
        BY <1>t, <3>1 DEF TodoOwn, OrderOwn
      <4>3. \A v \in Threads : \A x : Holds(todo'[u], x) /\ Holds(todo'[v], x) => u = v
        BY <1>t, <3>1 DEF TodoOwn
      <4>4. \A v \in Threads : \A x : ~(Holds(todo'[u], x) /\ Holds(order'[v], x))
        BY <1>t, <3>1, <3>2, <3>o DEF TodoOwn
      <4> QED
        BY <4>1, <4>2, <4>3, <4>4
    <3> QED
      BY <1>1, <3>3 DEF TodoOwn
  <2>9. \A u \in Threads \ {t} : Alike(u)
    BY <1>1, <1>3, <2>2, <2>5 DEF Alike, Threadly
  <2>10. ThreadsOK'
    <3>1. thread[t].made = <<"data", "cleanup">>
      BY <1>2, <1>5, <1>f, ObjectsDiffer DEF ThreadOK, HasData
    <3>2. ThreadOK("cleaning", thread[t].made, <<>>, todo'[t], FALSE, TRUE, t = Main /\ Sweeping')
      BY <3>1, ObjectsDiffer DEF ThreadOK, HasData
    <3>3. ~Holds(stores', t) /\ t \in registered'
      BY <1>1, <1>2, <2>2
    <3>4. ThreadOK(thread'[t].state, thread'[t].made, order'[t], todo'[t], Holds(stores', t),
                   t \in registered', t = Main /\ Sweeping')
      BY <1>3, <2>5, <3>2, <3>3 DEF Threadly, ThreadOK
    <3>5. thread'[Main].state = "running"
      BY <1>3, <1>t, ContainerConstants DEF ThreadsOK, Threadly
    <3> QED
      BY <1>t, <2>2, <2>9, <3>4, <3>5, ThreadsAlike
  <2>11. ExitsOK'
    <3>1. ExitOK(thread'[t].state, thread'[t].made, order'[t], Holds(stores', t))
      BY <2>5 DEF ExitOK
    <3> QED
      BY <1>5, <2>9, <3>1, ExitsAlike DEF LocalInv
  <2>12. ListedKept'
    <3>1. ASSUME NEW i \in 1..Len(local), local[i].life = "made", local[i].listed
          PROVE  \/ Holds(order'[local[i].thread], i) /\ Holds(stores', local[i].thread)
                 \/ \E u \in Threads : Holds(todo'[u], i)
      <4>1. local[i].thread \in Threads
        BY <1>t, LocalFacts
      <4>2. \/ Holds(order[local[i].thread], i) /\ Holds(stores, local[i].thread)
            \/ \E u \in Threads : Holds(todo[u], i)
        BY <1>5, <3>1 DEF LocalInv, ListedKept
      <4>3. CASE \E u \in Threads : Holds(todo[u], i)
        <5>1. PICK u \in Threads : Holds(todo[u], i)
          BY <4>3
        <5>2. u # t
          BY <1>4, <5>1, HoldsNone
        <5> QED
          BY <2>5, <5>1, <5>2
      <4>4. CASE local[i].thread = t /\ Holds(order[t], i)
        BY <2>4, <2>5, <4>4
      <4>5. CASE local[i].thread # t /\ Holds(order[local[i].thread], i) /\ Holds(stores, local[i].thread)
        BY <2>2, <2>5, <4>1, <4>5
      <4> QED
        BY <4>2, <4>3, <4>4, <4>5
    <3> QED
      BY <1>1, <3>1 DEF ListedKept
  <2> QED
    BY <2>6, <2>7, <2>8, <2>10, <2>11, <2>12 DEF LocalInv
<1>6. CASE ~(phase # "dead" /\ order[t] # <<>>)
  <2>1. UNCHANGED <<todo, order, stores>>
    BY <1>2, <1>6 DEF TL!ExitCleans
  <2>2. ThreadOK("cleaning", thread[t].made, order[t], todo[t], Holds(stores, t), t \in registered, t = Main /\
          Sweeping')
    BY <1>1, <1>2, <1>4, <1>f DEF ThreadOK
  <2>3. phase' # "dead" => ExitOK("cleaning", thread[t].made, order[t], Holds(stores, t))
    BY <1>6 DEF ExitOK
  <2> QED
    BY <1>1, <1>3, <1>f, <2>1, <2>2, <2>3, QuietThread
<1> QED
  BY <1>5, <1>6

\* stop() collects the instances of the listed threads.
LEMMA SweepLocals ==
    ASSUME LocalInv, Calm, ~Sweeping, Sweeping', TL!Sweep
    PROVE  LocalInv'
<1>t. LocalTypes /\ OrderOwn /\ TodoOwn /\ ThreadsOK
  BY DEF LocalInv
<1>m. Main \in Threads
  BY ContainerConstants
<1>1. /\ todo' = [todo EXCEPT ![Main] = TL!Reverse(TL!FlattenSeq([n \in 1..Len(stores) |-> order[stores[n]]]))]
      /\ order' = [t \in Threads |-> IF TL!Listed(t) THEN <<>> ELSE order[t]]
      /\ stores' = <<>> /\ UNCHANGED <<thread, registered, local>>
  BY DEF TL!Sweep
<1>f. /\ stores \in Seq(Threads) /\ Once(stores) /\ order \in [Threads -> Seq(1..Len(local))]
      /\ todo \in [Threads -> Seq(1..Len(local))] /\ thread[Main].state = "running"
      /\ \A t \in Threads : Once(order[t])
  BY <1>t DEF LocalTypes, ThreadsOK, OrderOwn
<1>o. \A t, u \in Threads : \A x : Holds(order[t], x) /\ Holds(order[u], x) => t = u
  BY <1>t DEF OrderOwn
<1>2. PICK q : Collected(stores, order, q)
  BY DEF Collected
<1>3. /\ q \in Seq(1..Len(local)) /\ Once(q)
      /\ \A x : Holds(q, x) <=> \E t \in Threads : Holds(stores, t) /\ Holds(order[t], x)
  <2>1. Sweepable(1..Len(local), Threads, stores, order)
    BY <1>f, <1>o DEF Sweepable
  <2> QED
    BY <1>2, <2>1, HoldsCollected
<1>4. PICK r : r = TL!Reverse(q)
  OBVIOUS
<1>5. r \in Seq(1..Len(local)) /\ Once(r) /\ \A x : Holds(r, x) <=> Holds(q, x)
  BY <1>3, <1>4, HoldsReverse
<1>6. /\ todo'[Main] = r /\ (\A u \in Threads \ {Main} : todo'[u] = todo[u])
      /\ todo' \in [Threads -> Seq(1..Len(local))]
  <2>1. todo' = [todo EXCEPT ![Main] = r]
    BY <1>1, <1>2, <1>4 DEF Collected
  <2> QED
    BY <1>5, <1>f, <1>m, <2>1
<1>l. \A t : (TL!Listed(t)) <=> (Holds(stores, t))
  BY DEF TL!Listed, Holds
<1>7. /\ \A t \in Threads : order'[t] = IF Holds(stores, t) THEN <<>> ELSE order[t]
      /\ order' \in [Threads -> Seq(1..Len(local))]
  <2>1. \A t \in Threads : order'[t] = IF TL!Listed(t) THEN <<>> ELSE order[t]
    BY <1>1
  <2>2. \A t \in Threads : order'[t] \in Seq(1..Len(local))
    <3>1. <<>> \in Seq(1..Len(local))
      OBVIOUS
    <3> QED
      BY <1>f, <2>1, <3>1
  <2> QED
    BY <1>1, <1>l, <2>1, <2>2
<1>8. todo[Main] = <<>>
  BY <1>m, <1>f, ThreadFacts DEF ThreadOK
<1>9. LocalTypes'
  <2>1. stores' \in Seq(Threads)
    BY <1>1
  <2> QED
    BY <1>1, <1>6, <1>7, <1>t, <2>1 DEF LocalTypes
<1>10. OrderOwn'
  BY <1>1, <1>7, <1>t, OrderShrinks
<1>a. \A u \in Threads : \A x :
        Holds(todo'[u], x) <=>
            \/ Holds(todo[u], x)
            \/ u = Main /\ \E t \in Threads : Holds(stores, t) /\ Holds(order[t], x)
  BY <1>3, <1>5, <1>6, <1>8, HoldsNone
<1>b. \A u \in Threads : \A x : Holds(order'[u], x) <=> (Holds(order[u], x) /\ ~Holds(stores, u))
  BY <1>7, HoldsNone
<1>11. TodoOwn'
  <2>1. ASSUME NEW u \in Threads
        PROVE  /\ Once(todo'[u])
               /\ \A x : Holds(todo'[u], x) => local[x].life = "made"
               /\ \A v \in Threads : \A x : Holds(todo'[u], x) /\ Holds(todo'[v], x) => u = v
               /\ \A v \in Threads : \A x : ~(Holds(todo'[u], x) /\ Holds(order'[v], x))
    <3>1. Once(todo'[u])
      BY <1>5, <1>6, <1>t DEF TodoOwn
    <3>2. \A x : Holds(todo'[u], x) => local[x].life = "made"
      BY <1>a, <1>t DEF TodoOwn, OrderOwn
    <3>3. \A v \in Threads : \A x : Holds(todo'[u], x) /\ Holds(todo'[v], x) => u = v
      BY <1>a, <1>t DEF TodoOwn
    <3>4. \A v \in Threads : \A x : ~(Holds(todo'[u], x) /\ Holds(order'[v], x))
      BY <1>a, <1>b, <1>o, <1>t DEF TodoOwn
    <3> QED
      BY <3>1, <3>2, <3>3, <3>4
  <2> QED
    BY <1>1, <2>1 DEF TodoOwn
<1>12. \A x : ~Holds(stores', x)
  BY <1>1, HoldsNone
<1>13. ThreadsOK'
  <2>1. ASSUME NEW u \in Threads
        PROVE  ThreadOK(thread[u].state, thread[u].made, order'[u], todo'[u], Holds(stores', u),
                        u \in registered, u = Main /\ Sweeping')
    <3>1. /\ ThreadOK(thread[u].state, thread[u].made, order[u], todo[u], Holds(stores, u), u \in registered,
                      u = Main /\ Sweeping)
          /\ u = Main => thread[u].state = "running"
      BY ThreadFacts
    <3>2. order'[u] # <<>> => order[u] # <<>>
      BY <1>7
    <3>3. u # Main => todo'[u] = todo[u]
      BY <1>6
    <3> QED
      BY <1>12, <3>1, <3>2, <3>3 DEF ThreadOK
  <2>2. Once(stores')
    BY <1>1, HoldsNone
  <2> QED
    BY <1>1, <1>f, <2>1, <2>2 DEF ThreadsOK
<1>14. ASSUME phase' # "dead" PROVE ExitsOK' /\ ListedKept'
  <2>1. ListedKept
    BY <1>14 DEF Calm, LocalInv
  <2>2. ExitsOK'
    BY <1>12 DEF ExitsOK, ExitOK
  <2>3. ASSUME NEW i \in 1..Len(local), local[i].life = "made", local[i].listed
        PROVE  \E u \in Threads : Holds(todo'[u], i)
    <3>1. local[i].thread \in Threads
      BY <1>t, LocalFacts
    <3>2. \/ Holds(order[local[i].thread], i) /\ Holds(stores, local[i].thread)
          \/ \E u \in Threads : Holds(todo[u], i)
      BY <2>1, <2>3 DEF ListedKept
    <3> QED
      BY <1>a, <1>m, <3>1, <3>2
  <2> QED
    BY <1>1, <2>2, <2>3 DEF ListedKept
<1> QED
  BY <1>9, <1>10, <1>11, <1>13, <1>14 DEF LocalInv

\* Every step is calm.
LEMMA NextCalm ==
    ASSUME CallsInv, Next
    PROVE  Calm
<1>1. (phase = "dead" => phase' = "dead") /\ (Sweeping => Sweeping' \/ StopReturns)
  BY CallsNext
<1>2. StopReturns => todo[Main] = <<>>
  BY DEF StopReturns
<1> QED
  BY <1>1, <1>2 DEF Calm

\* A hook touches a thread-local bean.
LEMMA HookBean ==
    ASSUME LocalInv, NEW t \in Threads, TL!HookTouches(t)
    PROVE  \E b \in Beans : TL!Touch(t, b)
<1>1. todo[t] # <<>> /\ \E b \in Uses[local[Head(todo[t])].bean] : TL!Touch(t, b)
  BY DEF TL!HookTouches
<1>2. LocalTypes /\ Once(todo[t])
  BY DEF LocalInv, TodoOwn
<1>3. todo[t] \in Seq(1..Len(local))
  BY <1>2, LocalFacts
<1>4. Head(todo[t]) \in 1..Len(local)
  BY <1>1, <1>2, <1>3, HoldsTail
<1>5. local[Head(todo[t])].bean \in Beans
  <2>1. local[Head(todo[t])] \in Instance
    BY <1>2, <1>4, LocalFacts
  <2> QED
    BY <2>1 DEF Instance
<1>6. Uses[local[Head(todo[t])].bean] \subseteq Beans
  BY <1>5, ContainerConstants
<1> QED
  BY <1>1, <1>6

\* Every step of registry or thread keeps LocalInv.
LEMMA StepLocals ==
    ASSUME CallsInv, LocalInv, Next
    PROVE  LocalInv'
<1>c. Calm
  BY NextCalm
<1>m. Main \in Threads /\ thread[Main].state = "running"
  BY ContainerConstants DEF LocalInv, ThreadsOK
<1>1. CASE ClaimByOwner
  BY <1>1, <1>c, <1>m, ClaimLocals DEF ClaimByOwner
<1>2. CASE OwnerAlone \/ StopReturns \/ RegistryEnds
  <2>1. UNCHANGED <<thread, registered, order, stores, local, todo>>
    BY <1>2 DEF OwnerAlone, StopReturns, RegistryEnds, tlVars
  <2> QED
    BY <1>c, <2>1, LocalsSame
<1>3. CASE StopCollects
  <2>1. In("stop", "released") /\ Goto([Top EXCEPT !.at = "sweeping"]) /\ TL!Sweep /\ GotoSteps
    BY <1>3 DEF StopCollects, StopSweeps, GotoSteps
  <2>2. ~Sweeping
    BY <2>1 DEF Sweeping, In
  <2>3. Sweeping'
    <3>0. frames # <<>> /\ Top.op = "stop"
      BY <2>1 DEF In
    <3>1. PICK f : SetAt(Top, "sweeping", f)
      BY DEF SetAt
    <3>2. Goto(f)
      BY <2>1, <3>1 DEF SetAt
    <3>3. IsCall(Top)
      BY <3>0, TopFacts DEF CallOK
    <3>4. IsCall(f) /\ f.op = "stop" /\ f.at = "sweeping"
      BY <3>0, <3>1, <3>3, CallAt
    <3>5. PointOK(f)
      BY <3>4 DEF PointOK
    <3>6. UNCHANGED <<phase, started, cat>>
      BY <2>1, StepGoesOn
    <3>7. /\ CallsInv' /\ Len(frames') = Len(frames)
          /\ \A n \in 1..Len(frames) : frames'[n] = IF n = Len(frames) THEN f ELSE frames[n]
      BY <3>0, <3>2, <3>4, <3>5, <3>6, CallsGoto
    <3>8. Len(frames) \in Nat \ {0} /\ Len(frames) \in 1..Len(frames)
      BY <3>0, TopFacts
    <3>9. frames'[Len(frames')] = f /\ frames' # <<>>
      BY <3>7, <3>8
    <3> QED
      BY <3>4, <3>9 DEF Sweeping, In, Top, Depth
  <2> QED
    BY <1>c, <2>1, <2>2, <2>3, SweepLocals
<1>4. CASE SweepStep
  <2>1. Sweeping /\ UNCHANGED vars /\ (TL!DestroyNext(Main) \/ TL!HookTouches(Main))
    BY <1>4 DEF SweepStep, Sweeping
  <2>2. Sweeping'
    BY <2>1 DEF Sweeping, In, Top, Depth, vars
  <2>3. CASE TL!DestroyNext(Main)
    BY <1>c, <1>m, <2>2, <2>3, DestroyLocals
  <2>4. CASE TL!HookTouches(Main)
    <3>1. PICK b \in Beans : TL!Touch(Main, b)
      BY <1>m, <2>4, HookBean
    <3>2. MayTouch(Main)
      BY <1>m DEF MayTouch
    <3> QED
      BY <1>c, <1>m, <3>1, <3>2, TouchLocals
  <2> QED
    BY <2>1, <2>3, <2>4
<1>5. ASSUME NEW t \in Threads, ClaimByOther(t) PROVE LocalInv'
  BY <1>5, <1>c, ClaimLocals DEF ClaimByOther, Calls
<1>6. ASSUME NEW t \in Threads, OtherThread(t) PROVE LocalInv'
  <2>1. t # Main /\ phase' = phase
    BY <1>6, ContainerConstants DEF OtherThread, CallsInv, vars
  <2>2. CASE TL!Spawn(t) \/ TL!ExitBegins(t) \/ TL!ExitDone(t) \/ TL!ExitCleaned(t)
    BY <1>c, <2>1, <2>2, LifeLocals
  <2>3. CASE TL!ExitCleans(t, phase # "dead")
    BY <1>c, <2>1, <2>3, CleansLocals
  <2>4. CASE TL!ExitForgets(t)
    BY <1>c, <2>1, <2>4, ForgetsLocals
  <2>5. CASE TL!DestroyNext(t)
    BY <1>c, <2>1, <2>5, DestroyLocals
  <2>6. CASE thread[t].state = "cleaning" /\ TL!HookTouches(t)
    <3>1. PICK b \in Beans : TL!Touch(t, b)
      BY <2>6, HookBean
    <3>2. MayTouch(t)
      BY <2>6 DEF MayTouch, TL!HookTouches
    <3> QED
      BY <1>c, <3>1, <3>2, TouchLocals
  <2> QED
    BY <1>6, <2>2, <2>3, <2>4, <2>5, <2>6 DEF OtherThread
<1>7. ASSUME NEW t \in Threads, NEW b \in Beans, TouchLocal(t, b) PROVE LocalInv'
  <2>1. thread[t].state = "running" /\ MayTouch(t) /\ (TL!Touch(t, b) \/ TL!TouchThrows(t, b))
    BY <1>7 DEF TouchLocal, Calls, MayTouch
  <2> QED
    BY <1>c, <2>1, TouchLocals, TouchThrowsLocals
<1> QED
  BY <1>1, <1>2, <1>3, <1>4, <1>5, <1>6, <1>7 DEF Next

\* Nothing is there at first.
LEMMA LocalsStart ==
    ASSUME ContainerInit
    PROVE  CallsInv /\ LocalInv
<1>1. CallsInv
  <2>1. frames = <<>> /\ <<>> \in Seq({}) /\ Len(<<>>) = 0 /\ phase = "live" /\ cat \in Catalogs
    BY DEF ContainerInit, Init
  <2> QED
    BY <2>1 DEF CallsInv, IsSeq
<1>2. /\ thread = [t \in Threads |-> [state |-> IF t = Main THEN "running" ELSE "new", made |-> <<>>]]
      /\ registered = {} /\ stores = <<>> /\ order = [t \in Threads |-> <<>>] /\ local = <<>>
      /\ todo = [t \in Threads |-> <<>>]
  BY DEF ContainerInit, TL!Init
<1>3. \A x : ~Holds(<<>>, x)
  BY HoldsNone
<1>4. LocalTypes
  BY <1>2 DEF LocalTypes, ThreadStates, Objects
<1>5. OrderOwn /\ TodoOwn
  BY <1>2, HoldsNone DEF OrderOwn, TodoOwn
<1>6. ThreadsOK
  <2>1. ASSUME NEW t \in Threads
        PROVE  ThreadOK(thread[t].state, thread[t].made, order[t], todo[t], Holds(stores, t),
                        t \in registered, t = Main /\ Sweeping)
    <3>1. thread[t].made = <<>> /\ thread[t].state # "cleaning" /\ order[t] = <<>> /\ todo[t] = <<>> /\
            ~Holds(stores, t)
      BY <1>2, <1>3
    <3> QED
      BY <3>1, ObjectsDiffer DEF ThreadOK, HasCleanup
  <2>2. thread[Main].state = "running" /\ Once(stores)
    BY <1>2, HoldsNone, ContainerConstants
  <2> QED
    BY <2>1, <2>2 DEF ThreadsOK
<1>7. ExitsOK /\ ListedKept
  BY <1>2 DEF ExitsOK, ExitOK, ListedKept
<1> QED
  BY <1>1, <1>4, <1>5, <1>6, <1>7 DEF LocalInv

\* CallsInv and LocalInv hold at all times.
LEMMA LocalsInductive == Spec => [](CallsInv /\ LocalInv)
<1>1. ContainerInit => CallsInv /\ LocalInv
  BY LocalsStart
<1>2. CallsInv /\ LocalInv /\ [Next]_allVars => CallsInv' /\ LocalInv'
  <2> SUFFICES ASSUME CallsInv, LocalInv, [Next]_allVars PROVE CallsInv' /\ LocalInv'
    OBVIOUS
  <2>1. CASE Next
    BY <2>1, CallsNext, StepLocals
  <2>2. CASE UNCHANGED allVars
    <3>1. UNCHANGED <<frames, phase, started, cat>> /\ UNCHANGED <<thread, registered, order, stores, local, todo>>
      BY <2>2 DEF allVars, vars, tlVars
    <3>2. Calm
      BY <3>1 DEF Calm, Sweeping, In, Top, Depth
    <3> QED
      BY <3>1, <3>2, CallsSame, LocalsSame
  <2> QED
    BY <2>1, <2>2
<1> QED
  BY <1>1, <1>2, PTL DEF Spec

\* Range, in the words of Holds.
LEMMA RangeHolds ==
    ASSUME LocalInv, NEW t \in Threads, NEW x
    PROVE  /\ (x \in TL!Range(order[t])) <=> (Holds(order[t], x))
           /\ (x \in TL!Range(todo[t])) <=> (Holds(todo[t], x))
<1>1. order[t] \in Seq(1..Len(local)) /\ todo[t] \in Seq(1..Len(local))
  BY LocalFacts DEF LocalInv
<1>2. DOMAIN order[t] = 1..Len(order[t]) /\ DOMAIN todo[t] = 1..Len(todo[t])
  BY <1>1
<1> QED
  BY <1>2 DEF TL!Range, Holds

\* findInstance() on a thread: whatever the other threads, their exits and stop() do,
\* the instance it gives is of that thread, alive, the only one of its bean there,
\* and no exit and no stop() is about to destroy it.
THEOREM LocalsAreOwn == Spec => []LocalIsOwn
<1>1. LocalInv => LocalIsOwn
  <2> SUFFICES ASSUME LocalInv, NEW t \in Threads, NEW n \in 1..Len(order[t]), NEW i, i = order[t][n]
               PROVE  /\ local[i].thread = t /\ local[i].life = "made"
                      /\ TL!FindInstance(t, local[i].bean) = {i}
                      /\ \A u \in Threads : i \notin TL!Range(todo[u])
    BY DEF LocalIsOwn, TL!FoundIsOwn
  <2>1. Holds(order[t], i) /\ LocalTypes /\ OrderOwn /\ TodoOwn
    BY DEF Holds, LocalInv
  <2>2. i \in 1..Len(local)
    BY <2>1, LocalFacts
  <2>3. \A j : j \in TL!FindInstance(t, local[i].bean) <=>
          (j \in 1..Len(local) /\ local[j].bean = local[i].bean /\ Holds(order[t], j))
    BY DEF TL!FindInstance, Holds
  <2>4. \A j : j \in TL!FindInstance(t, local[i].bean) <=> j = i
    BY <2>1, <2>2, <2>3 DEF OrderOwn
  <2>5. TL!FindInstance(t, local[i].bean) = {i}
    BY <2>4
  <2>6. \A u \in Threads : i \notin TL!Range(todo[u])
    BY <2>1, RangeHolds DEF TodoOwn
  <2> QED
    BY <2>1, <2>5, <2>6 DEF OrderOwn
<1> QED
  BY <1>1, LocalsInductive, PTL

\* Cardinality as ThreadLocal knows it.
LEMMA OneElement ==
    ASSUME NEW x
    PROVE  TL!Cardinality({x}) = 1
<1>1. TL!Cardinality({x}) = Cardinality({x})
  BY DEF TL!Cardinality, Cardinality
<1>2. Cardinality({x}) = 1
  BY FS_Singleton
<1> QED
  BY <1>1, <1>2

\* cleanupCurrentThread() and the sweep of stop() race for the instances of a thread
\* that exits: while there is a registry, each live instance of a listed thread is
\* still the thread's or is on exactly one list of instances to destroy.
THEOREM LocalsDestroyedOnce == Spec => []LocalsDestroyed
<1>1. LocalInv => LocalsDestroyed
  <2> SUFFICES ASSUME LocalInv, phase # "dead", NEW i \in 1..Len(local), local[i].life = "made", local[i].listed
               PROVE  \/ /\ i \in TL!Range(order[local[i].thread])
                         /\ TL!Listed(local[i].thread)
                      \/ TL!Cardinality({t \in Threads : i \in TL!Range(todo[t])}) = 1
    BY DEF LocalsDestroyed, TL!ListedAreDestroyed
  <2>1. LocalTypes /\ TodoOwn /\ ListedKept
    BY DEF LocalInv
  <2>2. local[i].thread \in Threads
    BY <2>1, LocalFacts
  <2>3. CASE Holds(order[local[i].thread], i) /\ Holds(stores, local[i].thread)
    <3>1. TL!Listed(local[i].thread)
      BY <2>3 DEF TL!Listed, Holds
    <3> QED
      BY <2>2, <2>3, <3>1, RangeHolds
  <2>4. CASE \E t \in Threads : Holds(todo[t], i)
    <3>1. PICK t \in Threads : Holds(todo[t], i)
      BY <2>4
    <3>2. \A u \in Threads : (i \in TL!Range(todo[u])) <=> (u = t)
      BY <2>1, <3>1, RangeHolds DEF TodoOwn
    <3>3. {u \in Threads : i \in TL!Range(todo[u])} = {t}
      BY <3>2
    <3>4. TL!Cardinality({t}) = 1
      BY OneElement
    <3> QED
      BY <3>3, <3>4
  <2> QED
    BY <2>1, <2>3, <2>4 DEF ListedKept
<1> QED
  BY <1>1, LocalsInductive, PTL

-----------------------------------------------------------------------------
(* The tokens of the wait graph.                                           *)

TokenType ==
    /\ token \in [Threads -> Nat] /\ free \in Seq(Nat) /\ next \in Nat
    /\ \A t \in Threads : token[t] <= next
    /\ \A n \in 1..Len(free) : free[n] \in 1..next

HeldOnce == \A t, u \in Threads : t # u /\ token[t] # 0 => token[t] # token[u]
HeldOrFree == \A t \in Threads : \A n \in 1..Len(free) : token[t] # free[n]
FreeOnce == \A m, n \in 1..Len(free) : free[m] = free[n] => m = n

\* TokensDistinct is inductive only with the bound: a fresh token is above next,
\* and nothing in use is.
TokenInv == TokenType /\ HeldOnce /\ HeldOrFree /\ FreeOnce

TokensSame == UNCHANGED <<token, free, next>>

-----------------------------------------------------------------------------

\* The end of a sequence, and what is before it.
LEMMA LastAndFront ==
    ASSUME NEW s \in Seq(Nat), s # <<>>
    PROVE  /\ Len(s) \in Nat \ {0}
           /\ TL!Last(s) = s[Len(s)] /\ TL!Last(s) \in Nat
           /\ TL!Front(s) \in Seq(Nat) /\ Len(TL!Front(s)) = Len(s) - 1
           /\ \A n \in 1..(Len(s) - 1) : TL!Front(s)[n] = s[n]
<1>1. Len(s) \in Nat \ {0}
  OBVIOUS
<1>2. TL!Last(s) = s[Len(s)] /\ TL!Last(s) \in Nat
  BY <1>1 DEF TL!Last
<1>3. TL!Front(s) = SubSeq(s, 1, Len(s) - 1)
  BY DEF TL!Front
<1>4. /\ SubSeq(s, 1, Len(s) - 1) \in Seq(Nat) /\ Len(SubSeq(s, 1, Len(s) - 1)) = Len(s) - 1
      /\ \A n \in 1..(Len(s) - 1) : SubSeq(s, 1, Len(s) - 1)[n] = s[n]
  <2>1. Len(s) - 1 \in Int /\ 1 \in Int /\ \A n \in 1..(Len(s) - 1) : s[n] \in Nat
    BY <1>1
  <2>2. /\ SubSeq(s, 1, Len(s) - 1) \in Seq(Nat)
        /\ Len(SubSeq(s, 1, Len(s) - 1)) = IF 1 <= Len(s) - 1 THEN (Len(s) - 1) - 1 + 1 ELSE 0
        /\ \A n \in 1..((Len(s) - 1) - 1 + 1) : SubSeq(s, 1, Len(s) - 1)[n] = s[1 + n - 1]
    BY <2>1, SubSeqProperties
  <2>3. (Len(s) - 1) - 1 + 1 = Len(s) - 1 /\ \A n \in 1..(Len(s) - 1) : 1 + n - 1 = n
    BY <1>1
  <2> QED
    BY <1>1, <2>2, <2>3
<1> QED
  BY <1>1, <1>2, <1>3, <1>4

\* A step that leaves the tokens alone.
LEMMA SameTokens ==
    ASSUME TokenInv, TokensSame
    PROVE  TokenInv'
BY DEF TokenInv, TokenType, HeldOnce, HeldOrFree, FreeOnce, TokensSame

\* materializationThreadToken(): the token is the thread's already, the last one
\* of the free list, or a new one.
LEMMA TokenTaken ==
    ASSUME TokenInv, NEW t \in Threads, TL!TakeToken(t)
    PROVE  TokenInv'
<1>1. CASE token[t] # 0
  <2>1. TokensSame
    BY <1>1 DEF TL!TakeToken, TL!tokens, TokensSame
  <2> QED
    BY <2>1, SameTokens
<1>2. CASE token[t] = 0 /\ free # <<>>
  <2>1. token' = [token EXCEPT ![t] = TL!Last(free)] /\ free' = TL!Front(free) /\ next' = next
    BY <1>2 DEF TL!TakeToken
  <2>2. free \in Seq(Nat) /\ next \in Nat /\ token \in [Threads -> Nat]
    BY DEF TokenInv, TokenType
  <2>3. /\ Len(free) \in Nat \ {0} /\ TL!Last(free) = free[Len(free)] /\ TL!Last(free) \in Nat
        /\ free' \in Seq(Nat) /\ Len(free') = Len(free) - 1
        /\ \A n \in 1..(Len(free) - 1) : free'[n] = free[n]
    BY <1>2, <2>1, <2>2, LastAndFront
  <2>4. /\ token'[t] = free[Len(free)]
        /\ \A u \in Threads \ {t} : token'[u] = token[u]
        /\ token' \in [Threads -> Nat]
    BY <2>1, <2>2, <2>3
  <2>5. TokenType'
    BY <2>1, <2>2, <2>3, <2>4 DEF TokenInv, TokenType
  <2>6. HeldOnce'
    BY <2>3, <2>4 DEF TokenInv, HeldOnce, HeldOrFree
  <2>7. HeldOrFree'
    BY <2>3, <2>4 DEF TokenInv, HeldOrFree, FreeOnce
  <2>8. FreeOnce'
    BY <2>3 DEF TokenInv, FreeOnce
  <2> QED
    BY <2>5, <2>6, <2>7, <2>8 DEF TokenInv
<1>3. CASE token[t] = 0 /\ free = <<>>
  <2>1. token' = [token EXCEPT ![t] = next + 1] /\ free' = free /\ next' = next + 1
    BY <1>3 DEF TL!TakeToken
  <2> QED
    BY <1>3, <2>1 DEF TokenInv, TokenType, HeldOnce, HeldOrFree, FreeOnce
<1> QED
  BY <1>1, <1>2, <1>3

\* recycleMaterializationThreadToken() at the thread's exit.
LEMMA TokenReturned ==
    ASSUME TokenInv, NEW t \in Threads, TL!ExitCleaned(t)
    PROVE  TokenInv'
<1>1. /\ token' = [token EXCEPT ![t] = 0] /\ next' = next
      /\ free' = IF token[t] = 0 THEN free ELSE Append(free, token[t])
  BY DEF TL!ExitCleaned
<1>2. CASE token[t] = 0
  BY <1>1, <1>2 DEF TokenInv, TokenType, HeldOnce, HeldOrFree, FreeOnce
<1>3. CASE token[t] # 0
  <2>1. free \in Seq(Nat) /\ next \in Nat /\ token \in [Threads -> Nat] /\ token[t] \in 1..next
    BY <1>3 DEF TokenInv, TokenType
  <2>2. /\ free' = Append(free, token[t]) /\ free' \in Seq(Nat)
        /\ Len(free) \in Nat /\ Len(free') = Len(free) + 1 /\ free'[Len(free) + 1] = token[t]
        /\ \A n \in 1..Len(free) : free'[n] = free[n]
    BY <1>1, <1>3, <2>1
  <2>3. token'[t] = 0 /\ (\A u \in Threads \ {t} : token'[u] = token[u]) /\ token' \in [Threads -> Nat]
    BY <1>1, <2>1
  <2>4. TokenType'
    BY <1>1, <2>1, <2>2, <2>3 DEF TokenInv, TokenType
  <2>5. HeldOnce'
    BY <2>3 DEF TokenInv, HeldOnce
  <2>6. HeldOrFree'
    <3> SUFFICES ASSUME NEW u \in Threads, NEW n \in 1..Len(free')
                 PROVE  token'[u] # free'[n]
      BY DEF HeldOrFree
    <3>1. CASE u = t
      <4>1. \A m \in 1..Len(free) : free'[m] # 0
        BY <2>2 DEF TokenInv, TokenType
      <4>2. n \in 1..Len(free) \/ n = Len(free) + 1
        BY <2>2
      <4> QED
        BY <1>3, <2>2, <2>3, <3>1, <4>1, <4>2
    <3>2. CASE u # t /\ n \in 1..Len(free)
      BY <2>2, <2>3, <3>2 DEF TokenInv, HeldOrFree
    <3>3. CASE u # t /\ n = Len(free) + 1
      BY <1>3, <2>2, <2>3, <3>3 DEF TokenInv, HeldOnce
    <3> QED
      BY <2>2, <3>1, <3>2, <3>3
  <2>7. FreeOnce'
    BY <2>2 DEF TokenInv, HeldOrFree, FreeOnce
  <2> QED
    BY <2>4, <2>5, <2>6, <2>7 DEF TokenInv
<1> QED
  BY <1>2, <1>3

\* No other step of the registry or of a thread touches the tokens.
LEMMA StepTokens ==
    ASSUME Next
    PROVE  \/ TokensSame
           \/ \E t \in Threads : TL!TakeToken(t)
           \/ \E t \in Threads : TL!ExitCleaned(t)
<1>1. CASE ClaimByOwner
  BY <1>1, ContainerConstants DEF ClaimByOwner, TL!Claim
<1>2. CASE OwnerAlone \/ StopReturns \/ RegistryEnds
  BY <1>2 DEF OwnerAlone, StopReturns, RegistryEnds, tlVars, TokensSame
<1>3. CASE StopCollects
  BY <1>3 DEF StopCollects, TL!Sweep, TL!tokens, TokensSame
<1>4. CASE SweepStep
  BY <1>4 DEF SweepStep, TL!DestroyNext, TL!HookTouches, TL!Touch, TL!tokens, TokensSame
<1>5. ASSUME NEW t \in Threads, ClaimByOther(t) PROVE TL!TakeToken(t)
  BY <1>5 DEF ClaimByOther, TL!Claim
<1>6. ASSUME NEW t \in Threads, OtherThread(t) PROVE TokensSame \/ TL!ExitCleaned(t)
  BY <1>6 DEF OtherThread, TL!Spawn, TL!ExitBegins, TL!ExitCleans, TL!DestroyNext, TL!HookTouches,
              TL!Touch, TL!ExitForgets, TL!ExitDone, TL!tokens, TokensSame
<1>7. ASSUME NEW t \in Threads, NEW b \in Beans, TouchLocal(t, b) PROVE TokensSame
  BY <1>7 DEF TouchLocal, TL!Touch, TL!TouchThrows, TL!tokens, TokensSame
<1> QED
  BY <1>1, <1>2, <1>3, <1>4, <1>5, <1>6, <1>7 DEF Next

\* TokenInv holds at all times.
LEMMA TokenInvHolds == Spec => []TokenInv
<1>1. ContainerInit => TokenInv
  BY DEF ContainerInit, TL!Init, TokenInv, TokenType, HeldOnce, HeldOrFree, FreeOnce
<1>2. TokenInv /\ [Next]_allVars => TokenInv'
  <2> SUFFICES ASSUME TokenInv, [Next]_allVars PROVE TokenInv'
    OBVIOUS
  <2>1. CASE Next
    BY <2>1, StepTokens, SameTokens, TokenTaken, TokenReturned
  <2>2. CASE UNCHANGED allVars
    BY <2>2, SameTokens DEF allVars, tlVars, TokensSame
  <2> QED
    BY <2>1, <2>2
<1> QED
  BY <1>1, <1>2, PTL DEF Spec

\* materializationWaitCycleDetected() follows tokens from thread to thread: at no
\* time do two threads have the same one, and none in use is in the free list, so
\* that an exit gives its token to one later thread at most.
THEOREM TokensNeverShared == Spec => []TokensDistinct
<1>1. TokenInv => TokensDistinct
  <2> SUFFICES ASSUME TokenInv PROVE TokensDistinct
    OBVIOUS
  <2>1. free \in Seq(Nat) /\ DOMAIN free = 1..Len(free)
    BY DEF TokenInv, TokenType
  <2>2. \A t \in Threads : token[t] \notin TL!Range(free)
    BY <2>1 DEF TokenInv, HeldOrFree, TL!Range
  <2>3. TL!IsInjective(free)
    BY <2>1 DEF TokenInv, FreeOnce, TL!IsInjective
  <2> QED
    BY <2>2, <2>3 DEF TokenInv, HeldOnce, TokensDistinct, TL!TokensDistinct
<1> QED
  BY <1>1, TokenInvHolds, PTL
=============================================================================
