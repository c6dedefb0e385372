-------------------------- MODULE LifecycleTableProofs --------------------------
(***************************************************************************)
(* The tables, the store and the instances of a registry: what the         *)
(* operators of TypeIndex and Lifecycle compute, on values, for every      *)
(* number of types, names, contributions and bindings.                     *)
(*                                                                         *)
(* The candidate tables stay well formed under each part of the sort       *)
(* (Index); the store keeps its order by age (StoreOK); every live         *)
(* instance is in the queue of bindings or in the store, and uses only     *)
(* older live ones (InstsOK); the phases of start() make a well formed     *)
(* merge of what was contributed and bound (MergeOK, Completes).           *)
(*                                                                         *)
(* The index is told of every descriptor (Gathered), and once sorted it    *)
(* answers every lookup with the best one (Right); each stage of a bind    *)
(* makes one part of it answer for the new descriptor too (Sited).         *)
(***************************************************************************)
EXTENDS ContainerProofs

-----------------------------------------------------------------------------
(* Sorting by priority.                                                    *)

\* The elements before a are fewer than those of S, and fewer than those before any
\* b that a is before, so that the order of the sort is a strict one.
LEMMA BeforeFacts ==
    ASSUME NEW S \in SUBSET Nat, IsFiniteSet(S), NEW prio, \A c \in S : prio[c] \in Int, NEW a \in S
    PROVE  /\ IsFiniteSet(Before(S, prio, a)) /\ Cardinality(Before(S, prio, a)) \in 0..(Cardinality(S) - 1)
           /\ \A b \in S : a \in Before(S, prio, b) =>
                    Cardinality(Before(S, prio, a)) < Cardinality(Before(S, prio, b))
<1>1. Before(S, prio, a) \in SUBSET (S \ {a})
  BY DEF Before
<1>2. IsFiniteSet(S \ {a}) /\ Cardinality(S \ {a}) = Cardinality(S) - 1 /\ Cardinality(S) \in Nat
  BY FS_RemoveElement, FS_CardinalityType
<1>3. IsFiniteSet(Before(S, prio, a)) /\ Cardinality(Before(S, prio, a)) <= Cardinality(S) - 1
  BY <1>1, <1>2, FS_Subset
<1>4. Cardinality(Before(S, prio, a)) \in Nat
  BY <1>3, FS_CardinalityType
<1>5. ASSUME NEW b \in S, a \in Before(S, prio, b)
      PROVE  Cardinality(Before(S, prio, a)) < Cardinality(Before(S, prio, b))
  <2>1. Before(S, prio, a) \in SUBSET Before(S, prio, b) /\ a \notin Before(S, prio, a)
    <3>0. prio[a] \in Int /\ prio[b] \in Int /\ a \in Nat /\ b \in Nat
      OBVIOUS
    <3>1. prio[a] > prio[b] \/ (prio[a] = prio[b] /\ a < b)
      BY <1>5 DEF Before
    <3>2. ASSUME NEW x \in Before(S, prio, a) PROVE x \in Before(S, prio, b)
      <4>1. x \in S /\ (prio[x] > prio[a] \/ (prio[x] = prio[a] /\ x < a))
        BY DEF Before
      <4>2. prio[x] \in Int /\ x \in Nat
        BY <4>1
      <4>3. prio[x] > prio[b] \/ (prio[x] = prio[b] /\ x < b)
        BY <3>0, <3>1, <4>1, <4>2
      <4> QED
        BY <4>1, <4>3 DEF Before
    <3>3. a \notin Before(S, prio, a)
      BY <3>0 DEF Before
    <3> QED
      BY <3>2, <3>3
  <2>2. Before(S, prio, b) \in SUBSET S
    BY DEF Before
  <2>3. IsFiniteSet(Before(S, prio, b))
    BY <2>2, FS_Subset
  <2>4. /\ Cardinality(Before(S, prio, a)) <= Cardinality(Before(S, prio, b))
        /\ Cardinality(Before(S, prio, b)) = Cardinality(Before(S, prio, a)) =>
                Before(S, prio, b) = Before(S, prio, a)
    BY <2>1, <2>3, FS_Subset
  <2>5. Cardinality(Before(S, prio, b)) # Cardinality(Before(S, prio, a))
    BY <1>5, <2>1, <2>4
  <2>6. Cardinality(Before(S, prio, b)) \in Nat
    BY <2>3, FS_CardinalityType
  <2> QED
    BY <1>4, <2>4, <2>5, <2>6
<1> QED
  BY <1>2, <1>3, <1>4, <1>5

\* The numbers of elements before each are 0 .. |S| - 1, each of them once, so that
\* the sort has one element for each place.
LEMMA RankMeets ==
    ASSUME NEW S \in SUBSET Nat, IsFiniteSet(S), NEW prio, \A c \in S : prio[c] \in Int
    PROVE  /\ Cardinality(S) \in Nat
           /\ \A k \in 1..Cardinality(S) : \E c \in S : Cardinality(Before(S, prio, c)) = k - 1
           /\ \A a, b \in S : Cardinality(Before(S, prio, a)) = Cardinality(Before(S, prio, b)) => a = b
<1> DEFINE n == Cardinality(S)
           f == [c \in S |-> Cardinality(Before(S, prio, c)) + 1]
<1>1. n \in Nat
  BY FS_CardinalityType
<1>2. \A a, b \in S : a # b => a \in Before(S, prio, b) \/ b \in Before(S, prio, a)
  BY DEF Before
<1>3. \A a, b \in S : Cardinality(Before(S, prio, a)) = Cardinality(Before(S, prio, b)) => a = b
  <2> SUFFICES ASSUME NEW a \in S, NEW b \in S, a # b
               PROVE  Cardinality(Before(S, prio, a)) # Cardinality(Before(S, prio, b))
    OBVIOUS
  <2>1. Cardinality(Before(S, prio, a)) \in Nat /\ Cardinality(Before(S, prio, b)) \in Nat
    BY BeforeFacts
  <2>2. CASE a \in Before(S, prio, b)
    <3>1. Cardinality(Before(S, prio, a)) < Cardinality(Before(S, prio, b))
      BY <2>2, BeforeFacts
    <3> QED
      BY <2>1, <3>1
  <2>3. CASE b \in Before(S, prio, a)
    <3>1. Cardinality(Before(S, prio, b)) < Cardinality(Before(S, prio, a))
      BY <2>3, BeforeFacts
    <3> QED
      BY <2>1, <3>1
  <2> QED
    BY <1>2, <2>2, <2>3
<1>4. f \in Injection(S, 1..n)
  <2>1. \A c \in S : Cardinality(Before(S, prio, c)) \in 0..(n - 1)
    BY BeforeFacts
  <2>2. f \in [S -> 1..n]
    BY <1>1, <2>1
  <2>3. \A a, b \in S : f[a] = f[b] => a = b
    BY <1>3, <2>1
  <2> QED
    BY <2>2, <2>3 DEF Injection, IsInjective
<1>5. IsFiniteSet(1..n) /\ Cardinality(1..n) = n
  BY <1>1, FS_Interval
<1>6. f \in Surjection(S, 1..n)
  BY <1>4, <1>5, FS_Injection
<1>7. ASSUME NEW k \in 1..n PROVE \E c \in S : Cardinality(Before(S, prio, c)) = k - 1
  <2>1. PICK c \in S : f[c] = k
    BY <1>6 DEF Surjection
  <2>2. Cardinality(Before(S, prio, c)) \in Nat
    BY BeforeFacts
  <2> QED
    BY <2>1, <2>2
<1> QED
  BY <1>1, <1>3, <1>7

\* Every element of S is there once, by descending priority.
Sorts(s, S, prio) ==
    /\ s \in Seq(S) /\ Once(s) /\ \A c : (Holds(s, c)) <=> (c \in S)
    /\ \A j, k \in 1..Len(s) : j < k => prio[s[j]] >= prio[s[k]]

\* What ByPriority returns: S, each element once, by descending priority.
LEMMA PrioritySorts ==
    ASSUME NEW S \in SUBSET Nat, IsFiniteSet(S), NEW prio, \A c \in S : prio[c] \in Int
    PROVE  Sorts(ByPriority(S, prio), S, prio)
<1> DEFINE n == Cardinality(S)
<1>1. PICK s : s = ByPriority(S, prio)
  OBVIOUS
<1>2. n \in Nat /\ s = [k \in 1..n |-> CHOOSE c \in S : Cardinality(Before(S, prio, c)) = k - 1]
  BY <1>1, RankMeets DEF ByPriority
<1>3. \A k \in 1..n : s[k] \in S /\ Cardinality(Before(S, prio, s[k])) = k - 1
  BY <1>2, RankMeets
<1>4. s \in Seq(S) /\ Len(s) = n
  BY <1>2, <1>3
<1>5. Once(s)
  BY <1>2, <1>3, <1>4 DEF Once
<1>6. \A c : (Holds(s, c)) <=> (c \in S)
  <2>1. ASSUME NEW c \in S PROVE Holds(s, c)
    <3>1. Cardinality(Before(S, prio, c)) \in 0..(n - 1)
      BY BeforeFacts
    <3>2. PICK k \in 1..n : k - 1 = Cardinality(Before(S, prio, c))
      <4>1. Cardinality(Before(S, prio, c)) + 1 \in 1..n
        BY <1>2, <3>1
      <4> QED
        BY <3>1, <4>1
    <3>3. s[k] = c
      <4>1. s[k] \in S /\ Cardinality(Before(S, prio, s[k])) = Cardinality(Before(S, prio, c))
        BY <1>3, <3>2
      <4>2. \A a, b \in S : Cardinality(Before(S, prio, a)) = Cardinality(Before(S, prio, b)) => a = b
        BY RankMeets
      <4> QED
        BY <4>1, <4>2, Zenon
    <3> QED
      BY <1>4, <3>3 DEF Holds
  <2>2. ASSUME NEW c, Holds(s, c) PROVE c \in S
    BY <1>3, <1>4, <2>2 DEF Holds
  <2> QED
    BY <2>1, <2>2
<1>7. ASSUME NEW j \in 1..Len(s), NEW k \in 1..Len(s), j < k PROVE prio[s[j]] >= prio[s[k]]
  <2>1. s[j] \in S /\ s[k] \in S /\ prio[s[j]] \in Int /\ prio[s[k]] \in Int
    BY <1>3, <1>4
  <2>2. CASE prio[s[k]] > prio[s[j]]
    <3>1. s[k] \in Before(S, prio, s[j])
      BY <2>1, <2>2 DEF Before
    <3>2. Cardinality(Before(S, prio, s[k])) < Cardinality(Before(S, prio, s[j]))
      BY <2>1, <3>1, BeforeFacts
    <3>3. k - 1 < j - 1
      BY <1>3, <1>4, <3>2
    <3> QED
      BY <1>2, <1>4, <1>7, <3>3
  <2> QED
    BY <2>1, <2>2
<1> QED
  BY <1>1, <1>4, <1>5, <1>6, <1>7 DEF Sorts

-----------------------------------------------------------------------------
(* The candidate tables, with L descriptors.                               *)

\* Entries, buffer and single candidates name descriptors that exist.
Entry(L) == [candidates : Seq(1..L), head : 1..L \union {NoDesc}, ambiguous : BOOLEAN]
Index(L) ==
    [pending : [Types -> [Names -> Seq(1..L)]], finalized : BOOLEAN,
     entries : [Types -> [Names -> Entry(L)]], single : [Types -> 1..L \union {NoDesc}]]

\* They still do when there is one more.
LEMMA IndexUp ==
    ASSUME NEW L \in Nat, NEW M \in Nat, L <= M, NEW x \in Index(L)
    PROVE  x \in Index(M)
<1>1. 1..L \subseteq 1..M
  OBVIOUS
<1>2. \A s \in Seq(1..L) : s \in Seq(1..M)
  BY <1>1, SeqUp
<1>3. \A e \in Entry(L) : e \in Entry(M)
  BY <1>1, <1>2 DEF Entry
<1>4. /\ x.pending \in [Types -> [Names -> Seq(1..L)]] /\ x.entries \in [Types -> [Names -> Entry(L)]]
      /\ x.single \in [Types -> 1..L \union {NoDesc}] /\ x.finalized \in BOOLEAN
      /\ x = [pending |-> x.pending, finalized |-> x.finalized, entries |-> x.entries, single |-> x.single]
  BY DEF Index
<1>5. x.pending \in [Types -> [Names -> Seq(1..M)]]
  BY <1>2, <1>4
<1>6. x.entries \in [Types -> [Names -> Entry(M)]]
  BY <1>3, <1>4
<1>7. x.single \in [Types -> 1..M \union {NoDesc}]
  BY <1>1, <1>4
<1> QED
  BY <1>4, <1>5, <1>6, <1>7 DEF Index

\* A value of the right shape is an index.
LEMMA IndexIs ==
    ASSUME NEW L \in Nat, NEW x, NEW p \in [Types -> [Names -> Seq(1..L)]], NEW f \in BOOLEAN,
           NEW e \in [Types -> [Names -> Entry(L)]], NEW s \in [Types -> 1..L \union {NoDesc}],
           x = [pending |-> p, finalized |-> f, entries |-> e, single |-> s]
    PROVE  x \in Index(L)
BY DEF Index

\* The parts of an index.
LEMMA IndexParts ==
    ASSUME NEW L, NEW x \in Index(L)
    PROVE  /\ x = [pending |-> x.pending, finalized |-> x.finalized, entries |-> x.entries, single |-> x.single]
           /\ x.pending \in [Types -> [Names -> Seq(1..L)]] /\ x.finalized \in BOOLEAN
           /\ x.entries \in [Types -> [Names -> Entry(L)]] /\ x.single \in [Types -> 1..L \union {NoDesc}]
BY DEF Index

\* The parts of an entry, and an entry from its parts.
LEMMA EntryParts ==
    ASSUME NEW L, NEW e \in Entry(L)
    PROVE  /\ e.candidates \in Seq(1..L) /\ e.head \in 1..L \union {NoDesc} /\ e.ambiguous \in BOOLEAN
           /\ \A c \in Seq(1..L) : [e EXCEPT !.candidates = c] \in Entry(L)
           /\ \A h \in 1..L \union {NoDesc} : [e EXCEPT !.head = h] \in Entry(L)
           /\ \A b \in BOOLEAN : [e EXCEPT !.ambiguous = b] \in Entry(L)
BY DEF Entry

\* insertCandidate keeps the index well formed.
LEMMA InsertTyped ==
    ASSUME NEW L \in Nat, NEW x \in Index(L), NEW t \in Types, NEW n \in Names, NEW d \in 1..L
    PROVE  InsertCandidate(x, t, n, d) \in Index(L)
<1>y. PICK y : y = InsertCandidate(x, t, n, d)
  OBVIOUS
<1>0. /\ x = [pending |-> x.pending, finalized |-> x.finalized, entries |-> x.entries, single |-> x.single]
      /\ x.pending \in [Types -> [Names -> Seq(1..L)]] /\ x.finalized \in BOOLEAN
      /\ x.entries \in [Types -> [Names -> Entry(L)]] /\ x.single \in [Types -> 1..L \union {NoDesc}]
  BY IndexParts
<1>1. CASE x.finalized
  <2>1. PICK c : c = x.entries[t][n]
    OBVIOUS
  <2>2. c \in Entry(L)
    BY <1>0, <2>1
  <2>3. PICK e : e = [c EXCEPT !.candidates = Append(@, d)]
    OBVIOUS
  <2>4. e \in Entry(L)
    <3>1. Append(c.candidates, d) \in Seq(1..L)
      BY <2>2, EntryParts
    <3> QED
      BY <2>2, <2>3, <3>1, EntryParts
  <2>5. PICK es : es = [x.entries EXCEPT ![t][n] = e]
    OBVIOUS
  <2>6. es \in [Types -> [Names -> Entry(L)]]
    BY <1>0, <2>4, <2>5
  <2>8. y = [x EXCEPT !.entries = es]
    BY <1>y, <1>1, <2>1, <2>3, <2>5 DEF InsertCandidate
  <2>9. y = [pending |-> x.pending, finalized |-> x.finalized, entries |-> es, single |-> x.single]
    BY <1>0, <2>8
  <2> QED
    BY <1>y, <1>0, <2>6, <2>9, IndexIs
<1>2. CASE ~x.finalized
  <2>1. PICK c : c = Append(x.pending[t][n], d)
    OBVIOUS
  <2>2. c \in Seq(1..L)
    BY <1>0, <2>1
  <2>5. PICK ps : ps = [x.pending EXCEPT ![t][n] = c]
    OBVIOUS
  <2>6. ps \in [Types -> [Names -> Seq(1..L)]]
    BY <1>0, <2>2, <2>5
  <2>8. y = [x EXCEPT !.pending = ps]
    BY <1>y, <1>2, <2>1, <2>5 DEF InsertCandidate
  <2>9. y = [pending |-> ps, finalized |-> x.finalized, entries |-> x.entries, single |-> x.single]
    BY <1>0, <2>8
  <2> QED
    BY <1>y, <1>0, <2>6, <2>9, IndexIs
<1> QED
  BY <1>0, <1>1, <1>2

\* Moving the pending buffer to the entries keeps the index well formed.
LEMMA FlushTyped ==
    ASSUME NEW L \in Nat, NEW x \in Index(L)
    PROVE  Flush(x) \in Index(L)
<1>0. /\ x = [pending |-> x.pending, finalized |-> x.finalized, entries |-> x.entries, single |-> x.single]
      /\ x.pending \in [Types -> [Names -> Seq(1..L)]] /\ x.finalized \in BOOLEAN
      /\ x.entries \in [Types -> [Names -> Entry(L)]] /\ x.single \in [Types -> 1..L \union {NoDesc}]
  BY IndexParts
<1>1. PICK p : p = [t \in Types |-> [n \in Names |-> <<>>]]
  OBVIOUS
<1>2. PICK e : e = [t \in Types |-> [n \in Names |->
                    [x.entries[t][n] EXCEPT !.candidates = x.entries[t][n].candidates \o x.pending[t][n]]]]
  OBVIOUS
<1>3. PICK s : s = [t \in Types |-> NoDesc]
  OBVIOUS
<1>4. p \in [Types -> [Names -> Seq(1..L)]] /\ s \in [Types -> 1..L \union {NoDesc}]
  BY <1>1, <1>3
<1>5. ASSUME NEW t \in Types, NEW n \in Names
      PROVE  [x.entries[t][n] EXCEPT !.candidates = x.entries[t][n].candidates \o x.pending[t][n]] \in Entry(L)
  <2>1. PICK c : c = x.entries[t][n]
    OBVIOUS
  <2>2. PICK q : q = x.pending[t][n]
    OBVIOUS
  <2>3. c \in Entry(L) /\ q \in Seq(1..L)
    BY <1>0, <2>1, <2>2
  <2>4. c.candidates \in Seq(1..L)
    BY <2>3, EntryParts
  <2>5. c.candidates \o q \in Seq(1..L)
    BY <2>3, <2>4
  <2>6. [c EXCEPT !.candidates = c.candidates \o q] \in Entry(L)
    BY <2>3, <2>5, EntryParts
  <2> QED
    BY <2>1, <2>2, <2>6
<1>6. e \in [Types -> [Names -> Entry(L)]]
  BY <1>2, <1>5
<1>7. PICK y : y = [x EXCEPT !.pending = p, !.entries = e, !.single = s]
  OBVIOUS
<1>8. y = [pending |-> p, finalized |-> x.finalized, entries |-> e, single |-> s]
  BY <1>0, <1>7
<1>9. Flush(x) = [x EXCEPT !.pending = [t \in Types |-> [n \in Names |-> <<>>]],
                           !.entries = [t \in Types |-> [n \in Names |->
                                [x.entries[t][n] EXCEPT !.candidates = x.entries[t][n].candidates \o x.pending[t][n]]]],
                           !.single = [t \in Types |-> NoDesc]]
  BY DEF Flush
<1>10. Flush(x) = y
  BY <1>1, <1>2, <1>3, <1>7, <1>9, Zenon
<1> QED
  BY <1>0, <1>4, <1>6, <1>8, <1>10, IndexIs

\* Only the entries change.
LEMMA EntriesSet ==
    ASSUME NEW L \in Nat, NEW x \in Index(L), NEW e \in [Types -> [Names -> Entry(L)]]
    PROVE  [x EXCEPT !.entries = e] \in Index(L)
<1>0. /\ x = [pending |-> x.pending, finalized |-> x.finalized, entries |-> x.entries, single |-> x.single]
      /\ x.pending \in [Types -> [Names -> Seq(1..L)]] /\ x.finalized \in BOOLEAN
      /\ x.entries \in [Types -> [Names -> Entry(L)]] /\ x.single \in [Types -> 1..L \union {NoDesc}]
  BY IndexParts
<1>1. PICK y : y = [x EXCEPT !.entries = e]
  OBVIOUS
<1>2. y = [pending |-> x.pending, finalized |-> x.finalized, entries |-> e, single |-> x.single]
  BY <1>0, <1>1
<1> QED
  BY <1>0, <1>1, <1>2, IndexIs

\* Only the single candidates change.
LEMMA SinglesSet ==
    ASSUME NEW L \in Nat, NEW x \in Index(L), NEW s \in [Types -> 1..L \union {NoDesc}]
    PROVE  [x EXCEPT !.single = s] \in Index(L)
<1>0. /\ x = [pending |-> x.pending, finalized |-> x.finalized, entries |-> x.entries, single |-> x.single]
      /\ x.pending \in [Types -> [Names -> Seq(1..L)]] /\ x.finalized \in BOOLEAN
      /\ x.entries \in [Types -> [Names -> Entry(L)]] /\ x.single \in [Types -> 1..L \union {NoDesc}]
  BY IndexParts
<1>1. PICK y : y = [x EXCEPT !.single = s]
  OBVIOUS
<1>2. y = [pending |-> x.pending, finalized |-> x.finalized, entries |-> x.entries, single |-> s]
  BY <1>0, <1>1
<1> QED
  BY <1>0, <1>1, <1>2, IndexIs

\* The elements of a sequence are a finite set.
LEMMA ElementsFinite ==
    ASSUME NEW L \in Nat, NEW q \in Seq(1..L)
    PROVE  {q[k] : k \in 1..Len(q)} \in SUBSET (1..L) /\ IsFiniteSet({q[k] : k \in 1..Len(q)})
<1>1. {q[k] : k \in 1..Len(q)} \in SUBSET (1..L)
  OBVIOUS
<1>2. IsFiniteSet(1..L)
  BY FS_Interval
<1> QED
  BY <1>1, <1>2, FS_Subset

\* Sorting the candidates of each entry keeps the index well formed.
LEMMA OrderTyped ==
    ASSUME NEW L \in Nat, NEW x \in Index(L), NEW prio \in [1..L -> Int]
    PROVE  Order(x, prio) \in Index(L)
<1>0. x.entries \in [Types -> [Names -> Entry(L)]]
  BY IndexParts
<1>2. PICK e : e = [t \in Types |-> [n \in Names |->
        [x.entries[t][n] EXCEPT !.candidates =
            ByPriority({x.entries[t][n].candidates[k] : k \in 1..Len(x.entries[t][n].candidates)}, prio)]]]
  OBVIOUS
<1>5. ASSUME NEW t \in Types, NEW n \in Names
      PROVE  [x.entries[t][n] EXCEPT !.candidates =
            ByPriority({x.entries[t][n].candidates[k] : k \in 1..Len(x.entries[t][n].candidates)}, prio)] \in Entry(L)
  <2>1. PICK c : c = x.entries[t][n]
    OBVIOUS
  <2>2. PICK q : q = c.candidates
    OBVIOUS
  <2>3. c \in Entry(L)
    BY <1>0, <2>1
  <2>4. q \in Seq(1..L)
    BY <2>2, <2>3, EntryParts
  <2>5. PICK S : S = {q[k] : k \in 1..Len(q)}
    OBVIOUS
  <2>6. S \in SUBSET (1..L) /\ IsFiniteSet(S)
    BY <2>4, <2>5, ElementsFinite
  <2>7. S \in SUBSET Nat /\ \A c1 \in S : prio[c1] \in Int
    BY <2>6
  <2>8. ByPriority(S, prio) \in Seq(S)
    BY <2>6, <2>7, PrioritySorts DEF Sorts
  <2>9. ByPriority(S, prio) \in Seq(1..L)
    BY <2>6, <2>8, SeqUp
  <2>10. [c EXCEPT !.candidates = ByPriority(S, prio)] \in Entry(L)
    BY <2>3, <2>9, EntryParts
  <2>11. [c EXCEPT !.candidates = ByPriority(S, prio)]
           = [c EXCEPT !.candidates = ByPriority({c.candidates[k] : k \in 1..Len(c.candidates)}, prio)]
    BY <2>2, <2>5
  <2> QED
    BY <2>1, <2>10, <2>11
<1>6. e \in [Types -> [Names -> Entry(L)]]
  BY <1>2, <1>5
<1>7. Order(x, prio) = [x EXCEPT !.entries = [t \in Types |-> [n \in Names |->
        [x.entries[t][n] EXCEPT !.candidates =
            ByPriority({x.entries[t][n].candidates[k] : k \in 1..Len(x.entries[t][n].candidates)}, prio)]]]]
  BY DEF Order
<1>8. [x EXCEPT !.entries = e] \in Index(L)
  BY <1>6, EntriesSet
<1> QED
  BY <1>2, <1>7, <1>8, Zenon

\* So does finding the single unnamed candidates.
LEMMA SinglesTyped ==
    ASSUME NEW L \in Nat, NEW x \in Index(L), Unnamed \in Names
    PROVE  /\ FindSingles(x) \in Index(L)
           /\ \A t \in Types : UpdateSingleUnnamed(x, t) \in Index(L)
<1>0. x.entries \in [Types -> [Names -> Entry(L)]] /\ x.single \in [Types -> 1..L \union {NoDesc}]
  BY IndexParts
<1> DEFINE One(t) == IF Len(x.entries[t][Unnamed].candidates) = 1 THEN x.entries[t][Unnamed].candidates[1] ELSE NoDesc
<1>1. ASSUME NEW t \in Types PROVE One(t) \in 1..L \union {NoDesc}
  <2>1. x.entries[t][Unnamed] \in Entry(L)
    BY <1>0
  <2>2. PICK q : q = x.entries[t][Unnamed].candidates
    OBVIOUS
  <2>3. q \in Seq(1..L)
    BY <2>1, <2>2, EntryParts
  <2>4. Len(q) = 1 => q[1] \in 1..L
    BY <2>3
  <2> QED
    BY <2>2, <2>4
<1>2. PICK s : s = [t \in Types |-> One(t)]
  OBVIOUS
<1>3. s \in [Types -> 1..L \union {NoDesc}]
  BY <1>1, <1>2
<1>4. FindSingles(x) = [x EXCEPT !.single = s]
  BY <1>2 DEF FindSingles
<1>5. ASSUME NEW t \in Types PROVE UpdateSingleUnnamed(x, t) \in Index(L)
  <2>1. PICK r : r = [x.single EXCEPT ![t] = One(t)]
    OBVIOUS
  <2>2. r \in [Types -> 1..L \union {NoDesc}]
    BY <1>0, <1>1, <2>1
  <2>3. UpdateSingleUnnamed(x, t) = [x EXCEPT !.single = r]
    BY <2>1 DEF UpdateSingleUnnamed
  <2> QED
    BY <2>2, <2>3, SinglesSet
<1> QED
  BY <1>3, <1>4, <1>5, SinglesSet

\* So does finding the heads of the entries.
LEMMA HeadsTyped ==
    ASSUME NEW L \in Nat, NEW x \in Index(L)
    PROVE  FindHeads(x) \in Index(L)
<1>0. x.entries \in [Types -> [Names -> Entry(L)]]
  BY IndexParts
<1>2. PICK e : e = [t \in Types |-> [n \in Names |->
        [x.entries[t][n] EXCEPT !.head = IF x.entries[t][n].candidates = <<>> THEN NoDesc
                                         ELSE x.entries[t][n].candidates[1]]]]
  OBVIOUS
<1>5. ASSUME NEW t \in Types, NEW n \in Names
      PROVE  [x.entries[t][n] EXCEPT !.head = IF x.entries[t][n].candidates = <<>> THEN NoDesc
                                              ELSE x.entries[t][n].candidates[1]] \in Entry(L)
  <2>1. PICK c : c = x.entries[t][n]
    OBVIOUS
  <2>2. PICK q : q = c.candidates
    OBVIOUS
  <2>3. c \in Entry(L)
    BY <1>0, <2>1
  <2>4. q \in Seq(1..L)
    BY <2>2, <2>3, EntryParts
  <2>5. q # <<>> => q[1] \in 1..L
    BY <2>4
  <2>6. PICK h : h = IF q = <<>> THEN NoDesc ELSE q[1]
    OBVIOUS
  <2>7. [c EXCEPT !.head = h] \in Entry(L)
    BY <2>3, <2>5, <2>6, EntryParts
  <2> QED
    BY <2>1, <2>2, <2>6, <2>7
<1>6. e \in [Types -> [Names -> Entry(L)]]
  BY <1>2, <1>5
<1>7. FindHeads(x) = [x EXCEPT !.entries = e]
  BY <1>2 DEF FindHeads
<1> QED
  BY <1>6, <1>7, EntriesSet

\* So does finding the ties of the entries.
LEMMA TiesTyped ==
    ASSUME NEW L \in Nat, NEW x \in Index(L), NEW prio
    PROVE  FindTies(x, prio) \in Index(L)
<1>0. /\ x = [pending |-> x.pending, finalized |-> x.finalized, entries |-> x.entries, single |-> x.single]
      /\ x.pending \in [Types -> [Names -> Seq(1..L)]] /\ x.finalized \in BOOLEAN
      /\ x.entries \in [Types -> [Names -> Entry(L)]] /\ x.single \in [Types -> 1..L \union {NoDesc}]
  BY IndexParts
<1>2. PICK e : e = [t \in Types |-> [n \in Names |->
        [x.entries[t][n] EXCEPT !.ambiguous = Tied(x.entries[t][n].candidates, prio)]]]
  OBVIOUS
<1>5. ASSUME NEW t \in Types, NEW n \in Names
      PROVE  [x.entries[t][n] EXCEPT !.ambiguous = Tied(x.entries[t][n].candidates, prio)] \in Entry(L)
  <2>1. PICK c : c = x.entries[t][n]
    OBVIOUS
  <2>3. c \in Entry(L)
    BY <1>0, <2>1
  <2>4. Tied(c.candidates, prio) \in BOOLEAN
    BY DEF Tied
  <2>7. [c EXCEPT !.ambiguous = Tied(c.candidates, prio)] \in Entry(L)
    BY <2>3, <2>4, EntryParts
  <2> QED
    BY <2>1, <2>7
<1>6. e \in [Types -> [Names -> Entry(L)]]
  BY <1>2, <1>5
<1>7. FindTies(x, prio) = [x EXCEPT !.entries = e, !.finalized = TRUE]
  BY <1>2 DEF FindTies
<1>8. FindTies(x, prio) = [pending |-> x.pending, finalized |-> TRUE, entries |-> e, single |-> x.single]
  BY <1>0, <1>7
<1> QED
  BY <1>0, <1>6, <1>8, IndexIs

\* So does sortAllCandidates, which is all of these.
LEMMA SortTyped ==
    ASSUME NEW L \in Nat, NEW x \in Index(L), NEW prio \in [1..L -> Int], Unnamed \in Names
    PROVE  SortAllCandidates(x, prio) \in Index(L)
<1>1. PICK a : a = Flush(x)
  OBVIOUS
<1>2. a \in Index(L)
  BY <1>1, FlushTyped
<1>3. PICK b : b = Order(a, prio)
  OBVIOUS
<1>4. b \in Index(L)
  BY <1>2, <1>3, OrderTyped
<1>5. PICK c : c = FindSingles(b)
  OBVIOUS
<1>6. c \in Index(L)
  BY <1>4, <1>5, SinglesTyped
<1>7. PICK e : e = FindHeads(c)
  OBVIOUS
<1>8. e \in Index(L)
  BY <1>6, <1>7, HeadsTyped
<1>9. FindTies(e, prio) \in Index(L)
  BY <1>8, TiesTyped
<1>10. SortAllCandidates(x, prio) = FindTies(e, prio)
  BY <1>1, <1>3, <1>5, <1>7 DEF SortAllCandidates
<1> QED
  BY <1>9, <1>10

\* A lookup answers with a descriptor that exists, with none, or with a tie.
LEMMA LookupTyped ==
    ASSUME NEW L \in Nat, NEW x \in Index(L), NEW prio, NEW t \in Types, NEW n \in Names
    PROVE  /\ x.single[t] \in 1..L \union {NoDesc}
           /\ x.entries[t][n].head \in 1..L \union {NoDesc}
           /\ FromCandidates(x.entries[t][n].candidates, prio) \in 1..L \union {NoDesc, Ambiguous}
           /\ FromEntry(x.entries[t][n], prio) \in 1..L \union {NoDesc, Ambiguous}
           /\ Lookup(x, prio, t, n) \in 1..L \union {NoDesc, Ambiguous}
<1>0. x.entries \in [Types -> [Names -> Entry(L)]] /\ x.single \in [Types -> 1..L \union {NoDesc}]
  BY IndexParts
<1>1. PICK e : e = x.entries[t][n]
  OBVIOUS
<1>2. e \in Entry(L) /\ x.single[t] \in 1..L \union {NoDesc}
  BY <1>0, <1>1
<1>3. e.candidates \in Seq(1..L) /\ e.head \in 1..L \union {NoDesc}
  BY <1>2, EntryParts
<1>4. e.candidates # <<>> => e.candidates[1] \in 1..L
  BY <1>3
<1>5. FromCandidates(e.candidates, prio) \in 1..L \union {NoDesc, Ambiguous}
  BY <1>4 DEF FromCandidates
<1>6. FromEntry(e, prio) \in 1..L \union {NoDesc, Ambiguous}
  BY <1>3, <1>5 DEF FromEntry
<1>7. Lookup(x, prio, t, n) \in 1..L \union {NoDesc, Ambiguous}
  BY <1>1, <1>2, <1>6 DEF Lookup
<1> QED
  BY <1>1, <1>2, <1>3, <1>5, <1>6, <1>7

\* The index of a new registry is well formed.
LEMMA EmptyTyped ==
    EmptyIndex \in Index(0)
<1>1. [t \in Types |-> [n \in Names |-> <<>>]] \in [Types -> [Names -> Seq(1..0)]]
  OBVIOUS
<1>2. NoEntry \in Entry(0)
  <2>1. <<>> \in Seq(1..0)
    OBVIOUS
  <2> QED
    BY <2>1 DEF NoEntry, Entry
<1>3. [t \in Types |-> [n \in Names |-> NoEntry]] \in [Types -> [Names -> Entry(0)]]
  BY <1>2
<1>4. [t \in Types |-> NoDesc] \in [Types -> 1..0 \union {NoDesc}]
  OBVIOUS
<1> QED
  BY <1>1, <1>3, <1>4 DEF Index, EmptyIndex

-----------------------------------------------------------------------------
(* The singleton store, with L descriptors and K instances.                *)

\* What is stored for a descriptor; the context counts as instance 0, the first.
At(s, d) == IF d \in 1..Len(s.base) THEN s.base[d] ELSE None
Num(s, d) == IF At(s, d) = CtxInst THEN 0 ELSE At(s, d)
SlotSet(K) == 1..K \union {None, CtxInst}

\* Both arrays agree, and order lists what is stored by the age of its instances.
StoreOK(s, L, K) ==
    /\ s = [frozen |-> s.frozen, base |-> s.base, order |-> s.order]
    /\ s.frozen \in Seq(SlotSet(K)) /\ s.base \in Seq(SlotSet(K)) /\ s.order \in Seq(1..L)
    /\ Len(s.frozen) <= Len(s.base) /\ Len(s.base) <= L
    /\ \A d \in 1..Len(s.frozen) : s.frozen[d] = s.base[d]
    /\ \A d \in 1..L : (Holds(s.order, d)) <=> (At(s, d) # None)
    /\ \A j, k \in 1..Len(s.order) : j < k => Num(s, s.order[j]) < Num(s, s.order[k])

\* The constants that stand for no instance are no numbers.
LEMMA NoNumbers ==
    None \notin Nat /\ CtxInst \notin Nat /\ None # CtxInst /\ NoDesc \notin Nat /\ Ambiguous \notin Nat
BY LifecycleConstants

\* find() returns what is stored, in the frozen array or beyond it.
LEMMA FindIs ==
    ASSUME NEW L \in Nat, NEW K \in Nat, NEW s, StoreOK(s, L, K), NEW d \in 1..L
    PROVE  FindIn(s, d) = At(s, d) /\ At(s, d) \in SlotSet(K)
<1>1. /\ s.frozen \in Seq(SlotSet(K)) /\ s.base \in Seq(SlotSet(K))
      /\ Len(s.frozen) <= Len(s.base) /\ \A e \in 1..Len(s.frozen) : s.frozen[e] = s.base[e]
  BY DEF StoreOK
<1>2. Len(s.frozen) \in Nat /\ Len(s.base) \in Nat /\ \A e \in 1..Len(s.base) : s.base[e] \in SlotSet(K)
  BY <1>1
<1>3. None \in SlotSet(K)
  BY DEF SlotSet
<1> QED
  BY <1>1, <1>2, <1>3 DEF FindIn, At

\* The empty store is well formed and holds nothing.
LEMMA NoStoreOK ==
    ASSUME NEW L \in Nat, NEW K \in Nat
    PROVE  StoreOK(NoStore, L, K) /\ \A d : At(NoStore, d) = None
<1>1. NoStore = [frozen |-> <<>>, base |-> <<>>, order |-> <<>>]
  BY DEF NoStore
<1>2. NoStore.frozen = <<>> /\ NoStore.base = <<>> /\ NoStore.order = <<>>
  BY <1>1
<1>3. \A d : At(NoStore, d) = None
  BY <1>2 DEF At
<1>4. \A d : ~Holds(NoStore.order, d)
  BY <1>2 DEF Holds
<1> QED
  BY <1>1, <1>2, <1>3, <1>4 DEF StoreOK

\* The sets of slots grow with the instances.
LEMMA SlotsUp ==
    ASSUME NEW K \in Nat, NEW J \in Nat, K <= J
    PROVE  SlotSet(K) \subseteq SlotSet(J)
BY DEF SlotSet

\* More descriptors or instances than before, none stored.
LEMMA StoreUp ==
    ASSUME NEW L \in Nat, NEW K \in Nat, NEW s, StoreOK(s, L, K), NEW J \in Nat, K <= J
    PROVE  StoreOK(s, L, J)
<1>1. SlotSet(K) \subseteq SlotSet(J)
  BY SlotsUp
<1>2. s.frozen \in Seq(SlotSet(K)) /\ s.base \in Seq(SlotSet(K))
  BY DEF StoreOK
<1>3. s.frozen \in Seq(SlotSet(J)) /\ s.base \in Seq(SlotSet(J))
  BY <1>1, <1>2, SeqUp
<1> QED
  BY <1>3 DEF StoreOK

\* s stores i for d and is otherwise what it was.
Puts(s, d, i, L, r) == \A e \in 1..L : At(r, e) = IF e = d THEN i ELSE At(s, e)

\* store(), of an instance younger than all that are there, keeps the store well formed.
LEMMA StoreAtOK ==
    ASSUME NEW L \in Nat, NEW K \in Nat, NEW s, StoreOK(s, L, K), Len(s.base) = L,
           NEW d \in 1..L, At(s, d) = None,
           NEW i, i = K + 1 \/ (i = CtxInst /\ s.order = <<>>), NEW r, r = StoreAt(s, d, i)
    PROVE  StoreOK(r, L, K + 1) /\ Len(r.base) = L /\ Puts(s, d, i, L, r)
<1>0. /\ s = [frozen |-> s.frozen, base |-> s.base, order |-> s.order]
      /\ s.frozen \in Seq(SlotSet(K)) /\ s.base \in Seq(SlotSet(K)) /\ s.order \in Seq(1..L)
      /\ Len(s.frozen) <= Len(s.base)
      /\ \A e \in 1..Len(s.frozen) : s.frozen[e] = s.base[e]
      /\ \A e \in 1..L : (Holds(s.order, e)) <=> (At(s, e) # None)
      /\ \A j, k \in 1..Len(s.order) : j < k => Num(s, s.order[j]) < Num(s, s.order[k])
  BY DEF StoreOK
<1>1. PICK f : f = IF d <= Len(s.frozen) THEN [s.frozen EXCEPT ![d] = i] ELSE s.frozen
  OBVIOUS
<1>2. PICK b : b = [s.base EXCEPT ![d] = i]
  OBVIOUS
<1>3. PICK o : o = Append(s.order, d)
  OBVIOUS
<1>4. r = [s EXCEPT !.order = o, !.base = b, !.frozen = f]
  BY <1>1, <1>2, <1>3 DEF StoreAt
<1>5. r = [frozen |-> f, base |-> b, order |-> o]
  BY <1>0, <1>4
<1>6. r.frozen = f /\ r.base = b /\ r.order = o /\ r = [frozen |-> r.frozen, base |-> r.base, order |-> r.order]
  BY <1>5
<1>7. SlotSet(K) \subseteq SlotSet(K + 1) /\ i \in SlotSet(K + 1) /\ i # None
  BY SlotsUp, NoNumbers DEF SlotSet
<1>8. s.base \in Seq(SlotSet(K + 1)) /\ s.frozen \in Seq(SlotSet(K + 1))
  BY <1>0, <1>7, SeqUp
<1>9. /\ b \in Seq(SlotSet(K + 1)) /\ Len(b) = L
      /\ \A e \in 1..L : b[e] = IF e = d THEN i ELSE s.base[e]
  BY <1>2, <1>7, <1>8
<1>10. /\ f \in Seq(SlotSet(K + 1)) /\ Len(f) = Len(s.frozen)
       /\ \A e \in 1..Len(f) : f[e] = IF e = d THEN i ELSE s.frozen[e]
  BY <1>1, <1>7, <1>8
<1>11. ASSUME NEW e \in 1..L PROVE At(r, e) = IF e = d THEN i ELSE At(s, e)
  BY <1>6, <1>9 DEF At
<1>12. ASSUME NEW e \in 1..Len(f) PROVE f[e] = b[e]
  <2>1. Len(s.frozen) \in Nat /\ e \in 1..L /\ e \in 1..Len(s.frozen)
    BY <1>0, <1>10
  <2>2. s.frozen[e] = s.base[e]
    BY <1>0, <2>1
  <2> QED
    BY <1>9, <1>10, <2>1, <2>2
<1>13. ~Holds(s.order, d)
  BY <1>0
<1>14. /\ o \in Seq(1..L) /\ \A x : Holds(o, x) <=> (Holds(s.order, x) \/ x = d)
       /\ Len(o) = Len(s.order) + 1 /\ o[Len(s.order) + 1] = d
       /\ \A k \in 1..Len(s.order) : o[k] = s.order[k]
  BY <1>0, <1>3, HoldsAppend
<1>15. \A e \in 1..L : Holds(o, e) <=> (At(r, e) # None)
  BY <1>0, <1>7, <1>11, <1>14
<1>16. ASSUME NEW j \in 1..Len(o), NEW k \in 1..Len(o), j < k PROVE Num(r, o[j]) < Num(r, o[k])
  <2>0. Len(s.order) \in Nat
    BY <1>0
  <2>1. j \in 1..Len(s.order) /\ o[j] = s.order[j] /\ o[j] \in 1..L /\ s.order # <<>>
    BY <1>0, <1>14, <1>16, <2>0
  <2>2. o[j] # d /\ At(s, o[j]) # None
    <3>1. Holds(s.order, o[j])
      BY <2>1 DEF Holds
    <3> QED
      BY <1>0, <1>13, <2>1, <3>1
  <2>3. Num(r, o[j]) = Num(s, o[j])
    BY <1>11, <2>1, <2>2 DEF Num
  <2>4. CASE k \in 1..Len(s.order)
    <3>1. o[k] = s.order[k] /\ o[k] \in 1..L /\ Holds(s.order, o[k])
      BY <1>0, <1>14, <2>4 DEF Holds
    <3>2. o[k] # d
      BY <1>13, <3>1
    <3>3. Num(r, o[k]) = Num(s, o[k])
      BY <1>11, <3>1, <3>2 DEF Num
    <3> QED
      BY <1>0, <1>16, <2>1, <2>3, <2>4, <3>1, <3>3
  <2>5. CASE k = Len(s.order) + 1
    <3>1. o[k] = d /\ i = K + 1
      BY <1>14, <2>1, <2>5
    <3>2. Num(r, o[k]) = K + 1
      BY <1>11, <3>1, NoNumbers DEF Num
    <3>3. At(s, o[j]) \in SlotSet(K)
      BY <2>1, FindIs
    <3>4. Num(s, o[j]) \in 0..K
      BY <2>2, <3>3 DEF Num, SlotSet
    <3> QED
      BY <2>3, <3>2, <3>4
  <2> QED
    BY <1>14, <2>0, <2>4, <2>5
<1>17. Len(r.frozen) <= Len(r.base) /\ Len(r.base) <= L
  BY <1>0, <1>6, <1>9, <1>10
<1>18. StoreOK(r, L, K + 1)
  BY <1>6, <1>9, <1>10, <1>12, <1>14, <1>15, <1>16, <1>17 DEF StoreOK
<1> QED
  BY <1>6, <1>9, <1>11, <1>18 DEF Puts

\* So does growAndStore(), for the descriptor that was just appended.
LEMMA GrowOK ==
    ASSUME NEW L \in Nat, NEW K \in Nat, NEW s, StoreOK(s, L, K), Len(s.base) = L,
           NEW r, r = GrowAndStore(s, L + 1, K + 1)
    PROVE  StoreOK(r, L + 1, K + 1) /\ Len(r.base) = L + 1 /\ Puts(s, L + 1, K + 1, L + 1, r)
<1>0. /\ s = [frozen |-> s.frozen, base |-> s.base, order |-> s.order]
      /\ s.frozen \in Seq(SlotSet(K)) /\ s.base \in Seq(SlotSet(K)) /\ s.order \in Seq(1..L)
      /\ Len(s.frozen) <= Len(s.base)
      /\ \A e \in 1..Len(s.frozen) : s.frozen[e] = s.base[e]
      /\ \A e \in 1..L : (Holds(s.order, e)) <=> (At(s, e) # None)
      /\ \A j, k \in 1..Len(s.order) : j < k => Num(s, s.order[j]) < Num(s, s.order[k])
  BY DEF StoreOK
<1>1. PICK n : n = Nulls((L + 1) - L)
  OBVIOUS
<1>2. n \in Seq(SlotSet(K)) /\ Len(n) = 1 /\ n[1] = None
  <2>1. (L + 1) - L = 1
    OBVIOUS
  <2>2. n = [m \in 1..1 |-> None]
    BY <1>1, <2>1 DEF Nulls
  <2>3. None \in SlotSet(K)
    BY DEF SlotSet
  <2> QED
    BY <2>2, <2>3
<1>3. PICK b : b = s.base \o n
  OBVIOUS
<1>4. /\ b \in Seq(SlotSet(K)) /\ Len(b) = L + 1 /\ b[L + 1] = None
      /\ \A e \in 1..L : b[e] = s.base[e]
  <2>a. PICK q, S : q = s.base /\ S = SlotSet(K)
    OBVIOUS
  <2>b. q \in Seq(S) /\ n \in Seq(S) /\ Len(q) = L /\ b = q \o n
    BY <1>0, <1>2, <1>3, <2>a
  <2>c. b \in Seq(S) /\ Len(b) = L + 1 /\ \A e \in 1..(L + 1) : b[e] = IF e <= L THEN q[e] ELSE n[e - L]
    <3>1. /\ q \o n \in Seq(S) /\ Len(q \o n) = Len(q) + Len(n)
          /\ \A e \in 1..(Len(q) + Len(n)) : (q \o n)[e] = IF e <= Len(q) THEN q[e] ELSE n[e - Len(q)]
      BY <2>b, ConcatProperties, Zenon
    <3>2. Len(n) = 1
      BY <1>2
    <3> QED
      BY <2>b, <3>1, <3>2, Zenon
  <2>1. b \in Seq(SlotSet(K)) /\ Len(b) = L + 1
    BY <2>a, <2>c
  <2>2. \A e \in 1..(L + 1) : b[e] = IF e <= L THEN s.base[e] ELSE n[e - L]
    BY <2>a, <2>c
  <2>3. (L + 1) - L = 1 /\ L + 1 \in 1..(L + 1) /\ ~(L + 1 <= L)
    OBVIOUS
  <2>4. b[L + 1] = None
    BY <1>2, <2>2, <2>3
  <2> QED
    BY <2>1, <2>2, <2>4
<1>5. PICK g : g = [s EXCEPT !.base = b]
  OBVIOUS
<1>6. g = [frozen |-> s.frozen, base |-> b, order |-> s.order]
  BY <1>0, <1>5
<1>7. /\ g.frozen = s.frozen /\ g.base = b /\ g.order = s.order
      /\ g = [frozen |-> g.frozen, base |-> g.base, order |-> g.order]
  BY <1>6
<1>8. \A e \in 1..L : At(g, e) = At(s, e)
  BY <1>4, <1>7 DEF At
<1>9. At(g, L + 1) = None /\ At(s, L + 1) = None
  BY <1>4, <1>7 DEF At
<1>10. StoreOK(g, L + 1, K)
  <2>1. s.order \in Seq(1..(L + 1))
    BY <1>0, SeqUp
  <2>2. ASSUME NEW e \in 1..(L + 1) PROVE Holds(g.order, e) <=> (At(g, e) # None)
    <3>1. CASE e \in 1..L
      BY <1>0, <1>7, <1>8, <3>1
    <3>2. CASE e = L + 1
      <4>1. ~Holds(s.order, L + 1)
        BY <1>0, HoldsIn
      <4> QED
        BY <1>7, <1>9, <3>2, <4>1
    <3> QED
      BY <3>1, <3>2
  <2>3. \A j \in 1..Len(s.order) : Num(g, s.order[j]) = Num(s, s.order[j])
    BY <1>0, <1>8 DEF Num
  <2>4. \A e \in 1..Len(s.frozen) : s.frozen[e] = b[e]
    BY <1>0, <1>4
  <2> QED
    BY <1>0, <1>4, <1>7, <2>1, <2>2, <2>3, <2>4 DEF StoreOK
<1>11. r = StoreAt(g, L + 1, K + 1)
  <2>1. L + 1 > Len(s.base)
    OBVIOUS
  <2>2. [s EXCEPT !.base = IF L + 1 > Len(@) THEN @ \o Nulls((L + 1) - Len(@)) ELSE @] = g
    BY <1>1, <1>3, <1>5, <2>1
  <2> QED
    BY <2>2 DEF GrowAndStore
<1>12. PICK M : M = L + 1
  OBVIOUS
<1>13. M \in Nat /\ StoreOK(g, M, K) /\ Len(g.base) = M /\ M \in 1..M /\ At(g, M) = None /\ r = StoreAt(g, M, K + 1)
  BY <1>4, <1>7, <1>9, <1>10, <1>11, <1>12
<1>14. StoreOK(r, M, K + 1) /\ Len(r.base) = M /\ Puts(g, M, K + 1, M, r)
  BY <1>13, StoreAtOK
<1>15. \A e \in 1..M : At(g, e) = At(s, e)
  BY <1>8, <1>9, <1>12
<1> QED
  BY <1>12, <1>14, <1>15 DEF Puts

\* So do resize() and the context's own bean, of a start() after one that threw.
LEMMA ResizeOK ==
    ASSUME NEW L \in Nat, NEW K \in Nat, NEW c \in 1..L, NEW r, r = StoreAt(ResizeStore(NoStore, L), c, CtxInst)
    PROVE  /\ StoreOK(r, L, K) /\ Len(r.base) = L
           /\ \A d \in 1..L : At(r, d) = IF d = c THEN CtxInst ELSE None
<1>1. PICK n : n = Nulls(L)
  OBVIOUS
<1>2. n \in Seq(SlotSet(0)) /\ Len(n) = L /\ \A d \in 1..L : n[d] = None
  <2>1. None \in SlotSet(0)
    BY DEF SlotSet
  <2> QED
    BY <1>1, <2>1 DEF Nulls
<1>3. PICK s : s = ResizeStore(NoStore, L)
  OBVIOUS
<1>4. s = [frozen |-> n, base |-> n, order |-> <<>>]
  BY <1>1, <1>3 DEF ResizeStore, NoStore
<1>5. s.frozen = n /\ s.base = n /\ s.order = <<>> /\ s = [frozen |-> s.frozen, base |-> s.base, order |-> s.order]
  BY <1>4
<1>6. \A d \in 1..L : At(s, d) = None
  BY <1>2, <1>5 DEF At
<1>7. \A d : ~Holds(s.order, d)
  BY <1>5 DEF Holds
<1>8. StoreOK(s, L, 0)
  BY <1>2, <1>5, <1>6, <1>7 DEF StoreOK
<1>9. r = StoreAt(s, c, CtxInst)
  BY <1>3
<1>10. StoreOK(r, L, 0 + 1) /\ Len(r.base) = L /\ Puts(s, c, CtxInst, L, r)
  BY <1>2, <1>5, <1>6, <1>8, <1>9, StoreAtOK
<1>11. \A d \in 1..L : At(r, d) = IF d = c THEN CtxInst ELSE None
  BY <1>6, <1>10 DEF Puts
<1>12. r.base \in Seq(SlotSet(K)) /\ r.frozen \in Seq(SlotSet(K))
  <2>1. r.base \in Seq(SlotSet(1)) /\ r.frozen \in Seq(SlotSet(1)) /\ Len(r.frozen) <= L
        /\ \A d \in 1..Len(r.frozen) : r.frozen[d] = r.base[d]
    BY <1>10 DEF StoreOK
  <2>2. \A d \in 1..L : r.base[d] \in SlotSet(K)
    BY <1>10, <1>11 DEF At, SlotSet
  <2>3. r.base \in Seq(SlotSet(K))
    BY <1>10, <2>1, <2>2
  <2>4. \A d \in 1..Len(r.frozen) : r.frozen[d] \in SlotSet(K)
    BY <2>1, <2>2
  <2> QED
    BY <2>1, <2>3, <2>4
<1> QED
  BY <1>10, <1>11, <1>12 DEF StoreOK

-----------------------------------------------------------------------------
(* The instances: I, all of them; s, the store; B, the queue of bindings;  *)
(* X, the ones that were lost; L, the number of descriptors.               *)

LiveLife == {"made", "raw"}
InstSet(L) == [desc : 1..L \union {NoDesc}, life : {"made", "raw", "raw gone", "destroyed"}, uses : SUBSET Nat]

\* In the queue, or dropped from it.
Owed(B, X, i) == i \in X \/ \E n \in 1..Len(B) : B[n].inst = i

\* Where instance i is held, and what it uses: live instances older than itself.
InstOK(I, s, B, X, L, i) ==
    /\ Owed(B, X, i) => I[i].desc = NoDesc /\ I[i].life = "made" /\ I[i].uses = {}
    /\ I[i].life \in LiveLife /\ ~Owed(B, X, i) => I[i].desc \in 1..L /\ At(s, I[i].desc) = i
    /\ I[i].life \in LiveLife => \A u \in I[i].uses : u \in 1..(i - 1) /\ I[u].life \in LiveLife

\* The queue is in the order of age.
BindsOK(B, X, K) ==
    /\ B \in Seq([key : Key, inst : 1..K]) /\ X \subseteq 1..K
    /\ \A n \in 1..Len(B) : B[n].inst \notin X
    /\ \A m, n \in 1..Len(B) : m < n => B[m].inst < B[n].inst

\* All instances, what is stored for a descriptor being an instance of it.
InstsOK(I, s, B, X, L) ==
    /\ I \in Seq(InstSet(L))
    /\ \A i \in 1..Len(I) : InstOK(I, s, B, X, L, i)
    /\ \A d \in 1..L : At(s, d) \in 1..Len(I) => I[At(s, d)].desc = d
    /\ BindsOK(B, X, Len(I))

\* What is stored is alive, or is still to be destroyed, the youngest first.
Lives(I, s, L) == \A d \in 1..L : At(s, d) \in 1..Len(I) => I[At(s, d)].life \in LiveLife
Undone(I, s, L, q) ==
    /\ q \in Seq(1..L) /\ \A k \in 1..Len(q) : At(s, q[k]) # None
    /\ \A j, k \in 1..Len(q) : j < k => Num(s, q[j]) > Num(s, q[k])
    /\ \A d \in 1..L : At(s, d) \in 1..Len(I) => ((I[At(s, d)].life \in LiveLife) <=> Holds(q, d))

\* There may be more descriptors.
LEMMA InstSetUp ==
    ASSUME NEW L \in Nat, NEW M \in Nat, L <= M
    PROVE  InstSet(L) \subseteq InstSet(M)
<1>1. 1..L \subseteq 1..M
  OBVIOUS
<1> QED
  BY <1>1 DEF InstSet

\* The parts of a queued binding.
LEMMA BindsIn ==
    ASSUME NEW K \in Nat, NEW B, NEW X, BindsOK(B, X, K)
    PROVE  Len(B) \in Nat /\ \A n \in 1..Len(B) : B[n].key \in Key /\ B[n].inst \in 1..K
<1>1. B \in Seq([key : Key, inst : 1..K])
  BY DEF BindsOK
<1>2. Len(B) \in Nat /\ \A n \in 1..Len(B) : B[n] \in [key : Key, inst : 1..K]
  <2>1. PICK S : S = [key : Key, inst : 1..K]
    OBVIOUS
  <2>2. B \in Seq(S)
    BY <1>1, <2>1
  <2>3. Len(B) \in Nat /\ \A n \in 1..Len(B) : B[n] \in S
    BY <2>2
  <2> QED
    BY <2>1, <2>3
<1>3. \A b \in [key : Key, inst : 1..K] : b.key \in Key /\ b.inst \in 1..K
  OBVIOUS
<1> QED
  BY <1>2, <1>3

\* A new instance x for descriptor e is stored, perhaps a descriptor that is new too.
Gains(I, s, L, e, x, J, r, M) ==
    /\ L \in Nat /\ M \in Nat /\ L <= M /\ Len(I) \in Nat
    /\ e \in 1..M /\ At(s, e) = None /\ Puts(s, e, Len(I) + 1, M, r)
    /\ \A d \in 1..M : d \notin 1..L => At(s, d) = None
    /\ x \in InstSet(M) /\ x.desc = e /\ x.life \in LiveLife
    /\ \A u \in x.uses : u \in 1..Len(I) /\ I[u].life \in LiveLife
    /\ J = Append(I, x)

\* Then the instances stay accounted for and the stored ones alive.
LEMMA InstsAdd ==
    ASSUME NEW L, NEW M, NEW I, NEW s, NEW B, NEW X, NEW e, NEW x, NEW r, NEW J, Gains(I, s, L, e, x, J, r, M),
           StoreOK(s, L, Len(I)), InstsOK(I, s, B, X, L), Lives(I, s, L)
    PROVE  /\ InstsOK(J, r, B, X, M) /\ Lives(J, r, M)
           /\ Len(J) = Len(I) + 1 /\ J[Len(I) + 1] = x /\ \A i \in 1..Len(I) : J[i] = I[i]
<1> PICK K : K = Len(I)
  OBVIOUS
<1> /\ L \in Nat /\ M \in Nat /\ L <= M /\ K \in Nat
    /\ StoreOK(s, L, K) /\ e \in 1..M /\ At(s, e) = None /\ Puts(s, e, K + 1, M, r)
    /\ \A d \in 1..M : d \notin 1..L => At(s, d) = None
    /\ x \in InstSet(M) /\ x.desc = e /\ x.life \in LiveLife
    /\ \A u \in x.uses : u \in 1..K /\ I[u].life \in LiveLife
    /\ J = Append(I, x)
  BY DEF Gains
<1>0. /\ I \in Seq(InstSet(L)) /\ \A i \in 1..K : InstOK(I, s, B, X, L, i)
      /\ \A d \in 1..L : At(s, d) \in 1..K => I[At(s, d)].desc = d
      /\ BindsOK(B, X, K)
  BY DEF InstsOK
<1>1. I \in Seq(InstSet(M))
  BY <1>0, InstSetUp, SeqUp
<1>2. J \in Seq(InstSet(M)) /\ Len(J) = K + 1 /\ J[K + 1] = x /\ \A i \in 1..K : J[i] = I[i]
  BY <1>1
<1>3. \A d \in 1..M : At(r, d) = IF d = e THEN K + 1 ELSE At(s, d)
  BY DEF Puts
<1>4. \A i \in 1..K : Owed(B, X, i) => I[i].desc = NoDesc
  BY <1>0 DEF InstOK
<1>5. ~Owed(B, X, K + 1)
  <2>1. \A n \in 1..Len(B) : B[n].inst \in 1..K
    BY <1>0, BindsIn
  <2> QED
    BY <1>0, <2>1 DEF BindsOK, Owed
<1>6. ASSUME NEW i \in 1..K PROVE InstOK(J, r, B, X, M, i)
  <2>1. J[i] = I[i] /\ InstOK(I, s, B, X, L, i)
    BY <1>0, <1>2
  <2>2. ASSUME I[i].life \in LiveLife, ~Owed(B, X, i) PROVE I[i].desc \in 1..M /\ At(r, I[i].desc) = i
    <3>1. I[i].desc \in 1..L /\ At(s, I[i].desc) = i
      BY <2>1, <2>2 DEF InstOK
    <3>2. I[i].desc \in 1..M /\ I[i].desc # e
      BY <3>1, NoNumbers
    <3> QED
      BY <1>3, <3>1, <3>2
  <2>3. ASSUME I[i].life \in LiveLife, NEW u \in I[i].uses PROVE u \in 1..(i - 1) /\ J[u].life \in LiveLife
    <3>1. u \in 1..(i - 1) /\ I[u].life \in LiveLife
      BY <2>1, <2>3 DEF InstOK
    <3> QED
      BY <1>2, <3>1
  <2> QED
    BY <2>1, <2>2, <2>3 DEF InstOK
<1>7. InstOK(J, r, B, X, M, K + 1)
  <2>1. \A u \in x.uses : u \in 1..((K + 1) - 1) /\ J[u].life \in LiveLife
    BY <1>2
  <2> QED
    BY <1>2, <1>3, <1>5, <2>1 DEF InstOK
<1>8. ASSUME NEW d \in 1..M, At(r, d) \in 1..(K + 1)
      PROVE  J[At(r, d)].desc = d /\ J[At(r, d)].life \in LiveLife
  <2>1. CASE d = e
    BY <1>2, <1>3, <2>1
  <2>2. CASE d # e
    <3>1. At(r, d) = At(s, d) /\ d \in 1..L
      BY <1>3, <1>8, <2>2, NoNumbers
    <3>2. At(s, d) \in 1..K
      <4>1. At(s, d) \in SlotSet(K)
        BY <3>1, FindIs
      <4> QED
        BY <1>8, <3>1, <4>1, NoNumbers DEF SlotSet
    <3> QED
      BY <1>0, <1>2, <3>1, <3>2 DEF Lives
  <2> QED
    BY <2>1, <2>2
<1>9. BindsOK(B, X, K + 1)
  <2>1. B \in Seq([key : Key, inst : 1..K])
    BY <1>0 DEF BindsOK
  <2>2. [key : Key, inst : 1..K] \subseteq [key : Key, inst : 1..(K + 1)]
    OBVIOUS
  <2>3. B \in Seq([key : Key, inst : 1..(K + 1)])
    BY <2>1, <2>2, SeqUp
  <2> QED
    BY <1>0, <2>3 DEF BindsOK
<1>10. ASSUME NEW i \in 1..Len(J) PROVE InstOK(J, r, B, X, M, i)
  BY <1>2, <1>6, <1>7
<1> QED
  BY <1>2, <1>8, <1>9, <1>10 DEF InstsOK, Lives

\* bindSingleton() before start() queues a new instance: the account stays right.
LEMMA InstsQueue ==
    ASSUME NEW L \in Nat, NEW K \in Nat, NEW I, K = Len(I), NEW s, NEW B, NEW X,
           StoreOK(s, L, K), InstsOK(I, s, B, X, L), NEW k \in Key,
           NEW J, J = Append(I, NewInst(NoDesc, {})), NEW C, C = Append(B, [key |-> k, inst |-> K + 1])
    PROVE  /\ InstsOK(J, s, C, X, L)
           /\ Lives(I, s, L) => Lives(J, s, L)
           /\ \A q : Undone(I, s, L, q) => Undone(J, s, L, q)
<1>0. /\ I \in Seq(InstSet(L)) /\ \A i \in 1..K : InstOK(I, s, B, X, L, i)
      /\ \A d \in 1..L : At(s, d) \in 1..K => I[At(s, d)].desc = d
      /\ BindsOK(B, X, K)
  BY DEF InstsOK
<1>1. NewInst(NoDesc, {}) \in InstSet(L) /\ NewInst(NoDesc, {}).desc = NoDesc /\ NewInst(NoDesc, {}).life = "made"
      /\ NewInst(NoDesc, {}).uses = {}
  BY DEF NewInst, InstSet
<1>2. J \in Seq(InstSet(L)) /\ Len(J) = K + 1 /\ J[K + 1] = NewInst(NoDesc, {}) /\ \A i \in 1..K : J[i] = I[i]
  BY <1>0, <1>1
<1>3. \A d \in 1..L : At(s, d) \in 1..(K + 1) => At(s, d) \in 1..K
  <2>1. \A d \in 1..L : At(s, d) \in SlotSet(K)
    BY FindIs
  <2> QED
    BY <2>1, NoNumbers DEF SlotSet
<1>a. PICK b : b = [key |-> k, inst |-> K + 1]
  OBVIOUS
<1>4. BindsOK(C, X, K + 1) /\ \A i \in 1..(K + 1) : Owed(C, X, i) <=> (Owed(B, X, i) \/ i = K + 1)
  <2>1. B \in Seq([key : Key, inst : 1..K]) /\ X \subseteq 1..K
    BY <1>0 DEF BindsOK
  <2>2. [key : Key, inst : 1..K] \subseteq [key : Key, inst : 1..(K + 1)] /\ b \in [key : Key, inst : 1..(K + 1)]
        /\ b.inst = K + 1
    BY <1>a
  <2>3. B \in Seq([key : Key, inst : 1..(K + 1)])
    BY <2>1, <2>2, SeqUp
  <2>4. /\ C \in Seq([key : Key, inst : 1..(K + 1)]) /\ Len(C) = Len(B) + 1 /\ C[Len(B) + 1] = b
        /\ \A n \in 1..Len(B) : C[n] = B[n]
    BY <1>a, <2>2, <2>3
  <2>5. Len(B) \in Nat /\ \A n \in 1..Len(B) : B[n].inst \in 1..K
    BY <1>0, BindsIn
  <2>6. \A n \in 1..Len(C) : C[n].inst \notin X
    BY <1>0, <2>1, <2>2, <2>4, <2>5 DEF BindsOK
  <2>7. ASSUME NEW m \in 1..Len(C), NEW n \in 1..Len(C), m < n PROVE C[m].inst < C[n].inst
    <3>1. m \in 1..Len(B) /\ C[m] = B[m] /\ B[m].inst \in 1..K
      BY <2>4, <2>5, <2>7
    <3>2. CASE n \in 1..Len(B)
      BY <1>0, <2>4, <2>7, <3>1, <3>2 DEF BindsOK
    <3>3. CASE n = Len(B) + 1
      BY <2>2, <2>4, <3>1, <3>3
    <3> QED
      BY <2>4, <2>5, <3>2, <3>3
  <2>8. ASSUME NEW i \in 1..(K + 1) PROVE Owed(C, X, i) <=> (Owed(B, X, i) \/ i = K + 1)
    <3>1. (\E n \in 1..Len(C) : C[n].inst = i) <=> ((\E n \in 1..Len(B) : B[n].inst = i) \/ i = K + 1)
      BY <2>2, <2>4, <2>5
    <3> QED
      BY <3>1 DEF Owed
  <2> QED
    BY <2>1, <2>4, <2>6, <2>7, <2>8 DEF BindsOK
<1>5. ASSUME NEW i \in 1..K PROVE InstOK(J, s, C, X, L, i)
  <2>1. J[i] = I[i] /\ InstOK(I, s, B, X, L, i) /\ (Owed(C, X, i) <=> Owed(B, X, i))
    BY <1>0, <1>2, <1>4
  <2>3. ASSUME I[i].life \in LiveLife, NEW u \in I[i].uses PROVE u \in 1..(i - 1) /\ J[u].life \in LiveLife
    <3>1. u \in 1..(i - 1) /\ I[u].life \in LiveLife
      BY <2>1, <2>3 DEF InstOK
    <3> QED
      BY <1>2, <3>1
  <2> QED
    BY <2>1, <2>3 DEF InstOK
<1>6. InstOK(J, s, C, X, L, K + 1)
  BY <1>1, <1>2, <1>4 DEF InstOK
<1>7. \A i \in 1..Len(J) : InstOK(J, s, C, X, L, i)
  BY <1>2, <1>5, <1>6
<1>8. \A d \in 1..L : At(s, d) \in 1..Len(J) => At(s, d) \in 1..K /\ J[At(s, d)] = I[At(s, d)]
  BY <1>2, <1>3
<1>9. InstsOK(J, s, C, X, L)
  BY <1>0, <1>2, <1>4, <1>7, <1>8 DEF InstsOK
<1>10. Lives(I, s, L) => Lives(J, s, L)
  BY <1>8 DEF Lives
<1>11. ASSUME NEW q, Undone(I, s, L, q) PROVE Undone(J, s, L, q)
  BY <1>8, <1>11 DEF Undone
<1> QED
  BY <1>9, <1>10, <1>11

\* Nothing is left to destroy: nothing that was stored is alive.
LEMMA InstsReleased ==
    ASSUME NEW L \in Nat, NEW K \in Nat, NEW I, K = Len(I), NEW s, NEW B, NEW X,
           InstsOK(I, s, B, X, L), Undone(I, s, L, <<>>)
    PROVE  InstsOK(I, NoStore, B, X, L) /\ Lives(I, NoStore, L)
<1>0. \A d \in 1..L : At(NoStore, d) = None
  BY NoStoreOK
<1>1. ASSUME NEW i \in 1..K PROVE InstOK(I, NoStore, B, X, L, i)
  <2>1. InstOK(I, s, B, X, L, i)
    BY DEF InstsOK
  <2>2. ASSUME I[i].life \in LiveLife, ~Owed(B, X, i) PROVE FALSE
    <3>1. I[i].desc \in 1..L /\ At(s, I[i].desc) = i
      BY <2>1, <2>2 DEF InstOK
    <3>2. ~Holds(<<>>, I[i].desc)
      BY HoldsNone
    <3> QED
      BY <2>2, <3>1, <3>2 DEF Undone
  <2> QED
    BY <2>1, <2>2 DEF InstOK
<1>2. \A d \in 1..L : At(NoStore, d) \notin 1..K
  BY <1>0, NoNumbers
<1> QED
  BY <1>1, <1>2 DEF InstsOK, Lives

\* Instance i is destroyed, if there is one.
Ends(I, i, J) ==
    J = IF i \in {None, CtxInst} THEN I
        ELSE [I EXCEPT ![i].life = CASE @ = "made" -> "destroyed" [] @ = "raw" -> "raw gone" [] OTHER -> "corrupt"]

\* No instance becomes one that was never constructed.
NoNewRaw(I, J) ==
    /\ Len(J) = Len(I)
    /\ \A k \in 1..Len(I) : J[k].life \in {"raw", "raw gone"} => I[k].life \in {"raw", "raw gone"}

\* The next of the list, the youngest that is stored and alive, goes.
DestroysFirst(I, s, q, y, J) == q # <<>> /\ y = Tail(q) /\ Ends(I, At(s, q[1]), J)

\* That keeps the account right: whatever uses the instance went before it.
LEMMA InstsDestroy ==
    ASSUME NEW L \in Nat, NEW K \in Nat, NEW I, K = Len(I), NEW s, NEW B, NEW X,
           StoreOK(s, L, K), InstsOK(I, s, B, X, L), NEW q, Undone(I, s, L, q), NEW y, NEW J, DestroysFirst(I, s, q, y, J)
    PROVE  InstsOK(J, s, B, X, L) /\ Undone(J, s, L, y) /\ NoNewRaw(I, J)
<1> SUFFICES /\ InstsOK(J, s, B, X, L) /\ Undone(J, s, L, y) /\ Len(J) = K
             /\ \A k \in 1..K : J[k].life \in {"raw", "raw gone"} => I[k].life \in {"raw", "raw gone"}
  BY DEF NoNewRaw
<1> PICK i : i = At(s, q[1])
  OBVIOUS
<1> q # <<>> /\ y = Tail(q) /\ i = At(s, q[1]) /\ Ends(I, i, J)
  BY DEF DestroysFirst
<1>0. /\ I \in Seq(InstSet(L)) /\ \A k \in 1..K : InstOK(I, s, B, X, L, k)
      /\ \A d \in 1..L : At(s, d) \in 1..K => I[At(s, d)].desc = d
      /\ BindsOK(B, X, K)
  BY DEF InstsOK
<1>1. /\ q \in Seq(1..L) /\ \A k \in 1..Len(q) : At(s, q[k]) # None
      /\ \A j, k \in 1..Len(q) : j < k => Num(s, q[j]) > Num(s, q[k])
      /\ \A d \in 1..L : At(s, d) \in 1..K => ((I[At(s, d)].life \in LiveLife) <=> Holds(q, d))
  BY DEF Undone
<1>2. PICK r : r = Tail(q)
  OBVIOUS
<1>3. /\ Len(q) \in Nat \ {0} /\ r \in Seq(1..L) /\ Len(r) = Len(q) - 1 /\ q[1] \in 1..L
      /\ \A k \in 1..Len(r) : r[k] = q[k + 1] /\ k + 1 \in 1..Len(q)
  BY <1>1, <1>2
<1>4. i # None /\ i \in SlotSet(K)
  BY <1>1, <1>3, FindIs
<1>5. \A d \in 1..L : At(s, d) \in SlotSet(K)
  BY FindIs
<1>6. \A k \in 1..Len(q) : q[k] \in 1..L /\ Num(s, q[k]) \in 0..K
  BY <1>1, <1>5, NoNumbers DEF Num, SlotSet
<1>7. \A d \in 1..L : (Holds(q, d)) <=> (Holds(r, d) \/ d = q[1])
  <2>1. ASSUME NEW d \in 1..L, Holds(q, d), d # q[1] PROVE Holds(r, d)
    <3>1. PICK k \in 1..Len(q) : q[k] = d
      BY <2>1 DEF Holds
    <3>2. k - 1 \in 1..Len(r) /\ r[k - 1] = q[(k - 1) + 1] /\ (k - 1) + 1 = k
      BY <1>3, <2>1, <3>1
    <3> QED
      BY <3>1, <3>2 DEF Holds
  <2>2. ASSUME NEW d \in 1..L, Holds(r, d) PROVE Holds(q, d)
    BY <1>3, <2>2 DEF Holds
  <2>3. Holds(q, q[1])
    BY <1>3 DEF Holds
  <2> QED
    BY <2>1, <2>2, <2>3
<1>8. ~Holds(r, q[1])
  <2>1. ASSUME NEW k \in 1..Len(r), r[k] = q[1] PROVE FALSE
    <3>1. k + 1 \in 1..Len(q) /\ 1 \in 1..Len(q) /\ 1 < k + 1 /\ q[k + 1] = q[1]
      BY <1>3, <2>1
    <3>2. Num(s, q[1]) > Num(s, q[k + 1]) /\ Num(s, q[1]) \in Int
      BY <1>1, <1>6, <3>1
    <3> QED
      BY <3>1, <3>2
  <2> QED
    BY <2>1 DEF Holds
<1>9. /\ \A k \in 1..Len(r) : At(s, r[k]) # None
      /\ \A j, k \in 1..Len(r) : j < k => Num(s, r[j]) > Num(s, r[k])
  <2>1. \A k \in 1..Len(r) : At(s, r[k]) # None
    BY <1>1, <1>3
  <2>2. ASSUME NEW j \in 1..Len(r), NEW k \in 1..Len(r), j < k PROVE Num(s, r[j]) > Num(s, r[k])
    <3>1. j + 1 < k + 1 /\ j + 1 \in 1..Len(q) /\ k + 1 \in 1..Len(q) /\ r[j] = q[j + 1] /\ r[k] = q[k + 1]
      BY <1>3, <2>2
    <3> QED
      BY <1>1, <3>1
  <2> QED
    BY <2>1, <2>2
<1>10. CASE i = CtxInst
  <2>1. J = I
    BY <1>10 DEF Ends
  <2>2. ASSUME NEW d \in 1..L, At(s, d) \in 1..K PROVE (I[At(s, d)].life \in LiveLife) <=> Holds(r, d)
    <3>0. At(s, q[1]) = CtxInst /\ At(s, d) # CtxInst
      BY <1>10, <2>2, NoNumbers
    <3>1. d # q[1]
      BY <3>0
    <3> QED
      BY <1>1, <1>7, <2>2, <3>1
  <2>3. Undone(I, s, L, r)
    BY <1>3, <1>9, <2>2 DEF Undone
  <2> QED
    BY <1>2, <2>1, <2>3
<1>11. CASE i # CtxInst
  <2>0. i \in 1..K /\ I[i].desc = q[1] /\ I[i].life \in LiveLife
    <3>1. i \in 1..K
      BY <1>4, <1>11 DEF SlotSet
    <3>2. Holds(q, q[1])
      BY <1>3 DEF Holds
    <3> QED
      BY <1>0, <1>1, <1>3, <3>1, <3>2
  <2>a. PICK l : l = (IF I[i].life = "made" THEN "destroyed" ELSE "raw gone")
    OBVIOUS
  <2>b. I[i] \in InstSet(L)
    BY <1>0, <2>0
  <2>c. PICK e : e = [I[i] EXCEPT !.life = l]
    OBVIOUS
  <2>d. e \in InstSet(L) /\ e.desc = I[i].desc /\ e.life = l /\ e.uses = I[i].uses
    BY <2>a, <2>b, <2>c DEF InstSet
  <2>1. J = [I EXCEPT ![i] = e]
    <3>1. J = [I EXCEPT ![i] = [I[i] EXCEPT !.life = CASE I[i].life = "made" -> "destroyed"
                                [] I[i].life = "raw" -> "raw gone" [] OTHER -> "corrupt"]]
      BY <1>4, <1>11 DEF Ends
    <3>2. (CASE I[i].life = "made" -> "destroyed" [] I[i].life = "raw" -> "raw gone" [] OTHER -> "corrupt") = l
      BY <2>0, <2>a DEF LiveLife
    <3> QED
      BY <2>c, <3>1, <3>2
  <2>2. J \in Seq(InstSet(L)) /\ Len(J) = K /\ \A k \in 1..K : J[k] = IF k = i THEN e ELSE I[k]
    BY <1>0, <2>0, <2>d, <2>1
  <2>3. /\ \A k \in 1..K : J[k].desc = I[k].desc /\ J[k].uses = I[k].uses
        /\ \A k \in 1..K : (J[k].life \in LiveLife) <=> (I[k].life \in LiveLife /\ k # i)
        /\ \A k \in 1..K : k # i => J[k].life = I[k].life
        /\ J[i].life = l
    BY <2>0, <2>2, <2>d, <2>a DEF LiveLife
  <2>4. ~Owed(B, X, i)
    BY <1>0, <1>3, <2>0, NoNumbers DEF InstOK
  <2>5. ASSUME NEW k \in 1..K PROVE InstOK(J, s, B, X, L, k)
    <3>0. InstOK(I, s, B, X, L, k)
      BY <1>0
    <3>1. Owed(B, X, k) => J[k].desc = NoDesc /\ J[k].life = "made" /\ J[k].uses = {}
      BY <2>3, <2>4, <3>0 DEF InstOK
    <3>2. J[k].life \in LiveLife /\ ~Owed(B, X, k) => J[k].desc \in 1..L /\ At(s, J[k].desc) = k
      BY <2>3, <3>0 DEF InstOK
    <3>3. ASSUME J[k].life \in LiveLife, NEW u \in J[k].uses PROVE u \in 1..(k - 1) /\ J[u].life \in LiveLife
      <4>1. I[k].life \in LiveLife /\ k # i /\ u \in I[k].uses
        BY <2>3, <3>3
      <4>2. u \in 1..(k - 1) /\ I[u].life \in LiveLife /\ u \in 1..K
        BY <3>0, <4>1 DEF InstOK
      <4>3. u # i
        <5>1. ~Owed(B, X, k)
          BY <3>0, <4>1 DEF InstOK
        <5>2. I[k].desc \in 1..L /\ At(s, I[k].desc) = k
          BY <3>0, <4>1, <5>1 DEF InstOK
        <5>3. Holds(q, I[k].desc)
          BY <1>1, <4>1, <5>2
        <5>4. PICK p \in 1..Len(q) : q[p] = I[k].desc
          BY <5>3 DEF Holds
        <5>5. Num(s, q[p]) = k /\ Num(s, q[1]) = i
          BY <1>11, <5>2, <5>4, NoNumbers DEF Num
        <5>6. p # 1 => i > k
          <6>1. 1 \in 1..Len(q) /\ (p # 1 => 1 < p)
            BY <1>3
          <6>2. p # 1 => Num(s, q[1]) > Num(s, q[p])
            BY <1>1, <6>1
          <6> QED
            BY <5>5, <6>2
        <5>7. p # 1
          BY <4>1, <5>5
        <5> QED
          BY <2>0, <4>2, <5>6, <5>7
      <4> QED
        BY <2>3, <4>2, <4>3
    <3> QED
      BY <3>1, <3>2, <3>3 DEF InstOK
  <2>6. \A d \in 1..L : At(s, d) \in 1..K => J[At(s, d)].desc = d
    BY <1>0, <2>3
  <2>7. InstsOK(J, s, B, X, L)
    BY <1>0, <2>2, <2>5, <2>6 DEF InstsOK
  <2>8. ASSUME NEW d \in 1..L, At(s, d) \in 1..K PROVE (J[At(s, d)].life \in LiveLife) <=> Holds(r, d)
    <3>1. CASE d = q[1]
      BY <1>8, <2>0, <2>3, <3>1
    <3>2. CASE d # q[1]
      <4>1. At(s, d) # i
        BY <1>0, <2>0, <2>8, <3>2
      <4> QED
        BY <1>1, <1>7, <2>3, <2>8, <3>2, <4>1
    <3> QED
      BY <3>1, <3>2
  <2>9. Undone(J, s, L, r)
    BY <1>3, <1>9, <2>2, <2>8 DEF Undone
  <2>10. \A k \in 1..K : J[k].life \in {"raw", "raw gone"} => I[k].life \in {"raw", "raw gone"}
    <3>1. ASSUME NEW k \in 1..K, k # i, J[k].life \in {"raw", "raw gone"} PROVE I[k].life \in {"raw", "raw gone"}
      BY <2>3, <3>1
    <3>2. J[i].life \in {"raw", "raw gone"} => I[i].life \in {"raw", "raw gone"}
      BY <2>0, <2>3, <2>a DEF LiveLife
    <3> QED
      BY <3>1, <3>2
  <2> QED
    BY <1>2, <2>2, <2>7, <2>9, <2>10
<1> QED
  BY <1>10, <1>11

\* The reverse of the store's order is a list that a destruction may start from.
LEMMA ReverseUndone ==
    ASSUME NEW L \in Nat, NEW K \in Nat, NEW I, K = Len(I), NEW s, StoreOK(s, L, K), Lives(I, s, L),
           NEW q, q = Reverse(s.order)
    PROVE  Undone(I, s, L, q)
<1>0. /\ s.order \in Seq(1..L) /\ \A d \in 1..L : (Holds(s.order, d)) <=> (At(s, d) # None)
      /\ \A j, k \in 1..Len(s.order) : j < k => Num(s, s.order[j]) < Num(s, s.order[k])
  BY DEF StoreOK
<1>1. PICK o : o = s.order
  OBVIOUS
<1>2. PICK n \in Nat : n = Len(o)
  BY <1>0, <1>1
<1>3. q = [k \in 1..n |-> o[(n - k) + 1]]
  BY <1>1, <1>2 DEF Reverse
<1>4. o \in Seq(1..L) /\ \A k \in 1..n : (n - k) + 1 \in 1..n
  BY <1>0, <1>1
<1>5. \A k \in 1..n : o[(n - k) + 1] \in 1..L
  BY <1>2, <1>4
<1>6. q \in Seq(1..L) /\ Len(q) = n /\ \A k \in 1..n : q[k] = o[(n - k) + 1] /\ q[k] \in 1..L
  BY <1>3, <1>5
<1>7. \A d : (Holds(q, d)) <=> (Holds(o, d))
  <2>1. ASSUME NEW d, Holds(q, d) PROVE Holds(o, d)
    BY <1>2, <1>4, <1>6, <2>1 DEF Holds
  <2>2. ASSUME NEW d, Holds(o, d) PROVE Holds(q, d)
    <3>1. PICK k \in 1..n : o[k] = d
      BY <1>2, <2>2 DEF Holds
    <3>2. (n - k) + 1 \in 1..n /\ (n - ((n - k) + 1)) + 1 = k
      OBVIOUS
    <3> QED
      BY <1>6, <3>1, <3>2 DEF Holds
  <2> QED
    BY <2>1, <2>2
<1>8. ASSUME NEW k \in 1..n PROVE At(s, q[k]) # None
  <2>1. Holds(q, q[k])
    BY <1>6 DEF Holds
  <2> QED
    BY <1>0, <1>1, <1>6, <1>7, <2>1
<1>9. ASSUME NEW j \in 1..n, NEW k \in 1..n, j < k PROVE Num(s, q[j]) > Num(s, q[k])
  <2>1. (n - k) + 1 \in 1..n /\ (n - j) + 1 \in 1..n /\ (n - k) + 1 < (n - j) + 1
    BY <1>9
  <2>2. Num(s, o[(n - k) + 1]) < Num(s, o[(n - j) + 1])
    BY <1>0, <1>1, <1>2, <2>1
  <2> QED
    BY <1>6, <2>2
<1>10. \A d \in 1..L : At(s, d) \in 1..K => ((I[At(s, d)].life \in LiveLife) <=> Holds(q, d))
  BY <1>0, <1>1, <1>7, NoNumbers DEF Lives
<1> QED
  BY <1>6, <1>8, <1>9, <1>10 DEF Undone

\* An empty store holds nothing, whatever the number of descriptors.
LEMMA InstsUp ==
    ASSUME NEW L \in Nat, NEW M \in Nat, L <= M, NEW I, NEW B, NEW X, InstsOK(I, NoStore, B, X, L)
    PROVE  /\ InstsOK(I, NoStore, B, X, M) /\ Lives(I, NoStore, M)
           /\ \A i \in 1..Len(I) : I[i].life \in LiveLife => Owed(B, X, i)
<1>0. /\ I \in Seq(InstSet(L)) /\ \A i \in 1..Len(I) : InstOK(I, NoStore, B, X, L, i) /\ BindsOK(B, X, Len(I))
  BY DEF InstsOK
<1>1. I \in Seq(InstSet(M))
  BY <1>0, InstSetUp, SeqUp
<1>2. \A d : At(NoStore, d) = None
  BY NoStoreOK
<1>3. ASSUME NEW i \in 1..Len(I), I[i].life \in LiveLife PROVE Owed(B, X, i)
  <2>1. ~Owed(B, X, i) => At(NoStore, I[i].desc) = i
    BY <1>0, <1>3 DEF InstOK
  <2>2. i \in Nat
    OBVIOUS
  <2> QED
    BY <1>2, <2>1, <2>2, NoNumbers
<1>4. ASSUME NEW i \in 1..Len(I) PROVE InstOK(I, NoStore, B, X, M, i)
  <2>1. InstOK(I, NoStore, B, X, L, i)
    BY <1>0
  <2> QED
    BY <1>3, <2>1 DEF InstOK
<1>5. \A d \in 1..M : At(NoStore, d) \notin 1..Len(I)
  BY <1>2, NoNumbers
<1>6. BindsOK(B, X, Len(I))
  BY DEF InstsOK
<1> QED
  BY <1>1, <1>3, <1>4, <1>5, <1>6 DEF InstsOK, Lives

\* A rejected start() drops the queue: its instances are lost, and accounted as such.
LEMMA InstsLost ==
    ASSUME NEW L \in Nat, NEW I, NEW B, NEW X, InstsOK(I, NoStore, B, X, L),
           NEW Y, Y = X \union {B[n].inst : n \in 1..Len(B)}
    PROVE  InstsOK(I, NoStore, <<>>, Y, L)
<1>0. /\ I \in Seq(InstSet(L)) /\ BindsOK(B, X, Len(I))
      /\ \A i \in 1..Len(I) : InstOK(I, NoStore, B, X, L, i)
      /\ \A d \in 1..L : At(NoStore, d) \in 1..Len(I) => I[At(NoStore, d)].desc = d
  BY DEF InstsOK
<1>1. Len(I) \in Nat
  BY <1>0
<1>2. \A i : Owed(<<>>, Y, i) <=> Owed(B, X, i)
  BY DEF Owed
<1>3. ASSUME NEW i \in 1..Len(I) PROVE InstOK(I, NoStore, <<>>, Y, L, i)
  BY <1>0, <1>2 DEF InstOK
<1>4. BindsOK(<<>>, Y, Len(I))
  <2>1. \A n \in 1..Len(B) : B[n].inst \in 1..Len(I)
    BY <1>0, <1>1, BindsIn
  <2>2. X \subseteq 1..Len(I)
    BY <1>0 DEF BindsOK
  <2>3. Y \subseteq 1..Len(I)
    BY <2>1, <2>2
  <2>4. <<>> \in Seq([key : Key, inst : 1..Len(I)]) /\ Len(<<>>) = 0
    OBVIOUS
  <2> QED
    BY <2>3, <2>4 DEF BindsOK
<1> QED
  BY <1>0, <1>3, <1>4 DEF InstsOK

\* ~Registry destroys what is queued.
EndsAll(I, B, J) ==
    /\ J = [i \in 1..Len(I) |-> J[i]]
    /\ \A i \in 1..Len(I) : IF \E n \in 1..Len(B) : B[n].inst = i
                            THEN \E G : Ends(I, i, G) /\ J[i] = G[i] ELSE J[i] = I[i]

\* Then nothing that was queued is alive, and each was destroyed once.
LEMMA InstsEnd ==
    ASSUME NEW L \in Nat, NEW I, NEW B, NEW X, InstsOK(I, NoStore, B, X, L), NEW J, EndsAll(I, B, J)
    PROVE  /\ InstsOK(J, NoStore, <<>>, X, L) /\ Len(J) = Len(I)
           /\ \A i \in 1..Len(I) : J[i].life \in {"raw", "raw gone"} => I[i].life \in {"raw", "raw gone"}
<1>0. /\ I \in Seq(InstSet(L)) /\ BindsOK(B, X, Len(I))
      /\ \A i \in 1..Len(I) : InstOK(I, NoStore, B, X, L, i)
      /\ \A d \in 1..L : At(NoStore, d) \in 1..Len(I) => I[At(NoStore, d)].desc = d
  BY DEF InstsOK
<1>1. PICK K \in Nat : K = Len(I)
  BY <1>0
<1>2. ASSUME NEW i \in 1..K
      PROVE  /\ J[i] \in InstSet(L)
             /\ (\E n \in 1..Len(B) : B[n].inst = i) => J[i].life = "destroyed" /\ i \notin X
             /\ ~(\E n \in 1..Len(B) : B[n].inst = i) => J[i] = I[i]
  <2>0. I[i] \in InstSet(L) /\ InstOK(I, NoStore, B, X, L, i)
    BY <1>0, <1>1
  <2>1. CASE \E n \in 1..Len(B) : B[n].inst = i
    <3>1. PICK G : Ends(I, i, G) /\ J[i] = G[i]
      BY <1>1, <2>1 DEF EndsAll
    <3>2. Owed(B, X, i) /\ i \notin X
      BY <1>0, <2>1 DEF Owed, BindsOK
    <3>3. I[i].life = "made" /\ i \notin {None, CtxInst}
      BY <2>0, <3>2, NoNumbers DEF InstOK
    <3>4. G = [I EXCEPT ![i] = [I[i] EXCEPT !.life = "destroyed"]]
      BY <3>1, <3>3 DEF Ends
    <3>5. PICK e : e = [I[i] EXCEPT !.life = "destroyed"]
      OBVIOUS
    <3>6. e \in InstSet(L) /\ e.life = "destroyed"
      BY <2>0, <3>5 DEF InstSet
    <3>7. G[i] = e
      BY <1>0, <1>1, <3>4, <3>5
    <3> QED
      BY <2>1, <3>1, <3>2, <3>6, <3>7
  <2>2. CASE ~\E n \in 1..Len(B) : B[n].inst = i
    <3>1. J[i] = I[i]
      BY <1>1, <2>2 DEF EndsAll
    <3> QED
      BY <2>0, <2>2, <3>1
  <2> QED
    BY <2>1, <2>2
<1>3. J \in Seq(InstSet(L)) /\ Len(J) = K
  <2>1. J = [i \in 1..K |-> J[i]]
    BY <1>1 DEF EndsAll
  <2> QED
    BY <1>2, <2>1
<1>4. \A i \in 1..K : I[i].life \in LiveLife => Owed(B, X, i)
  BY <1>1, InstsUp
<1>5. \A i : (Owed(<<>>, X, i)) <=> (i \in X)
  BY DEF Owed
<1>6. ASSUME NEW i \in 1..K PROVE InstOK(J, NoStore, <<>>, X, L, i)
  <2>1. CASE \E n \in 1..Len(B) : B[n].inst = i
    BY <1>2, <1>5, <2>1 DEF InstOK, LiveLife
  <2>2. CASE ~\E n \in 1..Len(B) : B[n].inst = i
    <3>1. J[i] = I[i] /\ InstOK(I, NoStore, B, X, L, i) /\ (Owed(B, X, i) <=> i \in X)
      BY <1>0, <1>1, <1>2, <2>2 DEF Owed
    <3>2. J[i].life \in LiveLife => i \in X /\ J[i].uses = {}
      BY <1>4, <3>1 DEF InstOK
    <3> QED
      BY <1>5, <3>1, <3>2 DEF InstOK
  <2> QED
    BY <2>1, <2>2
<1>7. BindsOK(<<>>, X, K)
  <2>4. <<>> \in Seq([key : Key, inst : 1..K]) /\ Len(<<>>) = 0
    OBVIOUS
  <2> QED
    BY <1>0, <1>1, <2>4 DEF BindsOK
<1>8. \A d \in 1..L : At(NoStore, d) \notin 1..K
  BY NoStoreOK, NoNumbers
<1>9. ASSUME NEW i \in 1..K, J[i].life \in {"raw", "raw gone"} PROVE I[i].life \in {"raw", "raw gone"}
  BY <1>2, <1>9
<1> QED
  BY <1>1, <1>3, <1>6, <1>7, <1>8, <1>9 DEF InstsOK

-----------------------------------------------------------------------------
(* start() fills the store: the context in the last slot, the queued       *)
(* bindings in theirs.                                                     *)

\* T, what a start() stores: a descriptor below M for each binding, in their order.
Fills(T, B, M) ==
    /\ T \in Seq([desc : 1..M, inst : Nat]) /\ Len(T) = Len(B)
    /\ \A n \in 1..Len(T) : T[n].inst = B[n].inst /\ T[n].desc < M
    /\ \A m, n \in 1..Len(T) : m < n => T[m].desc < T[n].desc

\* Each entry of T, in plain terms.
LEMMA FillsIn ==
    ASSUME NEW M \in Nat, NEW K \in Nat, NEW B, NEW X, BindsOK(B, X, K), NEW T, Fills(T, B, M)
    PROVE  /\ Len(T) \in Nat /\ Len(B) = Len(T)
           /\ \A n \in 1..Len(T) : /\ T[n].desc \in 1..M /\ T[n].desc # M /\ T[n].inst = B[n].inst
                                   /\ T[n].inst \in 1..K /\ T[n].inst \notin X
           /\ \A m, n \in 1..Len(T) : T[m].desc = T[n].desc \/ T[m].inst = T[n].inst => m = n
           /\ \A m, n \in 1..Len(T) : m < n => T[m].inst < T[n].inst
<1>1. PICK S : S = [desc : 1..M, inst : Nat]
  OBVIOUS
<1>2. T \in Seq(S)
  BY <1>1 DEF Fills
<1>3. Len(T) \in Nat /\ \A n \in 1..Len(T) : T[n] \in S
  BY <1>2
<1>4. \A x \in S : x.desc \in 1..M
  BY <1>1
<1>5. Len(B) = Len(T)
  BY DEF Fills
<1>6. \A n \in 1..Len(T) : /\ T[n].desc \in 1..M /\ T[n].desc # M /\ T[n].inst = B[n].inst
                           /\ T[n].inst \in 1..K /\ T[n].inst \notin X
  <2>1. ASSUME NEW n \in 1..Len(T) PROVE T[n].desc \in 1..M /\ T[n].desc < M /\ T[n].inst = B[n].inst
    BY <1>3, <1>4 DEF Fills
  <2>2. ASSUME NEW n \in 1..Len(T) PROVE B[n].inst \in 1..K /\ B[n].inst \notin X
    BY <1>5, BindsIn DEF BindsOK
  <2> QED
    BY <2>1, <2>2
<1>7. \A m, n \in 1..Len(T) : m < n => T[m].inst < T[n].inst
  <2>1. \A m, n \in 1..Len(T) : m < n => B[m].inst < B[n].inst
    BY <1>5 DEF BindsOK
  <2> QED
    BY <1>6, <2>1
<1>8. \A m, n \in 1..Len(T) : m < n => T[m].desc < T[n].desc
  BY DEF Fills
<1>9. \A m, n \in 1..Len(T) : T[m].desc = T[n].desc \/ T[m].inst = T[n].inst => m = n
  <2>1. ASSUME NEW m \in 1..Len(T), NEW n \in 1..Len(T), T[m].desc = T[n].desc \/ T[m].inst = T[n].inst, m # n
        PROVE  FALSE
    <3>1. m < n \/ n < m
      BY <1>3, <2>1
    <3>2. T[m].desc \in Nat /\ T[n].desc \in Nat /\ T[m].inst \in Nat /\ T[n].inst \in Nat
      BY <1>6
    <3> QED
      BY <1>7, <1>8, <2>1, <3>1, <3>2
  <2> QED
    BY <2>1
<1> QED
  BY <1>3, <1>5, <1>6, <1>7, <1>9

\* What is in the slots then.
Filled(s, T, M) ==
    /\ At(s, M) = CtxInst
    /\ \A n \in 1..Len(T) : At(s, T[n].desc) = T[n].inst
    /\ \A d \in 1..M : d # M /\ ~(\E n \in 1..Len(T) : T[n].desc = d) => At(s, d) = None

\* FilledStore is a well formed store with just these instances.
LEMMA FilledOK ==
    ASSUME NEW M \in Nat \ {0}, NEW K \in Nat, NEW B, NEW X, BindsOK(B, X, K), NEW T, Fills(T, B, M),
           NEW m, Len(m.descs) = M, m.stored = T, NEW s, s = FilledStore(m)
    PROVE  StoreOK(s, M, K) /\ Len(s.base) = M /\ Filled(s, T, M)
<1>0. /\ Len(T) \in Nat /\ Len(B) = Len(T)
      /\ \A n \in 1..Len(T) : /\ T[n].desc \in 1..M /\ T[n].desc # M /\ T[n].inst = B[n].inst
                              /\ T[n].inst \in 1..K /\ T[n].inst \notin X
      /\ \A i, n \in 1..Len(T) : T[i].desc = T[n].desc \/ T[i].inst = T[n].inst => i = n
      /\ \A i, n \in 1..Len(T) : i < n => T[i].inst < T[n].inst
  BY FillsIn
<1>1. PICK b : b = [d \in 1..M |->
                    IF d = M THEN CtxInst
                    ELSE IF \E n \in 1..Len(T) : T[n].desc = d
                    THEN T[CHOOSE n \in 1..Len(T) : T[n].desc = d].inst
                    ELSE None]
  OBVIOUS
<1>2. PICK p : p = [n \in 1..Len(T) |-> T[n].desc]
  OBVIOUS
<1>3. PICK o : o = <<M>> \o p
  OBVIOUS
<1>4. s = [frozen |-> b, base |-> b, order |-> o]
  BY <1>1, <1>2, <1>3 DEF FilledStore
<1>5. s.frozen = b /\ s.base = b /\ s.order = o /\ s = [frozen |-> s.frozen, base |-> s.base, order |-> s.order]
  BY <1>4
<1>6. /\ b[M] = CtxInst
      /\ \A n \in 1..Len(T) : b[T[n].desc] = T[n].inst
      /\ \A d \in 1..M : d # M /\ ~(\E n \in 1..Len(T) : T[n].desc = d) => b[d] = None
  <2>1. b[M] = CtxInst
    BY <1>1
  <2>2. ASSUME NEW n \in 1..Len(T) PROVE b[T[n].desc] = T[n].inst
    <3>1. PICK d \in 1..M : d = T[n].desc /\ d # M
      BY <1>0
    <3>2. (CHOOSE k \in 1..Len(T) : T[k].desc = d) = n
      BY <1>0, <3>1
    <3>3. b[d] = T[CHOOSE k \in 1..Len(T) : T[k].desc = d].inst
      BY <1>1, <3>1
    <3> QED
      BY <3>1, <3>2, <3>3
  <2>3. ASSUME NEW d \in 1..M, d # M, ~(\E n \in 1..Len(T) : T[n].desc = d) PROVE b[d] = None
    BY <1>1, <2>3
  <2> QED
    BY <2>1, <2>2, <2>3
<1>7. b \in Seq(SlotSet(K)) /\ Len(b) = M
  <2>1. ASSUME NEW d \in 1..M PROVE b[d] \in SlotSet(K)
    <3>1. CASE \E n \in 1..Len(T) : T[n].desc = d
      BY <1>0, <1>6, <3>1 DEF SlotSet
    <3>2. CASE ~\E n \in 1..Len(T) : T[n].desc = d
      BY <1>6, <3>2 DEF SlotSet
    <3> QED
      BY <3>1, <3>2
  <2>2. b = [d \in 1..M |-> b[d]]
    BY <1>1
  <2> QED
    BY <2>1, <2>2
<1>8. \A d \in 1..M : At(s, d) = b[d]
  BY <1>5, <1>7 DEF At
<1>9. Filled(s, T, M)
  <2>1. At(s, M) = CtxInst
    BY <1>6, <1>8
  <2>2. ASSUME NEW n \in 1..Len(T) PROVE At(s, T[n].desc) = T[n].inst
    <3>1. T[n].desc \in 1..M
      BY <1>0
    <3> QED
      BY <1>6, <1>8, <3>1
  <2>3. ASSUME NEW d \in 1..M, d # M, ~(\E n \in 1..Len(T) : T[n].desc = d) PROVE At(s, d) = None
    BY <1>6, <1>8, <2>3
  <2> QED
    BY <2>1, <2>2, <2>3 DEF Filled
<1>10. /\ o \in Seq(1..M) /\ Len(o) = Len(T) + 1 /\ o[1] = M
       /\ \A k \in 1..Len(T) : o[k + 1] = T[k].desc
  <2>1. p \in Seq(1..M) /\ Len(p) = Len(T) /\ \A k \in 1..Len(T) : p[k] = T[k].desc
    BY <1>0, <1>2
  <2>2. <<M>> \in Seq(1..M) /\ Len(<<M>>) = 1 /\ <<M>>[1] = M
    OBVIOUS
  <2>3. PICK a : a = <<M>>
    OBVIOUS
  <2>4. /\ a \o p \in Seq(1..M) /\ Len(a \o p) = Len(a) + Len(p)
        /\ \A k \in 1..(Len(a) + Len(p)) : (a \o p)[k] = IF k <= Len(a) THEN a[k] ELSE p[k - Len(a)]
    <3>1. PICK S : S = 1..M
      OBVIOUS
    <3>2. a \in Seq(S) /\ p \in Seq(S)
      BY <2>1, <2>2, <2>3, <3>1
    <3>3. /\ a \o p \in Seq(S) /\ Len(a \o p) = Len(a) + Len(p)
          /\ \A k \in 1..(Len(a) + Len(p)) : (a \o p)[k] = IF k <= Len(a) THEN a[k] ELSE p[k - Len(a)]
      BY <3>2, ConcatProperties, Zenon
    <3> QED
      BY <3>1, <3>3
  <2>5. o \in Seq(1..M) /\ Len(o) = 1 + Len(T) /\ \A k \in 1..(1 + Len(T)) : o[k] = IF k <= 1 THEN a[k] ELSE p[k - 1]
    BY <1>3, <2>1, <2>2, <2>3, <2>4
  <2>6. o[1] = M
    BY <1>0, <2>2, <2>3, <2>5
  <2>7. ASSUME NEW k \in 1..Len(T) PROVE o[k + 1] = T[k].desc
    <3>1. k + 1 \in 1..(1 + Len(T)) /\ ~(k + 1 <= 1) /\ (k + 1) - 1 = k
      BY <1>0
    <3> QED
      BY <2>1, <2>5, <3>1
  <2> QED
    BY <1>0, <2>5, <2>6, <2>7
<1>11. \A k \in 1..Len(o) : k = 1 \/ \E n \in 1..Len(T) : k = n + 1
  <2>1. ASSUME NEW k \in 1..Len(o), k # 1 PROVE k - 1 \in 1..Len(T) /\ k = (k - 1) + 1
    BY <1>0, <1>10, <2>1
  <2> QED
    BY <2>1
<1>12. ASSUME NEW d \in 1..M PROVE Holds(o, d) <=> (At(s, d) # None)
  <2>1. Holds(o, d) <=> (d = M \/ \E n \in 1..Len(T) : T[n].desc = d)
    <3>1. ASSUME NEW k \in 1..Len(o), o[k] = d PROVE d = M \/ \E n \in 1..Len(T) : T[n].desc = d
      BY <1>10, <1>11, <3>1
    <3>2. 1 \in 1..Len(o) /\ \A n \in 1..Len(T) : n + 1 \in 1..Len(o)
      BY <1>0, <1>10
    <3> QED
      BY <1>10, <3>1, <3>2 DEF Holds
  <2>2. (At(s, d) # None) <=> (d = M \/ \E n \in 1..Len(T) : T[n].desc = d)
    <3>1. \A n \in 1..Len(T) : T[n].inst # None
      BY <1>0, NoNumbers
    <3> QED
      BY <1>6, <1>8, <3>1, NoNumbers
  <2> QED
    BY <2>1, <2>2
<1>13. ASSUME NEW j \in 1..Len(o), NEW k \in 1..Len(o), j < k PROVE Num(s, o[j]) < Num(s, o[k])
  <2>1. k # 1
    BY <1>10, <1>13
  <2>2. PICK n \in 1..Len(T) : k = n + 1
    BY <1>11, <2>1
  <2>3. \A i \in 1..Len(T) : Num(s, o[i + 1]) = T[i].inst
    <3>1. ASSUME NEW i \in 1..Len(T) PROVE Num(s, o[i + 1]) = T[i].inst
      <4>1. o[i + 1] = T[i].desc /\ T[i].desc \in 1..M
        BY <1>0, <1>10
      <4>2. At(s, o[i + 1]) = T[i].inst /\ T[i].inst \in Nat
        BY <1>0, <1>9, <4>1 DEF Filled
      <4> QED
        BY <4>2, NoNumbers DEF Num
    <3> QED
      BY <3>1
  <2>4. CASE j = 1
    <3>1. Num(s, o[j]) = 0
      BY <1>9, <1>10, <2>4 DEF Filled, Num
    <3>2. T[n].inst \in 1..K
      BY <1>0
    <3> QED
      BY <2>2, <2>3, <3>1, <3>2
  <2>5. CASE j # 1
    <3>1. PICK i \in 1..Len(T) : j = i + 1
      BY <1>11, <2>5
    <3>2. i < n
      BY <1>0, <1>13, <2>2, <3>1
    <3> QED
      BY <1>0, <2>2, <2>3, <3>1, <3>2
  <2> QED
    BY <2>4, <2>5
<1>14. StoreOK(s, M, K)
  BY <1>5, <1>7, <1>10, <1>12, <1>13 DEF StoreOK
<1> QED
  BY <1>5, <1>7, <1>9, <1>14

\* The bound instances learn their descriptors.
Settles(I, T, J) ==
    /\ J = [i \in 1..Len(I) |-> J[i]]
    /\ \A i \in 1..Len(I) :
            J[i] = IF \E n \in 1..Len(T) : T[n].inst = i
                   THEN [I[i] EXCEPT !.desc = T[CHOOSE n \in 1..Len(T) : T[n].inst = i].desc] ELSE I[i]

\* Then the instances that were queued are in the store.
LEMMA InstsMerged ==
    ASSUME NEW L \in Nat, NEW M \in Nat \ {0}, L <= M, NEW I, NEW B, NEW X, InstsOK(I, NoStore, B, X, L),
           NEW T, Fills(T, B, M), NEW s, Filled(s, T, M), NEW J, Settles(I, T, J)
    PROVE  /\ InstsOK(J, s, <<>>, X, M) /\ Lives(J, s, M) /\ Len(J) = Len(I)
           /\ \A i \in 1..Len(I) : J[i].life = I[i].life
<1>0. InstsOK(I, NoStore, B, X, M) /\ \A i \in 1..Len(I) : I[i].life \in LiveLife => Owed(B, X, i)
  BY InstsUp
<1>1. /\ I \in Seq(InstSet(M)) /\ BindsOK(B, X, Len(I))
      /\ \A i \in 1..Len(I) : InstOK(I, NoStore, B, X, M, i)
  BY <1>0 DEF InstsOK
<1>2. PICK K \in Nat : K = Len(I)
  BY <1>1
<1>3. /\ Len(T) \in Nat /\ Len(B) = Len(T)
      /\ \A n \in 1..Len(T) : /\ T[n].desc \in 1..M /\ T[n].desc # M /\ T[n].inst = B[n].inst
                              /\ T[n].inst \in 1..K /\ T[n].inst \notin X
      /\ \A i, n \in 1..Len(T) : T[i].desc = T[n].desc \/ T[i].inst = T[n].inst => i = n
  BY <1>1, <1>2, FillsIn
<1>4. ASSUME NEW n \in 1..Len(T)
      PROVE  /\ J[T[n].inst] \in InstSet(M) /\ J[T[n].inst].desc = T[n].desc
             /\ J[T[n].inst].life = "made" /\ J[T[n].inst].uses = {} /\ I[T[n].inst].life = "made"
  <2>1. PICK i \in 1..K : i = T[n].inst
    BY <1>3
  <2>2. (CHOOSE k \in 1..Len(T) : T[k].inst = i) = n
    BY <1>3, <2>1
  <2>3. J[i] = [I[i] EXCEPT !.desc = T[n].desc]
    <3>1. \E k \in 1..Len(T) : T[k].inst = i
      BY <2>1
    <3> QED
      BY <1>2, <2>2, <3>1 DEF Settles
  <2>4. I[i] \in InstSet(M) /\ I[i].life = "made" /\ I[i].uses = {}
    <3>1. Owed(B, X, i)
      BY <1>3, <2>1 DEF Owed
    <3> QED
      BY <1>1, <1>2, <3>1 DEF InstOK
  <2>5. T[n].desc \in 1..M
    BY <1>3
  <2>6. J[i] \in InstSet(M) /\ J[i].desc = T[n].desc /\ J[i].life = "made" /\ J[i].uses = {}
    BY <2>3, <2>4, <2>5 DEF InstSet
  <2> QED
    BY <2>1, <2>4, <2>6
<1>5. ASSUME NEW i \in 1..K, ~\E n \in 1..Len(T) : T[n].inst = i
      PROVE  J[i] = I[i] /\ J[i] \in InstSet(M) /\ (Owed(B, X, i) <=> i \in X)
  <2>1. J[i] = I[i]
    BY <1>2, <1>5 DEF Settles
  <2>2. I[i] \in InstSet(M)
    BY <1>1, <1>2
  <2>3. Owed(B, X, i) <=> i \in X
    BY <1>3, <1>5 DEF Owed
  <2> QED
    BY <2>1, <2>2, <2>3
<1>6. J \in Seq(InstSet(M)) /\ Len(J) = K
  <2>1. ASSUME NEW i \in 1..K PROVE J[i] \in InstSet(M)
    BY <1>4, <1>5
  <2>2. J = [i \in 1..K |-> J[i]]
    BY <1>2 DEF Settles
  <2> QED
    BY <2>1, <2>2
<1>7. \A i : (Owed(<<>>, X, i)) <=> (i \in X)
  BY DEF Owed
<1>8. ASSUME NEW i \in 1..K PROVE InstOK(J, s, <<>>, X, M, i)
  <2>1. CASE \E n \in 1..Len(T) : T[n].inst = i
    <3>1. PICK n \in 1..Len(T) : T[n].inst = i
      BY <2>1
    <3>2. i \notin X /\ J[i].desc = T[n].desc /\ J[i].life = "made" /\ J[i].uses = {} /\ T[n].desc \in 1..M
      BY <1>3, <1>4, <3>1
    <3>3. At(s, J[i].desc) = i
      BY <3>1, <3>2 DEF Filled
    <3> QED
      BY <1>7, <3>2, <3>3 DEF InstOK
  <2>2. CASE ~\E n \in 1..Len(T) : T[n].inst = i
    <3>1. J[i] = I[i] /\ (Owed(B, X, i) <=> i \in X) /\ InstOK(I, NoStore, B, X, M, i)
      BY <1>1, <1>2, <1>5, <2>2
    <3>2. J[i].life \in LiveLife => i \in X /\ J[i].uses = {}
      BY <1>0, <1>2, <3>1 DEF InstOK
    <3> QED
      BY <1>7, <3>1, <3>2 DEF InstOK
  <2> QED
    BY <2>1, <2>2
<1>9. ASSUME NEW d \in 1..M, At(s, d) \in 1..K PROVE J[At(s, d)].desc = d /\ J[At(s, d)].life \in LiveLife
  <2>1. d # M /\ \E n \in 1..Len(T) : T[n].desc = d
    BY <1>9, NoNumbers DEF Filled
  <2>2. PICK n \in 1..Len(T) : T[n].desc = d
    BY <2>1
  <2>3. At(s, d) = T[n].inst
    BY <2>2 DEF Filled
  <2> QED
    BY <1>4, <2>2, <2>3 DEF LiveLife
<1>10. BindsOK(<<>>, X, K)
  <2>4. <<>> \in Seq([key : Key, inst : 1..K]) /\ Len(<<>>) = 0
    OBVIOUS
  <2> QED
    BY <1>1, <1>2, <2>4 DEF BindsOK
<1>11. \A i \in 1..K : J[i].life = I[i].life
  <2>1. ASSUME NEW i \in 1..K PROVE J[i].life = I[i].life
    <3>1. CASE \E n \in 1..Len(T) : T[n].inst = i
      BY <1>4, <3>1
    <3>2. CASE ~\E n \in 1..Len(T) : T[n].inst = i
      BY <1>5, <3>2
    <3> QED
      BY <3>1, <3>2
  <2> QED
    BY <2>1
<1> QED
  BY <1>2, <1>6, <1>8, <1>9, <1>10, <1>11 DEF InstsOK, Lives

-----------------------------------------------------------------------------
(* The phases of start(), on values.                                       *)

DescSet(L) ==
    [type : Types, name : Names, prio : Int, life : Lifetimes, lazy : BOOLEAN, bound : BOOLEAN,
     prim : 1..L \union {NoDesc}, factory : 1..L \union {NoDesc}]

\* A runtime binding is its own primary.
DescsOK(ds) ==
    /\ ds \in Seq(DescSet(Len(ds)))
    /\ \A d \in 1..Len(ds) : ds[d].bound => ds[d].prim = d
TablesOK(ds, x, ts) == DescsOK(ds) /\ x \in Index(Len(ds)) /\ ts \in Seq(Types) /\ Once(ts)

\* The parts of a descriptor.
LEMMA DescsIn ==
    ASSUME NEW ds, DescsOK(ds)
    PROVE  /\ Len(ds) \in Nat
           /\ \A d \in 1..Len(ds) :
                /\ ds[d] \in DescSet(Len(ds)) /\ ds[d].type \in Types /\ ds[d].name \in Names /\ ds[d].prio \in Int
                /\ ds[d].life \in Lifetimes /\ ds[d].lazy \in BOOLEAN /\ ds[d].bound \in BOOLEAN
                /\ ds[d].prim \in 1..Len(ds) \union {NoDesc} /\ ds[d].factory \in 1..Len(ds) \union {NoDesc}
           /\ PrioOf(ds) \in [1..Len(ds) -> Int]
<1>1. PICK S : S = DescSet(Len(ds))
  OBVIOUS
<1>2. ds \in Seq(S)
  BY <1>1 DEF DescsOK
<1>3. Len(ds) \in Nat /\ \A d \in 1..Len(ds) : ds[d] \in S
  BY <1>2
<1>4. \A x \in S : /\ x.type \in Types /\ x.name \in Names /\ x.prio \in Int
                   /\ x.life \in Lifetimes /\ x.lazy \in BOOLEAN /\ x.bound \in BOOLEAN
                   /\ x.prim \in 1..Len(ds) \union {NoDesc} /\ x.factory \in 1..Len(ds) \union {NoDesc}
  BY <1>1 DEF DescSet
<1>5. PrioOf(ds) \in [1..Len(ds) -> Int]
  BY <1>3, <1>4 DEF PrioOf
<1> QED
  BY <1>1, <1>3, <1>4, <1>5

\* The set of descriptors grows with their number.
LEMMA DescSetUp ==
    ASSUME NEW L \in Nat, NEW M \in Nat, L <= M
    PROVE  DescSet(L) \subseteq DescSet(M)
<1>1. 1..L \subseteq 1..M
  OBVIOUS
<1> QED
  BY <1>1 DEF DescSet

\* ds goes on as es: one more descriptor.
Goes(ds, e, es) ==
    /\ Len(es) = Len(ds) + 1 /\ es[Len(es)] = e /\ \A d \in 1..Len(ds) : es[d] = ds[d]

\* A descriptor is appended.
LEMMA DescsAdd ==
    ASSUME NEW ds, DescsOK(ds), NEW e \in DescSet(Len(ds) + 1), e.bound => e.prim = Len(ds) + 1,
           NEW es, es = Append(ds, e)
    PROVE  DescsOK(es) /\ Goes(ds, e, es)
<1>1. Len(ds) \in Nat /\ ds \in Seq(DescSet(Len(ds)))
  BY DescsIn DEF DescsOK
<1>2. ds \in Seq(DescSet(Len(ds) + 1))
  BY <1>1, DescSetUp, SeqUp
<1>3. PICK S : S = DescSet(Len(ds) + 1)
  OBVIOUS
<1>4. ds \in Seq(S) /\ e \in S
  BY <1>2, <1>3
<1>5. es \in Seq(S) /\ Len(es) = Len(ds) + 1 /\ es[Len(ds) + 1] = e /\ \A d \in 1..Len(ds) : es[d] = ds[d]
  BY <1>4
<1>6. es \in Seq(DescSet(Len(es)))
  BY <1>3, <1>5
<1>7. ASSUME NEW d \in 1..Len(es), es[d].bound PROVE es[d].prim = d
  <2>1. CASE d \in 1..Len(ds)
    BY <1>5, <1>7, <2>1 DEF DescsOK
  <2>2. CASE d = Len(ds) + 1
    BY <1>5, <1>7, <2>2
  <2> QED
    BY <1>1, <1>5, <2>1, <2>2
<1> QED
  BY <1>5, <1>6, <1>7 DEF DescsOK, Goes

\* addDescriptor() and insertCandidate().
Joins(ds, x, e, es, y) ==
    /\ e \in DescSet(Len(ds) + 1) /\ (e.bound => e.prim = Len(ds) + 1)
    /\ es = Append(ds, e) /\ y = InsertCandidate(x, e.type, e.name, Len(ds) + 1)

\* The tables stay well formed, with one more descriptor.
LEMMA TablesAdd ==
    ASSUME NEW ds, NEW x, NEW ts, TablesOK(ds, x, ts), NEW e, NEW es, NEW y, Joins(ds, x, e, es, y)
    PROVE  TablesOK(es, y, ts) /\ Goes(ds, e, es)
<1>0. /\ e \in DescSet(Len(ds) + 1) /\ (e.bound => e.prim = Len(ds) + 1)
      /\ es = Append(ds, e) /\ y = InsertCandidate(x, e.type, e.name, Len(ds) + 1)
  BY DEF Joins
<1>1. DescsOK(ds) /\ x \in Index(Len(ds)) /\ ts \in Seq(Types) /\ Once(ts)
  BY DEF TablesOK
<1>2. DescsOK(es) /\ Goes(ds, e, es)
  BY <1>0, <1>1, DescsAdd
<1>3. PICK M : M = Len(ds) + 1
  OBVIOUS
<1>4. Len(ds) \in Nat /\ M \in Nat /\ Len(ds) <= M /\ M \in 1..M
  BY <1>1, <1>3, DescsIn
<1>5. x \in Index(M)
  BY <1>1, <1>4, IndexUp
<1>6. e.type \in Types /\ e.name \in Names
  BY <1>0 DEF DescSet
<1>7. y \in Index(M)
  BY <1>0, <1>3, <1>4, <1>5, <1>6, InsertTyped
<1>8. Len(es) = M
  BY <1>2, <1>3 DEF Goes
<1> QED
  BY <1>1, <1>2, <1>7, <1>8 DEF TablesOK

\* internType() keeps the tables well formed: no type is there twice.
LEMMA TablesIntern ==
    ASSUME NEW ds, NEW x, NEW ts, TablesOK(ds, x, ts), NEW t \in Types
    PROVE  TablesOK(ds, x, Intern(ts, t))
<1>1. ts \in Seq(Types) /\ Once(ts)
  BY DEF TablesOK
<1>2. CASE Holds(ts, t)
  BY <1>2 DEF Holds, Intern
<1>3. CASE ~Holds(ts, t)
  <2>1. Intern(ts, t) = Append(ts, t)
    BY <1>3 DEF Holds, Intern
  <2>2. Append(ts, t) \in Seq(Types)
    BY <1>1
  <2>3. Once(Append(ts, t))
    BY <1>1, <1>3, HoldsAppend
  <2> QED
    BY <2>1, <2>2, <2>3 DEF TablesOK
<1> QED
  BY <1>2, <1>3

-----------------------------------------------------------------------------

LinkSet(L) == [desc : 1..L, alias : Identities \union {NoId}, factory : Identities \union {NoId}]
LinksOK(ls, ds) == ls \in Seq(LinkSet(Len(ds))) /\ \A n \in 1..Len(ls) : ~ds[ls[n].desc].bound

\* What is to be stored: the first bindings of B, and all that is bound beyond the
\* first L descriptors.
StoredOK(T, B, L, ds) ==
    /\ T \in Seq([desc : 1..Len(ds), inst : Nat]) /\ Len(T) <= Len(B)
    /\ \A n \in 1..Len(T) : T[n].inst = B[n].inst
    /\ \A m, n \in 1..Len(T) : m < n => T[m].desc < T[n].desc
    /\ \A d \in 1..Len(ds) : d > L /\ ds[d].bound => \E n \in 1..Len(T) : T[n].desc = d
MergeOK(m, L, B) ==
    /\ m = [ok |-> m.ok, descs |-> m.descs, interned |-> m.interned, ix |-> m.ix, ids |-> m.ids,
            links |-> m.links, stored |-> m.stored]
    /\ m.ok \in BOOLEAN /\ TablesOK(m.descs, m.ix, m.interned) /\ L <= Len(m.descs)
    /\ m.ids \in [Identities -> 1..Len(m.descs) \union {NoDesc}]
    /\ LinksOK(m.links, m.descs) /\ StoredOK(m.stored, B, L, m.descs)

\* The parts of a link and of what is stored.
LEMMA LinksIn ==
    ASSUME NEW ds, NEW ls, LinksOK(ls, ds)
    PROVE  /\ Len(ls) \in Nat
           /\ \A n \in 1..Len(ls) : /\ ls[n] \in LinkSet(Len(ds)) /\ ls[n].desc \in 1..Len(ds) /\ ~ds[ls[n].desc].bound
                                    /\ ls[n].alias \in Identities \union {NoId}
                                    /\ ls[n].factory \in Identities \union {NoId}
<1>1. PICK S : S = LinkSet(Len(ds))
  OBVIOUS
<1>2. ls \in Seq(S)
  BY <1>1 DEF LinksOK
<1>3. Len(ls) \in Nat /\ \A n \in 1..Len(ls) : ls[n] \in S
  BY <1>2
<1>4. \A x \in S : x.desc \in 1..Len(ds) /\ x.alias \in Identities \union {NoId} /\ x.factory \in Identities \union {NoId}
  BY <1>1 DEF LinkSet
<1> QED
  BY <1>1, <1>3, <1>4 DEF LinksOK

\* The parts of what is to be stored.
LEMMA StoredIn ==
    ASSUME NEW ds, NEW T, NEW B, NEW L, StoredOK(T, B, L, ds)
    PROVE  Len(T) \in Nat /\ \A n \in 1..Len(T) : T[n].desc \in 1..Len(ds) /\ T[n].inst \in Nat
<1>1. PICK S : S = [desc : 1..Len(ds), inst : Nat]
  OBVIOUS
<1>2. T \in Seq(S)
  BY <1>1 DEF StoredOK
<1>3. Len(T) \in Nat /\ \A n \in 1..Len(T) : T[n] \in S
  BY <1>2
<1>4. \A x \in S : x.desc \in 1..Len(ds) /\ x.inst \in Nat
  BY <1>1
<1> QED
  BY <1>3, <1>4

\* Links stay well formed when a descriptor is appended.
LEMMA LinksUp ==
    ASSUME NEW ds, Len(ds) \in Nat, NEW e, NEW es, Goes(ds, e, es), NEW ls, LinksOK(ls, ds)
    PROVE  LinksOK(ls, es)
<1>1. 1..Len(ds) \subseteq 1..Len(es)
  BY DEF Goes
<1>2. LinkSet(Len(ds)) \subseteq LinkSet(Len(es))
  BY <1>1 DEF LinkSet
<1>3. ls \in Seq(LinkSet(Len(es)))
  BY <1>2, SeqUp DEF LinksOK
<1>4. ASSUME NEW n \in 1..Len(ls) PROVE ~es[ls[n].desc].bound
  BY LinksIn DEF Goes
<1> QED
  BY <1>3, <1>4 DEF LinksOK

\* So does what is to be stored, if that descriptor is not a bound one.
LEMMA StoredUp ==
    ASSUME NEW ds, Len(ds) \in Nat, NEW e, NEW es, Goes(ds, e, es), ~e.bound,
           NEW T, NEW B, NEW L, StoredOK(T, B, L, ds)
    PROVE  StoredOK(T, B, L, es)
<1>1. 1..Len(ds) \subseteq 1..Len(es)
  BY DEF Goes
<1>2. [desc : 1..Len(ds), inst : Nat] \subseteq [desc : 1..Len(es), inst : Nat]
  BY <1>1
<1>3. T \in Seq([desc : 1..Len(es), inst : Nat])
  BY <1>2, SeqUp DEF StoredOK
<1>4. ASSUME NEW d \in 1..Len(es), d > L, es[d].bound PROVE \E n \in 1..Len(T) : T[n].desc = d
  <2>1. d \in 1..Len(ds) /\ es[d] = ds[d]
    BY <1>4 DEF Goes
  <2> QED
    BY <1>4, <2>1 DEF StoredOK
<1> QED
  BY <1>3, <1>4 DEF StoredOK

\* A binding is adopted: its descriptor is appended and it is to be stored.
Adopts(ds, T, B, n, U) ==
    /\ n = Len(T) + 1 /\ n <= Len(B) /\ Len(B) \in Nat /\ B[n].inst \in Nat
    /\ U = Append(T, [desc |-> Len(ds) + 1, inst |-> B[n].inst])

\* Then there is one more to be stored, with the last descriptor.
LEMMA StoredAdd ==
    ASSUME NEW ds, Len(ds) \in Nat, NEW e, NEW es, Goes(ds, e, es), NEW T, NEW B, NEW L, StoredOK(T, B, L, ds),
           NEW n, NEW U, Adopts(ds, T, B, n, U)
    PROVE  StoredOK(U, B, L, es) /\ Len(U) = n
<1> /\ n = Len(T) + 1 /\ n <= Len(B) /\ Len(B) \in Nat /\ B[n].inst \in Nat
    /\ U = Append(T, [desc |-> Len(ds) + 1, inst |-> B[n].inst])
  BY DEF Adopts
<1>0. Len(T) \in Nat /\ \A k \in 1..Len(T) : T[k].desc \in 1..Len(ds) /\ T[k].inst \in Nat
  BY StoredIn
<1>1. 1..Len(ds) \subseteq 1..Len(es) /\ Len(es) = Len(ds) + 1
  BY DEF Goes
<1>2. [desc : 1..Len(ds), inst : Nat] \subseteq [desc : 1..Len(es), inst : Nat]
  BY <1>1
<1>3. T \in Seq([desc : 1..Len(es), inst : Nat])
  BY <1>2, SeqUp DEF StoredOK
<1>4. PICK b, S : b = [desc |-> Len(ds) + 1, inst |-> B[n].inst] /\ S = [desc : 1..Len(es), inst : Nat]
  OBVIOUS
<1>5. b \in S /\ b.desc = Len(ds) + 1 /\ b.inst = B[n].inst /\ T \in Seq(S)
  BY <1>1, <1>3, <1>4
<1>6. U \in Seq(S) /\ Len(U) = n /\ U[n] = b /\ \A k \in 1..Len(T) : U[k] = T[k]
  BY <1>4, <1>5
<1>7. \A k \in 1..Len(U) : k \in 1..Len(T) \/ k = n
  BY <1>0, <1>6
<1>8. \A k \in 1..Len(U) : U[k].inst = B[k].inst
  BY <1>5, <1>6, <1>7 DEF StoredOK
<1>9. ASSUME NEW j \in 1..Len(U), NEW k \in 1..Len(U), j < k PROVE U[j].desc < U[k].desc
  <2>1. j \in 1..Len(T) /\ U[j] = T[j] /\ T[j].desc \in 1..Len(ds)
    BY <1>0, <1>6, <1>7, <1>9
  <2>2. CASE k \in 1..Len(T)
    BY <1>6, <1>9, <2>1, <2>2 DEF StoredOK
  <2>3. CASE k = n
    BY <1>5, <1>6, <2>1, <2>3
  <2> QED
    BY <1>7, <2>2, <2>3
<1>10. ASSUME NEW d \in 1..Len(es), d > L, es[d].bound PROVE \E k \in 1..Len(U) : U[k].desc = d
  <2>0. \A k \in 1..Len(T) : k \in 1..Len(U)
    BY <1>0, <1>6
  <2>1. CASE d \in 1..Len(ds)
    <3>1. es[d] = ds[d]
      BY <2>1 DEF Goes
    <3>2. PICK k \in 1..Len(T) : T[k].desc = d
      BY <1>10, <2>1, <3>1 DEF StoredOK
    <3> QED
      BY <1>6, <2>0, <3>2
  <2>2. CASE d = Len(ds) + 1
    <3>1. n \in 1..Len(U) /\ U[n].desc = d
      BY <1>0, <1>5, <1>6, <2>2
    <3> QED
      BY <3>1
  <2> QED
    BY <1>1, <2>1, <2>2
<1> QED
  BY <1>4, <1>6, <1>8, <1>9, <1>10 DEF StoredOK

\* The parts of a merge in progress.
LEMMA MergeIn ==
    ASSUME NEW L, NEW B, NEW m, MergeOK(m, L, B)
    PROVE  /\ m = [ok |-> m.ok, descs |-> m.descs, interned |-> m.interned, ix |-> m.ix, ids |-> m.ids,
                   links |-> m.links, stored |-> m.stored]
           /\ m.ok \in BOOLEAN /\ TablesOK(m.descs, m.ix, m.interned) /\ L <= Len(m.descs)
           /\ m.ids \in [Identities -> 1..Len(m.descs) \union {NoDesc}]
           /\ LinksOK(m.links, m.descs) /\ StoredOK(m.stored, B, L, m.descs)
           /\ DescsOK(m.descs) /\ Len(m.descs) \in Nat
<1>1. DescsOK(m.descs)
  BY DEF MergeOK, TablesOK
<1> QED
  BY <1>1, DescsIn DEF MergeOK

\* A merge from its parts.
LEMMA MergeIs ==
    ASSUME NEW L, NEW B, NEW r, NEW ok \in BOOLEAN, NEW ds, NEW ts, NEW x, NEW ids, NEW ls, NEW T,
           r = [ok |-> ok, descs |-> ds, interned |-> ts, ix |-> x, ids |-> ids, links |-> ls, stored |-> T],
           TablesOK(ds, x, ts), L <= Len(ds), ids \in [Identities -> 1..Len(ds) \union {NoDesc}],
           LinksOK(ls, ds), StoredOK(T, B, L, ds)
    PROVE  MergeOK(r, L, B) /\ r.ok = ok /\ r.descs = ds /\ r.stored = T
<1>1. /\ r.ok = ok /\ r.descs = ds /\ r.interned = ts /\ r.ix = x /\ r.ids = ids /\ r.links = ls /\ r.stored = T
  OBVIOUS
<1> QED
  BY <1>1 DEF MergeOK

\* The parts of a contribution.
LEMMA ContributedIn ==
    ASSUME NEW c \in Contributed
    PROVE  /\ c.id \in Identities /\ c.type \in Types /\ c.concrete \in Types /\ c.name \in Names /\ c.prio \in Int
           /\ c.life \in Lifetimes /\ c.lazy \in BOOLEAN /\ c.alias \in Identities \union {NoId}
           /\ c.factory \in Identities \union {NoId}
BY DEF Contributed

\* Phase 1 of start() for one contribution keeps the merge well formed.
LEMMA MergeOneOK ==
    ASSUME NEW L \in Nat, NEW B, NEW m, MergeOK(m, L, B), NEW c \in Contributed, NEW r, r = MergeOne(m, c)
    PROVE  MergeOK(r, L, B) /\ r.stored = m.stored
<1>0. /\ m = [ok |-> m.ok, descs |-> m.descs, interned |-> m.interned, ix |-> m.ix, ids |-> m.ids,
              links |-> m.links, stored |-> m.stored]
      /\ m.ok \in BOOLEAN /\ TablesOK(m.descs, m.ix, m.interned) /\ L <= Len(m.descs)
      /\ m.ids \in [Identities -> 1..Len(m.descs) \union {NoDesc}]
      /\ LinksOK(m.links, m.descs) /\ StoredOK(m.stored, B, L, m.descs)
      /\ DescsOK(m.descs) /\ Len(m.descs) \in Nat
  BY MergeIn
<1>1. CASE ~m.ok
  BY <1>1 DEF MergeOne
<1>2. CASE m.ok /\ m.ids[c.id] # NoDesc
  <2>1. PICK k \in BOOLEAN : r = [m EXCEPT !.ok = k]
    <3>1. PICK k : /\ k = (/\ m.descs[m.ids[c.id]].type = c.type /\ m.descs[m.ids[c.id]].name = c.name
                           /\ m.descs[m.ids[c.id]].life = c.life)
                   /\ r = [m EXCEPT !.ok = k]
      BY <1>2 DEF MergeOne
    <3>2. k \in BOOLEAN
      BY <3>1
    <3> QED
      BY <3>1, <3>2
  <2>2. r = [ok |-> k, descs |-> m.descs, interned |-> m.interned, ix |-> m.ix, ids |-> m.ids,
             links |-> m.links, stored |-> m.stored]
    BY <1>0, <2>1
  <2> QED
    BY <1>0, <2>2, MergeIs
<1>3. CASE m.ok /\ m.ids[c.id] = NoDesc
  <2>0. /\ c.id \in Identities /\ c.type \in Types /\ c.concrete \in Types /\ c.name \in Names /\ c.prio \in Int
        /\ c.life \in Lifetimes /\ c.lazy \in BOOLEAN /\ c.alias \in Identities \union {NoId}
        /\ c.factory \in Identities \union {NoId}
    BY ContributedIn
  <2>1. PICK d \in Nat : d = Len(m.descs) + 1
    BY <1>0
  <2>2. PICK e : e = [type |-> c.type, name |-> c.name, prio |-> c.prio, life |-> c.life,
                      lazy |-> c.lazy, bound |-> FALSE, factory |-> NoDesc,
                      prim |-> IF c.alias = NoId THEN d ELSE NoDesc]
    OBVIOUS
  <2>3. e \in DescSet(Len(m.descs) + 1) /\ ~e.bound /\ e.type = c.type /\ e.name = c.name
    <3>1. d \in 1..d
      BY <1>0, <2>1
    <3>2. (IF c.alias = NoId THEN d ELSE NoDesc) \in 1..d \union {NoDesc}
      BY <3>1
    <3> QED
      BY <2>0, <2>1, <2>2, <3>2 DEF DescSet
  <2>4. PICK a : a = AddDesc(m, e, d)
    OBVIOUS
  <2>5. PICK es, y : es = Append(m.descs, e) /\ y = InsertCandidate(m.ix, e.type, e.name, d)
    OBVIOUS
  <2>6. a = [m EXCEPT !.descs = es, !.ix = y]
    BY <2>4, <2>5 DEF AddDesc
  <2>7. a = [ok |-> m.ok, descs |-> es, interned |-> m.interned, ix |-> y, ids |-> m.ids,
             links |-> m.links, stored |-> m.stored]
    BY <1>0, <2>6
  <2>8. PICK ts, is, ls, l : /\ ts = Intern(Intern(m.interned, c.type), c.concrete) /\ is = [m.ids EXCEPT ![c.id] = d]
                             /\ l = [desc |-> d, alias |-> c.alias, factory |-> c.factory] /\ ls = Append(m.links, l)
    OBVIOUS
  <2>9. r = [ok |-> m.ok, descs |-> es, interned |-> ts, ix |-> y, ids |-> is, links |-> ls, stored |-> m.stored]
    <3>1. r = [a EXCEPT !.interned = Intern(Intern(@, c.type), c.concrete), !.ids[c.id] = d,
                        !.links = Append(@, [desc |-> d, alias |-> c.alias, factory |-> c.factory])]
      BY <1>3, <2>1, <2>2, <2>4 DEF MergeOne
    <3>2. r = [a EXCEPT !.interned = ts, !.ids = is, !.links = ls]
      BY <2>7, <2>8, <3>1
    <3> QED
      BY <2>7, <3>2
  <2>10. TablesOK(es, y, m.interned) /\ Goes(m.descs, e, es)
    <3>1. Joins(m.descs, m.ix, e, es, y)
      BY <2>1, <2>3, <2>5 DEF Joins
    <3> QED
      BY <1>0, <3>1, TablesAdd
  <2>11. TablesOK(es, y, ts)
    <3>1. PICK t1 : t1 = Intern(m.interned, c.type)
      OBVIOUS
    <3>2. TablesOK(es, y, t1)
      BY <2>0, <2>10, <3>1, TablesIntern
    <3>3. TablesOK(es, y, Intern(t1, c.concrete))
      BY <2>0, <3>2, TablesIntern
    <3> QED
      BY <2>8, <3>1, <3>3
  <2>12. Len(es) = d /\ es[d] = e /\ L <= Len(es)
    BY <1>0, <2>1, <2>10 DEF Goes
  <2>13. is \in [Identities -> 1..Len(es) \union {NoDesc}]
    <3>1. 1..Len(m.descs) \subseteq 1..d /\ d \in 1..d
      BY <1>0, <2>1
    <3>2. m.ids \in [Identities -> 1..d \union {NoDesc}]
      BY <1>0, <3>1
    <3> QED
      BY <2>0, <2>8, <2>12, <3>1, <3>2
  <2>14. LinksOK(ls, es)
    <3>1. LinksOK(m.links, es)
      BY <1>0, <2>10, LinksUp
    <3>2. l \in LinkSet(Len(es)) /\ l.desc = d
      <4>1. d \in 1..Len(es)
        BY <1>0, <2>1, <2>12
      <4> QED
        BY <2>0, <2>8, <4>1 DEF LinkSet
    <3>3. PICK S : S = LinkSet(Len(es))
      OBVIOUS
    <3>4. m.links \in Seq(S) /\ l \in S
      BY <3>1, <3>2, <3>3 DEF LinksOK
    <3>5. /\ ls \in Seq(S) /\ Len(ls) = Len(m.links) + 1 /\ ls[Len(m.links) + 1] = l
          /\ Len(m.links) \in Nat /\ \A n \in 1..Len(m.links) : ls[n] = m.links[n]
      BY <2>8, <3>4
    <3>6. ASSUME NEW n \in 1..Len(ls) PROVE ~es[ls[n].desc].bound
      <4>1. CASE n \in 1..Len(m.links)
        BY <3>1, <3>5, <4>1 DEF LinksOK
      <4>2. CASE n = Len(m.links) + 1
        BY <2>3, <2>12, <3>2, <3>5, <4>2
      <4> QED
        BY <3>5, <4>1, <4>2
    <3> QED
      BY <3>3, <3>5, <3>6 DEF LinksOK
  <2>15. StoredOK(m.stored, B, L, es)
    BY <1>0, <2>3, <2>10, StoredUp
  <2> QED
    BY <1>0, <2>9, <2>11, <2>12, <2>13, <2>14, <2>15, MergeIs
<1> QED
  BY <1>0, <1>1, <1>2, <1>3

\* The descriptor of a binding, or of the context, is its own primary.
LEMMA BoundDescIn ==
    ASSUME NEW k \in Key, NEW d \in Nat \ {0}
    PROVE  /\ BoundDesc(k, d) \in DescSet(d) /\ BoundDesc(k, d).bound /\ BoundDesc(k, d).prim = d
           /\ BoundDesc(k, d).type = k.type /\ BoundDesc(k, d).name = k.name /\ k.type \in Types /\ k.name \in Names
<1>1. k.type \in Types /\ k.name \in Names /\ k.prio \in Int
  BY DEF Key
<1>2. d \in 1..d
  OBVIOUS
<1> QED
  BY <1>1, <1>2 DEF BoundDesc, DescSet, Lifetimes

\* Phase 1.5 for the n-th binding does, and it is the n-th to be stored.
LEMMA AdoptOneOK ==
    ASSUME NEW L \in Nat, NEW B, Len(B) \in Nat, NEW m, MergeOK(m, L, B), NEW n \in 1..Len(B),
           B[n].key \in Key, B[n].inst \in Nat, m.ok => Len(m.stored) = n - 1, NEW r, r = AdoptOne(m, B[n])
    PROVE  MergeOK(r, L, B) /\ (r.ok => Len(r.stored) = n)
<1>0. /\ m = [ok |-> m.ok, descs |-> m.descs, interned |-> m.interned, ix |-> m.ix, ids |-> m.ids,
              links |-> m.links, stored |-> m.stored]
      /\ m.ok \in BOOLEAN /\ TablesOK(m.descs, m.ix, m.interned) /\ L <= Len(m.descs)
      /\ m.ids \in [Identities -> 1..Len(m.descs) \union {NoDesc}]
      /\ LinksOK(m.links, m.descs) /\ StoredOK(m.stored, B, L, m.descs)
      /\ DescsOK(m.descs) /\ Len(m.descs) \in Nat
  BY MergeIn
<1>1. CASE ~m.ok
  BY <1>1 DEF AdoptOne
<1>2. PICK k : k = B[n].key
  OBVIOUS
<1>3. PICK d \in Nat \ {0} : d = Len(m.descs) + 1
  BY <1>0
<1>4. /\ BoundDesc(k, d) \in DescSet(d) /\ BoundDesc(k, d).bound /\ BoundDesc(k, d).prim = d
      /\ BoundDesc(k, d).type = k.type /\ BoundDesc(k, d).name = k.name /\ k.type \in Types /\ k.name \in Names
  BY <1>2, BoundDescIn
<1>5. PICK ts : ts = Intern(m.interned, k.type)
  OBVIOUS
<1>6. TablesOK(m.descs, m.ix, ts)
  BY <1>0, <1>4, <1>5, TablesIntern
<1>7. PICK t : t = [m EXCEPT !.interned = Intern(@, B[n].key.type)]
  OBVIOUS
<1>8. t = [ok |-> m.ok, descs |-> m.descs, interned |-> ts, ix |-> m.ix, ids |-> m.ids,
           links |-> m.links, stored |-> m.stored]
  BY <1>0, <1>2, <1>5, <1>7
<1>9. CASE m.ok /\ KeyExists(m.descs, k)
  <2>1. r = [t EXCEPT !.ok = FALSE]
    BY <1>2, <1>7, <1>9 DEF AdoptOne
  <2>2. r = [ok |-> FALSE, descs |-> m.descs, interned |-> ts, ix |-> m.ix, ids |-> m.ids,
             links |-> m.links, stored |-> m.stored]
    BY <1>8, <2>1
  <2> QED
    BY <1>0, <1>6, <2>2, MergeIs
<1>10. CASE m.ok /\ ~KeyExists(m.descs, k)
  <2>1. PICK e : e = BoundDesc(k, d)
    OBVIOUS
  <2>2. PICK a : a = AddDesc(t, e, d)
    OBVIOUS
  <2>3. r = [a EXCEPT !.stored = Append(@, [desc |-> d, inst |-> B[n].inst])]
    BY <1>2, <1>3, <1>7, <1>10, <2>1, <2>2 DEF AdoptOne
  <2>5. PICK es, y : es = Append(m.descs, e) /\ y = InsertCandidate(m.ix, e.type, e.name, d)
    OBVIOUS
  <2>6. a = [t EXCEPT !.descs = es, !.ix = y]
    BY <1>8, <2>2, <2>5 DEF AddDesc
  <2>7. a = [ok |-> m.ok, descs |-> es, interned |-> ts, ix |-> y, ids |-> m.ids,
             links |-> m.links, stored |-> m.stored]
    BY <1>8, <2>6
  <2>8. PICK U : U = Append(m.stored, [desc |-> d, inst |-> B[n].inst])
    OBVIOUS
  <2>9. r = [ok |-> m.ok, descs |-> es, interned |-> ts, ix |-> y, ids |-> m.ids, links |-> m.links, stored |-> U]
    BY <2>3, <2>7, <2>8
  <2>10. TablesOK(es, y, ts) /\ Goes(m.descs, e, es)
    <3>1. Joins(m.descs, m.ix, e, es, y)
      BY <1>3, <1>4, <2>1, <2>5 DEF Joins
    <3> QED
      BY <1>6, <2>5, <3>1, TablesAdd
  <2>12. Len(es) = d /\ L <= Len(es)
    BY <1>0, <1>3, <2>10 DEF Goes
  <2>13. m.ids \in [Identities -> 1..Len(es) \union {NoDesc}]
    <3>1. 1..Len(m.descs) \subseteq 1..d
      BY <1>0, <1>3
    <3> QED
      BY <1>0, <2>12, <3>1
  <2>14. LinksOK(m.links, es)
    BY <1>0, <2>10, LinksUp
  <2>15. StoredOK(U, B, L, es) /\ Len(U) = n
    <3>1. n = Len(m.stored) + 1 /\ n <= Len(B)
      BY <1>10
    <3>2. U = Append(m.stored, [desc |-> Len(m.descs) + 1, inst |-> B[n].inst])
      BY <1>3, <2>8
    <3>3. Adopts(m.descs, m.stored, B, n, U)
      BY <3>1, <3>2 DEF Adopts
    <3> QED
      BY <1>0, <2>10, <3>3, StoredAdd
  <2> QED
    BY <1>0, <2>9, <2>10, <2>12, <2>13, <2>14, <2>15, MergeIs
<1> QED
  BY <1>0, <1>1, <1>2, <1>9, <1>10

-----------------------------------------------------------------------------

\* One step of either phase, and the steps one after the other.
Step(first, m, c) == IF first THEN MergeOne(m, c) ELSE AdoptOne(m, c)
IsFold(f, first, m, cs, n) == f = [i \in 0..n |-> IF i = 0 THEN m ELSE Step(first, f[i - 1], cs[i])]

\* That recursive definition has a solution.
LEMMA FoldExists ==
    ASSUME NEW first, NEW m, NEW cs, NEW n \in Nat
    PROVE  \E f : IsFold(f, first, m, cs, n)
<1> DEFINE T == {k \in Nat : ~\E f : IsFold(f, first, m, cs, k)}
<1> SUFFICES ASSUME T # {} PROVE FALSE
  OBVIOUS
<1>1. PICK l \in T : \A k \in T : l <= k
  BY LeastElement
<1>2. l \in Nat /\ ~\E f : IsFold(f, first, m, cs, l)
  OBVIOUS
<1>3. CASE l = 0
  <2>1. PICK f : f = [i \in 0..0 |-> m]
    OBVIOUS
  <2>2. \A i \in 0..0 : i = 0
    OBVIOUS
  <2>3. f = [i \in 0..0 |-> IF i = 0 THEN m ELSE Step(first, f[i - 1], cs[i])]
    BY <2>1, <2>2
  <2> QED
    BY <1>2, <1>3, <2>3 DEF IsFold
<1>4. CASE l # 0
  <2>1. PICK j \in Nat : l = j + 1
    <3>1. l - 1 \in Nat /\ l = (l - 1) + 1
      BY <1>2, <1>4
    <3> QED
      BY <3>1
  <2>2. j \notin T
    BY <1>1, <1>2, <2>1
  <2>3. PICK f : IsFold(f, first, m, cs, j)
    BY <2>2
  <2>4. PICK g : g = [i \in 0..l |-> IF i = 0 THEN m ELSE Step(first, f[i - 1], cs[i])]
    OBVIOUS
  <2>5. \A i \in 0..j : i \in 0..l /\ g[i] = f[i]
    <3> TAKE i \in 0..j
    <3>1. i \in 0..l
      BY <2>1
    <3>2. f = [k \in 0..j |-> IF k = 0 THEN m ELSE Step(first, f[k - 1], cs[k])]
      BY <2>3 DEF IsFold
    <3>3. f[i] = IF i = 0 THEN m ELSE Step(first, f[i - 1], cs[i])
      BY <3>2
    <3>4. g[i] = IF i = 0 THEN m ELSE Step(first, f[i - 1], cs[i])
      BY <2>4, <3>1
    <3> QED
      BY <3>1, <3>3, <3>4
  <2>6. \A i \in 0..l : i # 0 => i - 1 \in 0..j
    BY <2>1
  <2>7. \A i \in 0..l : (IF i = 0 THEN m ELSE Step(first, f[i - 1], cs[i]))
                        = (IF i = 0 THEN m ELSE Step(first, g[i - 1], cs[i]))
    BY <2>5, <2>6
  <2>8. g = [i \in 0..l |-> IF i = 0 THEN m ELSE Step(first, g[i - 1], cs[i])]
    BY <2>4, <2>7
  <2> QED
    BY <1>2, <2>8 DEF IsFold
<1> QED
  BY <1>3, <1>4

\* Phase 1 for all contributions, phase 1.5 for all bindings.
Folds(f, first, m, cs, L, B) ==
    /\ L \in Nat /\ Len(B) \in Nat /\ \A n \in 1..Len(B) : B[n].key \in Key /\ B[n].inst \in Nat
    /\ MergeOK(m, L, B) /\ m.stored = <<>> /\ first \in BOOLEAN
    /\ IF first THEN cs \in Seq(Contributed) ELSE cs = B
    /\ IsFold(f, first, m, cs, Len(cs))

\* Every intermediate result of a fold is a merge, with the bindings stored so far.
LEMMA FoldsOK ==
    ASSUME NEW L, NEW B, NEW m, NEW first, NEW cs, NEW f, Folds(f, first, m, cs, L, B)
    PROVE  /\ Len(cs) \in Nat /\ f[0] = m
           /\ \A n \in 0..Len(cs) : /\ MergeOK(f[n], L, B)
                                    /\ IF first THEN f[n].stored = <<>> ELSE f[n].ok => Len(f[n].stored) = n
           /\ \A n \in 1..Len(cs) : f[n] = Step(first, f[n - 1], cs[n])
<1> DEFINE Good(n) == /\ MergeOK(f[n], L, B)
                      /\ IF first THEN f[n].stored = <<>> ELSE f[n].ok => Len(f[n].stored) = n
           T == {n \in 0..Len(cs) : ~Good(n)}
<1> /\ L \in Nat /\ Len(B) \in Nat /\ \A n \in 1..Len(B) : B[n].key \in Key /\ B[n].inst \in Nat
    /\ MergeOK(m, L, B) /\ m.stored = <<>> /\ first \in BOOLEAN
    /\ (first => cs \in Seq(Contributed)) /\ (~first => cs = B)
    /\ IsFold(f, first, m, cs, Len(cs))
  BY DEF Folds
<1>0. Len(cs) \in Nat
  OBVIOUS
<1>1. ASSUME NEW n \in 0..Len(cs) PROVE f[n] = IF n = 0 THEN m ELSE Step(first, f[n - 1], cs[n])
  BY DEF IsFold
<1>2. ASSUME T # {} PROVE FALSE
  <2>1. PICK l \in T : \A k \in T : l <= k
    <3>1. T \in SUBSET Nat
      BY <1>0
    <3> QED
      BY <1>2, <3>1, LeastElement
  <2>2. l \in 0..Len(cs) /\ ~Good(l)
    OBVIOUS
  <2>3. l # 0
    <3>1. Good(0)
      <4>1. f[0] = m
        BY <1>0, <1>1
      <4>2. Len(<<>>) = 0
        OBVIOUS
      <4> QED
        BY <4>1, <4>2
    <3> QED
      BY <2>2, <3>1
  <2>4. l - 1 \in 0..Len(cs) /\ l \in 1..Len(cs) /\ l - 1 \notin T
    BY <1>0, <2>1, <2>2, <2>3
  <2>5. Good(l - 1)
    BY <2>4
  <2>6. f[l] = Step(first, f[l - 1], cs[l])
    BY <1>1, <2>2, <2>3
  <2>7. PICK h : h = f[l - 1]
    OBVIOUS
  <2>8. CASE first
    <3>1. MergeOK(h, L, B) /\ h.stored = <<>> /\ cs[l] \in Contributed
      BY <2>4, <2>5, <2>7, <2>8
    <3>2. f[l] = MergeOne(h, cs[l])
      BY <2>6, <2>7, <2>8 DEF Step
    <3>3. MergeOK(f[l], L, B) /\ f[l].stored = h.stored
      BY <3>1, <3>2, MergeOneOK
    <3> QED
      BY <2>2, <2>8, <3>1, <3>3
  <2>9. CASE ~first
    <3>1. MergeOK(h, L, B) /\ (h.ok => Len(h.stored) = l - 1) /\ l \in 1..Len(B)
      BY <2>4, <2>5, <2>7, <2>9
    <3>2. f[l] = AdoptOne(h, B[l])
      BY <2>6, <2>7, <2>9 DEF Step
    <3>3. MergeOK(f[l], L, B) /\ (f[l].ok => Len(f[l].stored) = l)
      BY <3>1, <3>2, AdoptOneOK
    <3> QED
      BY <2>2, <2>9, <3>3
  <2> QED
    BY <2>8, <2>9
<1>3. \A n \in 0..Len(cs) : Good(n)
  BY <1>2
<1>4. f[0] = m
  BY <1>0, <1>1
<1>5. ASSUME NEW n \in 1..Len(cs) PROVE f[n] = Step(first, f[n - 1], cs[n])
  <2>1. n \in 0..Len(cs) /\ n # 0
    BY <1>0
  <2> QED
    BY <1>1, <2>1
<1> QED
  BY <1>0, <1>3, <1>4, <1>5

\* Each keeps the merge well formed; phase 1.5 leaves every binding to be stored.
LEMMA FoldOK ==
    ASSUME NEW L, NEW B, NEW m, NEW first, NEW cs, NEW f, Folds(f, first, m, cs, L, B)
    PROVE  /\ MergeOK(f[Len(cs)], L, B)
           /\ IF first THEN f[Len(cs)].stored = <<>> ELSE f[Len(cs)].ok => Len(f[Len(cs)].stored) = Len(B)
<1>1. PICK n : n = Len(cs)
  OBVIOUS
<1>2. n \in 0..Len(cs) /\ (~first => cs = B)
  BY <1>1, FoldsOK DEF Folds
<1>3. MergeOK(f[n], L, B) /\ IF first THEN f[n].stored = <<>> ELSE f[n].ok => Len(f[n].stored) = n
  BY <1>2, FoldsOK
<1> QED
  BY <1>1, <1>2, <1>3

\* Descriptors that alias or factory links changed: never those of bound beans.
Relinks(ds, ls, es) ==
    /\ es = [d \in 1..Len(ds) |-> es[d]]
    /\ \A d \in 1..Len(ds) :
        \/ es[d] = ds[d]
        \/ /\ \E n \in 1..Len(ls) : ls[n].desc = d
           /\ \E v \in 1..Len(ds) \union {NoDesc} : \/ es[d] = [ds[d] EXCEPT !.prim = v]
                                                    \/ es[d] = [ds[d] EXCEPT !.factory = v]
Relinked(m, k, es, r) == k \in BOOLEAN /\ Relinks(m.descs, m.links, es) /\ r = [m EXCEPT !.ok = k, !.descs = es]

\* A merge stays one when its links are followed.
LEMMA RelinkOK ==
    ASSUME NEW L \in Nat, NEW B, NEW m, MergeOK(m, L, B), NEW k, NEW es, NEW r, Relinked(m, k, es, r)
    PROVE  MergeOK(r, L, B) /\ r.ok = k /\ r.stored = m.stored
<1> k \in BOOLEAN /\ Relinks(m.descs, m.links, es) /\ r = [m EXCEPT !.ok = k, !.descs = es]
  BY DEF Relinked
<1>0. /\ m = [ok |-> m.ok, descs |-> m.descs, interned |-> m.interned, ix |-> m.ix, ids |-> m.ids,
              links |-> m.links, stored |-> m.stored]
      /\ m.ok \in BOOLEAN /\ TablesOK(m.descs, m.ix, m.interned) /\ L <= Len(m.descs)
      /\ m.ids \in [Identities -> 1..Len(m.descs) \union {NoDesc}]
      /\ LinksOK(m.links, m.descs) /\ StoredOK(m.stored, B, L, m.descs)
      /\ DescsOK(m.descs) /\ Len(m.descs) \in Nat
  BY MergeIn
<1>1. r = [ok |-> k, descs |-> es, interned |-> m.interned, ix |-> m.ix, ids |-> m.ids,
           links |-> m.links, stored |-> m.stored]
  BY <1>0
<1>2. PICK ds, ls, M, S : ds = m.descs /\ ls = m.links /\ M = Len(m.descs) /\ S = DescSet(M)
  OBVIOUS
<1>3. M \in Nat /\ M = Len(ds) /\ \A d \in 1..M : ds[d] \in S /\ (ds[d].bound => ds[d].prim = d)
  BY <1>0, <1>2, DescsIn DEF DescsOK
<1>4. ASSUME NEW d \in 1..M PROVE es[d] \in S /\ es[d].bound = ds[d].bound /\ (es[d].bound => es[d].prim = d)
  <2>1. CASE es[d] = ds[d]
    BY <1>3, <2>1
  <2>2. CASE es[d] # ds[d]
    <3>1. PICK n \in 1..Len(ls) : ls[n].desc = d
      BY <1>2, <2>2 DEF Relinks
    <3>2. ~ds[d].bound
      BY <1>0, <1>2, <3>1, LinksIn
    <3>3. PICK v \in 1..M \union {NoDesc} : es[d] = [ds[d] EXCEPT !.prim = v] \/ es[d] = [ds[d] EXCEPT !.factory = v]
      BY <1>2, <2>2 DEF Relinks
    <3>4. PICK e : e = ds[d]
      OBVIOUS
    <3>5. e \in DescSet(M)
      BY <1>2, <1>3, <3>4
    <3>6. \A w \in 1..M \union {NoDesc} :
            /\ [e EXCEPT !.prim = w] \in DescSet(M) /\ [e EXCEPT !.prim = w].bound = e.bound
            /\ [e EXCEPT !.factory = w] \in DescSet(M) /\ [e EXCEPT !.factory = w].bound = e.bound
      BY <3>5 DEF DescSet
    <3> QED
      BY <1>2, <3>2, <3>3, <3>4, <3>6
  <2> QED
    BY <2>1, <2>2
<1>5. es \in Seq(S) /\ Len(es) = M
  <2>1. es = [d \in 1..M |-> es[d]]
    BY <1>2 DEF Relinks
  <2> QED
    BY <1>3, <1>4, <2>1
<1>6. DescsOK(es)
  BY <1>2, <1>4, <1>5 DEF DescsOK
<1>7. TablesOK(es, m.ix, m.interned)
  BY <1>0, <1>2, <1>5, <1>6 DEF TablesOK
<1>8. LinksOK(m.links, es)
  <2>1. \A n \in 1..Len(ls) : ls[n].desc \in 1..M /\ ~ds[ls[n].desc].bound
    BY <1>0, <1>2, LinksIn
  <2> QED
    BY <1>0, <1>2, <1>4, <1>5, <2>1 DEF LinksOK
<1>9. StoredOK(m.stored, B, L, es)
  BY <1>0, <1>2, <1>4, <1>5 DEF StoredOK
<1>10. L <= Len(es) /\ m.ids \in [Identities -> 1..Len(es) \union {NoDesc}]
  BY <1>0, <1>2, <1>5
<1>11. /\ r.ok = k /\ r.descs = es /\ r.interned = m.interned /\ r.ix = m.ix /\ r.ids = m.ids
       /\ r.links = m.links /\ r.stored = m.stored
  BY <1>1
<1> QED
  BY <1>1, <1>7, <1>8, <1>9, <1>10, <1>11 DEF MergeOK

\* The links before the first one that is missing are links.
LEMMA UpToIn ==
    ASSUME NEW m, Len(m.links) \in Nat, NEW bad \in SUBSET (1..Len(m.links))
    PROVE  LinkUpTo(m, bad) \in 0..Len(m.links) /\ 1..LinkUpTo(m, bad) \subseteq 1..Len(m.links)
<1>1. CASE bad = {}
  BY <1>1 DEF LinkUpTo
<1>2. CASE bad # {}
  <2>1. bad \in SUBSET Nat
    OBVIOUS
  <2>2. \E n \in bad : \A o \in bad : n <= o
    BY <1>2, <2>1, LeastElement
  <2>3. PICK n : n = CHOOSE k \in bad : \A o \in bad : k <= o
    OBVIOUS
  <2>4. n \in bad
    BY <2>2, <2>3
  <2>5. LinkUpTo(m, bad) = n - 1
    BY <1>2, <2>3 DEF LinkUpTo
  <2> QED
    BY <2>4, <2>5
<1> QED
  BY <1>1, <1>2

\* Phase 2.
LEMMA LinkFactoriesDo ==
    ASSUME NEW L \in Nat, NEW B, NEW m, MergeOK(m, L, B), NEW r, r = LinkFactories(m)
    PROVE  \E k, es : Relinked(m, k, es, r)
<1>0. /\ m.ids \in [Identities -> 1..Len(m.descs) \union {NoDesc}] /\ LinksOK(m.links, m.descs)
  BY MergeIn
<1>1. PICK bad : bad = {n \in 1..Len(m.links) : Missing(m, m.links[n].factory)}
  OBVIOUS
<1>2. PICK at : at = {n \in 1..LinkUpTo(m, bad) : m.links[n].factory # NoId}
  OBVIOUS
<1>3. PICK es : es = [d \in 1..Len(m.descs) |->
                        IF \E n \in at : m.links[n].desc = d
                        THEN [m.descs[d] EXCEPT !.factory = m.ids[m.links[CHOOSE n \in at : m.links[n].desc = d].factory]]
                        ELSE m.descs[d]]
  OBVIOUS
<1>4. PICK k \in BOOLEAN : k = (bad = {})
  OBVIOUS
<1>5. r = [m EXCEPT !.ok = k, !.descs = es]
  BY <1>1, <1>2, <1>3, <1>4 DEF LinkFactories
<1>6. Len(m.links) \in Nat /\ at \subseteq 1..Len(m.links)
  BY <1>0, <1>1, <1>2, LinksIn, UpToIn
<1>7. ASSUME NEW d \in 1..Len(m.descs), es[d] # m.descs[d]
      PROVE  /\ \E n \in 1..Len(m.links) : m.links[n].desc = d
             /\ \E v \in 1..Len(m.descs) \union {NoDesc} : es[d] = [m.descs[d] EXCEPT !.factory = v]
  <2>1. \E n \in at : m.links[n].desc = d
    BY <1>3, <1>7
  <2>2. PICK c : c = CHOOSE n \in at : m.links[n].desc = d
    OBVIOUS
  <2>3. c \in at /\ m.links[c].desc = d
    BY <2>1, <2>2
  <2>4. m.links[c].factory \in Identities
    BY <1>0, <1>2, <1>6, <2>3, LinksIn
  <2>5. PICK v : v = m.ids[m.links[c].factory]
    OBVIOUS
  <2>6. v \in 1..Len(m.descs) \union {NoDesc}
    BY <1>0, <2>4, <2>5
  <2>7. es[d] = [m.descs[d] EXCEPT !.factory = v]
    BY <1>3, <2>1, <2>2, <2>5
  <2> QED
    BY <1>6, <2>3, <2>6, <2>7
<1>8. Relinks(m.descs, m.links, es)
  <2>1. es = [d \in 1..Len(m.descs) |-> es[d]]
    BY <1>3
  <2> QED
    BY <1>7, <2>1 DEF Relinks
<1>9. Relinked(m, k, es, r)
  BY <1>5, <1>8 DEF Relinked
<1> QED
  BY <1>9

\* Phase 2, which links factories, keeps the merge well formed.
LEMMA LinkFactoriesOK ==
    ASSUME NEW L \in Nat, NEW B, NEW m, MergeOK(m, L, B), NEW r, r = LinkFactories(m)
    PROVE  MergeOK(r, L, B) /\ r.stored = m.stored
<1>1. PICK k, es : Relinked(m, k, es, r)
  BY LinkFactoriesDo
<1> QED
  BY <1>1, RelinkOK

\* Phase 2.5.
LEMMA LinkAliasesDo ==
    ASSUME NEW L \in Nat, NEW B, NEW m, MergeOK(m, L, B), NEW r, r = LinkAliases(m)
    PROVE  \E k, es : Relinked(m, k, es, r)
<1>0. /\ m.ids \in [Identities -> 1..Len(m.descs) \union {NoDesc}] /\ LinksOK(m.links, m.descs)
  BY MergeIn
<1>1. PICK bad : bad = {n \in 1..Len(m.links) : Missing(m, m.links[n].alias)}
  OBVIOUS
<1>2. PICK at : at = {n \in 1..LinkUpTo(m, bad) : m.links[n].alias # NoId}
  OBVIOUS
<1>3. PICK es : es = [d \in 1..Len(m.descs) |->
                        IF \E n \in at : m.links[n].desc = d
                        THEN [m.descs[d] EXCEPT !.prim = m.ids[m.links[CHOOSE n \in at : m.links[n].desc = d].alias]]
                        ELSE m.descs[d]]
  OBVIOUS
<1>4. PICK k \in BOOLEAN : k = (bad = {})
  OBVIOUS
<1>5. r = [m EXCEPT !.ok = k, !.descs = es]
  BY <1>1, <1>2, <1>3, <1>4 DEF LinkAliases
<1>6. Len(m.links) \in Nat /\ at \subseteq 1..Len(m.links)
  BY <1>0, <1>1, <1>2, LinksIn, UpToIn
<1>7. ASSUME NEW d \in 1..Len(m.descs), es[d] # m.descs[d]
      PROVE  /\ \E n \in 1..Len(m.links) : m.links[n].desc = d
             /\ \E v \in 1..Len(m.descs) \union {NoDesc} : es[d] = [m.descs[d] EXCEPT !.prim = v]
  <2>1. \E n \in at : m.links[n].desc = d
    BY <1>3, <1>7
  <2>2. PICK c : c = CHOOSE n \in at : m.links[n].desc = d
    OBVIOUS
  <2>3. c \in at /\ m.links[c].desc = d
    BY <2>1, <2>2
  <2>4. m.links[c].alias \in Identities
    BY <1>0, <1>2, <1>6, <2>3, LinksIn
  <2>5. PICK v : v = m.ids[m.links[c].alias]
    OBVIOUS
  <2>6. v \in 1..Len(m.descs) \union {NoDesc}
    BY <1>0, <2>4, <2>5
  <2>7. es[d] = [m.descs[d] EXCEPT !.prim = v]
    BY <1>3, <2>1, <2>2, <2>5
  <2> QED
    BY <1>6, <2>3, <2>6, <2>7
<1>8. Relinks(m.descs, m.links, es)
  <2>1. es = [d \in 1..Len(m.descs) |-> es[d]]
    BY <1>3
  <2> QED
    BY <1>7, <2>1 DEF Relinks
<1>9. Relinked(m, k, es, r)
  BY <1>5, <1>8 DEF Relinked
<1> QED
  BY <1>9

\* So does phase 2.5, which links aliases.
LEMMA LinkAliasesOK ==
    ASSUME NEW L \in Nat, NEW B, NEW m, MergeOK(m, L, B), NEW r, r = LinkAliases(m)
    PROVE  MergeOK(r, L, B) /\ r.stored = m.stored
<1>1. PICK k, es : Relinked(m, k, es, r)
  BY LinkAliasesDo
<1> QED
  BY <1>1, RelinkOK

\* So do phases 3 to 3.75, which sort and check.
LEMMA ValidatedOK ==
    ASSUME NEW L \in Nat, NEW B, NEW m, MergeOK(m, L, B), NEW r, r = Validated(Sorted(m))
    PROVE  MergeOK(r, L, B) /\ r.stored = m.stored
<1>0. /\ m = [ok |-> m.ok, descs |-> m.descs, interned |-> m.interned, ix |-> m.ix, ids |-> m.ids,
              links |-> m.links, stored |-> m.stored]
      /\ m.ok \in BOOLEAN /\ TablesOK(m.descs, m.ix, m.interned) /\ L <= Len(m.descs)
      /\ m.ids \in [Identities -> 1..Len(m.descs) \union {NoDesc}]
      /\ LinksOK(m.links, m.descs) /\ StoredOK(m.stored, B, L, m.descs)
      /\ DescsOK(m.descs) /\ Len(m.descs) \in Nat
  BY MergeIn
<1>1. PICK y : y = SortAllCandidates(m.ix, PrioOf(m.descs))
  OBVIOUS
<1>2. PICK t : t = Sorted(m)
  OBVIOUS
<1>3. t = [m EXCEPT !.ix = y]
  BY <1>1, <1>2 DEF Sorted
<1>4. PICK k \in BOOLEAN : k = (~TwinProducts(t) /\ ~BadInjection(t))
  OBVIOUS
<1>5. r = [t EXCEPT !.ok = k]
  BY <1>2, <1>4 DEF Validated
<1>6. r = [ok |-> k, descs |-> m.descs, interned |-> m.interned, ix |-> y, ids |-> m.ids,
           links |-> m.links, stored |-> m.stored]
  BY <1>0, <1>3, <1>5
<1>7. TablesOK(m.descs, y, m.interned)
  <2>1. PrioOf(m.descs) \in [1..Len(m.descs) -> Int]
    BY <1>0, DescsIn
  <2>2. m.ix \in Index(Len(m.descs)) /\ Unnamed \in Names
    BY <1>0, LifecycleConstants DEF TablesOK
  <2>3. y \in Index(Len(m.descs))
    BY <1>0, <1>1, <2>1, <2>2, SortTyped
  <2> QED
    BY <1>0, <2>3 DEF TablesOK
<1> QED
  BY <1>0, <1>6, <1>7, MergeIs

-----------------------------------------------------------------------------

\* The tables of the registry.
TablesInv ==
    /\ TablesOK(descs, ix, interned)
    /\ ctxDesc \in 1..Len(descs) \union {NoDesc}
    /\ pending \in Seq(Seq(Contributed))
    /\ defaults.root \in [Types -> Names] /\ defaults.scoped \in [Types -> Names]

\* start() begins with the tables as they are.
LEMMA UnmergedOK ==
    ASSUME TablesInv, Len(bindings) \in Nat
    PROVE  MergeOK(Unmerged, Len(descs), bindings) /\ Unmerged.stored = <<>>
<1>1. TablesOK(descs, ix, interned) /\ Len(descs) \in Nat
  BY DescsIn DEF TablesInv, TablesOK
<1>2. PICK m : m = Unmerged
  OBVIOUS
<1>3. PICK ids : ids = [c \in Identities |-> NoDesc]
  OBVIOUS
<1>4. m = [ok |-> TRUE, descs |-> descs, interned |-> interned, ix |-> ix, ids |-> ids, links |-> <<>>, stored |-> <<>>]
  BY <1>2, <1>3 DEF Unmerged
<1>5. ids \in [Identities -> 1..Len(descs) \union {NoDesc}]
  BY <1>3
<1>6. LinksOK(<<>>, descs)
  BY DEF LinksOK
<1>7. StoredOK(<<>>, bindings, Len(descs), descs)
  <2>1. PICK S : S = [desc : 1..Len(descs), inst : Nat]
    OBVIOUS
  <2>2. <<>> \in Seq(S) /\ Len(<<>>) = 0
    OBVIOUS
  <2>3. \A d \in 1..Len(descs) : ~(d > Len(descs))
    BY <1>1
  <2> QED
    BY <2>1, <2>2, <2>3 DEF StoredOK
<1>8. PICK L, B, T, k : k \in BOOLEAN /\ L = Len(descs) /\ B = bindings /\ T = <<>> /\ k = TRUE
  OBVIOUS
<1>9. /\ m = [ok |-> k, descs |-> descs, interned |-> interned, ix |-> ix, ids |-> ids, links |-> T, stored |-> T]
      /\ L <= Len(descs) /\ LinksOK(T, descs) /\ StoredOK(T, B, L, descs)
  BY <1>1, <1>4, <1>6, <1>7, <1>8
<1>10. MergeOK(m, L, B) /\ m.stored = T
  <2>1. /\ m.ok = k /\ m.descs = descs /\ m.interned = interned /\ m.ix = ix /\ m.ids = ids
        /\ m.links = T /\ m.stored = T
    BY <1>9
  <2> QED
    BY <1>1, <1>5, <1>8, <1>9, <2>1 DEF MergeOK
<1> QED
  BY <1>2, <1>8, <1>10

\* What was contributed, in one sequence.
LEMMA AllContributed ==
    ASSUME TablesInv
    PROVE  FlattenSeq(pending) \in Seq(Contributed)
<1>1. pending \in Seq(Seq(Contributed))
  BY DEF TablesInv
<1>2. PICK S : S = Contributed
  OBVIOUS
<1>3. Gathers(TL!FlattenSeq(pending), S, pending, Len(pending))
  BY <1>1, <1>2, FlattenGathers
<1>4. FlattenSeq(pending) = TL!FlattenSeq(pending)
  BY DEF FlattenSeq, TL!FlattenSeq
<1> QED
  BY <1>2, <1>3, <1>4 DEF Gathers

\* Phase 1.
LEMMA MergedFolds ==
    ASSUME TablesInv, NEW X, NEW K \in Nat, BindsOK(bindings, X, K)
    PROVE  \E f, first : /\ first = TRUE /\ Merged = f[Len(FlattenSeq(pending))]
                         /\ Folds(f, first, Unmerged, FlattenSeq(pending), Len(descs), bindings)
<1>1. PICK cs, m : cs = FlattenSeq(pending) /\ m = Unmerged
  OBVIOUS
<1>2. cs \in Seq(Contributed) /\ Len(cs) \in Nat
  BY <1>1, AllContributed
<1>3. PICK f : /\ Merged = f[Len(cs)]
               /\ f = CHOOSE g : g = [n \in 0..Len(cs) |-> IF n = 0 THEN m ELSE MergeOne(g[n - 1], cs[n])]
  BY <1>1 DEF Merged
<1>4. \E g : g = [n \in 0..Len(cs) |-> IF n = 0 THEN m ELSE MergeOne(g[n - 1], cs[n])]
  <2>1. PICK g : IsFold(g, TRUE, m, cs, Len(cs))
    BY <1>2, FoldExists
  <2>2. g = [n \in 0..Len(cs) |-> IF n = 0 THEN m ELSE MergeOne(g[n - 1], cs[n])]
    BY <2>1 DEF IsFold, Step
  <2> QED
    BY <2>2
<1>5. f = [n \in 0..Len(cs) |-> IF n = 0 THEN m ELSE MergeOne(f[n - 1], cs[n])]
  BY <1>3, <1>4
<1>6. IsFold(f, TRUE, m, cs, Len(cs))
  BY <1>5 DEF IsFold, Step
<1>7. Len(bindings) \in Nat /\ \A n \in 1..Len(bindings) : bindings[n].key \in Key /\ bindings[n].inst \in Nat
  BY BindsIn
<1>8. MergeOK(m, Len(descs), bindings) /\ m.stored = <<>> /\ Len(descs) \in Nat
  BY <1>1, <1>7, UnmergedOK, DescsIn DEF TablesInv, TablesOK
<1>9. PICK L, B : L = Len(descs) /\ B = bindings
  OBVIOUS
<1>10. PICK first : first = TRUE
  OBVIOUS
<1>11. Folds(f, first, m, cs, L, B)
  BY <1>2, <1>6, <1>7, <1>8, <1>9, <1>10 DEF Folds
<1> QED
  BY <1>1, <1>3, <1>9, <1>10, <1>11

\* Phase 1 of start() makes a well formed merge of the tables.
LEMMA MergedOK ==
    ASSUME TablesInv, NEW X, NEW K \in Nat, BindsOK(bindings, X, K)
    PROVE  MergeOK(Merged, Len(descs), bindings) /\ Merged.stored = <<>>
<1>1. PICK f, first : /\ first = TRUE /\ Merged = f[Len(FlattenSeq(pending))]
                      /\ Folds(f, first, Unmerged, FlattenSeq(pending), Len(descs), bindings)
  BY MergedFolds
<1>2. PICK cs, m, L, B : cs = FlattenSeq(pending) /\ m = Unmerged /\ L = Len(descs) /\ B = bindings
  OBVIOUS
<1>3. MergeOK(f[Len(cs)], L, B)
        /\ IF first THEN f[Len(cs)].stored = <<>> ELSE f[Len(cs)].ok => Len(f[Len(cs)].stored) = Len(B)
  BY <1>1, <1>2, FoldOK
<1> QED
  BY <1>1, <1>2, <1>3

\* Phase 1.5.
LEMMA AdoptedFolds ==
    ASSUME TablesInv, NEW X, NEW K \in Nat, BindsOK(bindings, X, K)
    PROVE  \E f, first : /\ first = FALSE /\ Adopted = f[Len(bindings)]
                         /\ Folds(f, first, Merged, bindings, Len(descs), bindings)
<1>1. PICK cs, m : cs = bindings /\ m = Merged
  OBVIOUS
<1>2. Len(cs) \in Nat /\ \A n \in 1..Len(cs) : cs[n].key \in Key /\ cs[n].inst \in Nat
  BY <1>1, BindsIn
<1>3. PICK f : /\ Adopted = f[Len(cs)]
               /\ f = CHOOSE g : g = [n \in 0..Len(cs) |-> IF n = 0 THEN m ELSE AdoptOne(g[n - 1], cs[n])]
  BY <1>1 DEF Adopted
<1>4. \E g : g = [n \in 0..Len(cs) |-> IF n = 0 THEN m ELSE AdoptOne(g[n - 1], cs[n])]
  <2>1. PICK g : IsFold(g, FALSE, m, cs, Len(cs))
    BY <1>2, FoldExists
  <2>2. g = [n \in 0..Len(cs) |-> IF n = 0 THEN m ELSE AdoptOne(g[n - 1], cs[n])]
    BY <2>1 DEF IsFold, Step
  <2> QED
    BY <2>2
<1>5. f = [n \in 0..Len(cs) |-> IF n = 0 THEN m ELSE AdoptOne(f[n - 1], cs[n])]
  BY <1>3, <1>4
<1>6. IsFold(f, FALSE, m, cs, Len(cs))
  BY <1>5 DEF IsFold, Step
<1>8. MergeOK(m, Len(descs), cs) /\ m.stored = <<>> /\ Len(descs) \in Nat
  BY <1>1, MergedOK, DescsIn DEF TablesInv, TablesOK
<1>9. PICK L : L = Len(descs)
  OBVIOUS
<1>10. PICK first : first = FALSE
  OBVIOUS
<1>11. Folds(f, first, m, cs, L, cs)
  BY <1>2, <1>6, <1>8, <1>9, <1>10 DEF Folds
<1> QED
  BY <1>1, <1>3, <1>9, <1>10, <1>11

\* So does phase 1.5; unless it fails, every queued binding is to be stored.
LEMMA AdoptedOK ==
    ASSUME TablesInv, NEW X, NEW K \in Nat, BindsOK(bindings, X, K)
    PROVE  MergeOK(Adopted, Len(descs), bindings) /\ (Adopted.ok => Len(Adopted.stored) = Len(bindings))
<1>1. PICK f, first : /\ first = FALSE /\ Adopted = f[Len(bindings)]
                      /\ Folds(f, first, Merged, bindings, Len(descs), bindings)
  BY AdoptedFolds
<1>2. PICK m, L, B : m = Merged /\ L = Len(descs) /\ B = bindings
  OBVIOUS
<1>3. MergeOK(f[Len(B)], L, B) /\ IF first THEN f[Len(B)].stored = <<>> ELSE f[Len(B)].ok => Len(f[Len(B)].stored) = Len(B)
  BY <1>1, <1>2, FoldOK
<1> QED
  BY <1>1, <1>2, <1>3

\* So do all the phases before the context's own bean.
LEMMA BuiltOK ==
    ASSUME TablesInv, NEW X, NEW K \in Nat, BindsOK(bindings, X, K)
    PROVE  /\ MergeOK(Built, Len(descs), bindings) /\ Len(descs) \in Nat
           /\ Built.ok => Len(Built.stored) = Len(bindings)
<1>1. PICK a, f, l, b : a = Adopted /\ f = Then(a, LinkFactories(a)) /\ l = Then(f, LinkAliases(f))
                        /\ b = Then(l, Validated(Sorted(l)))
  OBVIOUS
<1>2. l = Linked
  BY <1>1 DEF Linked
<1>3. b = Built
  BY <1>1, <1>2 DEF Built
<1>4. PICK L, B : L = Len(descs) /\ B = bindings
  OBVIOUS
<1>5. MergeOK(a, L, B) /\ (a.ok => Len(a.stored) = Len(B)) /\ L \in Nat
  BY <1>1, <1>4, AdoptedOK, DescsIn DEF TablesInv, TablesOK
<1>6. MergeOK(f, L, B) /\ f.stored = a.stored /\ (f.ok => a.ok)
  <2>1. CASE a.ok
    BY <1>1, <1>5, <2>1, LinkFactoriesOK DEF Then
  <2>2. CASE ~a.ok
    BY <1>1, <1>5, <2>2 DEF Then
  <2> QED
    BY <2>1, <2>2
<1>7. MergeOK(l, L, B) /\ l.stored = a.stored /\ (l.ok => a.ok)
  <2>1. CASE f.ok
    BY <1>1, <1>5, <1>6, <2>1, LinkAliasesOK DEF Then
  <2>2. CASE ~f.ok
    BY <1>1, <1>6, <2>2 DEF Then
  <2> QED
    BY <2>1, <2>2
<1>8. MergeOK(b, L, B) /\ b.stored = a.stored /\ (b.ok => a.ok)
  <2>1. CASE l.ok
    BY <1>1, <1>5, <1>7, <2>1, ValidatedOK DEF Then
  <2>2. CASE ~l.ok
    BY <1>1, <1>7, <2>2 DEF Then
  <2> QED
    BY <2>1, <2>2
<1> QED
  BY <1>3, <1>4, <1>5, <1>8

\* What phase 4 makes of the merge b: the context's bean is the last descriptor.
Completes(b, L, B, w, M) ==
    /\ TablesOK(w.descs, w.ix, w.interned) /\ M = Len(w.descs) /\ M \in Nat \ {0} /\ L <= M
    /\ w.stored = b.stored /\ Fills(w.stored, B, M)
    /\ \A d \in 1..M : d > L /\ w.descs[d].bound => d = M \/ \E n \in 1..Len(w.stored) : w.stored[n].desc = d

\* The stored descriptors come before the context's.
LEMMA StoredFills ==
    ASSUME NEW ds, NEW T, NEW B, NEW L, StoredOK(T, B, L, ds), Len(T) = Len(B), Len(ds) \in Nat, NEW M, M = Len(ds) + 1
    PROVE  Fills(T, B, M)
<1>1. 1..Len(ds) \subseteq 1..M
  OBVIOUS
<1>2. PICK S, R : S = [desc : 1..Len(ds), inst : Nat] /\ R = [desc : 1..M, inst : Nat]
  OBVIOUS
<1>3. S \subseteq R /\ T \in Seq(S)
  BY <1>1, <1>2 DEF StoredOK
<1>4. T \in Seq(R)
  BY <1>3, SeqUp
<1>5. \A n \in 1..Len(T) : T[n].desc \in 1..Len(ds)
  BY StoredIn
<1>6. \A n \in 1..Len(T) : T[n].desc < M
  BY <1>5
<1> QED
  BY <1>2, <1>4, <1>6 DEF Fills, StoredOK

\* With the context's own bean, the merge is complete.
LEMMA WithContextOK ==
    ASSUME NEW L \in Nat, NEW B, NEW b, MergeOK(b, L, B), Len(b.stored) = Len(B), NEW w, w = WithContext(b)
    PROVE  \E M : Completes(b, L, B, w, M)
<1>0. /\ b = [ok |-> b.ok, descs |-> b.descs, interned |-> b.interned, ix |-> b.ix, ids |-> b.ids,
              links |-> b.links, stored |-> b.stored]
      /\ TablesOK(b.descs, b.ix, b.interned) /\ L <= Len(b.descs)
      /\ StoredOK(b.stored, B, L, b.descs) /\ Len(b.descs) \in Nat
  BY MergeIn
<1>1. PICK d \in Nat \ {0} : d = Len(b.descs) + 1
  BY <1>0
<1>2. PICK k : k = [type |-> CtxType, name |-> Unnamed, prio |-> 0]
  OBVIOUS
<1>3. k \in Key /\ k.type = CtxType /\ CtxType \in Types /\ Unnamed \in Names
  BY <1>2, LifecycleConstants DEF Key
<1>4. PICK e : e = BoundDesc(k, d)
  OBVIOUS
<1>5. e \in DescSet(d) /\ e.bound /\ e.prim = d
  BY <1>3, <1>4, BoundDescIn
<1>6. PICK es, y : es = Append(b.descs, e) /\ y = InsertCandidate(b.ix, e.type, e.name, d)
  OBVIOUS
<1>7. Joins(b.descs, b.ix, e, es, y)
  BY <1>1, <1>5, <1>6 DEF Joins
<1>8. TablesOK(es, y, b.interned) /\ Goes(b.descs, e, es)
  BY <1>0, <1>7, TablesAdd
<1>9. PICK ts, z : ts = Intern(b.interned, CtxType) /\ z = UpdateSingleUnnamed(y, CtxType)
  OBVIOUS
<1>10. TablesOK(es, y, ts)
  BY <1>3, <1>8, <1>9, TablesIntern
<1>11. Len(es) = d /\ L <= d
  BY <1>0, <1>1, <1>8 DEF Goes
<1>12. TablesOK(es, z, ts)
  <2>1. y \in Index(Len(es)) /\ Len(es) \in Nat
    BY <1>10, <1>11 DEF TablesOK
  <2>2. z \in Index(Len(es))
    BY <1>3, <1>9, <2>1, SinglesTyped
  <2> QED
    BY <1>10, <2>2 DEF TablesOK
<1>13. PICK a : a = AddDesc(b, e, d)
  OBVIOUS
<1>14. a = [b EXCEPT !.descs = es, !.ix = y]
  BY <1>6, <1>13 DEF AddDesc
<1>15. a = [ok |-> b.ok, descs |-> es, interned |-> b.interned, ix |-> y, ids |-> b.ids,
            links |-> b.links, stored |-> b.stored]
  BY <1>0, <1>14
<1>16. w = [a EXCEPT !.interned = Intern(@, CtxType), !.ix = UpdateSingleUnnamed(@, CtxType)]
  BY <1>1, <1>2, <1>4, <1>13 DEF WithContext
<1>17. w.descs = es /\ w.ix = z /\ w.interned = ts /\ w.stored = b.stored
  BY <1>9, <1>15, <1>16
<1>18. Fills(b.stored, B, d)
  BY <1>0, <1>1, StoredFills
<1>19. ASSUME NEW c \in 1..d, c > L, es[c].bound, c # d PROVE \E n \in 1..Len(b.stored) : b.stored[n].desc = c
  <2>1. c \in 1..Len(b.descs)
    BY <1>1, <1>19
  <2>2. es[c] = b.descs[c]
    BY <1>8, <2>1 DEF Goes
  <2> QED
    BY <1>0, <1>19, <2>1, <2>2 DEF StoredOK
<1> QED
  BY <1>11, <1>12, <1>17, <1>18, <1>19 DEF Completes

-----------------------------------------------------------------------------

\* A default name is a name.
LEMMA EffectiveNameIn ==
    ASSUME TablesInv, NEW t \in Types, NEW scoped
    PROVE  EffectiveName(scoped, t) \in Names
<1>1. Unnamed \in Names /\ defaults.root[t] \in Names /\ defaults.scoped[t] \in Names
  BY LifecycleConstants DEF TablesInv
<1>2. \A n, f : f[t] \in Names => TableDefault(n, f, t) \in Names
  BY <1>1 DEF TableDefault
<1> QED
  BY <1>1, <1>2 DEF EffectiveName

\* A request ends with a descriptor that exists, with none, or with a tie.
LEMMA RequestIn ==
    ASSUME TablesInv, NEW t \in Types, NEW n \in Names, NEW scoped
    PROVE  Request(scoped, t, n) \in 1..Len(descs) \union {NoDesc, Ambiguous}
<1>1. EffectiveName(scoped, t) \in Names
  BY EffectiveNameIn
<1>2. PICK m : m = IF n = Unnamed THEN EffectiveName(scoped, t) ELSE n
  OBVIOUS
<1>3. m \in Names /\ Request(scoped, t, n) = Lookup(ix, Prio, t, m)
  BY <1>1, <1>2 DEF Request
<1>4. ix \in Index(Len(descs)) /\ Len(descs) \in Nat
  BY DescsIn DEF TablesInv, TablesOK
<1> QED
  BY <1>3, <1>4, LookupTyped

\* The descriptor that a request selects, and the one where its bean is made.
LEMMA RequestDesc ==
    ASSUME TablesInv, NEW t \in Types, NEW n \in Names, NEW d, d = Request(FALSE, t, n), d \notin {NoDesc, Ambiguous}
    PROVE  d \in 1..Len(descs) /\ Primary(d) \in 1..Len(descs)
<1>1. d \in 1..Len(descs)
  BY RequestIn
<1>2. descs[d].prim \in 1..Len(descs) \union {NoDesc}
  BY <1>1, DescsIn DEF TablesInv, TablesOK
<1> QED
  BY <1>1, <1>2 DEF Primary

\* The primary of a descriptor exists; a binding is its own.
LEMMA PrimaryIn ==
    ASSUME TablesInv, NEW d \in 1..Len(descs)
    PROVE  Primary(d) \in 1..Len(descs) /\ (descs[d].bound => Primary(d) = d)
<1>1. descs[d].prim \in 1..Len(descs) \union {NoDesc} /\ (descs[d].bound => descs[d].prim = d)
  BY DescsIn DEF TablesInv, TablesOK, DescsOK
<1> QED
  BY <1>1 DEF Primary

\* The queries, bindings and spans of a program.
LEMMA ProgramIn ==
    ASSUME CallsInv
    PROVE  /\ \A q \in cat.asks \union cat.looks \union cat.defaults : q.type \in Types /\ q.name \in Names
           /\ \A k \in cat.binds : k \in Key
           /\ \A s \in cat.spans : s \in Seq(Contributed)
<1>1. cat \in Catalogs
  BY DEF CallsInv
<1>2. /\ cat.spans \subseteq Seq(Contributed) /\ cat.binds \subseteq Key
      /\ cat.asks \subseteq Query /\ cat.looks \subseteq Query /\ cat.defaults \subseteq Query
  BY <1>1, LifecycleConstants
<1> QED
  BY <1>2 DEF Query

-----------------------------------------------------------------------------
(* The selection: what the tables answer, as against Best.                 *)

\* The descriptors of a type and a name, and those of highest priority among them.
OwnOf(ds, t, n) == {d \in 1..Len(ds) : ds[d].type = t /\ ds[d].name = n}
TopsOf(ds, t, n) == {d \in OwnOf(ds, t, n) : \A c \in OwnOf(ds, t, n) : ds[c].prio <= ds[d].prio}

\* Descriptors with priorities.
Ranked(ds) == Len(ds) \in Nat /\ \A d \in 1..Len(ds) : ds[d].prio \in Int

\* Best, the reference definition of a selection, in these terms.
LEMMA BestIs ==
    ASSUME NEW ds, NEW t, NEW n
    PROVE  Best(ds, t, n) = IF OwnOf(ds, t, n) = {} THEN NoDesc
                            ELSE IF Cardinality(TopsOf(ds, t, n)) > 1 THEN Ambiguous
                            ELSE CHOOSE d \in TopsOf(ds, t, n) : TRUE
BY DEF Best, OwnOf, TopsOf

\* The descriptors of highest priority can be counted, which tells a tie.
LEMMA TopsFinite ==
    ASSUME NEW ds, Ranked(ds), NEW t, NEW n
    PROVE  /\ IsFiniteSet(TopsOf(ds, t, n)) /\ Cardinality(TopsOf(ds, t, n)) \in Nat
           /\ OwnOf(ds, t, n) \subseteq 1..Len(ds) /\ TopsOf(ds, t, n) \subseteq OwnOf(ds, t, n)
<1>1. TopsOf(ds, t, n) \subseteq 1..Len(ds) /\ IsFiniteSet(1..Len(ds))
  BY FS_Interval DEF TopsOf, OwnOf, Ranked
<1>2. IsFiniteSet(TopsOf(ds, t, n))
  BY <1>1, FS_Subset
<1> QED
  BY <1>2, FS_CardinalityType DEF TopsOf, OwnOf

\* A set with two elements has more than one.
LEMMA TwoAreMore ==
    ASSUME NEW S, IsFiniteSet(S), NEW a \in S, NEW b \in S, a # b
    PROVE  Cardinality(S) > 1
<1>1. IsFiniteSet(S \ {a}) /\ Cardinality(S \ {a}) = Cardinality(S) - 1
  BY FS_RemoveElement
<1>2. IsFiniteSet((S \ {a}) \ {b}) /\ Cardinality((S \ {a}) \ {b}) = Cardinality(S \ {a}) - 1
  BY <1>1, FS_RemoveElement
<1>3. Cardinality(S) \in Nat /\ Cardinality((S \ {a}) \ {b}) \in Nat
  BY <1>2, FS_CardinalityType
<1> QED
  BY <1>1, <1>2, <1>3

\* A descriptor of highest priority is the best one, unless there is a tie.
LEMMA TopIsBest ==
    ASSUME NEW ds, Ranked(ds), NEW t, NEW n, NEW h \in TopsOf(ds, t, n)
    PROVE  /\ Best(ds, t, n) # NoDesc \/ NoDesc \in 1..Len(ds) \/ Ambiguous = NoDesc
           /\ Best(ds, t, n) # Ambiguous => Best(ds, t, n) = h
<1>1. PICK T : T = TopsOf(ds, t, n)
  OBVIOUS
<1>2. IsFiniteSet(T) /\ Cardinality(T) \in Nat /\ OwnOf(ds, t, n) # {} /\ T \subseteq 1..Len(ds) /\ h \in T
  BY <1>1, TopsFinite
<1>3. Best(ds, t, n) = IF Cardinality(T) > 1 THEN Ambiguous ELSE CHOOSE d \in T : TRUE
  BY <1>1, <1>2, BestIs
<1>4. (CHOOSE d \in T : TRUE) \in T
  BY <1>2
<1>5. (CHOOSE d \in T : TRUE) # h => Cardinality(T) > 1
  BY <1>2, <1>4, TwoAreMore
<1> QED
  BY <1>2, <1>3, <1>4, <1>5

\* resolveFromCandidates, on sorted candidates, finds the best one, and a tie of the
\* first two is a tie.
LEMMA SortedBest ==
    ASSUME NEW ds, Ranked(ds), NEW t, NEW n, NEW cs, Sorts(cs, OwnOf(ds, t, n), PrioOf(ds)),
           Ambiguous \notin Nat, NoDesc \notin Nat, NoDesc # Ambiguous
    PROVE  /\ FromCandidates(cs, PrioOf(ds)) = Best(ds, t, n)
           /\ Tied(cs, PrioOf(ds)) <=> Best(ds, t, n) = Ambiguous
           /\ cs = <<>> <=> OwnOf(ds, t, n) = {}
           /\ cs # <<>> => cs[1] \in TopsOf(ds, t, n)
           /\ Len(cs) = 1 => cs[1] = Best(ds, t, n)
<1>1. PICK S : S = OwnOf(ds, t, n)
  OBVIOUS
<1>2. PICK p : p = PrioOf(ds)
  OBVIOUS
<1>3. cs \in Seq(S) /\ Once(cs) /\ \A c : Holds(cs, c) <=> c \in S
  BY <1>1 DEF Sorts
<1>4. \A j, k \in 1..Len(cs) : j < k => p[cs[j]] >= p[cs[k]]
  BY <1>2 DEF Sorts
<1>5. Len(cs) \in Nat /\ (\A k \in 1..Len(cs) : cs[k] \in S) /\ (cs = <<>> <=> Len(cs) = 0)
  BY <1>3
<1>6. S \subseteq 1..Len(ds) /\ Len(ds) \in Nat
  BY <1>1, TopsFinite DEF Ranked
<1>7. \A d \in S : p[d] = ds[d].prio /\ p[d] \in Int
  BY <1>2, <1>6 DEF PrioOf, Ranked
<1>8. cs = <<>> <=> S = {}
  BY <1>3, <1>5 DEF Holds
<1>9. CASE cs = <<>>
  <2>1. Best(ds, t, n) = NoDesc
    BY <1>1, <1>8, <1>9, BestIs
  <2>2. Len(cs) = 0
    BY <1>5, <1>9
  <2> QED
    BY <1>1, <1>8, <1>9, <2>1, <2>2 DEF FromCandidates, Tied
<1>10. CASE cs # <<>>
  <2>1. Len(cs) >= 1 /\ 1 \in 1..Len(cs) /\ cs[1] \in S
    BY <1>5, <1>10
  <2>2. \A c \in S : p[c] <= p[cs[1]]
    <3>1. ASSUME NEW c \in S PROVE p[c] <= p[cs[1]]
      <4>1. PICK k \in 1..Len(cs) : cs[k] = c
        BY <1>3 DEF Holds
      <4>2. k = 1 \/ 1 < k
        BY <1>5
      <4>3. p[c] \in Int /\ p[cs[1]] \in Int
        BY <1>7, <2>1
      <4> QED
        BY <1>4, <2>1, <4>1, <4>2, <4>3
    <3> QED
      BY <3>1
  <2>3. cs[1] \in TopsOf(ds, t, n)
    BY <1>1, <1>7, <2>1, <2>2 DEF TopsOf
  <2>4. cs[1] \in Nat
    <3>1. PICK c : c = cs[1]
      OBVIOUS
    <3>2. c \in 1..Len(ds)
      BY <1>6, <2>1, <3>1
    <3> QED
      BY <1>6, <3>1, <3>2
  <2>5. CASE Tied(cs, p)
    <3>1. Len(cs) >= 2 /\ p[cs[1]] = p[cs[2]]
      BY <2>5 DEF Tied
    <3>2. 2 \in 1..Len(cs) /\ cs[2] \in S
      BY <1>5, <3>1
    <3>3. cs[1] # cs[2]
      BY <1>3, <2>1, <3>2 DEF Once
    <3>4. \A c \in S : ds[c].prio <= ds[cs[2]].prio
      BY <1>7, <2>1, <2>2, <3>1, <3>2
    <3>5. cs[2] \in TopsOf(ds, t, n)
      BY <1>1, <3>2, <3>4 DEF TopsOf
    <3>6. Cardinality(TopsOf(ds, t, n)) > 1
      BY <2>3, <3>3, <3>5, TopsFinite, TwoAreMore
    <3>7. Best(ds, t, n) = Ambiguous
      BY <1>1, <1>8, <1>10, <3>6, BestIs
    <3>8. FromCandidates(cs, p) = Ambiguous
      BY <1>10, <2>5 DEF FromCandidates
    <3>9. Len(cs) # 1
      BY <1>5, <3>1
    <3> QED
      BY <1>1, <1>2, <1>8, <1>10, <2>3, <2>5, <3>7, <3>8, <3>9
  <2>6. CASE ~Tied(cs, p)
    <3>1. \A d \in TopsOf(ds, t, n) : d = cs[1]
      <4>1. SUFFICES ASSUME NEW d \in TopsOf(ds, t, n), d # cs[1] PROVE FALSE
        OBVIOUS
      <4>2. d \in S /\ ds[cs[1]].prio <= ds[d].prio
        BY <1>1, <2>1, <4>1 DEF TopsOf
      <4>3. PICK k \in 1..Len(cs) : cs[k] = d
        BY <1>3, <4>2 DEF Holds
      <4>4. k # 1
        BY <4>1, <4>3
      <4>5. k >= 2 /\ Len(cs) >= 2 /\ 2 \in 1..Len(cs)
        BY <1>5, <4>3, <4>4
      <4>6. cs[2] \in S
        BY <1>5, <4>5
      <4>7. p[cs[1]] \in Int /\ p[cs[2]] \in Int /\ p[d] \in Int /\ p[cs[1]] <= p[d]
        BY <1>7, <2>1, <4>2, <4>6
      <4>8. k = 2 \/ 2 < k
        BY <1>5, <4>5
      <4>9. p[cs[2]] >= p[d]
        BY <1>4, <4>3, <4>5, <4>7, <4>8
      <4>10. p[cs[1]] >= p[cs[2]]
        BY <1>4, <2>1, <4>5
      <4>11. p[cs[1]] = p[cs[2]]
        BY <4>7, <4>9, <4>10
      <4> QED
        BY <2>6, <4>5, <4>11 DEF Tied
    <3>2. TopsOf(ds, t, n) = {cs[1]}
      BY <2>3, <3>1
    <3>3. Cardinality({cs[1]}) = 1
      BY FS_Singleton
    <3>4. Best(ds, t, n) = cs[1]
      <4>1. PICK T : T = TopsOf(ds, t, n)
        OBVIOUS
      <4>2. (CHOOSE d \in T : TRUE) = cs[1]
        BY <3>2, <4>1
      <4>3. ~(Cardinality(T) > 1)
        BY <3>2, <3>3, <4>1
      <4> QED
        BY <1>1, <1>8, <1>10, <4>1, <4>2, <4>3, BestIs
    <3>5. FromCandidates(cs, p) = cs[1]
      BY <1>10, <2>6 DEF FromCandidates
    <3>6. cs[1] # Ambiguous
      BY <2>4
    <3> QED
      BY <1>1, <1>2, <1>8, <1>10, <2>3, <2>6, <3>4, <3>5, <3>6
  <2> QED
    BY <2>5, <2>6
<1> QED
  BY <1>9, <1>10

\* The entry and the pending buffer of a type and a name.
LEMMA EntryOf ==
    ASSUME NEW L \in Nat, NEW x \in Index(L), NEW t \in Types, NEW n \in Names
    PROVE  /\ x.entries[t][n] \in Entry(L) /\ x.entries[t][n].candidates \in Seq(1..L)
           /\ x.pending[t][n] \in Seq(1..L) /\ x.entries[t][n].ambiguous \in BOOLEAN
<1>1. x.entries \in [Types -> [Names -> Entry(L)]] /\ x.pending \in [Types -> [Names -> Seq(1..L)]]
  BY IndexParts
<1>2. x.entries[t][n] \in Entry(L) /\ x.pending[t][n] \in Seq(1..L)
  BY <1>1
<1>3. PICK e : e = x.entries[t][n]
  OBVIOUS
<1>4. e.candidates \in Seq(1..L) /\ e.ambiguous \in BOOLEAN
  BY <1>2, <1>3, EntryParts
<1> QED
  BY <1>2, <1>3, <1>4

\* A write to one field of an entry leaves the two others.
LEMMA FieldSet ==
    ASSUME NEW L, NEW e \in Entry(L), NEW v
    PROVE  /\ [e EXCEPT !.candidates = v].candidates = v /\ [e EXCEPT !.candidates = v].head = e.head
           /\ [e EXCEPT !.candidates = v].ambiguous = e.ambiguous
           /\ [e EXCEPT !.head = v].candidates = e.candidates /\ [e EXCEPT !.head = v].head = v
           /\ [e EXCEPT !.head = v].ambiguous = e.ambiguous
           /\ [e EXCEPT !.ambiguous = v].candidates = e.candidates /\ [e EXCEPT !.ambiguous = v].head = e.head
           /\ [e EXCEPT !.ambiguous = v].ambiguous = v
BY DEF Entry

\* What flushing writes: the buffers go to the end of the candidates, and the single
\* unnamed candidates are cleared.
LEMMA FlushDoes ==
    ASSUME NEW L \in Nat, NEW x \in Index(L), NEW y, y = Flush(x)
    PROVE  /\ y.finalized = x.finalized /\ \A t \in Types : y.single[t] = NoDesc
           /\ \A t \in Types, n \in Names :
                /\ y.pending[t][n] = <<>>
                /\ y.entries[t][n].candidates = x.entries[t][n].candidates \o x.pending[t][n]
                /\ y.entries[t][n].head = x.entries[t][n].head
                /\ y.entries[t][n].ambiguous = x.entries[t][n].ambiguous
<1>0. x = [pending |-> x.pending, finalized |-> x.finalized, entries |-> x.entries, single |-> x.single]
  BY IndexParts
<1>1. PICK p : p = [t \in Types |-> [n \in Names |-> <<>>]]
  OBVIOUS
<1>2. PICK e : e = [t \in Types |-> [n \in Names |->
                    [x.entries[t][n] EXCEPT !.candidates = x.entries[t][n].candidates \o x.pending[t][n]]]]
  OBVIOUS
<1>3. PICK s : s = [t \in Types |-> NoDesc]
  OBVIOUS
<1>4. PICK z : z = [x EXCEPT !.pending = p, !.entries = e, !.single = s]
  OBVIOUS
<1>5. z.pending = p /\ z.entries = e /\ z.single = s /\ z.finalized = x.finalized
  BY <1>0, <1>4
<1>6. Flush(x) = [x EXCEPT !.pending = [t \in Types |-> [n \in Names |-> <<>>]],
                           !.entries = [t \in Types |-> [n \in Names |->
                                [x.entries[t][n] EXCEPT !.candidates = x.entries[t][n].candidates \o x.pending[t][n]]]],
                           !.single = [t \in Types |-> NoDesc]]
  BY DEF Flush
<1>7. y = z
  BY <1>1, <1>2, <1>3, <1>4, <1>6, Zenon
<1>8. ASSUME NEW t \in Types, NEW n \in Names
      PROVE  /\ y.pending[t][n] = <<>>
             /\ y.entries[t][n].candidates = x.entries[t][n].candidates \o x.pending[t][n]
             /\ y.entries[t][n].head = x.entries[t][n].head
             /\ y.entries[t][n].ambiguous = x.entries[t][n].ambiguous
  <2>1. PICK c : c = x.entries[t][n]
    OBVIOUS
  <2>2. PICK v : v = c.candidates \o x.pending[t][n]
    OBVIOUS
  <2>3. c \in Entry(L)
    BY <2>1, EntryOf
  <2>4. y.entries[t][n] = [c EXCEPT !.candidates = v]
    <3>1. e[t][n] = [x.entries[t][n] EXCEPT !.candidates = x.entries[t][n].candidates \o x.pending[t][n]]
      BY <1>2, Zenon
    <3>2. e[t][n] = [c EXCEPT !.candidates = v]
      BY <2>1, <2>2, <3>1, Zenon
    <3> QED
      BY <1>5, <1>7, <3>2
  <2>5. y.pending[t][n] = <<>>
    BY <1>1, <1>5, <1>7
  <2>6. y.entries[t][n].candidates = v /\ y.entries[t][n].head = c.head /\ y.entries[t][n].ambiguous = c.ambiguous
    BY <2>3, <2>4, FieldSet
  <2> QED
    BY <2>1, <2>2, <2>5, <2>6, Zenon
<1>9. y.finalized = x.finalized /\ \A t \in Types : y.single[t] = NoDesc
  BY <1>3, <1>5, <1>7
<1> QED
  BY <1>8, <1>9, Zenon

\* The parts that flushing does not write.
LEMMA FlushKeeps ==
    ASSUME NEW L \in Nat, NEW x \in Index(L), NEW y, y = Flush(x)
    PROVE  /\ y.finalized = x.finalized /\ \A t \in Types : y.single[t] = NoDesc
           /\ \A t \in Types, n \in Names : /\ y.entries[t][n].head = x.entries[t][n].head
                                            /\ y.entries[t][n].ambiguous = x.entries[t][n].ambiguous
<1>1. y.finalized = x.finalized /\ \A t \in Types : y.single[t] = NoDesc
  BY FlushDoes, Zenon
<1>2. ASSUME NEW t \in Types, NEW n \in Names PROVE y.entries[t][n].head = x.entries[t][n].head
  BY FlushDoes, Zenon
<1>3. ASSUME NEW t \in Types, NEW n \in Names PROVE y.entries[t][n].ambiguous = x.entries[t][n].ambiguous
  BY FlushDoes, Zenon
<1> QED
  BY <1>1, <1>2, <1>3

\* The buffers are empty then.
LEMMA FlushPending ==
    ASSUME NEW L \in Nat, NEW x \in Index(L), NEW y, y = Flush(x), NEW t \in Types, NEW n \in Names
    PROVE  y.pending[t][n] = <<>>
<1>0. x = [pending |-> x.pending, finalized |-> x.finalized, entries |-> x.entries, single |-> x.single]
  BY IndexParts
<1>1. PICK p : p = [u \in Types |-> [m \in Names |-> <<>>]]
  OBVIOUS
<1>2. PICK e : y = [x EXCEPT !.pending = p, !.entries = e, !.single = [u \in Types |-> NoDesc]]
  BY <1>1 DEF Flush
<1>3. y.pending = p
  BY <1>0, <1>2
<1> QED
  BY <1>1, <1>3

\* The elements of a sequence.
Elems(s) == {s[k] : k \in 1..Len(s)}

\* What sorting the entries writes: the candidates alone.
LEMMA OrderDoes ==
    ASSUME NEW L \in Nat, NEW x \in Index(L), NEW prio, NEW y, y = Order(x, prio)
    PROVE  /\ y.finalized = x.finalized /\ y.single = x.single /\ y.pending = x.pending
           /\ \A t \in Types, n \in Names :
                /\ y.entries[t][n].candidates = ByPriority(Elems(x.entries[t][n].candidates), prio)
                /\ y.entries[t][n].head = x.entries[t][n].head
                /\ y.entries[t][n].ambiguous = x.entries[t][n].ambiguous
<1>0. x = [pending |-> x.pending, finalized |-> x.finalized, entries |-> x.entries, single |-> x.single]
  BY IndexParts
<1>2. PICK e : e = [t \in Types |-> [n \in Names |->
        [x.entries[t][n] EXCEPT !.candidates =
            ByPriority({x.entries[t][n].candidates[k] : k \in 1..Len(x.entries[t][n].candidates)}, prio)]]]
  OBVIOUS
<1>4. PICK z : z = [x EXCEPT !.entries = e]
  OBVIOUS
<1>5. z.pending = x.pending /\ z.entries = e /\ z.single = x.single /\ z.finalized = x.finalized
  BY <1>0, <1>4
<1>6. Order(x, prio) = [x EXCEPT !.entries = [t \in Types |-> [n \in Names |->
        [x.entries[t][n] EXCEPT !.candidates =
            ByPriority({x.entries[t][n].candidates[k] : k \in 1..Len(x.entries[t][n].candidates)}, prio)]]]]
  BY DEF Order
<1>7. y = z
  BY <1>2, <1>4, <1>6, Zenon
<1>8. ASSUME NEW t \in Types, NEW n \in Names
      PROVE  /\ y.entries[t][n].candidates = ByPriority(Elems(x.entries[t][n].candidates), prio)
             /\ y.entries[t][n].head = x.entries[t][n].head
             /\ y.entries[t][n].ambiguous = x.entries[t][n].ambiguous
  <2>1. PICK c : c = x.entries[t][n]
    OBVIOUS
  <2>2. PICK S : S = {c.candidates[k] : k \in 1..Len(c.candidates)}
    OBVIOUS
  <2>3. c \in Entry(L)
    BY <2>1, EntryOf
  <2>4. PICK v : v = ByPriority(S, prio)
    OBVIOUS
  <2>5. y.entries[t][n] = [c EXCEPT !.candidates = v]
    <3>1. e[t][n] = [c EXCEPT !.candidates = ByPriority({c.candidates[k] : k \in 1..Len(c.candidates)}, prio)]
      BY <1>2, <2>1
    <3> QED
      BY <1>5, <1>7, <2>2, <2>4, <3>1
  <2>6. S = Elems(x.entries[t][n].candidates)
    BY <2>1, <2>2 DEF Elems
  <2>7. y.entries[t][n].candidates = v /\ y.entries[t][n].head = c.head /\ y.entries[t][n].ambiguous = c.ambiguous
    BY <2>3, <2>5, FieldSet
  <2> QED
    BY <2>1, <2>4, <2>6, <2>7
<1> QED
  BY <1>5, <1>7, <1>8

\* What finding the single unnamed candidates writes: those alone.
LEMMA SinglesDo ==
    ASSUME NEW L \in Nat, NEW x \in Index(L), NEW y, y = FindSingles(x)
    PROVE  /\ y.finalized = x.finalized /\ y.entries = x.entries /\ y.pending = x.pending
           /\ \A t \in Types :
                y.single[t] = IF Len(x.entries[t][Unnamed].candidates) = 1 THEN x.entries[t][Unnamed].candidates[1] ELSE NoDesc
<1>0. x = [pending |-> x.pending, finalized |-> x.finalized, entries |-> x.entries, single |-> x.single]
  BY IndexParts
<1>1. PICK s : s = [t \in Types |-> IF Len(x.entries[t][Unnamed].candidates) = 1
                                    THEN x.entries[t][Unnamed].candidates[1] ELSE NoDesc]
  OBVIOUS
<1>2. y = [x EXCEPT !.single = s]
  BY <1>1 DEF FindSingles
<1>3. y.pending = x.pending /\ y.entries = x.entries /\ y.single = s /\ y.finalized = x.finalized
  BY <1>0, <1>2
<1> QED
  BY <1>1, <1>3

\* updateSingleUnnamed writes that of one type.
LEMMA UpdateDoes ==
    ASSUME NEW L \in Nat, NEW x \in Index(L), NEW u \in Types, NEW y, y = UpdateSingleUnnamed(x, u)
    PROVE  /\ y.finalized = x.finalized /\ y.entries = x.entries /\ y.pending = x.pending
           /\ \A t \in Types :
                y.single[t] = IF t # u THEN x.single[t]
                              ELSE IF Len(x.entries[t][Unnamed].candidates) = 1 THEN x.entries[t][Unnamed].candidates[1] ELSE NoDesc
<1>0. /\ x = [pending |-> x.pending, finalized |-> x.finalized, entries |-> x.entries, single |-> x.single]
      /\ x.single \in [Types -> 1..L \union {NoDesc}]
  BY IndexParts
<1>1. PICK s : s = [x.single EXCEPT ![u] = IF Len(x.entries[u][Unnamed].candidates) = 1
                                    THEN x.entries[u][Unnamed].candidates[1] ELSE NoDesc]
  OBVIOUS
<1>2. y = [x EXCEPT !.single = s]
  BY <1>1 DEF UpdateSingleUnnamed
<1>3. y.pending = x.pending /\ y.entries = x.entries /\ y.single = s /\ y.finalized = x.finalized
  BY <1>0, <1>2
<1> QED
  BY <1>0, <1>1, <1>3

\* What finding the heads writes: the first of each entry's candidates.
LEMMA HeadsDo ==
    ASSUME NEW L \in Nat, NEW x \in Index(L), NEW y, y = FindHeads(x)
    PROVE  /\ y.finalized = x.finalized /\ y.single = x.single /\ y.pending = x.pending
           /\ \A t \in Types, n \in Names :
                /\ y.entries[t][n].candidates = x.entries[t][n].candidates
                /\ y.entries[t][n].head = IF x.entries[t][n].candidates = <<>> THEN NoDesc ELSE x.entries[t][n].candidates[1]
                /\ y.entries[t][n].ambiguous = x.entries[t][n].ambiguous
<1>0. x = [pending |-> x.pending, finalized |-> x.finalized, entries |-> x.entries, single |-> x.single]
  BY IndexParts
<1>2. PICK e : e = [t \in Types |-> [n \in Names |->
        [x.entries[t][n] EXCEPT !.head = IF x.entries[t][n].candidates = <<>> THEN NoDesc
                                         ELSE x.entries[t][n].candidates[1]]]]
  OBVIOUS
<1>7. y = [x EXCEPT !.entries = e]
  BY <1>2 DEF FindHeads
<1>5. y.pending = x.pending /\ y.entries = e /\ y.single = x.single /\ y.finalized = x.finalized
  BY <1>0, <1>7
<1>8. ASSUME NEW t \in Types, NEW n \in Names
      PROVE  /\ y.entries[t][n].candidates = x.entries[t][n].candidates
             /\ y.entries[t][n].head = IF x.entries[t][n].candidates = <<>> THEN NoDesc ELSE x.entries[t][n].candidates[1]
             /\ y.entries[t][n].ambiguous = x.entries[t][n].ambiguous
  <2>1. PICK c : c = x.entries[t][n]
    OBVIOUS
  <2>2. PICK v : v = IF c.candidates = <<>> THEN NoDesc ELSE c.candidates[1]
    OBVIOUS
  <2>3. c \in Entry(L)
    BY <2>1, EntryOf
  <2>4. y.entries[t][n] = [c EXCEPT !.head = v]
    BY <1>2, <1>5, <2>1, <2>2
  <2> QED
    BY <2>1, <2>2, <2>3, <2>4, FieldSet
<1> QED
  BY <1>5, <1>8

\* What finding the ties writes: the flags, and that the index is finalized.
LEMMA TiesDo ==
    ASSUME NEW L \in Nat, NEW x \in Index(L), NEW prio, NEW y, y = FindTies(x, prio)
    PROVE  /\ y.finalized /\ y.single = x.single /\ y.pending = x.pending
           /\ \A t \in Types, n \in Names :
                /\ y.entries[t][n].candidates = x.entries[t][n].candidates
                /\ y.entries[t][n].head = x.entries[t][n].head
                /\ y.entries[t][n].ambiguous = Tied(x.entries[t][n].candidates, prio)
<1>0. x = [pending |-> x.pending, finalized |-> x.finalized, entries |-> x.entries, single |-> x.single]
  BY IndexParts
<1>2. PICK e : e = [t \in Types |-> [n \in Names |->
        [x.entries[t][n] EXCEPT !.ambiguous = Tied(x.entries[t][n].candidates, prio)]]]
  OBVIOUS
<1>7. y = [x EXCEPT !.entries = e, !.finalized = TRUE]
  BY <1>2 DEF FindTies
<1>5. y.pending = x.pending /\ y.entries = e /\ y.single = x.single /\ y.finalized = TRUE
  BY <1>0, <1>7
<1>8. ASSUME NEW t \in Types, NEW n \in Names
      PROVE  /\ y.entries[t][n].candidates = x.entries[t][n].candidates
             /\ y.entries[t][n].head = x.entries[t][n].head
             /\ y.entries[t][n].ambiguous = Tied(x.entries[t][n].candidates, prio)
  <2>1. PICK c : c = x.entries[t][n]
    OBVIOUS
  <2>2. PICK v : v = Tied(c.candidates, prio)
    OBVIOUS
  <2>3. c \in Entry(L)
    BY <2>1, EntryOf
  <2>4. y.entries[t][n] = [c EXCEPT !.ambiguous = v]
    BY <1>2, <1>5, <2>1, <2>2
  <2> QED
    BY <2>1, <2>2, <2>3, <2>4, FieldSet
<1> QED
  BY <1>5, <1>8

\* What insertCandidate writes: the end of one entry, or of one pending buffer.
LEMMA InsertDoes ==
    ASSUME NEW L \in Nat, NEW x \in Index(L), NEW u \in Types, NEW m \in Names, NEW d,
           NEW y, y = InsertCandidate(x, u, m, d)
    PROVE  /\ y.finalized = x.finalized /\ y.single = x.single
           /\ \A t \in Types, n \in Names :
                /\ y.entries[t][n].candidates = IF x.finalized /\ t = u /\ n = m THEN Append(x.entries[t][n].candidates, d)
                                                ELSE x.entries[t][n].candidates
                /\ y.pending[t][n] = IF ~x.finalized /\ t = u /\ n = m THEN Append(x.pending[t][n], d)
                                     ELSE x.pending[t][n]
                /\ y.entries[t][n].head = x.entries[t][n].head
                /\ y.entries[t][n].ambiguous = x.entries[t][n].ambiguous
<1>0. /\ x = [pending |-> x.pending, finalized |-> x.finalized, entries |-> x.entries, single |-> x.single]
      /\ x.entries \in [Types -> [Names -> Entry(L)]] /\ x.pending \in [Types -> [Names -> Seq(1..L)]]
  BY IndexParts
<1>1. CASE x.finalized
  <2>1. PICK c : c = x.entries[u][m]
    OBVIOUS
  <2>2. c \in Entry(L)
    BY <2>1, EntryOf
  <2>3. PICK v : v = Append(c.candidates, d)
    OBVIOUS
  <2>4. PICK f : f = [c EXCEPT !.candidates = v]
    OBVIOUS
  <2>5. PICK es : es = [x.entries EXCEPT ![u][m] = f]
    OBVIOUS
  <2>6. y = [x EXCEPT !.entries = es]
    BY <1>1, <2>1, <2>3, <2>4, <2>5 DEF InsertCandidate
  <2>7. y.pending = x.pending /\ y.entries = es /\ y.single = x.single /\ y.finalized = x.finalized
    BY <1>0, <2>6
  <2>8. f.candidates = v /\ f.head = c.head /\ f.ambiguous = c.ambiguous
    BY <2>2, <2>4, FieldSet
  <2>9. \A t \in Types, n \in Names : es[t][n] = IF t = u /\ n = m THEN f ELSE x.entries[t][n]
    BY <1>0, <2>5
  <2> QED
    BY <1>1, <2>1, <2>3, <2>7, <2>8, <2>9
<1>2. CASE ~x.finalized
  <2>1. PICK v : v = Append(x.pending[u][m], d)
    OBVIOUS
  <2>2. PICK ps : ps = [x.pending EXCEPT ![u][m] = v]
    OBVIOUS
  <2>3. y = [x EXCEPT !.pending = ps]
    BY <1>2, <2>1, <2>2 DEF InsertCandidate
  <2>4. y.pending = ps /\ y.entries = x.entries /\ y.single = x.single /\ y.finalized = x.finalized
    BY <1>0, <2>3
  <2>5. \A t \in Types, n \in Names : ps[t][n] = IF t = u /\ n = m THEN v ELSE x.pending[t][n]
    BY <1>0, <2>2
  <2> QED
    BY <1>2, <2>1, <2>4, <2>5
<1> QED
  BY <1>1, <1>2

\* The candidates of each entry are all there are, sorted.
CandsOf(x, ds) ==
    \A t \in Types, n \in Names : Sorts(x.entries[t][n].candidates, OwnOf(ds, t, n), PrioOf(ds))

\* A head is of highest priority; only the context's own entry may have none.
HeadOK(h, ds, t, n) ==
    IF h = NoDesc THEN OwnOf(ds, t, n) = {} \/ (t = CtxType /\ n = Unnamed) ELSE h \in TopsOf(ds, t, n)

\* All heads, all flags of a tie, all single unnamed candidates; and the four parts
\* of an index that answers for the descriptors ds.
HeadsOf(x, ds) == \A t \in Types, n \in Names : HeadOK(x.entries[t][n].head, ds, t, n)
FlagsOf(x, ds) == \A t \in Types, n \in Names : x.entries[t][n].ambiguous <=> Best(ds, t, n) = Ambiguous
SinglesOf(x, ds) == \A t \in Types : x.single[t] # NoDesc => x.single[t] = Best(ds, t, Unnamed)
Right(x, ds) == CandsOf(x, ds) /\ HeadsOf(x, ds) /\ FlagsOf(x, ds) /\ SinglesOf(x, ds)

\* An index that holds every descriptor somewhere, in an entry or in a buffer; and one
\* whose buffers are empty.
Gathered(x, ds) ==
    \A t \in Types, n \in Names : \A d :
        Holds(x.entries[t][n].candidates, d) \/ Holds(x.pending[t][n], d) <=> d \in OwnOf(ds, t, n)
Flushed(x) == x.finalized /\ \A t \in Types, n \in Names : x.pending[t][n] = <<>>

\* The descriptors of a registry have priorities.
LEMMA DescsRanked ==
    ASSUME NEW ds, DescsOK(ds)
    PROVE  Ranked(ds)
BY DescsIn DEF Ranked

\* The best one, found on the candidates of an entry.
LEMMA CandsBest ==
    ASSUME NEW ds, Ranked(ds), NEW x, CandsOf(x, ds), NEW t \in Types, NEW n \in Names,
           NEW cs, cs = x.entries[t][n].candidates
    PROVE  /\ FromCandidates(cs, PrioOf(ds)) = Best(ds, t, n)
           /\ Tied(cs, PrioOf(ds)) <=> Best(ds, t, n) = Ambiguous
           /\ cs = <<>> <=> OwnOf(ds, t, n) = {}
           /\ cs # <<>> => cs[1] \in TopsOf(ds, t, n)
           /\ Len(cs) = 1 => cs[1] = Best(ds, t, n)
<1>1. Sorts(cs, OwnOf(ds, t, n), PrioOf(ds))
  BY DEF CandsOf
<1>2. Ambiguous \notin Nat /\ NoDesc \notin Nat /\ NoDesc # Ambiguous
  BY LifecycleConstants
<1> QED
  BY <1>1, <1>2, SortedBest

\* An index that is right answers every lookup with the best one, by each of the
\* three shortcuts and by the candidates themselves.
LEMMA LookupRight ==
    ASSUME NEW ds, Ranked(ds), NEW x, Right(x, ds), NEW t \in Types, NEW n \in Names
    PROVE  /\ Lookup(x, PrioOf(ds), t, n) = Best(ds, t, n)
           /\ FromCandidates(x.entries[t][n].candidates, PrioOf(ds)) = Best(ds, t, n)
<1>1. CandsOf(x, ds) /\ HeadsOf(x, ds) /\ FlagsOf(x, ds) /\ SinglesOf(x, ds)
  BY DEF Right
<1>2. PICK e : e = x.entries[t][n]
  OBVIOUS
<1>3. FromCandidates(e.candidates, PrioOf(ds)) = Best(ds, t, n)
  BY <1>1, <1>2, CandsBest
<1>4. FromEntry(e, PrioOf(ds)) = Best(ds, t, n)
  <2>1. CASE e.head = NoDesc
    BY <1>3, <2>1 DEF FromEntry
  <2>2. CASE e.head # NoDesc
    <3>1. e.head \in TopsOf(ds, t, n)
      BY <1>1, <1>2, <2>2 DEF HeadsOf, HeadOK
    <3>2. e.ambiguous <=> Best(ds, t, n) = Ambiguous
      BY <1>1, <1>2 DEF FlagsOf
    <3>3. Best(ds, t, n) # Ambiguous => Best(ds, t, n) = e.head
      BY <3>1, TopIsBest
    <3> QED
      BY <2>2, <3>2, <3>3 DEF FromEntry
  <2> QED
    BY <2>1, <2>2
<1>5. n = Unnamed /\ x.single[t] # NoDesc => x.single[t] = Best(ds, t, n)
  BY <1>1 DEF SinglesOf
<1> QED
  BY <1>2, <1>3, <1>4, <1>5 DEF Lookup

\* Sorting entries that hold all there is makes their candidates right.
LEMMA OrderRight ==
    ASSUME NEW ds, Ranked(ds), NEW x \in Index(Len(ds)),
           \A t \in Types, n \in Names : \A d : Holds(x.entries[t][n].candidates, d) <=> d \in OwnOf(ds, t, n),
           NEW y, y = Order(x, PrioOf(ds))
    PROVE  CandsOf(y, ds)
<1>1. Len(ds) \in Nat /\ \A d \in 1..Len(ds) : ds[d].prio \in Int
  BY DEF Ranked
<1>2. ASSUME NEW t \in Types, NEW n \in Names
      PROVE  Sorts(y.entries[t][n].candidates, OwnOf(ds, t, n), PrioOf(ds))
  <2>1. PICK S : S = Elems(x.entries[t][n].candidates)
    OBVIOUS
  <2>0. y.entries[t][n].candidates = ByPriority(S, PrioOf(ds))
    BY <1>1, <2>1, OrderDoes
  <2>2. S = OwnOf(ds, t, n)
    <3>1. \A d : d \in S <=> d \in OwnOf(ds, t, n)
      BY <2>1 DEF Elems, Holds
    <3> QED
      BY <3>1
  <2>3. S \subseteq 1..Len(ds) /\ IsFiniteSet(1..Len(ds))
    BY <1>1, <2>2, FS_Interval DEF OwnOf
  <2>4. S \in SUBSET Nat /\ IsFiniteSet(S)
    <3>1. 1..Len(ds) \subseteq Nat
      BY <1>1
    <3>2. IsFiniteSet(S)
      BY <2>3, FS_Subset
    <3> QED
      BY <2>3, <3>1, <3>2
  <2>5. PICK p : p = PrioOf(ds)
    OBVIOUS
  <2>6. \A c \in S : p[c] \in Int
    BY <1>1, <2>3, <2>5 DEF PrioOf
  <2>7. Sorts(ByPriority(S, p), S, p)
    BY <2>4, <2>6, PrioritySorts
  <2> QED
    BY <2>0, <2>2, <2>5, <2>7
<1> QED
  BY <1>2 DEF CandsOf

\* Of sorted candidates, the single unnamed ones are right,
LEMMA SinglesRight ==
    ASSUME NEW ds, Ranked(ds), NEW x \in Index(Len(ds)), CandsOf(x, ds)
    PROVE  /\ SinglesOf(FindSingles(x), ds)
           /\ SinglesOf(x, ds) => \A u \in Types : SinglesOf(UpdateSingleUnnamed(x, u), ds)
<1>0. Len(ds) \in Nat /\ Unnamed \in Names
  BY LifecycleConstants DEF Ranked
<1>1. \A t \in Types : LET cs == x.entries[t][Unnamed].candidates
                       IN  Len(cs) = 1 => cs[1] = Best(ds, t, Unnamed)
  BY <1>0, CandsBest
<1>2. SinglesOf(FindSingles(x), ds)
  <2>1. PICK y : y = FindSingles(x)
    OBVIOUS
  <2>2. \A t \in Types :
            y.single[t] = IF Len(x.entries[t][Unnamed].candidates) = 1 THEN x.entries[t][Unnamed].candidates[1] ELSE NoDesc
    BY <1>0, <2>1, SinglesDo
  <2> QED
    BY <1>1, <2>1, <2>2 DEF SinglesOf
<1>3. ASSUME SinglesOf(x, ds), NEW u \in Types PROVE SinglesOf(UpdateSingleUnnamed(x, u), ds)
  <2>1. PICK y : y = UpdateSingleUnnamed(x, u)
    OBVIOUS
  <2>2. \A t \in Types :
            y.single[t] = IF t # u THEN x.single[t]
                          ELSE IF Len(x.entries[t][Unnamed].candidates) = 1 THEN x.entries[t][Unnamed].candidates[1] ELSE NoDesc
    BY <1>0, <2>1, UpdateDoes
  <2> QED
    BY <1>1, <1>3, <2>1, <2>2 DEF SinglesOf
<1> QED
  BY <1>2, <1>3

\* the heads are right,
LEMMA HeadsRight ==
    ASSUME NEW ds, Ranked(ds), NEW x \in Index(Len(ds)), CandsOf(x, ds)
    PROVE  HeadsOf(FindHeads(x), ds)
<1>0. Len(ds) \in Nat
  BY DEF Ranked
<1>1. PICK y : y = FindHeads(x)
  OBVIOUS
<1>2. ASSUME NEW t \in Types, NEW n \in Names PROVE HeadOK(y.entries[t][n].head, ds, t, n)
  <2>1. PICK cs : cs = x.entries[t][n].candidates
    OBVIOUS
  <2>2. y.entries[t][n].head = IF cs = <<>> THEN NoDesc ELSE cs[1]
    BY <1>0, <1>1, <2>1, HeadsDo
  <2>3. (cs = <<>> <=> OwnOf(ds, t, n) = {}) /\ (cs # <<>> => cs[1] \in TopsOf(ds, t, n))
    BY <2>1, CandsBest
  <2>4. \A d \in TopsOf(ds, t, n) : d # NoDesc
    BY <1>0, LifecycleConstants DEF TopsOf, OwnOf
  <2>5. PICK c : c = cs[1]
    OBVIOUS
  <2> QED
    BY <2>2, <2>3, <2>4, <2>5 DEF HeadOK
<1> QED
  BY <1>1, <1>2 DEF HeadsOf

\* and the flags of a tie are right.
LEMMA TiesRight ==
    ASSUME NEW ds, Ranked(ds), NEW x \in Index(Len(ds)), CandsOf(x, ds)
    PROVE  FlagsOf(FindTies(x, PrioOf(ds)), ds)
<1>0. Len(ds) \in Nat
  BY DEF Ranked
<1>1. PICK y : y = FindTies(x, PrioOf(ds))
  OBVIOUS
<1>2. ASSUME NEW t \in Types, NEW n \in Names PROVE y.entries[t][n].ambiguous <=> Best(ds, t, n) = Ambiguous
  <2>1. PICK cs : cs = x.entries[t][n].candidates
    OBVIOUS
  <2>2. y.entries[t][n].ambiguous = Tied(cs, PrioOf(ds))
    BY <1>0, <1>1, <2>1, TiesDo
  <2>3. Tied(cs, PrioOf(ds)) <=> Best(ds, t, n) = Ambiguous
    BY <2>1, CandsBest
  <2> QED
    BY <2>2, <2>3
<1> QED
  BY <1>1, <1>2 DEF FlagsOf

\* sortAllCandidates makes an index that was told everything one that is right.
LEMMA SortRight ==
    ASSUME NEW ds, Ranked(ds), NEW x \in Index(Len(ds)), Gathered(x, ds)
    PROVE  Right(SortAllCandidates(x, PrioOf(ds)), ds) /\ Flushed(SortAllCandidates(x, PrioOf(ds)))
<1>0. Len(ds) \in Nat /\ PrioOf(ds) \in [1..Len(ds) -> Int] /\ Unnamed \in Names
  BY LifecycleConstants DEF Ranked, PrioOf
<1>p. PICK p : p = PrioOf(ds)
  OBVIOUS
<1>1. PICK a : a = Flush(x)
  OBVIOUS
<1>2. a \in Index(Len(ds))
  BY <1>0, <1>1, FlushTyped
<1>3. PICK b : b = Order(a, p)
  OBVIOUS
<1>4. b \in Index(Len(ds))
  BY <1>0, <1>p, <1>2, <1>3, OrderTyped
<1>5. PICK c : c = FindSingles(b)
  OBVIOUS
<1>6. c \in Index(Len(ds))
  BY <1>0, <1>4, <1>5, SinglesTyped
<1>7. PICK e : e = FindHeads(c)
  OBVIOUS
<1>8. e \in Index(Len(ds))
  BY <1>0, <1>6, <1>7, HeadsTyped
<1>9. PICK f : f = FindTies(e, p)
  OBVIOUS
<1>10. SortAllCandidates(x, p) = f
  BY <1>1, <1>3, <1>5, <1>7, <1>9 DEF SortAllCandidates
<1>11. \A t \in Types, n \in Names : \A d : Holds(a.entries[t][n].candidates, d) <=> d \in OwnOf(ds, t, n)
  <2>1. ASSUME NEW t \in Types, NEW n \in Names, NEW d
        PROVE  Holds(a.entries[t][n].candidates, d) <=> d \in OwnOf(ds, t, n)
    <3>1. PICK q : q = x.entries[t][n].candidates
      OBVIOUS
    <3>2. PICK r : r = x.pending[t][n]
      OBVIOUS
    <3>3. q \in Seq(1..Len(ds)) /\ r \in Seq(1..Len(ds))
      BY <1>0, <3>1, <3>2, EntryOf
    <3>4. a.entries[t][n].candidates = q \o r
      BY <1>0, <1>1, <3>1, <3>2, FlushDoes, Zenon
    <3>5. Holds(q \o r, d) <=> (Holds(q, d) \/ Holds(r, d))
      BY <3>3, JoinedSeqs
    <3>6. Holds(q, d) \/ Holds(r, d) <=> d \in OwnOf(ds, t, n)
      BY <3>1, <3>2 DEF Gathered
    <3> QED
      BY <3>4, <3>5, <3>6
  <2> QED
    BY <2>1
<1>12. CandsOf(b, ds)
  BY <1>p, <1>2, <1>3, <1>11, OrderRight
<1>13. c.entries = b.entries /\ c.pending = b.pending /\ b.pending = a.pending
  BY <1>0, <1>2, <1>3, <1>4, <1>5, SinglesDo, OrderDoes
<1>14. CandsOf(c, ds) /\ SinglesOf(c, ds)
  BY <1>4, <1>5, <1>12, <1>13, SinglesRight DEF CandsOf
<1>15. /\ e.single = c.single /\ e.pending = c.pending
       /\ \A t \in Types, n \in Names : e.entries[t][n].candidates = c.entries[t][n].candidates
  BY <1>0, <1>6, <1>7, HeadsDo
<1>16. CandsOf(e, ds) /\ SinglesOf(e, ds) /\ HeadsOf(e, ds)
  BY <1>6, <1>7, <1>14, <1>15, HeadsRight DEF CandsOf, SinglesOf
<1>17. /\ f.single = e.single /\ f.pending = e.pending /\ f.finalized
       /\ \A t \in Types, n \in Names : /\ f.entries[t][n].candidates = e.entries[t][n].candidates
                                        /\ f.entries[t][n].head = e.entries[t][n].head
  BY <1>0, <1>8, <1>9, TiesDo
<1>18. CandsOf(f, ds) /\ SinglesOf(f, ds) /\ HeadsOf(f, ds) /\ FlagsOf(f, ds)
  BY <1>p, <1>8, <1>9, <1>16, <1>17, TiesRight DEF CandsOf, SinglesOf, HeadsOf
<1>19. \A t \in Types, n \in Names : a.pending[t][n] = <<>>
  <2>1. ASSUME NEW t \in Types, NEW n \in Names PROVE a.pending[t][n] = <<>>
    BY <1>0, <1>1, FlushPending
  <2> QED
    BY <2>1
<1>20. Flushed(f)
  BY <1>13, <1>15, <1>17, <1>19 DEF Flushed
<1> QED
  BY <1>p, <1>10, <1>18, <1>20 DEF Right

\* The entry of a type and a name is that of the descriptor e.
Mine(e, t, n) == e.type = t /\ e.name = n

\* One more descriptor joins those of its type and name.
LEMMA OwnAdd ==
    ASSUME NEW ds, NEW e, NEW es, Goes(ds, e, es), Len(ds) \in Nat, NEW t, NEW n
    PROVE  OwnOf(es, t, n) = OwnOf(ds, t, n) \union (IF Mine(e, t, n) THEN {Len(es)} ELSE {})
<1>1. Len(es) = Len(ds) + 1 /\ es[Len(es)] = e /\ \A d \in 1..Len(ds) : es[d] = ds[d]
  BY DEF Goes
<1>2. ASSUME NEW d PROVE d \in 1..Len(es) <=> (d \in 1..Len(ds) \/ d = Len(es))
  BY <1>1
<1>3. ASSUME NEW d PROVE d \in OwnOf(es, t, n) <=> d \in OwnOf(ds, t, n) \/ (d = Len(es) /\ Mine(e, t, n))
  BY <1>1, <1>2 DEF OwnOf, Mine
<1> QED
  BY <1>3

\* An index that was told everything, told of one more.
LEMMA GatherAdd ==
    ASSUME NEW ds, NEW e, NEW es, Goes(ds, e, es), Len(ds) \in Nat, NEW x \in Index(Len(ds)), Gathered(x, ds),
           e.type \in Types, e.name \in Names, NEW y, y = InsertCandidate(x, e.type, e.name, Len(ds) + 1)
    PROVE  Gathered(y, es)
<1>0. PICK D : D = Len(ds) + 1
  OBVIOUS
<1>1. Len(es) = D
  BY <1>0 DEF Goes
<1>2. ASSUME NEW t \in Types, NEW n \in Names, NEW d
      PROVE  Holds(y.entries[t][n].candidates, d) \/ Holds(y.pending[t][n], d) <=> d \in OwnOf(es, t, n)
  <2>1. PICK q : q = x.entries[t][n].candidates
    OBVIOUS
  <2>2. PICK r : r = x.pending[t][n]
    OBVIOUS
  <2>3. q \in Seq(1..Len(ds)) /\ r \in Seq(1..Len(ds))
    BY <2>1, <2>2, EntryOf
  <2>4. (Holds(Append(q, D), d) <=> Holds(q, d) \/ d = D) /\ (Holds(Append(r, D), d) <=> Holds(r, d) \/ d = D)
    BY <2>3, HoldsAppend
  <2>5. PICK u : u = e.type
    OBVIOUS
  <2>6. PICK m : m = e.name
    OBVIOUS
  <2>7. /\ y.entries[t][n].candidates = IF x.finalized /\ t = u /\ n = m THEN Append(q, D) ELSE q
        /\ y.pending[t][n] = IF ~x.finalized /\ t = u /\ n = m THEN Append(r, D) ELSE r
    <3>1. y = InsertCandidate(x, u, m, D) /\ u \in Types /\ m \in Names
      BY <1>0, <2>5, <2>6
    <3> QED
      BY <2>1, <2>2, <3>1, InsertDoes
  <2>8. Holds(q, d) \/ Holds(r, d) <=> d \in OwnOf(ds, t, n)
    BY <2>1, <2>2 DEF Gathered
  <2>9. d \in OwnOf(es, t, n) <=> d \in OwnOf(ds, t, n) \/ (d = D /\ Mine(e, t, n))
    BY <1>1, OwnAdd
  <2>10. Mine(e, t, n) <=> t = u /\ n = m
    BY <2>5, <2>6 DEF Mine
  <2> QED
    BY <2>4, <2>7, <2>8, <2>9, <2>10
<1> QED
  BY <1>2 DEF Gathered

\* A sort by priority stays one when there are more descriptors.
LEMMA SortsGrow ==
    ASSUME NEW ds, NEW e, NEW es, Goes(ds, e, es), Len(ds) \in Nat, NEW S \in SUBSET (1..Len(ds)), NEW cs,
           Sorts(cs, S, PrioOf(ds))
    PROVE  /\ Sorts(cs, S, PrioOf(es))
           /\ FromCandidates(cs, PrioOf(es)) = FromCandidates(cs, PrioOf(ds))
<1>1. PICK p, r : p = PrioOf(ds) /\ r = PrioOf(es)
  OBVIOUS
<1>2. \A d \in 1..Len(ds) : r[d] = p[d]
  <2>1. 1..Len(ds) \subseteq 1..Len(es) /\ \A d \in 1..Len(ds) : es[d] = ds[d]
    BY DEF Goes
  <2> QED
    BY <1>1, <2>1 DEF PrioOf
<1>3. /\ cs \in Seq(S) /\ Once(cs) /\ \A c : Holds(cs, c) <=> c \in S
  BY DEF Sorts
<1>4. \A j, k \in 1..Len(cs) : j < k => p[cs[j]] >= p[cs[k]]
  BY <1>1 DEF Sorts
<1>5. Len(cs) \in Nat /\ \A k \in 1..Len(cs) : cs[k] \in 1..Len(ds)
  <2>1. Len(cs) \in Nat /\ \A k \in 1..Len(cs) : cs[k] \in S
    BY <1>3
  <2> QED
    BY <2>1
<1>6. \A k \in 1..Len(cs) : r[cs[k]] = p[cs[k]]
  BY <1>2, <1>5
<1>7. \A j, k \in 1..Len(cs) : j < k => r[cs[j]] >= r[cs[k]]
  BY <1>4, <1>6
<1>8. Tied(cs, r) <=> Tied(cs, p)
  <2>1. CASE Len(cs) >= 2
    <3>1. 1 \in 1..Len(cs) /\ 2 \in 1..Len(cs)
      BY <1>5, <2>1
    <3>2. r[cs[1]] = p[cs[1]] /\ r[cs[2]] = p[cs[2]]
      BY <1>6, <3>1
    <3> QED
      BY <2>1, <3>2 DEF Tied
  <2>2. CASE ~(Len(cs) >= 2)
    BY <2>2 DEF Tied
  <2> QED
    BY <2>1, <2>2
<1>9. Sorts(cs, S, r)
  BY <1>3, <1>7 DEF Sorts
<1>10. FromCandidates(cs, r) = FromCandidates(cs, p)
  BY <1>8 DEF FromCandidates
<1> QED
  BY <1>1, <1>9, <1>10

\* The best one of any other type or name is what it was.
LEMMA BestKept ==
    ASSUME NEW ds, NEW e, NEW es, Goes(ds, e, es), Len(ds) \in Nat, NEW t, NEW n, ~Mine(e, t, n)
    PROVE  OwnOf(es, t, n) = OwnOf(ds, t, n) /\ TopsOf(es, t, n) = TopsOf(ds, t, n) /\ Best(es, t, n) = Best(ds, t, n)
<1>1. OwnOf(es, t, n) = OwnOf(ds, t, n)
  BY OwnAdd
<1>2. PICK S : S = OwnOf(ds, t, n)
  OBVIOUS
<1>3. \A d \in S : es[d] = ds[d]
  BY <1>2 DEF OwnOf, Goes
<1>4. TopsOf(es, t, n) = TopsOf(ds, t, n)
  BY <1>1, <1>2, <1>3 DEF TopsOf
<1>5. Best(es, t, n) = Best(ds, t, n)
  <2>1. PICK T : T = TopsOf(ds, t, n)
    OBVIOUS
  <2>2. Best(ds, t, n) = IF S = {} THEN NoDesc ELSE IF Cardinality(T) > 1 THEN Ambiguous ELSE CHOOSE d \in T : TRUE
    BY <1>2, <2>1, BestIs
  <2>3. Best(es, t, n) = IF S = {} THEN NoDesc ELSE IF Cardinality(T) > 1 THEN Ambiguous ELSE CHOOSE d \in T : TRUE
    BY <1>1, <1>2, <1>4, <2>1, BestIs
  <2> QED
    BY <2>2, <2>3
<1> QED
  BY <1>1, <1>4, <1>5

\* start() inserts the context's own descriptor after the sort and updates only the
\* single unnamed candidate.  The entry has no rival in it, so no head and no flag that
\* was computed before is wrong: the index is still right.
LEMMA RightContext ==
    ASSUME NEW ds, NEW e, NEW es, Goes(ds, e, es), Ranked(ds), Ranked(es), NEW x \in Index(Len(ds)), Right(x, ds), Flushed(x),
           Rival(e), \A d \in 1..Len(ds) : ~Rival(ds[d]),
           NEW y \in Index(Len(es)), y = InsertCandidate(x, e.type, e.name, Len(ds) + 1),
           NEW z, z = UpdateSingleUnnamed(y, CtxType)
    PROVE  Right(z, es) /\ Flushed(z)
<1>0. /\ Len(ds) \in Nat /\ Len(es) = Len(ds) + 1 /\ Len(es) \in Nat
      /\ CtxType \in Types /\ Unnamed \in Names /\ e.type = CtxType /\ e.name = Unnamed
      /\ Ambiguous \notin Nat /\ NoDesc \notin Nat /\ NoDesc # Ambiguous
  BY LifecycleConstants DEF Ranked, Goes, Rival
<1>1. PICK D : D = Len(es)
  OBVIOUS
<1>2. /\ y.finalized = x.finalized /\ y.single = x.single
      /\ \A t \in Types, n \in Names :
            /\ y.entries[t][n].candidates = IF x.finalized /\ t = CtxType /\ n = Unnamed
                                            THEN Append(x.entries[t][n].candidates, D) ELSE x.entries[t][n].candidates
            /\ y.pending[t][n] = IF ~x.finalized /\ t = CtxType /\ n = Unnamed THEN Append(x.pending[t][n], D)
                                 ELSE x.pending[t][n]
            /\ y.entries[t][n].head = x.entries[t][n].head
            /\ y.entries[t][n].ambiguous = x.entries[t][n].ambiguous
  <2>1. y = InsertCandidate(x, CtxType, Unnamed, D)
    BY <1>0, <1>1
  <2> QED
    BY <1>0, <2>1, InsertDoes
<1>3. /\ z.finalized = y.finalized /\ z.entries = y.entries /\ z.pending = y.pending
      /\ \A t \in Types :
            z.single[t] = IF t # CtxType THEN y.single[t]
                          ELSE IF Len(y.entries[t][Unnamed].candidates) = 1 THEN y.entries[t][Unnamed].candidates[1] ELSE NoDesc
  BY <1>0, UpdateDoes
<1>4. x.finalized /\ \A t \in Types, n \in Names : x.pending[t][n] = <<>>
  BY DEF Flushed
<1>5. Flushed(z)
  <2>1. z.finalized
    BY <1>2, <1>3, <1>4
  <2>2. \A t \in Types, n \in Names : z.pending[t][n] = <<>>
    <3>1. \A t \in Types, n \in Names : y.pending[t][n] = x.pending[t][n]
      BY <1>2, <1>4
    <3> QED
      BY <1>3, <1>4, <3>1
  <2> QED
    BY <2>1, <2>2 DEF Flushed
<1>6. CandsOf(x, ds) /\ HeadsOf(x, ds) /\ FlagsOf(x, ds) /\ SinglesOf(x, ds)
  BY DEF Right
<1>7. OwnOf(ds, CtxType, Unnamed) = {} /\ OwnOf(es, CtxType, Unnamed) = {D}
  <2>1. OwnOf(ds, CtxType, Unnamed) = {}
    BY DEF OwnOf, Rival
  <2>2. Mine(e, CtxType, Unnamed)
    BY <1>0 DEF Mine
  <2> QED
    BY <1>0, <1>1, <2>1, <2>2, OwnAdd
<1>8. x.entries[CtxType][Unnamed].candidates = <<>> /\ Best(ds, CtxType, Unnamed) = NoDesc
  BY <1>0, <1>6, <1>7, CandsBest, BestIs
<1>9. z.entries[CtxType][Unnamed].candidates = <<D>>
  <2>1. PICK q : q = x.entries[CtxType][Unnamed].candidates
    OBVIOUS
  <2>2. z.entries[CtxType][Unnamed].candidates = Append(q, D)
    <3>1. y.entries[CtxType][Unnamed].candidates = IF x.finalized THEN Append(q, D) ELSE q
      BY <1>0, <1>2, <2>1
    <3> QED
      BY <1>3, <1>4, <3>1
  <2>3. Append(<<>>, D) = <<D>>
    OBVIOUS
  <2> QED
    BY <1>8, <2>1, <2>2, <2>3
<1>10. Sorts(<<D>>, OwnOf(es, CtxType, Unnamed), PrioOf(es))
  <2>1. PICK cs, S : cs = <<D>> /\ S = {D}
    OBVIOUS
  <2>2. cs \in Seq(S) /\ Len(cs) = 1 /\ cs[1] = D
    BY <2>1
  <2>3. Once(cs) /\ (\A c : Holds(cs, c) <=> c \in S) /\ \A j, k \in 1..Len(cs) : ~(j < k)
    BY <2>1, <2>2 DEF Once, Holds
  <2> QED
    BY <1>7, <2>1, <2>2, <2>3 DEF Sorts
<1>11. Best(es, CtxType, Unnamed) = D
  <2>1. PICK cs : cs = <<D>>
    OBVIOUS
  <2>2. Len(cs) = 1 /\ cs[1] = D
    BY <2>1
  <2>3. Sorts(cs, OwnOf(es, CtxType, Unnamed), PrioOf(es))
    BY <1>10, <2>1
  <2>4. Len(cs) = 1 => cs[1] = Best(es, CtxType, Unnamed)
    BY <1>0, <2>3, SortedBest
  <2> QED
    BY <2>2, <2>4
<1>12. ASSUME NEW t \in Types, NEW n \in Names
       PROVE  /\ Sorts(z.entries[t][n].candidates, OwnOf(es, t, n), PrioOf(es))
              /\ HeadOK(z.entries[t][n].head, es, t, n)
              /\ z.entries[t][n].ambiguous <=> Best(es, t, n) = Ambiguous
              /\ n = Unnamed /\ z.single[t] # NoDesc => z.single[t] = Best(es, t, Unnamed)
  <2>0. /\ z.entries[t][n].head = x.entries[t][n].head
        /\ z.entries[t][n].ambiguous = x.entries[t][n].ambiguous
        /\ HeadOK(x.entries[t][n].head, ds, t, n)
        /\ x.entries[t][n].ambiguous <=> Best(ds, t, n) = Ambiguous
        /\ Sorts(x.entries[t][n].candidates, OwnOf(ds, t, n), PrioOf(ds))
    BY <1>2, <1>3, <1>6 DEF HeadsOf, FlagsOf, CandsOf
  <2>1. CASE t = CtxType /\ n = Unnamed
    <3>1. z.entries[t][n].ambiguous <=> Best(es, t, n) = Ambiguous
      BY <1>0, <1>1, <1>8, <1>11, <2>0, <2>1
    <3>2. x.entries[t][n].head = NoDesc
      BY <1>7, <2>0, <2>1 DEF HeadOK, TopsOf
    <3>3. HeadOK(z.entries[t][n].head, es, t, n)
      BY <2>0, <2>1, <3>2 DEF HeadOK
    <3>4. z.single[t] = D
      <4>1. PICK cs : cs = <<D>>
        OBVIOUS
      <4>2. Len(cs) = 1 /\ cs[1] = D
        BY <4>1
      <4>3. y.entries[t][Unnamed].candidates = cs
        BY <1>3, <1>9, <2>1, <4>1
      <4> QED
        BY <1>3, <2>1, <4>2, <4>3
    <3> QED
      BY <1>9, <1>10, <1>11, <2>1, <3>1, <3>3, <3>4
  <2>2. CASE ~(t = CtxType /\ n = Unnamed)
    <3>1. ~Mine(e, t, n)
      BY <1>0, <2>2 DEF Mine
    <3>2. OwnOf(es, t, n) = OwnOf(ds, t, n) /\ TopsOf(es, t, n) = TopsOf(ds, t, n) /\ Best(es, t, n) = Best(ds, t, n)
      BY <1>0, <3>1, BestKept
    <3>3. z.entries[t][n].candidates = x.entries[t][n].candidates
      BY <1>2, <1>3, <2>2
    <3>4. OwnOf(ds, t, n) \in SUBSET (1..Len(ds))
      BY DEF OwnOf
    <3>5. Sorts(z.entries[t][n].candidates, OwnOf(es, t, n), PrioOf(es))
      <4>1. PICK cs, S : cs = x.entries[t][n].candidates /\ S = OwnOf(ds, t, n)
        OBVIOUS
      <4>2. Sorts(cs, S, PrioOf(es))
        BY <1>0, <2>0, <3>4, <4>1, SortsGrow
      <4> QED
        BY <3>2, <3>3, <4>1, <4>2
    <3>6. HeadOK(z.entries[t][n].head, es, t, n)
      BY <2>0, <3>2 DEF HeadOK
    <3>7. n = Unnamed => z.single[t] = x.single[t]
      BY <1>2, <1>3, <2>2
    <3>8. n = Unnamed /\ z.single[t] # NoDesc => z.single[t] = Best(es, t, Unnamed)
      BY <1>6, <3>2, <3>7 DEF SinglesOf
    <3> QED
      BY <2>0, <3>2, <3>5, <3>6, <3>8
  <2> QED
    BY <2>1, <2>2
<1>13. CandsOf(z, es) /\ HeadsOf(z, es) /\ FlagsOf(z, es)
  BY <1>12 DEF CandsOf, HeadsOf, FlagsOf
<1>14. SinglesOf(z, es)
  BY <1>0, <1>12 DEF SinglesOf
<1> QED
  BY <1>5, <1>13, <1>14 DEF Right

\* The descriptors without the last one.
Old(ds) == SubSeq(ds, 1, Len(ds) - 1)

\* Sorted candidates, with the new descriptor at the end of its entry.
MixedOf(x, os, ds) ==
    \A t \in Types, n \in Names : \E cs :
        /\ Sorts(cs, OwnOf(os, t, n), PrioOf(os))
        /\ x.entries[t][n].candidates = IF Mine(ds[Len(ds)], t, n) THEN Append(cs, Len(ds)) ELSE cs

\* The stages of bindSingleton, and whether each of the four parts of the index answers
\* for the descriptors before it (os) or for those with the new one (ds).
Sited(at, x, os, ds) ==
    /\ at = "insert" => CandsOf(x, os)
    /\ at \in {"flush", "order"} => MixedOf(x, os, ds)
    /\ at \in {"singles", "heads", "ties", "listeners"} => CandsOf(x, ds)
    /\ at \in {"insert", "flush"} => SinglesOf(x, os)
    /\ at \in {"order", "singles"} => \A t \in Types : x.single[t] = NoDesc
    /\ at \in {"heads", "ties", "listeners"} => SinglesOf(x, ds)
    /\ at \in {"insert", "flush", "order", "singles", "heads"} => HeadsOf(x, os)
    /\ at \in {"ties", "listeners"} => HeadsOf(x, ds)
    /\ at \in {"insert", "flush", "order", "singles", "heads", "ties"} => FlagsOf(x, os)
    /\ at = "listeners" => FlagsOf(x, ds)

\* What a bindSingleton that is rebuilding the index works on.
Binds(os, ds, x) ==
    /\ Ranked(os) /\ Ranked(ds) /\ Goes(os, ds[Len(ds)], ds) /\ x \in Index(Len(ds)) /\ Flushed(x)
    /\ ds[Len(ds)].type \in Types /\ ds[Len(ds)].name \in Names

\* The parts of that.
LEMMA BindParts ==
    ASSUME NEW os, NEW ds, NEW x, Binds(os, ds, x)
    PROVE  /\ Ranked(os) /\ Ranked(ds) /\ Goes(os, ds[Len(ds)], ds) /\ x \in Index(Len(ds)) /\ x.finalized
           /\ (\A t \in Types, n \in Names : x.pending[t][n] = <<>>)
           /\ Len(os) \in Nat /\ Len(ds) \in Nat /\ Len(ds) = Len(os) + 1
           /\ ds[Len(ds)].type \in Types /\ ds[Len(ds)].name \in Names /\ Unnamed \in Names
BY LifecycleConstants DEF Binds, Ranked, Goes, Flushed

\* From stage to stage: insertCandidate appends the new descriptor to its entry,
LEMMA StageInsert ==
    ASSUME NEW os, NEW ds, NEW x, Binds(os, ds, x), Sited("insert", x, os, ds),
           NEW y, y = InsertCandidate(x, ds[Len(ds)].type, ds[Len(ds)].name, Len(ds))
    PROVE  Sited("flush", y, os, ds) /\ Flushed(y)
<1>0. /\ x \in Index(Len(ds)) /\ x.finalized /\ (\A t \in Types, n \in Names : x.pending[t][n] = <<>>)
      /\ Len(ds) \in Nat /\ ds[Len(ds)].type \in Types /\ ds[Len(ds)].name \in Names
  BY BindParts
<1>1. CandsOf(x, os) /\ SinglesOf(x, os) /\ HeadsOf(x, os) /\ FlagsOf(x, os)
  BY DEF Sited
<1>2. PICK e, D : e = ds[Len(ds)] /\ D = Len(ds)
  OBVIOUS
<1>3. /\ y.finalized = x.finalized /\ y.single = x.single
      /\ \A t \in Types, n \in Names :
            /\ y.entries[t][n].candidates = IF x.finalized /\ t = e.type /\ n = e.name THEN Append(x.entries[t][n].candidates, D)
                                            ELSE x.entries[t][n].candidates
            /\ y.pending[t][n] = IF ~x.finalized /\ t = e.type /\ n = e.name THEN Append(x.pending[t][n], D)
                                 ELSE x.pending[t][n]
            /\ y.entries[t][n].head = x.entries[t][n].head
            /\ y.entries[t][n].ambiguous = x.entries[t][n].ambiguous
  <2>1. y = InsertCandidate(x, e.type, e.name, D) /\ e.type \in Types /\ e.name \in Names
    BY <1>0, <1>2
  <2>2. PICK u, m, L : u = e.type /\ m = e.name /\ L = Len(ds)
    OBVIOUS
  <2>3. y = InsertCandidate(x, u, m, D) /\ u \in Types /\ m \in Names /\ L \in Nat /\ x \in Index(L)
    BY <1>0, <2>1, <2>2
  <2> QED
    BY <2>2, <2>3, InsertDoes
<1>4. Flushed(y)
  BY <1>0, <1>3 DEF Flushed
<1>5. SinglesOf(y, os) /\ HeadsOf(y, os) /\ FlagsOf(y, os)
  BY <1>1, <1>3 DEF SinglesOf, HeadsOf, FlagsOf
<1>6. MixedOf(y, os, ds)
  <2>1. ASSUME NEW t \in Types, NEW n \in Names
        PROVE  \E cs : /\ Sorts(cs, OwnOf(os, t, n), PrioOf(os))
                       /\ y.entries[t][n].candidates = IF Mine(e, t, n) THEN Append(cs, D) ELSE cs
    <3>1. PICK cs : cs = x.entries[t][n].candidates
      OBVIOUS
    <3>2. Sorts(cs, OwnOf(os, t, n), PrioOf(os))
      BY <1>1, <3>1 DEF CandsOf
    <3>3. y.entries[t][n].candidates = IF Mine(e, t, n) THEN Append(cs, D) ELSE cs
      BY <1>0, <1>3, <3>1 DEF Mine
    <3> QED
      BY <3>2, <3>3
  <2> QED
    BY <1>2, <2>1 DEF MixedOf
<1> QED
  BY <1>4, <1>5, <1>6 DEF Sited

\* flushing clears the single unnamed candidates,
LEMMA StageFlush ==
    ASSUME NEW os, NEW ds, NEW x, Binds(os, ds, x), Sited("flush", x, os, ds), NEW y, y = Flush(x)
    PROVE  Sited("order", y, os, ds) /\ Flushed(y)
<1>0. /\ x \in Index(Len(ds)) /\ x.finalized /\ (\A t \in Types, n \in Names : x.pending[t][n] = <<>>)
      /\ Len(ds) \in Nat
  BY BindParts
<1>1. MixedOf(x, os, ds) /\ HeadsOf(x, os) /\ FlagsOf(x, os)
  BY DEF Sited
<1>2. /\ y.finalized = x.finalized /\ \A t \in Types : y.single[t] = NoDesc
      /\ \A t \in Types, n \in Names :
            /\ y.pending[t][n] = <<>>
            /\ y.entries[t][n].head = x.entries[t][n].head
            /\ y.entries[t][n].ambiguous = x.entries[t][n].ambiguous
  <2>1. PICK L : L = Len(ds)
    OBVIOUS
  <2>2. L \in Nat /\ x \in Index(L)
    BY <1>0, <2>1
  <2> QED
    BY <2>2, FlushKeeps, FlushPending
<1>3. ASSUME NEW t \in Types, NEW n \in Names PROVE y.entries[t][n].candidates = x.entries[t][n].candidates
  <2>1. PICK q : q = x.entries[t][n].candidates
    OBVIOUS
  <2>2. q \in Seq(1..Len(ds))
    BY <1>0, <2>1, EntryOf
  <2>3. PICK r : r = x.pending[t][n]
    OBVIOUS
  <2>4. y.entries[t][n].candidates = q \o r
    <3>1. PICK L : L = Len(ds)
      OBVIOUS
    <3>2. L \in Nat
      BY <1>0, <3>1
    <3>3. x \in Index(L)
      BY <1>0, <3>1
    <3>4. y.entries[t][n].candidates = x.entries[t][n].candidates \o x.pending[t][n]
      BY <3>2, <3>3, FlushDoes, Zenon
    <3> QED
      BY <2>1, <2>3, <3>4, Zenon
  <2>5. r = <<>>
    BY <1>0, <2>3
  <2>6. q \o <<>> = q
    BY <2>2
  <2> QED
    BY <2>1, <2>4, <2>5, <2>6
<1>4. MixedOf(y, os, ds)
  BY <1>1, <1>3 DEF MixedOf
<1>5. HeadsOf(y, os) /\ FlagsOf(y, os) /\ \A t \in Types : y.single[t] = NoDesc
  BY <1>1, <1>2 DEF HeadsOf, FlagsOf
<1>6. Flushed(y)
  BY <1>0, <1>2 DEF Flushed
<1> QED
  BY <1>4, <1>5, <1>6 DEF Sited

\* sorting makes the candidates right,
LEMMA StageOrder ==
    ASSUME NEW os, NEW ds, NEW x, Binds(os, ds, x), Sited("order", x, os, ds), NEW y, y = Order(x, PrioOf(ds))
    PROVE  Sited("singles", y, os, ds) /\ Flushed(y)
<1>0. /\ x \in Index(Len(ds)) /\ x.finalized /\ (\A t \in Types, n \in Names : x.pending[t][n] = <<>>)
      /\ Len(ds) \in Nat /\ Len(os) \in Nat /\ Goes(os, ds[Len(ds)], ds) /\ Ranked(ds)
  BY BindParts
<1>1. MixedOf(x, os, ds) /\ HeadsOf(x, os) /\ FlagsOf(x, os) /\ \A t \in Types : x.single[t] = NoDesc
  BY DEF Sited
<1>2. ASSUME NEW t \in Types, NEW n \in Names, NEW d
      PROVE  Holds(x.entries[t][n].candidates, d) <=> d \in OwnOf(ds, t, n)
  <2>1. PICK e, D : e = ds[Len(ds)] /\ D = Len(ds)
    OBVIOUS
  <2>2. PICK cs : /\ Sorts(cs, OwnOf(os, t, n), PrioOf(os))
                  /\ x.entries[t][n].candidates = IF Mine(e, t, n) THEN Append(cs, D) ELSE cs
    BY <1>1, <2>1 DEF MixedOf
  <2>3. OwnOf(ds, t, n) = OwnOf(os, t, n) \union (IF Mine(e, t, n) THEN {D} ELSE {})
    BY <1>0, <2>1, OwnAdd
  <2>4. PICK S : S = OwnOf(os, t, n)
    OBVIOUS
  <2>5. cs \in Seq(S) /\ (Holds(cs, d) <=> d \in S)
    BY <2>2, <2>4 DEF Sorts
  <2>6. Holds(Append(cs, D), d) <=> (Holds(cs, d) \/ d = D)
    BY <2>5, HoldsAppend
  <2> QED
    BY <2>2, <2>3, <2>4, <2>5, <2>6
<1>3. CandsOf(y, ds)
  BY <1>0, <1>2, OrderRight
<1>4. /\ y.finalized = x.finalized /\ y.single = x.single /\ y.pending = x.pending
      /\ \A t \in Types, n \in Names : /\ y.entries[t][n].head = x.entries[t][n].head
                                       /\ y.entries[t][n].ambiguous = x.entries[t][n].ambiguous
  <2>1. PICK L, p : L = Len(ds) /\ p = PrioOf(ds)
    OBVIOUS
  <2>2. L \in Nat /\ x \in Index(L) /\ y = Order(x, p)
    BY <1>0, <2>1
  <2> QED
    BY <2>2, OrderDoes
<1>5. HeadsOf(y, os) /\ FlagsOf(y, os) /\ (\A t \in Types : y.single[t] = NoDesc) /\ Flushed(y)
  BY <1>0, <1>1, <1>4 DEF HeadsOf, FlagsOf, Flushed
<1> QED
  BY <1>3, <1>5 DEF Sited

\* then the single unnamed ones are found,
LEMMA StageSingles ==
    ASSUME NEW os, NEW ds, NEW x, Binds(os, ds, x), Sited("singles", x, os, ds), NEW y, y = FindSingles(x)
    PROVE  Sited("heads", y, os, ds) /\ Flushed(y)
<1>0. /\ x \in Index(Len(ds)) /\ x.finalized /\ (\A t \in Types, n \in Names : x.pending[t][n] = <<>>)
      /\ Len(ds) \in Nat /\ Ranked(ds)
  BY BindParts
<1>1. CandsOf(x, ds) /\ HeadsOf(x, os) /\ FlagsOf(x, os)
  BY DEF Sited
<1>2. y.finalized = x.finalized /\ y.entries = x.entries /\ y.pending = x.pending
  BY <1>0, SinglesDo
<1>3. SinglesOf(y, ds)
  BY <1>0, <1>1, SinglesRight
<1>4. CandsOf(y, ds) /\ HeadsOf(y, os) /\ FlagsOf(y, os) /\ Flushed(y)
  BY <1>0, <1>1, <1>2 DEF CandsOf, HeadsOf, FlagsOf, Flushed
<1> QED
  BY <1>3, <1>4 DEF Sited

\* then the heads,
LEMMA StageHeads ==
    ASSUME NEW os, NEW ds, NEW x, Binds(os, ds, x), Sited("heads", x, os, ds), NEW y, y = FindHeads(x)
    PROVE  Sited("ties", y, os, ds) /\ Flushed(y)
<1>0. /\ x \in Index(Len(ds)) /\ x.finalized /\ (\A t \in Types, n \in Names : x.pending[t][n] = <<>>)
      /\ Len(ds) \in Nat /\ Ranked(ds)
  BY BindParts
<1>1. CandsOf(x, ds) /\ SinglesOf(x, ds) /\ FlagsOf(x, os)
  BY DEF Sited
<1>2. /\ y.finalized = x.finalized /\ y.single = x.single /\ y.pending = x.pending
      /\ \A t \in Types, n \in Names : /\ y.entries[t][n].candidates = x.entries[t][n].candidates
                                       /\ y.entries[t][n].ambiguous = x.entries[t][n].ambiguous
  <2>1. PICK L : L = Len(ds)
    OBVIOUS
  <2>2. L \in Nat /\ x \in Index(L)
    BY <1>0, <2>1
  <2> QED
    BY <2>2, HeadsDo
<1>3. HeadsOf(y, ds)
  BY <1>0, <1>1, HeadsRight
<1>4. CandsOf(y, ds) /\ SinglesOf(y, ds) /\ FlagsOf(y, os) /\ Flushed(y)
  BY <1>0, <1>1, <1>2 DEF CandsOf, SinglesOf, FlagsOf, Flushed
<1> QED
  BY <1>3, <1>4 DEF Sited

\* and with the flags the index is right for all descriptors.
LEMMA StageTies ==
    ASSUME NEW os, NEW ds, NEW x, Binds(os, ds, x), Sited("ties", x, os, ds), NEW u \in Types,
           NEW y, y = UpdateSingleUnnamed(FindTies(x, PrioOf(ds)), u)
    PROVE  Sited("listeners", y, os, ds) /\ Flushed(y)
<1>0. /\ x \in Index(Len(ds)) /\ x.finalized /\ (\A t \in Types, n \in Names : x.pending[t][n] = <<>>)
      /\ Len(ds) \in Nat /\ Ranked(ds) /\ Unnamed \in Names
  BY BindParts
<1>1. CandsOf(x, ds) /\ SinglesOf(x, ds) /\ HeadsOf(x, ds)
  BY DEF Sited
<1>z. PICK z : z = FindTies(x, PrioOf(ds))
  OBVIOUS
<1>2. /\ z.finalized /\ z.single = x.single /\ z.pending = x.pending
      /\ \A t \in Types, n \in Names : /\ z.entries[t][n].candidates = x.entries[t][n].candidates
                                       /\ z.entries[t][n].head = x.entries[t][n].head
  BY <1>0, <1>z, TiesDo
<1>3. FlagsOf(z, ds) /\ z \in Index(Len(ds))
  BY <1>0, <1>1, <1>z, TiesRight, TiesTyped
<1>4. CandsOf(z, ds) /\ SinglesOf(z, ds) /\ HeadsOf(z, ds) /\ Flushed(z)
  BY <1>0, <1>1, <1>2 DEF CandsOf, SinglesOf, HeadsOf, Flushed
<1>5. y = UpdateSingleUnnamed(z, u)
  BY <1>z
<1>6. y.finalized = z.finalized /\ y.entries = z.entries /\ y.pending = z.pending
  BY <1>0, <1>3, <1>5, UpdateDoes
<1>7. SinglesOf(y, ds)
  BY <1>0, <1>3, <1>4, <1>5, SinglesRight
<1>8. CandsOf(y, ds) /\ HeadsOf(y, ds) /\ FlagsOf(y, ds) /\ Flushed(y)
  BY <1>3, <1>4, <1>6 DEF CandsOf, HeadsOf, FlagsOf, Flushed
<1> QED
  BY <1>7, <1>8 DEF Sited

\* A lookup of t and n reads the index at a stage of a bind; B holds the best one
\* before it and the best one after it.
Reading(os, ds, x, at, t, n, e, B) ==
    /\ Binds(os, ds, x) /\ Sited(at, x, os, ds) /\ ~Rival(ds[Len(ds)])
    /\ at \in {"insert", "flush", "order", "singles", "heads", "ties"}
    /\ t \in Types /\ n \in Names /\ e = x.entries[t][n] /\ B = {Best(ds, t, n), Best(os, t, n)}

\* Whatever it reads, at whatever stage, is the best one of one side or the other, or
\* there is a tie on one of them.
LEMMA ReadsSited ==
    ASSUME NEW os, NEW ds, NEW x, NEW at, NEW t, NEW n, NEW e, NEW B, Reading(os, ds, x, at, t, n, e, B)
    PROVE  /\ n = Unnamed /\ x.single[t] # NoDesc => x.single[t] \in B
           /\ e.head # NoDesc => e.head \in B \/ Ambiguous \in B
           /\ e.head = NoDesc => FromCandidates(e.candidates, PrioOf(ds)) \in B
           /\ e.ambiguous => Ambiguous \in B
<1> SUFFICES ASSUME Binds(os, ds, x), Sited(at, x, os, ds), ~Rival(ds[Len(ds)]),
                    at \in {"insert", "flush", "order", "singles", "heads", "ties"},
                    t \in Types, n \in Names, e = x.entries[t][n], B = {Best(ds, t, n), Best(os, t, n)}
             PROVE  /\ n = Unnamed /\ x.single[t] # NoDesc => x.single[t] \in B
                    /\ e.head # NoDesc => e.head \in B \/ Ambiguous \in B
                    /\ e.head = NoDesc => FromCandidates(e.candidates, PrioOf(ds)) \in B
                    /\ e.ambiguous => Ambiguous \in B
  BY DEF Reading
<1>0. /\ x \in Index(Len(ds)) /\ Len(ds) \in Nat /\ Len(os) \in Nat /\ Ranked(ds) /\ Ranked(os)
      /\ Goes(os, ds[Len(ds)], ds) /\ Len(ds) = Len(os) + 1
  BY BindParts
<1>c. Ambiguous \notin Nat /\ NoDesc \notin Nat /\ NoDesc # Ambiguous
  BY LifecycleConstants
<1>1. SinglesOf(x, os) \/ SinglesOf(x, ds) \/ \A u \in Types : x.single[u] = NoDesc
  BY DEF Sited
<1>2. n = Unnamed /\ x.single[t] # NoDesc => x.single[t] \in B
  BY <1>1 DEF SinglesOf
<1>3. HeadsOf(x, os) \/ HeadsOf(x, ds)
  BY DEF Sited
<1>4. e.head # NoDesc => e.head \in B \/ Ambiguous \in B
  <2>1. SUFFICES ASSUME e.head # NoDesc PROVE e.head \in B \/ Ambiguous \in B
    OBVIOUS
  <2>2. e.head \in TopsOf(os, t, n) \/ e.head \in TopsOf(ds, t, n)
    BY <1>3, <2>1 DEF HeadsOf, HeadOK
  <2>3. PICK h : h = e.head
    OBVIOUS
  <2>4. CASE h \in TopsOf(os, t, n)
    <3>1. Best(os, t, n) # Ambiguous => Best(os, t, n) = h
      BY <1>0, <2>4, TopIsBest
    <3> QED
      BY <2>3, <3>1
  <2>5. CASE h \in TopsOf(ds, t, n)
    <3>1. Best(ds, t, n) # Ambiguous => Best(ds, t, n) = h
      BY <1>0, <2>5, TopIsBest
    <3> QED
      BY <2>3, <3>1
  <2> QED
    BY <2>2, <2>3, <2>4, <2>5
<1>5. e.ambiguous => Ambiguous \in B
  BY DEF Sited, FlagsOf
<1>6. ASSUME e.head = NoDesc PROVE FromCandidates(e.candidates, PrioOf(ds)) \in B
  <2>0. OwnOf(os, t, n) \in SUBSET (1..Len(os))
    BY DEF OwnOf
  <2>1. ASSUME NEW cs, cs = e.candidates, Sorts(cs, OwnOf(os, t, n), PrioOf(os))
        PROVE  FromCandidates(cs, PrioOf(ds)) = Best(os, t, n)
    <3>1. FromCandidates(cs, PrioOf(os)) = Best(os, t, n)
      BY <1>0, <1>c, <2>1, SortedBest
    <3>2. PICK S : S = OwnOf(os, t, n)
      OBVIOUS
    <3>3. PICK f : f = ds[Len(ds)]
      OBVIOUS
    <3>4. Goes(os, f, ds) /\ Sorts(cs, S, PrioOf(os)) /\ S \in SUBSET (1..Len(os))
      BY <1>0, <2>0, <2>1, <3>2, <3>3
    <3>5. FromCandidates(cs, PrioOf(ds)) = FromCandidates(cs, PrioOf(os))
      BY <1>0, <3>4, SortsGrow
    <3> QED
      BY <3>1, <3>5
  <2>2. CASE at = "insert"
    <3>1. Sorts(e.candidates, OwnOf(os, t, n), PrioOf(os))
      BY <2>2 DEF Sited, CandsOf
    <3> QED
      BY <2>1, <3>1
  <2>3. CASE at \in {"flush", "order"}
    <3>1. MixedOf(x, os, ds) /\ HeadsOf(x, os)
      BY <2>3 DEF Sited
    <3>2. PICK f, D : f = ds[Len(ds)] /\ D = Len(ds)
      OBVIOUS
    <3>3. PICK cs : /\ Sorts(cs, OwnOf(os, t, n), PrioOf(os))
                    /\ e.candidates = IF Mine(f, t, n) THEN Append(cs, D) ELSE cs
      BY <3>1, <3>2 DEF MixedOf
    <3>4. CASE ~Mine(f, t, n)
      BY <2>1, <3>3, <3>4
    <3>5. CASE Mine(f, t, n)
      <4>1. ~(t = CtxType /\ n = Unnamed)
        BY <3>2, <3>5 DEF Mine, Rival
      <4>2. HeadOK(NoDesc, os, t, n)
        BY <1>6, <3>1 DEF HeadsOf
      <4>3. OwnOf(os, t, n) = {}
        BY <4>1, <4>2 DEF HeadOK
      <4>4. cs = <<>>
        BY <1>0, <1>c, <3>3, <4>3, SortedBest
      <4>5. PICK q : q = <<D>>
        OBVIOUS
      <4>6. e.candidates = q
        BY <3>3, <3>5, <4>4, <4>5
      <4>7. Len(q) = 1 /\ q[1] = D /\ q \in Seq({D}) /\ q # <<>>
        BY <4>5
      <4>8. OwnOf(ds, t, n) = {D}
        <5>1. OwnOf(ds, t, n) = OwnOf(os, t, n) \union (IF Mine(f, t, n) THEN {D} ELSE {})
          BY <1>0, <3>2, OwnAdd
        <5> QED
          BY <3>5, <4>3, <5>1
      <4>9. Once(q) /\ (\A c : Holds(q, c) <=> c \in {D}) /\ \A j, k \in 1..Len(q) : ~(j < k)
        BY <4>7 DEF Once, Holds
      <4>10. Sorts(q, OwnOf(ds, t, n), PrioOf(ds))
        BY <4>7, <4>8, <4>9 DEF Sorts
      <4>11. FromCandidates(q, PrioOf(ds)) = Best(ds, t, n)
        BY <1>0, <1>c, <4>10, SortedBest
      <4> QED
        BY <4>6, <4>11
    <3> QED
      BY <3>4, <3>5
  <2>4. CASE at \in {"singles", "heads", "ties"}
    <3>1. CandsOf(x, ds)
      BY <2>4 DEF Sited
    <3>2. FromCandidates(e.candidates, PrioOf(ds)) = Best(ds, t, n)
      BY <1>0, <3>1, CandsBest
    <3> QED
      BY <3>2
  <2> QED
    BY <2>2, <2>3, <2>4
<1> QED
  BY <1>2, <1>4, <1>5, <1>6

\* A merge whose index was told of every descriptor, none of them like the context's own.
Kept(m) == Gathered(m.ix, m.descs) /\ \A d \in 1..Len(m.descs) : ~Rival(m.descs[d])

\* A merge r that is m with one more descriptor, of the key k.
Extends(m, k, r) ==
    \/ r.descs = m.descs /\ r.ix = m.ix
    \/ \E e : Joins(m.descs, m.ix, e, r.descs, r.ix) /\ e.type = k.type /\ e.name = k.name

\* A contribution adds no descriptor (it is a duplicate, or rejected) or one.
LEMMA MergeOneExtends ==
    ASSUME NEW L, NEW B, NEW m, MergeOK(m, L, B), NEW c \in Contributed, NEW r, r = MergeOne(m, c)
    PROVE  Extends(m, c, r)
<1>0. /\ m = [ok |-> m.ok, descs |-> m.descs, interned |-> m.interned, ix |-> m.ix, ids |-> m.ids,
              links |-> m.links, stored |-> m.stored]
      /\ Len(m.descs) \in Nat
  BY MergeIn
<1>1. CASE ~m.ok
  BY <1>1 DEF MergeOne, Extends
<1>2. CASE m.ok /\ m.ids[c.id] # NoDesc
  <2>1. PICK k : r = [m EXCEPT !.ok = k]
    BY <1>2 DEF MergeOne
  <2> QED
    BY <1>0, <2>1 DEF Extends
<1>3. CASE m.ok /\ m.ids[c.id] = NoDesc
  <2>0. /\ c.type \in Types /\ c.name \in Names /\ c.prio \in Int /\ c.life \in Lifetimes /\ c.lazy \in BOOLEAN
    BY ContributedIn
  <2>1. PICK d \in Nat : d = Len(m.descs) + 1
    BY <1>0
  <2>2. PICK e : e = [type |-> c.type, name |-> c.name, prio |-> c.prio, life |-> c.life,
                      lazy |-> c.lazy, bound |-> FALSE, factory |-> NoDesc,
                      prim |-> IF c.alias = NoId THEN d ELSE NoDesc]
    OBVIOUS
  <2>3. e \in DescSet(Len(m.descs) + 1) /\ ~e.bound /\ e.type = c.type /\ e.name = c.name
    <3>1. d \in 1..d
      BY <1>0, <2>1
    <3>2. (IF c.alias = NoId THEN d ELSE NoDesc) \in 1..d \union {NoDesc}
      BY <3>1
    <3> QED
      BY <2>0, <2>1, <2>2, <3>2 DEF DescSet
  <2>4. PICK a : a = AddDesc(m, e, d)
    OBVIOUS
  <2>5. PICK es, y : es = Append(m.descs, e) /\ y = InsertCandidate(m.ix, e.type, e.name, d)
    OBVIOUS
  <2>6. a = [m EXCEPT !.descs = es, !.ix = y]
    BY <2>4, <2>5 DEF AddDesc
  <2>7. a = [ok |-> m.ok, descs |-> es, interned |-> m.interned, ix |-> y, ids |-> m.ids,
             links |-> m.links, stored |-> m.stored]
    BY <1>0, <2>6
  <2>8. PICK ts, is, ls : r = [a EXCEPT !.interned = ts, !.ids = is, !.links = ls]
    <3>1. r = [a EXCEPT !.interned = Intern(Intern(@, c.type), c.concrete), !.ids[c.id] = d,
                        !.links = Append(@, [desc |-> d, alias |-> c.alias, factory |-> c.factory])]
      BY <1>3, <2>1, <2>2, <2>4 DEF MergeOne
    <3>2. PICK ts, is, ls : /\ ts = Intern(Intern(m.interned, c.type), c.concrete) /\ is = [m.ids EXCEPT ![c.id] = d]
                            /\ ls = Append(m.links, [desc |-> d, alias |-> c.alias, factory |-> c.factory])
      OBVIOUS
    <3>3. r = [a EXCEPT !.interned = ts, !.ids = is, !.links = ls]
      BY <2>7, <3>1, <3>2
    <3> QED
      BY <3>3
  <2>9. r.descs = es /\ r.ix = y
    BY <2>7, <2>8
  <2>10. Joins(m.descs, m.ix, e, es, y)
    BY <2>1, <2>3, <2>5 DEF Joins
  <2> QED
    BY <2>3, <2>9, <2>10 DEF Extends
<1> QED
  BY <1>0, <1>1, <1>2, <1>3

\* So does a queued binding.
LEMMA AdoptOneExtends ==
    ASSUME NEW L, NEW B, NEW m, MergeOK(m, L, B), NEW b, b.key \in Key, NEW r, r = AdoptOne(m, b)
    PROVE  Extends(m, b.key, r)
<1>0. /\ m = [ok |-> m.ok, descs |-> m.descs, interned |-> m.interned, ix |-> m.ix, ids |-> m.ids,
              links |-> m.links, stored |-> m.stored]
      /\ Len(m.descs) \in Nat /\ m.ok \in BOOLEAN
  BY MergeIn
<1>1. CASE ~m.ok
  BY <1>1 DEF AdoptOne, Extends
<1>2. PICK k, ts : k = b.key /\ ts = Intern(m.interned, b.key.type)
  OBVIOUS
<1>3. PICK d \in Nat \ {0} : d = Len(m.descs) + 1
  BY <1>0
<1>4. PICK t : t = [m EXCEPT !.interned = Intern(@, b.key.type)]
  OBVIOUS
<1>5. t = [ok |-> m.ok, descs |-> m.descs, interned |-> ts, ix |-> m.ix, ids |-> m.ids,
           links |-> m.links, stored |-> m.stored]
  BY <1>0, <1>2, <1>4
<1>6. CASE m.ok /\ KeyExists(m.descs, k)
  <2>1. r = [t EXCEPT !.ok = FALSE]
    BY <1>2, <1>4, <1>6 DEF AdoptOne
  <2> QED
    BY <1>5, <2>1 DEF Extends
<1>7. CASE m.ok /\ ~KeyExists(m.descs, k)
  <2>0. /\ BoundDesc(k, d) \in DescSet(d) /\ BoundDesc(k, d).bound /\ BoundDesc(k, d).prim = d
        /\ BoundDesc(k, d).type = k.type /\ BoundDesc(k, d).name = k.name
    BY <1>2, BoundDescIn
  <2>1. PICK e : e = BoundDesc(k, d)
    OBVIOUS
  <2>2. PICK a : a = AddDesc(t, e, d)
    OBVIOUS
  <2>3. PICK U : r = [a EXCEPT !.stored = U]
    <3>1. r = [a EXCEPT !.stored = Append(@, [desc |-> d, inst |-> b.inst])]
      BY <1>2, <1>3, <1>4, <1>7, <2>1, <2>2 DEF AdoptOne
    <3> QED
      BY <3>1
  <2>4. PICK es, y : es = Append(m.descs, e) /\ y = InsertCandidate(m.ix, e.type, e.name, d)
    OBVIOUS
  <2>5. a = [t EXCEPT !.descs = es, !.ix = y]
    BY <1>5, <2>2, <2>4 DEF AddDesc
  <2>6. r.descs = es /\ r.ix = y
    BY <1>5, <2>3, <2>5
  <2>7. Joins(m.descs, m.ix, e, es, y)
    BY <1>3, <2>0, <2>1, <2>4 DEF Joins
  <2> QED
    BY <1>2, <2>0, <2>1, <2>6, <2>7 DEF Extends
<1> QED
  BY <1>0, <1>1, <1>6, <1>7

\* The index stays complete.
LEMMA ExtendsKept ==
    ASSUME NEW L, NEW B, NEW m, MergeOK(m, L, B), NEW k, ~Rival(k), NEW r, Extends(m, k, r), Kept(m)
    PROVE  Kept(r)
<1>0. TablesOK(m.descs, m.ix, m.interned) /\ Len(m.descs) \in Nat
  BY MergeIn
<1>1. Gathered(m.ix, m.descs) /\ \A d \in 1..Len(m.descs) : ~Rival(m.descs[d])
  BY DEF Kept
<1>2. CASE r.descs = m.descs /\ r.ix = m.ix
  BY <1>1, <1>2 DEF Kept
<1>3. CASE \E e : Joins(m.descs, m.ix, e, r.descs, r.ix) /\ e.type = k.type /\ e.name = k.name
  <2>1. PICK e : Joins(m.descs, m.ix, e, r.descs, r.ix) /\ e.type = k.type /\ e.name = k.name
    BY <1>3
  <2>2. PICK ds, x, es, y : ds = m.descs /\ x = m.ix /\ es = r.descs /\ y = r.ix
    OBVIOUS
  <2>3. Joins(ds, x, e, es, y) /\ TablesOK(ds, x, m.interned) /\ Len(ds) \in Nat /\ Gathered(x, ds)
    BY <1>0, <1>1, <2>1, <2>2
  <2>4. Goes(ds, e, es)
    BY <2>3, TablesAdd
  <2>5. x \in Index(Len(ds)) /\ e.type \in Types /\ e.name \in Names /\ y = InsertCandidate(x, e.type, e.name, Len(ds) + 1)
    BY <2>3 DEF TablesOK, Joins, DescSet
  <2>6. Gathered(y, es)
    BY <2>3, <2>4, <2>5, GatherAdd
  <2>7. ASSUME NEW d \in 1..Len(es) PROVE ~Rival(es[d])
    <3>1. Len(es) = Len(ds) + 1 /\ es[Len(es)] = e /\ \A c \in 1..Len(ds) : es[c] = ds[c]
      BY <2>4 DEF Goes
    <3>2. d = Len(es) \/ d \in 1..Len(ds)
      BY <2>3, <3>1
    <3>3. ~Rival(e)
      BY <2>1 DEF Rival
    <3> QED
      BY <1>1, <2>2, <3>1, <3>2, <3>3
  <2> QED
    BY <2>2, <2>6, <2>7 DEF Kept
<1> QED
  BY <1>2, <1>3 DEF Extends

\* It does so through all contributions, and all queued bindings.
LEMMA FoldKept ==
    ASSUME NEW L, NEW B, NEW m, NEW first, NEW cs, NEW f, Folds(f, first, m, cs, L, B), Kept(m),
           \A n \in 1..Len(cs) : ~Rival(IF first THEN cs[n] ELSE cs[n].key)
    PROVE  Kept(f[Len(cs)])
<1>1. /\ Len(cs) \in Nat /\ f[0] = m
      /\ \A n \in 0..Len(cs) : MergeOK(f[n], L, B)
      /\ \A n \in 1..Len(cs) : f[n] = Step(first, f[n - 1], cs[n])
  BY FoldsOK
<1>2. /\ first \in BOOLEAN /\ (first => cs \in Seq(Contributed)) /\ (~first => cs = B)
      /\ \A n \in 1..Len(B) : B[n].key \in Key
  BY DEF Folds
<1>3. ASSUME NEW n \in 1..Len(cs), Kept(f[n - 1]) PROVE Kept(f[n])
  <2>1. PICK h, r, c : h = f[n - 1] /\ r = f[n] /\ c = cs[n]
    OBVIOUS
  <2>2. n - 1 \in 0..Len(cs)
    BY <1>1
  <2>3. MergeOK(h, L, B) /\ Kept(h) /\ r = Step(first, h, c)
    BY <1>1, <1>3, <2>1, <2>2
  <2>4. CASE first
    <3>1. c \in Contributed /\ r = MergeOne(h, c) /\ ~Rival(c)
      BY <1>2, <2>1, <2>3, <2>4 DEF Step
    <3>2. Extends(h, c, r)
      BY <2>3, <3>1, MergeOneExtends
    <3> QED
      BY <2>1, <2>3, <3>1, <3>2, ExtendsKept
  <2>5. CASE ~first
    <3>1. c.key \in Key /\ r = AdoptOne(h, c) /\ ~Rival(c.key)
      BY <1>2, <2>1, <2>3, <2>5 DEF Step
    <3>2. PICK k : k = c.key
      OBVIOUS
    <3>3. Extends(h, k, r) /\ ~Rival(k)
      BY <2>3, <3>1, <3>2, AdoptOneExtends
    <3> QED
      BY <2>1, <2>3, <3>3, ExtendsKept
  <2> QED
    BY <1>2, <2>4, <2>5
<1> DEFINE T == {n \in 0..Len(cs) : ~Kept(f[n])}
<1>4. ASSUME T # {} PROVE FALSE
  <2>1. PICK l \in T : \A k \in T : l <= k
    <3>1. T \in SUBSET Nat
      BY <1>1
    <3> QED
      BY <1>4, <3>1, LeastElement
  <2>2. l \in 0..Len(cs) /\ ~Kept(f[l])
    OBVIOUS
  <2>3. l # 0
    BY <1>1, <2>2
  <2>4. l - 1 \in 0..Len(cs) /\ l \in 1..Len(cs) /\ l - 1 \notin T
    BY <1>1, <2>1, <2>2, <2>3
  <2>5. Kept(f[l - 1])
    BY <2>4
  <2> QED
    BY <1>3, <2>2, <2>4, <2>5
<1>5. Len(cs) \in 0..Len(cs) /\ Len(cs) \notin T
  BY <1>1, <1>4
<1> QED
  BY <1>5

\* Linking aliases and factories leaves types, names and the index.
LEMMA RelinkKept ==
    ASSUME NEW L, NEW B, NEW m, MergeOK(m, L, B), NEW k, NEW es, NEW r, Relinked(m, k, es, r), Kept(m)
    PROVE  Kept(r)
<1>0. /\ m = [ok |-> m.ok, descs |-> m.descs, interned |-> m.interned, ix |-> m.ix, ids |-> m.ids,
              links |-> m.links, stored |-> m.stored]
      /\ DescsOK(m.descs) /\ Len(m.descs) \in Nat
  BY MergeIn
<1>1. Relinks(m.descs, m.links, es) /\ r = [m EXCEPT !.ok = k, !.descs = es]
  BY DEF Relinked
<1>2. r.descs = es /\ r.ix = m.ix
  BY <1>0, <1>1
<1>3. PICK ds, M : ds = m.descs /\ M = Len(m.descs)
  OBVIOUS
<1>4. M \in Nat /\ M = Len(ds) /\ \A d \in 1..M : ds[d] \in DescSet(M)
  BY <1>0, <1>3, DescsIn
<1>5. ASSUME NEW d \in 1..M PROVE es[d].type = ds[d].type /\ es[d].name = ds[d].name
  <2>1. CASE es[d] = ds[d]
    BY <2>1
  <2>2. CASE es[d] # ds[d]
    <3>1. PICK v : es[d] = [ds[d] EXCEPT !.prim = v] \/ es[d] = [ds[d] EXCEPT !.factory = v]
      BY <1>1, <1>3, <2>2 DEF Relinks
    <3>2. PICK e : e = ds[d]
      OBVIOUS
    <3>3. e \in DescSet(M)
      BY <1>4, <3>2
    <3>4. \A w : /\ [e EXCEPT !.prim = w].type = e.type /\ [e EXCEPT !.prim = w].name = e.name
                 /\ [e EXCEPT !.factory = w].type = e.type /\ [e EXCEPT !.factory = w].name = e.name
      BY <3>3 DEF DescSet
    <3> QED
      BY <3>1, <3>2, <3>4
  <2> QED
    BY <2>1, <2>2
<1>6. Len(es) = M
  <2>1. es = [d \in 1..M |-> es[d]]
    BY <1>1, <1>3 DEF Relinks
  <2> QED
    BY <1>4, <2>1
<1>7. \A t, n : OwnOf(es, t, n) = OwnOf(ds, t, n)
  BY <1>4, <1>5, <1>6 DEF OwnOf
<1>8. Gathered(m.ix, ds) /\ \A d \in 1..M : ~Rival(ds[d])
  BY <1>3, <1>4 DEF Kept
<1>9. Gathered(m.ix, es)
  BY <1>7, <1>8 DEF Gathered
<1>10. \A d \in 1..M : ~Rival(es[d])
  BY <1>5, <1>8 DEF Rival
<1> QED
  BY <1>2, <1>6, <1>9, <1>10 DEF Kept

\* An index that is right is complete.
LEMMA RightGathered ==
    ASSUME NEW ds, NEW x, Right(x, ds), Flushed(x)
    PROVE  Gathered(x, ds)
<1>1. CandsOf(x, ds) /\ \A t \in Types, n \in Names : x.pending[t][n] = <<>>
  BY DEF Right, Flushed
<1>2. ASSUME NEW t \in Types, NEW n \in Names, NEW d
      PROVE  Holds(x.entries[t][n].candidates, d) \/ Holds(x.pending[t][n], d) <=> d \in OwnOf(ds, t, n)
  <2>1. Holds(x.entries[t][n].candidates, d) <=> d \in OwnOf(ds, t, n)
    BY <1>1 DEF CandsOf, Sorts
  <2>2. ~Holds(<<>>, d)
    BY DEF Holds
  <2>3. ~Holds(x.pending[t][n], d)
    BY <1>1, <2>2
  <2> QED
    BY <2>1, <2>3
<1> QED
  BY <1>2 DEF Gathered

\* Sorting and the checks of start() make the index right.
LEMMA ValidatedKept ==
    ASSUME NEW L \in Nat, NEW B, NEW m, MergeOK(m, L, B), NEW r, r = Validated(Sorted(m)), Kept(m)
    PROVE  Kept(r) /\ Right(r.ix, r.descs) /\ Flushed(r.ix)
<1>0. /\ m = [ok |-> m.ok, descs |-> m.descs, interned |-> m.interned, ix |-> m.ix, ids |-> m.ids,
              links |-> m.links, stored |-> m.stored]
      /\ TablesOK(m.descs, m.ix, m.interned) /\ DescsOK(m.descs) /\ Len(m.descs) \in Nat
  BY MergeIn
<1>1. PICK y : y = SortAllCandidates(m.ix, PrioOf(m.descs))
  OBVIOUS
<1>2. PICK t : t = Sorted(m)
  OBVIOUS
<1>3. t = [m EXCEPT !.ix = y]
  BY <1>1, <1>2 DEF Sorted
<1>4. PICK k : r = [t EXCEPT !.ok = k]
  BY <1>2 DEF Validated
<1>5. r.descs = m.descs /\ r.ix = y
  BY <1>0, <1>3, <1>4
<1>6. PICK ds, x : ds = m.descs /\ x = m.ix
  OBVIOUS
<1>7. Ranked(ds) /\ x \in Index(Len(ds)) /\ Gathered(x, ds)
  BY <1>0, <1>6, DescsRanked DEF TablesOK, Kept
<1>8. Right(y, ds) /\ Flushed(y)
  BY <1>1, <1>6, <1>7, SortRight
<1>9. Gathered(y, ds)
  BY <1>8, RightGathered
<1> QED
  BY <1>5, <1>6, <1>8, <1>9 DEF Kept

\* The contributions that are no rivals of the context's own bean.
Plain == {c \in Contributed : ~Rival(c)}

\* What was discovered, one after the other, is such.
LEMMA PlainContributed ==
    ASSUME pending \in Seq(Seq(Plain))
    PROVE  \A n \in 1..Len(FlattenSeq(pending)) : ~Rival(FlattenSeq(pending)[n])
<1>2. PICK S : S = Plain
  OBVIOUS
<1>3. Gathers(TL!FlattenSeq(pending), S, pending, Len(pending))
  BY <1>2, FlattenGathers
<1>4. FlattenSeq(pending) = TL!FlattenSeq(pending)
  BY DEF FlattenSeq, TL!FlattenSeq
<1>5. PICK cs : cs = FlattenSeq(pending)
  OBVIOUS
<1>6. cs \in Seq(S)
  BY <1>3, <1>4, <1>5 DEF Gathers
<1>7. \A n \in 1..Len(cs) : cs[n] \in S
  BY <1>6
<1> QED
  BY <1>2, <1>5, <1>7 DEF Plain

\* The phases of start() before the context's own bean leave a complete index, and one
\* that is right if they do not reject the program.
LEMMA BuiltKept ==
    ASSUME TablesInv, NEW X, NEW K \in Nat, BindsOK(bindings, X, K), pending \in Seq(Seq(Plain)),
           \A n \in 1..Len(bindings) : ~Rival(bindings[n].key),
           Gathered(ix, descs), \A d \in 1..Len(descs) : ~Rival(descs[d])
    PROVE  Kept(Built) /\ (Built.ok => Right(Built.ix, Built.descs) /\ Flushed(Built.ix))
<1>1. PICK a, f, l, b : a = Adopted /\ f = Then(a, LinkFactories(a)) /\ l = Then(f, LinkAliases(f))
                        /\ b = Then(l, Validated(Sorted(l)))
  OBVIOUS
<1>2. l = Linked
  BY <1>1 DEF Linked
<1>3. b = Built
  BY <1>1, <1>2 DEF Built
<1>4. PICK L, B : L = Len(descs) /\ B = bindings
  OBVIOUS
<1>5. MergeOK(a, L, B) /\ L \in Nat
  BY <1>1, <1>4, AdoptedOK, DescsIn DEF TablesInv, TablesOK
<1>k. Kept(a)
  <2>1. Kept(Unmerged)
    BY DEF Kept, Unmerged
  <2>2. Kept(Merged)
    <3>1. PICK g, first : /\ first = TRUE /\ Merged = g[Len(FlattenSeq(pending))]
                          /\ Folds(g, first, Unmerged, FlattenSeq(pending), Len(descs), bindings)
      BY MergedFolds
    <3>2. PICK cs, m : cs = FlattenSeq(pending) /\ m = Unmerged
      OBVIOUS
    <3>3. \A n \in 1..Len(cs) : ~Rival(IF first THEN cs[n] ELSE cs[n].key)
      BY <3>1, <3>2, PlainContributed
    <3>4. Kept(g[Len(cs)])
      BY <1>4, <2>1, <3>1, <3>2, <3>3, FoldKept
    <3> QED
      BY <3>1, <3>2, <3>4
  <2>3. PICK g, first : /\ first = FALSE /\ Adopted = g[Len(bindings)]
                        /\ Folds(g, first, Merged, bindings, Len(descs), bindings)
    BY AdoptedFolds
  <2>4. PICK m : m = Merged
    OBVIOUS
  <2>5. \A n \in 1..Len(B) : ~Rival(IF first THEN B[n] ELSE B[n].key)
    BY <1>4, <2>3
  <2>6. Kept(g[Len(B)])
    BY <1>4, <2>2, <2>3, <2>4, <2>5, FoldKept
  <2> QED
    BY <1>1, <1>4, <2>3, <2>6
<1>6. MergeOK(f, L, B) /\ Kept(f)
  <2>1. CASE a.ok
    <3>1. f = LinkFactories(a)
      BY <1>1, <2>1 DEF Then
    <3>2. MergeOK(f, L, B)
      BY <1>5, <3>1, LinkFactoriesOK
    <3>3. PICK k, es : Relinked(a, k, es, f)
      BY <1>5, <3>1, LinkFactoriesDo
    <3> QED
      BY <1>5, <1>k, <3>2, <3>3, RelinkKept
  <2>2. CASE ~a.ok
    BY <1>1, <1>5, <1>k, <2>2 DEF Then
  <2> QED
    BY <2>1, <2>2
<1>7. MergeOK(l, L, B) /\ Kept(l)
  <2>1. CASE f.ok
    <3>1. l = LinkAliases(f)
      BY <1>1, <2>1 DEF Then
    <3>2. MergeOK(l, L, B)
      BY <1>5, <1>6, <3>1, LinkAliasesOK
    <3>3. PICK k, es : Relinked(f, k, es, l)
      BY <1>5, <1>6, <3>1, LinkAliasesDo
    <3> QED
      BY <1>6, <3>2, <3>3, RelinkKept
  <2>2. CASE ~f.ok
    BY <1>1, <1>6, <2>2 DEF Then
  <2> QED
    BY <2>1, <2>2
<1>8. Kept(b) /\ (b.ok => Right(b.ix, b.descs) /\ Flushed(b.ix))
  <2>1. CASE l.ok
    <3>1. b = Validated(Sorted(l))
      BY <1>1, <2>1 DEF Then
    <3> QED
      BY <1>5, <1>7, <3>1, ValidatedKept
  <2>2. CASE ~l.ok
    BY <1>1, <1>7, <2>2 DEF Then
  <2> QED
    BY <2>1, <2>2
<1> QED
  BY <1>3, <1>8

\* With the context's own bean the index is right still.
LEMMA ContextRight ==
    ASSUME NEW L, NEW B, NEW b, MergeOK(b, L, B), Kept(b), Right(b.ix, b.descs), Flushed(b.ix), NEW w, w = WithContext(b)
    PROVE  Right(w.ix, w.descs) /\ Flushed(w.ix)
<1>0. /\ b = [ok |-> b.ok, descs |-> b.descs, interned |-> b.interned, ix |-> b.ix, ids |-> b.ids,
              links |-> b.links, stored |-> b.stored]
      /\ TablesOK(b.descs, b.ix, b.interned) /\ Len(b.descs) \in Nat
  BY MergeIn
<1>1. PICK d \in Nat \ {0} : d = Len(b.descs) + 1
  BY <1>0
<1>2. PICK k : k = [type |-> CtxType, name |-> Unnamed, prio |-> 0]
  OBVIOUS
<1>3. k \in Key /\ k.type = CtxType /\ k.name = Unnamed
  BY <1>2, LifecycleConstants DEF Key
<1>4. PICK e : e = BoundDesc(k, d)
  OBVIOUS
<1>5. e \in DescSet(d) /\ e.bound /\ e.prim = d /\ Rival(e)
  BY <1>3, <1>4, BoundDescIn DEF Rival
<1>6. PICK es, y : es = Append(b.descs, e) /\ y = InsertCandidate(b.ix, e.type, e.name, d)
  OBVIOUS
<1>7. Joins(b.descs, b.ix, e, es, y)
  BY <1>1, <1>5, <1>6 DEF Joins
<1>8. TablesOK(es, y, b.interned) /\ Goes(b.descs, e, es)
  BY <1>0, <1>7, TablesAdd
<1>9. PICK z : z = UpdateSingleUnnamed(y, CtxType)
  OBVIOUS
<1>13. PICK a : a = AddDesc(b, e, d)
  OBVIOUS
<1>14. a = [b EXCEPT !.descs = es, !.ix = y]
  BY <1>6, <1>13 DEF AddDesc
<1>15. a = [ok |-> b.ok, descs |-> es, interned |-> b.interned, ix |-> y, ids |-> b.ids,
            links |-> b.links, stored |-> b.stored]
  BY <1>0, <1>14
<1>16. w = [a EXCEPT !.interned = Intern(@, CtxType), !.ix = UpdateSingleUnnamed(@, CtxType)]
  BY <1>1, <1>2, <1>4, <1>13 DEF WithContext
<1>17. w.descs = es /\ w.ix = z
  BY <1>9, <1>15, <1>16
<1>18. PICK ds, x : ds = b.descs /\ x = b.ix
  OBVIOUS
<1>19. /\ Ranked(ds) /\ Ranked(es) /\ Goes(ds, e, es) /\ x \in Index(Len(ds)) /\ Right(x, ds) /\ Flushed(x)
       /\ y \in Index(Len(es)) /\ y = InsertCandidate(x, e.type, e.name, Len(ds) + 1)
       /\ \A c \in 1..Len(ds) : ~Rival(ds[c])
  BY <1>0, <1>1, <1>6, <1>8, <1>18, DescsRanked DEF TablesOK, Kept
<1>20. Right(z, es) /\ Flushed(z)
  BY <1>5, <1>9, <1>19, RightContext
<1> QED
  BY <1>17, <1>20
=============================================================================
