----------------------------- MODULE TypeIndex -----------------------------
(***************************************************************************)
(* The candidate tables of resolution, as values: the pending buffer of    *)
(* the build phase (kept by name, which the code groups it by before use), *)
(* one NameEntry per type and name, and the precomputed single unnamed     *)
(* candidate.  A missing entry is one without candidates.                  *)
(*                                                                         *)
(* A descriptor is its position in descriptors_, and prio[d] its priority. *)
(* The list ambiguous_ repeats the flags of the entries and is left out.   *)
(***************************************************************************)
EXTENDS Integers, Sequences, FiniteSets

CONSTANTS
    Types, Names,
    Unnamed,        \* kUnnamed
    NoDesc,         \* kInvalidDescriptorId
    Ambiguous       \* a lookup that ends in an ambiguity

NoEntry == [candidates |-> <<>>, head |-> NoDesc, ambiguous |-> FALSE]

EmptyIndex ==
    [pending   |-> [t \in Types |-> [n \in Names |-> <<>>]],
     finalized |-> FALSE,
     entries   |-> [t \in Types |-> [n \in Names |-> NoEntry]],
     single    |-> [t \in Types |-> NoDesc]]

\* Buffered until the first sort; later pushed into its entry, whose head and
\* flag stay as they are.
InsertCandidate(ix, t, n, d) ==
    IF ix.finalized
    THEN [ix EXCEPT !.entries[t][n].candidates = Append(@, d)]
    ELSE [ix EXCEPT !.pending[t][n] = Append(@, d)]

-----------------------------------------------------------------------------
(* sortAllCandidates, in the order in which a concurrent reader of one key *)
(* can see its writes.                                                     *)

\* The buffer is emptied into the entries, and every single candidate forgotten.
Flush(ix) ==
    [ix EXCEPT !.pending = [t \in Types |-> [n \in Names |-> <<>>]],
               !.entries = [t \in Types |-> [n \in Names |->
                    [@[t][n] EXCEPT !.candidates = ix.entries[t][n].candidates \o ix.pending[t][n]]]],
               !.single = [t \in Types |-> NoDesc]]

Tied(cs, prio) == Len(cs) >= 2 /\ prio[cs[1]] = prio[cs[2]]

\* std::sort by descending priority.  Where it leaves a tie does not matter (a tie
\* at the top is an ambiguity whichever comes first): here the older one is first.
Before(S, prio, c) == {b \in S : prio[b] > prio[c] \/ (prio[b] = prio[c] /\ b < c)}
ByPriority(S, prio) ==
    [k \in 1..Cardinality(S) |-> CHOOSE c \in S : Cardinality(Before(S, prio, c)) = k - 1]

Order(ix, prio) ==
    [ix EXCEPT !.entries = [t \in Types |-> [n \in Names |->
        LET cs == ix.entries[t][n].candidates
        IN  [@[t][n] EXCEPT !.candidates = ByPriority({cs[k] : k \in 1..Len(cs)}, prio)]]]]

FindSingles(ix) ==
    [ix EXCEPT !.single = [t \in Types |->
        LET cs == ix.entries[t][Unnamed].candidates IN IF Len(cs) = 1 THEN cs[1] ELSE NoDesc]]

\* Mutant: an entry that has a head keeps it.
KeepHeads(ix) ==
    [ix EXCEPT !.entries = [t \in Types |-> [n \in Names |->
        [@[t][n] EXCEPT !.head = IF ix.entries[t][n].candidates = <<>> \/ @ # NoDesc THEN @
                                 ELSE ix.entries[t][n].candidates[1]]]]]

FindHeads(ix) ==
    [ix EXCEPT !.entries = [t \in Types |-> [n \in Names |->
        [@[t][n] EXCEPT !.head = IF ix.entries[t][n].candidates = <<>> THEN NoDesc
                                 ELSE ix.entries[t][n].candidates[1]]]]]

FindTies(ix, prio) ==
    [ix EXCEPT !.entries = [t \in Types |-> [n \in Names |->
        [@[t][n] EXCEPT !.ambiguous = Tied(ix.entries[t][n].candidates, prio)]]],
               !.finalized = TRUE]

SortAllCandidates(ix, prio) == FindTies(FindHeads(FindSingles(Order(Flush(ix), prio))), prio)

\* Also called alone for the context's own type, which comes after the sort.
UpdateSingleUnnamed(ix, t) ==
    LET cs == ix.entries[t][Unnamed].candidates
    IN  [ix EXCEPT !.single[t] = IF Len(cs) = 1 THEN cs[1] ELSE NoDesc]

-----------------------------------------------------------------------------
(* Lookups.  The answer is a descriptor, or NoDesc or Ambiguous for the    *)
(* two ResolutionErrors.                                                   *)

FromCandidates(cs, prio) ==
    IF cs = <<>> THEN NoDesc ELSE IF Tied(cs, prio) THEN Ambiguous ELSE cs[1]

\* The head is not there for a candidate that came after the last sort.
FromEntry(e, prio) ==
    IF e.head # NoDesc THEN IF e.ambiguous THEN Ambiguous ELSE e.head
    ELSE FromCandidates(e.candidates, prio)

Lookup(ix, prio, t, n) ==
    IF n = Unnamed /\ ix.single[t] # NoDesc THEN ix.single[t]
    ELSE FromEntry(ix.entries[t][n], prio)

\* What a lookup should find among all descriptors: the one of highest priority.
Best(descs, t, n) ==
    LET Own == {d \in 1..Len(descs) : descs[d].type = t /\ descs[d].name = n}
        Top == {d \in Own : \A c \in Own : descs[c].prio <= descs[d].prio}
    IN  IF Own = {} THEN NoDesc
        ELSE IF Cardinality(Top) > 1 THEN Ambiguous ELSE CHOOSE d \in Top : TRUE
=============================================================================
