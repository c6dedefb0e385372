----------------------- MODULE MaterializationProofs -----------------------
(***************************************************************************)
(* Proofs about Materialization for any number of threads and keys and any *)
(* dependency graph: type correctness, the claim protocol builds a shared  *)
(* bean at most once, a stored bean's dependencies are stored, and a bean  *)
(* that needs a cycle of constructors is never stored; then what resolve() *)
(* promises: the cycle stack of a thread mirrors its calls (StackCorrect), *)
(* a call fails with a cycle only if there is one (CyclesAreReal), every   *)
(* step is one of SharedBeans or none (SharedBeansImplemented), and        *)
(* threads never wait for one another (NoDeadlock).                        *)
(*                                                                         *)
(* The second part adds to IInv: CallInv relates a thread's calls, its     *)
(* stack and its wait slot; CauseInv gives every exception in flight a     *)
(* bean that explains it.                                                  *)
(***************************************************************************)
EXTENDS Materialization, FiniteSetTheorems, WellFoundedInduction, TLAPS

FramesType == frames \in [Threads -> Seq(Frame)]

\* Only the top frame is elsewhere than in user code, and only shared keys go
\* through the claim protocol.
Shape ==
    \A t \in Threads : \A i \in 1..Len(frames[t]) :
        /\ i < Len(frames[t]) => frames[t][i].at \in {"construct", "hooks"}
        /\ frames[t][i].at \in Points \ {"find", "construct", "hooks"}
            => frames[t][i].key \in Shared

\* The frames of every thread but t are untouched.
OthersSame(t) == \A u \in Threads \ {t} : frames'[u] = frames[u]

-----------------------------------------------------------------------------
(* What the operations on the call stack do, element by element.           *)

\* Moved takes the top frame to another point and leaves the rest alone.
LEMMA MovedFrames ==
    ASSUME FramesType, NEW t \in Threads, frames[t] # <<>>, NEW point \in Points
    PROVE  /\ Moved(t, point) \in [Threads -> Seq(Frame)]
           /\ \A u \in Threads \ {t} : Moved(t, point)[u] = frames[u]
           /\ Len(Moved(t, point)[t]) = Len(frames[t])
           /\ \A i \in 1..Len(frames[t]) - 1 : Moved(t, point)[t][i] = frames[t][i]
           /\ Moved(t, point)[t][Len(frames[t])]
                = [key |-> Top(t).key, at |-> point, next |-> 1]
<1>1. frames[t] \in Seq(Frame) /\ Len(frames[t]) \in Nat \ {0}
  BY DEF FramesType
<1>2. Top(t) \in Frame /\ Top(t) = frames[t][Len(frames[t])]
  BY <1>1 DEF Top, Depth
<1> DEFINE nf == [frames[t] EXCEPT ![Len(frames[t])] =
                    [key |-> Top(t).key, at |-> point, next |-> 1]]
<1>3. Moved(t, point) = [frames EXCEPT ![t] = nf]
  BY <1>1, <1>2 DEF Moved, Depth, Top, FramesType
<1>4. [key |-> Top(t).key, at |-> point, next |-> 1] \in Frame
  BY <1>2 DEF Frame
<1>5. nf \in Seq(Frame) /\ Len(nf) = Len(frames[t])
      /\ (\A i \in 1..Len(frames[t]) - 1 : nf[i] = frames[t][i])
      /\ nf[Len(frames[t])] = [key |-> Top(t).key, at |-> point, next |-> 1]
  BY <1>1, <1>4
<1> QED
  BY <1>3, <1>5 DEF FramesType

\* The same for a step that only moves the top frame of t.
LEMMA GoToFrames ==
    ASSUME FramesType, NEW t \in Threads, frames[t] # <<>>,
           NEW point \in Points, GoTo(t, point)
    PROVE  /\ FramesType' /\ OthersSame(t)
           /\ Len(frames'[t]) = Len(frames[t])
           /\ \A i \in 1..Len(frames[t]) - 1 : frames'[t][i] = frames[t][i]
           /\ frames'[t][Len(frames[t])]
                = [key |-> Top(t).key, at |-> point, next |-> 1]
BY MovedFrames DEF GoTo, FramesType, OthersSame

\* Enter pushes a fresh frame.
LEMMA EnterFrames ==
    ASSUME FramesType, NEW t \in Threads, NEW k \in Keys, Enter(t, k)
    PROVE  /\ FramesType' /\ OthersSame(t)
           /\ Len(frames'[t]) = Len(frames[t]) + 1
           /\ \A i \in 1..Len(frames[t]) : frames'[t][i] = frames[t][i]
           /\ frames'[t][Len(frames[t]) + 1] = NewFrame(k)
<1>1. NewFrame(k) \in Frame
  BY DEF NewFrame, Frame, Points
<1> QED
  BY <1>1 DEF FramesType, OthersSame, Enter

\* Popped removes the top frame.
LEMMA PoppedFrames ==
    ASSUME NEW S, NEW s \in Seq(S), s # <<>>
    PROVE  /\ Popped(s) \in Seq(S)
           /\ Len(Popped(s)) = Len(s) - 1
           /\ \A i \in 1..Len(s) - 1 : Popped(s)[i] = s[i]
BY DEF Popped

\* Return removes the top frame and moves its caller one resolve further.
LEMMA ReturnFrames ==
    ASSUME FramesType, NEW t \in Threads, frames[t] # <<>>, Return(t)
    PROVE  /\ FramesType' /\ OthersSame(t)
           /\ Len(frames'[t]) = Len(frames[t]) - 1
           /\ \A i \in 1..Len(frames[t]) - 1 :
                frames'[t][i] = IF i = Len(frames[t]) - 1
                                THEN [key |-> frames[t][i].key,
                                      at |-> frames[t][i].at,
                                      next |-> frames[t][i].next + 1]
                                ELSE frames[t][i]
<1>1. frames[t] \in Seq(Frame) /\ Len(frames[t]) \in Nat \ {0}
  BY DEF FramesType
<1> DEFINE s == frames[t]
           n == Len(s) - 1
<1>2. /\ Popped(s) \in Seq(Frame) /\ Len(Popped(s)) = n
      /\ \A i \in 1..n : Popped(s)[i] = s[i]
  BY <1>1, PoppedFrames
<1>3. frames' = [frames EXCEPT ![t] = Resumed(s)]
  BY DEF Return
<1>4. CASE Len(s) = 1
  <2>1. Resumed(s) = <<>>
    BY <1>4 DEF Resumed
  <2> QED
    BY <1>1, <1>3, <1>4, <2>1 DEF FramesType, OthersSame
<1>5. CASE Len(s) # 1
  <2>1. n \in 1..Len(Popped(s)) /\ s[n] \in Frame /\ Popped(s)[n] = s[n]
    <3> DEFINE m == Len(s)
    <3>1. m \in Nat /\ m # 0 /\ m # 1
      BY <1>1, <1>5
    <3> HIDE DEF m
    <3>2. m - 1 \in 1..(m - 1) /\ m - 1 \in 1..m
      BY <3>1
    <3>3. n = m - 1 /\ Len(s) = m
      BY DEF m
    <3> QED
      BY <1>1, <1>2, <3>2, <3>3
  <2> DEFINE f == [key |-> s[n].key, at |-> s[n].at, next |-> s[n].next + 1]
  <2> HIDE DEF s, n
  <2>2. f \in Frame /\ [s[n] EXCEPT !.next = s[n].next + 1] = f
    <3> DEFINE g == s[n]
    <3>1. g \in Frame
      BY <2>1
    <3> HIDE DEF g
    <3>2. [key |-> g.key, at |-> g.at, next |-> g.next + 1] \in Frame
      BY <3>1 DEF Frame
    <3>3. [g EXCEPT !.next = g.next + 1]
            = [key |-> g.key, at |-> g.at, next |-> g.next + 1]
      BY <3>1 DEF Frame
    <3> QED
      BY <3>2, <3>3 DEF g
  <2> USE DEF s, n
  <2>3. Resumed(s) = [Popped(s) EXCEPT ![n] = f]
    <3>1. Resumed(s) = [Popped(s) EXCEPT ![n] = [Popped(s)[n] EXCEPT !.next = Popped(s)[n].next + 1]]
      BY <1>5 DEF Resumed
    <3> QED
      BY <3>1, <2>1, <2>2
  <2>4. /\ Resumed(s) \in Seq(Frame) /\ Len(Resumed(s)) = n
        /\ \A i \in 1..n : Resumed(s)[i] = IF i = n THEN f ELSE s[i]
    BY <2>1, <2>2, <2>3, <1>2
  <2> QED
    BY <1>3, <2>4 DEF FramesType, OthersSame
<1> QED
  BY <1>4, <1>5

\* Leave removes the top frame.
LEMMA LeaveFrames ==
    ASSUME FramesType, NEW t \in Threads, frames[t] # <<>>,
           frames' = [frames EXCEPT ![t] = Popped(@)]
    PROVE  /\ FramesType' /\ OthersSame(t)
           /\ Len(frames'[t]) = Len(frames[t]) - 1
           /\ \A i \in 1..Len(frames[t]) - 1 : frames'[t][i] = frames[t][i]
<1>1. frames[t] \in Seq(Frame)
  BY DEF FramesType
<1>2. /\ Popped(frames[t]) \in Seq(Frame)
      /\ Len(Popped(frames[t])) = Len(frames[t]) - 1
      /\ \A i \in 1..Len(frames[t]) - 1 : Popped(frames[t])[i] = frames[t][i]
  BY <1>1, PoppedFrames
<1> QED
  BY <1>2 DEF FramesType, OthersSame

\* A notification changes no frame but those at "waiting".
LEMMA WokenFrames ==
    ASSUME NEW fs \in [Threads -> Seq(Frame)], NEW r
    PROVE  /\ Woken(r, fs) \in [Threads -> Seq(Frame)]
           /\ \A u \in Threads : Len(Woken(r, fs)[u]) = Len(fs[u])
           /\ \A u \in Threads : \A i \in 1..Len(fs[u]) :
                \/ Woken(r, fs)[u][i] = fs[u][i]
                \/ /\ fs[u][i].at = "waiting"
                   /\ Woken(r, fs)[u][i]
                        = [key |-> fs[u][i].key, at |-> "woken", next |-> fs[u][i].next]
<1> SUFFICES ASSUME NEW u \in Threads
    PROVE  /\ Woken(r, fs)[u] \in Seq(Frame)
           /\ Len(Woken(r, fs)[u]) = Len(fs[u])
           /\ \A i \in 1..Len(fs[u]) :
                \/ Woken(r, fs)[u][i] = fs[u][i]
                \/ /\ fs[u][i].at = "waiting"
                   /\ Woken(r, fs)[u][i]
                        = [key |-> fs[u][i].key, at |-> "woken", next |-> fs[u][i].next]
  BY DEF Woken
<1> DEFINE s == fs[u]
           n == Len(s)
           f == [key |-> s[n].key, at |-> "woken", next |-> s[n].next]
<1>1. s \in Seq(Frame) /\ n \in Nat
  OBVIOUS
<1>2. CASE /\ s # <<>> /\ s[n].at = "waiting" /\ Reg[s[n].key] = r
  <2>1. n \in 1..n /\ s[n] \in Frame
    BY <1>1, <1>2
  <2>2. f \in Frame /\ [s[n] EXCEPT !.at = "woken"] = f
    BY <2>1 DEF Frame, Points
  <2>3. Woken(r, fs)[u] = [s EXCEPT ![n] = f]
    BY <1>2, <2>2 DEF Woken
  <2> QED
    BY <1>1, <1>2, <2>1, <2>2, <2>3
<1>3. CASE ~(s # <<>> /\ s[n].at = "waiting" /\ Reg[s[n].key] = r)
  BY <1>3 DEF Woken
<1> QED
  BY <1>2, <1>3

\* The frames after a notification: waiting frames may be woken; the top frame
\* of the notifier is left (after an abandoned construction) or runs its hooks.
Awakened(u, i) ==
    \/ frames'[u][i] = frames[u][i]
    \/ /\ frames[u][i].at = "waiting"
       /\ frames'[u][i].at = "woken"
       /\ frames'[u][i].key = frames[u][i].key

\* notify_all() touches only frames that wait: every other frame of every thread
\* keeps its key, its point and its progress, and only the notifier's own top
\* frame leaves or moves on.
LEMMA NotifiedFrames ==
    ASSUME FramesType, NEW t \in Threads, NotifyAbandoned(t) \/ Notify(t)
    PROVE  /\ frames[t] # <<>> /\ Top(t).at \in {"notify", "abandoned"}
           /\ \A u \in Threads \ {t} :
                Len(frames'[u]) = Len(frames[u]) /\ \A i \in 1..Len(frames[u]) : Awakened(u, i)
           /\ \A i \in 1..Len(frames[t]) - 1 : Awakened(t, i)
           /\ Len(frames'[t]) \in {Len(frames[t]) - 1, Len(frames[t])}
           /\ Len(frames'[t]) = Len(frames[t])
                => /\ frames'[t][Len(frames[t])].at = "hooks"
                   /\ frames'[t][Len(frames[t])].key = frames[t][Len(frames[t])].key
<1>0. FramesType /\ frames[t] \in Seq(Frame) /\ Len(frames[t]) \in Nat
  BY DEF FramesType
<1>1. frames[t] # <<>> /\ Top(t).at \in {"notify", "abandoned"}
  BY DEF NotifyAbandoned, Notify, Running, Unwinding
<1>2. PICK fs \in [Threads -> Seq(Frame)] :
        /\ frames' = Woken(Reg[Top(t).key], fs)
        /\ \A u \in Threads \ {t} : fs[u] = frames[u]
        /\ Len(fs[t]) \in {Len(frames[t]) - 1, Len(frames[t])}
        /\ \A i \in 1..Len(frames[t]) - 1 : fs[t][i] = frames[t][i]
        /\ Len(fs[t]) = Len(frames[t])
             => /\ fs[t][Len(frames[t])].at = "hooks"
                /\ fs[t][Len(frames[t])].key = frames[t][Len(frames[t])].key
  <2>1. CASE Notify(t)
    <3>1. "hooks" \in Points
      BY DEF Points
    <3>2. frames' = Woken(Reg[Top(t).key], Moved(t, "hooks"))
      BY <2>1 DEF Notify
    <3> DEFINE fs == Moved(t, "hooks")
    <3>3. /\ fs \in [Threads -> Seq(Frame)]
          /\ \A u \in Threads \ {t} : fs[u] = frames[u]
          /\ Len(fs[t]) = Len(frames[t])
          /\ \A i \in 1..Len(frames[t]) - 1 : fs[t][i] = frames[t][i]
          /\ fs[t][Len(frames[t])] = [key |-> Top(t).key, at |-> "hooks", next |-> 1]
      BY <1>0, <1>1, <3>1, MovedFrames
    <3>4. /\ fs[t][Len(frames[t])].at = "hooks"
          /\ fs[t][Len(frames[t])].key = frames[t][Len(frames[t])].key
      BY <3>3 DEF Top, Depth
    <3> HIDE DEF fs
    <3> QED
      BY <3>2, <3>3, <3>4 DEF fs
  <2>2. CASE NotifyAbandoned(t)
    <3> DEFINE fs == [frames EXCEPT ![t] = Popped(@)]
    <3>1. /\ Popped(frames[t]) \in Seq(Frame)
          /\ Len(Popped(frames[t])) = Len(frames[t]) - 1
          /\ \A i \in 1..Len(frames[t]) - 1 : Popped(frames[t])[i] = frames[t][i]
      BY <1>0, <1>1, PoppedFrames
    <3>2. fs[t] = Popped(frames[t]) /\ \A u \in Threads \ {t} : fs[u] = frames[u]
      BY <1>0 DEF FramesType
    <3>3. fs \in [Threads -> Seq(Frame)]
      BY <1>0, <3>1 DEF FramesType
    <3>4. frames' = Woken(Reg[Top(t).key], fs)
      BY <2>2 DEF NotifyAbandoned
    <3>5. Len(frames[t]) - 1 # Len(frames[t])
      BY <1>0
    <3> HIDE DEF fs
    <3> QED
      BY <3>1, <3>2, <3>3, <3>4, <3>5
  <2> QED
    BY <2>1, <2>2
<1>3. /\ \A u \in Threads : Len(frames'[u]) = Len(fs[u])
      /\ \A u \in Threads : \A i \in 1..Len(fs[u]) :
           \/ frames'[u][i] = fs[u][i]
           \/ /\ fs[u][i].at = "waiting"
              /\ frames'[u][i].at = "woken"
              /\ frames'[u][i].key = fs[u][i].key
  <2> DEFINE g(u, i) == [key |-> fs[u][i].key, at |-> "woken", next |-> fs[u][i].next]
             w == Woken(Reg[Top(t).key], fs)
  <2>0. \A u \in Threads : Len(w[u]) = Len(fs[u])
    BY WokenFrames
  <2>1. \A u \in Threads : \A i \in 1..Len(fs[u]) :
          \/ w[u][i] = fs[u][i]
          \/ fs[u][i].at = "waiting" /\ w[u][i] = g(u, i)
    BY WokenFrames, Zenon
  <2>2. \A u, i : g(u, i).at = "woken" /\ g(u, i).key = fs[u][i].key
    OBVIOUS
  <2>3. frames' = w
    BY <1>2
  <2> HIDE DEF g, w
  <2> QED
    BY <2>0, <2>1, <2>2, <2>3
<1>4. ASSUME NEW u \in Threads \ {t}
      PROVE  Len(frames'[u]) = Len(frames[u]) /\ \A i \in 1..Len(frames[u]) : Awakened(u, i)
  BY <1>2, <1>3 DEF Awakened
<1> DEFINE n == Len(frames[t])
           m == Len(fs[t])
<1>5. n \in Nat /\ m \in {n - 1, n} /\ Len(frames'[t]) = m
  BY <1>0, <1>2, <1>3
<1>6. \A i \in 1..n - 1 : fs[t][i] = frames[t][i]
  BY <1>2
<1>7. m = n => fs[t][n].at = "hooks" /\ fs[t][n].key = frames[t][n].key
  BY <1>2
<1>8. n # 0
  BY <1>0, <1>1
<1> HIDE DEF n, m
<1>9. (\A i \in 1..n - 1 : i \in 1..m) /\ (m = n => n \in 1..m)
  BY <1>5, <1>8
<1>10. \A i \in 1..n - 1 : Awakened(t, i)
  BY <1>3, <1>6, <1>9 DEF Awakened, m
<1>11. m = n => frames'[t][n].at = "hooks" /\ frames'[t][n].key = frames[t][n].key
  BY <1>3, <1>7, <1>9 DEF m
<1> QED
  BY <1>1, <1>4, <1>5, <1>10, <1>11 DEF n

-----------------------------------------------------------------------------
(* Type correctness.                                                       *)

\* pop_back() on a possibly empty stack stays a sequence.
LEMMA PoppedType ==
    ASSUME NEW S, NEW s \in Seq(S)
    PROVE  Popped(s) \in Seq(S)
<1>1. CASE s = <<>>
  <2>1. 1..(Len(s) - 1) = {} /\ 1..0 = {}
    BY <1>1
  <2>2. Popped(s) \in [1..0 -> S]
    BY <2>1 DEF Popped
  <2> QED
    BY <2>2
<1>2. CASE s # <<>>
  BY <1>2, PoppedFrames
<1> QED
  BY <1>1, <1>2

\* The keys a constructor or hook resolves are keys.
LEMMA DepIsKey ==
    ASSUME TypeOK, NEW t \in Threads, frames[t] # <<>>
    PROVE  /\ Top(t) \in Frame
           /\ Top(t).next <= Len(Deps[Top(t).key]) => Deps[Top(t).key][Top(t).next] \in Keys
           /\ Top(t).next <= Len(PostDeps[Top(t).key])
                => PostDeps[Top(t).key][Top(t).next] \in Keys
<1>1. Top(t) \in Frame
  BY DEF TypeOK, Top, Depth
<1>2. /\ Top(t).key \in Keys /\ Top(t).next \in Nat \ {0}
      /\ Deps[Top(t).key] \in Seq(Keys) /\ PostDeps[Top(t).key] \in Seq(Keys)
  BY <1>1, ConstantsOK DEF Frame
<1> QED
  BY <1>1, <1>2

\* The outcome and the exception of a thread after Propagate.
LEMMA PropagateType ==
    ASSUME TypeOK, NEW t \in Threads, frames[t] # <<>>,
           NEW e \in {"cycle", "user"}, Propagate(t, e)
    PROVE  /\ exc' \in [Threads -> {"none", "cycle", "user"}]
           /\ outcome' \in [Threads -> [key : Keys \union {NoKey},
                                        result : {"none", "ok", "cycle", "user"}]]
<1>1. Top(t).key \in Keys
  BY DepIsKey DEF Frame
<1> QED
  BY <1>1 DEF TypeOK, Propagate

\* The outcome of a thread after Return.
LEMMA ReturnType ==
    ASSUME TypeOK, NEW t \in Threads, frames[t] # <<>>, Return(t)
    PROVE  /\ FramesType'
           /\ exc' = exc
           /\ outcome' \in [Threads -> [key : Keys \union {NoKey},
                                        result : {"none", "ok", "cycle", "user"}]]
<1>1. Top(t).key \in Keys
  BY DepIsKey DEF Frame
<1>2. FramesType
  BY DEF TypeOK, FramesType
<1> QED
  BY <1>1, <1>2, ReturnFrames DEF TypeOK, Return

\* Every step preserves the types of all variables.
LEMMA TypePreserved == TypeOK /\ Shape /\ [Next]_vars => TypeOK'
<1> SUFFICES ASSUME TypeOK, Shape, [Next]_vars PROVE TypeOK'
  OBVIOUS
<1> USE ConstantsOK
<1> DEFINE Outcomes == [Threads -> [key : Keys \union {NoKey},
                                    result : {"none", "ok", "cycle", "user"}]]
           Excs == [Threads -> {"none", "cycle", "user"}]
           Stacks == [Threads -> Seq({Desc[k] : k \in Keys})]
<1>0. FramesType /\ exc \in Excs /\ outcome \in Outcomes /\ stack \in Stacks
  BY DEF TypeOK, FramesType
<1>p. ASSUME NEW t \in Threads PROVE Popped(stack[t]) \in Seq({Desc[k] : k \in Keys})
  BY <1>0, PoppedType
<1>q. ASSUME NEW t \in Threads, NEW k \in Keys
      PROVE  Append(stack[t], Desc[k]) \in Seq({Desc[q] : q \in Keys})
  <2> DEFINE D == {Desc[q] : q \in Keys}
  <2>1. stack[t] \in Seq(D) /\ Desc[k] \in D
    BY <1>0
  <2> HIDE DEF D
  <2>2. Append(stack[t], Desc[k]) \in Seq(D)
    BY <2>1
  <2> QED
    BY <2>2 DEF D
<1>1. ASSUME NEW t \in Threads, NEW k \in Keys, Resolve(t, k) PROVE TypeOK'
  <2>1. FramesType'
    BY <1>0, <1>1, EnterFrames DEF Resolve
  <2>2. calls' \in [Threads -> 0..MaxCalls]
    BY <1>1 DEF Resolve, TypeOK
  <2> QED
    BY <1>1, <2>1, <2>2 DEF Resolve, TypeOK, FramesType
<1>2. ASSUME NEW t \in Threads, FindHit(t) \/ ClaimFound(t) \/ HooksDone(t) PROVE TypeOK'
  <2>1. frames[t] # <<>> /\ Return(t)
    BY <1>2 DEF FindHit, ClaimFound, HooksDone, Claiming, Running
  <2>2. FramesType' /\ exc' = exc /\ outcome' \in Outcomes
    BY <2>1, ReturnType
  <2> QED
    BY <1>2, <2>2 DEF FindHit, ClaimFound, HooksDone, TypeOK, FramesType
<1>3. ASSUME NEW t \in Threads, FindMiss(t) \/ ClaimWait(t) \/ ClaimOwn(t) PROVE TypeOK'
  <2>1. frames[t] # <<>> /\ \E p \in {"claim", "waiting", "construct"} : GoTo(t, p)
    BY <1>3 DEF FindMiss, ClaimWait, ClaimOwn, Claiming, Running
  <2>2. FramesType'
    BY <1>0, <2>1, GoToFrames DEF Points
  <2>3. Top(t).key \in Keys
    BY <2>1, DepIsKey DEF Frame
  <2>4. CASE FindMiss(t)
    BY <2>2, <2>4 DEF FindMiss, TypeOK, FramesType
  <2>5. CASE ClaimWait(t)
    BY <2>2, <2>3, <2>5 DEF ClaimWait, TypeOK, FramesType
  <2>6. CASE ClaimOwn(t)
    <3>1. stack' \in Stacks
      BY <1>0, <1>q, <2>3, <2>6 DEF ClaimOwn
    <3> QED
      BY <2>2, <2>3, <2>6, <3>1 DEF ClaimOwn, TypeOK, FramesType
  <2> QED
    BY <1>3, <2>4, <2>5, <2>6
<1>4. ASSUME NEW t \in Threads, ClaimCycle(t) \/ PrototypeCycle(t) PROVE TypeOK'
  <2>1. frames[t] # <<>> /\ Leave(t, "cycle")
    BY <1>4 DEF ClaimCycle, PrototypeCycle, Claiming, Running
  <2>2. FramesType'
    BY <1>0, <2>1, LeaveFrames DEF Leave
  <2>3. exc' \in Excs /\ outcome' \in Outcomes
    BY <2>1, PropagateType DEF Leave
  <2> QED
    BY <1>4, <2>2, <2>3 DEF ClaimCycle, PrototypeCycle, TypeOK, FramesType
<1>5. ASSUME NEW t \in Threads, SpuriousWakeup(t) PROVE TypeOK'
  <2>1. frames[t] # <<>> /\ GoTo(t, "woken")
    BY <1>5 DEF SpuriousWakeup, Running
  <2>2. FramesType'
    BY <1>0, <2>1, GoToFrames DEF Points
  <2> QED
    BY <1>5, <2>2 DEF SpuriousWakeup, TypeOK, FramesType
<1>6. ASSUME NEW t \in Threads, ConstructDep(t) \/ HookDep(t) PROVE TypeOK'
  <2>1. \E k \in Keys : Enter(t, k)
    BY <1>6, DepIsKey DEF ConstructDep, HookDep, Running
  <2>2. FramesType'
    BY <1>0, <2>1, EnterFrames
  <2> QED
    BY <1>6, <2>2 DEF ConstructDep, HookDep, TypeOK, FramesType
<1>7. ASSUME NEW t \in Threads, Constructed(t) \/ PrototypeConstructed(t) PROVE TypeOK'
  <2>1. frames[t] # <<>> /\ \E p \in {"store", "hooks"} : GoTo(t, p)
    BY <1>7 DEF Constructed, PrototypeConstructed, Running
  <2>2. FramesType'
    BY <1>0, <2>1, GoToFrames DEF Points
  <2>3. built' \in [Keys -> Nat]
    <3>1. Top(t).key \in Keys
      BY <2>1, DepIsKey DEF Frame
    <3>2. CASE Constructed(t)
      <4>1. built[Top(t).key] + 1 \in Nat
        BY <3>1 DEF TypeOK
      <4> QED
        BY <3>2, <4>1 DEF Constructed, TypeOK
    <3>3. CASE PrototypeConstructed(t)
      BY <3>3 DEF PrototypeConstructed, TypeOK
    <3> QED
      BY <1>7, <3>2, <3>3
  <2> QED
    BY <1>7, <2>2, <2>3 DEF Constructed, PrototypeConstructed, TypeOK, FramesType
<1>8. ASSUME NEW t \in Threads, ConstructorThrows(t) \/ HooksThrow(t) PROVE TypeOK'
  BY <1>8 DEF ConstructorThrows, HooksThrow, Throw, TypeOK
<1>9. ASSUME NEW t \in Threads, Abandon(t) \/ Store(t) PROVE TypeOK'
  <2>1. frames[t] # <<>> /\ \E p \in {"abandoned", "notify"} : GoTo(t, p)
    BY <1>9 DEF Abandon, Store, Running, Unwinding
  <2>2. FramesType'
    BY <1>0, <2>1, GoToFrames DEF Points
  <2>3. stack' \in Stacks
    BY <1>0, <1>9, <1>p DEF Abandon, Store
  <2>4. owner' \in [Keys -> Threads \union {NoThread}]
    BY <1>9 DEF Abandon, Store, TypeOK
  <2>5. stored' \subseteq Shared
    <3>1. frames[t] \in Seq(Frame) /\ Len(frames[t]) \in 1..Len(frames[t])
      BY <1>0, <2>1 DEF FramesType
    <3>2. Top(t).at = "store" => Top(t).key \in Shared
      BY <3>1 DEF Shape, Top, Depth, Points
    <3> QED
      BY <1>9, <3>2 DEF Abandon, Store, Running, TypeOK
  <2> QED
    BY <1>9, <2>2, <2>3, <2>4, <2>5 DEF Abandon, Store, TypeOK, FramesType
<1>10. ASSUME NEW t \in Threads, NotifyAbandoned(t) PROVE TypeOK'
  <2> DEFINE fs == [frames EXCEPT ![t] = Popped(@)]
  <2>1. frames[t] # <<>> /\ frames[t] \in Seq(Frame) /\ exc[t] \in {"cycle", "user"}
    BY <1>0, <1>10 DEF NotifyAbandoned, Unwinding, FramesType
  <2>2. fs \in [Threads -> Seq(Frame)]
    BY <1>0, <2>1, PoppedType DEF FramesType
  <2>3. FramesType'
    <3>1. frames' = Woken(Reg[Top(t).key], fs)
      BY <1>10 DEF NotifyAbandoned
    <3> HIDE DEF fs
    <3> QED
      BY <3>1, <2>2, WokenFrames DEF FramesType
  <2>4. exc' \in Excs /\ outcome' \in Outcomes
    BY <1>10, <2>1, PropagateType DEF NotifyAbandoned
  <2> QED
    BY <1>10, <2>3, <2>4 DEF NotifyAbandoned, TypeOK, FramesType
<1>11. ASSUME NEW t \in Threads, Notify(t) PROVE TypeOK'
  <2> DEFINE fs == Moved(t, "hooks")
  <2>1. frames[t] # <<>>
    BY <1>11 DEF Notify, Running
  <2>2. fs \in [Threads -> Seq(Frame)]
    BY <1>0, <2>1, MovedFrames DEF Points
  <2>3. FramesType'
    <3>1. frames' = Woken(Reg[Top(t).key], fs)
      BY <1>11 DEF Notify
    <3> HIDE DEF fs
    <3> QED
      BY <3>1, <2>2, WokenFrames DEF FramesType
  <2> QED
    BY <1>11, <2>3 DEF Notify, TypeOK, FramesType
<1>12. ASSUME NEW t \in Threads, HooksLeft(t) \/ PrototypeLeft(t) PROVE TypeOK'
  <2>1. frames[t] # <<>> /\ exc[t] \in {"cycle", "user"} /\ Leave(t, exc[t])
    BY <1>0, <1>12 DEF HooksLeft, PrototypeLeft, Unwinding
  <2>2. FramesType'
    BY <1>0, <2>1, LeaveFrames DEF Leave
  <2>3. exc' \in Excs /\ outcome' \in Outcomes
    BY <2>1, PropagateType DEF Leave
  <2>4. stack' \in Stacks
    BY <1>0, <1>12, <1>p DEF HooksLeft, PrototypeLeft
  <2> QED
    BY <1>12, <2>2, <2>3, <2>4 DEF HooksLeft, PrototypeLeft, TypeOK, FramesType
<1>13. ASSUME NEW t \in Threads, PrototypeGuard(t) PROVE TypeOK'
  <2>1. frames[t] # <<>> /\ GoTo(t, "construct")
    BY <1>13 DEF PrototypeGuard, Running
  <2>2. FramesType'
    BY <1>0, <2>1, GoToFrames DEF Points
  <2>3. Top(t).key \in Keys
    BY <2>1, DepIsKey DEF Frame
  <2>4. stack' \in Stacks
    BY <1>0, <1>q, <1>13, <2>3 DEF PrototypeGuard
  <2> QED
    BY <1>13, <2>2, <2>4 DEF PrototypeGuard, TypeOK, FramesType
<1>14. ASSUME NEW t \in Threads, PrototypeDone(t) PROVE TypeOK'
  <2>1. frames[t] # <<>> /\ Return(t)
    BY <1>14 DEF PrototypeDone, Running
  <2>2. FramesType' /\ exc' = exc /\ outcome' \in Outcomes
    BY <2>1, ReturnType
  <2>3. stack' \in Stacks
    BY <1>0, <1>14, <1>p DEF PrototypeDone
  <2> QED
    BY <1>14, <2>2, <2>3 DEF PrototypeDone, TypeOK, FramesType
<1>15. CASE AllDone \/ UNCHANGED vars
  BY <1>15 DEF AllDone, vars, TypeOK
<1> QED
  BY <1>1, <1>2, <1>3, <1>4, <1>5, <1>6, <1>7, <1>8, <1>9, <1>10, <1>11, <1>12,
     <1>13, <1>14, <1>15 DEF Next, Step

-----------------------------------------------------------------------------
(* The inductive invariant of the claim protocol.                          *)

\* A construction in progress is claimed by its thread and not stored.
HeldIsOwned ==
    \A t \in Threads : \A i \in 1..Len(frames[t]) :
        Holds(frames[t][i]) => /\ owner[frames[t][i].key] = t
                               /\ frames[t][i].key \notin stored

\* No thread constructs a key twice at the same time.
HeldOnce ==
    \A t \in Threads : \A i, j \in 1..Len(frames[t]) :
        Holds(frames[t][i]) /\ Holds(frames[t][j]) /\ frames[t][i].key = frames[t][j].key
            => i = j

\* Every entry of materializing_ belongs to a construction in progress.
OwnedIsHeld ==
    \A k \in Shared, t \in Threads :
        owner[k] = t => \E i \in 1..Len(frames[t]) :
                            frames[t][i].key = k /\ Holds(frames[t][i])

\* A key has an instance exactly when it is stored or about to be.
AboutToStore(k) ==
    \E t \in Threads : \E i \in 1..Len(frames[t]) :
        frames[t][i].key = k /\ frames[t][i].at = "store"
BuiltCount ==
    \A k \in Shared : built[k] = IF k \in stored \/ AboutToStore(k) THEN 1 ELSE 0

Claims == HeldIsOwned /\ HeldOnce /\ OwnedIsHeld /\ BuiltCount

\* The step neither starts nor ends a construction.
SameHolds ==
    /\ \A u \in Threads : \A i \in 1..Len(frames'[u]) :
        Holds(frames'[u][i]) => /\ i \in 1..Len(frames[u])
                                /\ frames'[u][i].key = frames[u][i].key
                                /\ frames'[u][i].at = frames[u][i].at
    /\ \A u \in Threads : \A i \in 1..Len(frames[u]) :
        Holds(frames[u][i]) => /\ i \in 1..Len(frames'[u])
                               /\ frames'[u][i].key = frames[u][i].key
                               /\ frames'[u][i].at = frames[u][i].at

\* Such a step preserves the claims.
LEMMA ClaimsQuiet ==
    ASSUME TypeOK, Claims, SameHolds, UNCHANGED <<owner, stored, built>>
    PROVE  Claims'
<1> USE DEF Claims
<1>1. HeldIsOwned'
  BY DEF HeldIsOwned, SameHolds, Holds
<1>2. HeldOnce'
  BY DEF HeldOnce, SameHolds, Holds
<1>3. OwnedIsHeld'
  <2> SUFFICES ASSUME NEW k \in Shared, NEW t \in Threads, owner[k] = t
               PROVE  \E i \in 1..Len(frames'[t]) :
                        frames'[t][i].key = k /\ Holds(frames'[t][i])
    BY DEF OwnedIsHeld
  <2>1. PICK i \in 1..Len(frames[t]) : frames[t][i].key = k /\ Holds(frames[t][i])
    BY DEF OwnedIsHeld
  <2> QED
    BY <2>1 DEF SameHolds, Holds
<1>4. BuiltCount'
  <2> SUFFICES ASSUME NEW k \in Shared PROVE AboutToStore(k)' <=> AboutToStore(k)
    BY DEF BuiltCount
  <2> QED
    BY DEF AboutToStore, SameHolds, Holds
<1> QED
  BY <1>1, <1>2, <1>3, <1>4

\* Steps that only push, pop or advance frames that hold nothing are quiet.
LEMMA QuietSteps ==
    ASSUME TypeOK, Shape, NEW t \in Threads,
           \/ \E k \in Keys : Resolve(t, k)
           \/ FindHit(t) \/ FindMiss(t) \/ ClaimFound(t) \/ ClaimWait(t) \/ ClaimCycle(t)
           \/ SpuriousWakeup(t) \/ ConstructDep(t) \/ ConstructorThrows(t)
           \/ NotifyAbandoned(t) \/ Notify(t)
           \/ HookDep(t) \/ HooksThrow(t) \/ HooksLeft(t) \/ HooksDone(t)
           \/ PrototypeGuard(t) \/ PrototypeCycle(t) \/ PrototypeConstructed(t)
           \/ PrototypeDone(t) \/ PrototypeLeft(t)
    PROVE  SameHolds /\ UNCHANGED <<owner, stored, built>>
<1>0. FramesType /\ frames[t] \in Seq(Frame) /\ Len(frames[t]) \in Nat
  BY DEF TypeOK, FramesType
<1>1. CASE \/ \E k \in Keys : Resolve(t, k)
           \/ ConstructDep(t) \/ HookDep(t)
  <2>1. PICK k \in Keys : Enter(t, k)
    BY <1>1, DepIsKey DEF Resolve, ConstructDep, HookDep, Running
  <2>2. ~Holds(NewFrame(k))
    BY DEF Holds, NewFrame
  <2> DEFINE n == Len(frames[t])
  <2>3. /\ OthersSame(t) /\ n \in Nat /\ Len(frames'[t]) = n + 1
        /\ \A i \in 1..n : frames'[t][i] = frames[t][i]
        /\ ~Holds(frames'[t][n + 1])
    BY <1>0, <2>1, <2>2, EnterFrames
  <2>4. 1..(n + 1) = 1..n \union {n + 1}
    BY <2>3
  <2> HIDE DEF n
  <2>5. \A i \in 1..Len(frames'[t]) : Holds(frames'[t][i]) => i \in 1..n
    BY <2>3, <2>4
  <2>6. SameHolds
    BY <2>3, <2>4, <2>5 DEF SameHolds, OthersSame, n
  <2> QED
    BY <1>1, <2>6 DEF Resolve, ConstructDep, HookDep
<1>2. CASE \/ FindHit(t) \/ ClaimFound(t) \/ HooksDone(t) \/ PrototypeDone(t)
  <2>1. /\ frames[t] # <<>> /\ Return(t)
        /\ Top(t).at \in {"find", "claim", "woken", "hooks"}
    BY <1>2 DEF FindHit, ClaimFound, HooksDone, PrototypeDone, Claiming, Running
  <2>2. ~Holds(frames[t][Len(frames[t])])
    BY <2>1 DEF Holds, Top, Depth
  <2>3. \A i \in 1..Len(frames'[t]) :
          frames'[t][i].key = frames[t][i].key /\ frames'[t][i].at = frames[t][i].at
    <3> DEFINE n == Len(frames[t]) - 1
               g(i) == [key |-> frames[t][i].key, at |-> frames[t][i].at,
                        next |-> frames[t][i].next + 1]
    <3>1. /\ Len(frames'[t]) = n
          /\ \A i \in 1..n : frames'[t][i] = IF i = n THEN g(i) ELSE frames[t][i]
      BY <1>0, <2>1, ReturnFrames
    <3>2. \A i \in 1..n : frames'[t][i] \in {g(i), frames[t][i]}
      BY <3>1
    <3>3. \A i : g(i).key = frames[t][i].key /\ g(i).at = frames[t][i].at
      OBVIOUS
    <3> HIDE DEF n, g
    <3> QED
      BY <3>1, <3>2, <3>3
  <2>4. Len(frames'[t]) = Len(frames[t]) - 1 /\ OthersSame(t)
    BY <1>0, <2>1, ReturnFrames
  <2>5. SameHolds
    BY <1>0, <2>2, <2>3, <2>4 DEF SameHolds, OthersSame, Holds
  <2> QED
    BY <1>2, <2>5 DEF FindHit, ClaimFound, HooksDone, PrototypeDone
<1>3. CASE \/ FindMiss(t) \/ ClaimWait(t) \/ SpuriousWakeup(t)
           \/ PrototypeGuard(t) \/ PrototypeConstructed(t)
  <2>1. PICK point \in Points :
          /\ frames[t] # <<>> /\ GoTo(t, point)
          /\ ~Holds(Top(t)) /\ (point = "construct" => Top(t).key \in Prototypes)
          /\ point # "store"
    BY <1>3 DEF FindMiss, ClaimWait, SpuriousWakeup, PrototypeGuard, PrototypeConstructed,
                Claiming, Running, Holds, Points, Shared
  <2> DEFINE f == [key |-> Top(t).key, at |-> point, next |-> 1]
  <2>2. ~Holds(f) /\ ~Holds(frames[t][Len(frames[t])])
    BY <2>1 DEF Holds, Shared, Top, Depth
  <2>3. /\ Len(frames'[t]) = Len(frames[t]) /\ OthersSame(t)
        /\ \A i \in 1..Len(frames[t]) - 1 : frames'[t][i] = frames[t][i]
        /\ frames'[t][Len(frames[t])] = f
    BY <1>0, <2>1, GoToFrames
  <2> HIDE DEF f
  <2>4. SameHolds
    BY <1>0, <2>2, <2>3 DEF SameHolds, OthersSame
  <2> QED
    BY <1>3, <2>4 DEF FindMiss, ClaimWait, SpuriousWakeup, PrototypeGuard, PrototypeConstructed
<1>4. CASE ClaimCycle(t) \/ HooksLeft(t) \/ PrototypeCycle(t) \/ PrototypeLeft(t)
  <2>1. /\ frames[t] # <<>> /\ frames' = [frames EXCEPT ![t] = Popped(@)]
        /\ Top(t).at \in {"find", "claim", "woken", "hooks"} \/ Top(t).key \in Prototypes
    BY <1>4 DEF ClaimCycle, HooksLeft, PrototypeCycle, PrototypeLeft, Claiming, Running,
                Unwinding, Leave
  <2>2. ~Holds(frames[t][Len(frames[t])])
    BY <2>1 DEF Holds, Shared, Top, Depth
  <2>3. /\ Len(frames'[t]) = Len(frames[t]) - 1 /\ OthersSame(t)
        /\ \A i \in 1..Len(frames[t]) - 1 : frames'[t][i] = frames[t][i]
    BY <1>0, <2>1, LeaveFrames
  <2>4. SameHolds
    BY <1>0, <2>2, <2>3 DEF SameHolds, OthersSame
  <2> QED
    BY <1>4, <2>4 DEF ClaimCycle, HooksLeft, PrototypeCycle, PrototypeLeft
<1>5. CASE ConstructorThrows(t) \/ HooksThrow(t)
  <2>1. frames' = frames
    BY <1>5 DEF ConstructorThrows, HooksThrow, Throw
  <2> QED
    BY <1>5, <2>1 DEF ConstructorThrows, HooksThrow, SameHolds
<1>6. CASE NotifyAbandoned(t) \/ Notify(t)
  <2>1. frames[t] # <<>> /\ ~Holds(frames[t][Len(frames[t])])
    BY <1>6 DEF NotifyAbandoned, Notify, Running, Unwinding, Holds, Top, Depth
  <2>2. /\ \A u \in Threads \ {t} :
             Len(frames'[u]) = Len(frames[u]) /\ \A i \in 1..Len(frames[u]) : Awakened(u, i)
        /\ \A i \in 1..Len(frames[t]) - 1 : Awakened(t, i)
        /\ Len(frames'[t]) \in {Len(frames[t]) - 1, Len(frames[t])}
        /\ Len(frames'[t]) = Len(frames[t]) => frames'[t][Len(frames[t])].at = "hooks"
    BY <1>0, <1>6, NotifiedFrames
  <2>4. SameHolds
    <3>1. ASSUME NEW u \in Threads \ {t}
          PROVE  /\ Len(frames'[u]) = Len(frames[u])
                 /\ \A i \in 1..Len(frames[u]) :
                      \/ frames'[u][i] = frames[u][i]
                      \/ ~Holds(frames[u][i]) /\ ~Holds(frames'[u][i])
      BY <2>2 DEF Holds, Awakened
    <3>2. \A i \in 1..Len(frames[t]) - 1 :
             \/ frames'[t][i] = frames[t][i]
             \/ ~Holds(frames[t][i]) /\ ~Holds(frames'[t][i])
      BY <2>2 DEF Holds, Awakened
    <3>3. Len(frames'[t]) = Len(frames[t]) => ~Holds(frames'[t][Len(frames[t])])
      BY <2>2 DEF Holds
    <3>4. Len(frames'[t]) \in {Len(frames[t]) - 1, Len(frames[t])}
      BY <2>2
    <3> DEFINE n == Len(frames[t])
               m == Len(frames'[t])
    <3>5. n \in Nat /\ 1..n = 1..(n - 1) \union {n}
      <4>1. n \in Nat /\ n # 0
        BY <1>0, <2>1
      <4> HIDE DEF n
      <4> QED
        BY <4>1
    <3>6. m = n - 1 \/ m = n
      BY <3>4
    <3> HIDE DEF n, m
    <3>7. ASSUME NEW i \in 1..m, Holds(frames'[t][i])
          PROVE  i \in 1..n /\ frames'[t][i] = frames[t][i]
      BY <3>2, <3>3, <3>5, <3>6, <3>7 DEF n, m
    <3>8. ASSUME NEW i \in 1..n, Holds(frames[t][i])
          PROVE  i \in 1..m /\ frames'[t][i] = frames[t][i]
      BY <2>1, <3>2, <3>5, <3>6, <3>8 DEF n
    <3> QED
      BY <3>1, <3>7, <3>8 DEF SameHolds, n, m
  <2> QED
    BY <1>6, <2>4 DEF NotifyAbandoned, Notify
<1> QED
  BY <1>1, <1>2, <1>3, <1>4, <1>5, <1>6

-----------------------------------------------------------------------------
(* Preservation of Shape.                                                  *)

\* A step that moves the top frame of t to a point changes that frame only.
LEMMA TopMoved ==
    ASSUME FramesType, NEW t \in Threads, frames[t] # <<>>,
           NEW point \in Points, GoTo(t, point)
    PROVE  /\ Len(frames[t]) \in Nat \ {0}
           /\ Len(frames[t]) \in 1..Len(frames[t])
           /\ \A u \in Threads : Len(frames'[u]) = Len(frames[u])
           /\ \A u \in Threads : \A i \in 1..Len(frames[u]) :
                u # t \/ i # Len(frames[t]) => frames'[u][i] = frames[u][i]
           /\ frames'[t][Len(frames[t])].key = Top(t).key
           /\ frames'[t][Len(frames[t])].at = point
<1>1. frames[t] \in Seq(Frame) /\ Len(frames[t]) \in Nat \ {0}
  BY DEF FramesType
<1> DEFINE n == Len(frames[t])
           f == [key |-> Top(t).key, at |-> point, next |-> 1]
<1>2. /\ OthersSame(t) /\ Len(frames'[t]) = n
      /\ \A i \in 1..n - 1 : frames'[t][i] = frames[t][i]
      /\ frames'[t][n] = f
  BY GoToFrames
<1>3. f.key = Top(t).key /\ f.at = point
  OBVIOUS
<1> HIDE DEF n, f
<1>4. n \in Nat \ {0} /\ n \in 1..n /\ \A i \in 1..n : i # n => i \in 1..n - 1
  BY <1>1 DEF n
<1> QED
  BY <1>2, <1>3, <1>4 DEF OthersSame, n

\* Moving the top frame to a point of the claim protocol needs a shared key.
LEMMA MoveShape ==
    ASSUME FramesType, Shape, NEW t \in Threads, frames[t] # <<>>,
           NEW point \in Points, GoTo(t, point),
           point \in {"find", "construct", "hooks"} \/ Top(t).key \in Shared
    PROVE  Shape'
<1> DEFINE n == Len(frames[t])
<1>1. /\ n \in Nat \ {0} /\ n \in 1..n
      /\ \A u \in Threads : Len(frames'[u]) = Len(frames[u])
      /\ \A u \in Threads : \A i \in 1..Len(frames[u]) :
           u # t \/ i # n => frames'[u][i] = frames[u][i]
      /\ frames'[t][n].key = Top(t).key
      /\ frames'[t][n].at = point
  BY TopMoved
<1> SUFFICES ASSUME NEW u \in Threads, NEW i \in 1..Len(frames[u])
    PROVE  /\ i < Len(frames[u]) => frames'[u][i].at \in {"construct", "hooks"}
           /\ frames'[u][i].at \in Points \ {"find", "construct", "hooks"}
                => frames'[u][i].key \in Shared
  BY <1>1 DEF Shape
<1>2. CASE u = t /\ i = n
  BY <1>1, <1>2
<1>3. CASE u # t \/ i # n
  BY <1>1, <1>3 DEF Shape
<1> QED
  BY <1>2, <1>3

\* Removing the top frame, and waking or resuming others, keeps the shape.
LEMMA PopShape ==
    ASSUME FramesType, Shape, NEW t \in Threads, frames[t] # <<>>,
           OthersSame(t), Len(frames'[t]) = Len(frames[t]) - 1,
           \A i \in 1..Len(frames[t]) - 1 : frames'[t][i].at = frames[t][i].at
    PROVE  Shape'
<1> DEFINE n == Len(frames[t])
<1>1. n \in Nat
  BY DEF FramesType
<1> SUFFICES ASSUME NEW u \in Threads, NEW i \in 1..Len(frames'[u])
    PROVE  /\ i < Len(frames'[u]) => frames'[u][i].at \in {"construct", "hooks"}
           /\ frames'[u][i].at \in Points \ {"find", "construct", "hooks"}
                => frames'[u][i].key \in Shared
  BY DEF Shape
<1>2. CASE u = t
  <2> HIDE DEF n
  <2>1. i \in 1..n - 1 /\ i \in 1..n /\ i < n
    BY <1>1, <1>2 DEF n
  <2>2. frames'[t][i].at = frames[t][i].at
    BY <2>1 DEF n
  <2>3. frames[t][i].at \in {"construct", "hooks"}
    BY <2>1 DEF Shape, n
  <2> QED
    BY <1>2, <2>2, <2>3
<1>3. CASE u # t
  BY <1>3 DEF Shape, OthersSame
<1> QED
  BY <1>2, <1>3

\* Every step keeps the shape of the call stacks.
LEMMA ShapePreserved == TypeOK /\ Shape /\ [Next]_vars => Shape'
<1> SUFFICES ASSUME TypeOK, Shape, [Next]_vars PROVE Shape'
  OBVIOUS
<1>0. FramesType /\ \A t \in Threads : frames[t] \in Seq(Frame) /\ Len(frames[t]) \in Nat
  BY DEF TypeOK, FramesType
<1>t. ASSUME NEW t \in Threads, frames[t] # <<>>,
             Top(t).at \in Points \ {"find", "construct", "hooks"}
      PROVE  Top(t).key \in Shared
  <2>1. Len(frames[t]) \in 1..Len(frames[t])
    BY <1>0, <1>t
  <2> QED
    BY <2>1, <1>t DEF Shape, Top, Depth
<1>1. ASSUME NEW t \in Threads, NEW k \in Keys, Enter(t, k),
             frames[t] = <<>> \/ Top(t).at \in {"construct", "hooks"}
      PROVE  Shape'
  <2> DEFINE n == Len(frames[t])
  <2>1. /\ OthersSame(t) /\ n \in Nat /\ Len(frames'[t]) = n + 1
        /\ \A i \in 1..n : frames'[t][i] = frames[t][i]
        /\ frames'[t][n + 1] = NewFrame(k)
    BY <1>0, <1>1, EnterFrames
  <2>2. n # 0 => frames[t][n].at \in {"construct", "hooks"}
    BY <1>0, <1>1 DEF Top, Depth
  <2>3. NewFrame(k).at = "find"
    BY DEF NewFrame
  <2> HIDE DEF n
  <2>4. ASSUME NEW i \in 1..n + 1
        PROVE  /\ i < n + 1 => frames'[t][i].at \in {"construct", "hooks"}
               /\ frames'[t][i].at \in Points \ {"find", "construct", "hooks"}
                    => frames'[t][i].key \in Shared
    <3>1. CASE i = n + 1
      BY <2>1, <2>3, <3>1
    <3>2. CASE i = n
      BY <2>1, <2>2, <3>2
    <3>3. CASE i \in 1..n /\ i < n
      BY <2>1, <3>3 DEF Shape, n
    <3> QED
      BY <2>1, <3>1, <3>2, <3>3
  <2> QED
    BY <2>1, <2>4 DEF Shape, OthersSame
<1>2. ASSUME NEW t \in Threads, \E k \in Keys : Resolve(t, k) PROVE Shape'
  BY <1>1, <1>2 DEF Resolve
<1>3. ASSUME NEW t \in Threads, ConstructDep(t) \/ HookDep(t) PROVE Shape'
  <2>1. \E k \in Keys : Enter(t, k)
    BY <1>3, DepIsKey DEF ConstructDep, HookDep, Running
  <2> QED
    BY <1>1, <1>3, <2>1 DEF ConstructDep, HookDep, Running
<1>4. ASSUME NEW t \in Threads, frames[t] # <<>>, Return(t) PROVE Shape'
  <2> DEFINE n == Len(frames[t]) - 1
             g(i) == [key |-> frames[t][i].key, at |-> frames[t][i].at,
                      next |-> frames[t][i].next + 1]
  <2>1. OthersSame(t) /\ Len(frames'[t]) = n
    BY <1>0, <1>4, ReturnFrames
  <2>2. \A i \in 1..n : frames'[t][i] = IF i = n THEN g(i) ELSE frames[t][i]
    BY <1>0, <1>4, ReturnFrames
  <2>3. \A i \in 1..n : frames'[t][i] \in {g(i), frames[t][i]}
    BY <2>2
  <2>4. \A i : g(i).at = frames[t][i].at
    OBVIOUS
  <2> HIDE DEF n, g
  <2>5. \A i \in 1..n : frames'[t][i].at = frames[t][i].at
    BY <2>3, <2>4
  <2> QED
    BY <1>0, <1>4, <2>1, <2>5, PopShape DEF n
<1>5. ASSUME NEW t \in Threads, FindHit(t) \/ ClaimFound(t) \/ HooksDone(t) \/ PrototypeDone(t)
      PROVE  Shape'
  BY <1>4, <1>5 DEF FindHit, ClaimFound, HooksDone, PrototypeDone, Claiming, Running
<1>6. ASSUME NEW t \in Threads,
             ClaimCycle(t) \/ HooksLeft(t) \/ PrototypeCycle(t) \/ PrototypeLeft(t)
      PROVE  Shape'
  <2>1. frames[t] # <<>> /\ frames' = [frames EXCEPT ![t] = Popped(@)]
    BY <1>6 DEF ClaimCycle, HooksLeft, PrototypeCycle, PrototypeLeft, Claiming, Running,
                Unwinding, Leave
  <2>2. /\ Len(frames'[t]) = Len(frames[t]) - 1 /\ OthersSame(t)
        /\ \A i \in 1..Len(frames[t]) - 1 : frames'[t][i] = frames[t][i]
    BY <1>0, <2>1, LeaveFrames
  <2>3. \A i \in 1..Len(frames[t]) - 1 : frames'[t][i].at = frames[t][i].at
    BY <2>2
  <2> QED
    BY <1>0, <2>1, <2>2, <2>3, PopShape
<1>7. ASSUME NEW t \in Threads,
             \/ FindMiss(t) \/ ClaimWait(t) \/ ClaimOwn(t) \/ SpuriousWakeup(t)
             \/ Constructed(t) \/ PrototypeConstructed(t) \/ PrototypeGuard(t)
             \/ Abandon(t) \/ Store(t)
      PROVE  Shape'
  <2>1. PICK point \in Points : GoTo(t, point)
                /\ (\/ point \in {"construct", "hooks"}
                    \/ Top(t).key \in Shared
                    \/ Top(t).at \in {"claim", "waiting", "woken", "store"})
    BY <1>7 DEF FindMiss, ClaimWait, ClaimOwn, SpuriousWakeup, Constructed,
                PrototypeConstructed, PrototypeGuard, Abandon, Store, Claiming, Running, Points
  <2>2. frames[t] # <<>>
    BY <1>7 DEF FindMiss, ClaimWait, ClaimOwn, SpuriousWakeup, Constructed,
                PrototypeConstructed, PrototypeGuard, Abandon, Store, Claiming, Running, Unwinding
  <2>3. point \in {"find", "construct", "hooks"} \/ Top(t).key \in Shared
    BY <1>t, <2>1, <2>2 DEF Points
  <2> QED
    BY <1>0, <2>1, <2>2, <2>3, MoveShape
<1>8. ASSUME NEW t \in Threads, NotifyAbandoned(t) \/ Notify(t) PROVE Shape'
  <2> DEFINE n == Len(frames[t])
             m == Len(frames'[t])
  <2>1. frames[t] # <<>>
    BY <1>0, <1>8, NotifiedFrames
  <2>2. \A u \in Threads \ {t} :
          Len(frames'[u]) = Len(frames[u]) /\ \A i \in 1..Len(frames[u]) : Awakened(u, i)
    BY <1>0, <1>8, NotifiedFrames
  <2>3. (\A i \in 1..n - 1 : Awakened(t, i)) /\ m \in {n - 1, n}
    BY <1>0, <1>8, NotifiedFrames
  <2>4. m = n => frames'[t][n].at = "hooks"
    BY <1>0, <1>8, NotifiedFrames
  <2>5. n \in Nat /\ n # 0
    BY <1>0, <2>1
  <2> HIDE DEF n, m
  <2>6. ASSUME NEW i \in 1..m
        PROVE  frames'[t][i].at \in {"construct", "hooks"}
    <3>1. CASE i = n
      BY <2>3, <2>4, <2>5, <3>1
    <3>2. CASE i # n
      <4>1. i \in 1..n - 1 /\ i \in 1..n /\ i < n
        BY <2>3, <2>5, <3>2
      <4>2. frames[t][i].at \in {"construct", "hooks"}
        BY <4>1 DEF Shape, n
      <4> QED
        BY <2>3, <4>1, <4>2 DEF Awakened
    <3> QED
      BY <3>1, <3>2
  <2>7. ASSUME NEW u \in Threads \ {t}, NEW i \in 1..Len(frames'[u])
        PROVE  /\ i < Len(frames'[u]) => frames'[u][i].at \in {"construct", "hooks"}
               /\ frames'[u][i].at \in Points \ {"find", "construct", "hooks"}
                    => frames'[u][i].key \in Shared
    BY <2>2 DEF Shape, Awakened, Points
  <2> QED
    BY <2>6, <2>7 DEF Shape, m
<1>9. CASE \/ \E t \in Threads : ConstructorThrows(t) \/ HooksThrow(t)
           \/ AllDone \/ UNCHANGED vars
  BY <1>9 DEF ConstructorThrows, HooksThrow, Throw, AllDone, vars, Shape
<1> QED
  BY <1>2, <1>3, <1>5, <1>6, <1>7, <1>8, <1>9 DEF Next, Step

-----------------------------------------------------------------------------
(* The steps that take or give up a claim.                                 *)

\* The step moves the frame at the top of t, and nothing else in frames.
OnlyTop(t, k, point) ==
    /\ Len(frames[t]) \in 1..Len(frames[t])
    /\ frames[t][Len(frames[t])].key = k
    /\ \A u \in Threads : Len(frames'[u]) = Len(frames[u])
    /\ \A u \in Threads : \A i \in 1..Len(frames[u]) :
         u # t \/ i # Len(frames[t]) => frames'[u][i] = frames[u][i]
    /\ frames'[t][Len(frames[t])].key = k
    /\ frames'[t][Len(frames[t])].at = point

\* Moving to another point of a call changes the thread's top frame only.
LEMMA MovesOnlyTop ==
    ASSUME TypeOK, NEW t \in Threads, frames[t] # <<>>,
           NEW point \in Points, GoTo(t, point)
    PROVE  OnlyTop(t, Top(t).key, point)
BY TopMoved DEF TypeOK, FramesType, OnlyTop, Top, Depth

\* Whether a key is about to be stored is decided by the frame that moves.
LEMMA AboutToStoreOthers ==
    ASSUME NEW t \in Threads, NEW k \in Shared, NEW point, OnlyTop(t, k, point),
           NEW q \in Shared, q # k
    PROVE  AboutToStore(q)' <=> AboutToStore(q)
<1>1. ASSUME NEW u \in Threads, NEW i \in 1..Len(frames[u])
      PROVE  \/ frames'[u][i] = frames[u][i]
             \/ frames[u][i].key # q /\ frames'[u][i].key # q
  BY DEF OnlyTop
<1>2. \A u \in Threads : Len(frames'[u]) = Len(frames[u])
  BY DEF OnlyTop
<1> QED
  BY <1>1, <1>2 DEF AboutToStore

\* Taking a claim.
LEMMA ClaimOwnClaims ==
    ASSUME TypeOK, Shape, Claims, NEW t \in Threads, ClaimOwn(t)
    PROVE  Claims'
<1> USE DEF Claims
<1> DEFINE k == Top(t).key
           n == Len(frames[t])
<1>1. /\ frames[t] # <<>> /\ Top(t).at \in {"claim", "woken"} /\ GoTo(t, "construct")
      /\ k \notin stored /\ owner[k] = NoThread
      /\ owner' = [owner EXCEPT ![k] = t] /\ UNCHANGED <<stored, built>>
  BY DEF ClaimOwn, Claiming, Running
<1>2. OnlyTop(t, k, "construct")
  BY <1>1, MovesOnlyTop DEF Points
<1>3. k \in Shared /\ k \in Keys /\ ~Holds(frames[t][n]) /\ Holds(frames'[t][n])
  <2>1. k \in Shared /\ k \in Keys
    BY <1>1, <1>2 DEF Shape, OnlyTop, Top, Depth, Points, Shared
  <2> QED
    BY <1>1, <1>2, <2>1 DEF Holds, OnlyTop, Top, Depth
<1>4. owner' = [owner EXCEPT ![k] = t] /\ owner \in [Keys -> Threads \union {NoThread}]
      /\ \A u \in Threads : u # NoThread
  BY <1>1, ConstantsOK DEF TypeOK
<1> HIDE DEF k, n
<1>5. HeldIsOwned'
  <2> SUFFICES ASSUME NEW u \in Threads, NEW i \in 1..Len(frames[u]), Holds(frames'[u][i])
      PROVE  owner'[frames'[u][i].key] = u /\ frames'[u][i].key \notin stored
    BY <1>1, <1>2 DEF HeldIsOwned, OnlyTop, Holds
  <2>1. CASE u = t /\ i = n
    BY <1>1, <1>2, <1>3, <1>4, <2>1 DEF OnlyTop, n
  <2>2. CASE u # t \/ i # n
    <3>1. frames'[u][i] = frames[u][i]
      BY <1>2, <2>2 DEF OnlyTop, n
    <3>2. owner[frames[u][i].key] = u /\ frames[u][i].key \notin stored
      BY <3>1 DEF HeldIsOwned
    <3>3. frames[u][i].key \in Keys
      BY <3>1 DEF Holds, Shared
    <3> QED
      BY <1>1, <1>4, <3>1, <3>2, <3>3
  <2> QED
    BY <2>1, <2>2
<1>6. HeldOnce'
  <2> SUFFICES ASSUME NEW u \in Threads, NEW i \in 1..Len(frames[u]),
                      NEW j \in 1..Len(frames[u]),
                      Holds(frames'[u][i]), Holds(frames'[u][j]),
                      frames'[u][i].key = frames'[u][j].key
      PROVE  i = j
    BY <1>2 DEF HeldOnce, OnlyTop, Holds
  <2>1. ASSUME NEW x \in 1..Len(frames[u]), Holds(frames'[u][x]), u # t \/ x # n
        PROVE  frames'[u][x] = frames[u][x] /\ frames[u][x].key # k
    <3>1. frames'[u][x] = frames[u][x]
      BY <1>2, <2>1 DEF OnlyTop, n
    <3> QED
      BY <1>1, <1>4, <2>1, <3>1 DEF HeldIsOwned
  <2>2. u = t => frames'[t][n].key = k
    BY <1>2 DEF OnlyTop, n
  <2>3. CASE (u # t \/ i # n) /\ (u # t \/ j # n)
    BY <2>1, <2>3 DEF HeldOnce
  <2>4. CASE u = t /\ i = n /\ j # n
    BY <2>1, <2>2, <2>4
  <2>5. CASE u = t /\ j = n /\ i # n
    BY <2>1, <2>2, <2>5
  <2> QED
    BY <2>3, <2>4, <2>5
<1>7. OwnedIsHeld'
  <2> SUFFICES ASSUME NEW q \in Shared, NEW u \in Threads, owner'[q] = u
      PROVE  \E i \in 1..Len(frames'[u]) : frames'[u][i].key = q /\ Holds(frames'[u][i])
    BY DEF OwnedIsHeld, Holds
  <2>1. CASE q = k
    <3>1. u = t
      BY <1>3, <1>4, <2>1
    <3> QED
      BY <1>2, <1>3, <2>1, <3>1 DEF OnlyTop, n
  <2>2. CASE q # k
    <3>1. owner[q] = u
      BY <1>4, <2>2 DEF Shared
    <3>2. PICK i \in 1..Len(frames[u]) : frames[u][i].key = q /\ Holds(frames[u][i])
      BY <3>1 DEF OwnedIsHeld
    <3>3. frames'[u][i] = frames[u][i] /\ i \in 1..Len(frames'[u])
      BY <1>2, <1>3, <3>2 DEF OnlyTop, n
    <3> QED
      BY <3>2, <3>3
  <2> QED
    BY <2>1, <2>2
<1>8. BuiltCount'
  <2> SUFFICES ASSUME NEW q \in Shared PROVE AboutToStore(q)' <=> AboutToStore(q)
    BY <1>1 DEF BuiltCount
  <2>1. frames[t][n].at # "store" /\ frames'[t][n].at # "store"
    BY <1>1, <1>2 DEF OnlyTop, Top, Depth, n
  <2> QED
    BY <1>2, <2>1 DEF AboutToStore, OnlyTop, n
<1> QED
  BY <1>5, <1>6, <1>7, <1>8

\* The constructor returning: the claim is kept and an instance appears.
LEMMA ConstructedClaims ==
    ASSUME TypeOK, Shape, Claims, NEW t \in Threads, Constructed(t)
    PROVE  Claims'
<1> USE DEF Claims
<1> DEFINE k == Top(t).key
           n == Len(frames[t])
<1>1. /\ frames[t] # <<>> /\ Top(t).at = "construct" /\ GoTo(t, "store") /\ k \in Shared
      /\ built' = [built EXCEPT ![k] = @ + 1] /\ UNCHANGED <<stored, owner>>
  BY DEF Constructed, Running
<1>2. OnlyTop(t, k, "store")
  BY <1>1, MovesOnlyTop DEF Points
<1>3. Holds(frames[t][n]) /\ Holds(frames'[t][n]) /\ frames[t][n].at = "construct"
  BY <1>1, <1>2 DEF Holds, OnlyTop, Top, Depth
<1>4. ASSUME NEW u \in Threads, NEW i \in 1..Len(frames[u])
      PROVE  /\ frames'[u][i].key = frames[u][i].key
             /\ Holds(frames'[u][i]) <=> Holds(frames[u][i])
  <2>1. CASE u = t /\ i = n
    BY <1>2, <1>3, <2>1 DEF OnlyTop
  <2>2. CASE u # t \/ i # n
    BY <1>2, <2>2 DEF OnlyTop
  <2> QED
    BY <2>1, <2>2
<1>5. \A u \in Threads : Len(frames'[u]) = Len(frames[u])
  BY <1>2 DEF OnlyTop
<1>6. HeldIsOwned'
  BY <1>1, <1>4, <1>5 DEF HeldIsOwned
<1>7. HeldOnce'
  BY <1>4, <1>5 DEF HeldOnce
<1>8. OwnedIsHeld'
  BY <1>1, <1>4, <1>5 DEF OwnedIsHeld
<1>9. BuiltCount'
  <2> SUFFICES ASSUME NEW q \in Shared
      PROVE  built'[q] = IF q \in stored \/ AboutToStore(q)' THEN 1 ELSE 0
    BY <1>1 DEF BuiltCount
  <2>1. CASE q = k
    <3>1. k \notin stored /\ owner[k] = t
      BY <1>2, <1>3 DEF HeldIsOwned, OnlyTop, n
    <3>2. ~AboutToStore(k)
      <4> SUFFICES ASSUME NEW u \in Threads, NEW i \in 1..Len(frames[u]),
                          frames[u][i].key = k, frames[u][i].at = "store"
          PROVE  FALSE
        BY DEF AboutToStore
      <4>1. Holds(frames[u][i])
        BY <1>1 DEF Holds
      <4>2. u = t
        BY <3>1, <4>1 DEF HeldIsOwned
      <4>3. i = n
        BY <1>2, <1>3, <4>1, <4>2 DEF HeldOnce, OnlyTop
      <4> QED
        BY <1>3, <4>2, <4>3
    <3>3. AboutToStore(q)'
      BY <1>2, <2>1 DEF AboutToStore, OnlyTop
    <3>4. built[k] = 0 /\ k \in Keys
      BY <1>1, <3>1, <3>2 DEF BuiltCount, Shared
    <3>5. built'[k] = 1
      BY <1>1, <3>4 DEF TypeOK
    <3> QED
      BY <2>1, <3>3, <3>5
  <2>2. CASE q # k
    <3>1. AboutToStore(q)' <=> AboutToStore(q)
      BY <1>1, <1>2, <2>2, AboutToStoreOthers
    <3>2. built'[q] = built[q]
      BY <1>1, <2>2 DEF TypeOK, Shared
    <3> QED
      BY <3>1, <3>2 DEF BuiltCount
  <2> QED
    BY <2>1, <2>2
<1> QED
  BY <1>6, <1>7, <1>8, <1>9

\* Giving up a claim: the top frame of t leaves the construction of its key.
LEMMA Released ==
    ASSUME TypeOK, Claims, NEW t \in Threads, NEW k \in Shared,
           NEW point \in {"abandoned", "notify"}, OnlyTop(t, k, point),
           Holds(frames[t][Len(frames[t])]),
           owner' = [owner EXCEPT ![k] = NoThread],
           stored' \in {stored, stored \union {k}}
    PROVE  HeldIsOwned' /\ HeldOnce' /\ OwnedIsHeld'
<1> USE DEF Claims
<1> DEFINE n == Len(frames[t])
<1>1. ~Holds(frames'[t][n]) /\ \A u \in Threads : Len(frames'[u]) = Len(frames[u])
  BY DEF OnlyTop, Holds
<1>2. ASSUME NEW u \in Threads, NEW i \in 1..Len(frames[u]), Holds(frames'[u][i])
      PROVE  /\ frames'[u][i] = frames[u][i] /\ frames[u][i].key \in Keys
             /\ frames[u][i].key # k
  <2>1. u # t \/ i # n
    BY <1>1, <1>2
  <2>2. frames'[u][i] = frames[u][i]
    BY <2>1 DEF OnlyTop
  <2>3. frames[u][i].key # k
    BY <1>2, <2>1, <2>2 DEF HeldIsOwned, HeldOnce, OnlyTop
  <2> QED
    BY <1>2, <2>2, <2>3 DEF Holds, Shared
<1>3. owner \in [Keys -> Threads \union {NoThread}] /\ k \in Keys
  BY DEF TypeOK, Shared
<1> HIDE DEF n
<1>4. HeldIsOwned'
  <2> SUFFICES ASSUME NEW u \in Threads, NEW i \in 1..Len(frames[u]), Holds(frames'[u][i])
      PROVE  owner'[frames'[u][i].key] = u /\ frames'[u][i].key \notin stored'
    BY <1>1 DEF HeldIsOwned, Holds
  <2> QED
    BY <1>2, <1>3 DEF HeldIsOwned
<1>5. HeldOnce'
  BY <1>1, <1>2 DEF HeldOnce
<1>6. OwnedIsHeld'
  <2> SUFFICES ASSUME NEW q \in Shared, NEW u \in Threads, owner'[q] = u
      PROVE  \E i \in 1..Len(frames'[u]) : frames'[u][i].key = q /\ Holds(frames'[u][i])
    BY DEF OwnedIsHeld, Holds
  <2>1. q # k /\ owner[q] = u
    BY <1>3, ConstantsOK DEF Shared
  <2>2. PICK i \in 1..Len(frames[u]) : frames[u][i].key = q /\ Holds(frames[u][i])
    BY <2>1 DEF OwnedIsHeld
  <2>3. frames'[u][i] = frames[u][i] /\ i \in 1..Len(frames'[u])
    BY <1>1, <2>1, <2>2 DEF OnlyTop
  <2> QED
    BY <2>2, <2>3
<1> QED
  BY <1>4, <1>5, <1>6

\* A failed construction gives its claim back and leaves no instance.
LEMMA AbandonClaims ==
    ASSUME TypeOK, Shape, Claims, NEW t \in Threads, Abandon(t)
    PROVE  Claims'
<1> DEFINE k == Top(t).key
           n == Len(frames[t])
<1>1. /\ frames[t] # <<>> /\ Top(t).at = "construct" /\ GoTo(t, "abandoned") /\ k \in Shared
      /\ owner' = [owner EXCEPT ![k] = NoThread] /\ UNCHANGED <<stored, built>>
  BY DEF Abandon, Unwinding
<1>2. OnlyTop(t, k, "abandoned")
  BY <1>1, MovesOnlyTop DEF Points
<1>3. Holds(frames[t][n]) /\ frames[t][n].at # "store" /\ frames'[t][n].at # "store"
  BY <1>1, <1>2 DEF Holds, OnlyTop, Top, Depth
<1> HIDE DEF k
<1>4. HeldIsOwned' /\ HeldOnce' /\ OwnedIsHeld'
  BY <1>1, <1>2, <1>3, Released
<1>5. BuiltCount'
  <2> SUFFICES ASSUME NEW q \in Shared PROVE AboutToStore(q)' <=> AboutToStore(q)
    BY <1>1 DEF BuiltCount, Claims
  <2> HIDE DEF n
  <2> QED
    BY <1>2, <1>3 DEF AboutToStore, OnlyTop, n
<1> QED
  BY <1>4, <1>5 DEF Claims

\* Storing turns the instance of the claim into the stored one.
LEMMA StoreClaims ==
    ASSUME TypeOK, Shape, Claims, NEW t \in Threads, Store(t)
    PROVE  Claims'
<1> DEFINE k == Top(t).key
           n == Len(frames[t])
<1>1. /\ frames[t] # <<>> /\ Top(t).at = "store" /\ GoTo(t, "notify")
      /\ owner' = [owner EXCEPT ![k] = NoThread]
      /\ stored' = stored \union {k} /\ built' = built
  BY DEF Store, Running
<1>2. OnlyTop(t, k, "notify")
  BY <1>1, MovesOnlyTop DEF Points
<1>3. /\ k \in Shared /\ Holds(frames[t][n])
      /\ frames[t][n].at = "store" /\ frames'[t][n].at = "notify"
      /\ n \in 1..Len(frames[t]) /\ frames[t][n].key = k
  <2>1. k \in Shared
    BY <1>1, <1>2 DEF Shape, OnlyTop, Top, Depth, Points
  <2> QED
    BY <1>1, <1>2, <2>1 DEF Holds, OnlyTop, Top, Depth
<1> HIDE DEF k
<1>4. HeldIsOwned' /\ HeldOnce' /\ OwnedIsHeld'
  BY <1>1, <1>2, <1>3, Released
<1>5. BuiltCount'
  <2> SUFFICES ASSUME NEW q \in Shared
      PROVE  built[q] = IF q \in stored \union {k} \/ AboutToStore(q)' THEN 1 ELSE 0
    BY <1>1 DEF BuiltCount
  <2>1. CASE q = k
    <3>1. AboutToStore(k)
      BY <1>3 DEF AboutToStore
    <3>2. built[k] = 1
      BY <1>3, <3>1 DEF Claims, BuiltCount
    <3> QED
      BY <2>1, <3>2
  <2>2. CASE q # k
    <3>1. AboutToStore(q)' <=> AboutToStore(q)
      BY <1>2, <1>3, <2>2, AboutToStoreOthers
    <3> QED
      BY <2>2, <3>1 DEF Claims, BuiltCount
  <2> QED
    BY <2>1, <2>2
<1> QED
  BY <1>4, <1>5 DEF Claims

\* Every step preserves the claim protocol's invariant.
LEMMA ClaimsPreserved == TypeOK /\ Shape /\ Claims /\ [Next]_vars => Claims'
<1> SUFFICES ASSUME TypeOK, Shape, Claims, [Next]_vars PROVE Claims'
  OBVIOUS
<1>1. CASE \E t \in Threads : ClaimOwn(t) \/ Constructed(t) \/ Abandon(t) \/ Store(t)
  BY <1>1, ClaimOwnClaims, ConstructedClaims, AbandonClaims, StoreClaims
<1>2. CASE AllDone \/ UNCHANGED vars
  <2>1. SameHolds /\ UNCHANGED <<owner, stored, built>>
    BY <1>2 DEF AllDone, vars, SameHolds
  <2> QED
    BY <2>1, ClaimsQuiet
<1>3. ASSUME ~(\E t \in Threads : ClaimOwn(t) \/ Constructed(t) \/ Abandon(t) \/ Store(t)),
             ~(AllDone \/ UNCHANGED vars)
      PROVE  Claims'
  <2>1. SameHolds /\ UNCHANGED <<owner, stored, built>>
    BY <1>3, QuietSteps DEF Next, Step
  <2> QED
    BY <2>1, ClaimsQuiet
<1> QED
  BY <1>1, <1>2, <1>3

-----------------------------------------------------------------------------
(* The theorems.                                                           *)

IInv == TypeOK /\ Shape /\ Claims

\* Nothing is claimed, built or on a call stack in the initial state.
LEMMA InitIInv == Init => IInv
<1> SUFFICES ASSUME Init PROVE IInv
  OBVIOUS
<1>1. \A t \in Threads : frames[t] = <<>> /\ Len(frames[t]) = 0
  BY DEF Init
<1>2. TypeOK
  BY ConstantsOK DEF Init, TypeOK
<1>3. Shape
  BY <1>1 DEF Shape
<1>4. HeldIsOwned /\ HeldOnce
  BY <1>1 DEF HeldIsOwned, HeldOnce
<1>5. OwnedIsHeld
  BY ConstantsOK DEF Init, OwnedIsHeld, Shared
<1>6. BuiltCount
  <2>1. \A k \in Shared : ~AboutToStore(k)
    BY <1>1 DEF AboutToStore
  <2> QED
    BY <2>1 DEF BuiltCount, Init, Shared
<1> QED
  BY <1>2, <1>3, <1>4, <1>5, <1>6 DEF IInv, Claims

\* The claim protocol's invariant holds in every reachable state.
THEOREM Inductive == Spec => []IInv
<1>1. IInv /\ [Next]_vars => IInv'
  BY TypePreserved, ShapePreserved, ClaimsPreserved DEF IInv
<1> QED
  BY InitIInv, <1>1, PTL DEF Spec

\* Every variable of the protocol keeps its type, with any number of threads
\* and keys (materializeOneImpl, claimMaterializationOrWait).
THEOREM TypeCorrect == Spec => []TypeOK
<1>1. IInv => TypeOK
  BY DEF IInv
<1> QED
  BY Inductive, <1>1, PTL

\* However threads, failures and wakeups interleave, a singleton or session
\* bean is constructed at most once and what the store holds is that instance.
THEOREM BuiltOnce == Spec => []AtMostOneInstance
<1>1. IInv => AtMostOneInstance
  <2> SUFFICES ASSUME IInv, NEW k \in Shared
      PROVE  built[k] <= 1 /\ (k \in stored => built[k] = 1)
    BY DEF AtMostOneInstance
  <2>1. built[k] = IF k \in stored \/ AboutToStore(k) THEN 1 ELSE 0
    BY DEF IInv, Claims, BuiltCount
  <2> QED
    BY <2>1
<1> QED
  BY Inductive, <1>1, PTL

\* materializing_ has an entry for a key exactly while one thread constructs it:
\* no error path leaves a stale entry and no two threads hold the same one.
THEOREM ClaimsCorrect == Spec => []ClaimsMatchFrames
<1>1. IInv => ClaimsMatchFrames
  BY DEF IInv, Claims, HeldIsOwned, OwnedIsHeld, ClaimsMatchFrames
<1> QED
  BY Inductive, <1>1, PTL

-----------------------------------------------------------------------------
(***************************************************************************)
(* The order in which beans are published.  A stored bean's dependencies   *)
(* are stored, and a bean that needs a cycle of constructors is never      *)
(* stored.  Both follow a constructor through the list of beans it         *)
(* resolves: what it has resolved so far lies in some set of keys, and a   *)
(* resolve returns only for keys of that set.                              *)
(***************************************************************************)

\* A constructor that waits for a resolve waits for the frame above it.
Linked ==
    \A t \in Threads : \A i, j \in 1..Len(frames[t]) :
        j = i + 1 /\ frames[t][i].at = "construct"
            => frames[t][j].key = Deps[frames[t][i].key][frames[t][i].next]

\* The keys that the constructor of frame f has resolved so far are in G.
DepsIn(G, f) ==
    \A d \in 1..Len(Deps[f.key]) : d < f.next => Deps[f.key][d] \in G

ResolvedIn(G, fs) ==
    \A t \in Threads : \A i \in 1..Len(fs[t]) :
        fs[t][i].at = "construct" => DepsIn(G, fs[t][i])

\* A frame that is not changed, or only at a point other than "construct".
Steady(u, i) ==
    \/ frames'[u][i] = frames[u][i]
    \/ /\ frames'[u][i].key = frames[u][i].key
       /\ frames'[u][i].at # "construct"

-----------------------------------------------------------------------------
(* The kinds of steps, seen from the frames.                               *)

\* A resolve starts.
Pushes(t) ==
    /\ OthersSame(t)
    /\ Len(frames'[t]) = Len(frames[t]) + 1
    /\ \A i \in 1..Len(frames[t]) : frames'[t][i] = frames[t][i]
    /\ frames'[t][Len(frames[t]) + 1].at = "find"
    /\ \/ Len(frames[t]) = 0
       \/ frames[t][Len(frames[t])].at # "construct"
       \/ LET f == frames[t][Len(frames[t])]
          IN  frames'[t][Len(frames[t]) + 1].key = Deps[f.key][f.next]

\* A resolve returns a bean to its caller.
Returns(t) ==
    /\ OthersSame(t)
    /\ Len(frames'[t]) = Len(frames[t]) - 1
    /\ \A i \in 1..Len(frames[t]) - 1 :
        /\ i # Len(frames[t]) - 1 => frames'[t][i] = frames[t][i]
        /\ i = Len(frames[t]) - 1 =>
             /\ frames'[t][i].key = frames[t][i].key
             /\ frames'[t][i].at = frames[t][i].at
             /\ frames'[t][i].next = frames[t][i].next + 1

\* A top frame moves, or disappears, and nobody's constructor advances.
Settles ==
    \A u \in Threads : \A i \in 1..Len(frames'[u]) :
        /\ i \in 1..Len(frames[u])
        /\ \/ Steady(u, i)
           \/ /\ frames'[u][i].key = frames[u][i].key
              /\ i = Len(frames'[u])
              /\ frames'[u][i].next = 1

\* A nested resolve called by a constructor is the resolve its frame stands at.
LEMMA PushesLinked ==
    ASSUME TypeOK, Linked, NEW t \in Threads, Pushes(t) PROVE Linked'
<1> DEFINE n == Len(frames[t])
<1>1. n \in Nat
  BY DEF TypeOK
<1> SUFFICES ASSUME NEW u \in Threads, NEW i \in 1..Len(frames'[u]),
                    NEW j \in 1..Len(frames'[u]), j = i + 1, frames'[u][i].at = "construct"
    PROVE  frames'[u][j].key = Deps[frames'[u][i].key][frames'[u][i].next]
  BY DEF Linked
<1>2. CASE u # t
  <2>1. frames'[u] = frames[u]
    BY <1>2 DEF Pushes, OthersSame
  <2> QED
    BY <2>1 DEF Linked
<1>3. CASE u = t /\ j \in 1..n
  <2>1. i \in 1..n
    <3> HIDE DEF n
    <3> QED
      BY <1>1, <1>3
  <2>2. frames'[t][i] = frames[t][i] /\ frames'[t][j] = frames[t][j]
    BY <1>3, <2>1 DEF Pushes
  <2> QED
    BY <1>3, <2>1, <2>2 DEF Linked
<1>4. CASE u = t /\ j \notin 1..n
  <2>1. j = n + 1 /\ i = n /\ n \in 1..n
    <3>1. Len(frames'[t]) = n + 1
      BY DEF Pushes
    <3> HIDE DEF n
    <3> QED
      BY <1>1, <1>4, <3>1
  <2>2. frames'[t][n] = frames[t][n]
    BY <2>1 DEF Pushes
  <2>3. frames'[t][n + 1].key = Deps[frames[t][n].key][frames[t][n].next]
    BY <1>4, <2>1, <2>2 DEF Pushes
  <2> QED
    BY <1>4, <2>1, <2>2, <2>3
<1> QED
  BY <1>2, <1>3, <1>4

\* A return removes the callee of the frame whose progress it advances.
LEMMA ReturnsLinked ==
    ASSUME TypeOK, Linked, NEW t \in Threads, Returns(t) PROVE Linked'
<1> DEFINE n == Len(frames[t])
<1>1. n \in Nat /\ Len(frames'[t]) = n - 1
  BY DEF TypeOK, Returns
<1> SUFFICES ASSUME NEW u \in Threads, NEW i \in 1..Len(frames'[u]),
                    NEW j \in 1..Len(frames'[u]), j = i + 1, frames'[u][i].at = "construct"
    PROVE  frames'[u][j].key = Deps[frames'[u][i].key][frames'[u][i].next]
  BY DEF Linked
<1>2. CASE u # t
  BY <1>2 DEF Returns, OthersSame, Linked
<1>3. CASE u = t
  <2> HIDE DEF n
  <2>1. i \in 1..n - 1 /\ i # n - 1 /\ j \in 1..n - 1 /\ i \in 1..n /\ j \in 1..n
    BY <1>1, <1>3
  <2>2. frames'[t][i] = frames[t][i] /\ frames'[t][j].key = frames[t][j].key
    BY <2>1 DEF Returns, n
  <2> QED
    BY <1>3, <2>1, <2>2 DEF Linked, n
<1> QED
  BY <1>2, <1>3

\* Steps that push nothing and advance no caller keep caller and callee linked.
LEMMA SettlesLinked ==
    ASSUME TypeOK, Linked, Settles, TypeOK' PROVE Linked'
<1> SUFFICES ASSUME NEW u \in Threads, NEW i \in 1..Len(frames'[u]),
                    NEW j \in 1..Len(frames'[u]), j = i + 1, frames'[u][i].at = "construct"
    PROVE  frames'[u][j].key = Deps[frames'[u][i].key][frames'[u][i].next]
  BY DEF Linked
<1>1. Len(frames'[u]) \in Nat
  BY DEF TypeOK
<1>2. i # Len(frames'[u]) /\ i \in 1..Len(frames[u]) /\ j \in 1..Len(frames[u])
  BY <1>1 DEF Settles
<1>3. frames'[u][i] = frames[u][i] /\ frames'[u][j].key = frames[u][j].key
  BY <1>2 DEF Settles, Steady
<1> QED
  BY <1>2, <1>3 DEF Linked

\* A new frame has resolved nothing yet; the frames below it are as before.
LEMMA PushesResolved ==
    ASSUME TypeOK, NEW t \in Threads, Pushes(t), NEW G, ResolvedIn(G, frames)
    PROVE  ResolvedIn(G, frames')
<1> DEFINE n == Len(frames[t])
<1>1. n \in Nat /\ Len(frames'[t]) = n + 1
  BY DEF TypeOK, Pushes
<1> SUFFICES ASSUME NEW u \in Threads, NEW i \in 1..Len(frames'[u]),
                    frames'[u][i].at = "construct"
    PROVE  DepsIn(G, frames'[u][i])
  BY DEF ResolvedIn
<1>2. frames'[u][i] = frames[u][i] /\ i \in 1..Len(frames[u])
  <2>1. CASE u # t
    BY <2>1 DEF Pushes, OthersSame
  <2>2. CASE u = t /\ i = n + 1
    BY <2>2 DEF Pushes
  <2>3. CASE u = t /\ i # n + 1
    <3> HIDE DEF n
    <3>1. i \in 1..n
      BY <1>1, <2>3
    <3> QED
      BY <2>3, <3>1 DEF Pushes, n
  <2> QED
    BY <2>1, <2>2, <2>3
<1> QED
  BY <1>2 DEF ResolvedIn

\* The one step that extends what a constructor has resolved: the key that is
\* returned must be in the set.
LEMMA ReturnsResolved ==
    ASSUME TypeOK, Linked, NEW t \in Threads, frames[t] # <<>>, Returns(t),
           NEW G, ResolvedIn(G, frames), Top(t).key \in G
    PROVE  ResolvedIn(G, frames')
<1> DEFINE n == Len(frames[t])
<1>1. n \in Nat /\ n # 0 /\ Len(frames'[t]) = n - 1 /\ frames[t] \in Seq(Frame)
  BY DEF TypeOK, Returns
<1> SUFFICES ASSUME NEW u \in Threads, NEW i \in 1..Len(frames'[u]),
                    frames'[u][i].at = "construct"
    PROVE  DepsIn(G, frames'[u][i])
  BY DEF ResolvedIn
<1>2. CASE u # t
  BY <1>2 DEF Returns, OthersSame, ResolvedIn
<1>3. CASE u = t /\ i # n - 1
  <2> HIDE DEF n
  <2>1. i \in 1..n - 1 /\ i \in 1..n
    BY <1>1, <1>3
  <2>2. frames'[t][i] = frames[t][i]
    BY <1>3, <2>1 DEF Returns, n
  <2> QED
    BY <1>3, <2>1, <2>2 DEF ResolvedIn, n
<1>4. CASE u = t /\ i = n - 1
  <2>0. Top(t) = frames[t][n]
    BY DEF Top, Depth
  <2> HIDE DEF n
  <2>1. i \in 1..n - 1 /\ i \in 1..n /\ n \in 1..n /\ n = i + 1
    BY <1>1, <1>4
  <2> DEFINE f == frames[t][i]
             g == frames'[t][i]
  <2>2. g.key = f.key /\ g.at = f.at /\ g.next = f.next + 1
    BY <1>4, <2>1 DEF Returns, n
  <2>3. f.at = "construct" /\ DepsIn(G, f)
    BY <1>4, <2>1, <2>2 DEF ResolvedIn, n
  <2>4. Deps[f.key][f.next] = Top(t).key
    BY <2>0, <2>1, <2>3 DEF Linked, n
  <2>5. f.next \in Nat /\ f.key \in Keys
    <3>1. f \in Frame
      BY <1>1, <2>1 DEF n
    <3> QED
      BY <3>1 DEF Frame
  <2> HIDE DEF f, g
  <2>6. DepsIn(G, g)
    <3> SUFFICES ASSUME NEW d \in 1..Len(Deps[g.key]), d < g.next PROVE Deps[g.key][d] \in G
      BY DEF DepsIn
    <3>1. d < f.next \/ d = f.next
      <4>1. d \in Nat
        OBVIOUS
      <4> QED
        BY <2>2, <2>5, <4>1
    <3> QED
      BY <2>2, <2>3, <2>4, <3>1 DEF DepsIn
  <2> QED
    BY <1>4, <2>6 DEF g
<1> QED
  BY <1>2, <1>3, <1>4

\* Steps that advance no caller leave the set of resolved dependencies alone.
LEMMA SettlesResolved ==
    ASSUME Settles, NEW G, ResolvedIn(G, frames)
    PROVE  ResolvedIn(G, frames')
<1> SUFFICES ASSUME NEW u \in Threads, NEW i \in 1..Len(frames'[u]),
                    frames'[u][i].at = "construct"
    PROVE  DepsIn(G, frames'[u][i])
  BY DEF ResolvedIn
<1>1. i \in 1..Len(frames[u])
      /\ (frames'[u][i] = frames[u][i] \/ frames'[u][i].next = 1)
  BY DEF Settles, Steady
<1>2. CASE frames'[u][i] = frames[u][i]
  BY <1>1, <1>2 DEF ResolvedIn
<1>3. CASE frames'[u][i].next = 1
  <2>1. \A d \in 1..Len(Deps[frames'[u][i].key]) : ~(d < 1)
    OBVIOUS
  <2> QED
    BY <1>3, <2>1 DEF DepsIn
<1> QED
  BY <1>1, <1>2, <1>3

-----------------------------------------------------------------------------
(* Every step is of one of these kinds.                                    *)

\* The three ways into materializeOneImpl push one frame.
LEMMA EnterPushes ==
    ASSUME TypeOK, NEW t \in Threads,
           (\E k \in Keys : Resolve(t, k)) \/ ConstructDep(t) \/ HookDep(t)
    PROVE  Pushes(t)
<1> DEFINE n == Len(frames[t])
           f == frames[t][n]
<1>1. PICK k \in Keys : /\ Enter(t, k)
                        /\ n = 0 \/ f.at # "construct" \/ k = Deps[f.key][f.next]
  <2>1. CASE \E k \in Keys : Resolve(t, k)
    BY <2>1 DEF Resolve
  <2>2. CASE ConstructDep(t)
    BY <2>2, DepIsKey DEF ConstructDep, Running, Top, Depth
  <2>3. CASE HookDep(t)
    BY <2>3, DepIsKey DEF HookDep, Running, Top, Depth
  <2> QED
    BY <2>1, <2>2, <2>3
<1>2. FramesType
  BY DEF TypeOK, FramesType
<1>3. /\ OthersSame(t) /\ Len(frames'[t]) = n + 1
      /\ \A i \in 1..n : frames'[t][i] = frames[t][i]
      /\ frames'[t][n + 1] = NewFrame(k)
  BY <1>1, <1>2, EnterFrames
<1>4. NewFrame(k).at = "find" /\ NewFrame(k).key = k
  BY DEF NewFrame
<1> QED
  BY <1>1, <1>3, <1>4 DEF Pushes

\* Returning a bean pops one frame and advances its caller by one resolve.
LEMMA ReturnReturns ==
    ASSUME TypeOK, NEW t \in Threads, frames[t] # <<>>, Return(t) PROVE Returns(t)
<1> DEFINE n == Len(frames[t]) - 1
           g(i) == [key |-> frames[t][i].key, at |-> frames[t][i].at,
                    next |-> frames[t][i].next + 1]
<1>0. FramesType
  BY DEF TypeOK, FramesType
<1>1. OthersSame(t) /\ Len(frames'[t]) = n
  BY <1>0, ReturnFrames
<1>2. \A i \in 1..n : frames'[t][i] = IF i = n THEN g(i) ELSE frames[t][i]
  BY <1>0, ReturnFrames
<1>3. \A i : g(i).key = frames[t][i].key /\ g(i).at = frames[t][i].at
             /\ g(i).next = frames[t][i].next + 1
  OBVIOUS
<1>4. \A i \in 1..n : (i # n => frames'[t][i] = frames[t][i])
                      /\ (i = n => frames'[t][i] = g(i))
  <2> HIDE DEF g
  <2> QED
    BY <1>2
<1> HIDE DEF g, n
<1> QED
  BY <1>1, <1>3, <1>4 DEF Returns, n

\* Moving inside a call pushes nothing and advances no caller.
LEMMA MoveSettles ==
    ASSUME TypeOK, NEW t \in Threads, frames[t] # <<>>,
           NEW point \in Points, GoTo(t, point)
    PROVE  Settles
<1> DEFINE n == Len(frames[t])
           f == [key |-> Top(t).key, at |-> point, next |-> 1]
<1>0. FramesType /\ Top(t) = frames[t][n]
  BY DEF TypeOK, FramesType, Top, Depth
<1>1. \A u \in Threads : Len(frames'[u]) = Len(frames[u])
  BY <1>0, TopMoved
<1>2. \A u \in Threads : \A i \in 1..Len(frames[u]) :
        u # t \/ i # n => frames'[u][i] = frames[u][i]
  BY <1>0, TopMoved
<1>3. frames'[t][n] = f
  BY <1>0, GoToFrames
<1>4. f.key = frames[t][n].key /\ f.next = 1
  BY <1>0
<1> HIDE DEF f
<1> QED
  BY <1>1, <1>2, <1>3, <1>4 DEF Settles, Steady

\* A call left by an exception is popped and its caller does not advance.
LEMMA LeaveSettles ==
    ASSUME TypeOK, NEW t \in Threads, frames[t] # <<>>,
           frames' = [frames EXCEPT ![t] = Popped(@)]
    PROVE  Settles
<1> DEFINE n == Len(frames[t])
<1>0. FramesType /\ n \in Nat
  BY DEF TypeOK, FramesType
<1>1. OthersSame(t) /\ Len(frames'[t]) = n - 1
      /\ \A i \in 1..n - 1 : frames'[t][i] = frames[t][i]
  BY <1>0, LeaveFrames
<1> HIDE DEF n
<1>2. \A i \in 1..n - 1 : i \in 1..n
  BY <1>0
<1> QED
  BY <1>1, <1>2 DEF Settles, Steady, OthersSame, n

\* Waking waiters pushes nothing and advances no caller.
LEMMA NotifySettles ==
    ASSUME TypeOK, NEW t \in Threads, NotifyAbandoned(t) \/ Notify(t)
    PROVE  Settles
<1> DEFINE n == Len(frames[t])
           m == Len(frames'[t])
<1>0. FramesType /\ n \in Nat
  BY DEF TypeOK, FramesType
<1>1. \A u \in Threads \ {t} :
        Len(frames'[u]) = Len(frames[u]) /\ \A i \in 1..Len(frames[u]) : Awakened(u, i)
  BY <1>0, NotifiedFrames
<1>2. (\A i \in 1..n - 1 : Awakened(t, i)) /\ m \in {n - 1, n}
  BY <1>0, NotifiedFrames
<1>3. m = n => frames'[t][n].at = "hooks" /\ frames'[t][n].key = frames[t][n].key
  BY <1>0, NotifiedFrames
<1> HIDE DEF n, m
<1>4. ASSUME NEW u \in Threads \ {t}, NEW i \in 1..Len(frames'[u])
      PROVE  i \in 1..Len(frames[u]) /\ Steady(u, i)
  BY <1>1 DEF Steady, Awakened
<1>5. ASSUME NEW i \in 1..m
      PROVE  i \in 1..n /\ Steady(t, i)
  <2>1. CASE i \in 1..n - 1
    <3>1. i \in 1..n
      BY <1>0, <2>1
    <3> QED
      BY <1>2, <2>1, <3>1 DEF Awakened, Steady
  <2>2. CASE i \notin 1..n - 1
    <3>1. i = n /\ m = n
      BY <1>0, <1>2, <2>2
    <3> QED
      BY <1>0, <1>3, <3>1 DEF Steady
  <2> QED
    BY <2>1, <2>2
<1> QED
  BY <1>4, <1>5 DEF Settles, n, m

\* The point a frame has reached when its resolve returns a bean.
Finishing(t) ==
    \/ Top(t).key \in stored
    \/ Top(t).at = "hooks"

\* Every step pushes a call, returns from one whose bean is available, or leaves
\* the progress of all callers alone.
LEMMA StepKinds ==
    ASSUME TypeOK, Shape, [Next]_vars
    PROVE  \/ \E t \in Threads : Pushes(t)
           \/ \E t \in Threads : frames[t] # <<>> /\ Returns(t) /\ Finishing(t)
           \/ Settles
<1>1. ASSUME NEW t \in Threads,
             (\E k \in Keys : Resolve(t, k)) \/ ConstructDep(t) \/ HookDep(t)
      PROVE  Pushes(t)
  BY <1>1, EnterPushes
<1>2. ASSUME NEW t \in Threads, FindHit(t) \/ ClaimFound(t) \/ HooksDone(t) \/ PrototypeDone(t)
      PROVE  frames[t] # <<>> /\ Returns(t) /\ Finishing(t)
  <2>1. frames[t] # <<>> /\ Return(t) /\ Finishing(t)
    BY <1>2 DEF FindHit, ClaimFound, HooksDone, PrototypeDone, Claiming, Running, Finishing
  <2> QED
    BY <2>1, ReturnReturns
<1>3. ASSUME NEW t \in Threads,
             ClaimCycle(t) \/ HooksLeft(t) \/ PrototypeCycle(t) \/ PrototypeLeft(t)
      PROVE  Settles
  <2>1. frames[t] # <<>> /\ frames' = [frames EXCEPT ![t] = Popped(@)]
    BY <1>3 DEF ClaimCycle, HooksLeft, PrototypeCycle, PrototypeLeft, Claiming, Running,
                Unwinding, Leave
  <2> QED
    BY <2>1, LeaveSettles
<1>4. ASSUME NEW t \in Threads,
             \/ FindMiss(t) \/ ClaimWait(t) \/ ClaimOwn(t) \/ SpuriousWakeup(t)
             \/ Constructed(t) \/ PrototypeConstructed(t) \/ PrototypeGuard(t)
             \/ Abandon(t) \/ Store(t)
      PROVE  Settles
  <2>1. \E point \in Points : GoTo(t, point)
    BY <1>4 DEF FindMiss, ClaimWait, ClaimOwn, SpuriousWakeup, Constructed,
                PrototypeConstructed, PrototypeGuard, Abandon, Store, Points
  <2>2. frames[t] # <<>>
    BY <1>4 DEF FindMiss, ClaimWait, ClaimOwn, SpuriousWakeup, Constructed,
                PrototypeConstructed, PrototypeGuard, Abandon, Store, Claiming, Running, Unwinding
  <2> QED
    BY <2>1, <2>2, MoveSettles
<1>5. ASSUME NEW t \in Threads, NotifyAbandoned(t) \/ Notify(t) PROVE Settles
  BY <1>5, NotifySettles
<1>6. CASE \/ \E t \in Threads : ConstructorThrows(t) \/ HooksThrow(t)
           \/ AllDone \/ UNCHANGED vars
  BY <1>6 DEF ConstructorThrows, HooksThrow, Throw, AllDone, vars, Settles, Steady
<1> QED
  BY <1>1, <1>2, <1>3, <1>4, <1>5, <1>6 DEF Next, Step

-----------------------------------------------------------------------------
(* How a frame gets past its constructor.                                  *)

Late == {"store", "notify", "hooks"}

\* A frame that is past its constructor already was, or its constructor just
\* returned, or it was just stored, or its waiters were just notified.
Arrives(u, i) ==
    \/ /\ i \in 1..Len(frames[u])
       /\ frames'[u][i].key = frames[u][i].key
       /\ \/ frames'[u][i].at = frames[u][i].at
          \/ frames'[u][i].at = "hooks" /\ frames[u][i].at = "notify"
    \/ /\ frames'[u][i].key = Top(u).key
       /\ \/ frames'[u][i].at = "store" /\ Constructed(u)
          \/ frames'[u][i].at = "notify" /\ Store(u)
          \/ frames'[u][i].at = "hooks" /\ PrototypeConstructed(u)

\* A frame that is past its construction was there before the step, or has just
\* resolved the last dependency of its constructor.
LEMMA Arrivals ==
    ASSUME TypeOK, Shape, [Next]_vars
    PROVE  \A u \in Threads : \A i \in 1..Len(frames'[u]) :
             frames'[u][i].at \in Late => Arrives(u, i)
<1> SUFFICES ASSUME NEW u \in Threads, NEW i \in 1..Len(frames'[u]), frames'[u][i].at \in Late
    PROVE  Arrives(u, i)
  OBVIOUS
<1>0. FramesType /\ \A t \in Threads : Len(frames[t]) \in Nat
  BY DEF TypeOK, FramesType
<1>1. ASSUME NEW t \in Threads, Pushes(t) PROVE Arrives(u, i)
  <2> DEFINE n == Len(frames[t])
  <2>1. CASE u # t
    BY <1>1, <2>1 DEF Pushes, OthersSame, Arrives
  <2>2. CASE u = t
    <3>1. Len(frames'[t]) = n + 1 /\ n \in Nat /\ frames'[t][n + 1].at = "find"
      BY <1>0, <1>1 DEF Pushes
    <3> HIDE DEF n
    <3>2. i \in 1..n
      BY <2>2, <3>1 DEF Late
    <3>3. frames'[t][i] = frames[t][i]
      BY <1>1, <3>2 DEF Pushes, n
    <3> QED
      BY <2>2, <3>2, <3>3 DEF Arrives, n
  <2> QED
    BY <2>1, <2>2
<1>2. ASSUME NEW t \in Threads, Returns(t) PROVE Arrives(u, i)
  <2> DEFINE n == Len(frames[t])
  <2>1. CASE u # t
    BY <1>2, <2>1 DEF Returns, OthersSame, Arrives
  <2>2. CASE u = t
    <3>1. Len(frames'[t]) = n - 1 /\ n \in Nat
      BY <1>0, <1>2 DEF Returns
    <3> HIDE DEF n
    <3>2. i \in 1..n - 1 /\ i \in 1..n
      BY <2>2, <3>1
    <3>3. frames'[t][i].key = frames[t][i].key /\ frames'[t][i].at = frames[t][i].at
      BY <1>2, <3>2 DEF Returns, n
    <3> QED
      BY <2>2, <3>2, <3>3 DEF Arrives, n
  <2> QED
    BY <2>1, <2>2
<1>3. ASSUME NEW t \in Threads, frames[t] # <<>>, frames' = [frames EXCEPT ![t] = Popped(@)]
      PROVE  Arrives(u, i)
  <2> DEFINE n == Len(frames[t])
  <2>1. /\ OthersSame(t) /\ Len(frames'[t]) = n - 1 /\ n \in Nat
        /\ \A j \in 1..n - 1 : frames'[t][j] = frames[t][j]
    BY <1>0, <1>3, LeaveFrames
  <2>2. CASE u # t
    BY <2>1, <2>2 DEF OthersSame, Arrives
  <2>3. CASE u = t
    <3> HIDE DEF n
    <3>1. i \in 1..n - 1 /\ i \in 1..n
      BY <2>1, <2>3
    <3> QED
      BY <2>1, <2>3, <3>1 DEF Arrives, n
  <2> QED
    BY <2>2, <2>3
<1>4. ASSUME NEW t \in Threads, frames[t] # <<>>, NEW point \in Points, GoTo(t, point),
             \/ point \notin Late
             \/ point = "store" /\ Constructed(t)
             \/ point = "notify" /\ Store(t)
             \/ point = "hooks" /\ PrototypeConstructed(t)
      PROVE  Arrives(u, i)
  <2>1. OnlyTop(t, Top(t).key, point)
    BY <1>4, MovesOnlyTop
  <2>2. CASE u = t /\ i = Len(frames[t])
    BY <1>4, <2>1, <2>2 DEF OnlyTop, Arrives, Late
  <2>3. CASE u # t \/ i # Len(frames[t])
    BY <2>1, <2>3 DEF OnlyTop, Arrives
  <2> QED
    BY <2>2, <2>3
<1>5. ASSUME NEW t \in Threads,
             \/ FindMiss(t) \/ ClaimWait(t) \/ ClaimOwn(t) \/ SpuriousWakeup(t)
             \/ Constructed(t) \/ PrototypeConstructed(t) \/ PrototypeGuard(t)
             \/ Abandon(t) \/ Store(t)
      PROVE  Arrives(u, i)
  <2>1. frames[t] # <<>>
    BY <1>5 DEF FindMiss, ClaimWait, ClaimOwn, SpuriousWakeup, Constructed,
                PrototypeConstructed, PrototypeGuard, Abandon, Store, Claiming, Running, Unwinding
  <2>2. \E point \in Points :
          /\ GoTo(t, point)
          /\ \/ point \notin Late
             \/ point = "store" /\ Constructed(t)
             \/ point = "notify" /\ Store(t)
             \/ point = "hooks" /\ PrototypeConstructed(t)
    <3>1. CASE \/ FindMiss(t) \/ ClaimWait(t) \/ ClaimOwn(t) \/ SpuriousWakeup(t)
               \/ PrototypeGuard(t) \/ Abandon(t)
      BY <3>1 DEF FindMiss, ClaimWait, ClaimOwn, SpuriousWakeup, PrototypeGuard, Abandon,
                  Points, Late
    <3>2. CASE Constructed(t)
      <4>1. GoTo(t, "store") /\ "store" \in Points
        BY <3>2 DEF Constructed, Points
      <4> QED
        BY <3>2, <4>1
    <3>3. CASE Store(t)
      <4>1. GoTo(t, "notify") /\ "notify" \in Points
        BY <3>3 DEF Store, Points
      <4> QED
        BY <3>3, <4>1
    <3>4. CASE PrototypeConstructed(t)
      <4>1. GoTo(t, "hooks") /\ "hooks" \in Points
        BY <3>4 DEF PrototypeConstructed, Points
      <4> QED
        BY <3>4, <4>1
    <3> QED
      BY <1>5, <3>1, <3>2, <3>3, <3>4
  <2> QED
    BY <1>4, <2>1, <2>2
<1>6. ASSUME NEW t \in Threads, NotifyAbandoned(t) \/ Notify(t) PROVE Arrives(u, i)
  <2> DEFINE n == Len(frames[t])
             m == Len(frames'[t])
  <2>1. frames[t] # <<>> /\ Top(t).at \in {"notify", "abandoned"}
    BY <1>0, <1>6, NotifiedFrames
  <2>2. \A v \in Threads \ {t} :
          Len(frames'[v]) = Len(frames[v]) /\ \A j \in 1..Len(frames[v]) : Awakened(v, j)
    BY <1>0, <1>6, NotifiedFrames
  <2>3. (\A j \in 1..n - 1 : Awakened(t, j)) /\ m \in {n - 1, n} /\ n \in Nat
    BY <1>0, <1>6, NotifiedFrames
  <2>4. m = n => frames'[t][n].at = "hooks" /\ frames'[t][n].key = frames[t][n].key
    BY <1>0, <1>6, NotifiedFrames
  <2>5. m = n => frames[t][n].at = "notify"
    <3>1. CASE Notify(t)
      BY <3>1 DEF Notify, Running, Top, Depth
    <3>2. CASE NotifyAbandoned(t)
      <4> DEFINE p == Popped(frames[t])
                 fs == [frames EXCEPT ![t] = p]
      <4>1. frames[t] \in Seq(Frame)
        BY <1>0 DEF FramesType
      <4>2. p \in Seq(Frame) /\ Len(p) = n - 1
        BY <2>1, <4>1, PoppedFrames
      <4>3. fs \in [Threads -> Seq(Frame)] /\ fs[t] = p
        BY <1>0, <4>2 DEF FramesType
      <4>4. frames' = Woken(Reg[Top(t).key], fs)
        BY <3>2 DEF NotifyAbandoned
      <4> HIDE DEF p, fs
      <4>5. Len(Woken(Reg[Top(t).key], fs)[t]) = Len(fs[t])
        BY <4>3, WokenFrames, Zenon
      <4>6. m = n - 1
        BY <4>2, <4>3, <4>4, <4>5
      <4> QED
        BY <2>3, <4>6
    <3> QED
      BY <1>6, <3>1, <3>2
  <2> HIDE DEF n, m
  <2>6. CASE u # t
    BY <2>2, <2>6 DEF Awakened, Arrives, Late
  <2>7. CASE u = t /\ i \in 1..n - 1
    <3>1. i \in 1..n
      BY <2>3, <2>7
    <3> QED
      BY <2>3, <2>7, <3>1 DEF Awakened, Arrives, Late, n
  <2>8. CASE u = t /\ i \notin 1..n - 1
    <3>1. i = n /\ m = n /\ i \in 1..n
      BY <2>3, <2>8 DEF m
    <3> QED
      BY <2>4, <2>5, <2>8, <3>1 DEF Arrives, n
  <2> QED
    BY <2>6, <2>7, <2>8
<1>7. ASSUME NEW t \in Threads, FindHit(t) \/ ClaimFound(t) \/ HooksDone(t) \/ PrototypeDone(t)
      PROVE  Arrives(u, i)
  <2>1. frames[t] # <<>> /\ Return(t)
    BY <1>7 DEF FindHit, ClaimFound, HooksDone, PrototypeDone, Claiming, Running
  <2> QED
    BY <1>2, <2>1, ReturnReturns
<1>8. ASSUME NEW t \in Threads,
             ClaimCycle(t) \/ HooksLeft(t) \/ PrototypeCycle(t) \/ PrototypeLeft(t)
      PROVE  Arrives(u, i)
  BY <1>3, <1>8 DEF ClaimCycle, HooksLeft, PrototypeCycle, PrototypeLeft, Claiming, Running,
                    Unwinding, Leave
<1>9. ASSUME NEW t \in Threads,
             (\E k \in Keys : Resolve(t, k)) \/ ConstructDep(t) \/ HookDep(t)
      PROVE  Arrives(u, i)
  BY <1>1, <1>9, EnterPushes
<1>10. CASE \/ \E t \in Threads : ConstructorThrows(t) \/ HooksThrow(t)
            \/ AllDone \/ UNCHANGED vars
  BY <1>10 DEF ConstructorThrows, HooksThrow, Throw, AllDone, vars, Arrives
<1> QED
  BY <1>5, <1>6, <1>7, <1>8, <1>9, <1>10 DEF Next, Step

\* The store only grows, by the key whose materialization stores it.
LEMMA StoredGrows ==
    ASSUME [Next]_vars
    PROVE  \/ stored' = stored
           \/ \E t \in Threads : Store(t) /\ stored' = stored \union {Top(t).key}
BY DEF Next, Step, vars, AllDone, Resolve, FindHit, FindMiss, ClaimFound, ClaimOwn, ClaimWait,
       ClaimCycle, SpuriousWakeup, ConstructDep, Constructed, ConstructorThrows, Abandon,
       NotifyAbandoned, Store, Notify, HookDep, HooksThrow, HooksLeft, HooksDone,
       PrototypeGuard, PrototypeCycle, PrototypeConstructed, PrototypeDone, PrototypeLeft

\* When the constructor of t's top frame returns, all it needs is in G.
LEMMA ConstructedDeps ==
    ASSUME TypeOK, NEW t \in Threads, NEW G, ResolvedIn(G, frames),
           Constructed(t) \/ PrototypeConstructed(t)
    PROVE  CtorDeps(Top(t).key) \subseteq G
<1> DEFINE f == Top(t)
<1>1. /\ frames[t] # <<>> /\ f.at = "construct" /\ f.next > Len(Deps[f.key])
  BY DEF Constructed, PrototypeConstructed, Running
<1>2. f \in Frame /\ f = frames[t][Len(frames[t])] /\ Len(frames[t]) \in 1..Len(frames[t])
  BY <1>1 DEF TypeOK, Top, Depth
<1>3. DepsIn(G, f)
  BY <1>1, <1>2 DEF ResolvedIn
<1>4. Deps[f.key] \in Seq(Keys) /\ f.next \in Nat
  BY <1>2, ConstantsOK DEF Frame
<1> HIDE DEF f
<1>5. \A d \in 1..Len(Deps[f.key]) : d < f.next
  BY <1>1, <1>4
<1> QED
  BY <1>3, <1>5 DEF DepsIn, CtorDeps, f

\* Every step keeps a constructing frame linked to the resolve it is waiting for.
LEMMA LinkedPreserved ==
    ASSUME TypeOK, TypeOK', Shape, Linked, [Next]_vars PROVE Linked'
BY StepKinds, PushesLinked, ReturnsLinked, SettlesLinked

\* If every call that returns yields a key of G, the dependencies a constructor
\* has already resolved stay within G.
LEMMA ResolvedPreserved ==
    ASSUME TypeOK, Shape, Linked, [Next]_vars, NEW G, ResolvedIn(G, frames),
           \A t \in Threads : frames[t] # <<>> /\ Finishing(t) => Top(t).key \in G
    PROVE  ResolvedIn(G, frames')
BY StepKinds, PushesResolved, ReturnsResolved, SettlesResolved

-----------------------------------------------------------------------------
(* A stored bean's dependencies are stored.                                *)

Available == stored \union Prototypes

OrderInv ==
    /\ Linked
    /\ ResolvedIn(Available, frames)
    /\ \A t \in Threads : \A i \in 1..Len(frames[t]) :
        /\ frames[t][i].at = "store" => CtorDeps(frames[t][i].key) \subseteq Available
        /\ frames[t][i].at \in {"notify", "hooks"} => frames[t][i].key \in Available
    /\ DepsStoredFirst

\* The invariant behind dependency order is inductive, given IInv.
LEMMA OrderPreserved == IInv /\ IInv' /\ OrderInv /\ [Next]_vars => OrderInv'
<1> SUFFICES ASSUME IInv, IInv', OrderInv, [Next]_vars PROVE OrderInv'
  OBVIOUS
<1>0. TypeOK /\ Shape /\ TypeOK'
  BY DEF IInv
<1>1. Available \subseteq Available'
  BY StoredGrows DEF Available
<1>2. Linked'
  BY <1>0, LinkedPreserved DEF OrderInv
<1>3. ResolvedIn(Available, frames)'
  <2> DEFINE G == Available'
  <2>1. ResolvedIn(G, frames)
    BY <1>1 DEF OrderInv, ResolvedIn, DepsIn
  <2>2. ASSUME NEW t \in Threads, frames[t] # <<>>, Finishing(t) PROVE Top(t).key \in G
    <3>1. CASE Top(t).key \in stored
      BY <1>1, <3>1 DEF Available
    <3>2. CASE Top(t).at = "hooks"
      <4>1. Len(frames[t]) \in 1..Len(frames[t])
        BY <1>0, <2>2 DEF TypeOK
      <4> QED
        BY <1>1, <3>2, <4>1 DEF OrderInv, Top, Depth
    <3> QED
      BY <2>2, <3>1, <3>2 DEF Finishing
  <2> HIDE DEF G
  <2>3. ResolvedIn(G, frames')
    BY <1>0, <2>1, <2>2, ResolvedPreserved DEF OrderInv
  <2> QED
    BY <2>3 DEF G
<1>4. ASSUME NEW u \in Threads, NEW i \in 1..Len(frames'[u])
      PROVE  /\ frames'[u][i].at = "store" => CtorDeps(frames'[u][i].key) \subseteq Available'
             /\ frames'[u][i].at \in {"notify", "hooks"} => frames'[u][i].key \in Available'
  <2> SUFFICES ASSUME frames'[u][i].at \in Late
      PROVE  /\ frames'[u][i].at = "store" => CtorDeps(frames'[u][i].key) \subseteq Available'
             /\ frames'[u][i].at \in {"notify", "hooks"} => frames'[u][i].key \in Available'
    BY DEF Late
  <2>1. Arrives(u, i)
    BY <1>0, Arrivals
  <2>2. CASE /\ i \in 1..Len(frames[u])
             /\ frames'[u][i].key = frames[u][i].key
             /\ \/ frames'[u][i].at = frames[u][i].at
                \/ frames'[u][i].at = "hooks" /\ frames[u][i].at = "notify"
    <3>1. /\ frames[u][i].at = "store" => CtorDeps(frames[u][i].key) \subseteq Available
          /\ frames[u][i].at \in {"notify", "hooks"} => frames[u][i].key \in Available
      BY <2>2 DEF OrderInv
    <3> QED
      BY <1>1, <2>2, <3>1
  <2>3. CASE frames'[u][i].at = "store" /\ Constructed(u) /\ frames'[u][i].key = Top(u).key
    <3>1. CtorDeps(Top(u).key) \subseteq Available
      BY <1>0, <2>3, ConstructedDeps DEF OrderInv
    <3> QED
      BY <1>1, <2>3, <3>1
  <2>4. CASE frames'[u][i].at = "notify" /\ Store(u) /\ frames'[u][i].key = Top(u).key
    BY <2>4 DEF Store, Available
  <2>5. CASE /\ frames'[u][i].at = "hooks" /\ PrototypeConstructed(u)
             /\ frames'[u][i].key = Top(u).key
    BY <2>5 DEF PrototypeConstructed, Available
  <2> QED
    BY <2>1, <2>2, <2>3, <2>4, <2>5 DEF Arrives
<1>5. DepsStoredFirst'
  <2>1. CASE stored' = stored
    BY <2>1 DEF OrderInv, DepsStoredFirst
  <2>2. ASSUME NEW t \in Threads, Store(t), stored' = stored \union {Top(t).key}
        PROVE  DepsStoredFirst'
    <3>1. CtorDeps(Top(t).key) \subseteq Available
      <4>1. frames[t] # <<>> /\ Top(t).at = "store"
        BY <2>2 DEF Store, Running
      <4>2. Len(frames[t]) \in 1..Len(frames[t])
        BY <1>0, <4>1 DEF TypeOK
      <4> QED
        BY <4>1, <4>2 DEF OrderInv, Top, Depth
    <3> QED
      BY <2>2, <3>1 DEF OrderInv, DepsStoredFirst, Available
  <2> QED
    BY <2>1, <2>2, StoredGrows
<1> QED
  BY <1>2, <1>3, <1>4, <1>5 DEF OrderInv

\* The dependency-order invariant holds before the first resolve().
LEMMA InitOrder == Init => OrderInv
<1> SUFFICES ASSUME Init PROVE OrderInv
  OBVIOUS
<1>1. \A t \in Threads : Len(frames[t]) = 0
  BY DEF Init
<1>2. stored = {}
  BY DEF Init
<1> QED
  BY <1>1, <1>2 DEF OrderInv, Linked, ResolvedIn, DepsStoredFirst

\* Whatever the dependency graph, the number of threads and the failures of
\* constructors and hooks: when a bean can be found in its store, every shared
\* bean its constructor resolved can be found there too.
THEOREM DependenciesFirst == Spec => []DepsStoredFirst
<1>1. OrderInv => DepsStoredFirst
  BY DEF OrderInv
<1> QED
  BY Inductive, InitOrder, OrderPreserved, <1>1, PTL DEF Spec

-----------------------------------------------------------------------------
(* Cyclic constructors are never published.                                *)

Cyclic == ReachesCycle(CtorDeps)

\* Every key of Cyclic needs another one of Cyclic.
LEMMA CyclicNeedsCyclic == \A k \in Cyclic : CtorDeps(k) \cap Cyclic # {}
BY DEF Cyclic, ReachesCycle

CycleInv ==
    /\ Linked
    /\ ResolvedIn(Keys \ Cyclic, frames)
    /\ \A t \in Threads : \A i \in 1..Len(frames[t]) :
        frames[t][i].at \in Late => frames[t][i].key \notin Cyclic
    /\ stored \cap Cyclic = {}

\* The invariant behind cycle freedom is inductive, given IInv.
LEMMA CyclePreserved == IInv /\ IInv' /\ CycleInv /\ [Next]_vars => CycleInv'
<1> SUFFICES ASSUME IInv, IInv', CycleInv, [Next]_vars PROVE CycleInv'
  OBVIOUS
<1>0. TypeOK /\ Shape /\ TypeOK'
  BY DEF IInv
<1>t. ASSUME NEW t \in Threads, frames[t] # <<>>
      PROVE  Top(t).key \in Keys /\ (Top(t).at \in Late => Top(t).key \notin Cyclic)
  <2>1. Len(frames[t]) \in 1..Len(frames[t]) /\ frames[t] \in Seq(Frame)
    BY <1>0, <1>t DEF TypeOK
  <2>2. Top(t) = frames[t][Len(frames[t])] /\ Top(t) \in Frame
    BY <2>1 DEF Top, Depth
  <2>3. Top(t).key \in Keys
    BY <2>2 DEF Frame
  <2> QED
    BY <2>1, <2>2, <2>3 DEF CycleInv
<1>2. Linked'
  BY <1>0, LinkedPreserved DEF CycleInv
<1>3. ResolvedIn(Keys \ Cyclic, frames')
  <2>1. ASSUME NEW t \in Threads, frames[t] # <<>>, Finishing(t)
        PROVE  Top(t).key \in Keys \ Cyclic
    BY <1>t, <2>1 DEF Finishing, CycleInv, Late
  <2> QED
    BY <1>0, <2>1, ResolvedPreserved DEF CycleInv
<1>4. ASSUME NEW u \in Threads, NEW i \in 1..Len(frames'[u]), frames'[u][i].at \in Late
      PROVE  frames'[u][i].key \notin Cyclic
  <2>1. Arrives(u, i)
    BY <1>0, <1>4, Arrivals
  <2>2. CASE /\ i \in 1..Len(frames[u])
             /\ frames'[u][i].key = frames[u][i].key
             /\ \/ frames'[u][i].at = frames[u][i].at
                \/ frames'[u][i].at = "hooks" /\ frames[u][i].at = "notify"
    BY <1>4, <2>2 DEF CycleInv, Late
  <2>3. CASE (Constructed(u) \/ PrototypeConstructed(u)) /\ frames'[u][i].key = Top(u).key
    <3>1. CtorDeps(Top(u).key) \subseteq Keys \ Cyclic
      BY <1>0, <2>3, ConstructedDeps DEF CycleInv
    <3> QED
      BY <2>3, <3>1, CyclicNeedsCyclic
  <2>4. CASE Store(u) /\ frames'[u][i].key = Top(u).key
    BY <1>t, <2>4 DEF Store, Running, Late
  <2> QED
    BY <2>1, <2>2, <2>3, <2>4 DEF Arrives
<1>5. stored' \cap Cyclic = {}
  <2>1. ASSUME NEW t \in Threads, Store(t) PROVE Top(t).key \notin Cyclic
    BY <1>t, <2>1 DEF Store, Running, Late
  <2> QED
    BY <2>1, StoredGrows DEF CycleInv
<1> QED
  BY <1>2, <1>3, <1>4, <1>5 DEF CycleInv, Cyclic

\* The cycle-freedom invariant holds before the first resolve().
LEMMA InitCycle == Init => CycleInv
<1> SUFFICES ASSUME Init PROVE CycleInv
  OBVIOUS
<1>1. \A t \in Threads : Len(frames[t]) = 0
  BY DEF Init
<1>2. stored = {}
  BY DEF Init
<1> QED
  BY <1>1, <1>2 DEF CycleInv, Linked, ResolvedIn

\* A bean whose constructor needs a cycle of constructors, through any chain of
\* beans, is published by no race of any number of threads.
THEOREM CyclesNeverPublished == Spec => []CyclicNeverStored
<1>1. CycleInv => CyclicNeverStored
  BY DEF CycleInv, CyclicNeverStored, Cyclic
<1> QED
  BY Inductive, InitCycle, CyclePreserved, <1>1, PTL DEF Spec

-----------------------------------------------------------------------------
(* What resolve() promises.                                                *)

\* Every call was made by the constructor or the hook of the frame below it.
Chained ==
    \A t \in Threads : \A i, j \in 1..Len(frames[t]) :
        j = i + 1 => frames[t][j].key \in AllDeps(frames[t][i].key)

\* An active wait slot is that of the thread's innermost call.
WaitAt(t) ==
    /\ waits[t] # NoKey =>
        frames[t] # <<>> /\ Top(t).key = waits[t] /\ Top(t).at \in {"waiting", "woken"}
    /\ frames[t] # <<>> /\ Top(t).at = "waiting" => waits[t] = Top(t).key
WaitSlots == \A t \in Threads : WaitAt(t)

\* StackMirrorsFrames of one thread.
MirrorAt(t) ==
    \E pos \in [1..Len(stack[t]) -> 1..Len(frames[t])] :
        /\ \A m, n \in 1..Len(stack[t]) : m < n => pos[m] < pos[n]
        /\ \A n \in 1..Len(stack[t]) : stack[t][n] = Desc[frames[t][pos[n]].key]
        /\ \A i \in 1..Len(frames[t]) :
            OnStackFrame(frames[t][i]) <=> \E n \in 1..Len(stack[t]) : pos[n] = i

CallInv == Chained /\ WaitSlots /\ StackMirrorsFrames

-----------------------------------------------------------------------------
(* The kinds of steps, seen from the calls of one thread.                  *)

\* A call is of the same bean and at the same point.
Alike(u, i) ==
    frames'[u][i].key = frames[u][i].key /\ frames'[u][i].at = frames[u][i].at

\* The other threads are left alone, except that waiting ones may be woken.
Others(t) ==
    \A u \in Threads \ {t} :
        Len(frames'[u]) = Len(frames[u]) /\ \A i \in 1..Len(frames[u]) : Awakened(u, i)

\* A call for k begins.
Begins(t, k) ==
    /\ Others(t) /\ Len(frames'[t]) = Len(frames[t]) + 1
    /\ \A i \in 1..Len(frames[t]) : Alike(t, i)
    /\ frames'[t][Len(frames[t]) + 1].key = k /\ frames'[t][Len(frames[t]) + 1].at = "find"

\* The innermost call goes on to another point.
GoesOn(t, point) ==
    /\ Others(t) /\ Len(frames[t]) # 0 /\ Len(frames'[t]) = Len(frames[t])
    /\ \A i \in 1..Len(frames[t]) - 1 : Alike(t, i)
    /\ frames'[t][Len(frames[t])].key = Top(t).key /\ frames'[t][Len(frames[t])].at = point

\* The innermost call ends.
Ends(t) ==
    /\ Others(t) /\ Len(frames[t]) # 0 /\ Len(frames'[t]) = Len(frames[t]) - 1
    /\ \A i \in 1..Len(frames[t]) - 1 : Alike(t, i)

\* Nothing happens to the other threads if their frames are the same.
LEMMA SameOthers ==
    ASSUME NEW t \in Threads, OthersSame(t)
    PROVE  Others(t)
BY DEF OthersSame, Others, Awakened

\* Enter is the beginning of a call.
LEMMA EnterBegins ==
    ASSUME TypeOK, NEW t \in Threads, NEW k \in Keys, Enter(t, k)
    PROVE  Begins(t, k)
<1>1. FramesType
  BY DEF TypeOK, FramesType
<1>2. /\ OthersSame(t) /\ Len(frames'[t]) = Len(frames[t]) + 1
      /\ \A i \in 1..Len(frames[t]) : frames'[t][i] = frames[t][i]
      /\ frames'[t][Len(frames[t]) + 1] = NewFrame(k)
  BY <1>1, EnterFrames
<1>3. NewFrame(k).key = k /\ NewFrame(k).at = "find"
  BY DEF NewFrame
<1> QED
  BY <1>2, <1>3, SameOthers DEF Begins, Alike

\* GoTo leaves all calls but the innermost one alone.
LEMMA GoToGoesOn ==
    ASSUME TypeOK, NEW t \in Threads, frames[t] # <<>>, NEW point \in Points, GoTo(t, point)
    PROVE  GoesOn(t, point)
<1>1. FramesType /\ Len(frames[t]) # 0
  BY DEF TypeOK, FramesType
<1>2. /\ OthersSame(t) /\ Len(frames'[t]) = Len(frames[t])
      /\ \A i \in 1..Len(frames[t]) - 1 : frames'[t][i] = frames[t][i]
      /\ frames'[t][Len(frames[t])] = [key |-> Top(t).key, at |-> point, next |-> 1]
  BY <1>1, GoToFrames
<1>3. frames'[t][Len(frames[t])].key = Top(t).key /\ frames'[t][Len(frames[t])].at = point
  BY <1>2
<1> QED
  BY <1>1, <1>2, <1>3, SameOthers DEF GoesOn, Alike

\* Return ends a call; its caller only counts on.
LEMMA ReturnEnds ==
    ASSUME TypeOK, NEW t \in Threads, frames[t] # <<>>, Return(t)
    PROVE  Ends(t)
<1>1. FramesType /\ Len(frames[t]) # 0
  BY DEF TypeOK, FramesType
<1>2. \A i \in 1..Len(frames[t]) - 1 : Alike(t, i)
  <2> SUFFICES ASSUME NEW i \in 1..Len(frames[t]) - 1 PROVE Alike(t, i)
    OBVIOUS
  <2>1. frames'[t][i] = IF i = Len(frames[t]) - 1
                        THEN [key |-> frames[t][i].key, at |-> frames[t][i].at,
                              next |-> frames[t][i].next + 1]
                        ELSE frames[t][i]
    BY <1>1, ReturnFrames
  <2> QED
    BY <2>1 DEF Alike
<1> QED
  BY <1>1, <1>2, ReturnFrames, SameOthers DEF Ends

\* An exception ends a call.
LEMMA LeaveEnds ==
    ASSUME TypeOK, NEW t \in Threads, frames[t] # <<>>, frames' = [frames EXCEPT ![t] = Popped(@)]
    PROVE  Ends(t)
<1>1. FramesType /\ Len(frames[t]) # 0
  BY DEF TypeOK, FramesType
<1> QED
  BY <1>1, LeaveFrames, SameOthers DEF Ends, Alike

\* notify_all() after a construction: the call goes on to its hooks, or ends.
LEMMA NotifyGoesOn ==
    ASSUME TypeOK, Shape, NEW t \in Threads, NotifyAbandoned(t) \/ Notify(t)
    PROVE  /\ Notify(t) => GoesOn(t, "hooks")
           /\ NotifyAbandoned(t) => Ends(t)
<1>0. FramesType /\ Len(frames[t]) # 0 /\ Len(frames[t]) \in Nat
  <2>1. FramesType /\ Len(frames[t]) \in Nat
    BY DEF TypeOK, FramesType
  <2>2. frames[t] # <<>>
    BY <2>1, NotifiedFrames
  <2> QED
    BY <2>1, <2>2 DEF FramesType
<1>1. Others(t)
  BY <1>0, NotifiedFrames DEF Others
<1>2. \A i \in 1..Len(frames[t]) - 1 : Alike(t, i)
  <2> SUFFICES ASSUME NEW i \in 1..Len(frames[t]) - 1 PROVE Alike(t, i)
    OBVIOUS
  <2>1. Awakened(t, i)
    BY <1>0, NotifiedFrames
  <2>2. frames[t][i].at \in {"construct", "hooks"}
    BY <1>0 DEF Shape
  <2> QED
    BY <2>1, <2>2 DEF Awakened, Alike
<1>3. ASSUME Notify(t) PROVE Len(frames'[t]) = Len(frames[t])
  <2>1. Moved(t, "hooks") \in [Threads -> Seq(Frame)] /\ Len(Moved(t, "hooks")[t]) = Len(frames[t])
    <3>1. "hooks" \in Points /\ frames[t] # <<>>
      BY <1>0 DEF Points
    <3> QED
      BY <1>0, <3>1, MovedFrames
  <2> QED
    BY <1>3, <2>1, WokenFrames DEF Notify
<1>4. ASSUME NotifyAbandoned(t) PROVE Len(frames'[t]) = Len(frames[t]) - 1
  <2>1. PICK fs : fs = [frames EXCEPT ![t] = Popped(@)]
    OBVIOUS
  <2>2. Popped(frames[t]) \in Seq(Frame) /\ Len(Popped(frames[t])) = Len(frames[t]) - 1
    BY <1>0, PoppedFrames DEF FramesType
  <2>3. fs \in [Threads -> Seq(Frame)] /\ Len(fs[t]) = Len(frames[t]) - 1
    BY <1>0, <2>1, <2>2 DEF FramesType
  <2>4. frames' = Woken(Reg[Top(t).key], fs)
    BY <1>4, <2>1 DEF NotifyAbandoned
  <2> QED
    BY <2>3, <2>4, WokenFrames
<1>5. Notify(t) => GoesOn(t, "hooks")
  BY <1>0, <1>1, <1>2, <1>3, NotifiedFrames DEF GoesOn, Top, Depth
<1> QED
  BY <1>0, <1>1, <1>2, <1>4, <1>5 DEF Ends

-----------------------------------------------------------------------------
(* Chained, WaitSlots and StackMirrorsFrames, kind of step by kind.        *)

\* A woken call is the same call.
LEMMA OthersAlike ==
    ASSUME NEW t \in Threads, Others(t), NEW u \in Threads \ {t}
    PROVE  /\ Len(frames'[u]) = Len(frames[u])
           /\ \A i \in 1..Len(frames[u]) :
                /\ frames'[u][i].key = frames[u][i].key
                /\ \/ frames'[u][i].at = frames[u][i].at
                   \/ frames[u][i].at = "waiting" /\ frames'[u][i].at = "woken"
BY DEF Others, Awakened

\* The chain of calls grows by one that the innermost one makes, or shrinks.
LEMMA ChainKept ==
    ASSUME TypeOK, Chained, NEW t \in Threads,
           \/ \E k : Begins(t, k) /\ (Len(frames[t]) # 0 => k \in AllDeps(Top(t).key))
           \/ \E point : GoesOn(t, point)
           \/ Ends(t)
    PROVE  Chained'
<1>0. PICK n \in Nat : n = Len(frames[t])
  BY DEF TypeOK
<1> SUFFICES ASSUME NEW u \in Threads, NEW i \in 1..Len(frames'[u]), NEW j \in 1..Len(frames'[u]),
                    j = i + 1
             PROVE  frames'[u][j].key \in AllDeps(frames'[u][i].key)
  BY DEF Chained
<1>1. CASE u # t
  <2>1. Others(t)
    BY DEF Begins, GoesOn, Ends
  <2>2. Len(frames'[u]) = Len(frames[u]) /\ \A m \in 1..Len(frames[u]) : frames'[u][m].key = frames[u][m].key
    BY <1>1, <2>1, OthersAlike
  <2> QED
    BY <2>2 DEF Chained
<1>2. CASE u = t /\ \E k : Begins(t, k) /\ (Len(frames[t]) # 0 => k \in AllDeps(Top(t).key))
  <2>1. PICK k : Begins(t, k) /\ (n # 0 => k \in AllDeps(Top(t).key))
    BY <1>0, <1>2
  <2>2. /\ Len(frames'[t]) = n + 1 /\ frames'[t][n + 1].key = k
        /\ \A m \in 1..n : frames'[t][m].key = frames[t][m].key
    BY <1>0, <2>1 DEF Begins, Alike
  <2>3. CASE j \in 1..n
    <3>1. i \in 1..n
      BY <1>0, <2>3
    <3> QED
      BY <1>0, <1>2, <2>2, <2>3, <3>1 DEF Chained
  <2>4. CASE j \notin 1..n
    <3>1. j = n + 1 /\ i = n /\ n \in 1..n
      BY <1>0, <1>2, <2>2, <2>4
    <3> QED
      BY <1>0, <1>2, <2>1, <2>2, <3>1 DEF Top, Depth
  <2> QED
    BY <2>3, <2>4
<1>3. CASE u = t /\ \E point : GoesOn(t, point)
  <2>1. Len(frames'[t]) = n /\ \A m \in 1..n : frames'[t][m].key = frames[t][m].key
    <3>1. /\ Len(frames'[t]) = n /\ frames'[t][n].key = frames[t][n].key
          /\ \A m \in 1..n - 1 : frames'[t][m].key = frames[t][m].key
      BY <1>0, <1>3 DEF GoesOn, Alike, Top, Depth
    <3> QED
      BY <1>0, <3>1
  <2> QED
    BY <1>0, <1>3, <2>1 DEF Chained
<1>4. CASE u = t /\ Ends(t)
  <2>1. Len(frames'[t]) = n - 1 /\ \A m \in 1..n - 1 : frames'[t][m].key = frames[t][m].key
    BY <1>0, <1>4 DEF Ends, Alike
  <2>2. i \in 1..n /\ j \in 1..n /\ i \in 1..n - 1 /\ j \in 1..n - 1
    BY <1>0, <1>4, <2>1
  <2> QED
    BY <1>0, <1>4, <2>1, <2>2 DEF Chained
<1> QED
  BY <1>1, <1>2, <1>3, <1>4

\* The wait slots of the other threads stay with their calls.
LEMMA WaitsKept ==
    ASSUME TypeOK, TypeOK', WaitSlots, NEW t \in Threads, Others(t),
           \A u \in Threads \ {t} : waits'[u] = waits[u], WaitAt(t)'
    PROVE  WaitSlots'
<1> SUFFICES ASSUME NEW u \in Threads, u # t PROVE WaitAt(u)'
  BY DEF WaitSlots
<1>1. PICK n \in Nat : n = Len(frames[u]) /\ Len(frames'[u]) = n
  BY OthersAlike DEF TypeOK
<1>2. /\ (frames[u] # <<>>) <=> (n # 0)
      /\ (frames'[u] # <<>>) <=> (n # 0)
      /\ Top(u) = frames[u][n] /\ Top(u)' = frames'[u][n]
  BY <1>1 DEF Top, Depth, TypeOK
<1>3. n # 0 => /\ frames'[u][n].key = frames[u][n].key
               /\ \/ frames'[u][n].at = frames[u][n].at
                  \/ frames[u][n].at = "waiting" /\ frames'[u][n].at = "woken"
  BY <1>1, OthersAlike
<1>4. WaitAt(u) /\ waits'[u] = waits[u]
  BY DEF WaitSlots
<1> QED
  BY <1>2, <1>3, <1>4 DEF WaitAt

\* The calls that the stack of t has an entry for are the same.
SameOpen(t) ==
    /\ \A i \in 1..Len(frames'[t]) :
        OnStackFrame(frames'[t][i]) => i \in 1..Len(frames[t]) /\ OnStackFrame(frames[t][i])
    /\ \A i \in 1..Len(frames[t]) : OnStackFrame(frames[t][i]) =>
        /\ i \in 1..Len(frames'[t]) /\ OnStackFrame(frames'[t][i])
        /\ frames'[t][i].key = frames[t][i].key

\* The stack is left alone while no call gets or loses its entry.
LEMMA MirrorSame ==
    ASSUME NEW t, MirrorAt(t), stack'[t] = stack[t], SameOpen(t)
    PROVE  MirrorAt(t)'
<1>1. PICK pos \in [1..Len(stack[t]) -> 1..Len(frames[t])] :
        /\ \A m, n \in 1..Len(stack[t]) : m < n => pos[m] < pos[n]
        /\ \A n \in 1..Len(stack[t]) : stack[t][n] = Desc[frames[t][pos[n]].key]
        /\ \A i \in 1..Len(frames[t]) :
            OnStackFrame(frames[t][i]) <=> \E n \in 1..Len(stack[t]) : pos[n] = i
  BY DEF MirrorAt
<1>2. \A n \in 1..Len(stack[t]) :
        /\ pos[n] \in 1..Len(frames'[t]) /\ frames'[t][pos[n]].key = frames[t][pos[n]].key
        /\ OnStackFrame(frames'[t][pos[n]])
  BY <1>1 DEF SameOpen
<1>3. pos \in [1..Len(stack'[t]) -> 1..Len(frames'[t])]
  BY <1>1, <1>2
<1>4. \A n \in 1..Len(stack'[t]) : stack'[t][n] = Desc[frames'[t][pos[n]].key]
  BY <1>1, <1>2
<1>5. \A i \in 1..Len(frames'[t]) :
        OnStackFrame(frames'[t][i]) <=> \E n \in 1..Len(stack'[t]) : pos[n] = i
  BY <1>1, <1>2 DEF SameOpen
<1>6. \A m, n \in 1..Len(stack'[t]) : m < n => pos[m] < pos[n]
  BY <1>1
<1> QED
  BY <1>3, <1>4, <1>5, <1>6 DEF MirrorAt

\* Calls that are alike have an entry both or neither.
LEMMA AlikeOpen ==
    ASSUME NEW f, NEW g, f.key = g.key, f.at = g.at
    PROVE  OnStackFrame(f) <=> OnStackFrame(g)
BY DEF OnStackFrame, Holds

\* The innermost call gets its entry: push_back().
LEMMA MirrorPush ==
    ASSUME TypeOK, NEW t \in Threads, MirrorAt(t), NEW point, GoesOn(t, point),
           stack' = [stack EXCEPT ![t] = Append(@, Desc[Top(t).key])],
           ~OnStackFrame(frames[t][Len(frames[t])]), OnStackFrame(frames'[t][Len(frames[t])])
    PROVE  MirrorAt(t)'
<1>1. PICK pos \in [1..Len(stack[t]) -> 1..Len(frames[t])] :
        /\ \A m, n \in 1..Len(stack[t]) : m < n => pos[m] < pos[n]
        /\ \A n \in 1..Len(stack[t]) : stack[t][n] = Desc[frames[t][pos[n]].key]
        /\ \A i \in 1..Len(frames[t]) :
            OnStackFrame(frames[t][i]) <=> \E n \in 1..Len(stack[t]) : pos[n] = i
  BY DEF MirrorAt
<1>2. PICK d \in Nat, h \in Nat : d = Len(frames[t]) /\ h = Len(stack[t])
  BY DEF TypeOK
<1>3. /\ d # 0 /\ Len(frames'[t]) = d /\ frames'[t][d].key = Top(t).key
      /\ \A i \in 1..d - 1 : Alike(t, i)
  BY <1>2 DEF GoesOn
<1>4. /\ Len(stack'[t]) = h + 1 /\ stack'[t][h + 1] = Desc[frames'[t][d].key]
      /\ \A n \in 1..h : stack'[t][n] = stack[t][n]
  <2>1. stack[t] \in Seq({Desc[k] : k \in Keys}) /\ stack'[t] = Append(stack[t], Desc[Top(t).key])
    BY DEF TypeOK
  <2> QED
    BY <1>2, <1>3, <2>1
<1>5. \A n \in 1..h : pos[n] \in 1..d - 1
  <2> SUFFICES ASSUME NEW n \in 1..h PROVE pos[n] \in 1..d - 1
    OBVIOUS
  <2>1. pos[n] \in 1..d
    BY <1>1, <1>2
  <2>2. OnStackFrame(frames[t][pos[n]])
    BY <1>1, <1>2, <2>1
  <2>3. pos[n] # d
    BY <1>2, <2>2
  <2> QED
    BY <1>2, <2>1, <2>3
<1> DEFINE p == [n \in 1..h + 1 |-> IF n = h + 1 THEN d ELSE pos[n]]
<1>6. /\ p[h + 1] = d /\ \A n \in 1..h : n \in 1..h + 1 /\ p[n] = pos[n]
      /\ \A n \in 1..h + 1 : n \in 1..h \/ n = h + 1
      /\ h + 1 \in 1..h + 1 /\ DOMAIN p = 1..h + 1
  BY <1>2
<1>7. p \in [1..h + 1 -> 1..d]
  BY <1>2, <1>3, <1>5
<1> HIDE DEF p
<1>8. \A m, n \in 1..h + 1 : m < n => p[m] < p[n]
  <2> SUFFICES ASSUME NEW m \in 1..h + 1, NEW n \in 1..h + 1, m < n PROVE p[m] < p[n]
    OBVIOUS
  <2>1. m \in 1..h
    BY <1>2
  <2>2. CASE n = h + 1
    BY <1>2, <1>3, <1>5, <1>6, <2>1, <2>2
  <2>3. CASE n \in 1..h
    BY <1>1, <1>2, <1>6, <2>1, <2>3
  <2> QED
    BY <1>6, <2>2, <2>3
<1>9. \A n \in 1..h + 1 : stack'[t][n] = Desc[frames'[t][p[n]].key]
  <2> SUFFICES ASSUME NEW n \in 1..h + 1 PROVE stack'[t][n] = Desc[frames'[t][p[n]].key]
    OBVIOUS
  <2>1. CASE n = h + 1
    BY <1>4, <1>6, <2>1
  <2>2. CASE n \in 1..h
    <3>1. stack'[t][n] = stack[t][n] /\ stack[t][n] = Desc[frames[t][pos[n]].key] /\ p[n] = pos[n]
      BY <1>1, <1>2, <1>4, <1>6, <2>2
    <3>2. frames'[t][pos[n]].key = frames[t][pos[n]].key
      BY <1>3, <1>5, <2>2 DEF Alike
    <3> QED
      BY <3>1, <3>2
  <2> QED
    BY <1>6, <2>1, <2>2
<1>10. ASSUME NEW i \in 1..d
       PROVE  OnStackFrame(frames'[t][i]) <=> \E n \in 1..h + 1 : p[n] = i
  <2>1. CASE i = d
    BY <1>2, <1>6, <2>1
  <2>2. CASE i # d
    <3>1. i \in 1..d - 1
      BY <1>2, <2>2
    <3>2. OnStackFrame(frames'[t][i]) <=> OnStackFrame(frames[t][i])
      BY <1>3, <3>1, AlikeOpen DEF Alike
    <3>3. OnStackFrame(frames[t][i]) <=> \E n \in 1..h : pos[n] = i
      BY <1>1, <1>2
    <3> QED
      BY <1>6, <2>2, <3>2, <3>3
  <2> QED
    BY <2>1, <2>2
<1>11. /\ p \in [1..Len(stack'[t]) -> 1..Len(frames'[t])]
       /\ \A m, n \in 1..Len(stack'[t]) : m < n => p[m] < p[n]
       /\ \A n \in 1..Len(stack'[t]) : stack'[t][n] = Desc[frames'[t][p[n]].key]
       /\ \A i \in 1..Len(frames'[t]) :
            OnStackFrame(frames'[t][i]) <=> \E n \in 1..Len(stack'[t]) : p[n] = i
  BY <1>3, <1>4, <1>7, <1>8, <1>9, <1>10
<1> QED
  BY <1>11 DEF MirrorAt

\* The innermost call loses its entry, which is the last one: pop_back().
LEMMA MirrorPop ==
    ASSUME TypeOK, NEW t \in Threads, MirrorAt(t),
           Ends(t) \/ \E point : GoesOn(t, point) /\ ~OnStackFrame(frames'[t][Len(frames[t])]),
           stack' = [stack EXCEPT ![t] = Popped(@)],
           OnStackFrame(frames[t][Len(frames[t])])
    PROVE  MirrorAt(t)'
<1>1. PICK pos \in [1..Len(stack[t]) -> 1..Len(frames[t])] :
        /\ \A m, n \in 1..Len(stack[t]) : m < n => pos[m] < pos[n]
        /\ \A n \in 1..Len(stack[t]) : stack[t][n] = Desc[frames[t][pos[n]].key]
        /\ \A i \in 1..Len(frames[t]) :
            OnStackFrame(frames[t][i]) <=> \E n \in 1..Len(stack[t]) : pos[n] = i
  BY DEF MirrorAt
<1>0. frames[t] \in Seq(Frame) /\ stack[t] \in Seq({Desc[k] : k \in Keys})
  BY DEF TypeOK
<1>2. PICK d \in Nat, h \in Nat : d = Len(frames[t]) /\ h = Len(stack[t])
  BY <1>0
<1>3. /\ d # 0 /\ \A i \in 1..d - 1 : Alike(t, i)
      /\ Len(frames'[t]) = d - 1 \/ (Len(frames'[t]) = d /\ ~OnStackFrame(frames'[t][d]))
  BY <1>2 DEF GoesOn, Ends
<1>4. PICK l \in 1..h : pos[l] = d
  BY <1>1, <1>2, <1>3
<1>5. l = h /\ h # 0
  <2>1. \A n \in 1..h : pos[n] <= d
    BY <1>1, <1>2
  <2>2. h \in 1..h
    BY <1>2, <1>4
  <2>3. ~(l < h)
    BY <1>1, <1>2, <1>4, <2>1, <2>2
  <2> QED
    BY <1>2, <1>4, <2>3
<1>6. \A n \in 1..h - 1 : n \in 1..h /\ pos[n] \in 1..d - 1
  <2> SUFFICES ASSUME NEW n \in 1..h - 1 PROVE n \in 1..h /\ pos[n] \in 1..d - 1
    OBVIOUS
  <2>1. n \in 1..h /\ n < h
    BY <1>2
  <2>2. pos[n] < d /\ pos[n] \in 1..d
    BY <1>1, <1>2, <1>4, <1>5, <2>1
  <2> QED
    BY <1>2, <2>1, <2>2
<1>7. Len(stack'[t]) = h - 1 /\ \A n \in 1..h - 1 : stack'[t][n] = stack[t][n]
  <2>1. stack'[t] = Popped(stack[t])
    BY DEF TypeOK
  <2>2. stack[t] # <<>>
    BY <1>2, <1>5
  <2>3. PICK D : D = {Desc[k] : k \in Keys}
    OBVIOUS
  <2>4. stack[t] \in Seq(D)
    BY <1>0, <2>3
  <2>5. Len(Popped(stack[t])) = h - 1 /\ \A n \in 1..h - 1 : Popped(stack[t])[n] = stack[t][n]
    BY <1>2, <2>2, <2>4, PoppedFrames
  <2> QED
    BY <2>1, <2>5
<1> DEFINE p == [n \in 1..h - 1 |-> pos[n]]
<1>8. \A n \in 1..h - 1 : p[n] = pos[n]
  OBVIOUS
<1>9. p \in [1..h - 1 -> 1..Len(frames'[t])]
  <2>1. 1..d - 1 \subseteq 1..Len(frames'[t])
    BY <1>2, <1>3
  <2> QED
    BY <1>6, <2>1
<1> HIDE DEF p
<1>10. \A m, n \in 1..h - 1 : m < n => p[m] < p[n]
  BY <1>1, <1>2, <1>6, <1>8
<1>11. \A n \in 1..h - 1 : stack'[t][n] = Desc[frames'[t][p[n]].key]
  <2> SUFFICES ASSUME NEW n \in 1..h - 1 PROVE stack'[t][n] = Desc[frames'[t][p[n]].key]
    OBVIOUS
  <2>1. stack'[t][n] = stack[t][n] /\ stack[t][n] = Desc[frames[t][pos[n]].key] /\ p[n] = pos[n]
    BY <1>1, <1>2, <1>6, <1>7, <1>8
  <2>2. frames'[t][pos[n]].key = frames[t][pos[n]].key
    BY <1>3, <1>6 DEF Alike
  <2> QED
    BY <2>1, <2>2
<1>12. ASSUME NEW i \in 1..Len(frames'[t])
       PROVE  OnStackFrame(frames'[t][i]) <=> \E n \in 1..h - 1 : p[n] = i
  <2>1. CASE i \in 1..d - 1
    <3>1. OnStackFrame(frames'[t][i]) <=> OnStackFrame(frames[t][i])
      BY <1>3, <2>1, AlikeOpen DEF Alike
    <3>2. OnStackFrame(frames[t][i]) <=> \E n \in 1..h : pos[n] = i
      BY <1>1, <1>2, <2>1
    <3>3. \A n \in 1..h : pos[n] = i => n \in 1..h - 1
      BY <1>2, <1>4, <1>5, <2>1
    <3> QED
      BY <1>6, <1>8, <3>1, <3>2, <3>3
  <2>2. CASE i \notin 1..d - 1
    <3>1. i = d /\ Len(frames'[t]) = d
      BY <1>2, <1>3, <2>2
    <3> QED
      BY <1>2, <1>3, <1>6, <1>8, <3>1
  <2> QED
    BY <2>1, <2>2
<1>13. /\ p \in [1..Len(stack'[t]) -> 1..Len(frames'[t])]
       /\ \A m, n \in 1..Len(stack'[t]) : m < n => p[m] < p[n]
       /\ \A n \in 1..Len(stack'[t]) : stack'[t][n] = Desc[frames'[t][p[n]].key]
       /\ \A i \in 1..Len(frames'[t]) :
            OnStackFrame(frames'[t][i]) <=> \E n \in 1..Len(stack'[t]) : p[n] = i
  BY <1>7, <1>9, <1>10, <1>11, <1>12
<1> QED
  BY <1>13 DEF MirrorAt

\* A step of t that leaves the entries of its calls alone.
LEMMA OpenSame ==
    ASSUME TypeOK, NEW t \in Threads,
           \/ \E k : Begins(t, k)
           \/ \E point : /\ GoesOn(t, point)
                         /\ OnStackFrame(Top(t)) <=> OnStackFrame(frames'[t][Len(frames[t])])
           \/ Ends(t) /\ ~OnStackFrame(Top(t))
    PROVE  SameOpen(t)
<1>0. PICK d \in Nat : d = Len(frames[t])
  BY DEF TypeOK
<1>1. CASE \E k : Begins(t, k)
  <2>1. /\ Len(frames'[t]) = d + 1 /\ frames'[t][d + 1].at = "find"
        /\ \A i \in 1..d : Alike(t, i)
    BY <1>0, <1>1 DEF Begins
  <2>2. ~OnStackFrame(frames'[t][d + 1])
    BY <2>1 DEF OnStackFrame, Holds
  <2>3. \A i \in 1..d + 1 : i \in 1..d \/ i = d + 1
    BY <1>0
  <2>4. \A i \in 1..d : i \in 1..d + 1
    BY <1>0
  <2>5. \A i \in 1..d : /\ OnStackFrame(frames'[t][i]) <=> OnStackFrame(frames[t][i])
                        /\ frames'[t][i].key = frames[t][i].key
    BY <2>1, AlikeOpen DEF Alike
  <2> QED
    BY <1>0, <2>1, <2>2, <2>3, <2>4, <2>5 DEF SameOpen
<1>2. CASE \E point : /\ GoesOn(t, point)
                      /\ OnStackFrame(Top(t)) <=> OnStackFrame(frames'[t][Len(frames[t])])
  <2>1. /\ Len(frames'[t]) = d /\ d # 0 /\ frames'[t][d].key = frames[t][d].key
        /\ \A i \in 1..d - 1 : Alike(t, i)
        /\ OnStackFrame(frames[t][d]) <=> OnStackFrame(frames'[t][d])
    BY <1>0, <1>2 DEF GoesOn, Top, Depth
  <2>2. \A i \in 1..d : i \in 1..d - 1 \/ i = d
    BY <1>0
  <2>3. \A i \in 1..d - 1 : /\ OnStackFrame(frames'[t][i]) <=> OnStackFrame(frames[t][i])
                            /\ frames'[t][i].key = frames[t][i].key
    BY <2>1, AlikeOpen DEF Alike
  <2> QED
    BY <1>0, <2>1, <2>2, <2>3 DEF SameOpen
<1>3. CASE Ends(t) /\ ~OnStackFrame(Top(t))
  <2>1. /\ Len(frames'[t]) = d - 1 /\ d # 0
        /\ \A i \in 1..d - 1 : Alike(t, i)
        /\ ~OnStackFrame(frames[t][d])
    BY <1>0, <1>3 DEF Ends, Top, Depth
  <2>2. \A i \in 1..d : i \in 1..d - 1 \/ i = d
    BY <1>0
  <2>3. \A i \in 1..d - 1 : i \in 1..d
    BY <1>0
  <2>4. \A i \in 1..d - 1 : /\ OnStackFrame(frames'[t][i]) <=> OnStackFrame(frames[t][i])
                            /\ frames'[t][i].key = frames[t][i].key
    BY <2>1, AlikeOpen DEF Alike
  <2> QED
    BY <1>0, <2>1, <2>2, <2>3, <2>4 DEF SameOpen
<1> QED
  BY <1>1, <1>2, <1>3

\* The stacks of the other threads mirror their calls as before.
LEMMA MirrorOthers ==
    ASSUME NEW t \in Threads, Others(t), NEW u \in Threads \ {t}, stack'[u] = stack[u], MirrorAt(u)
    PROVE  MirrorAt(u)'
<1>1. /\ Len(frames'[u]) = Len(frames[u])
      /\ \A i \in 1..Len(frames[u]) :
            /\ frames'[u][i].key = frames[u][i].key
            /\ \/ frames'[u][i].at = frames[u][i].at
               \/ frames[u][i].at = "waiting" /\ frames'[u][i].at = "woken"
  BY OthersAlike
<1>2. \A i \in 1..Len(frames[u]) : OnStackFrame(frames'[u][i]) <=> OnStackFrame(frames[u][i])
  BY <1>1 DEF OnStackFrame, Holds
<1>3. SameOpen(u)
  BY <1>1, <1>2 DEF SameOpen
<1> QED
  BY <1>3, MirrorSame

\* Where the innermost call of t is after a step of t.
LEMMA TopAfter ==
    ASSUME TypeOK, TypeOK', Shape, NEW t \in Threads
    PROVE  /\ \A k : Begins(t, k) => frames'[t] # <<>> /\ Top(t)'.at = "find"
           /\ \A point : GoesOn(t, point) =>
                frames'[t] # <<>> /\ Top(t)'.at = point /\ Top(t)'.key = Top(t).key
           /\ Ends(t) => frames'[t] = <<>> \/ Top(t)'.at \in {"construct", "hooks"}
<1>0. PICK d \in Nat : d = Len(frames[t])
  BY DEF TypeOK
<1>1. /\ frames'[t] \in Seq(Frame)
      /\ Top(t)' = frames'[t][Len(frames'[t])] /\ Top(t) = frames[t][d]
  BY <1>0 DEF Top, Depth, TypeOK
<1>2. ASSUME NEW k, Begins(t, k) PROVE frames'[t] # <<>> /\ Top(t)'.at = "find"
  <2>1. Len(frames'[t]) = d + 1 /\ frames'[t][d + 1].at = "find"
    BY <1>0, <1>2 DEF Begins
  <2> QED
    BY <1>0, <1>1, <2>1
<1>3. ASSUME NEW point, GoesOn(t, point)
      PROVE  frames'[t] # <<>> /\ Top(t)'.at = point /\ Top(t)'.key = Top(t).key
  <2>1. Len(frames'[t]) = d /\ d # 0 /\ frames'[t][d].at = point /\ frames'[t][d].key = Top(t).key
    BY <1>0, <1>3 DEF GoesOn
  <2> QED
    BY <1>0, <1>1, <2>1
<1>4. ASSUME Ends(t), frames'[t] # <<>> PROVE Top(t)'.at \in {"construct", "hooks"}
  <2>1. Len(frames'[t]) = d - 1 /\ \A i \in 1..d - 1 : Alike(t, i)
    BY <1>0, <1>4 DEF Ends
  <2>2. d - 1 \in 1..d - 1 /\ d - 1 \in 1..d /\ d - 1 < d
    BY <1>0, <1>1, <1>4, <2>1
  <2>3. frames[t][d - 1].at \in {"construct", "hooks"}
    BY <1>0, <2>2 DEF Shape
  <2> QED
    BY <1>1, <2>1, <2>2, <2>3 DEF Alike
<1> QED
  BY <1>2, <1>3, <1>4

\* The call invariant after a step of t, whose own part of it holds again.
LEMMA CallKept ==
    ASSUME TypeOK, TypeOK', CallInv, NEW t \in Threads,
           \/ \E k : Begins(t, k) /\ (Len(frames[t]) # 0 => k \in AllDeps(Top(t).key))
           \/ \E point : GoesOn(t, point)
           \/ Ends(t),
           \A u \in Threads \ {t} : waits'[u] = waits[u] /\ stack'[u] = stack[u],
           WaitAt(t)', MirrorAt(t)'
    PROVE  CallInv'
<1>1. Others(t)
  BY DEF Begins, GoesOn, Ends
<1>2. Chained'
  BY ChainKept DEF CallInv
<1>3. WaitSlots'
  BY <1>1, WaitsKept DEF CallInv
<1>4. \A u \in Threads : MirrorAt(u)'
  <2> SUFFICES ASSUME NEW u \in Threads \ {t} PROVE MirrorAt(u)'
    OBVIOUS
  <2>1. MirrorAt(u)
    BY DEF CallInv, StackMirrorsFrames, MirrorAt
  <2> QED
    BY <1>1, <2>1, MirrorOthers
<1>5. StackMirrorsFrames'
  BY <1>4 DEF StackMirrorsFrames, MirrorAt
<1> QED
  BY <1>2, <1>3, <1>5 DEF CallInv

\* The same after a step that leaves the entries on t's stack alone and t with
\* no active wait slot.
LEMMA CallKeptQuietly ==
    ASSUME TypeOK, TypeOK', Shape, CallInv, NEW t \in Threads,
           \/ \E k : Begins(t, k) /\ (Len(frames[t]) # 0 => k \in AllDeps(Top(t).key))
           \/ \E point : /\ GoesOn(t, point) /\ point # "waiting"
                         /\ OnStackFrame(Top(t)) <=> OnStackFrame(frames'[t][Len(frames[t])])
           \/ Ends(t) /\ ~OnStackFrame(Top(t)),
           stack' = stack, waits'[t] = NoKey, \A u \in Threads \ {t} : waits'[u] = waits[u]
    PROVE  CallInv'
<1>1. SameOpen(t) /\ MirrorAt(t)
  BY OpenSame DEF CallInv, StackMirrorsFrames, MirrorAt
<1>2. MirrorAt(t)'
  BY <1>1, MirrorSame
<1>3. frames'[t] # <<>> => Top(t)'.at # "waiting"
  BY TopAfter
<1>4. WaitAt(t)'
  BY <1>3 DEF WaitAt
<1> QED
  BY <1>2, <1>4, CallKept

\* The innermost call of t.
LEMMA TopCall ==
    ASSUME TypeOK, Shape, NEW t \in Threads, frames[t] # <<>>
    PROVE  /\ Len(frames[t]) \in Nat \ {0} /\ Len(frames[t]) \in 1..Len(frames[t])
           /\ Top(t) = frames[t][Len(frames[t])] /\ Top(t).key \in Keys
           /\ Top(t).at \in Points \ {"find", "construct", "hooks"} => Top(t).key \in Shared
<1>1. frames[t] \in Seq(Frame)
  BY DEF TypeOK
<1>2. Len(frames[t]) \in Nat \ {0} /\ Len(frames[t]) \in 1..Len(frames[t])
  BY <1>1
<1>3. Top(t) = frames[t][Len(frames[t])]
  BY DEF Top, Depth
<1>4. Top(t) \in Frame
  BY <1>1, <1>2, <1>3
<1>5. Top(t).key \in Keys
  BY <1>4 DEF Frame
<1> QED
  BY <1>2, <1>3, <1>5 DEF Shape

\* A thread whose innermost call does not wait has no active wait slot.
LEMMA NoWait ==
    ASSUME WaitSlots, NEW t \in Threads,
           frames[t] = <<>> \/ Top(t).at \notin {"waiting", "woken"}
    PROVE  waits[t] = NoKey
BY DEF WaitSlots, WaitAt

\* Calls begin.
LEMMA CallBegins ==
    ASSUME TypeOK, TypeOK', Shape, CallInv, NEW t \in Threads,
           (\E k \in Keys : Resolve(t, k)) \/ ConstructDep(t) \/ HookDep(t)
    PROVE  CallInv'
<1>1. \E k \in Keys : Enter(t, k) /\ (Len(frames[t]) # 0 => k \in AllDeps(Top(t).key))
  <2>1. CASE \E k \in Keys : Resolve(t, k)
    BY <2>1 DEF Resolve
  <2>2. CASE ConstructDep(t)
    <3>1. frames[t] # <<>> /\ Top(t).next <= Len(Deps[Top(t).key])
          /\ Enter(t, Deps[Top(t).key][Top(t).next])
      BY <2>2 DEF ConstructDep, Running
    <3>2. Top(t) \in Frame /\ Deps[Top(t).key][Top(t).next] \in Keys
      BY <3>1, DepIsKey
    <3>3. Top(t).next \in Nat \ {0} /\ Deps[Top(t).key] \in Seq(Keys)
      BY <3>2, ConstantsOK DEF Frame
    <3>4. Top(t).next \in 1..Len(Deps[Top(t).key])
      BY <3>1, <3>3
    <3> QED
      BY <3>1, <3>2, <3>4 DEF AllDeps, CtorDeps
  <2>3. CASE HookDep(t)
    <3>1. frames[t] # <<>> /\ Top(t).next <= Len(PostDeps[Top(t).key])
          /\ Enter(t, PostDeps[Top(t).key][Top(t).next])
      BY <2>3 DEF HookDep, Running
    <3>2. Top(t) \in Frame /\ PostDeps[Top(t).key][Top(t).next] \in Keys
      BY <3>1, DepIsKey
    <3>3. Top(t).next \in Nat \ {0} /\ PostDeps[Top(t).key] \in Seq(Keys)
      BY <3>2, ConstantsOK DEF Frame
    <3>4. Top(t).next \in 1..Len(PostDeps[Top(t).key])
      BY <3>1, <3>3
    <3> QED
      BY <3>1, <3>2, <3>4 DEF AllDeps
  <2> QED
    BY <2>1, <2>2, <2>3
<1>2. \E k : Begins(t, k) /\ (Len(frames[t]) # 0 => k \in AllDeps(Top(t).key))
  BY <1>1, EnterBegins
<1>3. stack' = stack /\ waits' = waits
  BY DEF Resolve, ConstructDep, HookDep
<1>4. waits[t] = NoKey
  <2>1. frames[t] = <<>> \/ Top(t).at \in {"construct", "hooks"}
    BY DEF Resolve, ConstructDep, HookDep, Running
  <2> QED
    BY <2>1, NoWait DEF CallInv
<1> QED
  BY <1>2, <1>3, <1>4, CallKeptQuietly

\* Calls return or are left, their entry already off the stack.
LEMMA CallEnds ==
    ASSUME TypeOK, TypeOK', Shape, CallInv, NEW t \in Threads,
           \/ FindHit(t) \/ ClaimFound(t) \/ HooksDone(t) \/ ClaimCycle(t) \/ HooksLeft(t)
           \/ PrototypeCycle(t) \/ NotifyAbandoned(t)
    PROVE  CallInv'
<1>1. frames[t] # <<>> /\ Ends(t)
  <2>1. CASE FindHit(t) \/ ClaimFound(t) \/ HooksDone(t)
    <3>1. frames[t] # <<>> /\ Return(t)
      BY <2>1 DEF FindHit, ClaimFound, HooksDone, Claiming, Running
    <3> QED
      BY <3>1, ReturnEnds
  <2>2. CASE ClaimCycle(t) \/ HooksLeft(t) \/ PrototypeCycle(t)
    <3>1. frames[t] # <<>> /\ frames' = [frames EXCEPT ![t] = Popped(@)]
      BY <2>2 DEF ClaimCycle, HooksLeft, PrototypeCycle, Claiming, Running, Unwinding, Leave
    <3> QED
      BY <3>1, LeaveEnds
  <2>3. CASE NotifyAbandoned(t)
    BY <2>3, NotifyGoesOn DEF NotifyAbandoned, Unwinding
  <2> QED
    BY <2>1, <2>2, <2>3
<1>2. ~OnStackFrame(Top(t))
  <2>1. Top(t).at \in {"find", "claim", "woken", "abandoned"}
        \/ (Top(t).at = "hooks" /\ Top(t).key \in Shared)
    BY DEF FindHit, ClaimFound, HooksDone, ClaimCycle, HooksLeft, PrototypeCycle,
           NotifyAbandoned, Claiming, Running, Unwinding
  <2> QED
    BY <2>1 DEF OnStackFrame, Holds, Shared
<1>3. stack' = stack
  BY DEF FindHit, ClaimFound, HooksDone, ClaimCycle, HooksLeft, PrototypeCycle, NotifyAbandoned
<1>4. waits'[t] = NoKey /\ \A u \in Threads \ {t} : waits'[u] = waits[u]
  <2>1. CASE ClaimFound(t) \/ ClaimCycle(t)
    BY <2>1 DEF ClaimFound, ClaimCycle, TypeOK
  <2>2. CASE FindHit(t) \/ HooksDone(t) \/ HooksLeft(t) \/ PrototypeCycle(t) \/ NotifyAbandoned(t)
    <3>1. waits' = waits /\ Top(t).at \in {"find", "hooks", "abandoned"}
      BY <2>2 DEF FindHit, HooksDone, HooksLeft, PrototypeCycle, NotifyAbandoned, Running, Unwinding
    <3>2. waits[t] = NoKey
      BY <3>1, NoWait DEF CallInv
    <3> QED
      BY <3>1, <3>2
  <2> QED
    BY <2>1, <2>2
<1> QED
  BY <1>1, <1>2, <1>3, <1>4, CallKeptQuietly

\* Calls go on with the entries as they are.
LEMMA CallGoesOn ==
    ASSUME TypeOK, TypeOK', Shape, CallInv, NEW t \in Threads,
           FindMiss(t) \/ Constructed(t) \/ Notify(t) \/ PrototypeConstructed(t)
    PROVE  CallInv'
<1>1. /\ frames[t] # <<>> /\ Top(t).at \in {"find", "construct", "notify"}
      /\ waits' = waits /\ stack' = stack
  BY DEF FindMiss, Constructed, Notify, PrototypeConstructed, Running
<1>2. waits[t] = NoKey
  BY <1>1, NoWait DEF CallInv
<1>3. \E point : /\ GoesOn(t, point) /\ point # "waiting"
                 /\ OnStackFrame(Top(t)) <=> OnStackFrame(frames'[t][Len(frames[t])])
  <2>1. CASE FindMiss(t)
    <3>1. GoTo(t, "claim") /\ "claim" \in Points /\ Top(t).at = "find"
      BY <2>1 DEF FindMiss, Running, Points
    <3>2. GoesOn(t, "claim")
      BY <1>1, <3>1, GoToGoesOn
    <3>3. frames'[t][Len(frames[t])].at = "claim"
      BY <3>2 DEF GoesOn
    <3>4. OnStackFrame(Top(t)) <=> OnStackFrame(frames'[t][Len(frames[t])])
      BY <3>1, <3>3 DEF OnStackFrame, Holds
    <3> QED
      BY <3>2, <3>4
  <2>2. CASE Constructed(t)
    <3>1. GoTo(t, "store") /\ "store" \in Points /\ Top(t).at = "construct" /\ Top(t).key \in Shared
      BY <2>2 DEF Constructed, Running, Points
    <3>2. GoesOn(t, "store")
      BY <1>1, <3>1, GoToGoesOn
    <3>3. frames'[t][Len(frames[t])].at = "store" /\ frames'[t][Len(frames[t])].key = Top(t).key
      BY <3>2 DEF GoesOn
    <3>4. OnStackFrame(Top(t)) <=> OnStackFrame(frames'[t][Len(frames[t])])
      BY <3>1, <3>3 DEF OnStackFrame, Holds, Shared
    <3> QED
      BY <3>2, <3>4
  <2>3. CASE Notify(t)
    <3>1. GoesOn(t, "hooks") /\ Top(t).at = "notify"
      BY <2>3, NotifyGoesOn DEF Notify, Running
    <3>2. Top(t).key \in Shared
      BY <1>1, <3>1, TopCall DEF Points
    <3>3. frames'[t][Len(frames[t])].at = "hooks" /\ frames'[t][Len(frames[t])].key = Top(t).key
      BY <3>1 DEF GoesOn
    <3>4. OnStackFrame(Top(t)) <=> OnStackFrame(frames'[t][Len(frames[t])])
      BY <3>1, <3>2, <3>3 DEF OnStackFrame, Holds, Shared
    <3> QED
      BY <3>1, <3>4
  <2>4. CASE PrototypeConstructed(t)
    <3>1. /\ GoTo(t, "hooks") /\ "hooks" \in Points /\ Top(t).at = "construct"
          /\ Top(t).key \in Prototypes
      BY <2>4 DEF PrototypeConstructed, Running, Points
    <3>2. GoesOn(t, "hooks")
      BY <1>1, <3>1, GoToGoesOn
    <3>3. frames'[t][Len(frames[t])].at = "hooks" /\ frames'[t][Len(frames[t])].key = Top(t).key
      BY <3>2 DEF GoesOn
    <3>4. OnStackFrame(Top(t)) <=> OnStackFrame(frames'[t][Len(frames[t])])
      BY <3>1, <3>3 DEF OnStackFrame
    <3> QED
      BY <3>2, <3>4
  <2> QED
    BY <2>1, <2>2, <2>3, <2>4
<1> QED
  BY <1>1, <1>2, <1>3, CallKeptQuietly

\* A thread starts to wait, or wakes up by itself.
LEMMA CallWaits ==
    ASSUME TypeOK, TypeOK', Shape, CallInv, NEW t \in Threads, ClaimWait(t) \/ SpuriousWakeup(t)
    PROVE  CallInv'
<1>1. PICK point \in {"waiting", "woken"} :
        /\ GoTo(t, point) /\ frames[t] # <<>> /\ Top(t).at \in {"claim", "waiting", "woken"}
        /\ waits'[t] = Top(t).key /\ stack' = stack
        /\ \A u \in Threads \ {t} : waits'[u] = waits[u]
  <2>1. CASE ClaimWait(t)
    BY <2>1 DEF ClaimWait, Claiming, Running, TypeOK
  <2>2. CASE SpuriousWakeup(t)
    <3>1. GoTo(t, "woken") /\ frames[t] # <<>> /\ Top(t).at = "waiting" /\ waits' = waits /\ stack' = stack
      BY <2>2 DEF SpuriousWakeup, Running
    <3>2. waits[t] = Top(t).key
      BY <3>1 DEF CallInv, WaitSlots, WaitAt
    <3> QED
      BY <3>1, <3>2
  <2> QED
    BY <2>1, <2>2
<1>2. GoesOn(t, point)
  BY <1>1, GoToGoesOn DEF Points
<1>3. frames'[t] # <<>> /\ Top(t)'.at = point /\ Top(t)'.key = Top(t).key
  BY <1>2, TopAfter
<1>4. WaitAt(t)'
  BY <1>1, <1>3 DEF WaitAt
<1>5. OnStackFrame(Top(t)) <=> OnStackFrame(frames'[t][Len(frames[t])])
  <2>1. frames'[t][Len(frames[t])].at = point /\ frames'[t][Len(frames[t])].key = Top(t).key
    BY <1>2 DEF GoesOn
  <2> QED
    BY <1>1, <2>1 DEF OnStackFrame, Holds
<1>6. MirrorAt(t)
  BY DEF CallInv, StackMirrorsFrames, MirrorAt
<1>7. MirrorAt(t)'
  <2>1. SameOpen(t)
    BY <1>2, <1>5, OpenSame
  <2> QED
    BY <1>1, <1>6, <2>1, MirrorSame
<1> QED
  BY <1>1, <1>2, <1>4, <1>7, CallKept

\* A construction starts: its descriptor is pushed.
LEMMA CallPushes ==
    ASSUME TypeOK, TypeOK', Shape, CallInv, NEW t \in Threads, ClaimOwn(t) \/ PrototypeGuard(t)
    PROVE  CallInv'
<1>1. /\ frames[t] # <<>> /\ GoTo(t, "construct") /\ "construct" \in Points
      /\ stack' = [stack EXCEPT ![t] = Append(@, Desc[Top(t).key])]
      /\ \/ Top(t).at = "find" /\ Top(t).key \in Prototypes
         \/ Top(t).at \in {"claim", "woken"}
  BY DEF ClaimOwn, PrototypeGuard, Claiming, Running, Points
<1>2. GoesOn(t, "construct") /\ Top(t) = frames[t][Len(frames[t])]
  BY <1>1, GoToGoesOn, TopCall
<1>3. ~OnStackFrame(frames[t][Len(frames[t])])
  BY <1>1, <1>2 DEF OnStackFrame, Holds
<1>4. OnStackFrame(frames'[t][Len(frames[t])])
  <2>1. frames'[t][Len(frames[t])].at = "construct" /\ frames'[t][Len(frames[t])].key = Top(t).key
    BY <1>2 DEF GoesOn
  <2>2. Top(t).key \in Prototypes \/ Top(t).key \in Shared
    BY <1>1, TopCall DEF Shared
  <2> QED
    BY <2>1, <2>2 DEF OnStackFrame, Holds
<1>5. MirrorAt(t)'
  BY <1>1, <1>2, <1>3, <1>4, MirrorPush DEF CallInv, StackMirrorsFrames, MirrorAt
<1>6. waits'[t] = NoKey /\ \A u \in Threads \ {t} : waits'[u] = waits[u]
  <2>1. CASE ClaimOwn(t)
    BY <2>1 DEF ClaimOwn, TypeOK
  <2>2. CASE PrototypeGuard(t)
    <3>1. waits' = waits /\ Top(t).at = "find"
      BY <2>2 DEF PrototypeGuard, Running
    <3> QED
      BY <3>1, NoWait DEF CallInv
  <2> QED
    BY <2>1, <2>2
<1>7. WaitAt(t)'
  <2>1. Top(t)'.at = "construct"
    BY <1>2, TopAfter
  <2> QED
    BY <1>6, <2>1 DEF WaitAt
<1>8. \A u \in Threads \ {t} : stack'[u] = stack[u]
  BY <1>1 DEF TypeOK
<1> QED
  BY <1>2, <1>5, <1>6, <1>7, <1>8, CallKept

\* A construction, or the whole materialization of a prototype, ends well or
\* badly: its entry is popped.
LEMMA CallPops ==
    ASSUME TypeOK, TypeOK', Shape, CallInv, NEW t \in Threads,
           Abandon(t) \/ Store(t) \/ PrototypeDone(t) \/ PrototypeLeft(t)
    PROVE  CallInv'
<1>1. /\ frames[t] # <<>> /\ waits' = waits
      /\ stack' = [stack EXCEPT ![t] = Popped(@)]
      /\ Top(t).at \in {"construct", "store", "hooks"}
  BY DEF Abandon, Store, PrototypeDone, PrototypeLeft, Running, Unwinding
<1>2. OnStackFrame(Top(t))
  <2>1. CASE Abandon(t)
    BY <2>1 DEF Abandon, Unwinding, OnStackFrame, Holds, Shared
  <2>2. CASE Store(t)
    <3>1. Top(t).at = "store"
      BY <2>2 DEF Store, Running
    <3>2. Top(t).key \in Shared
      BY <1>1, <3>1, TopCall DEF Points
    <3> QED
      BY <3>1, <3>2 DEF OnStackFrame, Holds, Shared
  <2>3. CASE PrototypeDone(t) \/ PrototypeLeft(t)
    BY <2>3 DEF PrototypeDone, PrototypeLeft, Running, Unwinding, OnStackFrame
  <2> QED
    BY <2>1, <2>2, <2>3
<1>3. \/ Ends(t)
      \/ \E point : /\ GoesOn(t, point) /\ point # "waiting"
                    /\ ~OnStackFrame(frames'[t][Len(frames[t])])
  <2>1. CASE Abandon(t) \/ Store(t)
    <3>1. PICK point \in {"abandoned", "notify"} : GoTo(t, point)
      BY <2>1 DEF Abandon, Store
    <3>2. GoesOn(t, point) /\ Top(t).key \in Shared
      <4>1. Top(t).key \in Shared
        BY <1>1, <2>1, TopCall DEF Abandon, Store, Running, Points
      <4> QED
        BY <1>1, <3>1, <4>1, GoToGoesOn DEF Points
    <3>3. frames'[t][Len(frames[t])].at = point /\ frames'[t][Len(frames[t])].key = Top(t).key
      BY <3>2 DEF GoesOn
    <3>4. ~OnStackFrame(frames'[t][Len(frames[t])])
      BY <3>2, <3>3 DEF OnStackFrame, Holds, Shared
    <3> QED
      BY <3>2, <3>4
  <2>2. CASE PrototypeDone(t)
    BY <1>1, <2>2, ReturnEnds DEF PrototypeDone
  <2>3. CASE PrototypeLeft(t)
    BY <1>1, <2>3, LeaveEnds DEF PrototypeLeft, Leave
  <2> QED
    BY <2>1, <2>2, <2>3
<1>4. MirrorAt(t)'
  <2>1. MirrorAt(t) /\ OnStackFrame(frames[t][Len(frames[t])])
    BY <1>1, <1>2, TopCall DEF CallInv, StackMirrorsFrames, MirrorAt
  <2> QED
    BY <1>1, <1>3, <2>1, MirrorPop
<1>5. waits'[t] = NoKey
  BY <1>1, NoWait DEF CallInv
<1>6. WaitAt(t)'
  <2>1. frames'[t] # <<>> => Top(t)'.at # "waiting"
    BY <1>3, TopAfter
  <2> QED
    BY <1>5, <2>1 DEF WaitAt
<1>7. \A u \in Threads \ {t} : stack'[u] = stack[u] /\ waits'[u] = waits[u]
  BY <1>1 DEF TypeOK
<1> QED
  BY <1>3, <1>4, <1>6, <1>7, CallKept

\* The call invariant is inductive, given IInv.
LEMMA CallPreserved == IInv /\ IInv' /\ CallInv /\ [Next]_vars => CallInv'
<1> SUFFICES ASSUME IInv, IInv', CallInv, [Next]_vars PROVE CallInv'
  OBVIOUS
<1>0. TypeOK /\ TypeOK' /\ Shape
  BY DEF IInv
<1>1. CASE \/ \E t \in Threads : ConstructorThrows(t) \/ HooksThrow(t)
           \/ AllDone \/ UNCHANGED vars
  <2>1. UNCHANGED <<frames, stack, waits>>
    BY <1>1 DEF ConstructorThrows, HooksThrow, Throw, AllDone, vars
  <2>2. Chained'
    BY <2>1 DEF CallInv, Chained
  <2>3. WaitSlots'
    BY <2>1 DEF CallInv, WaitSlots, WaitAt, Top, Depth
  <2>4. StackMirrorsFrames'
    BY <2>1 DEF CallInv, StackMirrorsFrames
  <2> QED
    BY <2>2, <2>3, <2>4 DEF CallInv
<1> QED
  BY <1>0, <1>1, CallBegins, CallEnds, CallGoesOn, CallWaits, CallPushes, CallPops
  DEF Next, Step

\* No call is in progress before the first resolve().
LEMMA InitCall == Init => CallInv
<1> SUFFICES ASSUME Init PROVE CallInv
  OBVIOUS
<1>1. \A t \in Threads : /\ frames[t] = <<>> /\ Len(frames[t]) = 0 /\ waits[t] = NoKey
                         /\ stack[t] = <<>> /\ Len(stack[t]) = 0
  BY DEF Init
<1>2. Chained /\ WaitSlots
  BY <1>1 DEF Chained, WaitSlots, WaitAt
<1>3. StackMirrorsFrames
  <2> SUFFICES ASSUME NEW t \in Threads PROVE MirrorAt(t)
    BY DEF StackMirrorsFrames, MirrorAt
  <2>1. 1..0 = {}
    OBVIOUS
  <2> DEFINE pos == [n \in 1..0 |-> n]
  <2>2. pos \in [1..0 -> 1..0]
    BY <2>1
  <2> HIDE DEF pos
  <2> QED
    BY <1>1, <2>1, <2>2 DEF MirrorAt
<1> QED
  BY <1>2, <1>3 DEF CallInv

\* Whatever the threads, the beans and the failures: the per-thread stack of
\* descriptors has one entry for each construction in progress, innermost last,
\* so that no pop_back() takes the entry of another frame.
THEOREM StackCorrect == Spec => []StackMirrorsFrames
<1>1. CallInv => StackMirrorsFrames
  BY DEF CallInv
<1> QED
  BY Inductive, InitCall, CallPreserved, <1>1, PTL DEF Spec

-----------------------------------------------------------------------------
(* Cycles of beans, of calls and of waiting threads.                       *)

Circular == ReachesCycle(AllDeps)
Faulty == Reaching(Throwing \union PostThrowing)

\* No two beans are the same to the per-thread stack.
DescsDiffer == \A k, q \in Keys : Desc[k] = Desc[q] => k = q

\* A set of beans that each resolve one of the set is circular.
LEMMA ClosedIsCircular ==
    ASSUME NEW C \in SUBSET Keys, \A k \in C : AllDeps(k) \cap C # {}
    PROVE  C \subseteq Circular
BY DEF Circular, ReachesCycle

\* So is a bean that resolves a circular one.
LEMMA CircularReached ==
    ASSUME NEW k \in Keys, NEW q \in AllDeps(k), q \in Circular
    PROVE  k \in Circular
<1>1. PICK C \in SUBSET Keys : q \in C /\ \A j \in C : AllDeps(j) \cap C # {}
  BY DEF Circular, ReachesCycle
<1>2. PICK E \in SUBSET Keys : E = C \union {k}
  BY <1>1
<1>3. \A j \in E : AllDeps(j) \cap E # {}
  BY <1>1, <1>2
<1> QED
  BY <1>2, <1>3, ClosedIsCircular

\* A bean that resolves a faulty one is faulty.
LEMMA FaultyReached ==
    ASSUME NEW k \in Keys, NEW q \in AllDeps(k), q \in Faulty
    PROVE  k \in Faulty
<1> DEFINE Closed(X) == /\ Throwing \union PostThrowing \subseteq X
                        /\ \A j \in Keys : AllDeps(j) \cap X # {} => j \in X
<1>1. \A j \in Keys : j \in Faulty <=> \A X \in SUBSET Keys : Closed(X) => j \in X
  BY DEF Faulty, Reaching
<1>2. q \in Keys
  BY DEF Faulty, Reaching
<1>3. ASSUME NEW X \in SUBSET Keys, Closed(X) PROVE k \in X
  BY <1>1, <1>2, <1>3
<1> HIDE DEF Closed
<1> QED
  BY <1>1, <1>3

\* A bean whose code may throw is faulty.
LEMMA ThrowingIsFaulty == Throwing \union PostThrowing \subseteq Faulty
BY ConstantsOK DEF Faulty, Reaching

\* Threads that wait for one another hold beans that need one another.
LEMMA WaitRing ==
    ASSUME TypeOK, Shape, Claims, Chained, NEW W \in SUBSET Threads,
           \A u \in W : /\ frames[u] # <<>> /\ ~Holds(Top(u)) /\ Top(u).key \in Shared
                        /\ owner[Top(u).key] \in W
    PROVE  \A u \in W : Top(u).key \in Circular
<1> DEFINE C == {frames[p[1]][p[2]].key : p \in {p \in W \X Nat : p[2] \in 1..Len(frames[p[1]])}}
<1>1. \A u \in W : \A i \in 1..Len(frames[u]) : frames[u][i].key \in C
  <2> SUFFICES ASSUME NEW u \in W, NEW i \in 1..Len(frames[u]) PROVE frames[u][i].key \in C
    OBVIOUS
  <2>1. Len(frames[u]) \in Nat
    BY DEF TypeOK
  <2>2. PICK p : p = <<u, i>>
    OBVIOUS
  <2>3. i \in Nat
    BY <2>1
  <2>4. p \in W \X Nat /\ p[1] = u /\ p[2] = i
    BY <2>2, <2>3
  <2> QED
    BY <2>4
<1>2. \A k \in C : \E u \in W : \E i \in 1..Len(frames[u]) : k = frames[u][i].key
  OBVIOUS
<1> HIDE DEF C
<1>3. ASSUME NEW u \in W, NEW i \in 1..Len(frames[u]), i # Len(frames[u])
      PROVE  AllDeps(frames[u][i].key) \cap C # {}
  <2>1. i + 1 \in 1..Len(frames[u])
    <3>1. Len(frames[u]) \in Nat
      BY DEF TypeOK
    <3> QED
      BY <1>3, <3>1
  <2>2. frames[u][i + 1].key \in AllDeps(frames[u][i].key)
    BY <1>3, <2>1 DEF Chained
  <2>3. frames[u][i + 1].key \in C
    BY <1>1, <2>1
  <2> QED
    BY <2>2, <2>3
<1>4. ASSUME NEW u \in W PROVE AllDeps(Top(u).key) \cap C # {}
  <2>1. PICK v \in W : owner[Top(u).key] = v
    OBVIOUS
  <2>2. PICK i \in 1..Len(frames[v]) : frames[v][i].key = Top(u).key /\ Holds(frames[v][i])
    BY <2>1 DEF Claims, OwnedIsHeld
  <2>3. i # Len(frames[v])
    BY <2>2 DEF Top, Depth
  <2> QED
    BY <1>3, <2>2, <2>3
<1>5. ASSUME NEW k \in C PROVE k \in Keys /\ AllDeps(k) \cap C # {}
  <2>1. PICK u \in W : \E i \in 1..Len(frames[u]) : k = frames[u][i].key
    BY <1>2
  <2>2. PICK i \in 1..Len(frames[u]) : k = frames[u][i].key
    BY <2>1
  <2>3. k \in Keys
    <3>1. frames[u] \in Seq(Frame)
      BY DEF TypeOK
    <3>2. frames[u][i] \in Frame
      BY <3>1
    <3> QED
      BY <2>2, <3>2 DEF Frame
  <2>4. AllDeps(k) \cap C # {}
    <3>1. CASE i = Len(frames[u])
      BY <1>4, <2>2, <3>1 DEF Top, Depth
    <3>2. CASE i # Len(frames[u])
      BY <1>3, <2>2, <3>2
    <3> QED
      BY <3>1, <3>2
  <2> QED
    BY <2>3, <2>4
<1>6. C \subseteq Circular
  BY <1>5, ClosedIsCircular
<1>7. ASSUME NEW u \in W PROVE Top(u).key \in C
  BY <1>1, TopCall
<1> QED
  BY <1>6, <1>7

\* A descriptor found on the stack of its own thread is that of a bean which,
\* directly or not, resolves itself.
LEMMA OnStackIsCircular ==
    ASSUME TypeOK, Shape, CallInv, DescsDiffer, NEW t \in Threads, frames[t] # <<>>,
           ~OnStackFrame(Top(t)), OnStack(t, Top(t).key)
    PROVE  Top(t).key \in Circular
<1>1. PICK d \in Nat \ {0} : d = Len(frames[t]) /\ Top(t) = frames[t][d] /\ Top(t).key \in Keys
  BY TopCall
<1>2. PICK i \in 1..d : Desc[frames[t][i].key] = Desc[Top(t).key] /\ OnStackFrame(frames[t][i])
  <2>1. PICK n \in 1..Len(stack[t]) : stack[t][n] = Desc[Top(t).key]
    BY DEF OnStack
  <2>2. PICK pos \in [1..Len(stack[t]) -> 1..Len(frames[t])] :
          /\ \A m \in 1..Len(stack[t]) : stack[t][m] = Desc[frames[t][pos[m]].key]
          /\ \A i \in 1..Len(frames[t]) :
                OnStackFrame(frames[t][i]) <=> \E m \in 1..Len(stack[t]) : pos[m] = i
    BY DEF CallInv, StackMirrorsFrames
  <2>3. pos[n] \in 1..d /\ OnStackFrame(frames[t][pos[n]])
    BY <1>1, <2>1, <2>2
  <2> QED
    BY <2>1, <2>2, <2>3
<1>3. \A j \in 1..d : frames[t][j].key \in Keys
  <2>1. frames[t] \in Seq(Frame)
    BY DEF TypeOK
  <2>2. \A j \in 1..d : frames[t][j] \in Frame
    BY <1>1, <2>1
  <2> QED
    BY <2>2 DEF Frame
<1>4. frames[t][i].key = Top(t).key /\ i # d
  BY <1>1, <1>2, <1>3 DEF DescsDiffer
<1> DEFINE C == {frames[t][j].key : j \in i..d}
<1>5. \A j \in i..d : j \in 1..d /\ frames[t][j].key \in C
  BY <1>1
<1>6. \A j \in i..d : j # d => j + 1 \in i..d
  BY <1>1
<1>7. i \in i..d /\ d \in i..d
  BY <1>1
<1>8. ASSUME NEW j \in i..d PROVE AllDeps(frames[t][j].key) \cap C # {}
  <2>1. ASSUME NEW l \in i..d, l # d PROVE AllDeps(frames[t][l].key) \cap C # {}
    <3>1. l + 1 \in i..d /\ l \in 1..d /\ l + 1 \in 1..d
      BY <1>5, <1>6, <2>1
    <3>2. frames[t][l + 1].key \in AllDeps(frames[t][l].key)
      BY <1>1, <3>1 DEF CallInv, Chained
    <3> QED
      BY <1>5, <3>1, <3>2
  <2>2. CASE j # d
    BY <2>1, <2>2
  <2>3. CASE j = d
    <3>1. AllDeps(frames[t][i].key) \cap C # {}
      BY <1>4, <1>7, <2>1
    <3> QED
      BY <1>1, <1>4, <2>3, <3>1
  <2> QED
    BY <2>2, <2>3
<1>9. C \in SUBSET Keys /\ \A k \in C : AllDeps(k) \cap C # {}
  <2>1. C \in SUBSET Keys
    BY <1>3, <1>5
  <2>2. ASSUME NEW k \in C PROVE AllDeps(k) \cap C # {}
    <3>1. PICK j \in i..d : k = frames[t][j].key
      OBVIOUS
    <3> QED
      BY <1>8, <3>1
  <2> QED
    BY <2>1, <2>2
<1>10. Top(t).key \in C
  BY <1>1, <1>5, <1>7
<1> HIDE DEF C
<1> QED
  BY <1>9, <1>10, ClosedIsCircular

-----------------------------------------------------------------------------
(* The walk along wait edges.                                              *)

\* The order of the naturals is well founded.
LEMMA LessThanRelation ==
    \E R : IsWellFoundedOn(R, Nat) /\ \A x, y \in Nat : <<y, x>> \in R <=> y < x
<1>1. IsWellFoundedOn(OpToRel(<, Nat), Nat)
  BY NatLessThanWellFounded
<1>2. \A x, y \in Nat : <<y, x>> \in OpToRel(<, Nat) <=> y < x
  BY DEF OpToRel
<1> QED
  BY <1>1, <1>2

\* So that a set of naturals has a least element.
LEMMA LeastElement ==
    ASSUME NEW T \in SUBSET Nat, T # {}
    PROVE  \E m \in T : \A n \in T : m <= n
<1>1. PICK R : IsWellFoundedOn(R, Nat) /\ \A x, y \in Nat : <<y, x>> \in R <=> y < x
  BY LessThanRelation
<1>2. PICK m \in T : \A y \in T : ~ (<<y, m>> \in R)
  BY <1>1, WFMin
<1>3. \A y \in T : ~ (y < m)
  BY <1>1, <1>2
<1> QED
  BY <1>3

\* f is a walk of m steps from o in registry r.
IsWalk(f, o, r, m) == f = [n \in 0..m |-> IF n = 0 THEN o ELSE Blocker(f[n - 1], r)]

\* There is a walk of any length.
LEMMA WalkExists ==
    ASSUME NEW o, NEW r, NEW m \in Nat
    PROVE  \E f : IsWalk(f, o, r, m)
<1> DEFINE T == {n \in Nat : ~\E f : IsWalk(f, o, r, n)}
<1> SUFFICES ASSUME T # {} PROVE FALSE
  OBVIOUS
<1>1. PICK l \in T : \A n \in T : l <= n
  BY LeastElement
<1>2. l \in Nat /\ ~\E f : IsWalk(f, o, r, l)
  OBVIOUS
<1>3. CASE l = 0
  <2>1. PICK f : f = [n \in 0..0 |-> o]
    OBVIOUS
  <2>2. \A n \in 0..0 : n = 0
    OBVIOUS
  <2>3. f = [n \in 0..0 |-> IF n = 0 THEN o ELSE Blocker(f[n - 1], r)]
    BY <2>1, <2>2
  <2> QED
    BY <1>2, <1>3, <2>3 DEF IsWalk
<1>4. CASE l # 0
  <2>1. PICK j \in Nat : l = j + 1
    <3>1. l - 1 \in Nat /\ l = (l - 1) + 1
      BY <1>2, <1>4
    <3> QED
      BY <3>1
  <2>2. j \notin T
    BY <1>1, <1>2, <2>1
  <2>3. PICK f : IsWalk(f, o, r, j)
    BY <2>2
  <2>4. PICK g : g = [n \in 0..l |-> IF n = 0 THEN o ELSE Blocker(f[n - 1], r)]
    OBVIOUS
  <2>5. \A n \in 0..j : n \in 0..l /\ g[n] = f[n]
    BY <2>1, <2>3, <2>4 DEF IsWalk
  <2>6. \A n \in 0..l : n # 0 => n - 1 \in 0..j
    BY <2>1
  <2>7. \A n \in 0..l : (IF n = 0 THEN o ELSE Blocker(f[n - 1], r))
                        = (IF n = 0 THEN o ELSE Blocker(g[n - 1], r))
    BY <2>5, <2>6
  <2>8. g = [n \in 0..l |-> IF n = 0 THEN o ELSE Blocker(g[n - 1], r)]
    BY <2>4, <2>7
  <2> QED
    BY <1>2, <2>8 DEF IsWalk
<1> QED
  BY <1>3, <1>4

\* materializationWaitCycleDetected follows one.
LEMMA WalkIs ==
    ASSUME NEW k \in Keys, Cardinality(Materializing(Reg[k])) \in Nat
    PROVE  IsWalk(Walk(k), owner[k], Reg[k], Cardinality(Materializing(Reg[k])))
<1>1. PICK m \in Nat : m = Cardinality(Materializing(Reg[k]))
  OBVIOUS
<1>2. Walk(k) = CHOOSE f : f = [n \in 0..m |-> IF n = 0 THEN owner[k] ELSE Blocker(f[n - 1], Reg[k])]
  BY <1>1 DEF Walk
<1>3. \E f : f = [n \in 0..m |-> IF n = 0 THEN owner[k] ELSE Blocker(f[n - 1], Reg[k])]
  <2>1. PICK o, r : o = owner[k] /\ r = Reg[k]
    OBVIOUS
  <2>2. PICK f : IsWalk(f, o, r, m)
    BY WalkExists
  <2>3. f = [n \in 0..m |-> IF n = 0 THEN owner[k] ELSE Blocker(f[n - 1], Reg[k])]
    BY <2>1, <2>2 DEF IsWalk
  <2> QED
    BY <2>3
<1>4. Walk(k) = [n \in 0..m |-> IF n = 0 THEN owner[k] ELSE Blocker(Walk(k)[n - 1], Reg[k])]
  BY <1>2, <1>3
<1> QED
  BY <1>1, <1>4 DEF IsWalk

\* materializing_ is finite.
LEMMA MaterializingFinite ==
    ASSUME NEW r
    PROVE  IsFiniteSet(Materializing(r)) /\ Cardinality(Materializing(r)) \in Nat
<1>1. Materializing(r) \subseteq Keys /\ IsFiniteSet(Keys)
  BY ConstantsOK DEF Materializing
<1>2. IsFiniteSet(Materializing(r))
  BY <1>1, FS_Subset
<1> QED
  BY <1>2, FS_CardinalityType

\* The walk, step by step.
LEMMA WalkSteps ==
    ASSUME TypeOK, NEW k \in Keys
    PROVE  LET m == Cardinality(Materializing(Reg[k])) IN
           /\ m \in Nat /\ Walk(k)[0] = owner[k]
           /\ \A n \in 0..m : n # 0 => Walk(k)[n] = Blocker(Walk(k)[n - 1], Reg[k])
<1>1. PICK m \in Nat : m = Cardinality(Materializing(Reg[k]))
  BY MaterializingFinite
<1>2. IsWalk(Walk(k), owner[k], Reg[k], m)
  BY <1>1, WalkIs
<1>3. PICK f : f = Walk(k)
  OBVIOUS
<1>4. f = [n \in 0..m |-> IF n = 0 THEN owner[k] ELSE Blocker(f[n - 1], Reg[k])]
  BY <1>2, <1>3 DEF IsWalk
<1>5. f[0] = owner[k] /\ \A n \in 0..m : n # 0 => f[n] = Blocker(f[n - 1], Reg[k])
  BY <1>4
<1> QED
  BY <1>1, <1>3, <1>5

\* The walk goes from thread to thread, or ends.
LEMMA WalkType ==
    ASSUME TypeOK, NEW k \in Keys, NEW n \in 0..Cardinality(Materializing(Reg[k]))
    PROVE  Walk(k)[n] \in Threads \union {NoThread}
<1>1. PICK m \in Nat : m = Cardinality(Materializing(Reg[k]))
  BY MaterializingFinite
<1>2. PICK f : f = Walk(k)
  OBVIOUS
<1>3. f[0] = owner[k] /\ \A j \in 0..m : j # 0 => f[j] = Blocker(f[j - 1], Reg[k])
  BY <1>1, <1>2, WalkSteps
<1> DEFINE T == {j \in 0..m : f[j] \notin Threads \union {NoThread}}
<1> SUFFICES ASSUME T # {} PROVE FALSE
  BY <1>1, <1>2
<1>4. T \in SUBSET Nat
  BY <1>1
<1>5. PICK l \in T : \A j \in T : l <= j
  BY <1>4, LeastElement
<1>6. l \in 0..m /\ f[l] \notin Threads \union {NoThread}
  OBVIOUS
<1>7. l # 0
  BY <1>3, <1>6 DEF TypeOK
<1>8. l - 1 \in 0..m /\ l - 1 < l
  BY <1>1, <1>6, <1>7
<1>9. f[l - 1] \in Threads \union {NoThread}
  BY <1>5, <1>6, <1>8
<1>10. Blocker(f[l - 1], Reg[k]) \in Threads \union {NoThread}
  BY <1>9 DEF Blocker, TypeOK
<1> QED
  BY <1>3, <1>6, <1>7, <1>10

\* materializationWaitCycleDetected: t would wait for a thread that, directly or
\* not, waits for t, and then the bean it waits for needs itself.
LEMMA WaitCycleIsCircular ==
    ASSUME TypeOK, Shape, Claims, CallInv, NEW t \in Threads, frames[t] # <<>>, ~Holds(Top(t)),
           Top(t).key \in Shared, WaitCycleDetected(t, Top(t).key)
    PROVE  Top(t).key \in Circular
<1>1. PICK k \in Keys : k = Top(t).key
  BY DEF Shared
<1>2. PICK m \in Nat : m = Cardinality(Materializing(Reg[k]))
  BY MaterializingFinite
<1>3. PICK f : f = Walk(k)
  OBVIOUS
<1>4. /\ f[0] = owner[k] /\ \A j \in 0..m : j # 0 => f[j] = Blocker(f[j - 1], Reg[k])
      /\ \A j \in 0..m : f[j] \in Threads \union {NoThread}
  BY <1>2, <1>3, WalkSteps, WalkType
<1>5. PICK last \in 0..(m - 1) : f[last] = t
  BY <1>1, <1>2, <1>3 DEF WaitCycleDetected
<1>6. last \in Nat /\ \A j \in 0..last : j \in 0..m
  BY <1>2, <1>5
<1>7. ASSUME NEW j \in 0..last PROVE f[j] \in Threads
  <2> SUFFICES ASSUME f[j] = NoThread PROVE FALSE
    BY <1>4, <1>6
  <2> DEFINE T == {i \in j..last : f[i] # NoThread}
  <2>1. T \in SUBSET Nat /\ last \in T
    BY <1>5, <1>6, ConstantsOK
  <2>2. PICK l \in T : \A i \in T : l <= i
    BY <2>1, LeastElement
  <2>3. l \in j..last /\ f[l] # NoThread /\ l # j
    OBVIOUS
  <2>4. l - 1 \in j..last /\ l - 1 < l /\ l \in 0..m /\ l # 0
    BY <1>6, <2>3
  <2>5. f[l - 1] = NoThread
    BY <2>2, <2>3, <2>4
  <2>6. f[l] = Blocker(NoThread, Reg[k])
    BY <1>4, <2>4, <2>5
  <2> QED
    BY <2>3, <2>6 DEF Blocker
<1> DEFINE W == {f[j] : j \in 0..last}
<1>8. W \in SUBSET Threads /\ t \in W
  <2>1. last \in 0..last
    BY <1>6
  <2> QED
    BY <1>5, <1>7, <2>1
<1>9. ASSUME NEW u \in W
      PROVE  /\ frames[u] # <<>> /\ ~Holds(Top(u)) /\ Top(u).key \in Shared
             /\ owner[Top(u).key] \in W
  <2>1. CASE u = t
    <3>1. 0 \in 0..last
      BY <1>6
    <3>2. owner[k] \in W
      BY <1>4, <3>1
    <3> QED
      BY <1>1, <2>1, <3>2
  <2>2. CASE u # t
    <3>1. PICK j \in 0..last : u = f[j]
      OBVIOUS
    <3>2. j + 1 \in 0..last /\ j + 1 \in 0..m /\ j + 1 # 0 /\ (j + 1) - 1 = j
      BY <1>5, <1>6, <2>2, <3>1
    <3>3. f[j + 1] = Blocker(u, Reg[k]) /\ f[j + 1] \in W /\ f[j + 1] # NoThread
      BY <1>4, <1>7, <3>1, <3>2, ConstantsOK
    <3>4. waits[u] # NoKey /\ owner[waits[u]] \in W
      BY <3>3 DEF Blocker
    <3>5. /\ frames[u] # <<>> /\ Top(u).key = waits[u] /\ Top(u).at \in {"waiting", "woken"}
      BY <1>8, <3>4 DEF CallInv, WaitSlots, WaitAt
    <3>6. Top(u).key \in Shared
      BY <1>8, <3>5, TopCall DEF Points
    <3> QED
      BY <3>4, <3>5, <3>6 DEF Holds
  <2> QED
    BY <2>1, <2>2
<1> HIDE DEF W
<1>10. \A u \in W : Top(u).key \in Circular
  BY <1>8, <1>9, WaitRing DEF CallInv
<1> QED
  BY <1>8, <1>10

-----------------------------------------------------------------------------
(* Every exception has a cause that its call can reach.                    *)

Cause(e, k) == (e = "cycle" => k \in Circular) /\ (e = "user" => k \in Faulty)

CauseAt(t) ==
    /\ exc[t] # "none" => frames[t] # <<>> /\ Cause(exc[t], Top(t).key)
    /\ Cause(outcome[t].result, outcome[t].key)
CauseInv == \A t \in Threads : CauseAt(t)

\* What an exception means for a call, it means for the caller.
LEMMA CauseReached ==
    ASSUME NEW e, NEW k \in Keys, NEW q \in AllDeps(k), Cause(e, q)
    PROVE  Cause(e, k)
BY CircularReached, FaultyReached DEF Cause

\* The other threads' exceptions and answers stay as they are.
LEMMA CauseKept ==
    ASSUME TypeOK, TypeOK', CauseInv, NEW t \in Threads, Others(t),
           \A u \in Threads \ {t} : exc'[u] = exc[u] /\ outcome'[u] = outcome[u],
           CauseAt(t)'
    PROVE  CauseInv'
<1> SUFFICES ASSUME NEW u \in Threads \ {t} PROVE CauseAt(u)'
  BY DEF CauseInv
<1>1. PICK d \in Nat : d = Len(frames[u]) /\ Len(frames'[u]) = d
  BY OthersAlike DEF TypeOK
<1>2. /\ (frames[u] # <<>>) <=> (d # 0)
      /\ (frames'[u] # <<>>) <=> (d # 0)
      /\ Top(u) = frames[u][d] /\ Top(u)' = frames'[u][d]
  BY <1>1 DEF Top, Depth, TypeOK
<1>3. d # 0 => frames'[u][d].key = frames[u][d].key
  BY <1>1, OthersAlike
<1>4. CauseAt(u) /\ exc'[u] = exc[u] /\ outcome'[u] = outcome[u]
  BY DEF CauseInv
<1> QED
  BY <1>2, <1>3, <1>4 DEF CauseAt, Cause

\* An exception with a cause leaves the innermost call of t.
LEMMA CausePropagates ==
    ASSUME TypeOK, TypeOK', Shape, CallInv, CauseInv, NEW t \in Threads, frames[t] # <<>>,
           Ends(t), NEW e \in {"cycle", "user"}, Cause(e, Top(t).key), Propagate(t, e)
    PROVE  CauseInv'
<1>1. PICK d \in Nat \ {0} : d = Len(frames[t]) /\ Top(t) = frames[t][d] /\ Top(t).key \in Keys
  BY TopCall
<1>2. \A u \in Threads \ {t} : exc'[u] = exc[u] /\ outcome'[u] = outcome[u]
  BY DEF Propagate, TypeOK
<1>3. exc'[t] = IF d = 1 THEN "none" ELSE e
  BY <1>1 DEF Propagate, TypeOK, Depth
<1>4. outcome'[t] = IF d = 1 THEN [key |-> Top(t).key, result |-> e] ELSE outcome[t]
  BY <1>1 DEF Propagate, TypeOK, Depth
<1>5. CASE d = 1
  <2>1. exc'[t] = "none" /\ outcome'[t].key = Top(t).key /\ outcome'[t].result = e
    BY <1>3, <1>4, <1>5
  <2>2. CauseAt(t)'
    BY <2>1 DEF CauseAt, Cause
  <2> QED
    BY <1>2, <2>2, CauseKept DEF Ends
<1>6. CASE d # 1
  <2>1. PICK c \in Nat \ {0} : d = c + 1
    <3>1. d - 1 \in Nat \ {0} /\ d = (d - 1) + 1
      BY <1>1, <1>6
    <3> QED
      BY <3>1
  <2>2. Len(frames'[t]) = c /\ c \in 1..d - 1 /\ c \in 1..d /\ d \in 1..d
    BY <1>1, <2>1 DEF Ends
  <2>3. frames'[t][c].key = frames[t][c].key /\ frames[t][c].key \in Keys
    <3>1. frames'[t][c].key = frames[t][c].key
      BY <1>1, <2>2 DEF Ends, Alike
    <3>2. frames[t] \in Seq(Frame)
      BY DEF TypeOK
    <3>3. frames[t][c] \in Frame
      BY <1>1, <2>2, <3>2
    <3> QED
      BY <3>1, <3>3 DEF Frame
  <2>4. Top(t).key \in AllDeps(frames[t][c].key)
    BY <1>1, <2>1, <2>2 DEF CallInv, Chained
  <2>5. Cause(e, frames[t][c].key)
    BY <2>3, <2>4, CauseReached
  <2>6. frames'[t] # <<>> /\ Top(t)' = frames'[t][c]
    BY <2>2 DEF Top, Depth, TypeOK
  <2>7. exc'[t] = e /\ outcome'[t] = outcome[t]
    BY <1>3, <1>4, <1>6
  <2>8. CauseAt(t)
    BY DEF CauseInv
  <2>9. CauseAt(t)'
    BY <2>3, <2>5, <2>6, <2>7, <2>8 DEF CauseAt, Cause
  <2> QED
    BY <1>2, <2>9, CauseKept DEF Ends
<1> QED
  BY <1>5, <1>6

\* A thread without an exception goes on, and answers well if it answers.
LEMMA CauseQuiet ==
    ASSUME TypeOK, TypeOK', CauseInv, NEW t \in Threads, Others(t), exc[t] = "none", exc' = exc,
           \/ outcome' = outcome
           \/ \E k : outcome' = [outcome EXCEPT ![t] = [key |-> k, result |-> "ok"]]
    PROVE  CauseInv'
<1>1. exc'[t] = "none" /\ (outcome'[t] = outcome[t] \/ outcome'[t].result = "ok")
  BY DEF TypeOK
<1>2. \A u \in Threads \ {t} : outcome'[u] = outcome[u]
  BY DEF TypeOK
<1>3. CauseAt(t)
  BY DEF CauseInv
<1>4. CauseAt(t)'
  BY <1>1, <1>3 DEF CauseAt, Cause
<1> QED
  BY <1>2, <1>4, CauseKept

\* The steps of a thread without an exception that raise none.
LEMMA CauseCalm ==
    ASSUME TypeOK, TypeOK', Shape, CauseInv, NEW t \in Threads,
           \/ (\E k \in Keys : Resolve(t, k)) \/ ConstructDep(t) \/ HookDep(t)
           \/ FindHit(t) \/ ClaimFound(t) \/ HooksDone(t) \/ PrototypeDone(t)
           \/ FindMiss(t) \/ ClaimOwn(t) \/ ClaimWait(t) \/ SpuriousWakeup(t)
           \/ Constructed(t) \/ Store(t) \/ PrototypeGuard(t) \/ PrototypeConstructed(t)
           \/ Notify(t)
    PROVE  CauseInv'
<1>1. CASE (\E k \in Keys : Resolve(t, k)) \/ ConstructDep(t) \/ HookDep(t)
  <2>1. Others(t)
    <3>1. Pushes(t)
      BY <1>1, EnterPushes
    <3> QED
      BY <3>1, SameOthers DEF Pushes
  <2>2. exc' = exc /\ outcome' = outcome /\ (frames[t] = <<>> \/ exc[t] = "none")
    BY <1>1 DEF Resolve, ConstructDep, HookDep, Running
  <2>3. exc[t] = "none"
    BY <2>2 DEF CauseInv, CauseAt
  <2> QED
    BY <2>1, <2>2, <2>3, CauseQuiet
<1>2. CASE FindHit(t) \/ ClaimFound(t) \/ HooksDone(t) \/ PrototypeDone(t)
  <2>1. frames[t] # <<>> /\ Return(t) /\ exc[t] = "none"
    BY <1>2 DEF FindHit, ClaimFound, HooksDone, PrototypeDone, Claiming, Running
  <2>2. Others(t)
    BY <2>1, ReturnEnds DEF Ends
  <2>3. exc' = exc /\ (\/ outcome' = outcome
                       \/ \E k : outcome' = [outcome EXCEPT ![t] = [key |-> k, result |-> "ok"]])
    BY <2>1 DEF Return
  <2> QED
    BY <2>1, <2>2, <2>3, CauseQuiet
<1>3. CASE \/ FindMiss(t) \/ ClaimOwn(t) \/ ClaimWait(t) \/ SpuriousWakeup(t)
           \/ Constructed(t) \/ Store(t) \/ PrototypeGuard(t) \/ PrototypeConstructed(t)
  <2>1. /\ frames[t] # <<>> /\ exc[t] = "none" /\ exc' = exc /\ outcome' = outcome
        /\ \E point \in Points : GoTo(t, point)
    BY <1>3 DEF FindMiss, ClaimOwn, ClaimWait, SpuriousWakeup, Constructed, Store, PrototypeGuard,
                PrototypeConstructed, Claiming, Running, Points
  <2>2. Others(t)
    BY <2>1, GoToGoesOn DEF GoesOn
  <2> QED
    BY <2>1, <2>2, CauseQuiet
<1>4. CASE Notify(t)
  <2>1. exc[t] = "none" /\ exc' = exc /\ outcome' = outcome
    BY <1>4 DEF Notify, Running
  <2>2. Others(t)
    BY <1>4, NotifyGoesOn DEF GoesOn
  <2> QED
    BY <2>1, <2>2, CauseQuiet
<1> QED
  BY <1>1, <1>2, <1>3, <1>4

\* A constructor, a hook or a listener throws.
LEMMA CauseThrown ==
    ASSUME TypeOK, TypeOK', CauseInv, NEW t \in Threads, ConstructorThrows(t) \/ HooksThrow(t)
    PROVE  CauseInv'
<1>1. /\ frames[t] # <<>> /\ Top(t).key \in Throwing \union PostThrowing
      /\ exc' = [exc EXCEPT ![t] = "user"] /\ frames' = frames /\ outcome' = outcome
  BY DEF ConstructorThrows, HooksThrow, Running, Throw
<1>2. exc'[t] = "user" /\ \A u \in Threads \ {t} : exc'[u] = exc[u]
  BY <1>1 DEF TypeOK
<1>3. Others(t) /\ Top(t)' = Top(t)
  BY <1>1 DEF Others, Awakened, Top, Depth
<1>4. Cause("user", Top(t).key)
  BY <1>1, ThrowingIsFaulty DEF Cause
<1>5. CauseAt(t)'
  <2>1. CauseAt(t)
    BY DEF CauseInv
  <2> QED
    BY <1>1, <1>2, <1>3, <1>4, <2>1 DEF CauseAt, Cause
<1> QED
  BY <1>1, <1>2, <1>3, <1>5, CauseKept

\* An exception unwinds a call.
LEMMA CauseUnwinds ==
    ASSUME TypeOK, TypeOK', Shape, CallInv, CauseInv, NEW t \in Threads,
           Abandon(t) \/ NotifyAbandoned(t) \/ HooksLeft(t) \/ PrototypeLeft(t)
    PROVE  CauseInv'
<1>1. frames[t] # <<>> /\ exc[t] # "none"
  BY DEF Abandon, NotifyAbandoned, HooksLeft, PrototypeLeft, Unwinding
<1>2. exc[t] \in {"cycle", "user"} /\ Cause(exc[t], Top(t).key)
  BY <1>1 DEF TypeOK, CauseInv, CauseAt
<1>3. CASE Abandon(t)
  <2>1. GoTo(t, "abandoned") /\ "abandoned" \in Points /\ exc' = exc /\ outcome' = outcome
    BY <1>3 DEF Abandon, Points
  <2>2. GoesOn(t, "abandoned")
    BY <1>1, <2>1, GoToGoesOn
  <2>3. frames'[t] # <<>> /\ Top(t)'.key = Top(t).key
    BY <2>2, TopAfter
  <2>4. CauseAt(t)
    BY DEF CauseInv
  <2>5. CauseAt(t)'
    BY <2>1, <2>3, <2>4 DEF CauseAt, Cause
  <2> QED
    BY <2>1, <2>2, <2>5, CauseKept DEF GoesOn
<1>4. CASE NotifyAbandoned(t) \/ HooksLeft(t) \/ PrototypeLeft(t)
  <2>1. Ends(t)
    <3>1. CASE NotifyAbandoned(t)
      BY <3>1, NotifyGoesOn
    <3>2. CASE HooksLeft(t) \/ PrototypeLeft(t)
      BY <1>1, <3>2, LeaveEnds DEF HooksLeft, PrototypeLeft, Leave
    <3> QED
      BY <1>4, <3>1, <3>2
  <2>2. PICK e : e = exc[t]
    OBVIOUS
  <2>3. Propagate(t, e)
    BY <1>4, <2>2 DEF NotifyAbandoned, HooksLeft, PrototypeLeft, Leave
  <2> QED
    BY <1>1, <1>2, <2>1, <2>2, <2>3, CausePropagates
<1> QED
  BY <1>3, <1>4

\* A cycle is reported: of the calls of this thread, or of the threads that
\* would wait for one another.
LEMMA CycleFound ==
    ASSUME TypeOK, Shape, Claims, CallInv, DescsDiffer, NEW t \in Threads,
           ClaimCycle(t) \/ PrototypeCycle(t)
    PROVE  /\ Top(t).key \in Circular
           /\ frames[t] # <<>> /\ Leave(t, "cycle")
<1>1. /\ frames[t] # <<>> /\ Leave(t, "cycle")
      /\ Top(t).at \in {"find", "claim", "woken"}
      /\ Top(t).at = "find" => Top(t).key \in Prototypes
      /\ \/ OnStack(t, Top(t).key) \/ owner[Top(t).key] = t
         \/ WaitCycleDetected(t, Top(t).key)
      /\ ~OnStack(t, Top(t).key) => Top(t).at # "find"
  <2>1. CASE ClaimCycle(t)
    BY <2>1 DEF ClaimCycle, Claiming, Running
  <2>2. CASE PrototypeCycle(t)
    BY <2>2 DEF PrototypeCycle, Running
  <2> QED
    BY <2>1, <2>2
<1>2. ~Holds(Top(t)) /\ ~OnStackFrame(Top(t))
  BY <1>1 DEF Holds, OnStackFrame
<1>3. Top(t).key \in Circular
  <2>1. CASE OnStack(t, Top(t).key)
    BY <1>1, <1>2, <2>1, OnStackIsCircular
  <2>2. CASE ~OnStack(t, Top(t).key)
    <3>1. Top(t).key \in Shared
      BY <1>1, <2>2, TopCall DEF Points
    <3>2. CASE owner[Top(t).key] = t
      <4>1. PICK W : W = {t}
        OBVIOUS
      <4>2. \A u \in W : Top(u).key \in Circular
        BY <1>1, <1>2, <3>1, <3>2, <4>1, WaitRing DEF CallInv
      <4> QED
        BY <4>1, <4>2
    <3>3. CASE WaitCycleDetected(t, Top(t).key)
      BY <1>1, <1>2, <3>1, <3>3, WaitCycleIsCircular
    <3> QED
      BY <1>1, <2>2, <3>2, <3>3
  <2> QED
    BY <2>1, <2>2
<1> QED
  BY <1>1, <1>3

\* The report has a cause.
LEMMA CauseCycle ==
    ASSUME TypeOK, TypeOK', Shape, Claims, CallInv, CauseInv, DescsDiffer, NEW t \in Threads,
           ClaimCycle(t) \/ PrototypeCycle(t)
    PROVE  CauseInv'
<1>1. Top(t).key \in Circular /\ frames[t] # <<>> /\ Leave(t, "cycle")
  BY CycleFound
<1>2. Ends(t) /\ Propagate(t, "cycle") /\ Cause("cycle", Top(t).key)
  BY <1>1, LeaveEnds DEF Leave, Cause
<1> QED
  BY <1>1, <1>2, CausePropagates

\* The cause invariant is inductive, given the others.
LEMMA CausePreserved ==
    ASSUME DescsDiffer
    PROVE  IInv /\ IInv' /\ CallInv /\ CauseInv /\ [Next]_vars => CauseInv'
<1> SUFFICES ASSUME IInv, IInv', CallInv, CauseInv, [Next]_vars PROVE CauseInv'
  OBVIOUS
<1>0. TypeOK /\ TypeOK' /\ Shape /\ Claims
  BY DEF IInv
<1>1. CASE AllDone \/ UNCHANGED vars
  <2>1. UNCHANGED <<frames, exc, outcome>>
    BY <1>1 DEF AllDone, vars
  <2> QED
    BY <2>1 DEF CauseInv, CauseAt, Cause, Top, Depth
<1> QED
  BY <1>0, <1>1, CauseCalm, CauseThrown, CauseUnwinds, CauseCycle DEF Next, Step

\* Nothing was thrown before the first resolve().
LEMMA InitCause == Init => CauseInv
BY DEF Init, CauseInv, CauseAt, Cause

\* Whatever the threads, the beans and the failures, as long as no two beans
\* share a descriptor: a dependency-cycle ResolutionError is reported only to a
\* call whose beans really reach a cycle.  A wait for another thread, a stale
\* wait slot or a wakeup is never mistaken for one.
THEOREM CyclesAreReal ==
    ASSUME DescsDiffer
    PROVE  Spec => []CycleErrorsAreReal
<1>1. CauseInv => CycleErrorsAreReal
  BY DEF CauseInv, CauseAt, Cause, CycleErrorsAreReal, Circular
<1>2. IInv /\ IInv' /\ CallInv /\ CauseInv /\ [Next]_vars => CauseInv'
  BY CausePreserved
<1> QED
  BY Inductive, InitCall, CallPreserved, InitCause, <1>1, <1>2, PTL DEF Spec

-----------------------------------------------------------------------------
(* Materialization implements SharedBeans.                                 *)

\* The refinement mapping, one thread at a time.
CallOf(t) == IF frames[t] = <<>> THEN NoKey ELSE frames[t][1].key
AnswerOf(t) == CASE outcome[t].result = "none" -> "none"
                 [] outcome[t].result = "ok" -> "bean"
                 [] OTHER -> "error"
Calls == [t \in Threads |-> CallOf(t)]
Answers == [t \in Threads |-> AnswerOf(t)]

\* The calls of the callers of resolve(), step by step.
LEMMA CallsAfter ==
    ASSUME TypeOK, TypeOK', NEW t \in Threads
    PROVE  /\ Others(t) => \A u \in Threads \ {t} : CallOf(u)' = CallOf(u)
           /\ \A k : Begins(t, k) => CallOf(t)' = IF frames[t] = <<>> THEN k ELSE CallOf(t)
           /\ \A point : GoesOn(t, point) => CallOf(t)' = CallOf(t)
           /\ Ends(t) => CallOf(t)' = IF Len(frames[t]) = 1 THEN NoKey ELSE CallOf(t)
<1>0. \A u \in Threads : /\ Len(frames[u]) \in Nat /\ Len(frames'[u]) \in Nat
                         /\ (frames[u] = <<>>) <=> (Len(frames[u]) = 0)
                         /\ (frames'[u] = <<>>) <=> (Len(frames'[u]) = 0)
  BY DEF TypeOK
<1>1. ASSUME Others(t), NEW u \in Threads \ {t} PROVE CallOf(u)' = CallOf(u)
  <2>1. /\ Len(frames'[u]) = Len(frames[u])
        /\ \A i \in 1..Len(frames[u]) : frames'[u][i].key = frames[u][i].key
    BY <1>1, OthersAlike
  <2>2. Len(frames[u]) # 0 => 1 \in 1..Len(frames[u])
    BY <1>0
  <2> QED
    BY <1>0, <2>1, <2>2 DEF CallOf
<1>2. PICK d \in Nat : d = Len(frames[t])
  BY <1>0
<1>6. d # 0 => d = 1 \/ (d - 1 # 0 /\ 1 \in 1..d - 1)
  OBVIOUS
<1>3. ASSUME NEW k, Begins(t, k)
      PROVE  CallOf(t)' = IF frames[t] = <<>> THEN k ELSE CallOf(t)
  <2>1. /\ Len(frames'[t]) = d + 1 /\ frames'[t][d + 1].key = k
        /\ \A i \in 1..d : frames'[t][i].key = frames[t][i].key
    BY <1>2, <1>3 DEF Begins, Alike
  <2>2. CASE d = 0
    <3>1. Len(frames'[t]) = 1 /\ frames'[t][1].key = k
      BY <2>1, <2>2
    <3>2. frames[t] = <<>>
      BY <1>0, <1>2, <2>2
    <3>3. frames'[t] # <<>>
      BY <3>1
    <3> QED
      BY <3>1, <3>2, <3>3 DEF CallOf
  <2>3. CASE d # 0
    <3>1. 1 \in 1..d /\ d + 1 # 0
      BY <1>2, <2>3
    <3> QED
      BY <1>0, <1>2, <2>1, <2>3, <3>1 DEF CallOf
  <2> QED
    BY <2>2, <2>3
<1>4. ASSUME NEW point, GoesOn(t, point) PROVE CallOf(t)' = CallOf(t)
  <2>1. /\ Len(frames'[t]) = d /\ d # 0 /\ frames'[t][d].key = frames[t][d].key
        /\ \A i \in 1..d - 1 : frames'[t][i].key = frames[t][i].key
    BY <1>2, <1>4 DEF GoesOn, Alike, Top, Depth
  <2>2. 1 \in 1..d - 1 \/ d = 1
    BY <1>6, <2>1
  <2>3. frames'[t][1].key = frames[t][1].key
    BY <2>1, <2>2
  <2> QED
    BY <1>0, <1>2, <2>1, <2>3 DEF CallOf
<1>5. ASSUME Ends(t) PROVE CallOf(t)' = IF Len(frames[t]) = 1 THEN NoKey ELSE CallOf(t)
  <2>1. /\ Len(frames'[t]) = d - 1 /\ d # 0
        /\ \A i \in 1..d - 1 : frames'[t][i].key = frames[t][i].key
    BY <1>2, <1>5 DEF Ends, Alike
  <2>2. CASE d = 1
    BY <1>0, <1>2, <2>1, <2>2 DEF CallOf
  <2>3. CASE d # 1
    <3>1. 1 \in 1..d - 1 /\ d - 1 # 0
      BY <1>6, <2>1, <2>3
    <3> QED
      BY <1>0, <1>2, <2>1, <2>3, <3>1 DEF CallOf
  <2> QED
    BY <2>2, <2>3
<1> QED
  BY <1>1, <1>3, <1>4, <1>5

\* The callers see nothing of a step inside a call.
LEMMA InnerStep ==
    ASSUME TypeOK, TypeOK', NEW t \in Threads,
           \/ \E k : Begins(t, k) /\ frames[t] # <<>>
           \/ \E point : GoesOn(t, point)
           \/ Ends(t) /\ Len(frames[t]) # 1
    PROVE  Calls' = Calls
<1>1. Others(t)
  BY DEF Begins, GoesOn, Ends
<1>2. CallOf(t)' = CallOf(t)
  BY CallsAfter
<1>3. \A u \in Threads \ {t} : CallOf(u)' = CallOf(u)
  BY <1>1, CallsAfter
<1>4. \A u \in Threads : CallOf(u)' = CallOf(u)
  BY <1>2, <1>3
<1> QED
  BY <1>4 DEF Calls

\* Answers depend on the outcomes only.
LEMMA AnswersSame == ASSUME outcome' = outcome PROVE Answers' = Answers
BY DEF Answers, AnswerOf

\* A call that returns or throws at the top: it is over and has its answer.
LEMMA Answered ==
    ASSUME TypeOK, TypeOK', NEW t \in Threads, Ends(t), Len(frames[t]) = 1,
           NEW r, outcome' = [outcome EXCEPT ![t] = [key |-> Top(t).key, result |-> r]]
    PROVE  /\ Calls' = [Calls EXCEPT ![t] = NoKey]
           /\ r = "ok" => Answers' = [Answers EXCEPT ![t] = "bean"]
           /\ r \in {"cycle", "user"} => Answers' = [Answers EXCEPT ![t] = "error"]
<1>1. CallOf(t)' = NoKey /\ \A u \in Threads \ {t} : CallOf(u)' = CallOf(u)
  BY CallsAfter DEF Ends
<1>2. Calls' = [Calls EXCEPT ![t] = NoKey]
  BY <1>1 DEF Calls
<1>3. outcome'[t].result = r /\ \A u \in Threads \ {t} : outcome'[u] = outcome[u]
  BY DEF TypeOK
<1>4. /\ r = "ok" => AnswerOf(t)' = "bean"
      /\ r \in {"cycle", "user"} => AnswerOf(t)' = "error"
      /\ \A u \in Threads \ {t} : AnswerOf(u)' = AnswerOf(u)
  BY <1>3 DEF AnswerOf
<1>5. /\ r = "ok" => Answers' = [Answers EXCEPT ![t] = "bean"]
      /\ r \in {"cycle", "user"} => Answers' = [Answers EXCEPT ![t] = "error"]
  BY <1>4 DEF Answers
<1> QED
  BY <1>2, <1>5

\* The abstract actions in terms of the mapping: a call starts,
LEMMA MappedRequest ==
    ASSUME NEW t \in Threads, NEW k \in Keys, Calls[t] = NoKey, Calls' = [Calls EXCEPT ![t] = k],
           stored' = stored, Answers' = Answers
    PROVE  Beans!Request(t, k)
BY DEF Beans!Request, Calls, CallOf, Answers, AnswerOf

\* a bean comes into being,
LEMMA MappedCreate ==
    ASSUME NEW k \in Keys, k \in Shared \ stored, CtorDeps(k) \cap Shared \subseteq stored,
           \E t \in Threads : Calls[t] # NoKey,
           stored' = stored \union {k}, Calls' = Calls, Answers' = Answers
    PROVE  Beans!Create(k)
BY DEF Beans!Create, Calls, CallOf, Answers, AnswerOf

\* a call is answered,
LEMMA MappedAnswer ==
    ASSUME NEW t \in Threads, Calls[t] # NoKey, Calls[t] \in Shared => Calls[t] \in stored,
           Calls' = [Calls EXCEPT ![t] = NoKey], Answers' = [Answers EXCEPT ![t] = "bean"],
           stored' = stored
    PROVE  Beans!Answer(t)
BY DEF Beans!Answer, Calls, CallOf, Answers, AnswerOf

\* a call is refused,
LEMMA MappedRefuse ==
    ASSUME NEW t \in Threads, Calls[t] \in Circular \union Faulty,
           Calls' = [Calls EXCEPT ![t] = NoKey], Answers' = [Answers EXCEPT ![t] = "error"],
           stored' = stored
    PROVE  Beans!Refuse(t)
BY DEF Beans!Refuse, Calls, CallOf, Answers, AnswerOf, Circular, Faulty

\* or nothing happens.
LEMMA MappedStutter ==
    ASSUME stored' = stored, Calls' = Calls, Answers' = Answers
    PROVE  UNCHANGED Beans!vars
BY DEF Beans!vars, Calls, CallOf, Answers, AnswerOf

\* A resolve returns: unseen, or the answer of a call whose bean is there.
LEMMA RefineReturn ==
    ASSUME IInv, IInv', OrderInv, NEW t \in Threads,
           FindHit(t) \/ ClaimFound(t) \/ HooksDone(t) \/ PrototypeDone(t)
    PROVE  [Beans!Next]_(Beans!vars)
<1>0. TypeOK /\ TypeOK' /\ Shape
  BY DEF IInv
<1>1. frames[t] # <<>> /\ Return(t) /\ Finishing(t) /\ stored' = stored
  BY DEF FindHit, ClaimFound, HooksDone, PrototypeDone, Claiming, Running, Finishing
<1>2. Ends(t)
  BY <1>0, <1>1, ReturnEnds
<1>3. PICK d \in Nat \ {0} : /\ d = Len(frames[t]) /\ Top(t) = frames[t][d] /\ Top(t).key \in Keys
                             /\ d \in 1..Len(frames[t])
  BY <1>0, <1>1, TopCall
<1>4. CASE d # 1
  <2>1. outcome' = outcome /\ Calls' = Calls
    BY <1>0, <1>1, <1>2, <1>3, <1>4, InnerStep DEF Return, Depth
  <2> QED
    BY <1>1, <2>1, AnswersSame, MappedStutter
<1>5. CASE d = 1
  <2>1. outcome' = [outcome EXCEPT ![t] = [key |-> Top(t).key, result |-> "ok"]]
    BY <1>1, <1>3, <1>5 DEF Return, Depth
  <2>2. Calls' = [Calls EXCEPT ![t] = NoKey] /\ Answers' = [Answers EXCEPT ![t] = "bean"]
    BY <1>0, <1>2, <1>3, <1>5, <2>1, Answered
  <2>3. Calls[t] = Top(t).key /\ Calls[t] # NoKey
    BY <1>1, <1>3, <1>5, ConstantsOK DEF Calls, CallOf
  <2>4. Top(t).key \in Available
    BY <1>1, <1>3 DEF Finishing, OrderInv, Available
  <2>5. Calls[t] \in Shared => Calls[t] \in stored
    BY <2>3, <2>4 DEF Available, Shared
  <2>6. Beans!Answer(t)
    BY <1>1, <2>2, <2>3, <2>5, MappedAnswer
  <2> QED
    BY <2>6 DEF Beans!Next
<1> QED
  BY <1>4, <1>5

\* An exception leaves a call: unseen, or the refusal of a call with a cause.
LEMMA RefinePropagate ==
    ASSUME TypeOK, TypeOK', Shape, NEW t \in Threads, frames[t] # <<>>, Ends(t),
           NEW e \in {"cycle", "user"}, Cause(e, Top(t).key), Propagate(t, e), stored' = stored
    PROVE  [Beans!Next]_(Beans!vars)
<1>1. PICK d \in Nat \ {0} : d = Len(frames[t]) /\ Top(t) = frames[t][d]
  BY TopCall
<1>2. CASE d # 1
  <2>1. outcome' = outcome /\ Calls' = Calls
    BY <1>1, <1>2, InnerStep DEF Propagate, Depth
  <2> QED
    BY <2>1, AnswersSame, MappedStutter
<1>3. CASE d = 1
  <2>1. outcome' = [outcome EXCEPT ![t] = [key |-> Top(t).key, result |-> e]]
    BY <1>1, <1>3 DEF Propagate, Depth
  <2>2. Calls' = [Calls EXCEPT ![t] = NoKey] /\ Answers' = [Answers EXCEPT ![t] = "error"]
    BY <1>1, <1>3, <2>1, Answered
  <2>3. Calls[t] = Top(t).key
    BY <1>1, <1>3 DEF Calls, CallOf
  <2>4. Calls[t] \in Circular \union Faulty
    BY <2>3 DEF Cause
  <2>5. Beans!Refuse(t)
    BY <2>2, <2>4, MappedRefuse
  <2> QED
    BY <2>5 DEF Beans!Next
<1> QED
  BY <1>2, <1>3

\* The steps that an exception takes.
LEMMA RefineLeave ==
    ASSUME IInv, IInv', CallInv, CauseInv, DescsDiffer, NEW t \in Threads,
           \/ NotifyAbandoned(t) \/ HooksLeft(t) \/ PrototypeLeft(t)
           \/ ClaimCycle(t) \/ PrototypeCycle(t)
    PROVE  [Beans!Next]_(Beans!vars)
<1>0. TypeOK /\ TypeOK' /\ Shape /\ Claims
  BY DEF IInv
<1>1. frames[t] # <<>> /\ stored' = stored
  BY DEF NotifyAbandoned, HooksLeft, PrototypeLeft, ClaimCycle, PrototypeCycle, Claiming, Running,
         Unwinding
<1>2. Ends(t)
  <2>1. CASE NotifyAbandoned(t)
    BY <1>0, <2>1, NotifyGoesOn
  <2>2. CASE HooksLeft(t) \/ PrototypeLeft(t) \/ ClaimCycle(t) \/ PrototypeCycle(t)
    BY <1>0, <1>1, <2>2, LeaveEnds DEF HooksLeft, PrototypeLeft, ClaimCycle, PrototypeCycle, Leave
  <2> QED
    BY <2>1, <2>2
<1>3. PICK e \in {"cycle", "user"} : Propagate(t, e) /\ Cause(e, Top(t).key)
  <2>1. CASE NotifyAbandoned(t) \/ HooksLeft(t) \/ PrototypeLeft(t)
    <3>1. exc[t] # "none" /\ Propagate(t, exc[t])
      BY <2>1 DEF NotifyAbandoned, HooksLeft, PrototypeLeft, Unwinding, Leave
    <3>2. exc[t] \in {"cycle", "user"} /\ Cause(exc[t], Top(t).key)
      BY <1>0, <3>1 DEF TypeOK, CauseInv, CauseAt
    <3> QED
      BY <3>1, <3>2
  <2>2. CASE ClaimCycle(t) \/ PrototypeCycle(t)
    <3>1. Propagate(t, "cycle")
      BY <2>2 DEF ClaimCycle, PrototypeCycle, Leave
    <3>2. Top(t).key \in Circular
      BY <1>0, <2>2, CycleFound
    <3> QED
      BY <3>1, <3>2 DEF Cause
  <2> QED
    BY <2>1, <2>2
<1> QED
  BY <1>0, <1>1, <1>2, <1>3, RefinePropagate

\* The claimed bean is stored: it comes into being, after all it needs.
LEMMA RefineStore ==
    ASSUME IInv, IInv', OrderInv, NEW t \in Threads, Store(t)
    PROVE  Beans!Next
<1>0. TypeOK /\ TypeOK' /\ Shape /\ Claims
  BY DEF IInv
<1>1. /\ frames[t] # <<>> /\ Top(t).at = "store" /\ stored' = stored \union {Top(t).key}
      /\ GoTo(t, "notify") /\ "notify" \in Points /\ outcome' = outcome
  BY DEF Store, Running, Points
<1>2. PICK d \in Nat \ {0} : /\ d = Len(frames[t]) /\ Top(t) = frames[t][d] /\ Top(t).key \in Keys
                             /\ d \in 1..Len(frames[t]) /\ Top(t).key \in Shared
  BY <1>0, <1>1, TopCall DEF Points
<1>3. Top(t).key \notin stored
  BY <1>1, <1>2, <1>0 DEF Claims, HeldIsOwned, Holds
<1>4. CtorDeps(Top(t).key) \cap Shared \subseteq stored
  BY <1>1, <1>2 DEF OrderInv, Available, Shared
<1>5. Calls' = Calls /\ Answers' = Answers
  <2>1. GoesOn(t, "notify")
    BY <1>0, <1>1, GoToGoesOn
  <2> QED
    BY <1>0, <1>1, <2>1, InnerStep, AnswersSame
<1>6. Calls[t] # NoKey
  <2>1. frames[t] \in Seq(Frame) /\ 1 \in 1..Len(frames[t])
    BY <1>0, <1>2 DEF TypeOK
  <2>2. frames[t][1] \in Frame
    BY <2>1
  <2> QED
    BY <1>1, <2>2, ConstantsOK DEF Calls, CallOf, Frame
<1>7. Beans!Create(Top(t).key)
  BY <1>1, <1>2, <1>3, <1>4, <1>5, <1>6, MappedCreate
<1> QED
  BY <1>2, <1>7 DEF Beans!Next

\* A call starts, outermost or nested.
LEMMA RefineEnter ==
    ASSUME IInv, IInv', NEW t \in Threads,
           (\E k \in Keys : Resolve(t, k)) \/ ConstructDep(t) \/ HookDep(t)
    PROVE  [Beans!Next]_(Beans!vars)
<1>0. TypeOK /\ TypeOK' /\ Shape
  BY DEF IInv
<1>1. stored' = stored /\ outcome' = outcome
  BY DEF Resolve, ConstructDep, HookDep
<1>2. CASE \E k \in Keys : Resolve(t, k)
  <2>1. PICK k \in Keys : Resolve(t, k)
    BY <1>2
  <2>2. frames[t] = <<>> /\ Begins(t, k)
    BY <1>0, <2>1, EnterBegins DEF Resolve
  <2>3. CallOf(t)' = k /\ \A u \in Threads \ {t} : CallOf(u)' = CallOf(u)
    BY <1>0, <2>2, CallsAfter DEF Begins
  <2>4. Calls' = [Calls EXCEPT ![t] = k] /\ Calls[t] = NoKey
    BY <2>2, <2>3 DEF Calls, CallOf
  <2>5. Beans!Request(t, k)
    BY <1>1, <2>4, AnswersSame, MappedRequest
  <2> QED
    BY <2>5 DEF Beans!Next
<1>3. CASE ConstructDep(t) \/ HookDep(t)
  <2>1. PICK k \in Keys : Enter(t, k) /\ frames[t] # <<>>
    BY <1>0, <1>3, DepIsKey DEF ConstructDep, HookDep, Running
  <2>2. Calls' = Calls
    BY <1>0, <2>1, EnterBegins, InnerStep
  <2> QED
    BY <1>1, <2>2, AnswersSame, MappedStutter
<1> QED
  BY <1>2, <1>3

\* Every other step is inside a call.
LEMMA RefineInner ==
    ASSUME IInv, IInv', NEW t \in Threads,
           \/ FindMiss(t) \/ ClaimOwn(t) \/ ClaimWait(t) \/ SpuriousWakeup(t)
           \/ Constructed(t) \/ ConstructorThrows(t) \/ HooksThrow(t) \/ Abandon(t)
           \/ PrototypeGuard(t) \/ PrototypeConstructed(t) \/ Notify(t)
    PROVE  UNCHANGED Beans!vars
<1>0. TypeOK /\ TypeOK' /\ Shape
  BY DEF IInv
<1>1. stored' = stored /\ outcome' = outcome
  BY DEF FindMiss, ClaimOwn, ClaimWait, SpuriousWakeup, Constructed, ConstructorThrows, HooksThrow,
         Throw, Abandon, PrototypeGuard, PrototypeConstructed, Notify
<1>2. Calls' = Calls
  <2>1. CASE ConstructorThrows(t) \/ HooksThrow(t)
    BY <2>1 DEF ConstructorThrows, HooksThrow, Throw, Calls, CallOf
  <2>2. CASE Notify(t)
    BY <1>0, <2>2, NotifyGoesOn, InnerStep
  <2>3. CASE \/ FindMiss(t) \/ ClaimOwn(t) \/ ClaimWait(t) \/ SpuriousWakeup(t)
             \/ Constructed(t) \/ Abandon(t) \/ PrototypeGuard(t) \/ PrototypeConstructed(t)
    <3>1. frames[t] # <<>> /\ \E point \in Points : GoTo(t, point)
      BY <2>3 DEF FindMiss, ClaimOwn, ClaimWait, SpuriousWakeup, Constructed, Abandon,
                  PrototypeGuard, PrototypeConstructed, Claiming, Running, Unwinding, Points
    <3> QED
      BY <1>0, <3>1, GoToGoesOn, InnerStep
  <2> QED
    BY <2>1, <2>2, <2>3
<1> QED
  BY <1>1, <1>2, AnswersSame, MappedStutter

\* Every step is one of SharedBeans, or none.
LEMMA RefineStep ==
    ASSUME DescsDiffer
    PROVE  IInv /\ IInv' /\ OrderInv /\ CallInv /\ CauseInv /\ [Next]_vars
               => [Beans!Next]_(Beans!vars)
<1> SUFFICES ASSUME IInv, IInv', OrderInv, CallInv, CauseInv, [Next]_vars
             PROVE  [Beans!Next]_(Beans!vars)
  OBVIOUS
<1>1. CASE AllDone \/ UNCHANGED vars
  <2>1. stored' = stored /\ frames' = frames /\ outcome' = outcome
    BY <1>1 DEF AllDone, vars
  <2>2. Calls' = Calls
    BY <2>1 DEF Calls, CallOf
  <2> QED
    BY <2>1, <2>2, AnswersSame, MappedStutter
<1> QED
  BY <1>1, RefineReturn, RefineLeave, RefineStore, RefineEnter, RefineInner DEF Next, Step

\* Nothing is asked for, made or answered before the first resolve().
LEMMA RefineInit == Init => Beans!Init
BY DEF Init, Beans!Init

\* The claim protocol keeps the promise of resolve(), for any number of threads
\* and any graph of beans in which no two share a descriptor: shared beans come
\* into being once each and after the beans injected in them, a call is answered
\* with a bean that exists, and refused only for a cause that it can reach.
THEOREM SharedBeansImplemented ==
    ASSUME DescsDiffer
    PROVE  Spec => ImplementsSharedBeans
<1>1. IInv /\ IInv' /\ CallInv /\ CauseInv /\ [Next]_vars => CauseInv'
  BY CausePreserved
<1>2. IInv /\ IInv' /\ OrderInv /\ CallInv /\ CauseInv /\ [Next]_vars
          => [Beans!Next]_(Beans!vars)
  BY RefineStep
<1> QED
  BY Inductive, InitCall, CallPreserved, InitCause, InitOrder, OrderPreserved, RefineInit,
     <1>1, <1>2, PTL DEF Spec, ImplementsSharedBeans, Beans!Spec

-----------------------------------------------------------------------------
(* No threads wait for one another for ever.                               *)

\* All beans are those of one registry.
SingleRegistry == \A k, q \in Keys : Reg[k] = Reg[q]

\* u waits for a bean that another thread of S constructs.
WaitsIn(u, S) ==
    frames[u] # <<>> /\ Top(u).at = "waiting" /\ owner[Top(u).key] \in S \ {u}

\* A set of threads that wait for one another.
Blocked(S) == S \in SUBSET Threads /\ S # {} /\ \A u \in S : WaitsIn(u, S)

\* There is none.
LEMMA NoneBlocked == NoWaitCycle <=> \A S : ~Blocked(S)
<1>1. NoWaitCycle <=> \A S \in (SUBSET Threads) \ {{}} : \E u \in S : ~WaitsIn(u, S)
  BY DEF NoWaitCycle, WaitsIn
<1>2. ASSUME NEW S
      PROVE  Blocked(S) <=> S \in (SUBSET Threads) \ {{}} /\ \A u \in S : WaitsIn(u, S)
  BY DEF Blocked
<1> QED
  BY <1>1, <1>2, Zenon

\* What a waiting thread waits for.
LEMMA WaiterIs ==
    ASSUME TypeOK, Shape, CallInv, NEW u \in Threads, frames[u] # <<>>, Top(u).at = "waiting"
    PROVE  /\ waits[u] = Top(u).key /\ Top(u).key \in Shared /\ Top(u).key \in Keys
           /\ waits[u] # NoKey
           /\ SingleRegistry => \A k \in Keys : Blocker(u, Reg[k]) = owner[Top(u).key]
<1>1. waits[u] = Top(u).key
  BY DEF CallInv, WaitSlots, WaitAt
<1>2. Top(u).key \in Shared /\ Top(u).key \in Keys
  BY TopCall DEF Points
<1> QED
  BY <1>1, <1>2, ConstantsOK DEF Blocker, SingleRegistry

\* A thread with nothing on its stack constructs nothing.
LEMMA EmptyOwnsNothing ==
    ASSUME Claims, CallInv, NEW t \in Threads, stack[t] = <<>>, NEW k \in Shared
    PROVE  owner[k] # t
<1> SUFFICES ASSUME owner[k] = t PROVE FALSE
  OBVIOUS
<1>1. PICK i \in 1..Len(frames[t]) : frames[t][i].key = k /\ Holds(frames[t][i])
  BY DEF Claims, OwnedIsHeld
<1>2. OnStackFrame(frames[t][i])
  BY <1>1 DEF OnStackFrame, Shared
<1>3. MirrorAt(t)
  BY DEF CallInv, StackMirrorsFrames, MirrorAt
<1>4. \E n \in 1..Len(stack[t]) : TRUE
  BY <1>2, <1>3 DEF MirrorAt
<1> QED
  BY <1>4

\* t is about to wait for k, whose owner is in S, and would close a ring of
\* waiting threads.
Closing(t, k, S) ==
    /\ t \in S /\ S \in SUBSET Threads /\ k \in Keys /\ owner[k] \in S \ {t}
    /\ \A u \in S \ {t} : WaitsIn(u, S)

\* Without an entry on its stack t cannot be waited for.
LEMMA ClosingEmpty ==
    ASSUME IInv, CallInv, NoWaitCycle, NEW t \in Threads, NEW k, NEW S, Closing(t, k, S),
           stack[t] = <<>>
    PROVE  FALSE
<1>1. PICK R : R = S \ {t}
  OBVIOUS
<1>2. ASSUME NEW u \in R PROVE WaitsIn(u, R)
  <2>1. WaitsIn(u, S) /\ u \in Threads
    BY <1>1, <1>2 DEF Closing
  <2>2. Top(u).key \in Shared
    BY <2>1, WaiterIs DEF IInv, WaitsIn
  <2>3. owner[Top(u).key] # t
    BY <2>2, EmptyOwnsNothing DEF IInv
  <2> QED
    BY <1>1, <2>1, <2>3 DEF WaitsIn
<1>3. Blocked(R)
  BY <1>1, <1>2 DEF Closing, Blocked
<1> QED
  BY <1>3, NoneBlocked

\* A walk that does not meet t stays among the threads that wait,
LEMMA ClosingWalk ==
    ASSUME IInv, CallInv, SingleRegistry, NEW t \in Threads, NEW k, NEW S, Closing(t, k, S),
           ~WaitCycleDetected(t, k),
           NEW m \in Nat, m = Cardinality(Materializing(Reg[k])), NEW f, f = Walk(k)
    PROVE  /\ f[0] = owner[k] /\ \A j \in 0..m : f[j] \in S
           /\ \A j \in 0..m : j # m =>
                /\ f[j] \in S \ {t} /\ WaitsIn(f[j], S)
                /\ f[j + 1] = owner[Top(f[j]).key]
<1>0. TypeOK /\ Shape /\ k \in Keys
  BY DEF IInv, Closing
<1>1. /\ f[0] = owner[k] /\ \A j \in 0..m : j # 0 => f[j] = Blocker(f[j - 1], Reg[k])
  BY <1>0, WalkSteps
<1>2. \A j \in 0..m : j # m => f[j] # t
  <2>1. \A j \in 0..(m - 1) : f[j] # t
    BY DEF WaitCycleDetected
  <2> QED
    BY <2>1
<1>3. ASSUME NEW j \in 0..m, j # m, f[j] \in S
      PROVE  /\ f[j] \in S \ {t} /\ WaitsIn(f[j], S)
             /\ f[j + 1] = owner[Top(f[j]).key] /\ f[j + 1] \in S
  <2>1. PICK u : u = f[j]
    OBVIOUS
  <2>2. u \in S \ {t} /\ u \in Threads /\ WaitsIn(u, S)
    BY <1>2, <1>3, <2>1 DEF Closing
  <2>3. Blocker(u, Reg[k]) = owner[Top(u).key]
    BY <1>0, <2>2, WaiterIs DEF WaitsIn
  <2>4. j + 1 \in 0..m /\ j + 1 # 0 /\ (j + 1) - 1 = j
    BY <1>3
  <2>5. f[j + 1] = Blocker(u, Reg[k])
    BY <1>1, <2>1, <2>4
  <2> QED
    BY <2>1, <2>2, <2>3, <2>5 DEF WaitsIn
<1>4. \A j \in 0..m : f[j] \in S
  <2> DEFINE T == {j \in 0..m : f[j] \notin S}
  <2> SUFFICES ASSUME T # {} PROVE FALSE
    OBVIOUS
  <2>1. T \in SUBSET Nat
    OBVIOUS
  <2>2. PICK l \in T : \A j \in T : l <= j
    BY <2>1, LeastElement
  <2>3. l \in 0..m /\ f[l] \notin S
    OBVIOUS
  <2>4. l # 0
    BY <1>1, <2>3 DEF Closing
  <2>5. l - 1 \in 0..m /\ l - 1 # m /\ l - 1 < l /\ (l - 1) + 1 = l
    BY <2>3, <2>4
  <2>6. f[l - 1] \in S
    BY <2>2, <2>3, <2>5
  <2> QED
    BY <1>3, <2>3, <2>5, <2>6
<1> QED
  BY <1>1, <1>3, <1>4

\* never twice at the same one,
LEMMA ClosingDistinct ==
    ASSUME IInv, CallInv, NoWaitCycle, SingleRegistry, NEW t \in Threads, NEW k, NEW S,
           Closing(t, k, S), ~WaitCycleDetected(t, k),
           NEW m \in Nat, m = Cardinality(Materializing(Reg[k])), NEW f, f = Walk(k),
           NEW i \in 0..m, NEW j \in 0..m, i < j
    PROVE  f[i] # f[j]
<1> SUFFICES ASSUME f[i] = f[j] PROVE FALSE
  OBVIOUS
<1>1. \A x \in 0..m : x # m =>
        f[x] \in S \ {t} /\ WaitsIn(f[x], S) /\ f[x + 1] = owner[Top(f[x]).key]
  BY ClosingWalk
<1>2. PICK R : R = {f[x] : x \in i..(j - 1)}
  OBVIOUS
<1>3. \A x \in i..(j - 1) : x \in 0..m /\ x # m /\ (x + 1 \in i..(j - 1) \/ x + 1 = j)
  OBVIOUS
<1>4. i \in i..(j - 1)
  OBVIOUS
<1>5. ASSUME NEW u \in R PROVE u \in Threads /\ WaitsIn(u, R)
  <2>1. PICK x \in i..(j - 1) : u = f[x]
    BY <1>2
  <2>2. u \in S \ {t} /\ WaitsIn(u, S) /\ f[x + 1] = owner[Top(u).key]
    BY <1>1, <1>3, <2>1
  <2>3. f[x + 1] \in R
    <3>1. CASE x + 1 \in i..(j - 1)
      BY <1>2, <3>1
    <3>2. CASE x + 1 = j
      BY <1>2, <1>4, <3>2
    <3> QED
      BY <1>3, <3>1, <3>2
  <2> QED
    BY <2>2, <2>3 DEF WaitsIn, Closing
<1>6. R # {}
  BY <1>2, <1>4
<1>7. Blocked(R)
  BY <1>5, <1>6 DEF Blocked
<1> QED
  BY <1>7, NoneBlocked

\* and so meets more threads than materializing_ has entries.
LEMMA ClosingDetected ==
    ASSUME IInv, CallInv, NoWaitCycle, SingleRegistry, NEW t \in Threads, NEW k, NEW S,
           Closing(t, k, S), ~WaitCycleDetected(t, k)
    PROVE  FALSE
<1>0. k \in Keys /\ TypeOK /\ Shape /\ S \in SUBSET Threads
  BY DEF IInv, Closing
<1>1. PICK m \in Nat : m = Cardinality(Materializing(Reg[k]))
  BY MaterializingFinite
<1>2. PICK f : f = Walk(k)
  OBVIOUS
<1>3. /\ f[0] = owner[k] /\ \A j \in 0..m : f[j] \in S
      /\ \A j \in 0..m : j # m =>
           f[j] \in S \ {t} /\ WaitsIn(f[j], S) /\ f[j + 1] = owner[Top(f[j]).key]
  BY <1>1, <1>2, ClosingWalk
<1> DEFINE g == [j \in 0..m |-> IF j = 0 THEN k ELSE Top(f[j - 1]).key]
           M == Materializing(Reg[k])
<1>4. ASSUME NEW j \in 0..m PROVE g[j] \in M /\ owner[g[j]] = f[j]
  <2>1. CASE j = 0
    <3>1. g[j] = k /\ f[j] = owner[k] /\ f[j] \in S
      BY <1>3, <2>1
    <3> QED
      BY <1>0, <3>1, ConstantsOK DEF Materializing
  <2>2. CASE j # 0
    <3>1. j - 1 \in 0..m /\ j - 1 # m /\ (j - 1) + 1 = j
      BY <2>2
    <3>2. PICK u : u = f[j - 1]
      OBVIOUS
    <3>3. u \in Threads /\ WaitsIn(u, S) /\ f[j] = owner[Top(u).key] /\ f[j] \in S
      BY <1>0, <1>3, <3>1, <3>2
    <3>4. Top(u).key \in Keys
      BY <1>0, <3>3, WaiterIs DEF WaitsIn
    <3>5. Reg[Top(u).key] = Reg[k]
      BY <1>0, <3>4 DEF SingleRegistry
    <3>6. g[j] = Top(u).key
      BY <2>2, <3>2
    <3>7. owner[Top(u).key] # NoThread
      BY <1>0, <3>3, ConstantsOK
    <3> QED
      BY <3>3, <3>4, <3>5, <3>6, <3>7 DEF Materializing
  <2> QED
    BY <2>1, <2>2
<1>5. g \in [0..m -> M]
  BY <1>4
<1>6. IsFiniteSet(M) /\ Cardinality(M) = m
  BY <1>1, MaterializingFinite
<1>7. IsFiniteSet(0..m) /\ Cardinality(0..m) = m + 1
  <2>1. 0 \in Int /\ m \in Int /\ ~(0 > m) /\ m - 0 + 1 = m + 1
    OBVIOUS
  <2> QED
    BY <2>1, FS_Interval
<1> HIDE DEF g, M
<1>8. Cardinality(M) < Cardinality(0..m)
  BY <1>6, <1>7
<1>9. PICK x, y \in 0..m : x # y /\ g[x] = g[y]
  BY <1>5, <1>6, <1>7, <1>8, FS_PigeonHole
<1>10. f[x] = f[y]
  BY <1>4, <1>9
<1>11. CASE x < y
  BY <1>1, <1>2, <1>10, <1>11, ClosingDistinct
<1>12. CASE y < x
  BY <1>1, <1>2, <1>10, <1>12, ClosingDistinct
<1> QED
  BY <1>9, <1>11, <1>12

\* What a step of t does to the calls and claims of the others.
Alone(t) ==
    /\ Others(t)
    /\ \A q \in Keys : owner'[q] = owner[q] \/ owner'[q] \in {t, NoThread}
    /\ ClaimWait(t) \/ frames'[t] = <<>> \/ Top(t)'.at # "waiting"

\* Calls that begin or end, and claims that are taken or given up.
LEMMA StepAlone ==
    ASSUME IInv, IInv', NEW t \in Threads,
           (\E k \in Keys : Resolve(t, k)) \/ SpuriousWakeup(t) \/ Step(t),
           ~ConstructorThrows(t), ~HooksThrow(t)
    PROVE  Alone(t)
<1>0. TypeOK /\ TypeOK' /\ Shape
  BY DEF IInv
<1>1. CASE (\E k \in Keys : Resolve(t, k)) \/ ConstructDep(t) \/ HookDep(t)
  <2>1. \E k \in Keys : Begins(t, k)
    BY <1>0, <1>1, EnterBegins, DepIsKey DEF Resolve, ConstructDep, HookDep, Running
  <2>2. owner' = owner
    BY <1>1 DEF Resolve, ConstructDep, HookDep
  <2> QED
    BY <1>0, <2>1, <2>2, TopAfter DEF Alone, Begins
<1>2. CASE \/ FindHit(t) \/ ClaimFound(t) \/ HooksDone(t) \/ PrototypeDone(t)
           \/ ClaimCycle(t) \/ HooksLeft(t) \/ PrototypeCycle(t) \/ PrototypeLeft(t)
           \/ NotifyAbandoned(t)
  <2>1. Ends(t)
    <3>1. CASE FindHit(t) \/ ClaimFound(t) \/ HooksDone(t) \/ PrototypeDone(t)
      BY <1>0, <3>1, ReturnEnds
      DEF FindHit, ClaimFound, HooksDone, PrototypeDone, Claiming, Running
    <3>2. CASE ClaimCycle(t) \/ HooksLeft(t) \/ PrototypeCycle(t) \/ PrototypeLeft(t)
      BY <1>0, <3>2, LeaveEnds
      DEF ClaimCycle, HooksLeft, PrototypeCycle, PrototypeLeft, Claiming, Running, Unwinding, Leave
    <3>3. CASE NotifyAbandoned(t)
      BY <1>0, <3>3, NotifyGoesOn
    <3> QED
      BY <1>2, <3>1, <3>2, <3>3
  <2>2. owner' = owner
    BY <1>2 DEF FindHit, ClaimFound, HooksDone, PrototypeDone, ClaimCycle, HooksLeft, PrototypeCycle,
                PrototypeLeft, NotifyAbandoned
  <2>3. frames'[t] = <<>> \/ Top(t)'.at # "waiting"
    BY <1>0, <2>1, TopAfter
  <2> QED
    BY <2>1, <2>2, <2>3 DEF Alone, Ends
<1>3. CASE Notify(t)
  <2>1. GoesOn(t, "hooks") /\ owner' = owner
    BY <1>0, <1>3, NotifyGoesOn DEF Notify
  <2>2. Top(t)'.at = "hooks"
    BY <1>0, <2>1, TopAfter
  <2> QED
    BY <2>1, <2>2 DEF Alone, GoesOn
<1>4. CASE \/ FindMiss(t) \/ ClaimOwn(t) \/ ClaimWait(t) \/ SpuriousWakeup(t) \/ Constructed(t)
           \/ Abandon(t) \/ Store(t) \/ PrototypeGuard(t) \/ PrototypeConstructed(t)
  <2>1. /\ frames[t] # <<>>
        /\ \E point \in Points : GoTo(t, point) /\ (point # "waiting" \/ ClaimWait(t))
    BY <1>4 DEF FindMiss, ClaimOwn, ClaimWait, SpuriousWakeup, Constructed, Abandon, Store,
                PrototypeGuard, PrototypeConstructed, Claiming, Running, Unwinding, Points
  <2>2. PICK point \in Points : GoesOn(t, point) /\ (point # "waiting" \/ ClaimWait(t))
    BY <1>0, <2>1, GoToGoesOn
  <2>3. Top(t)'.at = point
    BY <1>0, <2>2, TopAfter
  <2>4. \/ owner' = owner \/ owner' = [owner EXCEPT ![Top(t).key] = t]
        \/ owner' = [owner EXCEPT ![Top(t).key] = NoThread]
    BY <1>4 DEF FindMiss, ClaimOwn, ClaimWait, SpuriousWakeup, Constructed, Abandon, Store,
                PrototypeGuard, PrototypeConstructed
  <2>5. \A q \in Keys : owner'[q] = owner[q] \/ owner'[q] \in {t, NoThread}
    BY <1>0, <2>4 DEF TypeOK
  <2> QED
    BY <2>2, <2>3, <2>5 DEF Alone, GoesOn
<1> QED
  BY <1>1, <1>2, <1>3, <1>4 DEF Step

\* What a thread that waits after a step of another waited for before.
LEMMA WaitedBefore ==
    ASSUME TypeOK, TypeOK', Shape', CallInv', NEW t \in Threads, Alone(t),
           NEW S \in SUBSET Threads, NEW u \in S \ {t}, WaitsIn(u, S)',
           owner'[Top(u)'.key] # t \/ owner' = owner
    PROVE  WaitsIn(u, S)
<1>1. PICK d \in Nat : d = Len(frames[u]) /\ Len(frames'[u]) = d
  BY OthersAlike DEF TypeOK, Alone
<1>2. /\ (frames[u] # <<>>) <=> (d # 0)
      /\ (frames'[u] # <<>>) <=> (d # 0)
      /\ Top(u) = frames[u][d] /\ Top(u)' = frames'[u][d]
  BY <1>1 DEF Top, Depth, TypeOK
<1>3. d # 0 => /\ frames'[u][d].key = frames[u][d].key
               /\ \/ frames'[u][d].at = frames[u][d].at
                  \/ frames[u][d].at = "waiting" /\ frames'[u][d].at = "woken"
  BY <1>1, OthersAlike DEF Alone
<1>4. /\ frames'[u] # <<>> /\ Top(u)'.at = "waiting" /\ owner'[Top(u)'.key] \in S \ {u}
  BY DEF WaitsIn
<1>5. frames[u] # <<>> /\ Top(u).at = "waiting" /\ Top(u).key = Top(u)'.key
  BY <1>2, <1>3, <1>4
<1>6. Top(u).key \in Keys
  <2>1. frames[u] \in Seq(Frame) /\ d \in 1..Len(frames[u])
    BY <1>1, <1>2, <1>5 DEF TypeOK
  <2>2. frames[u][d] \in Frame
    BY <2>1
  <2> QED
    BY <1>2, <2>2 DEF Frame
<1>7. owner[Top(u).key] = owner'[Top(u).key]
  BY <1>4, <1>5, <1>6, ConstantsOK DEF Alone
<1> QED
  BY <1>4, <1>5, <1>7 DEF WaitsIn

\* No step makes threads wait for one another.
LEMMA RingPreserved ==
    ASSUME SingleRegistry
    PROVE  IInv /\ IInv' /\ CallInv /\ CallInv' /\ NoWaitCycle /\ [Next]_vars => NoWaitCycle'
<1> SUFFICES ASSUME IInv, IInv', CallInv, CallInv', NoWaitCycle, [Next]_vars,
                    NEW S \in (SUBSET Threads) \ {{}}, \A u \in S : WaitsIn(u, S)'
             PROVE  FALSE
  BY DEF NoWaitCycle, WaitsIn
<1>0. TypeOK /\ TypeOK' /\ Shape /\ Shape' /\ S \in SUBSET Threads /\ S # {}
  BY DEF IInv
<1>1. \A u \in S : WaitsIn(u, S)'
  OBVIOUS
<1>2. ~Blocked(S)
  BY NoneBlocked
<1>3. CASE frames' = frames /\ owner' = owner
  BY <1>0, <1>1, <1>2, <1>3 DEF Blocked, WaitsIn, Top, Depth
<1>4. ASSUME NEW t \in Threads, Alone(t) PROVE FALSE
  <2>1. CASE t \notin S
    <3>1. \A u \in S : u \in S \ {t} /\ WaitsIn(u, S)' /\ owner'[Top(u)'.key] # t
      BY <1>1, <2>1 DEF WaitsIn
    <3>2. \A u \in S : WaitsIn(u, S)
      BY <1>0, <1>4, <3>1, WaitedBefore
    <3> QED
      BY <1>0, <1>2, <3>2 DEF Blocked
  <2>2. CASE t \in S
    <3>1. WaitsIn(t, S)'
      BY <1>1, <2>2
    <3>2. ClaimWait(t)
      BY <1>4, <3>1 DEF Alone, WaitsIn
    <3>3. PICK k \in Keys : /\ k = Top(t).key /\ frames[t] # <<>> /\ owner' = owner
                            /\ stack[t] # <<>> => ~WaitCycleDetected(t, k)
                            /\ GoTo(t, "waiting") /\ "waiting" \in Points
      <4>1. frames[t] # <<>> /\ GoTo(t, "waiting") /\ owner' = owner
            /\ (stack[t] # <<>> => ~WaitCycleDetected(t, Top(t).key))
        BY <3>2 DEF ClaimWait, Claiming, Running
      <4>2. Top(t).key \in Keys /\ "waiting" \in Points
        BY <1>0, <4>1, TopCall DEF Points
      <4> QED
        BY <4>1, <4>2
    <3>4. Top(t)'.key = k
      BY <1>0, <3>3, GoToGoesOn, TopAfter
    <3>5. owner[k] \in S \ {t}
      BY <3>1, <3>3, <3>4 DEF WaitsIn
    <3>6. \A u \in S \ {t} : WaitsIn(u, S)
      BY <1>0, <1>1, <1>4, <3>3, WaitedBefore
    <3>7. Closing(t, k, S)
      BY <1>0, <2>2, <3>5, <3>6 DEF Closing
    <3> QED
      BY <3>3, <3>7, ClosingEmpty, ClosingDetected
  <2> QED
    BY <2>1, <2>2
<1>5. CASE \/ \E t \in Threads : ConstructorThrows(t) \/ HooksThrow(t)
           \/ AllDone \/ UNCHANGED vars
  <2>1. frames' = frames /\ owner' = owner
    BY <1>5 DEF ConstructorThrows, HooksThrow, Throw, AllDone, vars
  <2> QED
    BY <1>3, <2>1
<1> QED
  BY <1>4, <1>5, StepAlone DEF Next

\* Nobody waits before the first resolve().
LEMMA InitRing == Init => NoWaitCycle
BY DEF Init, NoWaitCycle

\* In one registry, with any number of threads and any graph of beans, cyclic
\* or not: no set of threads ever waits for one another's constructions.
\* materializationWaitCycleDetected looks far enough, along the entries of
\* materializing_, to refuse every wait that would close a ring.
THEOREM NoDeadlock ==
    ASSUME SingleRegistry
    PROVE  Spec => []NoWaitCycle
<1>1. IInv /\ IInv' /\ CallInv /\ CallInv' /\ NoWaitCycle /\ [Next]_vars => NoWaitCycle'
  BY RingPreserved
<1> QED
  BY Inductive, InitCall, CallPreserved, InitRing, <1>1, PTL DEF Spec
=============================================================================
