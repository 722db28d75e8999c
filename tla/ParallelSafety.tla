--------------------------- MODULE ParallelSafety ---------------------------
(***************************************************************************)
(* parallel_compute returns after the work, and its progress bar does not  *)
(* overstate it, for every number of threads and of tasks, however the     *)
(* threads are scheduled.                                                  *)
(***************************************************************************)
EXTENDS ParallelCompute, WellFoundedInduction, TLAPS

Inv == TypeOK /\ WatchInv /\ ReturnsAfterWork

LEMMA InvInit ==
  ASSUME Init
  PROVE  Inv
  BY ThreadAssumption
  DEF Init, Inv, TypeOK, WatchInv, ReturnsAfterWork, Unfinished, Thread

(* The progress bar keeps its type.                                        *)
LEMMA BarStep ==
  ASSUME Inv, Test
  PROVE  pct_done' \in Nat
<1> DEFINE n == (nprocessed * 100) % Width
<1>1. task_total \in Nat \ {0} /\ nprocessed \in Nat /\ Width \in Nat \ {0}
      /\ pct_done \in Nat
  BY ThreadAssumption DEF Test, Inv, TypeOK, WatchInv
<1>2. nprocessed * 100 \in Nat
  BY <1>1
<1>3. n \in Nat
  BY <1>1, <1>2
<1> HIDE DEF n
<1>4. n \div task_total \in Nat
  BY <1>1, <1>3
<1>5. pct_progress \in Nat
  BY <1>4 DEF pct_progress, n
<1> QED
  BY <1>1, <1>5 DEF Test

(* A worker that is done stays so.                                         *)
LEMMA WorkIsFinal ==
  ASSUME Inv, NEW t \in Thread, AllDone(t), [Next]_vars
  PROVE  AllDone(t)'
<1> USE DEF Inv, TypeOK, AllDone, Workload
<1>1. ASSUME NEW u \in Thread, Worker(u)
      PROVE  AllDone(t)'
  BY <1>1 DEF Worker, Begin, Process, End, main
<1>2. CASE Forked \/ Refused
  <2>1. worker[i] = "none" /\ i \in Thread
    BY <1>2 DEF Forked, Refused, Fork, WatchInv, Thread
  <2>2. t # i
    BY <2>1
  <2> QED
    BY <1>2, <2>1, <2>2 DEF Forked, Refused, Fork
<1>3. CASE ReadProcessed \/ ReadFinished \/ Test
  BY <1>3 DEF ReadProcessed, ReadFinished, Test, shared
<1>4. CASE UNCHANGED vars
  BY <1>4 DEF vars, shared
<1> QED
  BY <1>1, <1>2, <1>3, <1>4 DEF Next, Main

LEMMA MainStep ==
  ASSUME Inv, Main
  PROVE  Inv'
<1> USE ThreadAssumption DEF Inv, TypeOK, Thread
<1>1. \A t \in Thread : AllDone(t) => AllDone(t)'
  BY WorkIsFinal DEF Next
<1> DEFINE Called == task_total = 0 => pc = "returned"
<1>2. Called /\ task_total' = task_total /\ pc # "returned"
  BY DEF WatchInv, Main, Forked, Refused, Fork, ReadProcessed, ReadFinished,
         Test
<1>3. Called'
  BY <1>2
<1>4. ASSUME NEW s \in {"forked", "none"}, Fork(s)
      PROVE  Inv'
  <2>1. TypeOK'
    BY <1>4 DEF Fork
  <2>2. \A t \in Thread : thread_finished_'[t] => AllDone(t)'
    BY <1>1, <1>4 DEF Fork, WatchInv
  <2>3. pc' \in {"fork", "count"} /\ nfinished' = 0
        /\ (pc' = "fork" => i' = i + 1) /\ (pc' = "count" => i' = 0)
    BY <1>4 DEF Fork, WatchInv
  <2>4. pc' = "fork" => \A t \in Thread : t >= i' => worker'[t] = "none"
    BY <1>4, <2>3 DEF Fork, WatchInv
  <2>5. pc' # "fork" => i' = 0
    BY <2>3
  <2>6. WatchInv'
    BY <1>3, <2>1, <2>2, <2>3, <2>4, <2>5 DEF WatchInv
  <2> QED
    BY <2>1, <2>3, <2>6 DEF ReturnsAfterWork
<1>5. CASE ReadProcessed
  <2>1. TypeOK'
    BY <1>5 DEF ReadProcessed, shared
  <2>2. WatchInv'
    BY <1>1, <1>5 DEF ReadProcessed, WatchInv, shared
  <2> QED
    BY <1>5, <2>1, <2>2 DEF ReadProcessed, ReturnsAfterWork
<1>6. CASE ReadFinished
  <2>1. i \in Thread /\ nfinished <= i /\ i' = i + 1
        /\ pc' \in {"count", "test"} /\ (pc' = "test" => i' = NumThreads)
        /\ (pc' = "count" => i' \in Thread)
    BY <1>6 DEF ReadFinished, WatchInv
  <2>2. nfinished' <= i' /\ nfinished' \in Nat
        /\ (nfinished' = i' => nfinished = i /\ thread_finished_[i])
    BY <1>6, <2>1 DEF ReadFinished
  <2>3. TypeOK'
    BY <1>6, <2>1, <2>2 DEF ReadFinished, shared
  <2>4. nfinished' = i' => \A t \in Thread : t < i' => AllDone(t)
    BY <1>6, <2>1, <2>2 DEF ReadFinished, WatchInv
  <2>5. \A t \in Thread : thread_finished_'[t] => AllDone(t)'
    BY <1>1, <1>6 DEF ReadFinished, WatchInv, shared
  <2>6. WatchInv'
    BY <1>1, <1>3, <2>1, <2>2, <2>4, <2>5 DEF WatchInv
  <2> QED
    BY <2>1, <2>3, <2>6 DEF ReturnsAfterWork
<1>7. CASE Test
  <2>1. \A t \in Thread : thread_finished_'[t] => AllDone(t)'
    BY <1>1, <1>7 DEF Test, WatchInv, shared
  <2>2. CASE nfinished = NumThreads
    <3>1. \A t \in Thread : AllDone(t)
      BY <1>7, <2>2 DEF Test, WatchInv
    <3>2. pc' = "returned" /\ UNCHANGED <<i, nprocessed, nfinished, shared,
                                          task_total>>
      BY <1>7, <2>2 DEF Test
    <3>3. TypeOK'
      BY <1>7, <3>2, BarStep DEF shared
    <3> QED
      BY <1>1, <1>3, <2>1, <3>1, <3>2, <3>3 DEF WatchInv, ReturnsAfterWork
  <2>3. CASE nfinished # NumThreads
    <3>1. pc' = "count" /\ i' = 0 /\ nprocessed' = 0 /\ nfinished' = 0
          /\ UNCHANGED <<shared, task_total>>
      BY <1>7, <2>3 DEF Test, Round
    <3>2. TypeOK'
      BY <1>7, <3>1, BarStep DEF shared
    <3>3. WatchInv'
      BY <1>3, <2>1, <3>1, <3>2 DEF WatchInv
    <3> QED
      BY <3>1, <3>2, <3>3 DEF ReturnsAfterWork
  <2> QED
    BY <2>2, <2>3
<1> QED
  BY <1>4, <1>5, <1>6, <1>7 DEF Main, Forked, Refused

LEMMA WorkerStep ==
  ASSUME Inv, NEW u \in Thread, Worker(u)
  PROVE  Inv'
<1> USE DEF Inv, TypeOK
<1>1. \A t \in Thread : AllDone(t) => AllDone(t)'
  BY WorkIsFinal DEF Next
<1>2. UNCHANGED main
  BY DEF Worker, Begin, Process, End
<1>3. TypeOK'
  <2>1. CASE Begin(u)
    BY <2>1, <1>2 DEF Begin, main
  <2>2. CASE Process(u)
    BY <2>2, <1>2 DEF Process, main
  <2>3. CASE End(u)
    BY <2>3, <1>2 DEF End, main
  <2> QED
    BY <2>1, <2>2, <2>3 DEF Worker
<1>4. \A t \in Thread : thread_finished_'[t] => AllDone(t)'
  <2>1. CASE Begin(u) \/ Process(u)
    BY <1>1, <2>1 DEF Begin, Process, WatchInv
  <2>2. CASE End(u)
    BY <1>1, <2>2 DEF End, WatchInv, AllDone, Workload, main
  <2> QED
    BY <2>1, <2>2 DEF Worker
<1>5. pc = "fork" => \A t \in Thread : worker[t] = "none" => worker'[t] = "none"
  BY DEF Worker, Begin, Process, End
<1>6. WatchInv'
  BY <1>1, <1>2, <1>4, <1>5 DEF WatchInv, main
<1>7. ReturnsAfterWork'
  BY <1>1, <1>2 DEF ReturnsAfterWork, main
<1> QED
  BY <1>3, <1>6, <1>7

LEMMA InvStep ==
  ASSUME Inv, [Next]_vars
  PROVE  Inv'
<1>1. CASE UNCHANGED vars
  BY <1>1 DEF vars, shared, Inv, TypeOK, WatchInv, ReturnsAfterWork, AllDone,
              Workload
<1> QED
  BY <1>1, MainStep, WorkerStep DEF Next

-----------------------------------------------------------------------------
(* The progress bar.                                                       *)

\* A non-empty set of numbers has a least one: what is proved by looking at
\* the first place where it fails.
LEMMA SmallestOf ==
  ASSUME NEW T, T \subseteq Nat, T # {}
  PROVE  \E x \in T : \A y \in T : x <= y
<1> DEFINE R == OpToRel(<, Nat)
<1>1. IsWellFoundedOn(R, Nat)
  BY NatLessThanWellFounded
<1>2. \A x, y \in Nat : y < x => <<y, x>> \in R
  BY DEF OpToRel
<1> HIDE DEF R
<1>3. PICK x \in T : \A y \in T : ~(<<y, x>> \in R)
  BY <1>1, WFMin
<1>4. \A y \in T : ~(y < x)
  BY <1>2, <1>3
<1>5. x \in Nat /\ \A y \in T : y \in Nat
  OBVIOUS
<1> QED
  BY <1>4, <1>5

Sums(f, n, s) == s = [k \in 0 .. n |-> IF k = 0 THEN 0 ELSE f[k - 1] + s[k - 1]]

LEMMA SumsExist ==
  ASSUME NEW f
  PROVE  \A n \in Nat : \E s : Sums(f, n, s)
<1> DEFINE T == {n \in Nat : ~ \E s : Sums(f, n, s)}
<1> SUFFICES ASSUME T # {}
             PROVE  FALSE
  OBVIOUS
<1>1. PICK x \in T : \A y \in T : x <= y
  <2>1. T \subseteq Nat
    OBVIOUS
  <2> HIDE DEF T
  <2> QED
    BY <2>1, SmallestOf
<1>2. CASE x = 0
  <2>1. Sums(f, 0, [k \in 0 .. 0 |-> 0])
    BY DEF Sums
  <2> QED
    BY <1>2, <2>1
<1>3. CASE x # 0
  <2>1. x - 1 \in Nat /\ x - 1 \notin T
    BY <1>1, <1>3
  <2>2. PICK s : Sums(f, x - 1, s)
    BY <2>1
  <2> DEFINE t == [k \in 0 .. x |-> IF k = x THEN f[x - 1] + s[x - 1] ELSE s[k]]
  <2>3. \A k \in 0 .. x - 1 : s[k] = IF k = 0 THEN 0 ELSE f[k - 1] + s[k - 1]
    BY <2>2 DEF Sums
  <2>4. \A k \in 0 .. x : t[k] = IF k = 0 THEN 0 ELSE f[k - 1] + t[k - 1]
    BY <1>3, <2>3
  <2>5. t = [k \in 0 .. x |-> t[k]]
    OBVIOUS
  <2> HIDE DEF t
  <2>6. Sums(f, x, t)
    BY <2>4, <2>5 DEF Sums
  <2> QED
    BY <2>6
<1> QED
  BY <1>2, <1>3

\* ProcessedBelow unfolds, in this state and in the next.
LEMMA BelowUnfolds == Sums(nprocessed_, NumThreads, ProcessedBelow)
<1> DEFINE Is(s) == Sums(nprocessed_, NumThreads, s)
<1>1. \E s : Is(s)
  BY SumsExist, ThreadAssumption
<1>2. ProcessedBelow = CHOOSE s : Is(s)
  BY DEF ProcessedBelow, Sums
<1> HIDE DEF Is
<1>3. Is(CHOOSE s : Is(s))
  BY <1>1, Zenon
<1>4. Is(ProcessedBelow)
  BY <1>2, <1>3
<1> QED
  BY <1>4 DEF Is

LEMMA BelowUnfoldsNext == Sums(nprocessed_', NumThreads, ProcessedBelow')
<1>1. Sums(nprocessed_, NumThreads, ProcessedBelow)'
  BY BelowUnfolds, PTL
<1> QED
  BY <1>1 DEF Sums

\* Sums of numbers are numbers, and what is no smaller in each place has no
\* smaller sums.
LEMMA SumsGrow ==
  ASSUME NEW f \in [Thread -> Nat], NEW g \in [Thread -> Nat], NEW s, NEW t,
         \A u \in Thread : f[u] <= g[u],
         Sums(f, NumThreads, s), Sums(g, NumThreads, t)
  PROVE  \A n \in 0 .. NumThreads : s[n] \in Nat /\ t[n] \in Nat /\ s[n] <= t[n]
<1> DEFINE Grown(n) == s[n] \in Nat /\ t[n] \in Nat /\ s[n] <= t[n]
<1> DEFINE T == {n \in 0 .. NumThreads : ~Grown(n)}
<1> USE ThreadAssumption
<1> SUFFICES ASSUME T # {}
             PROVE  FALSE
  OBVIOUS
<1>1. PICK x \in T : \A y \in T : x <= y
  <2>1. T \subseteq Nat
    OBVIOUS
  <2> HIDE DEF T
  <2> QED
    BY <2>1, SmallestOf
<1>2. CASE x = 0
  BY <1>2 DEF Sums
<1>3. CASE x # 0
  <2>1. x - 1 \in Thread /\ x \in 0 .. NumThreads /\ x - 1 \in 0 .. NumThreads
        /\ x - 1 \notin T
    BY <1>1, <1>3 DEF Thread
  <2>2. Grown(x - 1) /\ f[x - 1] \in Nat /\ g[x - 1] \in Nat
        /\ f[x - 1] <= g[x - 1]
    BY <2>1
  <2>3. s[x] = f[x - 1] + s[x - 1] /\ t[x] = g[x - 1] + t[x - 1]
    BY <1>3, <2>1 DEF Sums
  <2> QED
    BY <2>2, <2>3
<1> QED
  BY <1>2, <1>3

(* What the main thread has counted in a round is no more than what has    *)
(* been done by the workers that it has looked at.                         *)
BarInv ==
  /\ pc = "fork" => nprocessed = 0
  /\ pc = "count" => nprocessed <= ProcessedBelow[i]
  /\ pc = "finished" => nprocessed <= ProcessedBelow[i + 1]
  /\ pc = "test" => nprocessed <= ProcessedBelow[NumThreads]
  /\ BarIsHonest

LEMMA BarInit ==
  ASSUME Init
  PROVE  BarInv
<1>1. nprocessed_ \in [Thread -> Nat] /\ \A t \in Thread : nprocessed_[t] <= nprocessed_[t]
  BY DEF Init
<1>2. NumThreads \in 0 .. NumThreads
  BY ThreadAssumption
<1>3. ProcessedBelow[NumThreads] \in Nat
  BY <1>1, <1>2, BelowUnfolds, SumsGrow
<1> QED
  BY <1>3 DEF Init, BarInv, BarIsHonest

\* The counts of the workers never fall.
LEMMA CountsGrow ==
  ASSUME Inv, [Next]_vars
  PROVE  \A t \in Thread : nprocessed_[t] <= nprocessed_'[t]
<1> USE DEF Inv, TypeOK
<1>1. CASE Main \/ UNCHANGED vars
  BY <1>1 DEF Main, Forked, Refused, Fork, ReadProcessed, ReadFinished, Test,
              shared, vars
<1>2. ASSUME NEW u \in Thread, Worker(u)
      PROVE  \A t \in Thread : nprocessed_[t] <= nprocessed_'[t]
  BY <1>2 DEF Worker, Begin, Process, End
<1> QED
  BY <1>1, <1>2 DEF Next

\* What the bar shows after a test, whether the product wraps or not.
LEMMA ProgressIsHonest ==
  ASSUME NEW n \in Nat, NEW k \in Nat \ {0}
  PROVE  (((n * 100) % Width) \div k) * k <= 100 * n
<1> DEFINE m == (n * 100) % Width
<1>1. m \in Nat /\ m <= n * 100
  BY ThreadAssumption
<1> HIDE DEF m
<1>2. (m \div k) * k <= m
  BY <1>1
<1>3. m \div k \in Int
  BY <1>1
<1> DEFINE c == (m \div k) * k
<1>4. c \in Int /\ c <= m
  BY <1>2, <1>3
<1> HIDE DEF c
<1>5. c <= 100 * n
  BY <1>1, <1>4
<1> QED
  BY <1>5 DEF c, m

LEMMA BarKept ==
  ASSUME Inv, Inv', BarInv, [Next]_vars
  PROVE  BarInv'
<1> USE ThreadAssumption
<1>1. \A n \in 0 .. NumThreads :
        /\ ProcessedBelow[n] \in Nat /\ ProcessedBelow'[n] \in Nat
        /\ ProcessedBelow[n] <= ProcessedBelow'[n]
  BY CountsGrow, BelowUnfolds, BelowUnfoldsNext, SumsGrow DEF Inv, TypeOK
<1>2. /\ i \in 0 .. NumThreads /\ nprocessed \in Nat /\ pct_done \in Nat
      /\ (pc \in {"fork", "count", "finished"} => i \in Thread)
      /\ nprocessed_ \in [Thread -> Nat] /\ task_total \in Nat
  BY DEF Inv, TypeOK
<1>3. task_total' = task_total
  BY DEF Next, Main, Forked, Refused, Fork, ReadProcessed, ReadFinished, Test,
         Worker, Begin, Process, End, main, vars
<1>4. pct_done' = pct_done => BarIsHonest'
  <2> DEFINE d == pct_done * task_total
             b == ProcessedBelow[NumThreads]
             c == ProcessedBelow'[NumThreads]
  <2>1. d \in Nat /\ b \in Nat /\ c \in Nat /\ b <= c
    BY <1>1, <1>2
  <2>2. d <= 100 * b
    BY DEF BarInv, BarIsHonest
  <2> HIDE DEF d, b, c
  <2>3. d <= 100 * c
    BY <2>1, <2>2
  <2> QED
    BY <1>3, <2>3 DEF d, c, BarIsHonest
<1>5. CASE Forked \/ Refused
  <2>1. pct_done' = pct_done /\ nprocessed' = 0 /\ pc' \in {"fork", "count"}
        /\ (pc' = "count" => i' \in 0 .. NumThreads)
    BY <1>2, <1>5 DEF Forked, Refused, Fork, BarInv
  <2> QED
    BY <1>1, <1>4, <2>1 DEF BarInv
<1>6. CASE ReadProcessed
  <2>1. /\ pct_done' = pct_done /\ pc = "count" /\ pc' = "finished" /\ i' = i
        /\ nprocessed' = (nprocessed + nprocessed_[i]) % Width
        /\ i + 1 \in 0 .. NumThreads /\ i + 1 # 0
        /\ nprocessed_[i] \in Nat
    BY <1>2, <1>6 DEF ReadProcessed, Thread
  <2>2. ProcessedBelow[i + 1] = nprocessed_[i] + ProcessedBelow[i]
    BY <1>2, <2>1, BelowUnfolds DEF Sums
  <2>3. nprocessed' <= nprocessed + nprocessed_[i] /\ nprocessed' \in Nat
    BY <1>2, <2>1
  <2>4. nprocessed' <= ProcessedBelow[i + 1]
    BY <1>1, <1>2, <2>1, <2>2, <2>3 DEF BarInv
  <2>5. nprocessed' <= ProcessedBelow'[i + 1]
    BY <1>1, <2>1, <2>3, <2>4
  <2> QED
    BY <1>4, <2>1, <2>5 DEF BarInv
<1>7. CASE ReadFinished
  <2>1. /\ pct_done' = pct_done /\ pc = "finished" /\ nprocessed' = nprocessed
        /\ pc' \in {"count", "test"} /\ i' = i + 1
        /\ (pc' = "test" => i + 1 = NumThreads)
        /\ i + 1 \in 0 .. NumThreads
    BY <1>2, <1>7 DEF ReadFinished, Thread
  <2>2. nprocessed <= ProcessedBelow[i + 1]
    BY <2>1 DEF BarInv
  <2>3. nprocessed' <= ProcessedBelow'[i + 1]
    BY <1>1, <1>2, <2>1, <2>2
  <2> QED
    BY <1>4, <2>1, <2>3 DEF BarInv
<1>8. CASE Test
  <2>1. pct_done' \in {pct_done, pct_progress}
    BY <1>8 DEF Test
  <2>2. pc = "test" /\ task_total \in Nat \ {0}
    BY <1>2, <1>8 DEF Test, Inv, WatchInv
  <2>3. pct_done' = pct_progress => BarIsHonest'
    <3> DEFINE d == pct_progress * task_total
               c == ProcessedBelow'[NumThreads]
    <3>1. d <= 100 * nprocessed
      BY <1>2, <2>2, ProgressIsHonest DEF pct_progress
    <3>2. nprocessed <= ProcessedBelow[NumThreads]
      BY <2>2 DEF BarInv
    <3>3. nprocessed <= c /\ c \in Nat
      BY <1>1, <1>2, <3>2
    <3>4. pct_progress \in Int
      BY <1>2, <2>2 DEF pct_progress
    <3>5. d \in Int
      BY <3>4, <2>2
    <3> HIDE DEF c, d
    <3>6. d <= 100 * c
      BY <1>2, <3>1, <3>3, <3>5
    <3> QED
      BY <1>3, <3>6 DEF BarIsHonest, c, d
  <2>4. pc' = "returned" \/ (pc' = "count" /\ i' = 0 /\ nprocessed' = 0)
    BY <1>8 DEF Test, Round
  <2>5. BarIsHonest'
    BY <1>4, <2>1, <2>3
  <2> QED
    BY <1>1, <2>4, <2>5 DEF BarInv
<1>9. CASE (\E t \in Thread : Worker(t)) \/ UNCHANGED vars
  <2>1. UNCHANGED <<pc, i, nprocessed, pct_done>>
    BY <1>9 DEF Worker, Begin, Process, End, main, vars
  <2>2. pc = "finished" => i + 1 \in 0 .. NumThreads
    BY <1>2 DEF Thread
  <2>3. /\ pc = "count" => nprocessed <= ProcessedBelow'[i]
        /\ pc = "finished" => nprocessed <= ProcessedBelow'[i + 1]
        /\ pc = "test" => nprocessed <= ProcessedBelow'[NumThreads]
    BY <1>1, <1>2, <2>2 DEF BarInv
  <2> QED
    BY <1>4, <2>1, <2>3 DEF BarInv
<1> QED
  BY <1>5, <1>6, <1>7, <1>8, <1>9 DEF Next, Main

-----------------------------------------------------------------------------
(* The variables keep their types; in particular the main thread reads no  *)
(* element beyond the end of task_data.                                    *)
THEOREM TypeCorrect == Spec => []TypeOK
<1>1. Inv /\ [Next]_vars => Inv'
  BY InvStep
<1>2. Inv => TypeOK
  BY DEF Inv
<1> QED
  BY <1>1, <1>2, InvInit, PTL DEF Spec

(* When the call returns every task is done and no worker will touch       *)
(* task_data again, however the threads were scheduled, whatever the main  *)
(* thread has read between their steps, and if some could not be started.  *)
THEOREM WorkBeforeReturn == Spec => []ReturnsAfterWork
<1>1. Inv /\ [Next]_vars => Inv'
  BY InvStep
<1>2. Inv => ReturnsAfterWork
  BY DEF Inv
<1> QED
  BY <1>1, <1>2, InvInit, PTL DEF Spec

(* The progress bar never claims more than has been done, although the     *)
(* counts are read at different times, without synchronisation, and their  *)
(* sum and its product with 100 may wrap.                                  *)
THEOREM BarNeverOverstates == Spec => []BarIsHonest
<1>1. Inv /\ [Next]_vars => Inv'
  BY InvStep
<1>2. Inv /\ Inv' /\ BarInv /\ [Next]_vars => BarInv'
  BY BarKept
<1>3. BarInv => BarIsHonest
  BY DEF BarInv
<1> QED
  BY <1>1, <1>2, <1>3, InvInit, BarInit, PTL DEF Spec
=============================================================================
