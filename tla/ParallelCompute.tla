-------------------------- MODULE ParallelCompute --------------------------
(***************************************************************************)
(* parallel_compute: the main thread forks workers and then watches their  *)
(* thread_params, which they write without synchronisation; it joins none. *)
(* The fields it reads one after the other are of different times.         *)
(***************************************************************************)
EXTENDS Integers, FiniteSets

CONSTANTS
  NumThreads,    \* hardware_concurrency()
  MaxTotal,      \* BOUND: tasks of the call
  Width          \* 2^32, what uint32_t counts modulo

ASSUME ThreadAssumption ==
  NumThreads \in Nat \ {0} /\ MaxTotal \in Nat /\ Width \in Nat \ {0}

Thread == 0 .. NumThreads - 1

VARIABLES
  task_total,
  worker,             \* "none" before pthread_create
  nprocessed_,        \* fields of task_data, shared
  thread_finished_,
  pc, i,              \* main thread
  nprocessed, nfinished, pct_done

shared == <<worker, nprocessed_, thread_finished_>>
vars == <<task_total, shared, pc, i, nprocessed, nfinished, pct_done>>

\* Mutant: the fields of task_data are not zero before the workers start.
Garbage == [t \in Thread |-> TRUE]

\* task_data is value-initialised, so no worker is finished before it starts.
Unfinished == [t \in Thread |-> FALSE]

Init ==
  /\ task_total \in 0 .. MaxTotal
  /\ worker = [t \in Thread |-> "none"]
  /\ nprocessed_ = [t \in Thread |-> 0]
  /\ thread_finished_ = Unfinished
  /\ pc = IF task_total = 0 THEN "returned" ELSE "fork"
  /\ i = 0 /\ nprocessed = 0 /\ nfinished = 0 /\ pct_done = 0

-----------------------------------------------------------------------------
(* The main thread.                                                        *)

\* pthread_create, whose result is ignored: the thread may not exist.
Fork(state) ==
  /\ pc = "fork"
  /\ worker' = [worker EXCEPT ![i] = state]
  /\ i' = IF i + 1 < NumThreads THEN i + 1 ELSE 0
  /\ pc' = IF i + 1 < NumThreads THEN "fork" ELSE "count"
  /\ UNCHANGED <<task_total, nprocessed_, thread_finished_,
                 nprocessed, nfinished, pct_done>>

Forked  == Fork("forked")
Refused == Fork("none")

\* nprocessed += task_data[i].nprocessed_
ReadProcessed ==
  /\ pc = "count"
  /\ nprocessed' = (nprocessed + nprocessed_[i]) % Width
  /\ pc' = "finished"
  /\ UNCHANGED <<task_total, shared, i, nfinished, pct_done>>

\* nfinished += task_data[i].thread_finished_
ReadFinished ==
  /\ pc = "finished"
  /\ nfinished' = IF thread_finished_[i] THEN nfinished + 1 ELSE nfinished
  /\ i' = i + 1
  /\ pc' = IF i + 1 < NumThreads THEN "count" ELSE "test"
  /\ UNCHANGED <<task_total, shared, nprocessed, pct_done>>

\* Mutants: the counters live on from round to round; a round leaves the
\* first worker out.
RoundGoesOn == i' = 0 /\ UNCHANGED <<nprocessed, nfinished>>
RoundFromOne == i' = NumThreads - 1 /\ nprocessed' = 0 /\ nfinished' = 0

Round == i' = 0 /\ nprocessed' = 0 /\ nfinished' = 0

pct_progress == ((nprocessed * 100) % Width) \div task_total

\* The progress bar, and the end of a round: return, or sleep and go on.
Test ==
  /\ pc = "test"
  /\ pct_done' = IF pct_progress > pct_done THEN pct_progress ELSE pct_done
  /\ IF nfinished = NumThreads
     THEN pc' = "returned" /\ UNCHANGED <<i, nprocessed, nfinished>>
     ELSE pc' = "count" /\ Round
  /\ UNCHANGED <<task_total, shared>>

Main == Forked \/ Refused \/ ReadProcessed \/ ReadFinished \/ Test

-----------------------------------------------------------------------------
(* The workers: fn_task_wrapper around an fn_worker that takes every       *)
(* max_threads_-th task and counts what it has done.                       *)

Workload(t) == Cardinality({k \in 0 .. task_total - 1 : k % NumThreads = t})

main == <<task_total, pc, i, nprocessed, nfinished, pct_done>>

Begin(t) ==
  /\ worker[t] = "forked"
  /\ worker' = [worker EXCEPT ![t] = "working"]
  /\ thread_finished_' = [thread_finished_ EXCEPT ![t] = FALSE]
  /\ UNCHANGED <<nprocessed_, main>>

Process(t) ==
  /\ worker[t] = "working" /\ nprocessed_[t] < Workload(t)
  /\ nprocessed_' = [nprocessed_ EXCEPT ![t] = @ + 1]
  /\ UNCHANGED <<worker, thread_finished_, main>>

\* The last access of a worker to task_data.
End(t) ==
  /\ worker[t] = "working" /\ nprocessed_[t] = Workload(t)
  /\ worker' = [worker EXCEPT ![t] = "exited"]
  /\ thread_finished_' = [thread_finished_ EXCEPT ![t] = TRUE]
  /\ UNCHANGED <<nprocessed_, main>>

Worker(t) == Begin(t) \/ Process(t) \/ End(t)

-----------------------------------------------------------------------------
Next == Main \/ \E t \in Thread : Worker(t)

Spec ==
  /\ Init /\ [][Next]_vars
  /\ WF_vars(Main) /\ \A t \in Thread : WF_vars(Worker(t))

TypeOK ==
  /\ task_total \in 0 .. MaxTotal
  /\ worker \in [Thread -> {"none", "forked", "working", "exited"}]
  /\ nprocessed_ \in [Thread -> Nat]
  /\ thread_finished_ \in [Thread -> BOOLEAN]
  /\ pc \in {"fork", "count", "finished", "test", "returned"}
  /\ i \in 0 .. NumThreads /\ (pc \in {"fork", "count", "finished"} => i \in Thread)
  /\ nprocessed \in Nat /\ nfinished \in 0 .. NumThreads /\ pct_done \in Nat

\* Worker t has done its share and will not touch task_data again.
AllDone(t) == worker[t] = "exited" /\ nprocessed_[t] = Workload(t)

\* In a round, as many finished workers as were looked at means all of them.
WatchInv ==
  /\ task_total = 0 => pc = "returned"
  /\ \A t \in Thread : thread_finished_[t] => AllDone(t)
  /\ pc \in {"count", "finished", "test"} => nfinished <= i
  /\ pc \in {"count", "finished", "test"} /\ nfinished = i =>
       \A t \in Thread : t < i => AllDone(t)
  /\ pc = "test" => i = NumThreads
  /\ pc = "fork" =>
       nfinished = 0 /\ \A t \in Thread : t >= i => worker[t] = "none"

(* When the call returns every task is done, although nothing is joined,   *)
(* and no worker is left that would write to task_data, which is freed.    *)
(* A worker that could not be started is never taken for a finished one.   *)
ReturnsAfterWork ==
  pc = "returned" /\ task_total > 0 =>
    \A t \in Thread : AllDone(t)

ProcessedBelow[n \in 0 .. NumThreads] ==
  IF n = 0 THEN 0 ELSE nprocessed_[n - 1] + ProcessedBelow[n - 1]

(* The progress bar never claims more than has been done, whatever was     *)
(* read at which time and even if the product with 100 wraps.              *)
BarIsHonest == pct_done * task_total <= 100 * ProcessedBelow[NumThreads]

(* The watch loop ends if every worker could be started.                   *)
Returns ==
  (pc # "fork" /\ \A t \in Thread : worker[t] # "none") ~> pc = "returned"
=============================================================================
