---------------------------- MODULE ScenarioManager ----------------------------
(***************************************************************************)
(* warthog::util::scenario_manager: the experiments of all scenario files  *)
(* that were loaded, one after the other.  Loading goes record by record,  *)
(* sorting comparison by comparison.                                       *)
(***************************************************************************)
EXTENDS ScenarioFile

CONSTANTS
  Files,    \* the scenario files: may they be opened, version, lines
  Null      \* no file yet

ASSUME FilesAssumption ==
  Files \subseteq [readable : BOOLEAN, version1 : BOOLEAN, lines : Seq(Seq(Field))]

VARIABLES
  experiments,  \* the experiments, by value
  sfile,        \* sfile_
  input,        \* the rest of the file being loaded
  spc,          \* "idle", "load", "sort", or "exit" after exit(1)
  i, j          \* the indices of sort()

svars == <<experiments, sfile, input, spc, i, j>>

NumExperiments == Len(experiments)

\* get_experiment, 0 for an index out of range
GetExperiment(which) ==
  IF which < NumExperiments THEN experiments[which + 1] ELSE Null

ScenarioInit ==
  /\ experiments = <<>>
  /\ sfile = Null
  /\ input = <<>>
  /\ spc = "idle"
  /\ i = 0 /\ j = 0

\* load_scenario: open the file and look at its first line.
LoadScenario(f) ==
  /\ spc = "idle"
  /\ IF f.readable THEN sfile' = f ELSE UNCHANGED sfile
  /\ IF f.readable /\ f.version1
     THEN spc' = "load" /\ input' = FlattenSeq(f.lines)
     ELSE spc' = "exit" /\ UNCHANGED input
  /\ UNCHANGED <<experiments, i, j>>

\* Mutant: the vector starts anew with every file.
Replaced(e) == IF input = FlattenSeq(sfile.lines) THEN <<e>> ELSE Append(experiments, e)

Appended(e) == Append(experiments, e)

\* One iteration of load_gppc_scenario; a record that fails ends the load.
ReadExperiment ==
  LET x == Extraction(input) IN
  /\ spc = "load"
  /\ IF x.ok
     THEN experiments' = Appended(Experiment(x.got)) /\ UNCHANGED spc
     ELSE spc' = "idle" /\ UNCHANGED experiments
  /\ input' = x.rest
  /\ UNCHANGED <<sfile, i, j>>

AddExperiment(e) ==
  /\ spc = "idle"
  /\ experiments' = Append(experiments, e)
  /\ UNCHANGED <<sfile, input, spc, i, j>>

ClearExperiments ==
  /\ spc = "idle"
  /\ experiments' = <<>>
  /\ UNCHANGED <<sfile, input, spc, i, j>>

Sort ==
  /\ spc = "idle"
  /\ spc' = "sort" /\ i' = 0 /\ j' = 0
  /\ UNCHANGED <<experiments, sfile, input>>

Distance(k) == experiments[k + 1].distance

\* Mutant: the neighbours are compared, as if the loop were a bubble sort.
OutOfOrderNext == j + 1 < NumExperiments /\ Distance(j + 1) < Distance(j)

OutOfOrder == Distance(j) < Distance(i)

Exchanged ==
  [experiments EXCEPT ![i + 1] = experiments[j + 1],
                      ![j + 1] = experiments[i + 1]]

\* An iteration of the inner loop of sort().
Compare ==
  /\ spc = "sort" /\ i < NumExperiments /\ j < NumExperiments
  /\ experiments' = IF OutOfOrder THEN Exchanged ELSE experiments
  /\ j' = j + 1
  /\ UNCHANGED <<sfile, input, spc, i>>

\* The end of the inner loop.
NextPlace ==
  /\ spc = "sort" /\ i < NumExperiments /\ j >= NumExperiments
  /\ i' = i + 1 /\ j' = i + 1
  /\ UNCHANGED <<experiments, sfile, input, spc>>

SortReturns ==
  /\ spc = "sort" /\ i >= NumExperiments
  /\ spc' = "idle"
  /\ UNCHANGED <<experiments, sfile, input, i, j>>

\* The file that write_scenario makes; of no experiments an empty one.
Written ==
  [readable |-> TRUE, version1 |-> experiments # <<>>,
   lines |-> [k \in 1 .. NumExperiments |-> PrintedFields(experiments[k])]]

ScenarioStep == ReadExperiment \/ Compare \/ NextPlace \/ SortReturns

-----------------------------------------------------------------------------
Ordered(s) == \A k, l \in 1 .. Len(s) : k < l => s[k].distance <= s[l].distance

(* When sort() returns, the experiments are ordered by distance.           *)
SortOrders == [][SortReturns => Ordered(experiments')]_svars
=============================================================================
