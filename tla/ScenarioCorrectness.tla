-------------------------- MODULE ScenarioCorrectness --------------------------
(***************************************************************************)
(* A user of scenario_manager who loads, adds, sorts, clears, writes and   *)
(* loads what was written; and what there is to expect of the experiments. *)
(***************************************************************************)
EXTENDS ScenarioManager

CONSTANTS
  Added,    \* experiments that are added by hand
  MaxOps    \* BOUND: number of operations

ASSUME AddedAssumption == Added \subseteq Experiments

VARIABLES
  ops,      \* number of operations so far
  given,    \* the operations that brought experiments since the last clear
  written   \* the experiments that were written last, and the file

uvars == <<ops, given, written>>

UserInit == ScenarioInit /\ ops = 0 /\ given = <<>> /\ written = Null

Use == ops < MaxOps /\ ops' = ops + 1

\* Of the three sources each entry of given names one.
FromFile(f)  == [by |-> "load", file |-> f, exps |-> <<>>]
FromUser(e)  == [by |-> "add", file |-> Null, exps |-> <<e>>]
FromWrite(w) == [by |-> "reload", file |-> w.file, exps |-> w.exps]

UserLoads ==
  /\ Use
  /\ \E f \in Files :
       LoadScenario(f) /\ given' = Append(given, FromFile(f))
  /\ UNCHANGED written

UserReloads ==
  /\ Use /\ written # Null
  /\ LoadScenario(written.file)
  /\ given' = Append(given, FromWrite(written))
  /\ UNCHANGED written

UserAdds ==
  /\ Use
  /\ \E e \in Added :
       AddExperiment(e) /\ given' = Append(given, FromUser(e))
  /\ UNCHANGED written

UserClears == Use /\ ClearExperiments /\ given' = <<>> /\ UNCHANGED written

UserSorts == Use /\ Sort /\ UNCHANGED <<given, written>>

UserWrites ==
  /\ Use /\ spc = "idle"
  /\ written' = [file |-> Written, exps |-> experiments]
  /\ UNCHANGED <<svars, given>>

UserNext ==
  \/ UserLoads \/ UserReloads \/ UserAdds \/ UserClears \/ UserSorts \/ UserWrites
  \/ ScenarioStep /\ UNCHANGED uvars

UserSpec == UserInit /\ [][UserNext]_<<svars, uvars>>

-----------------------------------------------------------------------------
\* A line of nine fields, each what its place asks for.
IsWhole(line) ==
  /\ Len(line) = 9
  /\ \A k \in 1 .. 9 : Shape[k] = "number" =>
       line[k].num # NoNumber /\ line[k].prec = 0 /\ line[k].word = ""

\* The number of whole lines before the first damaged one.
Count(lines) ==
  Cardinality({k \in DOMAIN lines : \A l \in 1 .. k : IsWhole(lines[l])})

\* The experiments that an operation is known to bring.  What a written file
\* brings back is left open: it does not have the format that is read.
Known(g) ==
  CASE g.by = "load"   -> [k \in 1 .. Count(g.file.lines) |-> Experiment(g.file.lines[k])]
    [] g.by = "add"    -> g.exps
    [] g.by = "reload" -> <<>>

\* The fields behind the lines that bring them.
Left(g) ==
  FlattenSeq(SubSeq(g.file.lines, Len(Known(g)) + 1, Len(g.file.lines)))

\* A damaged line may borrow fields from the lines behind it, unless the
\* load ends with its first field.
Doubtful(g) ==
  IF \/ g.by = "reload"
     \/ g.by = "load" /\ Left(g) # <<>> /\ Left(g)[1].num # NoNumber
  THEN Left(g) ELSE <<>>

Expected == FlattenSeq([k \in DOMAIN given |-> Known(given[k])])
Doubted  == FlattenSeq([k \in DOMAIN given |-> Doubtful(given[k])])
Times(e, s) == Cardinality({k \in DOMAIN s : s[k] = e})

(* The experiments of all loads add up, also after sort(); none is lost,   *)
(* and none is made up but from a damaged line and those behind it, which  *)
(* fail without notice, and then from seven fields or more.  A file that   *)
(* the manager wrote itself is not promised to bring anything back.        *)
LoadsAddUp ==
  spc = "idle" =>
    /\ \A e \in Range(Expected) : Times(e, Expected) <= Times(e, experiments)
    /\ 7 * (Len(experiments) - Len(Expected)) <= Len(Doubted)
=============================================================================
