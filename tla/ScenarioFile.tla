----------------------------- MODULE ScenarioFile -----------------------------
(***************************************************************************)
(* The text of a scenario and how operator>> takes it apart.  A field is   *)
(* what stands between two spaces: digits, then a fraction, then a word,   *)
(* each of which may be missing.  Newlines are spaces like any other, and  *)
(* a number that is read leaves the rest of its field in the stream.       *)
(***************************************************************************)
EXTENDS Integers, SequencesExt

CONSTANT Words    \* words of the files, without digits in front

NoNumber == -1

\* prec decimals that are worth frac hundredths
Field ==
  [num : Nat \cup {NoNumber}, prec : Nat, frac : 0 .. 99, word : Words \cup {""}]

Digits(n) == [num |-> n, prec |-> 0, frac |-> 0, word |-> ""]
Word(w)   == [num |-> NoNumber, prec |-> 0, frac |-> 0, word |-> w]

\* d hundredths with p decimals
Decimal(d, p) ==
  [num |-> d \div 100, prec |-> p, frac |-> d % 100, word |-> ""]

\* strtod, in hundredths: what comes before the word
Value(f) == (IF f.num = NoNumber THEN 0 ELSE 100 * f.num) + f.frac

\* The rest of the stream after the number at its front.
AfterNumber(s) ==
  IF s[1].prec = 0 /\ s[1].word = "" THEN Tail(s)
  ELSE <<[s[1] EXCEPT !.num = NoNumber]>> \o Tail(s)

\* bucket, map, sizeX, sizeY, xs, ys, xg, yg, dist
Shape ==
  <<"number", "string", "number", "number", "number", "number", "number",
    "number", "string">>

(* One >> of a record.  ok is the state of the stream, got are the fields  *)
(* extracted so far.                                                       *)
Extract(x, kind) ==
  IF ~x.ok \/ x.rest = <<>> THEN [x EXCEPT !.ok = FALSE]
  ELSE IF kind = "string"
  THEN [x EXCEPT !.got = Append(@, x.rest[1]), !.rest = Tail(@)]
  ELSE IF x.rest[1].num = NoNumber THEN [x EXCEPT !.ok = FALSE]
  ELSE [x EXCEPT !.got = Append(@, Digits(x.rest[1].num)),
                 !.rest = AfterNumber(@)]

\* All nine.
Extraction(stream) ==
  LET upto[k \in 0 .. Len(Shape)] ==
        IF k = 0 THEN [ok |-> TRUE, got |-> <<>>, rest |-> stream]
        ELSE Extract(upto[k - 1], Shape[k])
  IN  upto[Len(Shape)]

\* An experiment; the distance is in hundredths.
Experiments ==
  [map : Field, width : Nat, height : Nat, sx : Nat, sy : Nat, gx : Nat,
   gy : Nat, distance : Nat, precision : Nat]

\* The experiment made of nine fields.
Experiment(f) ==
  [map |-> f[2], width |-> f[3].num, height |-> f[4].num,
   sx |-> f[5].num, sy |-> f[6].num, gx |-> f[7].num, gy |-> f[8].num,
   distance |-> Value(f[9]), precision |-> f[9].prec]

\* experiment::print
PrintedFields(e) ==
  <<e.map, Digits(e.width), Digits(e.height), Digits(e.sx), Digits(e.sy),
    Digits(e.gx), Digits(e.gy), Decimal(e.distance, e.precision)>>
=============================================================================
