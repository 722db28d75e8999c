---------------------------- MODULE LoadersSafety ----------------------------
(***************************************************************************)
(* The classes that load files keep what the files say.  The experiments   *)
(* of scenario_manager have their types, whatever the files hold and       *)
(* however often they are written and loaded again, and sort() orders them *)
(* and loses none.  A dimacs_parser holds the arcs, nodes and queries of   *)
(* all its files, true promises that a file was read to its end, what was  *)
(* printed comes back as documented, and a metis file is the graph.        *)
(***************************************************************************)
EXTENDS ScenarioCorrectness, DimacsCorrectness, FiniteSetTheorems,
        SequenceTheorems, WellFoundedInduction, TLAPS

-----------------------------------------------------------------------------
(* Fields taken from a stream.                                             *)

\* A non-empty set of numbers has a least one: what is proved by looking at
\* the first place where it fails.
LEMMA SmallestOf ==
  ASSUME NEW T, T \subseteq Nat, T # {}
  PROVE  \E x \in T : \A y \in T : x <= y
<1> DEFINE R == OpToRel(<, Nat)
<1>1. IsWellFoundedOn(R, Nat)
  BY NatLessThanWellFounded
<1>2. \A x, y \in Nat : y < x => <<y, x>> \in R
  BY DEF OpToRel
<1> HIDE DEF R
<1>3. PICK x \in T : \A y \in T : ~(<<y, x>> \in R)
  BY <1>1, WFMin
<1>4. \A y \in T : ~(y < x)
  BY <1>2, <1>3
<1>5. x \in Nat /\ \A y \in T : y \in Nat
  OBVIOUS
<1> QED
  BY <1>4, <1>5

\* What has been extracted after k of the nine fields.
Extracted(x, k) ==
  /\ x \in [ok : BOOLEAN, got : Seq(Field), rest : Seq(Field)]
  /\ x.ok => Len(x.got) = k
  /\ \A l \in 1 .. Len(x.got) : Shape[l] = "number" => x.got[l].num \in Nat

LEMMA ExtractFacts ==
  ASSUME NEW k \in 0 .. 8, NEW x, Extracted(x, k)
  PROVE  Extracted(Extract(x, Shape[k + 1]), k + 1)
<1> DEFINE kind == Shape[k + 1]
           y == Extract(x, kind)
<1>1. /\ x \in [ok : BOOLEAN, got : Seq(Field), rest : Seq(Field)]
      /\ x.ok => Len(x.got) = k
      /\ \A l \in 1 .. Len(x.got) : Shape[l] = "number" => x.got[l].num \in Nat
  BY DEF Extracted
<1>2. CASE y = [x EXCEPT !.ok = FALSE]
  BY <1>1, <1>2 DEF Extracted
<1>3. ASSUME x.ok, x.rest # <<>>
      PROVE  x.rest[1] \in Field /\ Tail(x.rest) \in Seq(Field)
  BY <1>1, <1>3
<1>4. ASSUME NEW f \in Field, NEW r \in Seq(Field), x.ok,
             kind = "number" => f.num \in Nat,
             y = [x EXCEPT !.got = Append(x.got, f), !.rest = r]
      PROVE  Extracted(y, k + 1)
  <2> DEFINE g == Append(x.got, f)
  <2>1. y.ok = x.ok /\ y.rest = r /\ y.got = Append(x.got, f)
        /\ y \in [ok : BOOLEAN, got : Seq(Field), rest : Seq(Field)]
    <3>1. g \in Seq(Field)
      BY <1>1, <1>4
    <3>2. y = [x EXCEPT !.got = g, !.rest = r]
      BY <1>4
    <3> HIDE DEF g, y
    <3>3. y.ok = x.ok /\ y.rest = r /\ y.got = g
          /\ y \in [ok : BOOLEAN, got : Seq(Field), rest : Seq(Field)]
      BY <1>1, <3>1, <3>2
    <3> QED
      BY <3>3 DEF g
  <2>2. Len(y.got) = k + 1 /\ Len(x.got) = k
    BY <1>1, <1>4, <2>1
  <2>3. ASSUME NEW l \in 1 .. k + 1, Shape[l] = "number"
        PROVE  y.got[l].num \in Nat
    <3>1. CASE l = k + 1
      BY <1>1, <1>4, <2>1, <2>2, <2>3, <3>1
    <3>2. CASE l # k + 1
      BY <1>1, <1>4, <2>1, <2>2, <2>3, <3>2
    <3> QED
      BY <3>1, <3>2
  <2> HIDE DEF y
  <2> QED
    BY <1>4, <2>1, <2>2, <2>3 DEF Extracted
<1>5. CASE x.ok /\ x.rest # <<>> /\ kind = "string"
  <2>1. y = [x EXCEPT !.got = Append(x.got, x.rest[1]), !.rest = Tail(x.rest)]
    BY <1>1, <1>5 DEF Extract
  <2> HIDE DEF y, kind
  <2>2. kind # "number"
    BY <1>5
  <2> QED
    BY <1>3, <1>4, <1>5, <2>1, <2>2 DEF y, kind
<1>6. CASE x.ok /\ x.rest # <<>> /\ kind # "string" /\ x.rest[1].num # NoNumber
  <2> DEFINE f == Digits(x.rest[1].num)
             r == AfterNumber(x.rest)
  <2>1. y = [x EXCEPT !.got = Append(x.got, f), !.rest = r]
    BY <1>1, <1>6 DEF Extract
  <2>2. x.rest[1].num \in Nat
    BY <1>3, <1>6 DEF Field
  <2>3. f \in Field /\ f.num \in Nat
    BY <2>2 DEF Digits, Field
  <2>4. [x.rest[1] EXCEPT !.num = NoNumber] \in Field
    BY <1>3, <1>6 DEF Field
  <2>5. r \in Seq(Field)
    <3>1. <<[x.rest[1] EXCEPT !.num = NoNumber]>> \in Seq(Field)
      BY <2>4
    <3> QED
      BY <1>3, <1>6, <3>1, ConcatProperties DEF AfterNumber
  <2> HIDE DEF f, r
  <2> QED
    BY <1>4, <1>6, <2>1, <2>3, <2>5
<1> QED
  BY <1>1, <1>2, <1>5, <1>6 DEF Extract

\* The stages of an extraction up to field n.
Stages(f, s, n) ==
  f = [k \in 0 .. n |->
         IF k = 0 THEN [ok |-> TRUE, got |-> <<>>, rest |-> s]
         ELSE Extract(f[k - 1], Shape[k])]

LEMMA StagesExist ==
  ASSUME NEW s
  PROVE  \A n \in Nat : \E f : Stages(f, s, n)
<1> DEFINE T == {n \in Nat : ~ \E f : Stages(f, s, n)}
           First == [ok |-> TRUE, got |-> <<>>, rest |-> s]
<1> SUFFICES ASSUME T # {}
             PROVE  FALSE
  OBVIOUS
<1>1. PICK n \in T : \A m \in T : n <= m
  <2>1. T \subseteq Nat
    OBVIOUS
  <2> HIDE DEF T
  <2> QED
    BY <2>1, SmallestOf
<1> HIDE DEF First
<1>2. CASE n = 0
  <2>1. Stages([k \in 0 .. 0 |-> First], s, 0)
    BY DEF Stages, First
  <2> QED
    BY <1>2, <2>1
<1>3. CASE n # 0
  <2>1. n - 1 \in Nat /\ n - 1 \notin T
    BY <1>1, <1>3
  <2>2. PICK f : Stages(f, s, n - 1)
    BY <2>1
  <2> DEFINE g == [k \in 0 .. n |->
                     IF k = n THEN Extract(f[n - 1], Shape[n]) ELSE f[k]]
  <2>3. \A k \in 0 .. n - 1 :
          f[k] = IF k = 0 THEN First ELSE Extract(f[k - 1], Shape[k])
    BY <2>2 DEF Stages, First
  <2>4. \A k \in 0 .. n :
          g[k] = IF k = 0 THEN First ELSE Extract(g[k - 1], Shape[k])
    BY <1>3, <2>1, <2>3
  <2>5. g = [k \in 0 .. n |-> g[k]]
    OBVIOUS
  <2> HIDE DEF g
  <2>6. Stages(g, s, n)
    BY <2>4, <2>5 DEF Stages, First
  <2> QED
    BY <2>6
<1> QED
  BY <1>2, <1>3

(* If an extraction succeeds it has taken nine fields, with numbers where  *)
(* numbers belong; what is left is a stream of fields.                     *)
LEMMA ExtractionFacts ==
  ASSUME NEW s \in Seq(Field)
  PROVE  Extracted(Extraction(s), 9)
<1> DEFINE Is(f) == Stages(f, s, Len(Shape))
           upto == CHOOSE f : Is(f)
<1>1. Len(Shape) = 9
  BY DEF Shape
<1>2. Extraction(s) = upto[9]
  BY <1>1 DEF Extraction, Stages
<1>3. \E f : Is(f)
  BY <1>1, StagesExist
<1> HIDE DEF Is
<1>4. Is(upto)
  BY <1>3, Zenon
<1> HIDE DEF upto
<1>5. Stages(upto, s, 9)
  BY <1>1, <1>4 DEF Is
<1>6. /\ upto[0] = [ok |-> TRUE, got |-> <<>>, rest |-> s]
      /\ \A k \in 0 .. 8 : upto[k + 1] = Extract(upto[k], Shape[k + 1])
  <2>1. \A k \in 0 .. 9 :
          upto[k] = IF k = 0 THEN [ok |-> TRUE, got |-> <<>>, rest |-> s]
                    ELSE Extract(upto[k - 1], Shape[k])
    BY <1>5 DEF Stages
  <2>2. ASSUME NEW k \in 0 .. 8
        PROVE  upto[k + 1] = Extract(upto[k], Shape[k + 1])
    <3>1. k + 1 \in 0 .. 9 /\ k + 1 # 0 /\ (k + 1) - 1 = k
      OBVIOUS
    <3> QED
      BY <2>1, <3>1
  <2> QED
    BY <2>1, <2>2
<1>7. Extracted(upto[0], 0)
  BY <1>6 DEF Extracted
<1>8. \A k \in 0 .. 8 : Extracted(upto[k], k) => Extracted(upto[k + 1], k + 1)
  BY <1>6, ExtractFacts
<1>9. Extracted(upto[3], 3)
  BY <1>7, <1>8
<1>10. Extracted(upto[6], 6)
  BY <1>8, <1>9
<1>11. Extracted(upto[9], 9)
  BY <1>8, <1>10
<1> QED
  BY <1>2, <1>11

LEMMA ExperimentFacts ==
  ASSUME NEW x, Extracted(x, 9), x.ok
  PROVE  Experiment(x.got) \in Experiments
<1>1. /\ x.got \in Seq(Field) /\ Len(x.got) = 9
      /\ \A l \in 1 .. 9 : Shape[l] = "number" => x.got[l].num \in Nat
  BY DEF Extracted
<1>2. \A l \in 1 .. 9 : x.got[l] \in Field
  BY <1>1
<1>3. \A l \in {3, 4, 5, 6, 7, 8} : x.got[l].num \in Nat
  <2>1. /\ Shape[3] = "number" /\ Shape[4] = "number" /\ Shape[5] = "number"
        /\ Shape[6] = "number" /\ Shape[7] = "number" /\ Shape[8] = "number"
    BY DEF Shape
  <2>2. \A l \in {3, 4, 5, 6, 7, 8} : l \in 1 .. 9 /\ Shape[l] = "number"
    BY <2>1
  <2> QED
    BY <1>1, <2>2
<1>4. Value(x.got[9]) \in Nat /\ x.got[9].prec \in Nat
  <2>1. ASSUME NEW f \in Field
        PROVE  Value(f) \in Nat /\ f.prec \in Nat
    <3>1. f.frac \in 0 .. 99 /\ f.prec \in Nat
          /\ f.num \in Nat \cup {NoNumber}
      BY DEF Field
    <3> QED
      BY <3>1 DEF Value
  <2> QED
    BY <1>2, <2>1
<1> QED
  BY <1>2, <1>3, <1>4 DEF Experiment, Experiments

-----------------------------------------------------------------------------
(* Files as streams, and experiments as lines.                             *)

Flat(f, seqs, n) ==
  f = [k \in 1 .. n |-> IF k = 1 THEN seqs[k] ELSE f[k - 1] \o seqs[k]]

(* The lines of a file make one stream of fields.                          *)
LEMMA StreamOfLines ==
  ASSUME NEW seqs \in Seq(Seq(Field))
  PROVE  FlattenSeq(seqs) \in Seq(Field)
<1> DEFINE Made(n) == \E f : Flat(f, seqs, n) /\ \A k \in 1 .. n : f[k] \in Seq(Field)
           T == {n \in 1 .. Len(seqs) : ~Made(n)}
<1>1. T = {}
  <2> SUFFICES ASSUME T # {}
               PROVE  FALSE
    OBVIOUS
  <2>1. PICK n \in T : \A m \in T : n <= m
    <3>1. T \subseteq Nat
      OBVIOUS
    <3> HIDE DEF T
    <3> QED
      BY <3>1, SmallestOf
  <2>2. n \in 1 .. Len(seqs) /\ seqs[n] \in Seq(Field)
    BY <2>1
  <2>3. CASE n = 1
    <3> DEFINE g == [k \in 1 .. 1 |-> seqs[1]]
    <3>1. Flat(g, seqs, 1) /\ \A k \in 1 .. 1 : g[k] \in Seq(Field)
      BY <2>2, <2>3 DEF Flat
    <3> HIDE DEF g
    <3> QED
      BY <2>1, <2>3, <3>1
  <2>4. CASE n # 1
    <3>1. n - 1 \in 1 .. Len(seqs) /\ n - 1 \notin T
      <4>1. n - 1 \in 1 .. Len(seqs) /\ ~(n <= n - 1)
        BY <2>2, <2>4
      <4> HIDE DEF T
      <4> QED
        BY <2>1, <4>1
    <3>2. PICK f : Flat(f, seqs, n - 1) /\ \A k \in 1 .. n - 1 : f[k] \in Seq(Field)
      BY <3>1
    <3> DEFINE g == [k \in 1 .. n |-> IF k = n THEN f[n - 1] \o seqs[n] ELSE f[k]]
    <3>3. \A k \in 1 .. n - 1 : f[k] = IF k = 1 THEN seqs[k] ELSE f[k - 1] \o seqs[k]
      BY <3>2 DEF Flat
    <3>4. \A k \in 1 .. n : g[k] = IF k = 1 THEN seqs[k] ELSE g[k - 1] \o seqs[k]
      BY <2>2, <2>4, <3>1, <3>3, SMTT(30)
    <3>5. f[n - 1] \o seqs[n] \in Seq(Field)
      BY <2>2, <3>1, <3>2, ConcatProperties
    <3>6. \A k \in 1 .. n : g[k] \in Seq(Field)
      BY <2>2, <3>2, <3>5
    <3>7. g = [k \in 1 .. n |-> g[k]]
      OBVIOUS
    <3> HIDE DEF g
    <3>8. Flat(g, seqs, n)
      BY <3>4, <3>7 DEF Flat
    <3> QED
      BY <2>1, <3>6, <3>8
  <2> QED
    BY <2>3, <2>4
<1>2. CASE Len(seqs) = 0
  BY <1>2 DEF FlattenSeq
<1>3. CASE Len(seqs) # 0
  <2> DEFINE n == Len(seqs)
             Is(f) == Flat(f, seqs, n)
             flatten == CHOOSE f : Is(f)
  <2>1. FlattenSeq(seqs) = flatten[n]
    BY <1>3 DEF FlattenSeq, Flat
  <2>2. n \in 1 .. n /\ Made(n)
    <3>1. n \in 1 .. n
      BY <1>3
    <3> HIDE DEF Made
    <3> QED
      BY <1>1, <3>1
  <2>3. PICK f : Flat(f, seqs, n) /\ \A k \in 1 .. n : f[k] \in Seq(Field)
    BY <2>2
  <2>4. \E h : Is(h)
    BY <2>3
  <2> HIDE DEF Is
  <2>5. Is(flatten)
    BY <2>4, Zenon
  <2> HIDE DEF flatten
  <2>6. \A k \in 1 .. n :
          flatten[k] = IF k = 1 THEN seqs[k] ELSE flatten[k - 1] \o seqs[k]
    BY <2>5 DEF Is, Flat
  <2>7. \A k \in 1 .. n : flatten[k] \in Seq(Field)
    <3> DEFINE S == {k \in 1 .. n : flatten[k] \notin Seq(Field)}
    <3> SUFFICES ASSUME S # {}
                 PROVE  FALSE
      OBVIOUS
    <3>1. PICK k \in S : \A m \in S : k <= m
      <4>1. S \subseteq Nat
        OBVIOUS
      <4> HIDE DEF S
      <4> QED
        BY <4>1, SmallestOf
    <3>2. k \in 1 .. n /\ seqs[k] \in Seq(Field) /\ k # 1
      BY <2>6, <3>1
    <3>3. k - 1 \in 1 .. n /\ k - 1 \notin S
      BY <3>1, <3>2
    <3>4. flatten[k - 1] \in Seq(Field) /\ flatten[k] = flatten[k - 1] \o seqs[k]
      BY <2>6, <3>2, <3>3
    <3>5. flatten[k] \in Seq(Field)
      BY <3>2, <3>4, ConcatProperties
    <3> QED
      BY <3>1, <3>5
  <2> QED
    BY <2>1, <2>2, <2>7
<1> QED
  BY <1>2, <1>3

(* What is printed of experiments are lines of fields.                     *)
LEMMA LinesAreFields ==
  ASSUME experiments \in Seq(Experiments)
  PROVE  Written.lines \in Seq(Seq(Field))
<1>1. ASSUME NEW e \in Experiments
      PROVE  PrintedFields(e) \in Seq(Field)
  <2>1. /\ e.map \in Field /\ e.distance \in Nat /\ e.precision \in Nat
        /\ e.width \in Nat /\ e.height \in Nat
        /\ e.sx \in Nat /\ e.sy \in Nat /\ e.gx \in Nat /\ e.gy \in Nat
    BY <1>1 DEF Experiments
  <2>2. ASSUME NEW n \in Nat
        PROVE  Digits(n) \in Field
    BY DEF Digits, Field
  <2>3. Decimal(e.distance, e.precision) \in Field
    <3>1. \A d \in Nat : d \div 100 \in Nat /\ d % 100 \in 0 .. 99
      OBVIOUS
    <3> QED
      BY <2>1, <3>1 DEF Decimal, Field
  <2> QED
    BY <2>1, <2>2, <2>3 DEF PrintedFields
<1>2. Written.lines = [k \in 1 .. Len(experiments) |-> PrintedFields(experiments[k])]
  BY DEF Written, NumExperiments
<1>3. \A k \in 1 .. Len(experiments) : experiments[k] \in Experiments
  OBVIOUS
<1>4. Len(experiments) \in Nat
  OBVIOUS
<1> QED
  BY <1>1, <1>2, <1>3, <1>4

-----------------------------------------------------------------------------
(* The invariant.                                                          *)

TypesOK ==
  /\ experiments \in Seq(Experiments)
  /\ input \in Seq(Field)
  /\ spc \in {"idle", "load", "sort", "exit"}
  /\ i \in Nat /\ j \in Nat
  /\ written = Null \/ written.file.lines \in Seq(Seq(Field))

(* While sort() runs, the first i places are final, and place i holds the  *)
(* least of those from i on up to j.                                       *)
PlacesOrdered ==
  spc = "sort" =>
    /\ i <= j
    /\ \A k, l \in 1 .. Len(experiments) :
         k < l /\ (k <= i \/ (k = i + 1 /\ l <= j)) =>
           experiments[k].distance <= experiments[l].distance

(* Sorting keeps every experiment as often as it is there.                 *)
SortKeeps ==
  [][spc = "sort" => \A e : Times(e, experiments') = Times(e, experiments)]_svars

ScenarioInv == TypesOK /\ PlacesOrdered

LEMMA ScenarioInvInit ==
  ASSUME UserInit
  PROVE  ScenarioInv
  BY DEF UserInit, ScenarioInit, ScenarioInv, TypesOK, PlacesOrdered

LEMMA LoadStep ==
  ASSUME ScenarioInv, NEW f, f.lines \in Seq(Seq(Field)), LoadScenario(f),
         UNCHANGED written
  PROVE  ScenarioInv'
<1>1. FlattenSeq(f.lines) \in Seq(Field)
  BY StreamOfLines
<1>2. UNCHANGED <<experiments, i, j, written>> /\ spc' \in {"load", "exit"}
      /\ input' \in {input, FlattenSeq(f.lines)}
  BY DEF LoadScenario
<1> QED
  BY <1>1, <1>2 DEF ScenarioInv, TypesOK, PlacesOrdered

LEMMA ReadStep ==
  ASSUME ScenarioInv, ReadExperiment, UNCHANGED written
  PROVE  ScenarioInv'
<1> DEFINE x == Extraction(input)
<1>1. Extracted(x, 9)
  BY ExtractionFacts DEF ScenarioInv, TypesOK
<1>2. x.ok => Experiment(x.got) \in Experiments
  BY <1>1, ExperimentFacts
<1>3. x.rest \in Seq(Field)
  BY <1>1 DEF Extracted
<1>4. /\ spc' \in {"load", "idle"} /\ input' = x.rest /\ UNCHANGED <<i, j>>
      /\ experiments' = IF x.ok THEN Append(experiments, Experiment(x.got))
                        ELSE experiments
  BY DEF ReadExperiment, Appended
<1> HIDE DEF x
<1>5. experiments' \in Seq(Experiments)
  BY <1>2, <1>4 DEF ScenarioInv, TypesOK
<1> QED
  BY <1>3, <1>4, <1>5 DEF ScenarioInv, TypesOK, PlacesOrdered

\* What an exchange of two places does.
LEMMA ExchangeFacts ==
  ASSUME ScenarioInv, Compare
  PROVE  /\ i + 1 \in 1 .. Len(experiments) /\ j + 1 \in 1 .. Len(experiments)
         /\ i <= j /\ j' = j + 1 /\ i' = i /\ spc' = "sort"
         /\ experiments' \in Seq(Experiments)
         /\ Len(experiments') = Len(experiments)
         /\ ~OutOfOrder => experiments' = experiments
         /\ OutOfOrder =>
              /\ experiments[j + 1].distance < experiments[i + 1].distance
              /\ experiments'[i + 1] = experiments[j + 1]
              /\ experiments'[j + 1] = experiments[i + 1]
              /\ \A k \in 1 .. Len(experiments) :
                   k # i + 1 /\ k # j + 1 => experiments'[k] = experiments[k]
<1>1. /\ experiments \in Seq(Experiments) /\ i \in Nat /\ j \in Nat
      /\ spc = "sort" /\ i < Len(experiments) /\ j < Len(experiments)
      /\ i <= j /\ j' = j + 1 /\ i' = i /\ spc' = "sort"
  BY DEF ScenarioInv, TypesOK, PlacesOrdered, Compare, NumExperiments
<1>2. i + 1 \in 1 .. Len(experiments) /\ j + 1 \in 1 .. Len(experiments)
  BY <1>1
<1>3. experiments' = IF OutOfOrder
                     THEN [experiments EXCEPT ![i + 1] = experiments[j + 1],
                                              ![j + 1] = experiments[i + 1]]
                     ELSE experiments
  BY DEF Compare, Exchanged
<1>4. OutOfOrder => experiments[j + 1].distance < experiments[i + 1].distance
  BY DEF OutOfOrder, Distance
<1>5. experiments[i + 1] \in Experiments /\ experiments[j + 1] \in Experiments
  BY <1>1, <1>2
<1> HIDE DEF OutOfOrder
<1> QED
  BY <1>1, <1>2, <1>3, <1>4, <1>5

\* Each experiment is there as often after an exchange as before.
LEMMA ExchangeKeeps ==
  ASSUME ScenarioInv, Compare, NEW e
  PROVE  Times(e, experiments') = Times(e, experiments)
<1> DEFINE n == Len(experiments)
           a == i + 1
           b == j + 1
           t == experiments'
           S == {k \in 1 .. n : experiments[k] = e}
           T == {k \in 1 .. n : t[k] = e}
           f == [k \in S |-> IF k = a THEN b ELSE IF k = b THEN a ELSE k]
<1>1. /\ a \in 1 .. n /\ b \in 1 .. n /\ n \in Nat
      /\ DOMAIN experiments = 1 .. n /\ DOMAIN t = 1 .. n
      /\ ~OutOfOrder => t = experiments
      /\ OutOfOrder => /\ t[a] = experiments[b] /\ t[b] = experiments[a]
                       /\ \A k \in 1 .. n : k # a /\ k # b => t[k] = experiments[k]
  BY ExchangeFacts DEF ScenarioInv, TypesOK
<1>2. Times(e, experiments) = Cardinality(S) /\ Times(e, t) = Cardinality(T)
  BY <1>1 DEF Times
<1>3. CASE ~OutOfOrder
  BY <1>1, <1>3
<1>4. CASE OutOfOrder
  <2> HIDE DEF a, b, t, n
  <2>1. \A k \in S : f[k] \in T
    BY <1>1, <1>4
  <2>2. f \in [S -> T]
    BY <2>1
  <2>3. \A k, l \in S : f[k] = f[l] => k = l
    OBVIOUS
  <2>4. \A l \in T : \E k \in S : f[k] = l
    <3> SUFFICES ASSUME NEW l \in T
                 PROVE  \E k \in S : f[k] = l
      OBVIOUS
    <3>1. CASE l = a
      <4>1. b \in S /\ f[b] = l
        BY <1>1, <1>4, <3>1
      <4> QED
        BY <4>1
    <3>2. CASE l # a /\ l = b
      <4>1. a \in S /\ f[a] = l
        BY <1>1, <1>4, <3>2
      <4> QED
        BY <4>1
    <3>3. CASE l # a /\ l # b
      <4>1. l \in S /\ f[l] = l
        BY <1>1, <1>4, <3>3
      <4> QED
        BY <4>1
    <3> QED
      BY <3>1, <3>2, <3>3
  <2> HIDE DEF f
  <2>5. f \in Bijection(S, T)
    BY <2>2, <2>3, <2>4 DEF Bijection, Injection, Surjection, IsInjective
  <2>6. ExistsBijection(S, T)
    BY <2>5 DEF ExistsBijection
  <2>7. IsFiniteSet(S)
    <3>1. IsFiniteSet(1 .. n)
      BY <1>1, FS_Interval
    <3> QED
      BY <3>1, FS_Subset
  <2>8. Cardinality(S) = Cardinality(T)
    <3> HIDE DEF S, T
    <3> QED
      BY <2>6, <2>7, FS_Bijection
  <2> QED
    BY <1>2, <2>8 DEF t
<1> QED
  BY <1>3, <1>4

LEMMA CompareStep ==
  ASSUME ScenarioInv, Compare, UNCHANGED written
  PROVE  ScenarioInv'
<1> DEFINE d(k) == experiments[k].distance
           n == Len(experiments)
<1>1. /\ experiments \in Seq(Experiments) /\ i \in Nat /\ j \in Nat /\ n \in Nat
      /\ \A k \in 1 .. n : d(k) \in Nat
      /\ \A k, l \in 1 .. n :
           k < l /\ (k <= i \/ (k = i + 1 /\ l <= j)) => d(k) <= d(l)
  <2>1. experiments \in Seq(Experiments) /\ i \in Nat /\ j \in Nat /\ n \in Nat
    BY DEF ScenarioInv, TypesOK
  <2>2. ASSUME NEW k \in 1 .. n
        PROVE  d(k) \in Nat
    <3>1. experiments[k] \in Experiments
      BY <2>1, <2>2
    <3> QED
      BY <3>1 DEF Experiments
  <2> QED
    BY <2>1, <2>2 DEF ScenarioInv, PlacesOrdered, Compare
<1>2. TypesOK'
  BY ExchangeFacts DEF ScenarioInv, TypesOK, Compare
<1>3. ASSUME NEW k \in 1 .. n, NEW l \in 1 .. n, k < l,
             k <= i \/ (k = i + 1 /\ l <= j + 1)
      PROVE  experiments'[k].distance <= experiments'[l].distance
  <2>1. CASE ~OutOfOrder
    <3>1. experiments' = experiments
      BY <2>1, ExchangeFacts
    <3>2. CASE k = i + 1 /\ l = j + 1
      <4>1. d(i + 1) <= d(j + 1)
        BY <1>1, <1>3, <2>1, <3>2 DEF OutOfOrder, Distance
      <4> QED
        BY <3>1, <3>2, <4>1
    <3>3. CASE ~(k = i + 1 /\ l = j + 1)
      <4>1. k <= i \/ (k = i + 1 /\ l <= j)
        BY <1>1, <1>3, <3>3
      <4>2. d(k) <= d(l)
        BY <1>1, <1>3, <4>1
      <4> QED
        BY <3>1, <4>2
    <3> QED
      BY <3>2, <3>3
  <2>2. CASE OutOfOrder
    <3>1. /\ d(j + 1) < d(i + 1) /\ i <= j
          /\ i + 1 \in 1 .. n /\ j + 1 \in 1 .. n /\ i # j
          /\ experiments'[i + 1] = experiments[j + 1]
          /\ experiments'[j + 1] = experiments[i + 1]
          /\ \A m \in 1 .. n :
               m # i + 1 /\ m # j + 1 => experiments'[m] = experiments[m]
      BY <1>1, <2>2, ExchangeFacts
    <3>2. CASE k <= i
      <4>1. experiments'[k] = experiments[k]
        <5>1. k # i + 1 /\ k # j + 1
          BY <1>1, <3>1, <3>2
        <5> QED
          BY <3>1, <5>1
      <4>2. \A m \in 1 .. n : k < m => d(k) <= d(m)
        BY <1>1, <3>2
      <4>3. \E m \in 1 .. n : k < m /\ experiments'[l] = experiments[m]
        BY <1>1, <1>3, <3>1, <3>2
      <4> QED
        BY <4>1, <4>2, <4>3
    <3>3. CASE k = i + 1 /\ l = j + 1
      BY <1>1, <3>1, <3>3
    <3>4. CASE k = i + 1 /\ l <= j
      <4>1. experiments'[l] = experiments[l] /\ d(i + 1) <= d(l)
        BY <1>1, <1>3, <3>1, <3>4
      <4>2. d(i + 1) \in Nat /\ d(j + 1) \in Nat /\ d(l) \in Nat
        BY <1>1, <3>1
      <4> QED
        BY <3>1, <3>4, <4>1, <4>2
    <3> QED
      BY <1>1, <1>3, <3>2, <3>3, <3>4
  <2> QED
    BY <2>1, <2>2
<1>4. PlacesOrdered'
  <2>1. /\ Len(experiments') = n /\ i' = i /\ j' = j + 1 /\ i <= j
    BY ExchangeFacts
  <2>2. i' <= j'
    BY <1>1, <2>1
  <2> QED
    BY <1>3, <2>1, <2>2 DEF PlacesOrdered
<1> QED
  BY <1>2, <1>4 DEF ScenarioInv

LEMMA NextPlaceStep ==
  ASSUME ScenarioInv, NextPlace, UNCHANGED written
  PROVE  ScenarioInv'
<1>1. /\ spc = "sort" /\ i < Len(experiments) /\ j >= Len(experiments)
      /\ i' = i + 1 /\ j' = i + 1
      /\ UNCHANGED <<experiments, input, spc, written>>
  BY DEF NextPlace, NumExperiments
<1>2. /\ i \in Nat /\ j \in Nat /\ experiments \in Seq(Experiments)
      /\ \A k, l \in 1 .. Len(experiments) :
           k < l /\ (k <= i \/ (k = i + 1 /\ l <= j)) =>
             experiments[k].distance <= experiments[l].distance
  BY <1>1 DEF ScenarioInv, TypesOK, PlacesOrdered
<1>3. ASSUME NEW k \in 1 .. Len(experiments), NEW l \in 1 .. Len(experiments),
             k < l, k <= i + 1 \/ (k = i + 2 /\ l <= i + 1)
      PROVE  experiments[k].distance <= experiments[l].distance
  BY <1>1, <1>2, <1>3
<1> QED
  BY <1>1, <1>2, <1>3 DEF ScenarioInv, TypesOK, PlacesOrdered

LEMMA ScenarioInvStep ==
  ASSUME ScenarioInv, [UserNext]_<<svars, uvars>>
  PROVE  ScenarioInv'
<1>1. CASE UserLoads
  <2>1. PICK f \in Files : LoadScenario(f)
    BY <1>1 DEF UserLoads
  <2>2. f.lines \in Seq(Seq(Field))
    BY FilesAssumption
  <2> QED
    BY <1>1, <2>1, <2>2, LoadStep DEF UserLoads
<1>2. CASE UserReloads
  <2>1. written.file.lines \in Seq(Seq(Field))
    BY <1>2 DEF UserReloads, ScenarioInv, TypesOK
  <2> QED
    BY <1>2, <2>1, LoadStep DEF UserReloads
<1>3. CASE UserAdds
  <2>1. PICK e \in Added : AddExperiment(e)
    BY <1>3 DEF UserAdds
  <2>2. e \in Experiments
    BY AddedAssumption
  <2>3. Append(experiments, e) \in Seq(Experiments)
    BY <2>2 DEF ScenarioInv, TypesOK
  <2> QED
    BY <1>3, <2>1, <2>3
    DEF UserAdds, AddExperiment, ScenarioInv, TypesOK, PlacesOrdered
<1>4. CASE UserClears
  BY <1>4 DEF UserClears, ClearExperiments, ScenarioInv, TypesOK, PlacesOrdered
<1>5. CASE UserSorts
  BY <1>5 DEF UserSorts, Sort, ScenarioInv, TypesOK, PlacesOrdered
<1>6. CASE UserWrites
  <2>1. written'.file = Written /\ UNCHANGED svars
    BY <1>6 DEF UserWrites
  <2>2. written'.file.lines \in Seq(Seq(Field))
    BY <2>1, LinesAreFields DEF ScenarioInv, TypesOK
  <2> QED
    BY <2>1, <2>2 DEF ScenarioInv, TypesOK, PlacesOrdered, svars
<1>7. CASE ScenarioStep /\ UNCHANGED uvars
  <2>1. UNCHANGED written
    BY <1>7 DEF uvars
  <2>2. CASE SortReturns
    BY <2>1, <2>2 DEF SortReturns, ScenarioInv, TypesOK, PlacesOrdered
  <2> QED
    BY <1>7, <2>1, <2>2, ReadStep, CompareStep, NextPlaceStep DEF ScenarioStep
<1>8. CASE UNCHANGED <<svars, uvars>>
  BY <1>8 DEF svars, uvars, ScenarioInv, TypesOK, PlacesOrdered
<1> QED
  BY <1>1, <1>2, <1>3, <1>4, <1>5, <1>6, <1>7, <1>8 DEF UserNext

-----------------------------------------------------------------------------
(* Theorems.                                                               *)

LEMMA ScenarioInvariant == UserSpec => []ScenarioInv
<1>1. UserInit => ScenarioInv
  BY ScenarioInvInit
<1>2. ScenarioInv /\ [UserNext]_<<svars, uvars>> => ScenarioInv'
  BY ScenarioInvStep
<1> QED
  BY <1>1, <1>2, PTL DEF UserSpec

(* Every experiment that is loaded, added or read back has numbers in all  *)
(* its places, and what is left of a file is a stream of fields, after any *)
(* damage and any number of operations.                                    *)
THEOREM ScenarioTypes == UserSpec => []TypesOK
<1>1. ScenarioInv => TypesOK
  BY DEF ScenarioInv
<1> QED
  BY <1>1, ScenarioInvariant, PTL

(* When sort() returns, the experiments are ordered by distance: for any   *)
(* number of them, with equal distances or not.                            *)
THEOREM SortIsSorted == UserSpec => SortOrders
<1>1. ScenarioInv => [SortReturns => Ordered(experiments')]_svars
  <2> SUFFICES ASSUME ScenarioInv, SortReturns,
                      NEW k \in 1 .. Len(experiments),
                      NEW l \in 1 .. Len(experiments), k < l
               PROVE  experiments[k].distance <= experiments[l].distance
    BY DEF SortReturns, Ordered
  <2>1. /\ i >= Len(experiments) /\ i \in Nat /\ experiments \in Seq(Experiments)
        /\ spc = "sort"
    BY DEF SortReturns, NumExperiments, ScenarioInv, TypesOK
  <2>2. k <= i
    BY <2>1
  <2> QED
    BY <2>1, <2>2 DEF ScenarioInv, PlacesOrdered, TypesOK
<1> QED
  BY <1>1, ScenarioInvariant, PTL DEF SortOrders

(* sort() loses no experiment and makes none up: each is there as often    *)
(* after a step of it as before.                                           *)
THEOREM SortLosesNone == UserSpec => SortKeeps
<1>1. ScenarioInv /\ [UserNext]_<<svars, uvars>>
        => [spc = "sort" => \A e : Times(e, experiments') = Times(e, experiments)]_svars
  <2> SUFFICES ASSUME ScenarioInv, [UserNext]_<<svars, uvars>>, spc = "sort",
                      NEW e
               PROVE  Times(e, experiments') = Times(e, experiments)
    OBVIOUS
  <2>1. CASE Compare
    BY <2>1, ExchangeKeeps
  <2>2. CASE ~Compare
    <3>1. experiments' = experiments
      BY <2>2
      DEF UserNext, UserLoads, UserReloads, UserAdds, UserClears, UserSorts,
          UserWrites, ScenarioStep, LoadScenario, AddExperiment,
          ClearExperiments, Sort, ReadExperiment, NextPlace, SortReturns,
          svars, uvars
    <3> QED
      BY <3>1
  <2> QED
    BY <2>1, <2>2
<1> QED
  BY <1>1, ScenarioInvariant, PTL DEF UserSpec, SortKeeps

-----------------------------------------------------------------------------
(* One sequence after the other.                                           *)

\* What holds of 1, and of k + 1 if it holds of k, holds up to n.
LEMMA UpToLast ==
  ASSUME NEW n \in Nat, NEW Holds,
         1 \in Holds, \A k \in 1 .. n - 1 : k \in Holds => k + 1 \in Holds
  PROVE  1 .. n \subseteq Holds
<1> DEFINE T == {k \in 1 .. n : k \notin Holds}
<1> SUFFICES ASSUME T # {}
             PROVE  FALSE
  OBVIOUS
<1>1. PICK x \in T : \A y \in T : x <= y
  <2>1. T \subseteq Nat
    OBVIOUS
  <2> HIDE DEF T
  <2> QED
    BY <2>1, SmallestOf
<1>2. x # 1 /\ x - 1 \in 1 .. n - 1 /\ x - 1 \notin T
  BY <1>1
<1> QED
  BY <1>1, <1>2

JoinStep(r, s, k) == IF k = 1 THEN s[k] ELSE r[k - 1] \o s[k]

\* r[k] is what the first k members of s are together.
JoinedUpTo(r, s, n) == r = [k \in 1 .. n |-> JoinStep(r, s, k)]

LEMMA JoinsExist ==
  ASSUME NEW s, NEW n \in Nat \ {0}
  PROVE  \E r : JoinedUpTo(r, s, n)
<1> DEFINE Holds == {k \in Nat : \E r : JoinedUpTo(r, s, k)}
<1>1. 1 \in Holds
  <2> DEFINE r == [k \in 1 .. 1 |-> s[k]]
  <2>1. \A k \in 1 .. 1 : JoinStep(r, s, k) = s[k]
    BY DEF JoinStep
  <2>2. r = [k \in 1 .. 1 |-> JoinStep(r, s, k)]
    BY <2>1
  <2> HIDE DEF r
  <2>3. JoinedUpTo(r, s, 1)
    BY <2>2 DEF JoinedUpTo
  <2> QED
    BY <2>3
<1>2. ASSUME NEW k \in 1 .. n - 1, k \in Holds
      PROVE  k + 1 \in Holds
  <2>1. PICK r : JoinedUpTo(r, s, k)
    BY <1>2
  <2> DEFINE t == [l \in 1 .. k + 1 |-> IF l = k + 1 THEN JoinStep(r, s, k + 1) ELSE r[l]]
  <2>2. \A l \in 1 .. k : r[l] = JoinStep(r, s, l)
    BY <2>1, Zenon DEF JoinedUpTo
  <2>3. /\ t = [l \in 1 .. k + 1 |-> t[l]] /\ t[k + 1] = JoinStep(r, s, k + 1)
        /\ \A l \in 1 .. k : t[l] = r[l]
    OBVIOUS
  <2> HIDE DEF t
  <2>4. ASSUME NEW l \in 1 .. k + 1
        PROVE  t[l] = JoinStep(t, s, l)
    <3>1. l # 1 => t[l - 1] = r[l - 1]
      <4>1. l # 1 => l - 1 \in 1 .. k
        OBVIOUS
      <4> QED
        BY <2>3, <4>1
    <3>2. JoinStep(t, s, l) = JoinStep(r, s, l)
      BY <3>1 DEF JoinStep
    <3>3. t[l] = JoinStep(r, s, l)
      <4>1. CASE l = k + 1
        BY <2>3, <4>1
      <4>2. CASE l # k + 1
        <5>1. l \in 1 .. k
          BY <4>2
        <5> QED
          BY <2>2, <2>3, <5>1
      <4> QED
        BY <4>1, <4>2
    <3> QED
      BY <3>2, <3>3
  <2>5. JoinedUpTo(t, s, k + 1)
    BY <2>3, <2>4, Zenon DEF JoinedUpTo
  <2> QED
    BY <2>5
<1> HIDE DEF Holds
<1>3. n \in Holds
  <2>1. 1 .. n \subseteq Holds
    BY <1>1, <1>2, UpToLast
  <2> QED
    BY <2>1
<1> QED
  BY <1>3 DEF Holds

LEMMA JoinedSteps ==
  ASSUME NEW s, NEW n \in Nat \ {0}, NEW r, JoinedUpTo(r, s, n)
  PROVE  /\ r[1] = s[1]
         /\ \A k \in 1 .. n - 1 : r[k + 1] = r[k] \o s[k + 1]
<1>1. \A k \in 1 .. n : r[k] = JoinStep(r, s, k)
  BY Zenon DEF JoinedUpTo
<1>2. r[1] = s[1]
  <2>1. 1 \in 1 .. n
    OBVIOUS
  <2>2. r[1] = JoinStep(r, s, 1)
    BY <1>1, <2>1, Zenon
  <2> QED
    BY <2>2 DEF JoinStep
<1>3. ASSUME NEW k \in 1 .. n - 1
      PROVE  r[k + 1] = r[k] \o s[k + 1]
  <2>1. k + 1 \in 1 .. n /\ k + 1 # 1 /\ (k + 1) - 1 = k
    OBVIOUS
  <2>2. r[k + 1] = JoinStep(r, s, k + 1)
    BY <1>1, <2>1, Zenon
  <2> QED
    BY <2>1, <2>2 DEF JoinStep
<1> QED
  BY <1>2, <1>3

LEMMA FlattenIs ==
  ASSUME NEW s, Len(s) \in Nat \ {0}
  PROVE  \E r : JoinedUpTo(r, s, Len(s)) /\ FlattenSeq(s) = r[Len(s)]
<1> DEFINE r == CHOOSE t : JoinedUpTo(t, s, Len(s))
<1>1. JoinedUpTo(r, s, Len(s))
  <2>1. \E t : JoinedUpTo(t, s, Len(s))
    BY JoinsExist
  <2> QED
    BY <2>1, Zenon
<1>2. Len(s) # 0
  OBVIOUS
<1>3. FlattenSeq(s) = r[Len(s)]
  BY <1>2, Zenon DEF FlattenSeq, JoinedUpTo, JoinStep
<1> QED
  BY <1>1, <1>3

LEMMA FlattenOfNone == FlattenSeq(<<>>) = <<>>
BY DEF FlattenSeq

LEMMA FlattenTypes ==
  ASSUME NEW S, NEW s \in Seq(Seq(S))
  PROVE  FlattenSeq(s) \in Seq(S)
<1>1. CASE s = <<>>
  <2>1. FlattenSeq(s) = <<>> /\ <<>> \in Seq(S)
    BY <1>1, FlattenOfNone
  <2> QED
    BY <2>1
<1>2. CASE s # <<>>
  <2>1. Len(s) \in Nat \ {0} /\ \A k \in 1 .. Len(s) : s[k] \in Seq(S)
    BY <1>2
  <2>2. PICK r : JoinedUpTo(r, s, Len(s)) /\ FlattenSeq(s) = r[Len(s)]
    BY <2>1, FlattenIs
  <2> DEFINE n == Len(s)
             Holds == {k \in Nat : r[k] \in Seq(S)}
  <2>3. r[1] = s[1] /\ \A k \in 1 .. n - 1 : r[k + 1] = r[k] \o s[k + 1]
    BY <2>1, <2>2, JoinedSteps
  <2>4. 1 \in Holds
    BY <2>1, <2>3
  <2>5. ASSUME NEW k \in 1 .. n - 1, k \in Holds
        PROVE  k + 1 \in Holds
    <3>1. s[k + 1] \in Seq(S) /\ r[k] \in Seq(S) /\ k + 1 \in Nat
      BY <2>1, <2>5
    <3>2. r[k] \o s[k + 1] \in Seq(S)
      BY <3>1, ConcatProperties
    <3> QED
      BY <2>3, <3>1, <3>2
  <2> HIDE DEF Holds
  <2>6. 1 .. n \subseteq Holds
    BY <2>1, <2>4, <2>5, UpToLast
  <2>7. n \in 1 .. n
    BY <2>1
  <2> HIDE DEF n
  <2>8. n \in Holds
    BY <2>6, <2>7
  <2> QED
    BY <2>2, <2>8 DEF Holds, n
<1> QED
  BY <1>1, <1>2

LEMMA FlattenAppend ==
  ASSUME NEW S, NEW s \in Seq(Seq(S)), NEW e \in Seq(S)
  PROVE  FlattenSeq(Append(s, e)) = FlattenSeq(s) \o e
<1> DEFINE n == Len(s)
           a == Append(s, e)
<1>1. /\ n \in Nat /\ Len(s) = n /\ a \in Seq(Seq(S)) /\ Len(a) = n + 1 /\ a[n + 1] = e
      /\ \A k \in 1 .. n : a[k] = s[k]
  OBVIOUS
<1> HIDE DEF a, n
<1>2. PICK t : JoinedUpTo(t, a, n + 1) /\ FlattenSeq(a) = t[n + 1]
  <2>1. Len(a) \in Nat \ {0}
    BY <1>1
  <2> QED
    BY <1>1, <2>1, FlattenIs
<1>3. t[1] = a[1] /\ \A k \in 1 .. n : t[k + 1] = t[k] \o a[k + 1]
  <2> DEFINE l == n + 1
  <2>1. l \in Nat \ {0} /\ l - 1 = n /\ JoinedUpTo(t, a, l)
    BY <1>1, <1>2
  <2> HIDE DEF l
  <2>2. t[1] = a[1] /\ \A k \in 1 .. l - 1 : t[k + 1] = t[k] \o a[k + 1]
    BY <2>1, JoinedSteps
  <2> QED
    BY <2>1, <2>2
<1>4. CASE n = 0
  <2>1. s = <<>>
    BY <1>1, <1>4
  <2>2. FlattenSeq(s) = <<>>
    BY <2>1, FlattenOfNone
  <2>3. FlattenSeq(a) = e
    BY <1>1, <1>2, <1>3, <1>4
  <2>4. <<>> \o e = e
    BY ConcatEmptySeq
  <2> QED
    BY <2>2, <2>3, <2>4 DEF a
<1>5. CASE n # 0
  <2>1. n \in Nat \ {0}
    BY <1>1, <1>5
  <2>2. PICK r : JoinedUpTo(r, s, n) /\ FlattenSeq(s) = r[n]
    BY <1>1, <2>1, FlattenIs
  <2>3. r[1] = s[1] /\ \A k \in 1 .. n - 1 : r[k + 1] = r[k] \o s[k + 1]
    BY <2>1, <2>2, JoinedSteps
  <2> DEFINE Holds == {k \in Nat : t[k] = r[k]}
  <2>4. 1 \in Holds
    BY <1>1, <1>3, <2>1, <2>3
  <2>5. ASSUME NEW k \in 1 .. n - 1, k \in Holds
        PROVE  k + 1 \in Holds
    <3>1. k \in 1 .. n /\ k + 1 \in 1 .. n /\ k + 1 \in Nat
      BY <1>1
    <3>2. t[k + 1] = t[k] \o a[k + 1] /\ r[k + 1] = r[k] \o s[k + 1] /\ t[k] = r[k]
      BY <1>3, <2>3, <2>5, <3>1
    <3>3. a[k + 1] = s[k + 1]
      BY <1>1, <3>1
    <3> QED
      BY <3>1, <3>2, <3>3
  <2> HIDE DEF Holds
  <2>6. 1 .. n \subseteq Holds
    BY <1>1, <2>4, <2>5, UpToLast
  <2>7. t[n] = r[n]
    BY <2>1, <2>6 DEF Holds
  <2>8. t[n + 1] = t[n] \o a[n + 1]
    <3>1. n \in 1 .. n
      BY <2>1
    <3> QED
      BY <1>3, <3>1
  <2> QED
    BY <1>1, <1>2, <2>2, <2>7, <2>8 DEF a
<1> QED
  BY <1>4, <1>5

-----------------------------------------------------------------------------
(* Lines that are chosen, and the first of a kind.                         *)

LEMMA ChosenParts ==
  ASSUME NEW S, NEW s \in Seq(S), NEW kinds
  PROVE  [k \in DOMAIN s |-> IF s[k].kind \in kinds THEN <<s[k]>> ELSE <<>>] \in Seq(Seq(S))
<1>1. ASSUME NEW k \in 1 .. Len(s)
      PROVE  (IF s[k].kind \in kinds THEN <<s[k]>> ELSE <<>>) \in Seq(S)
  <2>1. s[k] \in S
    OBVIOUS
  <2> QED
    BY <2>1
<1>2. DOMAIN s = 1 .. Len(s) /\ Len(s) \in Nat
  OBVIOUS
<1> QED
  BY <1>1, <1>2, IsASeq

LEMMA ChosenTypes ==
  ASSUME NEW S, NEW s \in Seq(S), NEW kinds
  PROVE  Chosen(s, kinds) \in Seq(S)
BY ChosenParts, FlattenTypes DEF Chosen

LEMMA ChosenOfNone ==
  ASSUME NEW kinds
  PROVE  Chosen(<<>>, kinds) = <<>>
<1>1. [k \in DOMAIN <<>> |-> IF <<>>[k].kind \in kinds THEN << <<>>[k] >> ELSE <<>>] = <<>>
  OBVIOUS
<1> QED
  BY <1>1, FlattenOfNone DEF Chosen

LEMMA ChosenAppend ==
  ASSUME NEW S, NEW s \in Seq(S), NEW e \in S, NEW kinds
  PROVE  Chosen(Append(s, e), kinds)
           = IF e.kind \in kinds THEN Append(Chosen(s, kinds), e) ELSE Chosen(s, kinds)
<1> DEFINE n == Len(s)
           Part(l) == IF l.kind \in kinds THEN <<l>> ELSE <<>>
           a == Append(s, e)
           p == [k \in DOMAIN s |-> Part(s[k])]
           q == [k \in DOMAIN a |-> Part(a[k])]
<1>1. p \in Seq(Seq(S)) /\ Part(e) \in Seq(S)
  <2>1. Part(e) \in Seq(S)
    OBVIOUS
  <2> QED
    BY <2>1, ChosenParts
<1>2. q = Append(p, Part(e))
  <2>1. /\ n \in Nat /\ DOMAIN s = 1 .. n /\ DOMAIN a = 1 .. n + 1 /\ a[n + 1] = e
        /\ \A k \in 1 .. n : a[k] = s[k]
    OBVIOUS
  <2> HIDE DEF n, a, Part
  <2>2. Len(p) = n
    BY <1>1, <2>1
  <2>3. Append(p, Part(e)) = [k \in 1 .. n + 1 |-> IF k = n + 1 THEN Part(e) ELSE p[k]]
    BY <1>1, <2>2
  <2>4. \A k \in 1 .. n + 1 : Part(a[k]) = IF k = n + 1 THEN Part(e) ELSE p[k]
    BY <2>1
  <2> QED
    BY <2>1, <2>3, <2>4
<1>3. Chosen(a, kinds) = FlattenSeq(p) \o Part(e)
  <2>1. Chosen(a, kinds) = FlattenSeq(q)
    BY DEF Chosen
  <2> HIDE DEF p, q, Part
  <2> QED
    BY <1>1, <1>2, <2>1, FlattenAppend
<1>4. FlattenSeq(p) = Chosen(s, kinds) /\ FlattenSeq(p) \in Seq(S)
  <2>1. FlattenSeq(p) = Chosen(s, kinds)
    BY DEF Chosen
  <2> QED
    BY <2>1, ChosenTypes
<1> DEFINE c == FlattenSeq(p)
<1>5. c \in Seq(S)
  BY <1>4
<1> HIDE DEF c
<1>6. c \o <<e>> = Append(c, e) /\ c \o <<>> = c
  BY <1>5, AppendIsConcat, ConcatEmptySeq
<1> QED
  BY <1>3, <1>4, <1>6 DEF c

\* All lines are of the kind that is chosen.
LEMMA AllChosen ==
  ASSUME NEW S, NEW s \in Seq(S), NEW kinds, \A k \in 1 .. Len(s) : s[k].kind \in kinds
  PROVE  Chosen(s, kinds) = s
<1> DEFINE n == Len(s)
           Holds == {k \in Nat : Chosen(SubSeq(s, 1, k - 1), kinds) = SubSeq(s, 1, k - 1)}
<1>1. n \in Nat /\ SubSeq(s, 1, 0) = <<>> /\ SubSeq(s, 1, n) = s
  OBVIOUS
<1>2. 1 \in Holds
  <2>1. SubSeq(s, 1, 1 - 1) = <<>>
    BY <1>1
  <2> QED
    BY <2>1, ChosenOfNone
<1>3. ASSUME NEW k \in 1 .. (n + 1) - 1, k \in Holds
      PROVE  k + 1 \in Holds
  <2>1. /\ SubSeq(s, 1, k - 1) \in Seq(S) /\ s[k] \in S /\ s[k].kind \in kinds
        /\ SubSeq(s, 1, k) = Append(SubSeq(s, 1, k - 1), s[k])
    OBVIOUS
  <2> DEFINE p == SubSeq(s, 1, k - 1)
  <2>2. p \in Seq(S) /\ Chosen(p, kinds) = p
    BY <1>3, <2>1
  <2>3. Chosen(Append(p, s[k]), kinds) = Append(p, s[k])
    <3> HIDE DEF p
    <3> QED
      BY <2>1, <2>2, ChosenAppend
  <2>4. (k + 1) - 1 = k /\ k + 1 \in Nat
    OBVIOUS
  <2> QED
    BY <2>1, <2>3, <2>4
<1> HIDE DEF Holds
<1>4. n + 1 \in Holds
  <2>1. 1 .. (n + 1) \subseteq Holds
    <3>1. n + 1 \in Nat
      BY <1>1
    <3> QED
      BY <1>2, <1>3, <3>1, UpToLast
  <2> QED
    BY <1>1, <2>1
<1>5. (n + 1) - 1 = n
  BY <1>1
<1> QED
  BY <1>1, <1>4, <1>5 DEF Holds

\* The least and the greatest of the places up to n.
LEMMA LeastPlace ==
  ASSUME NEW T, T \subseteq Nat, T # {}
  PROVE  Min(T) \in T /\ \A y \in T : Min(T) <= y
<1>1. PICK x \in T : \A y \in T : x <= y
  BY SmallestOf
<1> QED
  BY <1>1 DEF Min

LEMMA GreatestPlace ==
  ASSUME NEW n \in Nat, NEW T, T \subseteq 1 .. n, T # {}
  PROVE  Max(T) \in T /\ \A y \in T : y <= Max(T)
<1> DEFINE U == {m \in 0 .. n : \A y \in T : y <= m}
<1>1. n \in U
  OBVIOUS
<1>2. PICK m \in U : \A y \in U : m <= y
  <2>1. U \subseteq Nat /\ U # {}
    BY <1>1
  <2> HIDE DEF U
  <2> QED
    BY <2>1, SmallestOf
<1>3. m \in T
  <2>1. CASE m = 0
    <3>1. PICK y \in T : TRUE
      OBVIOUS
    <3>2. y <= m /\ y \in 1 .. n
      BY <1>2, <3>1
    <3> QED
      BY <2>1, <3>2
  <2>2. CASE m # 0 /\ m \notin T
    <3>1. \A y \in T : y <= m - 1
      BY <1>2, <2>2
    <3>2. m - 1 \in U
      BY <1>2, <2>2, <3>1
    <3> QED
      BY <1>2, <3>2
  <2> QED
    BY <2>1, <2>2
<1> QED
  BY <1>2, <1>3 DEF Max

LEMMA DecidedFacts ==
  ASSUME NEW f, Len(f) \in Nat
  PROVE  /\ Decided(f) \in 0 .. Len(f)
         /\ Decided(f) = 0 => \A k \in 1 .. Len(f) : ~Decides(f[k])
         /\ Decided(f) # 0 =>
              /\ Decides(f[Decided(f)])
              /\ \A k \in 1 .. Decided(f) - 1 : ~Decides(f[k])
<1> DEFINE I == {k \in 1 .. Len(f) : Decides(f[k])}
<1>1. Decided(f) = IF I # {} THEN Min(I) ELSE 0
  BY DEF Decided, SelectInSeq
<1>2. I # {} => Min(I) \in I /\ \A y \in I : Min(I) <= y
  <2>1. I \subseteq Nat
    OBVIOUS
  <2> HIDE DEF I
  <2> QED
    BY <2>1, LeastPlace
<1>3. CASE I = {}
  <2>1. Decided(f) = 0
    BY <1>1, <1>3
  <2> QED
    BY <1>3, <2>1
<1>4. CASE I # {}
  <2> DEFINE d == Decided(f)
  <2>1. d \in I /\ \A y \in I : d <= y
    BY <1>1, <1>2, <1>4
  <2> HIDE DEF d
  <2>2. d \in 1 .. Len(f) /\ Decides(f[d])
    BY <2>1
  <2>3. \A k \in 1 .. d - 1 : ~Decides(f[k])
    BY <2>1, <2>2
  <2> QED
    BY <2>2, <2>3 DEF d
<1> QED
  BY <1>3, <1>4

LEMMA DecidedIs ==
  ASSUME NEW f, Len(f) \in Nat, NEW d \in 1 .. Len(f), Decides(f[d]),
         \A k \in 1 .. d - 1 : ~Decides(f[k])
  PROVE  Decided(f) = d
<1>1. Decided(f) # 0
  BY DecidedFacts
<1>2. ~(Decided(f) < d)
  BY <1>1, DecidedFacts
<1>3. ~(d < Decided(f))
  BY <1>1, DecidedFacts
<1> QED
  BY <1>1, <1>2, <1>3, DecidedFacts

LEMMA NoneDecided ==
  ASSUME NEW f, Len(f) \in Nat, \A k \in 1 .. Len(f) : ~Decides(f[k])
  PROVE  Decided(f) = 0
BY DecidedFacts

\* What ends the loading of a file.
Ends(l, bad) == l.kind \in Problem \cup {bad}

LEMMA EndIs ==
  ASSUME NEW ls, Len(ls) \in Nat, NEW bad, NEW p \in 0 .. Len(ls),
         \A k \in 1 .. p : ~Ends(ls[k], bad),
         p # Len(ls) => Ends(ls[p + 1], bad)
  PROVE  EndOf(ls, bad) = p
<1> DEFINE I == {k \in 1 .. Len(ls) : ls[k].kind \in Problem \cup {bad}}
<1>1. EndOf(ls, bad) = IF I # {} THEN Min(I) - 1
                       ELSE IF 0 = 0 THEN Len(ls) ELSE 0 - 1
  <2>1. 0 \notin I
    OBVIOUS
  <2>2. I # {} => Min(I) \in I
    <3>1. I \subseteq Nat
      OBVIOUS
    <3> HIDE DEF I
    <3> QED
      BY <3>1, LeastPlace
  <2>3. SelectInSeq(ls, LAMBDA l : l.kind \in Problem \cup {bad})
          = IF I # {} THEN Min(I) ELSE 0
    BY DEF SelectInSeq
  <2> HIDE DEF I
  <2> QED
    BY <2>1, <2>2, <2>3 DEF EndOf
<1>2. CASE p = Len(ls)
  <2>1. I = {}
    BY <1>2 DEF Ends
  <2> QED
    BY <1>1, <1>2, <2>1
<1>3. CASE p # Len(ls)
  <2>1. p + 1 \in I /\ \A k \in I : p + 1 <= k
    BY <1>3 DEF Ends
  <2>2. Min(I) \in I /\ \A y \in I : Min(I) <= y
    <3>1. I \subseteq Nat /\ I # {}
      BY <2>1
    <3> HIDE DEF I
    <3> QED
      BY <3>1, LeastPlace
  <2>3. Min(I) = p + 1 /\ Min(I) \in Nat
    BY <2>1, <2>2
  <2> HIDE DEF I
  <2> QED
    BY <1>1, <2>1, <2>3
<1> QED
  BY <1>2, <1>3

LEMMA FormatFacts ==
  ASSUME NEW f, Len(f) \in Nat
  PROVE  /\ (\A k \in 1 .. Len(f) : f[k].kind \notin Format) => FormatAt(f) = 0
         /\ \A d \in 1 .. Len(f) :
              f[d].kind \in Format /\ (\A k \in 1 .. d - 1 : f[k].kind \notin Format)
                => FormatAt(f) = d
<1> DEFINE I == {k \in 1 .. Len(f) : f[k].kind \in Format}
<1>1. FormatAt(f) = IF I # {} THEN Min(I) ELSE 0
  BY DEF FormatAt, SelectInSeq
<1>2. I # {} => Min(I) \in I /\ \A y \in I : Min(I) <= y
  <2>1. I \subseteq Nat
    OBVIOUS
  <2> HIDE DEF I
  <2> QED
    BY <2>1, LeastPlace
<1>3. ASSUME NEW d \in 1 .. Len(f), f[d].kind \in Format,
             \A k \in 1 .. d - 1 : f[k].kind \notin Format
      PROVE  FormatAt(f) = d
  <2>1. d \in I /\ \A y \in I : d <= y
    BY <1>3
  <2>2. Min(I) \in I /\ Min(I) <= d /\ d <= Min(I)
    BY <1>2, <2>1
  <2>3. Min(I) = d
    BY <2>2
  <2> HIDE DEF I
  <2> QED
    BY <1>1, <2>1, <2>3
<1> QED
  BY <1>1, <1>3

\* The last load that brought nodes.
LastNodes(ls) == SelectLastInSeq(ls, BringsNodes)

LEMMA LastNodesFacts ==
  ASSUME NEW S, NEW ls \in Seq(S), NEW x \in S
  PROVE  /\ LastNodes(<<>>) = 0
         /\ LastNodes(ls) \in 0 .. Len(ls)
         /\ BringsNodes(x) => LastNodes(Append(ls, x)) = Len(ls) + 1
         /\ ~BringsNodes(x) => LastNodes(Append(ls, x)) = LastNodes(ls)
<1> DEFINE n == Len(ls)
           a == Append(ls, x)
           I == {k \in 1 .. n : BringsNodes(ls[k])}
           J == {k \in 1 .. n + 1 : BringsNodes(a[k])}
<1>1. /\ n \in Nat /\ Len(a) = n + 1 /\ a[n + 1] = x
      /\ \A k \in 1 .. n : a[k] = ls[k]
  OBVIOUS
<1>2. LastNodes(ls) = IF I # {} THEN Max(I) ELSE 0
  BY DEF LastNodes, SelectLastInSeq
<1>3. LastNodes(a) = IF J # {} THEN Max(J) ELSE 0
  <2> HIDE DEF a, n
  <2>1. LastNodes(a) = LET K == {k \in 1 .. Len(a) : BringsNodes(a[k])}
                       IN  IF K # {} THEN Max(K) ELSE 0
    BY DEF LastNodes, SelectLastInSeq
  <2> QED
    BY <1>1, <2>1
<1>4. LastNodes(<<>>) = 0
  <2>1. {k \in 1 .. Len(<<>>) : BringsNodes(<<>>[k])} = {}
    OBVIOUS
  <2> QED
    BY <2>1 DEF LastNodes, SelectLastInSeq
<1>5. LastNodes(ls) \in 0 .. n
  <2>1. I # {} => Max(I) \in I
    <3>1. I \subseteq 1 .. n
      OBVIOUS
    <3> HIDE DEF I
    <3> QED
      BY <1>1, <3>1, GreatestPlace
  <2> QED
    BY <1>1, <1>2, <2>1
<1> HIDE DEF n, a
<1>6. ASSUME BringsNodes(x)
      PROVE  LastNodes(a) = n + 1
  <2>1. n + 1 \in J /\ J \subseteq 1 .. n + 1
    BY <1>1, <1>6
  <2>2. Max(J) \in J /\ n + 1 <= Max(J)
    <3>1. n + 1 \in Nat /\ J # {}
      BY <1>1, <2>1
    <3> HIDE DEF J
    <3> QED
      BY <2>1, <3>1, GreatestPlace
  <2>3. Max(J) = n + 1
    <3> DEFINE m == Max(J)
    <3>1. m \in 1 .. n + 1 /\ n + 1 <= m /\ n \in Nat
      BY <1>1, <2>1, <2>2
    <3> HIDE DEF m
    <3>2. m = n + 1
      BY <3>1
    <3> QED
      BY <3>2 DEF m
  <2> HIDE DEF J
  <2> QED
    BY <1>3, <2>1, <2>3
<1>7. ASSUME ~BringsNodes(x)
      PROVE  LastNodes(a) = LastNodes(ls)
  <2>1. J = I
    BY <1>1, <1>7
  <2> HIDE DEF I, J
  <2> QED
    BY <1>2, <1>3, <2>1
<1> QED
  BY <1>4, <1>5, <1>6, <1>7 DEF n, a

-----------------------------------------------------------------------------
(* Types of the graph parser.                                              *)

AnyLine == Line(GraphKind \cup QueryKind)
ANode   == [id : Nat, xy : Nat]
AnArc   == [tail : Nat, head : Nat]
AQuery  == [source : Nat, target : Nat \cup {INF32}, p2p : BOOLEAN]

ALoad ==
  [op : {"graph"}, file : Seq(AnyLine)]
    \cup [op : {"queries"}, file : Seq(AnyLine)]
    \cup [op : {"printed"}, file : Seq(AnyLine), nodes : Seq(ANode), edges : Seq(AnArc)]

Modes == {"idle", "graph", "co", "gr", "format", "queries"}

DimacsTypes ==
  /\ nodes \in Seq(ANode) /\ edges \in Seq(AnArc) /\ queries \in Seq(AQuery)
  /\ lines \in Seq(AnyLine) /\ pos \in 1 .. Len(lines) + 1
  /\ mode \in Modes /\ retval \in BOOLEAN
  /\ format \in [p2p : BOOLEAN, id_offset : {0, 1}]
  /\ loads \in Seq(ALoad) /\ (mode # "idle" => loads # <<>>)

LEMMA LineKinds ==
  /\ Line(GraphKind) \subseteq AnyLine /\ Line(QueryKind) \subseteq AnyLine
  /\ \A l \in AnyLine : l.a \in Nat /\ l.b \in Nat /\ l.kind \in GraphKind \cup QueryKind
BY DEF AnyLine, Line

LEMMA FrontAndLast ==
  ASSUME NEW S, NEW s \in Seq(S)
  PROVE  /\ Front(s) \in Seq(S)
         /\ s # <<>> => Last(s) \in S /\ s = Append(Front(s), Last(s))
         /\ \A e \in S : Front(Append(s, e)) = s /\ Last(Append(s, e)) = e
<1>1. Front(s) \in Seq(S)
  <2>1. CASE s = <<>>
    <3>1. Front(s) = <<>>
      BY <2>1 DEF Front
    <3> QED
      BY <3>1
  <2>2. CASE s # <<>>
    BY <2>2 DEF Front
  <2> QED
    BY <2>1, <2>2
<1>2. ASSUME s # <<>>
      PROVE  Last(s) \in S /\ s = Append(Front(s), Last(s))
  BY <1>2 DEF Front, Last
<1>3. ASSUME NEW e \in S
      PROVE  Front(Append(s, e)) = s /\ Last(Append(s, e)) = e
  BY DEF Front, Last
<1> QED
  BY <1>1, <1>2, <1>3

LEMMA PrintedTypes ==
  ASSUME nodes \in Seq(ANode), edges \in Seq(AnArc)
  PROVE  Printed \in Seq(AnyLine)
<1> DEFINE n == Len(nodes)
           m == Len(edges)
           first == PrintedProblem("co", n, n)
           second == PrintedProblem("gr", n, m)
           ns == [d \in 1..n |-> PrintedNode(d)]
           es == [d \in 1..m |-> PrintedArc(d)]
<1>1. n \in Nat /\ m \in Nat
  OBVIOUS
<1>2. ns \in Seq(AnyLine)
  <2>1. ASSUME NEW d \in 1 .. n
        PROVE  PrintedNode(d) \in AnyLine
    <3>1. nodes[d] \in ANode
      OBVIOUS
    <3> QED
      BY <3>1 DEF ANode, AnyLine, Line, GraphKind, PrintedNode
  <2> HIDE DEF n
  <2> QED
    BY <1>1, <2>1, IsASeq
<1>3. es \in Seq(AnyLine)
  <2>1. ASSUME NEW d \in 1 .. m
        PROVE  PrintedArc(d) \in AnyLine
    <3>1. edges[d] \in AnArc
      OBVIOUS
    <3> QED
      BY <3>1 DEF AnArc, AnyLine, Line, GraphKind, PrintedArc
  <2> HIDE DEF m
  <2> QED
    BY <1>1, <2>1, IsASeq
<1>4. first \in AnyLine /\ second \in AnyLine
  BY <1>1 DEF AnyLine, Line, GraphKind, Problem, PrintedProblem
<1>5. Printed = (IF n > 0 THEN <<first>> \o ns ELSE <<>>) \o (IF m > 0 THEN <<second>> \o es ELSE <<>>)
  BY DEF Printed
<1> HIDE DEF n, m, first, second, ns, es
<1>6. <<first>> \o ns \in Seq(AnyLine) /\ <<second>> \o es \in Seq(AnyLine) /\ <<>> \in Seq(AnyLine)
  BY <1>2, <1>3, <1>4
<1> QED
  BY <1>5, <1>6

\* What a load takes of a file is the file or its first lines.
LEMMA PartsAreLines ==
  ASSUME NEW S, NEW f \in Seq(S)
  PROVE  Readable(f) \in Seq(S) /\ Whole(f) \in Seq(S)
<1> DEFINE I == {k \in 1 .. Len(f) : ~f[k].ended}
           d == FirstLost(f)
<1>1. d = IF I # {} THEN Min(I) ELSE 0
  BY DEF FirstLost, SelectInSeq
<1>2. I # {} => Min(I) \in I
  <2>1. I \subseteq Nat
    OBVIOUS
  <2> HIDE DEF I
  <2> QED
    BY <2>1, LeastPlace
<1>3. d # 0 => d \in 1 .. Len(f)
  BY <1>1, <1>2
<1> HIDE DEF d, I
<1>4. d # 0 => SubSeq(f, 1, d) \in Seq(S) /\ SubSeq(f, 1, d - 1) \in Seq(S)
  <2>1. Len(f) \in Nat
    OBVIOUS
  <2>2. ASSUME NEW e \in 0 .. Len(f)
        PROVE  SubSeq(f, 1, e) \in Seq(S)
    OBVIOUS
  <2>3. d # 0 => d \in 0 .. Len(f) /\ d - 1 \in 0 .. Len(f)
    BY <1>3, <2>1
  <2> QED
    BY <2>2, <2>3
<1> QED
  BY <1>4, Zenon DEF Readable, Whole, d

\* A file without such a line is taken as it is.
LEMMA AllIsTaken ==
  ASSUME NEW f, NEW n, Len(f) = n, \A k \in 1 .. n : f[k].ended
  PROVE  Readable(f) = f
<1>1. {k \in 1 .. Len(f) : ~f[k].ended} = {}
  OBVIOUS
<1>2. FirstLost(f) = 0
  BY <1>1 DEF FirstLost, SelectInSeq
<1> QED
  BY <1>2 DEF Readable

LEMMA FilesAreLines ==
  /\ \A f \in GraphFiles : f \in Seq(AnyLine) /\ Readable(f) \in Seq(AnyLine)
  /\ \A f \in QueryFiles : f \in Seq(AnyLine) /\ Whole(f) \in Seq(AnyLine)
<1>1. Seq(Line(GraphKind)) \subseteq Seq(AnyLine) /\ Seq(Line(QueryKind)) \subseteq Seq(AnyLine)
  BY LineKinds, SeqMonotonic
<1> QED
  BY <1>1, LinesAssumption, PartsAreLines

LEMMA DimacsTypesInit ==
  ASSUME Init
  PROVE  DimacsTypes
BY DEF Init, DimacsTypes, Modes

LEMMA OneMoreOf ==
  ASSUME NEW S, NEW s \in Seq(S), NEW e \in S
  PROVE  Append(s, e) \in Seq(S) /\ Append(s, e) # <<>>
<1>1. Append(s, e) \in Seq(S) /\ Len(Append(s, e)) = Len(s) + 1
  OBVIOUS
<1>2. Len(s) \in Nat /\ Len(<<>>) = 0
  OBVIOUS
<1>3. Append(s, e) # <<>>
  BY <1>1, <1>2
<1> QED
  BY <1>1, <1>3

\* The line at pos, and what a step that reads leaves alone.
LEMMA LineAtPos ==
  ASSUME DimacsTypes, ~AtEnd
  PROVE  /\ pos \in 1 .. Len(lines) /\ pos + 1 \in 1 .. Len(lines) + 1
         /\ lines[pos] \in AnyLine /\ lines[pos].a \in Nat /\ lines[pos].b \in Nat
<1>1. lines \in Seq(AnyLine) /\ pos \in 1 .. Len(lines) + 1
  BY DEF DimacsTypes
<1>2. pos \in 1 .. Len(lines)
  BY <1>1 DEF AtEnd
<1> QED
  BY <1>1, <1>2, LineKinds

ReadNodeOf(l)  == [id |-> l.a, xy |-> l.b]
ReadArcOf(l)   == [tail |-> l.a, head |-> l.b]
ReadQueryOf(l) ==
  [source |-> (l.a - format.id_offset) % Wrap, target |-> Target(l.b), p2p |-> format.p2p]
FormatOf(kind) ==
  [p2p |-> kind \in {"p2p", "p2p-zero"},
   id_offset |-> IF kind \in {"p2p-zero", "ss-zero"} THEN 0 ELSE 1]

\* One step of each loop that reads: it stops at its line or takes one more.
ProblemFound ==
  \/ AtEnd /\ pos' = pos /\ mode' = "idle" /\ UNCHANGED <<nodes, retval>>
  \/ /\ ~AtEnd /\ pos' = pos /\ mode' = "idle" /\ UNCHANGED nodes /\ retval' = FALSE
     /\ Decides(lines[pos])
     /\ lines[pos].kind \in {"gr", "co"} => lines[pos].a = 0 \/ lines[pos].b = 0
  \/ /\ ~AtEnd /\ pos' = pos + 1 /\ mode' = "graph" /\ UNCHANGED nodes
     /\ ~Decides(lines[pos]) /\ (retval' = retval \/ retval' = FALSE)
  \/ /\ ~AtEnd /\ pos' = pos + 1 /\ mode' = lines[pos].kind /\ UNCHANGED retval
     /\ lines[pos].kind \in {"gr", "co"} /\ lines[pos].a # 0 /\ lines[pos].b # 0
     /\ nodes' = IF lines[pos].kind = "co" THEN <<>> ELSE nodes

\* v is what the loop collects, bad the line that ends it, good what it takes.
LineRead(v, new, m, good, bad) ==
  \/ AtEnd /\ pos' = pos /\ mode' = "idle" /\ v' = v /\ retval' = TRUE
  \/ /\ ~AtEnd /\ pos' = pos /\ mode' = "idle" /\ v' = v /\ retval' = FALSE
     /\ Ends(lines[pos], bad)
  \/ /\ ~AtEnd /\ pos' = pos + 1 /\ mode' = m /\ UNCHANGED retval
     /\ ~Ends(lines[pos], bad)
     /\ v' = IF lines[pos].kind = good THEN Append(v, new) ELSE v

FormatFound ==
  \/ AtEnd /\ pos' = pos /\ mode' = "idle" /\ UNCHANGED format
  \/ /\ ~AtEnd /\ pos' = pos + 1 /\ mode' = "format" /\ lines[pos].kind \notin Format
     /\ UNCHANGED format
  \/ /\ ~AtEnd /\ pos' = pos + 1 /\ mode' = "queries" /\ lines[pos].kind \in Format
     /\ format' = FormatOf(lines[pos].kind)

QueryRead ==
  \/ AtEnd /\ pos' = pos /\ mode' = "idle" /\ UNCHANGED queries
  \/ /\ ~AtEnd /\ pos' = pos + 1 /\ mode' = "queries"
     /\ queries' = IF lines[pos].kind = "query" THEN Append(queries, ReadQueryOf(lines[pos]))
                                                ELSE queries

LEMMA FindProblemFacts ==
  ASSUME DimacsTypes, FindProblem
  PROVE  /\ mode = "graph" /\ ProblemFound
         /\ UNCHANGED <<edges, queries, lines, format, loads>>
<1>1. ASSUME ~AtEnd
      PROVE  lines[pos] \in AnyLine
  BY <1>1, LineAtPos
<1>2. mode = "graph" /\ UNCHANGED <<edges, queries, lines, format, loads>>
  BY DEF FindProblem, Return, Skip
<1>3. CASE AtEnd /\ Return(retval)
  BY <1>2, <1>3 DEF Return, ProblemFound
<1>4. CASE At(GraphKind \ Problem) /\ Skip
  BY <1>2, <1>4, <1>1 DEF At, Skip, ProblemFound, Decides
<1>5. CASE /\ At({"aux"})
           /\ retval' = FALSE /\ pos' = pos + 1
           /\ UNCHANGED <<nodes, edges, queries, lines, mode, format, loads>>
  BY <1>2, <1>5, <1>1 DEF At, ProblemFound, Decides
<1>6. CASE At({"unknown"}) /\ Return(FALSE)
  BY <1>2, <1>6, <1>1 DEF At, Return, ProblemFound, Decides, Problem
<1>7. CASE At({"gr", "co"}) /\ 0 \in {lines[pos].a, lines[pos].b} /\ Return(FALSE)
  BY <1>2, <1>7, <1>1 DEF At, Return, ProblemFound, Decides, Problem
<1>8. CASE /\ At({"gr", "co"}) /\ 0 \notin {lines[pos].a, lines[pos].b}
           /\ mode' = lines[pos].kind /\ pos' = pos + 1
           /\ nodes' = IF lines[pos].kind = "co" THEN <<>> ELSE nodes
           /\ UNCHANGED <<edges, queries, lines, retval, format, loads>>
  BY <1>2, <1>8, <1>1 DEF At, ProblemFound
<1> QED
  BY <1>2, <1>3, <1>4, <1>5, <1>6, <1>7, <1>8 DEF FindProblem

LEMMA ReadNodeFacts ==
  ASSUME DimacsTypes, ReadNode
  PROVE  /\ mode = "co" /\ LineRead(nodes, ReadNodeOf(lines[pos]), "co", "node", "bad node")
         /\ UNCHANGED <<edges, queries, lines, format, loads>>
<1>1. mode = "co" /\ UNCHANGED <<edges, queries, lines, format, loads>>
  BY DEF ReadNode, Return, Skip
<1>2. CASE AtEnd /\ Return(TRUE)
  BY <1>1, <1>2 DEF Return, LineRead
<1>3. CASE Stops("bad node") /\ Return(FALSE)
  BY <1>1, <1>3 DEF Stops, At, Return, LineRead, Ends
<1>4. CASE /\ At({"node"})
           /\ nodes' = Append(nodes, [id |-> lines[pos].a, xy |-> lines[pos].b])
           /\ pos' = pos + 1
           /\ UNCHANGED <<edges, queries, lines, mode, retval, format, loads>>
  BY <1>1, <1>4 DEF At, LineRead, Ends, Problem, ReadNodeOf
<1>5. CASE ~AtEnd /\ ~Stops("bad node") /\ ~At({"node"}) /\ Skip
  BY <1>1, <1>5 DEF Stops, At, Skip, LineRead, Ends
<1> QED
  BY <1>1, <1>2, <1>3, <1>4, <1>5 DEF ReadNode

LEMMA ReadArcFacts ==
  ASSUME DimacsTypes, ReadArc
  PROVE  /\ mode = "gr" /\ LineRead(edges, ReadArcOf(lines[pos]), "gr", "arc", "bad arc")
         /\ UNCHANGED <<nodes, queries, lines, format, loads>>
<1>1. mode = "gr" /\ UNCHANGED <<nodes, queries, lines, format, loads>>
  BY DEF ReadArc, Return, Skip
<1>2. CASE AtEnd /\ Return(TRUE)
  BY <1>1, <1>2 DEF Return, LineRead
<1>3. CASE Stops("bad arc") /\ Return(FALSE)
  BY <1>1, <1>3 DEF Stops, At, Return, LineRead, Ends
<1>4. CASE /\ At({"arc"})
           /\ edges' = Append(edges, [tail |-> lines[pos].a, head |-> lines[pos].b])
           /\ pos' = pos + 1
           /\ UNCHANGED <<nodes, queries, lines, mode, retval, format, loads>>
  BY <1>1, <1>4 DEF At, LineRead, Ends, Problem, ReadArcOf
<1>5. CASE ~AtEnd /\ ~Stops("bad arc") /\ ~At({"arc"}) /\ Skip
  BY <1>1, <1>5 DEF Stops, At, Skip, LineRead, Ends
<1> QED
  BY <1>1, <1>2, <1>3, <1>4, <1>5 DEF ReadArc

LEMMA FindFormatFacts ==
  ASSUME DimacsTypes, FindFormat
  PROVE  /\ mode = "format" /\ FormatFound /\ (retval' = retval \/ retval' = TRUE)
         /\ UNCHANGED <<nodes, edges, queries, lines, loads>>
<1>1. mode = "format" /\ UNCHANGED <<nodes, edges, queries, lines, loads>>
  BY DEF FindFormat, Return, Skip
<1>2. CASE AtEnd /\ Return(TRUE)
  BY <1>1, <1>2 DEF Return, FormatFound
<1>3. CASE At(QueryKind \ Format) /\ Skip
  BY <1>1, <1>3 DEF At, Skip, FormatFound
<1>4. CASE /\ At(Format)
           /\ format' = [p2p |-> lines[pos].kind \in {"p2p", "p2p-zero"},
                         id_offset |->
                           IF lines[pos].kind \in {"p2p-zero", "ss-zero"} THEN 0 ELSE 1]
           /\ mode' = "queries" /\ pos' = pos + 1
           /\ UNCHANGED <<nodes, edges, queries, lines, retval, loads>>
  BY <1>1, <1>4 DEF At, FormatFound, FormatOf
<1> QED
  BY <1>1, <1>2, <1>3, <1>4 DEF FindFormat

LEMMA ReadQueryFacts ==
  ASSUME DimacsTypes, ReadQuery
  PROVE  /\ mode = "queries" /\ QueryRead /\ (retval' = retval \/ retval' = TRUE)
         /\ UNCHANGED <<nodes, edges, lines, format, loads>>
<1>1. mode = "queries" /\ UNCHANGED <<nodes, edges, lines, format, loads>>
  BY DEF ReadQuery, Return, Skip
<1>2. CASE AtEnd /\ Return(TRUE)
  BY <1>1, <1>2 DEF Return, QueryRead
<1>3. CASE /\ At({"query"})
           /\ queries' = Append(queries,
                [source |-> (lines[pos].a - format.id_offset) % Wrap,
                 target |-> Target(lines[pos].b), p2p |-> format.p2p])
           /\ pos' = pos + 1
           /\ UNCHANGED <<nodes, edges, lines, mode, retval, format, loads>>
  BY <1>1, <1>3 DEF At, QueryRead, ReadQueryOf
<1>4. CASE ~AtEnd /\ ~At({"query", "bad query"}) /\ Skip
  BY <1>1, <1>4 DEF At, Skip, QueryRead
<1> QED
  BY <1>1, <1>2, <1>3, <1>4 DEF ReadQuery

\* A load begins.
Opens(ls, m, x) ==
  /\ mode = "idle" /\ lines' = ls /\ pos' = 1 /\ mode' = m /\ loads' = Append(loads, x)
  /\ UNCHANGED <<nodes, edges, queries>>

LEMMA LoadsOpen ==
  ASSUME DimacsTypes
  PROVE  /\ \A f \in GraphFiles : LoadGraph(f) =>
              /\ Opens(Readable(f), "graph", [op |-> "graph", file |-> f])
              /\ retval' \in BOOLEAN /\ UNCHANGED format
         /\ \A f \in QueryFiles : LoadInstance(f) =>
              /\ Opens(Whole(f), "format", [op |-> "queries", file |-> f])
              /\ UNCHANGED retval /\ format' = [p2p |-> TRUE, id_offset |-> 1]
         /\ Reload =>
              /\ Opens(Readable(Printed), "graph", [op |-> "printed", file |-> Printed,
                                          nodes |-> nodes, edges |-> edges])
              /\ retval' \in BOOLEAN /\ UNCHANGED format
         /\ LoadMissing =>
              /\ mode = "idle" /\ retval' = FALSE
              /\ UNCHANGED <<nodes, edges, queries, lines, pos, mode, format, loads>>
<1>1. ASSUME NEW f, LoadGraph(f)
      PROVE  /\ Opens(Readable(f), "graph", [op |-> "graph", file |-> f])
             /\ retval' \in BOOLEAN /\ UNCHANGED format
  BY <1>1 DEF LoadGraph, Open, Opens
<1>2. ASSUME NEW f, LoadInstance(f)
      PROVE  /\ Opens(Whole(f), "format", [op |-> "queries", file |-> f])
             /\ UNCHANGED retval /\ format' = [p2p |-> TRUE, id_offset |-> 1]
  BY <1>2 DEF LoadInstance, Open, Opens
<1>3. ASSUME Reload
      PROVE  /\ Opens(Readable(Printed), "graph", [op |-> "printed", file |-> Printed,
                                         nodes |-> nodes, edges |-> edges])
             /\ retval' \in BOOLEAN /\ UNCHANGED format
  BY <1>3 DEF Reload, Open, Opens
<1>4. LoadMissing =>
        /\ mode = "idle" /\ retval' = FALSE
        /\ UNCHANGED <<nodes, edges, queries, lines, pos, mode, format, loads>>
  BY DEF LoadMissing
<1> QED
  BY <1>1, <1>2, <1>3, <1>4

LEMMA OpenedTypes ==
  ASSUME DimacsTypes
  PROVE  /\ \A f \in GraphFiles :
              Readable(f) \in Seq(AnyLine) /\ [op |-> "graph", file |-> f] \in ALoad
         /\ \A f \in QueryFiles :
              Whole(f) \in Seq(AnyLine) /\ [op |-> "queries", file |-> f] \in ALoad
         /\ Printed \in Seq(AnyLine) /\ Readable(Printed) \in Seq(AnyLine)
         /\ [op |-> "printed", file |-> Printed, nodes |-> nodes, edges |-> edges] \in ALoad
<1>1. Printed \in Seq(AnyLine) /\ nodes \in Seq(ANode) /\ edges \in Seq(AnArc)
  BY PrintedTypes DEF DimacsTypes
<1>2. Readable(Printed) \in Seq(AnyLine)
  BY <1>1, PartsAreLines
<1> QED
  BY <1>1, <1>2, FilesAreLines DEF ALoad

LEMMA TypesOfOpened ==
  ASSUME DimacsTypes, NEW ls \in Seq(AnyLine), NEW m \in Modes, NEW x \in ALoad,
         Opens(ls, m, x), retval' \in BOOLEAN, format' \in [p2p : BOOLEAN, id_offset : {0, 1}]
  PROVE  DimacsTypes'
<1>1. loads' \in Seq(ALoad) /\ loads' # <<>>
  BY OneMoreOf DEF DimacsTypes, Opens
<1>2. lines' \in Seq(AnyLine) /\ pos' \in 1 .. Len(lines') + 1
  BY DEF Opens
<1>3. nodes' \in Seq(ANode) /\ edges' \in Seq(AnArc) /\ queries' \in Seq(AQuery) /\ mode' \in Modes
  BY DEF DimacsTypes, Opens
<1> QED
  BY <1>1, <1>2, <1>3 DEF DimacsTypes

LEMMA DimacsTypesStep ==
  ASSUME DimacsTypes, [Next]_vars
  PROVE  DimacsTypes'
<1>1. CASE UNCHANGED vars
  <2>1. UNCHANGED <<nodes, edges, queries, lines, pos, mode, retval, format, loads>>
    BY <1>1 DEF vars, loading
  <2> QED
    BY <2>1 DEF DimacsTypes
<1>2. ASSUME NEW f \in GraphFiles, LoadGraph(f)
      PROVE  DimacsTypes'
  <2>1. /\ Opens(Readable(f), "graph", [op |-> "graph", file |-> f])
        /\ retval' \in BOOLEAN /\ UNCHANGED format
    BY <1>2, LoadsOpen
  <2>2. Readable(f) \in Seq(AnyLine) /\ [op |-> "graph", file |-> f] \in ALoad /\ "graph" \in Modes
    BY OpenedTypes DEF Modes
  <2>3. format' \in [p2p : BOOLEAN, id_offset : {0, 1}]
    BY <2>1 DEF DimacsTypes
  <2> QED
    BY <2>1, <2>2, <2>3, TypesOfOpened
<1>3. ASSUME NEW f \in QueryFiles, LoadInstance(f)
      PROVE  DimacsTypes'
  <2>1. /\ Opens(Whole(f), "format", [op |-> "queries", file |-> f])
        /\ UNCHANGED retval /\ format' = [p2p |-> TRUE, id_offset |-> 1]
    BY <1>3, LoadsOpen
  <2>2. Whole(f) \in Seq(AnyLine) /\ [op |-> "queries", file |-> f] \in ALoad /\ "format" \in Modes
    BY OpenedTypes DEF Modes
  <2>3. retval' \in BOOLEAN /\ format' \in [p2p : BOOLEAN, id_offset : {0, 1}]
    BY <2>1 DEF DimacsTypes
  <2> QED
    BY <2>1, <2>2, <2>3, TypesOfOpened
<1>4. CASE Reload
  <2> DEFINE x == [op |-> "printed", file |-> Printed, nodes |-> nodes, edges |-> edges]
  <2>1. Opens(Readable(Printed), "graph", x) /\ retval' \in BOOLEAN /\ UNCHANGED format
    BY <1>4, LoadsOpen
  <2>2. Readable(Printed) \in Seq(AnyLine) /\ x \in ALoad /\ "graph" \in Modes
    BY OpenedTypes DEF Modes
  <2>3. format' \in [p2p : BOOLEAN, id_offset : {0, 1}]
    BY <2>1 DEF DimacsTypes
  <2> HIDE DEF x
  <2> QED
    BY <2>1, <2>2, <2>3, TypesOfOpened
<1>5. CASE FindProblem
  <2>1. /\ mode = "graph" /\ ProblemFound
        /\ UNCHANGED <<edges, queries, lines, format, loads>>
    BY <1>5, FindProblemFacts
  <2>2. /\ nodes' = nodes \/ nodes' = <<>>
        /\ retval' \in BOOLEAN /\ mode' \in Modes
        /\ pos' = pos \/ (~AtEnd /\ pos' = pos + 1)
    BY <2>1 DEF ProblemFound, DimacsTypes, Modes
  <2>3. pos' \in 1 .. Len(lines) + 1
    BY <2>2, LineAtPos DEF DimacsTypes
  <2>4. nodes' \in Seq(ANode)
    <3>1. nodes \in Seq(ANode) /\ <<>> \in Seq(ANode)
      BY DEF DimacsTypes
    <3> QED
      BY <2>2, <3>1
  <2> QED
    BY <2>1, <2>2, <2>3, <2>4 DEF DimacsTypes
<1>6. CASE ReadNode
  <2> DEFINE new == ReadNodeOf(lines[pos])
  <2>1. /\ mode = "co" /\ LineRead(nodes, new, "co", "node", "bad node")
        /\ UNCHANGED <<edges, queries, lines, format, loads>>
    BY <1>6, ReadNodeFacts
  <2>2. /\ retval' \in BOOLEAN /\ mode' \in Modes
        /\ pos' = pos \/ (~AtEnd /\ pos' = pos + 1)
    BY <2>1 DEF LineRead, DimacsTypes, Modes
  <2>3. pos' \in 1 .. Len(lines) + 1
    BY <2>2, LineAtPos DEF DimacsTypes
  <2>4. ~AtEnd => new \in ANode
    BY LineAtPos DEF ANode, ReadNodeOf
  <2>5. nodes' = nodes \/ (~AtEnd /\ nodes' = Append(nodes, new))
    BY <2>1 DEF LineRead
  <2>6. nodes' \in Seq(ANode)
    <3>1. nodes \in Seq(ANode)
      BY DEF DimacsTypes
    <3> HIDE DEF new
    <3> QED
      BY <3>1, <2>4, <2>5, OneMoreOf
  <2> QED
    BY <2>1, <2>2, <2>3, <2>6 DEF DimacsTypes
<1>7. CASE ReadArc
  <2> DEFINE new == ReadArcOf(lines[pos])
  <2>1. /\ mode = "gr" /\ LineRead(edges, new, "gr", "arc", "bad arc")
        /\ UNCHANGED <<nodes, queries, lines, format, loads>>
    BY <1>7, ReadArcFacts
  <2>2. /\ retval' \in BOOLEAN /\ mode' \in Modes
        /\ pos' = pos \/ (~AtEnd /\ pos' = pos + 1)
    BY <2>1 DEF LineRead, DimacsTypes, Modes
  <2>3. pos' \in 1 .. Len(lines) + 1
    BY <2>2, LineAtPos DEF DimacsTypes
  <2>4. ~AtEnd => new \in AnArc
    BY LineAtPos DEF AnArc, ReadArcOf
  <2>5. edges' = edges \/ (~AtEnd /\ edges' = Append(edges, new))
    BY <2>1 DEF LineRead
  <2>6. edges' \in Seq(AnArc)
    <3>1. edges \in Seq(AnArc)
      BY DEF DimacsTypes
    <3> HIDE DEF new
    <3> QED
      BY <3>1, <2>4, <2>5, OneMoreOf
  <2> QED
    BY <2>1, <2>2, <2>3, <2>6 DEF DimacsTypes
<1>8. CASE FindFormat
  <2>1. /\ mode = "format" /\ FormatFound /\ (retval' = retval \/ retval' = TRUE)
        /\ UNCHANGED <<nodes, edges, queries, lines, loads>>
    BY <1>8, FindFormatFacts
  <2>2. /\ retval' \in BOOLEAN /\ mode' \in Modes
        /\ pos' = pos \/ (~AtEnd /\ pos' = pos + 1)
    BY <2>1 DEF FormatFound, DimacsTypes, Modes
  <2>3. pos' \in 1 .. Len(lines) + 1
    BY <2>2, LineAtPos DEF DimacsTypes
  <2>4. format' \in [p2p : BOOLEAN, id_offset : {0, 1}]
    <3>1. FormatOf(lines[pos].kind) \in [p2p : BOOLEAN, id_offset : {0, 1}]
      BY DEF FormatOf
    <3>2. format' = format \/ format' = FormatOf(lines[pos].kind)
      BY <2>1 DEF FormatFound
    <3> QED
      BY <3>1, <3>2 DEF DimacsTypes
  <2> QED
    BY <2>1, <2>2, <2>3, <2>4 DEF DimacsTypes
<1>9. CASE ReadQuery
  <2> DEFINE new == ReadQueryOf(lines[pos])
  <2>1. /\ mode = "queries" /\ QueryRead /\ (retval' = retval \/ retval' = TRUE)
        /\ UNCHANGED <<nodes, edges, lines, format, loads>>
    BY <1>9, ReadQueryFacts
  <2>2. /\ retval' \in BOOLEAN /\ mode' \in Modes
        /\ pos' = pos \/ (~AtEnd /\ pos' = pos + 1)
    BY <2>1 DEF QueryRead, DimacsTypes, Modes
  <2>3. pos' \in 1 .. Len(lines) + 1
    BY <2>2, LineAtPos DEF DimacsTypes
  <2>4. ASSUME ~AtEnd
        PROVE  new \in AQuery
    <3>1. lines[pos].a \in Nat /\ lines[pos].b \in Nat
      BY <2>4, LineAtPos
    <3>2. format.p2p \in BOOLEAN /\ format.id_offset \in {0, 1}
      BY DEF DimacsTypes
    <3>3. \A n \in Nat, o \in {0, 1} : (n - o) % Wrap \in Nat
      BY LinesAssumption
    <3>4. Target(lines[pos].b) \in Nat \cup {INF32}
      BY <3>1, <3>2, <3>3 DEF Target
    <3> QED
      BY <3>1, <3>2, <3>3, <3>4 DEF AQuery, ReadQueryOf
  <2>5. queries' = queries \/ (~AtEnd /\ queries' = Append(queries, new))
    BY <2>1 DEF QueryRead
  <2>6. queries' \in Seq(AQuery)
    <3>1. queries \in Seq(AQuery)
      BY DEF DimacsTypes
    <3> HIDE DEF new
    <3> QED
      BY <3>1, <2>4, <2>5, OneMoreOf
  <2> QED
    BY <2>1, <2>2, <2>3, <2>6 DEF DimacsTypes
<1>10. CASE LoadMissing
  BY <1>10, LoadsOpen DEF DimacsTypes
<1> QED
  BY <1>1, <1>2, <1>3, <1>4, <1>5, <1>6, <1>7, <1>8, <1>9, <1>10 DEF Next, Read

-----------------------------------------------------------------------------
(* What loads bring, one more load or one more line at a time.             *)

Brought(ls) == FlattenSeq([k \in DOMAIN ls |-> ArcsIn(ls[k])])

NodesAfter(ls) ==
  LET co == LastNodes(ls)
  IN  IF co = 0 THEN <<>> ELSE AsNodes(NodesOf(Taken(ls[co])))

AskedBy(ls) == FlattenSeq([k \in DOMAIN ls |-> QueriesIn(ls[k])])

\* The lines of some kinds that were read after line i.
SoFar(f, d, p, kinds) == Chosen(SubSeq(f, d + 1, p - 1), kinds)

LEMMA NoneSoFar ==
  ASSUME NEW S, NEW f \in Seq(S), NEW d \in 0 .. Len(f), NEW kinds
  PROVE  SoFar(f, d, d + 1, kinds) = <<>>
<1>1. SubSeq(f, d + 1, (d + 1) - 1) = <<>>
  OBVIOUS
<1> QED
  BY <1>1, ChosenOfNone DEF SoFar

LEMMA OneMoreSoFar ==
  ASSUME NEW S, NEW f \in Seq(S), NEW d \in 0 .. Len(f), NEW p \in d + 1 .. Len(f), NEW kinds
  PROVE  /\ SoFar(f, d, p, kinds) \in Seq(S)
         /\ SoFar(f, d, p + 1, kinds)
              = IF f[p].kind \in kinds THEN Append(SoFar(f, d, p, kinds), f[p])
                ELSE SoFar(f, d, p, kinds)
<1> DEFINE s == SubSeq(f, d + 1, p - 1)
           l == f[p]
<1>1. /\ s \in Seq(S) /\ l \in S
      /\ SubSeq(f, d + 1, (p + 1) - 1) = Append(s, l)
  OBVIOUS
<1> HIDE DEF s, l
<1>2. Chosen(Append(s, l), kinds)
        = IF l.kind \in kinds THEN Append(Chosen(s, kinds), l) ELSE Chosen(s, kinds)
  BY <1>1, ChosenAppend
<1>3. Chosen(s, kinds) \in Seq(S)
  BY <1>1, ChosenTypes
<1> QED
  BY <1>1, <1>2, <1>3, Zenon DEF s, l, SoFar

LEMMA ContentTypes ==
  ASSUME NEW S, NEW f \in Seq(S), NEW kind, NEW good, NEW bad
  PROVE  Content(f, kind, good, bad) \in Seq(S)
<1>1. CASE IsOf(f, kind)
  <2> DEFINE r == Rest(f)
             e == EndOf(r, bad)
  <2>1. Decided(f) \in 0 .. Len(f)
    BY DecidedFacts
  <2>2. r \in Seq(S)
    BY <2>1 DEF Rest
  <2>3. e \in 0 .. Len(r)
    <3> DEFINE I == {k \in 1 .. Len(r) : r[k].kind \in Problem \cup {bad}}
    <3>1. SelectInSeq(r, LAMBDA l : l.kind \in Problem \cup {bad}) = IF I # {} THEN Min(I) ELSE 0
      BY DEF SelectInSeq
    <3>2. I # {} => Min(I) \in 1 .. Len(r)
      <4>1. I \subseteq Nat /\ I \subseteq 1 .. Len(r)
        OBVIOUS
      <4> HIDE DEF I
      <4> QED
        BY <4>1, LeastPlace
    <3>3. Len(r) \in Nat
      BY <2>2
    <3> HIDE DEF I, r
    <3> QED
      BY <3>1, <3>2, <3>3 DEF EndOf
  <2> HIDE DEF r, e
  <2>4. SubSeq(r, 1, e) \in Seq(S)
    BY <2>2, <2>3
  <2>5. Chosen(SubSeq(r, 1, e), {good}) \in Seq(S)
    BY <2>4, ChosenTypes
  <2> QED
    BY <1>1, <2>5 DEF Content, r, e
<1>2. CASE ~IsOf(f, kind)
  BY <1>2 DEF Content
<1> QED
  BY <1>1, <1>2

LEMMA PartOfPart ==
  ASSUME NEW S, NEW s \in Seq(S), NEW d \in 0 .. Len(s), NEW e \in 0 .. Len(s) - d
  PROVE  SubSeq(SubSeq(s, d + 1, Len(s)), 1, e) = SubSeq(s, d + 1, d + e)
<1> DEFINE r == SubSeq(s, d + 1, Len(s))
           t == SubSeq(r, 1, e)
           u == SubSeq(s, d + 1, d + e)
<1>1. /\ Len(s) \in Nat /\ r \in Seq(S) /\ Len(r) = Len(s) - d
      /\ \A k \in 1 .. Len(s) - d : r[k] = s[d + k]
  OBVIOUS
<1>2. u \in Seq(S) /\ Len(u) = e /\ \A k \in 1 .. e : u[k] = s[d + k]
  BY <1>1
<1> HIDE DEF r, u
<1>3. t \in Seq(S) /\ Len(t) = e /\ \A k \in 1 .. e : t[k] = r[k]
  BY <1>1
<1> HIDE DEF t
<1>4. Len(t) = Len(u) /\ \A k \in 1 .. Len(t) : t[k] = u[k]
  <2>1. ASSUME NEW k \in 1 .. e
        PROVE  t[k] = u[k]
    <3>1. k \in 1 .. Len(s) - d
      BY <1>1
    <3> QED
      BY <1>1, <1>2, <1>3, <3>1, Zenon
  <2> QED
    BY <1>2, <1>3, <2>1, Zenon
<1>5. t = u
  BY <1>2, <1>3, <1>4, SeqEqual
<1> QED
  BY <1>5 DEF r, t, u

\* The loop that takes lines stops where the content of the file ends.
LEMMA ContentIs ==
  ASSUME NEW S, NEW f \in Seq(S), NEW kind, NEW good, NEW bad, IsOf(f, kind),
         NEW p \in Decided(f) + 1 .. Len(f) + 1,
         \A k \in Decided(f) + 1 .. p - 1 : ~Ends(f[k], bad),
         p # Len(f) + 1 => Ends(f[p], bad)
  PROVE  Content(f, kind, good, bad) = SoFar(f, Decided(f), p, {good})
<1> DEFINE d == Decided(f)
           r == Rest(f)
           e == p - 1 - d
<1>1. d \in 0 .. Len(f) /\ Len(f) \in Nat /\ p \in d + 1 .. Len(f) + 1
  BY DecidedFacts
<1>2. r = SubSeq(f, d + 1, Len(f))
  BY DEF Rest
<1>3. \A k \in d + 1 .. p - 1 : ~Ends(f[k], bad)
  OBVIOUS
<1> HIDE DEF d, r
<1>4. /\ Len(r) = Len(f) - d /\ e \in 0 .. Len(r)
      /\ \A k \in 1 .. Len(r) : r[k] = f[d + k]
      /\ SubSeq(r, 1, e) = SubSeq(f, d + 1, p - 1)
  <2>1. /\ Len(r) = Len(f) - d /\ e \in 0 .. Len(r)
        /\ \A k \in 1 .. Len(r) : r[k] = f[d + k]
    BY <1>1, <1>2
  <2>2. SubSeq(r, 1, e) = SubSeq(f, d + 1, d + e)
    BY <1>1, <1>2, <2>1, PartOfPart
  <2>3. d + e = p - 1
    BY <1>1
  <2> QED
    BY <2>1, <2>2, <2>3
<1>5. ASSUME NEW k \in 1 .. e
      PROVE  ~Ends(r[k], bad)
  <2>1. d + k \in d + 1 .. p - 1 /\ r[k] = f[d + k]
    BY <1>1, <1>4
  <2> QED
    BY <1>3, <2>1
<1>6. e # Len(r) => Ends(r[e + 1], bad)
  <2>1. e # Len(r) => p # Len(f) + 1 /\ e + 1 \in 1 .. Len(r) /\ d + (e + 1) = p
    BY <1>1, <1>4
  <2> QED
    BY <1>4, <2>1
<1>7. Len(r) \in Nat
  BY <1>1, <1>4
<1> HIDE DEF e
<1>8. EndOf(r, bad) = e
  BY <1>4, <1>5, <1>6, <1>7, EndIs
<1> QED
  BY <1>4, <1>8 DEF Content, SoFar, d, r

LEMMA AppendIs ==
  ASSUME NEW S, NEW s \in Seq(S), NEW e \in S
  PROVE  Append(s, e) = [k \in 1 .. Len(s) + 1 |-> IF k = Len(s) + 1 THEN e ELSE s[k]]
<1> DEFINE a == Append(s, e)
<1>1. /\ a \in Seq(S) /\ DOMAIN a = 1 .. Len(s) + 1
      /\ \A k \in 1 .. Len(s) + 1 : a[k] = IF k = Len(s) + 1 THEN e ELSE s[k]
  OBVIOUS
<1> HIDE DEF a
<1>2. a \in [1 .. Len(a) -> S]
  BY <1>1
<1>3. a = [k \in DOMAIN a |-> a[k]]
  BY <1>2
<1> QED
  BY <1>1, <1>3 DEF a

LEMMA AsArcsAppend ==
  ASSUME NEW s \in Seq(AnyLine), NEW l \in AnyLine
  PROVE  AsArcs(Append(s, l)) = Append(AsArcs(s), ReadArcOf(l))
<1> DEFINE n == Len(s)
           a == Append(s, l)
<1>1. /\ n \in Nat /\ DOMAIN s = 1 .. n /\ DOMAIN a = 1 .. n + 1 /\ a[n + 1] = l
      /\ \A k \in 1 .. n : a[k] = s[k]
  OBVIOUS
<1>2. AsArcs(s) \in Seq(AnArc) /\ Len(AsArcs(s)) = n
  <2>1. \A k \in 1 .. n : [tail |-> s[k].a, head |-> s[k].b] \in AnArc
    BY LineKinds DEF AnArc
  <2> HIDE DEF n
  <2>2. AsArcs(s) = [k \in 1 .. n |-> [tail |-> s[k].a, head |-> s[k].b]]
    BY <1>1 DEF AsArcs
  <2>3. AsArcs(s) \in Seq(AnArc)
    BY <1>1, <2>1, <2>2, IsASeq
  <2> QED
    BY <1>1, <2>2, <2>3
<1> HIDE DEF n, a
<1>3. Append(AsArcs(s), ReadArcOf(l))
        = [k \in 1 .. n + 1 |-> IF k = n + 1 THEN ReadArcOf(l) ELSE AsArcs(s)[k]]
  <2> DEFINE c == AsArcs(s)
             e == ReadArcOf(l)
  <2>1. c \in Seq(AnArc) /\ Len(c) = n /\ e \in AnArc
    BY <1>2, LineKinds DEF AnArc, ReadArcOf
  <2> HIDE DEF c, e
  <2>2. Append(c, e) = [k \in 1 .. Len(c) + 1 |-> IF k = Len(c) + 1 THEN e ELSE c[k]]
    BY <2>1, AppendIs
  <2> QED
    BY <2>1, <2>2 DEF c, e
<1>4. \A k \in 1 .. n + 1 : ReadArcOf(a[k]) = IF k = n + 1 THEN ReadArcOf(l) ELSE AsArcs(s)[k]
  BY <1>1 DEF AsArcs, ReadArcOf
<1>5. AsArcs(a) = [k \in 1 .. n + 1 |-> ReadArcOf(a[k])]
  BY <1>1 DEF AsArcs, ReadArcOf
<1> QED
  BY <1>3, <1>4, <1>5 DEF a

LEMMA AsNodesAppend ==
  ASSUME NEW s \in Seq(AnyLine), NEW l \in AnyLine
  PROVE  AsNodes(Append(s, l)) = Append(AsNodes(s), ReadNodeOf(l))
<1> DEFINE n == Len(s)
           a == Append(s, l)
<1>1. /\ n \in Nat /\ DOMAIN s = 1 .. n /\ DOMAIN a = 1 .. n + 1 /\ a[n + 1] = l
      /\ \A k \in 1 .. n : a[k] = s[k]
  OBVIOUS
<1>2. AsNodes(s) \in Seq(ANode) /\ Len(AsNodes(s)) = n
  <2>1. \A k \in 1 .. n : [id |-> s[k].a, xy |-> s[k].b] \in ANode
    BY LineKinds DEF ANode
  <2> HIDE DEF n
  <2>2. AsNodes(s) = [k \in 1 .. n |-> [id |-> s[k].a, xy |-> s[k].b]]
    BY <1>1 DEF AsNodes
  <2>3. AsNodes(s) \in Seq(ANode)
    BY <1>1, <2>1, <2>2, IsASeq
  <2> QED
    BY <1>1, <2>2, <2>3
<1> HIDE DEF n, a
<1>3. Append(AsNodes(s), ReadNodeOf(l))
        = [k \in 1 .. n + 1 |-> IF k = n + 1 THEN ReadNodeOf(l) ELSE AsNodes(s)[k]]
  <2> DEFINE c == AsNodes(s)
             e == ReadNodeOf(l)
  <2>1. c \in Seq(ANode) /\ Len(c) = n /\ e \in ANode
    BY <1>2, LineKinds DEF ANode, ReadNodeOf
  <2> HIDE DEF c, e
  <2>2. Append(c, e) = [k \in 1 .. Len(c) + 1 |-> IF k = Len(c) + 1 THEN e ELSE c[k]]
    BY <2>1, AppendIs
  <2> QED
    BY <2>1, <2>2 DEF c, e
<1>4. \A k \in 1 .. n + 1 : ReadNodeOf(a[k]) = IF k = n + 1 THEN ReadNodeOf(l) ELSE AsNodes(s)[k]
  BY <1>1 DEF AsNodes, ReadNodeOf
<1>5. AsNodes(a) = [k \in 1 .. n + 1 |-> ReadNodeOf(a[k])]
  BY <1>1 DEF AsNodes, ReadNodeOf
<1> QED
  BY <1>3, <1>4, <1>5 DEF a

LEMMA LoadFacts ==
  ASSUME NEW x \in ALoad
  PROVE  Taken(x) \in Seq(AnyLine) /\ ArcsIn(x) \in Seq(AnyLine)
<1>1. x.file \in Seq(AnyLine)
  BY DEF ALoad
<1>2. Taken(x) \in Seq(AnyLine)
  BY <1>1, PartsAreLines DEF Taken
<1>3. ArcsIn(x) \in Seq(AnyLine)
  <2>1. ArcsOf(Taken(x)) \in Seq(AnyLine)
    BY <1>2, ContentTypes DEF ArcsOf
  <2> QED
    BY <2>1 DEF ArcsIn
<1> QED
  BY <1>2, <1>3

LEMMA BroughtAppend ==
  ASSUME NEW ls \in Seq(ALoad), NEW x \in ALoad
  PROVE  /\ Brought(ls) \in Seq(AnyLine)
         /\ Brought(Append(ls, x)) = Brought(ls) \o ArcsIn(x)
<1> DEFINE n == Len(ls)
           a == Append(ls, x)
           p == [k \in DOMAIN ls |-> ArcsIn(ls[k])]
           q == [k \in DOMAIN a |-> ArcsIn(a[k])]
<1>1. /\ n \in Nat /\ DOMAIN ls = 1 .. n /\ DOMAIN a = 1 .. n + 1 /\ a[n + 1] = x
      /\ \A k \in 1 .. n : a[k] = ls[k] /\ ls[k] \in ALoad
  OBVIOUS
<1> HIDE DEF n, a
<1>2. \A k \in 1 .. n : ArcsIn(ls[k]) \in Seq(AnyLine)
  BY <1>1, LoadFacts
<1>3. p \in Seq(Seq(AnyLine)) /\ Len(p) = n
  <2>1. p = [k \in 1 .. n |-> ArcsIn(ls[k])]
    BY <1>1
  <2>2. p \in Seq(Seq(AnyLine))
    BY <1>1, <1>2, <2>1, IsASeq
  <2> QED
    BY <1>1, <2>1, <2>2
<1>4. ArcsIn(x) \in Seq(AnyLine)
  BY LoadFacts
<1>5. q = Append(p, ArcsIn(x))
  <2>1. Append(p, ArcsIn(x)) = [k \in 1 .. n + 1 |-> IF k = n + 1 THEN ArcsIn(x) ELSE p[k]]
    BY <1>3, <1>4
  <2>2. \A k \in 1 .. n + 1 : ArcsIn(a[k]) = IF k = n + 1 THEN ArcsIn(x) ELSE p[k]
    BY <1>1
  <2> QED
    BY <1>1, <2>1, <2>2
<1>6. Brought(ls) = FlattenSeq(p) /\ Brought(a) = FlattenSeq(q)
  BY Zenon DEF Brought
<1> HIDE DEF p, q
<1> QED
  BY <1>3, <1>4, <1>5, <1>6, FlattenTypes, FlattenAppend DEF a

LEMMA NoneBrought ==
  Brought(<<>>) = <<>> /\ NodesAfter(<<>>) = <<>> /\ AskedBy(<<>>) = <<>>
<1>1. [k \in DOMAIN <<>> |-> ArcsIn(<<>>[k])] = <<>>
  OBVIOUS
<1>2. [k \in DOMAIN <<>> |-> QueriesIn(<<>>[k])] = <<>>
  OBVIOUS
<1>3. LastNodes(<<>>) = 0
  <2>1. <<>> \in Seq({0}) /\ 0 \in {0}
    OBVIOUS
  <2> QED
    BY <2>1, LastNodesFacts
<1> QED
  BY <1>1, <1>2, <1>3, FlattenOfNone DEF Brought, AskedBy, NodesAfter

LEMMA NodesAfterAppend ==
  ASSUME NEW ls \in Seq(ALoad), NEW x \in ALoad
  PROVE  NodesAfter(Append(ls, x))
           = IF BringsNodes(x) THEN AsNodes(NodesOf(Taken(x))) ELSE NodesAfter(ls)
<1> DEFINE n == Len(ls)
           a == Append(ls, x)
<1>1. n \in Nat /\ a[n + 1] = x /\ \A k \in 1 .. n : a[k] = ls[k]
  OBVIOUS
<1>2. /\ LastNodes(ls) \in 0 .. n
      /\ BringsNodes(x) => LastNodes(a) = n + 1
      /\ ~BringsNodes(x) => LastNodes(a) = LastNodes(ls)
  BY LastNodesFacts
<1> HIDE DEF n, a
<1>3. CASE BringsNodes(x)
  <2>1. LastNodes(a) = n + 1 /\ n + 1 # 0
    BY <1>1, <1>2, <1>3
  <2>2. NodesAfter(a) = AsNodes(NodesOf(Taken(x)))
    BY <1>1, <2>1 DEF NodesAfter
  <2> QED
    BY <1>3, <2>2 DEF a
<1>4. CASE ~BringsNodes(x)
  <2>1. NodesAfter(a) = NodesAfter(ls)
    BY <1>1, <1>2, <1>4 DEF NodesAfter
  <2> QED
    BY <1>4, <2>1 DEF a
<1> QED
  BY <1>3, <1>4

-----------------------------------------------------------------------------
(* The graph, while a file is read and between loads.                      *)

\* The load that is under way, or was last, and those before it.
This == Last(loads)
Earlier == Front(loads)

\* The loop that reads what a file holds has met nothing that ends it.
Within(kind, bad) ==
  /\ IsOf(lines, kind) /\ pos \in Decided(lines) + 1 .. Len(lines) + 1
  /\ \A k \in Decided(lines) + 1 .. pos - 1 : ~Ends(lines[k], bad)

GraphIsRead ==
  /\ mode = "idle" => edges = AsArcs(Brought(loads)) /\ nodes = NodesAfter(loads)
  /\ mode \notin {"idle", "gr"} => edges = AsArcs(Brought(Earlier))
  /\ mode \notin {"idle", "co"} => nodes = NodesAfter(Earlier)
  /\ mode \in {"graph", "co", "gr"} => This.op # "queries" /\ lines = Taken(This)
  /\ mode \in {"format", "queries"} => This.op = "queries" /\ lines = Taken(This)
  /\ mode = "graph" => \A k \in 1 .. pos - 1 : ~Decides(lines[k])
  /\ mode = "co" =>
       /\ Within("co", "bad node")
       /\ nodes = AsNodes(SoFar(lines, Decided(lines), pos, {"node"}))
  /\ mode = "gr" =>
       /\ Within("gr", "bad arc")
       /\ edges = AsArcs(Brought(Earlier) \o SoFar(lines, Decided(lines), pos, {"arc"}))

LEMMA ThisLoad ==
  ASSUME DimacsTypes, loads # <<>>
  PROVE  /\ Earlier \in Seq(ALoad) /\ This \in ALoad
         /\ Brought(Earlier) \in Seq(AnyLine)
         /\ Brought(loads) = Brought(Earlier) \o ArcsIn(This)
         /\ NodesAfter(loads)
              = IF BringsNodes(This) THEN AsNodes(NodesOf(Taken(This))) ELSE NodesAfter(Earlier)
<1>1. Earlier \in Seq(ALoad) /\ This \in ALoad /\ loads = Append(Earlier, This)
  BY FrontAndLast DEF DimacsTypes, Earlier, This
<1> QED
  BY <1>1, BroughtAppend, NodesAfterAppend

\* A load that brings nothing leaves the graph as it was.
LEMMA BringsNothing ==
  ASSUME DimacsTypes, loads # <<>>, ArcsIn(This) = <<>>, ~BringsNodes(This)
  PROVE  Brought(loads) = Brought(Earlier) /\ NodesAfter(loads) = NodesAfter(Earlier)
<1>1. Brought(Earlier) \o <<>> = Brought(Earlier)
  BY ThisLoad, ConcatEmptySeq
<1> QED
  BY <1>1, ThisLoad

\* A file without a problem line, or with one that is not taken, holds nothing.
LEMMA NotTaken ==
  ASSUME NEW f \in Seq(AnyLine), NEW p \in 1 .. Len(f) + 1, \A k \in 1 .. p - 1 : ~Decides(f[k]),
         p # Len(f) + 1 =>
           /\ Decides(f[p])
           /\ f[p].kind \in {"gr", "co"} => f[p].a = 0 \/ f[p].b = 0
  PROVE  ~IsOf(f, "gr") /\ ~IsOf(f, "co")
<1>1. Len(f) \in Nat
  OBVIOUS
<1>2. CASE p = Len(f) + 1
  <2>1. Decided(f) = 0
    BY <1>1, <1>2, NoneDecided
  <2> QED
    BY <2>1 DEF IsOf
<1>3. CASE p # Len(f) + 1
  <2>1. Decided(f) = p
    BY <1>1, <1>3, DecidedIs
  <2> QED
    BY <1>3, <2>1 DEF IsOf
<1> QED
  BY <1>2, <1>3

LEMMA GraphOpens ==
  ASSUME DimacsTypes, GraphIsRead, NEW ls, NEW m, NEW x \in ALoad, Opens(ls, m, x),
         \/ m = "graph" /\ x.op # "queries"
         \/ m = "format" /\ x.op = "queries",
         ls = Taken(x)
  PROVE  GraphIsRead'
<1>1. Earlier' = loads /\ This' = x
  BY FrontAndLast DEF Earlier, This, DimacsTypes, Opens
<1>2. edges = AsArcs(Brought(loads)) /\ nodes = NodesAfter(loads)
  BY DEF GraphIsRead, Opens
<1>3. mode' = m /\ lines' = ls /\ pos' = 1 /\ edges' = edges /\ nodes' = nodes
  BY DEF Opens
<1>4. \A k \in 1 .. pos' - 1 : ~Decides(lines'[k])
  BY <1>3
<1> QED
  BY <1>1, <1>2, <1>3, <1>4 DEF GraphIsRead

LEMMA GraphFound ==
  ASSUME DimacsTypes, GraphIsRead, FindProblem
  PROVE  GraphIsRead'
<1>1. /\ mode = "graph" /\ ProblemFound
      /\ UNCHANGED <<edges, queries, lines, format, loads>>
  BY FindProblemFacts
<1>2. /\ lines \in Seq(AnyLine) /\ pos \in 1 .. Len(lines) + 1 /\ loads # <<>>
      /\ Len(lines) \in Nat
  BY <1>1 DEF DimacsTypes
<1>3. /\ edges = AsArcs(Brought(Earlier)) /\ nodes = NodesAfter(Earlier)
      /\ This.op # "queries" /\ lines = Taken(This)
      /\ \A k \in 1 .. pos - 1 : ~Decides(lines[k])
  BY <1>1 DEF GraphIsRead
<1>4. Earlier' = Earlier /\ This' = This
  BY <1>1 DEF Earlier, This
<1>5. ASSUME mode' = "idle"
      PROVE  GraphIsRead'
  <2>1. UNCHANGED nodes /\ ~IsOf(lines, "gr") /\ ~IsOf(lines, "co")
    <3>1. /\ UNCHANGED nodes
          /\ pos # Len(lines) + 1 =>
               /\ Decides(lines[pos])
               /\ lines[pos].kind \in {"gr", "co"} => lines[pos].a = 0 \/ lines[pos].b = 0
      BY <1>1, <1>2, <1>5 DEF ProblemFound, AtEnd
    <3> QED
      BY <1>2, <1>3, <3>1, NotTaken
  <2>2. ArcsIn(This) = <<>> /\ ~BringsNodes(This)
    BY <1>3, <2>1 DEF ArcsIn, ArcsOf, Content, BringsNodes
  <2>3. Brought(loads) = Brought(Earlier) /\ NodesAfter(loads) = NodesAfter(Earlier)
    BY <1>2, <2>2, BringsNothing
  <2>4. edges' = AsArcs(Brought(loads')) /\ nodes' = NodesAfter(loads')
    BY <1>1, <1>3, <2>1, <2>3
  <2> QED
    BY <1>5, <2>4 DEF GraphIsRead
<1>6. ASSUME mode' = "graph"
      PROVE  GraphIsRead'
  <2>1. UNCHANGED nodes /\ pos' = pos + 1 /\ ~Decides(lines[pos])
    BY <1>1, <1>6 DEF ProblemFound
  <2>2. \A k \in 1 .. pos' - 1 : ~Decides(lines'[k])
    BY <1>1, <1>2, <1>3, <2>1
  <2> QED
    BY <1>1, <1>3, <1>4, <1>6, <2>1, <2>2 DEF GraphIsRead
<1>7. ASSUME mode' \notin {"idle", "graph"}
      PROVE  GraphIsRead'
  <2>1. /\ ~AtEnd /\ pos' = pos + 1 /\ mode' = lines[pos].kind
        /\ lines[pos].kind \in {"gr", "co"} /\ lines[pos].a # 0 /\ lines[pos].b # 0
        /\ nodes' = IF lines[pos].kind = "co" THEN <<>> ELSE nodes
    BY <1>1, <1>7 DEF ProblemFound
  <2>2. pos \in 1 .. Len(lines) /\ lines[pos].a \in Nat /\ lines[pos].b \in Nat
    BY <2>1, LineAtPos
  <2>3. Decided(lines) = pos
    <3>1. Decides(lines[pos])
      BY <2>1 DEF Decides, Problem
    <3> QED
      BY <1>2, <1>3, <2>2, <3>1, DecidedIs
  <2>4. IsOf(lines, mode')
    BY <2>1, <2>2, <2>3 DEF IsOf
  <2>5. /\ pos' \in Decided(lines') + 1 .. Len(lines') + 1
        /\ \A k, bad : k \in Decided(lines') + 1 .. pos' - 1 => ~Ends(lines'[k], bad)
    BY <1>1, <1>2, <2>1, <2>2, <2>3
  <2>6. SoFar(lines', Decided(lines'), pos', {"node"}) = <<>>
        /\ SoFar(lines', Decided(lines'), pos', {"arc"}) = <<>>
    <3>1. pos \in 0 .. Len(lines)
      BY <2>2
    <3> QED
      BY <1>1, <1>2, <2>1, <2>3, <3>1, NoneSoFar
  <2>7. Brought(Earlier) \o <<>> = Brought(Earlier) /\ AsNodes(<<>>) = <<>>
    <3>1. AsNodes(<<>>) = <<>>
      BY DEF AsNodes
    <3> QED
      BY <1>2, <3>1, ThisLoad, ConcatEmptySeq
  <2>8. CASE mode' = "co"
    <3>1. Within("co", "bad node")'
      BY <1>1, <2>4, <2>5, <2>8 DEF Within
    <3>2. nodes' = AsNodes(SoFar(lines', Decided(lines'), pos', {"node"}))
      BY <2>1, <2>6, <2>7, <2>8
    <3> QED
      BY <1>1, <1>3, <1>4, <2>8, <3>1, <3>2 DEF GraphIsRead
  <2>9. CASE mode' = "gr"
    <3>1. Within("gr", "bad arc")'
      BY <1>1, <2>4, <2>5, <2>9 DEF Within
    <3>2. edges' = AsArcs(Brought(Earlier) \o SoFar(lines', Decided(lines'), pos', {"arc"}))
      BY <1>1, <1>3, <2>6, <2>7
    <3>3. nodes' = nodes
      BY <2>1, <2>9
    <3> QED
      BY <1>1, <1>3, <1>4, <2>9, <3>1, <3>2, <3>3 DEF GraphIsRead
  <2> QED
    BY <2>1, <2>8, <2>9
<1> QED
  BY <1>5, <1>6, <1>7

LEMMA GraphNode ==
  ASSUME DimacsTypes, GraphIsRead, ReadNode
  PROVE  GraphIsRead'
<1> DEFINE d == Decided(lines)
           had == SoFar(lines, d, pos, {"node"})
<1>1. /\ mode = "co" /\ LineRead(nodes, ReadNodeOf(lines[pos]), "co", "node", "bad node")
      /\ UNCHANGED <<edges, queries, lines, format, loads>>
  BY ReadNodeFacts
<1>2. lines \in Seq(AnyLine) /\ pos \in 1 .. Len(lines) + 1 /\ loads # <<>> /\ Len(lines) \in Nat
  <2>1. mode # "idle"
    BY <1>1
  <2>2. lines \in Seq(AnyLine) /\ pos \in 1 .. Len(lines) + 1 /\ loads # <<>>
    BY <2>1 DEF DimacsTypes
  <2> QED
    BY <2>2
<1>3. /\ edges = AsArcs(Brought(Earlier)) /\ nodes = AsNodes(had)
      /\ This.op # "queries" /\ lines = Taken(This) /\ Within("co", "bad node")
  BY <1>1 DEF GraphIsRead
<1>4. d \in 0 .. Len(lines) /\ pos \in d + 1 .. Len(lines) + 1 /\ Len(lines) \in Nat
  BY <1>2, <1>3, DecidedFacts DEF Within
<1>0. IsOf(lines, "co")
  BY <1>3 DEF Within
<1>10. \A k \in d + 1 .. pos - 1 : ~Ends(lines[k], "bad node")
  BY <1>3 DEF Within
<1>5. Earlier' = Earlier /\ This' = This
  BY <1>1 DEF Earlier, This
<1>6. ASSUME mode' = "idle"
      PROVE  GraphIsRead'
  <2>1. UNCHANGED nodes /\ (pos # Len(lines) + 1 => Ends(lines[pos], "bad node"))
    <3>1. UNCHANGED nodes /\ (AtEnd \/ Ends(lines[pos], "bad node"))
      BY <1>1, <1>6 DEF LineRead
    <3>2. pos # Len(lines) + 1 => ~AtEnd
      BY <1>2 DEF AtEnd
    <3> QED
      BY <3>1, <3>2
  <2>2. NodesOf(lines) = had
    BY <1>0, <1>10, <1>2, <1>4, <2>1, ContentIs DEF NodesOf
  <2>3. ArcsIn(This) = <<>> /\ BringsNodes(This)
    BY <1>0, <1>3 DEF ArcsIn, ArcsOf, Content, BringsNodes, IsOf
  <2>4. NodesAfter(loads) = AsNodes(had)
    BY <1>2, <1>3, <2>2, <2>3, ThisLoad
  <2>5. Brought(loads) = Brought(Earlier)
    BY <1>2, <2>3, ThisLoad, ConcatEmptySeq
  <2>6. edges' = AsArcs(Brought(loads')) /\ nodes' = NodesAfter(loads')
    BY <1>1, <1>3, <2>1, <2>4, <2>5
  <2> QED
    BY <1>6, <2>6 DEF GraphIsRead
<1>7. ASSUME mode' # "idle"
      PROVE  GraphIsRead'
  <2>0. ~AtEnd /\ pos' = pos + 1 /\ mode' = "co" /\ ~Ends(lines[pos], "bad node")
    BY <1>1, <1>7 DEF LineRead
  <2>1. nodes' = IF lines[pos].kind = "node" THEN Append(nodes, ReadNodeOf(lines[pos])) ELSE nodes
    BY <1>1, <1>7 DEF LineRead
  <2>2. pos \in d + 1 .. Len(lines) /\ lines[pos] \in AnyLine
    <3>1. pos \in 1 .. Len(lines) /\ lines[pos] \in AnyLine
      BY <2>0, LineAtPos
    <3> HIDE DEF d
    <3> QED
      BY <1>4, <3>1
  <2>3. /\ had \in Seq(AnyLine)
        /\ SoFar(lines, d, pos + 1, {"node"})
             = IF lines[pos].kind = "node" THEN Append(had, lines[pos]) ELSE had
    <3> DEFINE p == pos
    <3>1. p \in d + 1 .. Len(lines) /\ d \in 0 .. Len(lines) /\ lines \in Seq(AnyLine)
      BY <1>2, <1>4, <2>2
    <3> HIDE DEF d, p
    <3>2. /\ SoFar(lines, d, p, {"node"}) \in Seq(AnyLine)
          /\ SoFar(lines, d, p + 1, {"node"})
               = IF lines[p].kind \in {"node"} THEN Append(SoFar(lines, d, p, {"node"}), lines[p])
                 ELSE SoFar(lines, d, p, {"node"})
      BY <3>1, OneMoreSoFar
    <3> QED
      BY <3>2 DEF p
  <2>4. nodes' = AsNodes(SoFar(lines, d, pos + 1, {"node"}))
    <3> HIDE DEF had
    <3> QED
      BY <1>3, <2>1, <2>2, <2>3, AsNodesAppend
  <2>5. nodes' = AsNodes(SoFar(lines', Decided(lines'), pos', {"node"}))
    BY <1>1, <2>0, <2>4
  <2>6. Within("co", "bad node")'
    <3>1. pos' \in d + 1 .. Len(lines) + 1 /\ pos' = pos + 1
      <4> HIDE DEF d
      <4>1. pos' = pos + 1
        BY <2>0
      <4>2. pos \in d + 1 .. Len(lines)
        BY <2>2
      <4> QED
        BY <1>4, <4>1, <4>2
    <3>2. ASSUME NEW k \in d + 1 .. pos' - 1
          PROVE  ~Ends(lines[k], "bad node")
      <4> HIDE DEF d
      <4>1. k \in d + 1 .. pos - 1 \/ k = pos
        BY <1>4, <3>1
      <4> QED
        BY <1>10, <2>0, <4>1
    <3> QED
      BY <1>0, <1>1, <3>1, <3>2 DEF Within
  <2> QED
    BY <1>1, <1>3, <1>5, <2>0, <2>5, <2>6 DEF GraphIsRead
<1> QED
  BY <1>6, <1>7

LEMMA GraphArc ==
  ASSUME DimacsTypes, GraphIsRead, ReadArc
  PROVE  GraphIsRead'
<1> DEFINE d == Decided(lines)
           old == Brought(Earlier)
           had == SoFar(lines, d, pos, {"arc"})
<1>1. /\ mode = "gr" /\ LineRead(edges, ReadArcOf(lines[pos]), "gr", "arc", "bad arc")
      /\ UNCHANGED <<nodes, queries, lines, format, loads>>
  BY ReadArcFacts
<1>2. lines \in Seq(AnyLine) /\ pos \in 1 .. Len(lines) + 1 /\ loads # <<>> /\ Len(lines) \in Nat
  <2>1. mode # "idle"
    BY <1>1
  <2>2. lines \in Seq(AnyLine) /\ pos \in 1 .. Len(lines) + 1 /\ loads # <<>>
    BY <2>1 DEF DimacsTypes
  <2> QED
    BY <2>2
<1>3. /\ edges = AsArcs(old \o had) /\ nodes = NodesAfter(Earlier)
      /\ This.op # "queries" /\ lines = Taken(This) /\ Within("gr", "bad arc")
  BY <1>1 DEF GraphIsRead
<1>4. d \in 0 .. Len(lines) /\ pos \in d + 1 .. Len(lines) + 1 /\ Len(lines) \in Nat
  BY <1>2, <1>3, DecidedFacts DEF Within
<1>0. IsOf(lines, "gr")
  BY <1>3 DEF Within
<1>10. \A k \in d + 1 .. pos - 1 : ~Ends(lines[k], "bad arc")
  BY <1>3 DEF Within
<1>5. Earlier' = Earlier /\ This' = This
  BY <1>1 DEF Earlier, This
<1>6. old \in Seq(AnyLine)
  BY <1>2, ThisLoad
<1>7. ASSUME mode' = "idle"
      PROVE  GraphIsRead'
  <2>1. UNCHANGED edges /\ (pos # Len(lines) + 1 => Ends(lines[pos], "bad arc"))
    <3>1. UNCHANGED edges /\ (AtEnd \/ Ends(lines[pos], "bad arc"))
      BY <1>1, <1>7 DEF LineRead
    <3>2. pos # Len(lines) + 1 => ~AtEnd
      BY <1>2 DEF AtEnd
    <3> QED
      BY <3>1, <3>2
  <2>2. ArcsOf(lines) = had
    BY <1>0, <1>10, <1>2, <1>4, <2>1, ContentIs DEF ArcsOf
  <2>3. ArcsIn(This) = had /\ ~BringsNodes(This)
    BY <1>0, <1>3, <2>2 DEF ArcsIn, BringsNodes, IsOf
  <2>4. Brought(loads) = old \o had /\ NodesAfter(loads) = NodesAfter(Earlier)
    BY <1>2, <2>3, ThisLoad
  <2>5. edges' = AsArcs(Brought(loads')) /\ nodes' = NodesAfter(loads')
    BY <1>1, <1>3, <2>1, <2>4
  <2> QED
    BY <1>7, <2>5 DEF GraphIsRead
<1>8. ASSUME mode' # "idle"
      PROVE  GraphIsRead'
  <2>0. ~AtEnd /\ pos' = pos + 1 /\ mode' = "gr" /\ ~Ends(lines[pos], "bad arc")
    BY <1>1, <1>8 DEF LineRead
  <2>1. edges' = IF lines[pos].kind = "arc" THEN Append(edges, ReadArcOf(lines[pos])) ELSE edges
    BY <1>1, <1>8 DEF LineRead
  <2>2. pos \in d + 1 .. Len(lines) /\ lines[pos] \in AnyLine
    <3>1. pos \in 1 .. Len(lines) /\ lines[pos] \in AnyLine
      BY <2>0, LineAtPos
    <3> HIDE DEF d
    <3> QED
      BY <1>4, <3>1
  <2>3. /\ had \in Seq(AnyLine)
        /\ SoFar(lines, d, pos + 1, {"arc"})
             = IF lines[pos].kind = "arc" THEN Append(had, lines[pos]) ELSE had
    <3> DEFINE p == pos
    <3>1. p \in d + 1 .. Len(lines) /\ d \in 0 .. Len(lines) /\ lines \in Seq(AnyLine)
      BY <1>2, <1>4, <2>2
    <3> HIDE DEF d, p
    <3>2. /\ SoFar(lines, d, p, {"arc"}) \in Seq(AnyLine)
          /\ SoFar(lines, d, p + 1, {"arc"})
               = IF lines[p].kind \in {"arc"} THEN Append(SoFar(lines, d, p, {"arc"}), lines[p])
                 ELSE SoFar(lines, d, p, {"arc"})
      BY <3>1, OneMoreSoFar
    <3> QED
      BY <3>2 DEF p
  <2>4. edges' = AsArcs(old \o SoFar(lines, d, pos + 1, {"arc"}))
    <3> DEFINE l == lines[pos]
    <3>1. l \in AnyLine
      BY <2>2
    <3> HIDE DEF had, old, l
    <3>2. old \o Append(had, l) = Append(old \o had, l) /\ old \o had \in Seq(AnyLine)
      BY <1>6, <2>3, <3>1
    <3>3. AsArcs(Append(old \o had, l)) = Append(AsArcs(old \o had), ReadArcOf(l))
      BY <3>1, <3>2, AsArcsAppend
    <3> QED
      BY <1>3, <2>1, <2>3, <3>2, <3>3 DEF l
  <2>5. edges' = AsArcs(Brought(Earlier') \o SoFar(lines', Decided(lines'), pos', {"arc"}))
    BY <1>1, <1>5, <2>0, <2>4
  <2>6. Within("gr", "bad arc")'
    <3>1. pos' \in d + 1 .. Len(lines) + 1 /\ pos' = pos + 1
      <4> HIDE DEF d
      <4>1. pos' = pos + 1
        BY <2>0
      <4>2. pos \in d + 1 .. Len(lines)
        BY <2>2
      <4> QED
        BY <1>4, <4>1, <4>2
    <3>2. ASSUME NEW k \in d + 1 .. pos' - 1
          PROVE  ~Ends(lines[k], "bad arc")
      <4> HIDE DEF d
      <4>1. k \in d + 1 .. pos - 1 \/ k = pos
        BY <1>4, <3>1
      <4> QED
        BY <1>10, <2>0, <4>1
    <3> QED
      BY <1>0, <1>1, <3>1, <3>2 DEF Within
  <2> QED
    BY <1>1, <1>3, <1>5, <2>0, <2>5, <2>6 DEF GraphIsRead
<1> QED
  BY <1>7, <1>8

LEMMA GraphInLoad ==
  ASSUME DimacsTypes, GraphIsRead, FindFormat \/ ReadQuery
  PROVE  GraphIsRead'
<1>1. /\ mode \in {"format", "queries"} /\ mode' \in {"format", "queries", "idle"}
      /\ UNCHANGED <<nodes, edges, lines, loads>>
  <2>1. CASE FindFormat
    BY <2>1, FindFormatFacts DEF FormatFound
  <2>2. CASE ReadQuery
    BY <2>2, ReadQueryFacts DEF QueryRead
  <2> QED
    BY <2>1, <2>2
<1>2. loads # <<>>
  BY <1>1 DEF DimacsTypes
<1>3. /\ edges = AsArcs(Brought(Earlier)) /\ nodes = NodesAfter(Earlier)
      /\ This.op = "queries" /\ lines = Taken(This)
  BY <1>1 DEF GraphIsRead
<1>4. Earlier' = Earlier /\ This' = This
  BY <1>1 DEF Earlier, This
<1>5. ArcsIn(This) = <<>> /\ ~BringsNodes(This)
  BY <1>3 DEF ArcsIn, BringsNodes
<1>6. Brought(loads) = Brought(Earlier) /\ NodesAfter(loads) = NodesAfter(Earlier)
  BY <1>2, <1>5, BringsNothing
<1>7. edges' = AsArcs(Brought(loads')) /\ nodes' = NodesAfter(loads')
      /\ edges' = AsArcs(Brought(Earlier')) /\ nodes' = NodesAfter(Earlier')
      /\ This'.op = "queries" /\ lines' = Taken(This')
  BY <1>1, <1>3, <1>4, <1>6
<1> QED
  BY <1>1, <1>7 DEF GraphIsRead

LEMMA GraphStep ==
  ASSUME DimacsTypes, GraphIsRead, [Next]_vars
  PROVE  GraphIsRead'
<1>1. CASE UNCHANGED vars
  BY <1>1 DEF vars, loading, GraphIsRead, Within, Earlier, This
<1>2. ASSUME NEW f \in GraphFiles, LoadGraph(f)
      PROVE  GraphIsRead'
  <2> DEFINE x == [op |-> "graph", file |-> f]
  <2>1. Opens(Readable(f), "graph", x) /\ x \in ALoad
    BY <1>2, LoadsOpen, OpenedTypes
  <2>2. x.op # "queries" /\ Readable(f) = Taken(x)
    BY DEF Taken
  <2> HIDE DEF x
  <2> QED
    BY <2>1, <2>2, GraphOpens
<1>3. ASSUME NEW f \in QueryFiles, LoadInstance(f)
      PROVE  GraphIsRead'
  <2> DEFINE x == [op |-> "queries", file |-> f]
  <2>1. Opens(Whole(f), "format", x) /\ x \in ALoad
    BY <1>3, LoadsOpen, OpenedTypes
  <2>2. x.op = "queries" /\ Whole(f) = Taken(x)
    BY DEF Taken
  <2> HIDE DEF x
  <2> QED
    BY <2>1, <2>2, GraphOpens
<1>4. CASE Reload
  <2> DEFINE x == [op |-> "printed", file |-> Printed, nodes |-> nodes, edges |-> edges]
  <2>1. Opens(Readable(Printed), "graph", x) /\ x \in ALoad
    BY <1>4, LoadsOpen, OpenedTypes
  <2>2. x.op # "queries" /\ Readable(Printed) = Taken(x)
    BY DEF Taken
  <2> HIDE DEF x
  <2> QED
    BY <2>1, <2>2, GraphOpens
<1>5. CASE LoadMissing
  BY <1>5, LoadsOpen DEF GraphIsRead, Within, Earlier, This
<1> QED
  BY <1>1, <1>2, <1>3, <1>4, <1>5, GraphFound, GraphNode, GraphArc, GraphInLoad DEF Next, Read

LEMMA GraphInit ==
  ASSUME Init
  PROVE  GraphIsRead
<1>1. AsArcs(<<>>) = <<>>
  BY DEF AsArcs
<1> QED
  BY <1>1, NoneBrought DEF Init, GraphIsRead

LEMMA DimacsGraph == Spec => [](DimacsTypes /\ GraphIsRead)
<1>1. Init => DimacsTypes /\ GraphIsRead
  BY DimacsTypesInit, GraphInit
<1>2. DimacsTypes /\ GraphIsRead /\ [Next]_vars => (DimacsTypes /\ GraphIsRead)'
  BY DimacsTypesStep, GraphStep
<1> QED
  BY <1>1, <1>2, PTL DEF Spec

\* With no gr file nothing is brought, with one what it holds.
OneBrings ==
  LET grs == {k \in DOMAIN loads : Loads(loads[k], "gr")}
  IN  /\ grs = {} => Brought(loads) = <<>>
      /\ \A k \in DOMAIN loads : grs = {k} => Brought(loads) = ArcsIn(loads[k])

LEMMA OneMoreBrings ==
  ASSUME NEW x \in ALoad, loads \in Seq(ALoad), loads' = Append(loads, x), OneBrings
  PROVE  OneBrings'
<1> DEFINE n == Len(loads)
           a == Append(loads, x)
           grs == {k \in DOMAIN loads : Loads(loads[k], "gr")}
           now == {k \in DOMAIN a : Loads(a[k], "gr")}
<1>1. /\ n \in Nat /\ DOMAIN loads = 1 .. n /\ DOMAIN a = 1 .. n + 1 /\ a[n + 1] = x
      /\ \A k \in 1 .. n : a[k] = loads[k]
  OBVIOUS
<1>2. Brought(loads) \in Seq(AnyLine) /\ Brought(a) = Brought(loads) \o ArcsIn(x)
  BY BroughtAppend
<1>3. ArcsIn(x) \in Seq(AnyLine)
  BY LoadFacts
<1>4. ~Loads(x, "gr") => ArcsIn(x) = <<>>
  <2>1. Taken(x) \in Seq(AnyLine)
    BY LoadFacts
  <2>2. Decided(Taken(x)) \in Nat
    BY <2>1, DecidedFacts
  <2> QED
    BY <2>2 DEF Loads, ArcsIn, ArcsOf, Content, IsOf
<1>5. /\ grs = {} => Brought(loads) = <<>>
      /\ \A k \in DOMAIN loads : grs = {k} => Brought(loads) = ArcsIn(loads[k])
  BY DEF OneBrings
<1> HIDE DEF n, a
<1>6. /\ \A k \in 1 .. n : k \in now <=> k \in grs
      /\ n + 1 \in now <=> Loads(x, "gr")
      /\ grs \subseteq 1 .. n /\ now \subseteq 1 .. n + 1
  BY <1>1
<1> HIDE DEF grs, now
<1>7. CASE Loads(x, "gr")
  <2>1. n + 1 \in now /\ now # {}
    BY <1>6, <1>7
  <2>2. ASSUME NEW k \in 1 .. n + 1, now = {k}
        PROVE  Brought(a) = ArcsIn(a[k])
    <3>1. k = n + 1 /\ grs = {}
      BY <1>1, <1>6, <2>1, <2>2
    <3>2. Brought(a) = <<>> \o ArcsIn(x)
      BY <1>2, <1>5, <3>1
    <3> QED
      BY <1>1, <1>3, <3>1, <3>2, ConcatEmptySeq
  <2> QED
    BY <1>1, <2>1, <2>2 DEF OneBrings, a, now
<1>8. CASE ~Loads(x, "gr")
  <2>1. Brought(a) = Brought(loads)
    BY <1>2, <1>4, <1>8, ConcatEmptySeq
  <2>2. now = grs
    <3>1. \A k \in 1 .. n + 1 : k \in 1 .. n \/ k = n + 1
      BY <1>1
    <3> QED
      BY <1>6, <1>8, <3>1
  <2>3. ASSUME NEW k \in 1 .. n + 1, now = {k}
        PROVE  Brought(a) = ArcsIn(a[k])
    <3>1. k \in 1 .. n
      BY <1>6, <2>2, <2>3
    <3> QED
      BY <1>1, <1>5, <2>1, <2>2, <2>3, <3>1
  <2> QED
    BY <1>1, <1>5, <2>1, <2>2, <2>3 DEF OneBrings, a, now
<1> QED
  BY <1>7, <1>8

LEMMA OneBringsStep ==
  ASSUME DimacsTypes, OneBrings, [Next]_vars
  PROVE  OneBrings'
<1>1. CASE UNCHANGED loads
  BY <1>1 DEF OneBrings
<1>2. CASE \E x \in ALoad : loads' = Append(loads, x)
  BY <1>2, OneMoreBrings DEF DimacsTypes
<1>3. Read \/ LoadMissing \/ UNCHANGED vars => UNCHANGED loads
  BY LoadsOpen, FindProblemFacts, ReadNodeFacts, ReadArcFacts, FindFormatFacts, ReadQueryFacts
     DEF Read, vars
<1>4. ASSUME \/ \E f \in GraphFiles : LoadGraph(f)
             \/ \E f \in QueryFiles : LoadInstance(f)
             \/ Reload
      PROVE  \E x \in ALoad : loads' = Append(loads, x)
  BY <1>4, LoadsOpen, OpenedTypes DEF Opens
<1> QED
  BY <1>1, <1>2, <1>3, <1>4 DEF Next

\* Between loads the arcs are those of the gr file, if there is one, and the
\* nodes those of the last co file.
THEOREM DimacsGraphIsLoaded == Spec => []GraphIsLoaded
<1>1. Init => OneBrings
  BY NoneBrought DEF Init, OneBrings
<1>2. ASSUME DimacsTypes, GraphIsRead, OneBrings
      PROVE  GraphIsLoaded
  <2> SUFFICES ASSUME mode = "idle"
               PROVE  GraphIsLoaded
    BY DEF GraphIsLoaded
  <2>1. edges = AsArcs(Brought(loads)) /\ nodes = NodesAfter(loads)
    BY <1>2 DEF GraphIsRead
  <2>2. AsArcs(<<>>) = <<>>
    BY DEF AsArcs
  <2> QED
    BY <1>2, <2>1, <2>2, Zenon DEF OneBrings, GraphIsLoaded, NodesAfter, LastNodes
<1> QED
  BY <1>1, <1>2, OneBringsStep, DimacsGraph, PTL DEF Spec

-----------------------------------------------------------------------------
(* What true promises, and what comes back from print.                     *)

\* A file whose loading nothing ends is read to its last line.
LEMMA NothingLeft ==
  ASSUME NEW f \in Seq(AnyLine), NEW m, NEW good, NEW bad, IsOf(f, m),
         \A k \in Decided(f) + 1 .. Len(f) : ~Ends(f[k], bad)
  PROVE  /\ \A k \in DOMAIN Rest(f) : Rest(f)[k].kind \notin Problem
         /\ Content(f, m, good, bad) = Chosen(Rest(f), {good, bad})
<1> DEFINE d == Decided(f)
           r == Rest(f)
<1>1. d \in 0 .. Len(f) /\ Len(f) \in Nat
  BY DecidedFacts
<1>2. \A k \in d + 1 .. Len(f) : ~Ends(f[k], bad)
  OBVIOUS
<1>3. r = SubSeq(f, d + 1, Len(f))
  BY DEF Rest
<1> HIDE DEF d, r
<1>4. /\ r \in Seq(AnyLine) /\ Len(r) = Len(f) - d /\ DOMAIN r = 1 .. Len(f) - d
      /\ \A k \in 1 .. Len(f) - d : r[k] = f[d + k]
  BY <1>1, <1>3
<1>5. ASSUME NEW k \in 1 .. Len(f) - d
      PROVE  r[k].kind \notin Problem /\ r[k].kind # bad
  <2>1. d + k \in d + 1 .. Len(f) /\ r[k] = f[d + k]
    BY <1>1, <1>4
  <2>2. ~Ends(r[k], bad)
    BY <1>2, <2>1
  <2> QED
    BY <2>2 DEF Ends
<1>6. Chosen(r, {good}) = Chosen(r, {good, bad})
  <2>1. \A k \in DOMAIN r : r[k].kind # bad
    BY <1>4, <1>5
  <2>2. [k \in DOMAIN r |-> IF r[k].kind \in {good} THEN <<r[k]>> ELSE <<>>]
          = [k \in DOMAIN r |-> IF r[k].kind \in {good, bad} THEN <<r[k]>> ELSE <<>>]
    BY <2>1
  <2> QED
    BY <2>2, Zenon DEF Chosen
<1>7. Content(f, m, good, bad) = SoFar(f, d, Len(f) + 1, {good})
  <2> DEFINE p == Len(f) + 1
  <2>1. p \in d + 1 .. Len(f) + 1 /\ p - 1 = Len(f)
    BY <1>1
  <2>2. \A k \in d + 1 .. p - 1 : ~Ends(f[k], bad)
    BY <1>2, <2>1
  <2>3. p = Len(f) + 1
    OBVIOUS
  <2> HIDE DEF p
  <2> QED
    BY <2>1, <2>2, <2>3, ContentIs DEF d
<1>8. SoFar(f, d, Len(f) + 1, {good}) = Chosen(r, {good})
  <2>1. (Len(f) + 1) - 1 = Len(f)
    BY <1>1
  <2> QED
    BY <1>3, <2>1 DEF SoFar
<1> QED
  BY <1>4, <1>5, <1>6, <1>7, <1>8 DEF r

LEMMA AllReadStep ==
  ASSUME DimacsTypes, GraphIsRead, TrueMeansAllRead, [Next]_vars
  PROVE  TrueMeansAllRead'
<1> DEFINE ReadAll(f) ==
             \/ Decided(f) = 0
             \/ /\ IsOf(f, f[Decided(f)].kind)
                /\ \A k \in DOMAIN Rest(f) : Rest(f)[k].kind \notin Problem
                /\ f[Decided(f)].kind = "gr" => ArcsOf(f) = Chosen(Rest(f), {"arc", "bad arc"})
                /\ f[Decided(f)].kind = "co" => NodesOf(f) = Chosen(Rest(f), {"node", "bad node"})
<1>1. CASE UNCHANGED vars
  BY <1>1 DEF vars, loading, TrueMeansAllRead
<1>2. CASE mode' # "idle"
  BY <1>2 DEF TrueMeansAllRead
<1>3. ASSUME mode' = "idle", Read
      PROVE  TrueMeansAllRead'
  <2> SUFFICES ASSUME loads' # <<>>, Last(loads').op # "queries", retval',
                      Readable(Last(loads').file) = Last(loads').file
               PROVE  ReadAll(Last(loads').file)
    BY DEF TrueMeansAllRead
  <2>0. ASSUME loads' = loads
        PROVE  Taken(This) = Last(loads').file
    <3>1. This = Last(loads')
      BY <2>0 DEF This
    <3> QED
      BY <3>1 DEF Taken
  <2>1. CASE FindProblem
    <3>1. /\ mode = "graph" /\ ProblemFound
          /\ UNCHANGED <<edges, queries, lines, format, loads>>
      BY <2>1, FindProblemFacts
    <3>2. AtEnd
      BY <1>3, <3>1 DEF ProblemFound
    <3>3. lines = Last(loads').file /\ \A k \in 1 .. pos - 1 : ~Decides(lines[k])
      BY <2>0, <3>1 DEF GraphIsRead
    <3>4. Len(lines) \in Nat /\ \A k \in 1 .. Len(lines) : ~Decides(lines[k])
      <4>1. lines \in Seq(AnyLine) /\ pos \in 1 .. Len(lines) + 1
        BY DEF DimacsTypes
      <4>2. Len(lines) \in Nat /\ pos - 1 = Len(lines)
        BY <3>2, <4>1 DEF AtEnd
      <4> QED
        BY <3>3, <4>2
    <3>5. Decided(lines) = 0
      BY <3>4, NoneDecided
    <3> QED
      BY <3>3, <3>5
  <2>2. CASE ReadNode
    <3>1. /\ mode = "co" /\ LineRead(nodes, ReadNodeOf(lines[pos]), "co", "node", "bad node")
          /\ UNCHANGED <<edges, queries, lines, format, loads>>
      BY <2>2, ReadNodeFacts
    <3>2. AtEnd
      BY <1>3, <3>1 DEF LineRead
    <3>3. lines = Last(loads').file /\ Within("co", "bad node")
      BY <2>0, <3>1 DEF GraphIsRead
    <3>4. lines \in Seq(AnyLine) /\ pos = Len(lines) + 1
      BY <3>2 DEF AtEnd, DimacsTypes
    <3>5. IsOf(lines, "co") /\ \A k \in Decided(lines) + 1 .. Len(lines) : ~Ends(lines[k], "bad node")
      <4>1. pos - 1 = Len(lines)
        BY <3>4
      <4> QED
        BY <3>3, <4>1 DEF Within
    <3>6. /\ \A k \in DOMAIN Rest(lines) : Rest(lines)[k].kind \notin Problem
          /\ NodesOf(lines) = Chosen(Rest(lines), {"node", "bad node"})
      <4>1. lines \in Seq(AnyLine)
        BY <3>4
      <4>2. \A k \in DOMAIN Rest(lines) : Rest(lines)[k].kind \notin Problem
        BY <3>5, <4>1, NothingLeft, Zenon
      <4>3. NodesOf(lines) = Chosen(Rest(lines), {"node", "bad node"})
        <5>1. Content(lines, "co", "node", "bad node") = Chosen(Rest(lines), {"node", "bad node"})
          <6> DEFINE m == "co"
                     g == "node"
                     b == "bad node"
          <6>1. IsOf(lines, m) /\ \A k \in Decided(lines) + 1 .. Len(lines) : ~Ends(lines[k], b)
            BY <3>5
          <6> HIDE DEF m, g, b
          <6>2. Content(lines, m, g, b) = Chosen(Rest(lines), {g, b})
            BY <4>1, <6>1, NothingLeft
          <6> QED
            BY <6>2 DEF m, g, b
        <5> QED
          BY <5>1 DEF NodesOf
      <4> QED
        BY <4>2, <4>3
    <3>7. lines[Decided(lines)].kind = "co"
      BY <3>5 DEF IsOf
    <3> QED
      BY <3>3, <3>5, <3>6, <3>7
  <2>3. CASE ReadArc
    <3>1. /\ mode = "gr" /\ LineRead(edges, ReadArcOf(lines[pos]), "gr", "arc", "bad arc")
          /\ UNCHANGED <<nodes, queries, lines, format, loads>>
      BY <2>3, ReadArcFacts
    <3>2. AtEnd
      BY <1>3, <3>1 DEF LineRead
    <3>3. lines = Last(loads').file /\ Within("gr", "bad arc")
      BY <2>0, <3>1 DEF GraphIsRead
    <3>4. lines \in Seq(AnyLine) /\ pos = Len(lines) + 1
      BY <3>2 DEF AtEnd, DimacsTypes
    <3>5. IsOf(lines, "gr") /\ \A k \in Decided(lines) + 1 .. Len(lines) : ~Ends(lines[k], "bad arc")
      <4>1. pos - 1 = Len(lines)
        BY <3>4
      <4> QED
        BY <3>3, <4>1 DEF Within
    <3>6. /\ \A k \in DOMAIN Rest(lines) : Rest(lines)[k].kind \notin Problem
          /\ ArcsOf(lines) = Chosen(Rest(lines), {"arc", "bad arc"})
      <4>1. lines \in Seq(AnyLine)
        BY <3>4
      <4>2. \A k \in DOMAIN Rest(lines) : Rest(lines)[k].kind \notin Problem
        BY <3>5, <4>1, NothingLeft, Zenon
      <4>3. ArcsOf(lines) = Chosen(Rest(lines), {"arc", "bad arc"})
        <5>1. Content(lines, "gr", "arc", "bad arc") = Chosen(Rest(lines), {"arc", "bad arc"})
          <6> DEFINE m == "gr"
                     g == "arc"
                     b == "bad arc"
          <6>1. IsOf(lines, m) /\ \A k \in Decided(lines) + 1 .. Len(lines) : ~Ends(lines[k], b)
            BY <3>5
          <6> HIDE DEF m, g, b
          <6>2. Content(lines, m, g, b) = Chosen(Rest(lines), {g, b})
            BY <4>1, <6>1, NothingLeft
          <6> QED
            BY <6>2 DEF m, g, b
        <5> QED
          BY <5>1 DEF ArcsOf
      <4> QED
        BY <4>2, <4>3
    <3>7. lines[Decided(lines)].kind = "gr"
      BY <3>5 DEF IsOf
    <3> QED
      BY <3>3, <3>5, <3>6, <3>7
  <2>4. CASE FindFormat
    <3>1. mode = "format" /\ UNCHANGED loads
      BY <2>4, FindFormatFacts
    <3> QED
      BY <3>1 DEF GraphIsRead, This
  <2>5. CASE ReadQuery
    <3>1. mode = "queries" /\ UNCHANGED loads
      BY <2>5, ReadQueryFacts
    <3> QED
      BY <3>1 DEF GraphIsRead, This
  <2> QED
    BY <1>3, <2>1, <2>2, <2>3, <2>4, <2>5 DEF Read
<1>4. ASSUME mode' = "idle"
      PROVE  ~Reload /\ ~(\E f \in GraphFiles : LoadGraph(f)) /\ ~(\E f \in QueryFiles : LoadInstance(f))
  BY <1>4 DEF Reload, LoadGraph, LoadInstance, Open
<1>5. CASE LoadMissing
  BY <1>5, LoadsOpen DEF TrueMeansAllRead
<1> QED
  BY <1>1, <1>2, <1>3, <1>4, <1>5 DEF Next

\* load_graph returns true only if nothing of a file of whole lines was left
\* unread.
THEOREM DimacsTrueMeansAllRead == Spec => []TrueMeansAllRead
<1>1. Init => TrueMeansAllRead
  BY DEF Init, TrueMeansAllRead
<1>2. DimacsTypes /\ GraphIsRead /\ TrueMeansAllRead /\ [Next]_vars => TrueMeansAllRead'
  BY AllReadStep
<1> QED
  BY <1>1, <1>2, DimacsGraph, PTL DEF Spec

-----------------------------------------------------------------------------
\* The nodes that print writes, as they are when they are read again.
Renumbered(ns) == [d \in DOMAIN ns |-> [id |-> d, xy |-> ns[d].xy]]

LEMMA PrintedHolds ==
  ASSUME nodes \in Seq(ANode), edges \in Seq(AnArc)
  PROVE  /\ ~IsOf(Printed, "gr")
         /\ IsOf(Printed, "co") <=> nodes # <<>>
         /\ nodes # <<>> => AsNodes(NodesOf(Printed)) = Renumbered(nodes)
         /\ Readable(Printed) = Printed
<1> DEFINE n == Len(nodes)
           m == Len(edges)
           co == PrintedProblem("co", n, n)
           gr == PrintedProblem("gr", n, m)
           ns == [d \in 1..n |-> PrintedNode(d)]
           es == [d \in 1..m |-> PrintedArc(d)]
           first == IF n > 0 THEN <<co>> \o ns ELSE <<>>
           second == IF m > 0 THEN <<gr>> \o es ELSE <<>>
           f == Printed
<1>1. n \in Nat /\ m \in Nat /\ DOMAIN nodes = 1 .. n
  OBVIOUS
<1>2. f \in Seq(AnyLine)
  BY PrintedTypes
<1>3. f = first \o second
  BY DEF Printed
<1>4. /\ co.kind = "co" /\ co.a = n /\ co.b = n /\ gr.kind = "gr" /\ gr.a = n
      /\ Decides(co) /\ Decides(gr)
  BY DEF Decides, Problem, PrintedProblem
<1>5. ns \in Seq(AnyLine) /\ Len(ns) = n
  <2>1. ASSUME NEW d \in 1 .. n
        PROVE  PrintedNode(d) \in AnyLine
    <3>1. nodes[d] \in ANode
      OBVIOUS
    <3> QED
      BY <3>1 DEF ANode, AnyLine, Line, GraphKind, PrintedNode
  <2> HIDE DEF n
  <2>2. ns \in Seq(AnyLine)
    BY <1>1, <2>1, IsASeq
  <2> QED
    BY <1>1, <2>2
<1>6. es \in Seq(AnyLine) /\ Len(es) = m
  <2>1. ASSUME NEW d \in 1 .. m
        PROVE  PrintedArc(d) \in AnyLine
    <3>1. edges[d] \in AnArc
      OBVIOUS
    <3> QED
      BY <3>1 DEF AnArc, AnyLine, Line, GraphKind, PrintedArc
  <2> HIDE DEF m
  <2>2. es \in Seq(AnyLine)
    BY <1>1, <2>1, IsASeq
  <2> QED
    BY <1>1, <2>2
<1>7. co \in AnyLine /\ gr \in AnyLine
  BY <1>1 DEF AnyLine, Line, GraphKind, Problem, PrintedProblem
<1>8. \A k \in 1 .. n : ns[k].kind = "node" /\ ns[k].a = k /\ ns[k].b = nodes[k].xy
  BY DEF PrintedNode
<1>13. /\ co.ended /\ gr.ended /\ \A k \in 1 .. n : ns[k].ended
       /\ \A k \in 1 .. m : es[k].ended
  BY DEF PrintedNode, PrintedArc, PrintedProblem
<1>9. nodes # <<>> <=> n > 0
  OBVIOUS
<1> HIDE DEF co, gr, ns, es, f, n, m
<1>10. second \in Seq(AnyLine) /\ (m > 0 => second[1] = gr /\ Len(second) >= 1) /\ (~(m > 0) => second = <<>>)
  BY <1>1, <1>6, <1>7
<1>14. \A k \in 1 .. Len(second) : second[k].ended
  <2>1. CASE m > 0
    <3>1. Len(second) = m + 1 /\ \A k \in 1 .. m : second[k + 1] = es[k]
      BY <1>1, <1>6, <1>7, <2>1
    <3>2. ASSUME NEW k \in 1 .. Len(second)
          PROVE  second[k].ended
      <4>1. k = 1 \/ (k - 1 \in 1 .. m /\ (k - 1) + 1 = k)
        BY <1>1, <3>1
      <4> QED
        BY <1>10, <1>13, <2>1, <3>1, <4>1
    <3> QED
      BY <3>2
  <2>2. CASE ~(m > 0)
    BY <1>10, <2>2
  <2> QED
    BY <2>1, <2>2
<1>11. CASE n > 0
  <2>1. first \in Seq(AnyLine) /\ Len(first) = n + 1 /\ first[1] = co
        /\ \A k \in 1 .. n : first[k + 1] = ns[k]
    BY <1>1, <1>5, <1>7, <1>11
  <2> HIDE DEF first, second
  <2>2. /\ f \in Seq(AnyLine) /\ Len(f) = n + 1 + Len(second) /\ f[1] = co
        /\ \A k \in 1 .. n : f[k + 1] = ns[k]
        /\ \A k \in 1 .. Len(second) : f[n + 1 + k] = second[k]
    <3>1. Len(first \o second) = Len(first) + Len(second)
          /\ \A k \in 1 .. Len(first) + Len(second) :
               (first \o second)[k] = IF k <= Len(first) THEN first[k] ELSE second[k - Len(first)]
      <4>1. first \in Seq(AnyLine) /\ second \in Seq(AnyLine)
        BY <1>10, <2>1
      <4> QED
        BY <4>1
    <3>2. Len(f) = n + 1 + Len(second) /\ Len(second) \in Nat
      BY <1>3, <1>10, <2>1, <3>1
    <3>3. \A k \in 1 .. n + 1 + Len(second) :
            f[k] = IF k <= n + 1 THEN first[k] ELSE second[k - (n + 1)]
      BY <1>3, <2>1, <3>1
    <3>4. f[1] = first[1]
      BY <1>1, <3>2, <3>3
    <3>5. ASSUME NEW k \in 1 .. n
          PROVE  f[k + 1] = ns[k]
      BY <1>1, <2>1, <3>2, <3>3
    <3>6. ASSUME NEW k \in 1 .. Len(second)
          PROVE  f[n + 1 + k] = second[k]
      <4>1. /\ n + 1 + k \in 1 .. n + 1 + Len(second) /\ ~(n + 1 + k <= n + 1)
            /\ (n + 1 + k) - (n + 1) = k
        BY <1>1, <3>2
      <4> QED
        BY <3>3, <4>1
    <3> QED
      BY <1>2, <2>1, <3>2, <3>4, <3>5, <3>6
  <2>3. Decided(f) = 1
    <3>1. 1 \in 1 .. Len(f) /\ Len(f) \in Nat /\ Decides(f[1]) /\ 1 .. 1 - 1 = {}
      BY <1>1, <1>4, <1>10, <2>2
    <3> QED
      BY <3>1, DecidedIs
  <2>4. IsOf(f, "co") /\ ~IsOf(f, "gr")
    BY <1>1, <1>4, <1>11, <2>2, <2>3 DEF IsOf
  <2>5. NodesOf(f) = SoFar(f, 1, n + 2, {"node"})
    <3> DEFINE p == n + 2
    <3>1. p \in 1 + 1 .. Len(f) + 1
      BY <1>1, <1>10, <2>2
    <3>2. ASSUME NEW k \in 1 + 1 .. p - 1
          PROVE  ~Ends(f[k], "bad node")
      <4>1. k - 1 \in 1 .. n /\ (k - 1) + 1 = k
        BY <1>1
      <4>2. f[k].kind = "node"
        BY <1>8, <2>2, <4>1
      <4> QED
        BY <4>2 DEF Ends, Problem
    <3>3. ASSUME p # Len(f) + 1
          PROVE  Ends(f[p], "bad node")
      <4>1. Len(second) # 0
        BY <1>1, <1>10, <2>2, <3>3
      <4>2. m > 0
        BY <1>10, <4>1
      <4>3. f[p] = gr
        <5>1. 1 \in 1 .. Len(second) /\ n + 1 + 1 = p
          BY <1>1, <1>10, <4>2
        <5> QED
          BY <1>10, <2>2, <4>2, <5>1
      <4> QED
        BY <1>4, <4>3 DEF Ends, Problem
    <3> HIDE DEF p
    <3>4. NodesOf(f) = SoFar(f, 1, p, {"node"})
      <4> DEFINE d == Decided(f)
      <4>1. /\ p \in d + 1 .. Len(f) + 1 /\ \A k \in d + 1 .. p - 1 : ~Ends(f[k], "bad node")
            /\ p # Len(f) + 1 => Ends(f[p], "bad node")
        BY <2>3, <3>1, <3>2, <3>3
      <4>2. NodesOf(f) = SoFar(f, d, p, {"node"})
        BY <1>2, <2>4, <4>1, ContentIs, Zenon DEF NodesOf
      <4> QED
        BY <2>3, <4>2
    <3> QED
      BY <3>4 DEF p
  <2>6. SoFar(f, 1, n + 2, {"node"}) = ns
    <3>1. SubSeq(f, 1 + 1, (n + 2) - 1) = ns
      BY <1>1, <1>5, <1>10, <2>2
    <3>2. Chosen(ns, {"node"}) = ns
      <4>1. \A k \in 1 .. Len(ns) : ns[k].kind \in {"node"}
        BY <1>5, <1>8
      <4> QED
        BY <1>5, <4>1, AllChosen
    <3> QED
      BY <3>1, <3>2 DEF SoFar
  <2>7. AsNodes(ns) = Renumbered(nodes)
    <3>1. DOMAIN ns = 1 .. n
      BY <1>1, <1>5
    <3> QED
      BY <1>1, <1>8, <3>1 DEF AsNodes, Renumbered
  <2>8. Readable(f) = f
    <3>1. ASSUME NEW k \in 1 .. Len(f)
          PROVE  f[k].ended
      <4>1. \/ k = 1
            \/ k - 1 \in 1 .. n /\ (k - 1) + 1 = k
            \/ k - (n + 1) \in 1 .. Len(second) /\ n + 1 + (k - (n + 1)) = k
        BY <1>1, <1>10, <2>2
      <4> QED
        BY <1>13, <1>14, <2>2, <4>1
    <3> QED
      BY <3>1, AllIsTaken
  <2> QED
    BY <1>9, <1>11, <2>4, <2>5, <2>6, <2>7, <2>8 DEF f
<1>12. CASE ~(n > 0)
  <2>1. first = <<>>
    BY <1>12
  <2> HIDE DEF first, second
  <2>2. f = second
    BY <1>3, <1>10, <2>1
  <2>3. ~IsOf(f, "gr") /\ ~IsOf(f, "co")
    <3>1. CASE m > 0
      <4>1. 1 \in 1 .. Len(f) /\ Len(f) \in Nat /\ Decides(f[1]) /\ 1 .. 1 - 1 = {} /\ f[1] = gr
        BY <1>4, <1>10, <2>2, <3>1
      <4>2. Decided(f) = 1
        BY <4>1, DecidedIs
      <4> QED
        BY <1>1, <1>4, <1>12, <4>1, <4>2 DEF IsOf
    <3>2. CASE ~(m > 0)
      <4>1. f = <<>>
        BY <1>10, <2>2, <3>2
      <4>2. Decided(f) = 0
        BY <4>1, NoneDecided
      <4> QED
        BY <4>2 DEF IsOf
    <3> QED
      BY <3>1, <3>2
  <2>4. Readable(f) = f
    BY <1>14, <2>2, AllIsTaken
  <2> QED
    BY <1>9, <1>12, <2>3, <2>4 DEF f
<1> QED
  BY <1>11, <1>12

\* What the last load was, if it was of a printed graph.
PrintIsReread ==
  loads # <<>> /\ This.op = "printed" =>
    /\ This.edges = AsArcs(Brought(Earlier)) /\ This.nodes = NodesAfter(Earlier)
    /\ ~IsOf(Taken(This), "gr")
    /\ IsOf(Taken(This), "co") <=> This.nodes # <<>>
    /\ This.nodes # <<>> => AsNodes(NodesOf(Taken(This))) = Renumbered(This.nodes)

LEMMA PrintStep ==
  ASSUME DimacsTypes, GraphIsRead, PrintIsReread, [Next]_vars
  PROVE  PrintIsReread'
<1>1. CASE UNCHANGED loads
  BY <1>1 DEF PrintIsReread, This, Earlier
<1>2. CASE Reload
  <2> DEFINE x == [op |-> "printed", file |-> Printed, nodes |-> nodes, edges |-> edges]
  <2>1. Opens(Readable(Printed), "graph", x) /\ x \in ALoad
    BY <1>2, LoadsOpen, OpenedTypes
  <2>2. Taken(x) = Printed /\ x.nodes = nodes /\ x.edges = edges
    <3>1. Readable(Printed) = Printed
      BY PrintedHolds DEF DimacsTypes
    <3> QED
      BY <3>1 DEF Taken
  <2> HIDE DEF x
  <2>3. Earlier' = loads /\ This' = x
    BY <2>1, FrontAndLast DEF Earlier, This, DimacsTypes, Opens
  <2>4. edges = AsArcs(Brought(loads)) /\ nodes = NodesAfter(loads)
    BY <2>1 DEF GraphIsRead, Opens
  <2>5. /\ ~IsOf(Printed, "gr")
        /\ IsOf(Printed, "co") <=> nodes # <<>>
        /\ nodes # <<>> => AsNodes(NodesOf(Printed)) = Renumbered(nodes)
    BY PrintedHolds DEF DimacsTypes
  <2> QED
    BY <2>2, <2>3, <2>4, <2>5 DEF PrintIsReread
<1>3. ASSUME NEW f \in GraphFiles, LoadGraph(f)
      PROVE  PrintIsReread'
  <2> DEFINE x == [op |-> "graph", file |-> f]
  <2>1. Opens(Readable(f), "graph", x) /\ x \in ALoad
    BY <1>3, LoadsOpen, OpenedTypes
  <2>2. x.op # "printed"
    OBVIOUS
  <2> HIDE DEF x
  <2>3. This' = x
    BY <2>1, FrontAndLast DEF This, DimacsTypes, Opens
  <2> QED
    BY <2>2, <2>3 DEF PrintIsReread
<1>4. ASSUME NEW f \in QueryFiles, LoadInstance(f)
      PROVE  PrintIsReread'
  <2> DEFINE x == [op |-> "queries", file |-> f]
  <2>1. Opens(Whole(f), "format", x) /\ x \in ALoad
    BY <1>4, LoadsOpen, OpenedTypes
  <2>2. x.op # "printed"
    OBVIOUS
  <2> HIDE DEF x
  <2>3. This' = x
    BY <2>1, FrontAndLast DEF This, DimacsTypes, Opens
  <2> QED
    BY <2>2, <2>3 DEF PrintIsReread
<1>5. Read \/ LoadMissing => UNCHANGED loads
  BY LoadsOpen, FindProblemFacts, ReadNodeFacts, ReadArcFacts, FindFormatFacts, ReadQueryFacts DEF Read
<1>6. UNCHANGED vars => UNCHANGED loads
  BY DEF vars
<1> QED
  BY <1>1, <1>2, <1>3, <1>4, <1>5, <1>6 DEF Next

\* What print writes brings the nodes back, numbered from 1, and no arc.
THEOREM DimacsPrintedReloads == Spec => []PrintedReloads
<1>1. Init => PrintIsReread
  BY DEF Init, PrintIsReread
<1>2. DimacsTypes /\ GraphIsRead /\ PrintIsReread /\ [Next]_vars => PrintIsReread'
  BY PrintStep
<1>3. ASSUME DimacsTypes, GraphIsRead, PrintIsReread
      PROVE  PrintedReloads
  <2> SUFFICES ASSUME mode = "idle", loads # <<>>, This.op = "printed"
               PROVE  edges = This.edges /\ nodes = Renumbered(This.nodes)
    BY DEF PrintedReloads, This, Renumbered
  <2>1. edges = AsArcs(Brought(loads)) /\ nodes = NodesAfter(loads)
    BY <1>3 DEF GraphIsRead
  <2>2. /\ This.edges = AsArcs(Brought(Earlier)) /\ This.nodes = NodesAfter(Earlier)
        /\ ~IsOf(Taken(This), "gr")
        /\ IsOf(Taken(This), "co") <=> This.nodes # <<>>
        /\ This.nodes # <<>> => AsNodes(NodesOf(Taken(This))) = Renumbered(This.nodes)
    BY <1>3 DEF PrintIsReread
  <2>3. ArcsIn(This) = <<>> /\ (BringsNodes(This) <=> This.nodes # <<>>)
    BY <2>2 DEF ArcsIn, ArcsOf, Content, BringsNodes
  <2>4. Brought(loads) = Brought(Earlier)
    BY <1>3, <2>3, ThisLoad, ConcatEmptySeq
  <2>5. NodesAfter(loads) = IF This.nodes # <<>> THEN Renumbered(This.nodes) ELSE This.nodes
    BY <1>3, <2>2, <2>3, ThisLoad
  <2>6. Renumbered(<<>>) = <<>>
    BY DEF Renumbered
  <2> QED
    BY <2>1, <2>2, <2>4, <2>5, <2>6
<1> QED
  BY <1>1, <1>2, <1>3, DimacsGraph, PTL DEF Spec

-----------------------------------------------------------------------------
(* The queries, while a file is read and between loads.                    *)

LEMMA MultipleFacts ==
  ASSUME NEW a \in Int, NEW d \in Nat \ {0}, a >= 1
  PROVE  a * d >= d /\ a * d \in Int
OBVIOUS

LEMMA DivExists ==
  ASSUME NEW n \in Int, NEW d \in Nat \ {0}
  PROVE  /\ n = (n \div d) * d + (n % d)
         /\ n % d \in 0 .. d - 1 /\ n \div d \in Int
OBVIOUS

LEMMA OneRest ==
  ASSUME NEW d \in Nat \ {0}, NEW p \in Int, NEW q \in Int, NEW r \in 0 .. d - 1, NEW s \in 0 .. d - 1,
         p * d + s = q * d + r
  PROVE  s = r
<1>1. (p - q) * d = r - s /\ (q - p) * d = s - r
  OBVIOUS
<1>2. ~(p - q >= 1)
  BY <1>1, MultipleFacts
<1>3. ~(q - p >= 1)
  BY <1>1, MultipleFacts
<1> QED
  BY <1>2, <1>3

LEMMA OneMoreTime ==
  ASSUME NEW W \in Nat \ {0}, NEW x \in Int
  PROVE  (x + W) % W = x % W
<1> DEFINE y == x + W
           p == x \div W
           q == y \div W
           r == x % W
           s == y % W
<1>1. x = p * W + r /\ r \in 0 .. W - 1 /\ p \in Int
  BY DivExists
<1>2. y = q * W + s /\ s \in 0 .. W - 1 /\ q \in Int
  <2>1. y \in Int
    OBVIOUS
  <2> HIDE DEF y
  <2> QED
    BY <2>1, DivExists
<1>3. y = x + W
  OBVIOUS
<1> HIDE DEF y, p, q, r, s
<1>4. p + 1 \in Int /\ (p + 1) * W + r = q * W + s
  BY <1>1, <1>2, <1>3
<1>5. r = s
  BY <1>1, <1>2, <1>4, OneRest
<1> QED
  BY <1>5 DEF r, s, y

\* Ids that a file counts from one are taken from zero, as the wrap has it.
LEMMA CountedFrom ==
  ASSUME NEW W \in Nat \ {0}, NEW x \in Nat, NEW o \in {0, 1}
  PROVE  (x - o) % W = (x + (W - o)) % W
<1> DEFINE y == x - o
<1>1. y \in Int /\ x + (W - o) = y + W
  OBVIOUS
<1> HIDE DEF y
<1>2. (y + W) % W = y % W
  BY <1>1, OneMoreTime
<1> QED
  BY <1>1, <1>2 DEF y

\* A query as a file of this kind has it.
AsQuery(l, kind) ==
  [source |-> (l.a + (Wrap - FormatOf(kind).id_offset)) % Wrap,
   target |-> IF FormatOf(kind).p2p
              THEN (l.b + (Wrap - FormatOf(kind).id_offset)) % Wrap ELSE INF32,
   p2p |-> FormatOf(kind).p2p]

LEMMA QueryTypes ==
  ASSUME NEW l \in AnyLine, NEW kind
  PROVE  AsQuery(l, kind) \in AQuery
<1> DEFINE o == FormatOf(kind).id_offset
           z == FormatOf(kind).p2p
<1>1. l.a \in Nat /\ l.b \in Nat /\ o \in {0, 1} /\ z \in BOOLEAN
  BY LineKinds DEF FormatOf
<1> HIDE DEF o, z
<1>2. \A x \in Nat : (x + (Wrap - o)) % Wrap \in Nat
  BY <1>1, LinesAssumption
<1>3. /\ (l.a + (Wrap - o)) % Wrap \in Nat
      /\ (IF z THEN (l.b + (Wrap - o)) % Wrap ELSE INF32) \in Nat \cup {INF32}
  BY <1>1, <1>2
<1> QED
  BY <1>1, <1>3 DEF AsQuery, AQuery, o, z

LEMMA QueryIsRead ==
  ASSUME NEW l \in AnyLine, NEW kind, format = FormatOf(kind)
  PROVE  ReadQueryOf(l) = AsQuery(l, kind)
<1>1. l.a \in Nat /\ l.b \in Nat /\ format.id_offset \in {0, 1} /\ Wrap \in Nat \ {0}
  BY LineKinds, LinesAssumption DEF FormatOf
<1>2. /\ (l.a - format.id_offset) % Wrap = (l.a + (Wrap - format.id_offset)) % Wrap
      /\ (l.b - format.id_offset) % Wrap = (l.b + (Wrap - format.id_offset)) % Wrap
  BY <1>1, CountedFrom
<1> QED
  BY <1>2, Zenon DEF ReadQueryOf, AsQuery, Target

LEMMA AsQueriesIs ==
  ASSUME NEW s \in Seq(AnyLine), NEW kind
  PROVE  /\ AsQueries(s, kind) = [k \in DOMAIN s |-> AsQuery(s[k], kind)]
         /\ AsQueries(s, kind) \in Seq(AQuery) /\ Len(AsQueries(s, kind)) = Len(s)
<1>1. AsQueries(s, kind) = [k \in DOMAIN s |-> AsQuery(s[k], kind)]
  BY DEF AsQueries, AsQuery, FormatOf
<1> DEFINE n == Len(s)
<1>2. n \in Nat /\ DOMAIN s = 1 .. n /\ \A k \in 1 .. n : s[k] \in AnyLine
  OBVIOUS
<1> HIDE DEF n
<1>3. \A k \in 1 .. n : AsQuery(s[k], kind) \in AQuery
  BY <1>2, QueryTypes
<1>4. AsQueries(s, kind) = [k \in 1 .. n |-> AsQuery(s[k], kind)]
  BY <1>1, <1>2
<1>5. AsQueries(s, kind) \in Seq(AQuery)
  BY <1>2, <1>3, <1>4, IsASeq
<1>6. Len(AsQueries(s, kind)) = n
  BY <1>2, <1>4, <1>5
<1> QED
  BY <1>1, <1>5, <1>6 DEF n

LEMMA AsQueriesAppend ==
  ASSUME NEW s \in Seq(AnyLine), NEW l \in AnyLine, NEW kind
  PROVE  AsQueries(Append(s, l), kind) = Append(AsQueries(s, kind), AsQuery(l, kind))
<1> DEFINE n == Len(s)
           a == Append(s, l)
           c == AsQueries(s, kind)
           e == AsQuery(l, kind)
<1>1. /\ n \in Nat /\ DOMAIN s = 1 .. n /\ DOMAIN a = 1 .. n + 1 /\ a[n + 1] = l
      /\ \A k \in 1 .. n : a[k] = s[k]
  OBVIOUS
<1>2. a \in Seq(AnyLine)
  OBVIOUS
<1>3. c \in Seq(AQuery) /\ Len(c) = n /\ c = [k \in 1 .. n |-> AsQuery(s[k], kind)]
  BY <1>1, AsQueriesIs
<1>4. e \in AQuery
  BY QueryTypes
<1> HIDE DEF n, a, c, e
<1>5. Append(c, e) = [k \in 1 .. n + 1 |-> IF k = n + 1 THEN e ELSE c[k]]
  <2>1. c \in Seq(AQuery) /\ Len(c) = n
    BY <1>3
  <2>2. Append(c, e) = [k \in 1 .. Len(c) + 1 |-> IF k = Len(c) + 1 THEN e ELSE c[k]]
    BY <1>4, <2>1, AppendIs
  <2> QED
    BY <2>1, <2>2
<1>6. \A k \in 1 .. n + 1 : AsQuery(a[k], kind) = IF k = n + 1 THEN e ELSE c[k]
  BY <1>1, <1>3 DEF e
<1>7. AsQueries(a, kind) = [k \in 1 .. n + 1 |-> AsQuery(a[k], kind)]
  BY <1>1, <1>2, AsQueriesIs
<1> QED
  BY <1>5, <1>6, <1>7 DEF a, c, e

LEMMA FormatPlace ==
  ASSUME NEW ls, Len(ls) \in Nat
  PROVE  FormatAt(ls) \in 0 .. Len(ls)
<1> DEFINE I == {k \in 1 .. Len(ls) : ls[k].kind \in Format}
<1>1. FormatAt(ls) = IF I # {} THEN Min(I) ELSE 0
  BY DEF FormatAt, SelectInSeq
<1>2. I # {} => Min(I) \in I
  <2>1. I \subseteq Nat
    OBVIOUS
  <2> HIDE DEF I
  <2> QED
    BY <2>1, LeastPlace
<1> QED
  BY <1>1, <1>2

LEMMA QueriesInTypes ==
  ASSUME NEW x \in ALoad
  PROVE  QueriesIn(x) \in Seq(AQuery)
<1>1. CASE x.op # "queries"
  BY <1>1 DEF QueriesIn
<1>2. CASE x.op = "queries"
  <2> DEFINE ls == Taken(x)
             d == FormatAt(ls)
  <2>1. ls \in Seq(AnyLine)
    BY <1>2, LoadFacts
  <2>2. d \in 0 .. Len(ls)
    BY <2>1, FormatPlace
  <2> HIDE DEF ls, d
  <2>3. SubSeq(ls, d + 1, Len(ls)) \in Seq(AnyLine)
    BY <2>1, <2>2
  <2>4. Chosen(SubSeq(ls, d + 1, Len(ls)), {"query"}) \in Seq(AnyLine)
    BY <2>3, ChosenTypes
  <2>5. AsQueries(Chosen(SubSeq(ls, d + 1, Len(ls)), {"query"}), ls[d].kind) \in Seq(AQuery)
    BY <2>4, AsQueriesIs
  <2> QED
    BY <1>2, <2>5 DEF QueriesIn, QueriesOf, ls, d
<1> QED
  BY <1>1, <1>2

LEMMA AskedByAppend ==
  ASSUME NEW ls \in Seq(ALoad), NEW x \in ALoad
  PROVE  /\ AskedBy(ls) \in Seq(AQuery)
         /\ AskedBy(Append(ls, x)) = AskedBy(ls) \o QueriesIn(x)
<1> DEFINE n == Len(ls)
           a == Append(ls, x)
           p == [k \in DOMAIN ls |-> QueriesIn(ls[k])]
           q == [k \in DOMAIN a |-> QueriesIn(a[k])]
<1>1. /\ n \in Nat /\ DOMAIN ls = 1 .. n /\ DOMAIN a = 1 .. n + 1 /\ a[n + 1] = x
      /\ \A k \in 1 .. n : a[k] = ls[k] /\ ls[k] \in ALoad
  OBVIOUS
<1> HIDE DEF n, a
<1>2. \A k \in 1 .. n : QueriesIn(ls[k]) \in Seq(AQuery)
  BY <1>1, QueriesInTypes
<1>3. p \in Seq(Seq(AQuery)) /\ Len(p) = n
  <2>1. p = [k \in 1 .. n |-> QueriesIn(ls[k])]
    BY <1>1
  <2>2. p \in Seq(Seq(AQuery))
    BY <1>1, <1>2, <2>1, IsASeq
  <2> QED
    BY <1>1, <2>1, <2>2
<1>4. QueriesIn(x) \in Seq(AQuery)
  BY QueriesInTypes
<1>5. q = Append(p, QueriesIn(x))
  <2>1. Append(p, QueriesIn(x)) = [k \in 1 .. n + 1 |-> IF k = n + 1 THEN QueriesIn(x) ELSE p[k]]
    BY <1>3, <1>4
  <2>2. \A k \in 1 .. n + 1 : QueriesIn(a[k]) = IF k = n + 1 THEN QueriesIn(x) ELSE p[k]
    BY <1>1
  <2> QED
    BY <1>1, <2>1, <2>2
<1>6. AskedBy(ls) = FlattenSeq(p) /\ AskedBy(a) = FlattenSeq(q)
  BY Zenon DEF AskedBy
<1> HIDE DEF p, q
<1> QED
  BY <1>3, <1>4, <1>5, <1>6, FlattenTypes, FlattenAppend DEF a

QueriesAreRead ==
  /\ mode = "idle" => queries = AskedBy(loads)
  /\ mode \notin {"idle", "queries"} => queries = AskedBy(Earlier)
  /\ mode = "format" => \A k \in 1 .. pos - 1 : lines[k].kind \notin Format
  /\ mode = "queries" =>
       LET d == FormatAt(lines)
       IN  /\ d \in 1 .. pos - 1 /\ format = FormatOf(lines[d].kind)
           /\ queries = AskedBy(Earlier) \o AsQueries(SoFar(lines, d, pos, {"query"}), lines[d].kind)

LEMMA ThisAsks ==
  ASSUME DimacsTypes, loads # <<>>
  PROVE  /\ AskedBy(Earlier) \in Seq(AQuery)
         /\ AskedBy(loads) = AskedBy(Earlier) \o QueriesIn(This)
         /\ QueriesIn(This) = <<>> => AskedBy(loads) = AskedBy(Earlier)
<1>1. Earlier \in Seq(ALoad) /\ This \in ALoad /\ loads = Append(Earlier, This)
  BY FrontAndLast DEF DimacsTypes, Earlier, This
<1>2. AskedBy(Earlier) \in Seq(AQuery) /\ AskedBy(loads) = AskedBy(Earlier) \o QueriesIn(This)
  BY <1>1, AskedByAppend
<1> QED
  BY <1>2, ConcatEmptySeq

LEMMA QueriesOpen ==
  ASSUME DimacsTypes, QueriesAreRead, NEW ls, NEW m \in {"graph", "format"}, NEW x \in ALoad,
         Opens(ls, m, x)
  PROVE  QueriesAreRead'
<1>1. Earlier' = loads
  BY FrontAndLast DEF Earlier, DimacsTypes, Opens
<1>2. queries = AskedBy(loads)
  BY DEF QueriesAreRead, Opens
<1>3. mode' = m /\ pos' = 1 /\ queries' = queries
  BY DEF Opens
<1> QED
  BY <1>1, <1>2, <1>3 DEF QueriesAreRead

LEMMA QueriesFound ==
  ASSUME DimacsTypes, GraphIsRead, QueriesAreRead, FindFormat
  PROVE  QueriesAreRead'
<1>1. /\ mode = "format" /\ FormatFound
      /\ UNCHANGED <<nodes, edges, queries, lines, loads>>
  BY FindFormatFacts
<1>2. mode # "idle" /\ mode # "queries" /\ mode \in {"format", "queries"}
  BY <1>1
<1>3. lines \in Seq(AnyLine) /\ Len(lines) \in Nat /\ pos \in 1 .. Len(lines) + 1 /\ loads # <<>>
  BY <1>2 DEF DimacsTypes
<1>4. /\ queries = AskedBy(Earlier) /\ \A k \in 1 .. pos - 1 : lines[k].kind \notin Format
      /\ This.op = "queries" /\ lines = Taken(This)
  BY <1>1, <1>2 DEF QueriesAreRead, GraphIsRead
<1>5. Earlier' = Earlier
  BY <1>1 DEF Earlier
<1>6. CASE mode' = "idle"
  <2>1. AtEnd
    BY <1>1, <1>6 DEF FormatFound
  <2>2. \A k \in 1 .. Len(lines) : lines[k].kind \notin Format
    BY <1>3, <1>4, <2>1 DEF AtEnd
  <2>3. FormatAt(lines) = 0
    BY <1>3, <2>2, FormatFacts
  <2>4. QueriesIn(This) = <<>>
    BY <1>4, <2>3 DEF QueriesIn, QueriesOf
  <2>5. queries' = AskedBy(loads')
    BY <1>1, <1>3, <1>4, <2>4, ThisAsks
  <2> QED
    BY <1>6, <2>5 DEF QueriesAreRead
<1>7. CASE mode' = "format"
  <2>1. pos' = pos + 1 /\ lines[pos].kind \notin Format
    BY <1>1, <1>7 DEF FormatFound
  <2>2. \A k \in 1 .. pos' - 1 : lines'[k].kind \notin Format
    BY <1>1, <1>3, <1>4, <2>1
  <2>3. queries' = AskedBy(Earlier')
    BY <1>1, <1>4, <1>5
  <2> QED
    BY <1>7, <2>2, <2>3 DEF QueriesAreRead
<1>8. CASE mode' = "queries"
  <2>1. ~AtEnd /\ pos' = pos + 1 /\ lines[pos].kind \in Format /\ format' = FormatOf(lines[pos].kind)
    BY <1>1, <1>8 DEF FormatFound
  <2>2. pos \in 1 .. Len(lines)
    BY <2>1, LineAtPos
  <2>3. FormatAt(lines) = pos
    BY <1>3, <1>4, <2>1, <2>2, FormatFacts
  <2>4. SoFar(lines, pos, pos + 1, {"query"}) = <<>>
    <3>1. pos \in 0 .. Len(lines)
      BY <2>2
    <3> QED
      BY <1>3, <3>1, NoneSoFar
  <2>5. AsQueries(<<>>, lines[pos].kind) = <<>>
    BY DEF AsQueries
  <2>6. queries = AskedBy(Earlier) \o <<>>
    BY <1>3, <1>4, ThisAsks, ConcatEmptySeq
  <2>7. /\ FormatAt(lines') \in 1 .. pos' - 1 /\ format' = FormatOf(lines'[FormatAt(lines')].kind)
        /\ queries' = AskedBy(Earlier')
             \o AsQueries(SoFar(lines', FormatAt(lines'), pos', {"query"}), lines'[FormatAt(lines')].kind)
    <3>1. FormatAt(lines') \in 1 .. pos' - 1
      BY <1>1, <2>1, <2>2, <2>3
    <3>2. format' = FormatOf(lines'[FormatAt(lines')].kind)
      BY <1>1, <2>1, <2>3
    <3> QED
      BY <1>1, <1>5, <2>1, <2>3, <2>4, <2>5, <2>6, <3>1, <3>2
  <2> QED
    BY <1>8, <2>7 DEF QueriesAreRead
<1> QED
  BY <1>1, <1>6, <1>7, <1>8 DEF FormatFound

LEMMA QueriesNext ==
  ASSUME DimacsTypes, GraphIsRead, QueriesAreRead, ReadQuery
  PROVE  QueriesAreRead'
<1> DEFINE d == FormatAt(lines)
           kind == lines[d].kind
           old == AskedBy(Earlier)
           had == SoFar(lines, d, pos, {"query"})
<1>1. /\ mode = "queries" /\ QueryRead
      /\ UNCHANGED <<nodes, edges, lines, format, loads>>
  BY ReadQueryFacts
<1>2. mode # "idle" /\ mode \in {"format", "queries"}
  BY <1>1
<1>3. lines \in Seq(AnyLine) /\ Len(lines) \in Nat /\ pos \in 1 .. Len(lines) + 1 /\ loads # <<>>
  BY <1>2 DEF DimacsTypes
<1>4. This.op = "queries" /\ lines = Taken(This)
  BY <1>1, <1>2 DEF GraphIsRead
<1>5. /\ d \in 1 .. pos - 1 /\ format = FormatOf(kind)
      /\ queries = old \o AsQueries(had, kind)
  BY <1>1 DEF QueriesAreRead
<1>6. Earlier' = Earlier
  BY <1>1 DEF Earlier
<1>7. old \in Seq(AQuery) /\ AskedBy(loads) = old \o QueriesIn(This)
  BY <1>3, ThisAsks
<1>8. CASE mode' = "idle"
  <2>1. AtEnd /\ queries' = queries
    BY <1>1, <1>8 DEF QueryRead
  <2>2. pos - 1 = Len(lines)
    BY <1>3, <2>1 DEF AtEnd
  <2>3. d # 0
    BY <1>3, <1>5
  <2>4. QueriesIn(This) = AsQueries(had, kind)
    BY <1>4, <2>2, <2>3 DEF QueriesIn, QueriesOf, SoFar
  <2>5. queries' = AskedBy(loads')
    BY <1>1, <1>5, <1>7, <2>1, <2>4
  <2> QED
    BY <1>8, <2>5 DEF QueriesAreRead
<1>9. CASE mode' = "queries"
  <2>1. ~AtEnd /\ pos' = pos + 1
    BY <1>1, <1>9 DEF QueryRead
  <2>2. queries' = IF lines[pos].kind = "query" THEN Append(queries, ReadQueryOf(lines[pos])) ELSE queries
    BY <1>1, <1>9 DEF QueryRead
  <2> DEFINE p == pos
             l == lines[p]
             more == SoFar(lines, d, p + 1, {"query"})
  <2>3. /\ p \in d + 1 .. Len(lines) /\ d \in 0 .. Len(lines) /\ d \in 1 .. p
        /\ l \in AnyLine /\ lines \in Seq(AnyLine)
    <3>1. pos \in 1 .. Len(lines) /\ lines[pos] \in AnyLine
      BY <2>1, LineAtPos
    <3> HIDE DEF d
    <3> QED
      BY <1>3, <1>5, <3>1
  <2>4. had \in Seq(AnyLine) /\ more = IF l.kind \in {"query"} THEN Append(had, l) ELSE had
    <3> HIDE DEF p, d
    <3>1. /\ SoFar(lines, d, p, {"query"}) \in Seq(AnyLine)
          /\ SoFar(lines, d, p + 1, {"query"})
               = IF lines[p].kind \in {"query"} THEN Append(SoFar(lines, d, p, {"query"}), lines[p])
                 ELSE SoFar(lines, d, p, {"query"})
      BY <2>3, OneMoreSoFar
    <3> QED
      BY <3>1 DEF p
  <2>5. ReadQueryOf(l) = AsQuery(l, kind) /\ AsQuery(l, kind) \in AQuery
    BY <1>5, <2>3, QueryIsRead, QueryTypes
  <2>6. queries' = old \o AsQueries(more, kind)
    <3> DEFINE c == AsQueries(had, kind)
               e == AsQuery(l, kind)
    <3>1. c \in Seq(AQuery) /\ AsQueries(Append(had, l), kind) = Append(c, e)
      BY <2>3, <2>4, AsQueriesIs, AsQueriesAppend
    <3>2. queries' = IF l.kind = "query" THEN Append(old \o c, e) ELSE old \o c
      BY <1>5, <2>2, <2>5
    <3> HIDE DEF old, c, e, had, l, more, kind
    <3>3. Append(old \o c, e) = old \o Append(c, e)
      <4>1. old \in Seq(AQuery) /\ c \in Seq(AQuery)
        BY <1>7, <3>1
      <4>2. e \in AQuery
        BY <2>5 DEF e
      <4> QED
        BY <4>1, <4>2
    <3> QED
      BY <2>4, <3>1, <3>2, <3>3 DEF c
  <2>7. FormatAt(lines') \in 1 .. pos' - 1
    BY <1>1, <2>1, <2>3
  <2>8. format' = FormatOf(lines'[FormatAt(lines')].kind)
    BY <1>1, <1>5
  <2>9. queries' = AskedBy(Earlier')
          \o AsQueries(SoFar(lines', FormatAt(lines'), pos', {"query"}), lines'[FormatAt(lines')].kind)
    BY <1>1, <1>6, <2>1, <2>6
  <2> QED
    BY <1>9, <2>7, <2>8, <2>9 DEF QueriesAreRead
<1> QED
  BY <1>1, <1>8, <1>9 DEF QueryRead

LEMMA QueriesElsewhere ==
  ASSUME DimacsTypes, GraphIsRead, QueriesAreRead, FindProblem \/ ReadNode \/ ReadArc
  PROVE  QueriesAreRead'
<1>1. /\ mode \in {"graph", "co", "gr"} /\ mode' \in {"graph", "co", "gr", "idle"}
      /\ UNCHANGED <<queries, loads>>
  <2>1. CASE FindProblem
    BY <2>1, FindProblemFacts DEF ProblemFound
  <2>2. CASE ReadNode
    BY <2>2, ReadNodeFacts DEF LineRead
  <2>3. CASE ReadArc
    BY <2>3, ReadArcFacts DEF LineRead
  <2> QED
    BY <2>1, <2>2, <2>3
<1>2. loads # <<>>
  BY <1>1 DEF DimacsTypes
<1>3. queries = AskedBy(Earlier) /\ QueriesIn(This) = <<>>
  BY <1>1 DEF QueriesAreRead, GraphIsRead, QueriesIn
<1>4. Earlier' = Earlier
  BY <1>1 DEF Earlier
<1>5. queries' = AskedBy(loads') /\ queries' = AskedBy(Earlier')
  BY <1>1, <1>2, <1>3, <1>4, ThisAsks
<1> QED
  BY <1>1, <1>5 DEF QueriesAreRead

LEMMA QueriesStep ==
  ASSUME DimacsTypes, GraphIsRead, QueriesAreRead, [Next]_vars
  PROVE  QueriesAreRead'
<1>1. CASE UNCHANGED vars
  BY <1>1 DEF vars, loading, QueriesAreRead, Earlier
<1>2. ASSUME NEW f \in GraphFiles, LoadGraph(f)
      PROVE  QueriesAreRead'
  <2> DEFINE x == [op |-> "graph", file |-> f]
  <2>1. Opens(Readable(f), "graph", x) /\ x \in ALoad
    BY <1>2, LoadsOpen, OpenedTypes
  <2> HIDE DEF x
  <2> QED
    BY <2>1, QueriesOpen
<1>3. ASSUME NEW f \in QueryFiles, LoadInstance(f)
      PROVE  QueriesAreRead'
  <2> DEFINE x == [op |-> "queries", file |-> f]
  <2>1. Opens(Whole(f), "format", x) /\ x \in ALoad
    BY <1>3, LoadsOpen, OpenedTypes
  <2> HIDE DEF x
  <2> QED
    BY <2>1, QueriesOpen
<1>4. CASE Reload
  <2> DEFINE x == [op |-> "printed", file |-> Printed, nodes |-> nodes, edges |-> edges]
  <2>1. Opens(Readable(Printed), "graph", x) /\ x \in ALoad
    BY <1>4, LoadsOpen, OpenedTypes
  <2> HIDE DEF x
  <2> QED
    BY <2>1, QueriesOpen
<1>5. CASE LoadMissing
  BY <1>5, LoadsOpen DEF QueriesAreRead, Earlier
<1> QED
  BY <1>1, <1>2, <1>3, <1>4, <1>5, QueriesFound, QueriesNext, QueriesElsewhere DEF Next, Read

\* The experiments are the queries of all files, each up to its first line
\* that is not taken whole, counted from zero.
THEOREM DimacsQueriesAreLoaded == Spec => []QueriesAreLoaded
<1>1. Init => QueriesAreRead
  BY NoneBrought DEF Init, QueriesAreRead
<1>2. DimacsTypes /\ GraphIsRead /\ QueriesAreRead /\ [Next]_vars => QueriesAreRead'
  BY QueriesStep
<1>3. QueriesAreRead => QueriesAreLoaded
  BY Zenon DEF QueriesAreRead, QueriesAreLoaded, AskedBy
<1> QED
  BY <1>1, <1>2, <1>3, DimacsGraph, PTL DEF Spec

-----------------------------------------------------------------------------
(* The undirected graph that the converter makes of the arcs.              *)

Ids == 0 .. Wrap - 1

\* x and y are new ids of nodes with an edge between them.
Adjacent(C, P, order, low, x, y) ==
  \E u, v \in C : {u, v} \in P /\ x = Moved(u, order, low) /\ y = Moved(v, order, low)

\* g stands for the nodes C and the edges P between them, by their new ids.
GraphOf(g, C, P, order, low) ==
  /\ C \subseteq Ids /\ \A u \in C : Included(u, order, low)
  /\ IsFiniteSet(C) /\ IsFiniteSet(P)
  /\ g \in [nodes : SUBSET Nat, adj : SUBSET (Nat \X Nat), num : Nat]
  /\ g.nodes = {Moved(u, order, low) : u \in C}
  /\ \A x, y : <<x, y>> \in g.adj <=> Adjacent(C, P, order, low, x, y)
  /\ g.num = Cardinality(P)

LEMMA MovedTypes ==
  ASSUME NEW u \in Ids, NEW order, NEW low \in Nat
  PROVE  Moved(u, order, low) \in Nat
<1>1. u \in Nat /\ Wrap \in Nat \ {0}
  BY LinesAssumption DEF Ids
<1>2. (u - low) % Wrap \in Nat
  BY <1>1
<1> QED
  BY <1>1, <1>2 DEF Moved

\* Ids of the core are moved to different ids.
LEMMA MovedApart ==
  ASSUME NEW u \in Ids, NEW v \in Ids, NEW order, NEW low \in Nat,
         Included(u, order, low), Included(v, order, low),
         Moved(u, order, low) = Moved(v, order, low)
  PROVE  u = v
<1>1. u \in 0 .. Wrap - 1 /\ v \in 0 .. Wrap - 1 /\ Wrap \in Nat \ {0}
  BY LinesAssumption DEF Ids
<1>2. CASE order = <<>>
  BY <1>2 DEF Moved
<1>3. CASE order # <<>>
  <2> DEFINE x == u - low
             y == v - low
             p == x \div Wrap
             q == y \div Wrap
             r == x % Wrap
             s == y % Wrap
  <2>1. x \in Int /\ y \in Int /\ x - y = u - v
    BY <1>1
  <2>2. r = s
    BY <1>3 DEF Moved
  <2> HIDE DEF x, y
  <2>3. x = p * Wrap + r /\ p \in Int /\ r \in Int
    BY <1>1, <2>1, DivExists
  <2>4. y = q * Wrap + s /\ q \in Int
    BY <1>1, <2>1, DivExists
  <2> HIDE DEF p, q, r, s
  <2>5. (p - q) * Wrap = u - v /\ (q - p) * Wrap = v - u
    BY <1>1, <2>1, <2>2, <2>3, <2>4
  <2>6. ~(p - q >= 1)
    BY <1>1, <2>3, <2>4, <2>5, MultipleFacts
  <2>7. ~(q - p >= 1)
    BY <1>1, <2>3, <2>4, <2>5, MultipleFacts
  <2>8. p = q
    BY <2>3, <2>4, <2>6, <2>7
  <2>9. x = y
    BY <2>2, <2>3, <2>4, <2>8
  <2> QED
    BY <1>1, <2>1, <2>9
<1> QED
  BY <1>2, <1>3

LEMMA NoGraph ==
  ASSUME NEW order, NEW low \in Nat
  PROVE  GraphOf([nodes |-> {}, adj |-> {}, num |-> 0], {}, {}, order, low)
BY FS_EmptySet DEF GraphOf, Adjacent

\* Nodes are there before their arc is.
LEMMA NodesJoin ==
  ASSUME NEW g, NEW C, NEW P, NEW order, NEW low \in Nat, GraphOf(g, C, P, order, low),
         \A p \in P : p \subseteq C,
         NEW D \in SUBSET Ids, IsFiniteSet(D), \A u \in D : Included(u, order, low)
  PROVE  GraphOf([g EXCEPT !.nodes = @ \cup {Moved(u, order, low) : u \in D}],
                 C \cup D, P, order, low)
<1> DEFINE new == {Moved(u, order, low) : u \in D}
           h == [g EXCEPT !.nodes = @ \cup new]
           E == C \cup D
<1>1. /\ C \subseteq Ids /\ \A u \in C : Included(u, order, low)
      /\ IsFiniteSet(C) /\ IsFiniteSet(P)
      /\ g \in [nodes : SUBSET Nat, adj : SUBSET (Nat \X Nat), num : Nat]
      /\ g.nodes = {Moved(u, order, low) : u \in C}
      /\ g.num = Cardinality(P)
  BY DEF GraphOf
<1>2. \A x, y : <<x, y>> \in g.adj <=> Adjacent(C, P, order, low, x, y)
  BY DEF GraphOf
<1>3. new \subseteq Nat
  BY MovedTypes
<1>4. /\ h.nodes = g.nodes \cup new /\ h.adj = g.adj /\ h.num = g.num
      /\ h \in [nodes : SUBSET Nat, adj : SUBSET (Nat \X Nat), num : Nat]
  <2> HIDE DEF new
  <2> QED
    BY <1>1, <1>3
<1>5. IsFiniteSet(E) /\ E \subseteq Ids /\ \A u \in E : Included(u, order, low)
  BY <1>1, FS_Union
<1>6. h.nodes = {Moved(u, order, low) : u \in E}
  BY <1>1, <1>4
<1>7. ASSUME NEW x, NEW y
      PROVE  <<x, y>> \in h.adj <=> Adjacent(E, P, order, low, x, y)
  <2>1. \A u, v : {u, v} \in P => u \in C /\ v \in C
    OBVIOUS
  <2>2. C \subseteq E
    OBVIOUS
  <2> HIDE DEF E
  <2>3. Adjacent(C, P, order, low, x, y) <=> Adjacent(E, P, order, low, x, y)
    BY <2>1, <2>2 DEF Adjacent
  <2>4. h.adj = g.adj
    BY <1>4
  <2> HIDE DEF h
  <2> QED
    BY <1>2, <2>3, <2>4
<1> HIDE DEF h, E
<1>8. GraphOf(h, E, P, order, low)
  BY <1>1, <1>4, <1>5, <1>6, <1>7 DEF GraphOf
<1> QED
  BY <1>8 DEF h, E

\* An arc adds its edge, and counts it if it was not there.
LEMMA ArcJoins ==
  ASSUME NEW g, NEW C, NEW P, NEW order, NEW low \in Nat, GraphOf(g, C, P, order, low),
         NEW a \in C, NEW b \in C
  PROVE  GraphOf(AddArc(g, Moved(a, order, low), Moved(b, order, low)),
                 C, P \cup {{a, b}}, order, low)
<1> DEFINE To(u) == Moved(u, order, low)
           s == To(a)
           t == To(b)
           h == AddArc(g, s, t)
           Q == P \cup {{a, b}}
<1>0. \A R, x, y : Adjacent(C, R, order, low, x, y)
                     <=> \E u, v \in C : {u, v} \in R /\ x = To(u) /\ y = To(v)
  BY DEF Adjacent
<1>1. /\ C \subseteq Ids /\ \A u \in C : Included(u, order, low)
      /\ IsFiniteSet(C) /\ IsFiniteSet(P)
      /\ g \in [nodes : SUBSET Nat, adj : SUBSET (Nat \X Nat), num : Nat]
      /\ g.nodes = {To(u) : u \in C}
      /\ g.num = Cardinality(P)
  BY DEF GraphOf
<1>2. \A x, y : <<x, y>> \in g.adj <=> Adjacent(C, P, order, low, x, y)
  BY DEF GraphOf
<1>3. \A u, v \in C : To(u) = To(v) => u = v
  BY <1>1, MovedApart
<1>4. s \in Nat /\ t \in Nat
  BY <1>1, MovedTypes
<1> HIDE DEF To
<1>5. {<<s, t>>, <<t, s>>} \cap g.adj = {} <=> {a, b} \notin P
  <2>1. ASSUME {a, b} \in P
        PROVE  <<s, t>> \in g.adj
    <3>1. Adjacent(C, P, order, low, s, t)
      BY <1>0, <2>1
    <3> QED
      BY <1>2, <3>1
  <2>2. ASSUME NEW x \in C, NEW y \in C, {x, y} \in P,
               \/ s = To(x) /\ t = To(y)
               \/ t = To(x) /\ s = To(y)
        PROVE  {a, b} \in P
    <3>1. (x = a /\ y = b) \/ (x = b /\ y = a)
      BY <1>3, <2>2
    <3>2. {x, y} = {a, b}
      BY <3>1
    <3> QED
      BY <2>2, <3>2
  <2>3. <<s, t>> \in g.adj \/ <<t, s>> \in g.adj => {a, b} \in P
    <3> HIDE DEF s, t
    <3>1. ASSUME Adjacent(C, P, order, low, s, t)
          PROVE  {a, b} \in P
      <4>1. \E x, y \in C : {x, y} \in P /\ s = To(x) /\ t = To(y)
        BY <3>1 DEF Adjacent, To
      <4> QED
        BY <2>2, <4>1
    <3>2. ASSUME Adjacent(C, P, order, low, t, s)
          PROVE  {a, b} \in P
      <4>1. \E x, y \in C : {x, y} \in P /\ t = To(x) /\ s = To(y)
        BY <3>2 DEF Adjacent, To
      <4> QED
        BY <2>2, <4>1
    <3>3. <<s, t>> \in g.adj => Adjacent(C, P, order, low, s, t)
      BY <1>2
    <3>4. <<t, s>> \in g.adj => Adjacent(C, P, order, low, t, s)
      BY <1>2
    <3> QED
      BY <3>1, <3>2, <3>3, <3>4
  <2> QED
    BY <2>1, <2>3
<1>6. /\ h.nodes = g.nodes /\ h.adj = g.adj \cup {<<s, t>>, <<t, s>>}
      /\ h.num = IF {a, b} \notin P THEN g.num + 1 ELSE g.num
      /\ h \in [nodes : SUBSET Nat, adj : SUBSET (Nat \X Nat), num : Nat]
  <2> HIDE DEF s, t
  <2>1. /\ h.nodes = g.nodes /\ h.adj = g.adj \cup {<<s, t>>, <<t, s>>}
        /\ h.num = IF {a, b} \notin P THEN g.num + 1 ELSE g.num
    BY <1>5 DEF AddArc
  <2>2. /\ h = [nodes |-> h.nodes, num |-> h.num, adj |-> h.adj]
    BY DEF AddArc
  <2>3. h.nodes \in SUBSET Nat /\ h.adj \in SUBSET (Nat \X Nat) /\ h.num \in Nat
    <3> HIDE DEF h
    <3> QED
      BY <1>1, <1>4, <2>1
  <2> HIDE DEF h
  <2>4. [nodes |-> h.nodes, num |-> h.num, adj |-> h.adj]
          \in [nodes : SUBSET Nat, adj : SUBSET (Nat \X Nat), num : Nat]
    BY <2>3
  <2> QED
    BY <2>1, <2>2, <2>4
<1>7. IsFiniteSet(Q) /\ h.num = Cardinality(Q)
  <2> DEFINE p == {a, b}
  <2> HIDE DEF h, p
  <2>1. /\ IsFiniteSet(P \cup {p})
        /\ Cardinality(P \cup {p}) = IF p \in P THEN Cardinality(P) ELSE Cardinality(P) + 1
    BY <1>1, FS_AddElement
  <2>2. g.num = Cardinality(P) /\ h.num = IF p \notin P THEN g.num + 1 ELSE g.num
    BY <1>1, <1>6 DEF p
  <2>3. h.num = Cardinality(P \cup {p})
    BY <2>1, <2>2
  <2> QED
    BY <2>1, <2>3 DEF p
<1> HIDE DEF h
<1>8. ASSUME NEW x, NEW y
      PROVE  <<x, y>> \in h.adj <=> Adjacent(C, Q, order, low, x, y)
  <2>1. ASSUME <<x, y>> \in h.adj
        PROVE  \E u, v \in C : {u, v} \in Q /\ x = To(u) /\ y = To(v)
    <3>1. CASE <<x, y>> \in g.adj
      <4>1. Adjacent(C, P, order, low, x, y)
        BY <1>2, <3>1
      <4>2. P \subseteq Q
        OBVIOUS
      <4> QED
        <5>1. \E u, v \in C : {u, v} \in P /\ x = To(u) /\ y = To(v)
          BY <4>1 DEF Adjacent, To
        <5> QED
          BY <4>2, <5>1
    <3>2. CASE x = s /\ y = t
      BY <3>2
    <3>3. CASE x = t /\ y = s
      <4>1. {b, a} = {a, b}
        OBVIOUS
      <4> QED
        BY <3>3, <4>1
    <3>4. <<x, y>> \in g.adj \/ <<x, y>> = <<s, t>> \/ <<x, y>> = <<t, s>>
      BY <1>6, <2>1
    <3>5. <<x, y>> \in g.adj \/ (x = s /\ y = t) \/ (x = t /\ y = s)
      <4> HIDE DEF s, t
      <4> QED
        BY <3>4
    <3> QED
      BY <3>1, <3>2, <3>3, <3>5
  <2>2. ASSUME NEW u \in C, NEW v \in C, {u, v} \in Q, x = To(u), y = To(v)
        PROVE  <<x, y>> \in h.adj
    <3>1. CASE {u, v} \in P
      <4>1. Adjacent(C, P, order, low, x, y)
        BY <1>0, <2>2, <3>1
      <4>2. <<x, y>> \in g.adj
        BY <1>2, <4>1
      <4> QED
        BY <1>6, <4>2
    <3>2. CASE {u, v} = {a, b}
      <4>1. (u = a /\ v = b) \/ (u = b /\ v = a)
        BY <3>2
      <4> QED
        BY <1>6, <2>2, <4>1
    <3> QED
      BY <2>2, <3>1, <3>2
  <2>3. Adjacent(C, Q, order, low, x, y)
          <=> \E u, v \in C : {u, v} \in Q /\ x = To(u) /\ y = To(v)
    BY DEF Adjacent, To
  <2> QED
    BY <2>1, <2>2, <2>3
<1> HIDE DEF Q
<1>9. GraphOf(h, C, Q, order, low)
  BY <1>1, <1>6, <1>7, <1>8 DEF GraphOf, To
<1> QED
  BY <1>9 DEF h, Q, s, t, To

-----------------------------------------------------------------------------
(* The arcs one after the other.                                           *)

EndsIn(es, k) == UNION {{es[e].tail, es[e].head} : e \in 1 .. k}
PairsIn(es, k) == {{es[e].tail, es[e].head} : e \in 1 .. k}
CoreIn(es, k, order, low) == {u \in EndsIn(es, k) : Included(u, order, low)}
EdgesIn(es, k, order, low) ==
  {p \in PairsIn(es, k) : p \subseteq CoreIn(es, k, order, low)}

FitArcs == [tail : Ids, head : Ids]

LEMMA OneMoreArc ==
  ASSUME NEW es \in Seq(FitArcs), NEW k \in 0 .. Len(es) - 1, NEW order, NEW low \in Nat, NEW g,
         GraphOf(g, CoreIn(es, k, order, low), EdgesIn(es, k, order, low), order, low)
  PROVE  GraphOf(AddEdge(g, es[k + 1], order, low),
                 CoreIn(es, k + 1, order, low), EdgesIn(es, k + 1, order, low), order, low)
<1> DEFINE e == es[k + 1]
           C == CoreIn(es, k, order, low)
           P == EdgesIn(es, k, order, low)
           In(u) == Included(u, order, low)
           D == {u \in {e.head, e.tail} : In(u)}
           seen == [g EXCEPT !.nodes = @ \cup {Moved(u, order, low) : u \in D}]
<1>1. e.tail \in Ids /\ e.head \in Ids
  <2>1. k + 1 \in 1 .. Len(es)
    OBVIOUS
  <2>2. e \in FitArcs
    BY <2>1
  <2> QED
    BY <2>2 DEF FitArcs
<1>2. 1 .. k + 1 = 1 .. k \cup {k + 1}
  OBVIOUS
<1>3. EndsIn(es, k + 1) = EndsIn(es, k) \cup {e.tail, e.head}
  <2> HIDE DEF e
  <2>1. {{es[m].tail, es[m].head} : m \in 1 .. k + 1}
          = {{es[m].tail, es[m].head} : m \in 1 .. k} \cup {{e.tail, e.head}}
    BY <1>2 DEF e
  <2> QED
    BY <2>1 DEF EndsIn
<1>4. PairsIn(es, k + 1) = PairsIn(es, k) \cup {{e.tail, e.head}}
  BY <1>2 DEF PairsIn
<1>5. CoreIn(es, k + 1, order, low) = C \cup D
  BY <1>3 DEF CoreIn
<1>6. \A p \in PairsIn(es, k) : p \subseteq EndsIn(es, k)
  BY DEF PairsIn, EndsIn
<1>7. \A p \in PairsIn(es, k) : p \subseteq C \cup D <=> p \subseteq C
  BY <1>6 DEF CoreIn
<1>8. {e.tail, e.head} \subseteq C \cup D <=> In(e.head) /\ In(e.tail)
  BY DEF CoreIn
<1>9. EdgesIn(es, k + 1, order, low)
        = P \cup (IF In(e.head) /\ In(e.tail) THEN {{e.head, e.tail}} ELSE {})
  <2>1. {e.tail, e.head} = {e.head, e.tail}
    OBVIOUS
  <2> HIDE DEF e, C, D, In
  <2>2. EdgesIn(es, k + 1, order, low) = {p \in PairsIn(es, k + 1) : p \subseteq C \cup D}
    BY <1>5 DEF EdgesIn
  <2>3. P = {p \in PairsIn(es, k) : p \subseteq C}
    BY DEF EdgesIn, C
  <2> HIDE DEF P
  <2> QED
    BY <1>4, <1>7, <1>8, <2>1, <2>2, <2>3
<1>10. GraphOf(seen, C \cup D, P, order, low)
  <2>1. GraphOf(g, C, P, order, low) /\ \A p \in P : p \subseteq C
    BY DEF EdgesIn
  <2>2. D \in SUBSET Ids /\ \A u \in D : Included(u, order, low)
    BY <1>1
  <2>3. IsFiniteSet(D)
    <3> DEFINE head == e.head
               tail == e.tail
    <3>1. D \in SUBSET {head, tail}
      OBVIOUS
    <3> HIDE DEF D, head, tail
    <3>2. IsFiniteSet({head})
      BY FS_Singleton
    <3>3. IsFiniteSet({head} \cup {tail})
      BY <3>2, FS_AddElement
    <3>4. {head} \cup {tail} = {head, tail}
      OBVIOUS
    <3> QED
      BY <3>1, <3>3, <3>4, FS_Subset
  <2> HIDE DEF C, D, P
  <2> QED
    BY <2>1, <2>2, <2>3, NodesJoin
<1>11. AddEdge(g, e, order, low)
         = IF In(e.head) /\ In(e.tail)
           THEN AddArc(seen, Moved(e.head, order, low), Moved(e.tail, order, low)) ELSE seen
  BY Zenon DEF AddEdge
<1>12. CASE In(e.head) /\ In(e.tail)
  <2>1. e.head \in C \cup D /\ e.tail \in C \cup D
    BY <1>12
  <2> HIDE DEF C, D, P, seen, e, In
  <2>2. GraphOf(AddArc(seen, Moved(e.head, order, low), Moved(e.tail, order, low)),
                C \cup D, P \cup {{e.head, e.tail}}, order, low)
    BY <1>10, <2>1, ArcJoins
  <2> QED
    BY <1>5, <1>9, <1>11, <1>12, <2>2 DEF e
<1>13. CASE ~(In(e.head) /\ In(e.tail))
  <2> HIDE DEF C, D, P, seen, e, In
  <2>1. EdgesIn(es, k + 1, order, low) = P /\ AddEdge(g, e, order, low) = seen
    BY <1>9, <1>11, <1>13
  <2> QED
    BY <1>5, <1>10, <2>1 DEF e
<1> QED
  BY <1>12, <1>13

\* r[k] is the graph of the first k arcs.
BuildStep(r, es, order, low, k) ==
  IF k = 0 THEN [nodes |-> {}, adj |-> {}, num |-> 0]
  ELSE AddEdge(r[k - 1], es[k], order, low)

BuiltUpTo(r, es, order, low, n) == r = [k \in 0 .. n |-> BuildStep(r, es, order, low, k)]

LEMMA BuildsExist ==
  ASSUME NEW es, NEW n \in Nat, NEW order, NEW low
  PROVE  \E r : BuiltUpTo(r, es, order, low, n)
<1> DEFINE Fine(k) == \E r : BuiltUpTo(r, es, order, low, k)
           Holds == {k \in Nat \ {0} : Fine(k - 1)}
<1>1. 1 \in Holds
  <2> DEFINE none == [nodes |-> {}, adj |-> {}, num |-> 0]
             r == [k \in 0 .. 0 |-> none]
  <2>1. \A k \in 0 .. 0 : BuildStep(r, es, order, low, k) = none
    BY DEF BuildStep
  <2> HIDE DEF none
  <2>2. r = [k \in 0 .. 0 |-> BuildStep(r, es, order, low, k)]
    BY <2>1
  <2> HIDE DEF r
  <2>3. BuiltUpTo(r, es, order, low, 0)
    BY <2>2 DEF BuiltUpTo
  <2>4. 1 - 1 = 0
    OBVIOUS
  <2> QED
    BY <2>3, <2>4
<1>2. ASSUME NEW k \in 1 .. (n + 1) - 1, k \in Holds
      PROVE  k + 1 \in Holds
  <2>1. PICK r : BuiltUpTo(r, es, order, low, k - 1)
    BY <1>2
  <2> DEFINE t == [m \in 0 .. k |-> IF m = k THEN BuildStep(r, es, order, low, k) ELSE r[m]]
  <2>2. \A m \in 0 .. k - 1 : r[m] = BuildStep(r, es, order, low, m)
    BY <2>1, Zenon DEF BuiltUpTo
  <2>3. /\ t = [m \in 0 .. k |-> t[m]] /\ t[k] = BuildStep(r, es, order, low, k)
        /\ \A m \in 0 .. k - 1 : t[m] = r[m]
    OBVIOUS
  <2> HIDE DEF t
  <2>4. ASSUME NEW m \in 0 .. k
        PROVE  t[m] = BuildStep(t, es, order, low, m)
    <3>1. m # 0 => t[m - 1] = r[m - 1]
      <4>1. m # 0 => m - 1 \in 0 .. k - 1
        OBVIOUS
      <4> QED
        BY <2>3, <4>1
    <3>2. BuildStep(t, es, order, low, m) = BuildStep(r, es, order, low, m)
      BY <3>1, Zenon DEF BuildStep
    <3>3. t[m] = BuildStep(r, es, order, low, m)
      <4>1. CASE m = k
        BY <2>3, <4>1
      <4>2. CASE m # k
        <5>1. m \in 0 .. k - 1
          BY <4>2
        <5> QED
          BY <2>2, <2>3, <5>1
      <4> QED
        BY <4>1, <4>2
    <3> QED
      BY <3>2, <3>3
  <2>5. BuiltUpTo(t, es, order, low, k)
    BY <2>3, <2>4, Zenon DEF BuiltUpTo
  <2>6. (k + 1) - 1 = k /\ k + 1 \in Nat \ {0}
    OBVIOUS
  <2> QED
    BY <2>5, <2>6
<1> HIDE DEF Fine
<1>3. Fine(n)
  <2>1. n + 1 \in Nat /\ n + 1 \in 1 .. n + 1 /\ (n + 1) - 1 = n
    OBVIOUS
  <2> HIDE DEF Holds
  <2>2. 1 .. n + 1 \subseteq Holds
    BY <1>1, <1>2, <2>1, UpToLast
  <2>3. n + 1 \in Holds
    BY <2>1, <2>2
  <2> QED
    BY <2>1, <2>3 DEF Holds
<1> QED
  BY <1>3 DEF Fine

LEMMA GraphIsBuilt ==
  ASSUME NEW es \in Seq(FitArcs), NEW order, NEW low \in Nat
  PROVE  GraphOf(Graph(es, order, low),
                 CoreIn(es, Len(es), order, low), EdgesIn(es, Len(es), order, low), order, low)
<1> DEFINE n == Len(es)
           r == CHOOSE t : BuiltUpTo(t, es, order, low, n)
           Holds == {k \in Nat : GraphOf(r[k - 1], CoreIn(es, k - 1, order, low),
                                         EdgesIn(es, k - 1, order, low), order, low)}
<1>1. n \in Nat
  OBVIOUS
<1>2. Graph(es, order, low) = r[n]
  BY Zenon DEF Graph, BuiltUpTo, BuildStep
<1>3. BuiltUpTo(r, es, order, low, n)
  <2>1. \E t : BuiltUpTo(t, es, order, low, n)
    BY <1>1, BuildsExist
  <2> QED
    BY <2>1, Zenon
<1> HIDE DEF r
<1>4. \A k \in 0 .. n : r[k] = BuildStep(r, es, order, low, k)
  <2> HIDE DEF n
  <2> QED
    BY <1>3, Zenon DEF BuiltUpTo
<1>5. 1 \in Holds
  <2>1. r[0] = [nodes |-> {}, adj |-> {}, num |-> 0]
    <3>1. 0 \in 0 .. n
      BY <1>1
    <3>2. r[0] = BuildStep(r, es, order, low, 0)
      BY <1>4, <3>1, Zenon
    <3> QED
      BY <3>2 DEF BuildStep
  <2>2. CoreIn(es, 0, order, low) = {} /\ EdgesIn(es, 0, order, low) = {}
    BY DEF CoreIn, EdgesIn, EndsIn, PairsIn
  <2>3. GraphOf(r[0], CoreIn(es, 0, order, low), EdgesIn(es, 0, order, low), order, low)
    BY <2>1, <2>2, NoGraph
  <2>4. 1 - 1 = 0
    OBVIOUS
  <2> QED
    BY <2>3, <2>4
<1>6. ASSUME NEW k \in 1 .. (n + 1) - 1, k \in Holds
      PROVE  k + 1 \in Holds
  <2> DEFINE m == k - 1
  <2>1. m \in 0 .. Len(es) - 1 /\ m + 1 = k /\ (k + 1) - 1 = k /\ k \in 0 .. n /\ k # 0
        /\ k + 1 \in Nat
    BY <1>1
  <2>2. GraphOf(r[m], CoreIn(es, m, order, low), EdgesIn(es, m, order, low), order, low)
    BY <1>6
  <2> HIDE DEF m
  <2>3. r[k] = AddEdge(r[m], es[m + 1], order, low)
    <3>1. r[k] = BuildStep(r, es, order, low, k)
      BY <1>4, <2>1, Zenon
    <3>2. k - 1 = m
      BY DEF m
    <3> QED
      BY <2>1, <3>1, <3>2 DEF BuildStep
  <2>4. GraphOf(r[k], CoreIn(es, m + 1, order, low), EdgesIn(es, m + 1, order, low), order, low)
    BY <2>1, <2>2, <2>3, OneMoreArc
  <2> QED
    BY <2>1, <2>4
<1> HIDE DEF Holds
<1>7. n + 1 \in Holds
  <2>1. n + 1 \in Nat /\ n + 1 \in 1 .. n + 1
    BY <1>1
  <2>2. 1 .. n + 1 \subseteq Holds
    <3> HIDE DEF n
    <3> QED
      BY <1>5, <1>6, <2>1, UpToLast
  <2> QED
    BY <2>1, <2>2
<1>8. (n + 1) - 1 = n
  BY <1>1
<1> QED
  BY <1>2, <1>7, <1>8 DEF Holds

-----------------------------------------------------------------------------
(* The ids of arcs fit their type, whatever is loaded.                     *)

FitLine == {l \in AnyLine : l.kind = "arc" => l.a \in Ids /\ l.b \in Ids}

IdsFit ==
  /\ edges \in Seq(FitArcs)
  /\ mode \in {"graph", "co", "gr"} => lines \in Seq(FitLine)

LEMMA FilesFit ==
  ASSUME NEW f \in GraphFiles
  PROVE  Readable(f) \in Seq(FitLine)
<1>1. /\ f \in Seq(AnyLine) /\ Wrap \in Nat \ {0}
      /\ \A k \in DOMAIN f : f[k].kind = "arc" => f[k].a < Wrap /\ f[k].b < Wrap
  BY LinesAssumption, FilesAreLines
<1>2. Len(f) \in Nat /\ DOMAIN f = 1 .. Len(f) /\ f = [k \in 1 .. Len(f) |-> f[k]]
  BY <1>1
<1>3. ASSUME NEW k \in 1 .. Len(f)
      PROVE  f[k] \in FitLine
  <2>1. f[k] \in AnyLine
    BY <1>1, <1>2
  <2>2. f[k].a \in Nat /\ f[k].b \in Nat
    BY <2>1, LineKinds
  <2>3. f[k].kind = "arc" => f[k].a < Wrap /\ f[k].b < Wrap
    BY <1>1, <1>2
  <2> QED
    BY <1>1, <2>1, <2>2, <2>3 DEF FitLine, Ids
<1>4. [k \in 1 .. Len(f) |-> f[k]] \in Seq(FitLine)
  BY <1>2, <1>3, IsASeq
<1> QED
  BY <1>2, <1>4, PartsAreLines

LEMMA PrintedFits ==
  ASSUME nodes \in Seq(ANode), edges \in Seq(FitArcs)
  PROVE  Printed \in Seq(FitLine)
<1> DEFINE n == Len(nodes)
           m == Len(edges)
           first == PrintedProblem("co", n, n)
           second == PrintedProblem("gr", n, m)
           ns == [d \in 1..n |-> PrintedNode(d)]
           es == [d \in 1..m |-> PrintedArc(d)]
<1>1. n \in Nat /\ m \in Nat
  OBVIOUS
<1>2. ns \in Seq(FitLine)
  <2>1. ASSUME NEW d \in 1 .. n
        PROVE  PrintedNode(d) \in FitLine
    <3>1. nodes[d] \in ANode
      OBVIOUS
    <3>2. PrintedNode(d) \in AnyLine
      BY <3>1 DEF ANode, AnyLine, Line, GraphKind, PrintedNode
    <3>3. PrintedNode(d).kind = "node"
      BY DEF PrintedNode
    <3> QED
      BY <3>2, <3>3 DEF FitLine
  <2> HIDE DEF n
  <2> QED
    BY <1>1, <2>1, IsASeq
<1>3. es \in Seq(FitLine)
  <2>1. ASSUME NEW d \in 1 .. m
        PROVE  PrintedArc(d) \in FitLine
    <3>1. edges[d] \in FitArcs
      OBVIOUS
    <3>2. /\ edges[d].tail \in Ids /\ edges[d].head \in Ids
          /\ edges[d].tail \in Nat /\ edges[d].head \in Nat
      BY <3>1, LinesAssumption DEF FitArcs, Ids
    <3>3. /\ PrintedArc(d) \in AnyLine
          /\ PrintedArc(d).a = edges[d].tail /\ PrintedArc(d).b = edges[d].head
      BY <3>2 DEF AnyLine, Line, GraphKind, PrintedArc
    <3> QED
      BY <3>2, <3>3 DEF FitLine
  <2> HIDE DEF m
  <2> QED
    BY <1>1, <2>1, IsASeq
<1>4. first \in FitLine /\ second \in FitLine
  <2>1. /\ first \in AnyLine /\ second \in AnyLine
        /\ first.kind = "co" /\ second.kind = "gr"
    BY <1>1 DEF AnyLine, Line, GraphKind, Problem, PrintedProblem
  <2> QED
    BY <2>1 DEF FitLine
<1>5. Printed = (IF n > 0 THEN <<first>> \o ns ELSE <<>>)
                  \o (IF m > 0 THEN <<second>> \o es ELSE <<>>)
  BY DEF Printed
<1> HIDE DEF n, m, first, second, ns, es
<1>6. <<first>> \o ns \in Seq(FitLine) /\ <<second>> \o es \in Seq(FitLine) /\ <<>> \in Seq(FitLine)
  BY <1>2, <1>3, <1>4
<1> QED
  BY <1>5, <1>6

LEMMA IdsStep ==
  ASSUME DimacsTypes, IdsFit, [Next]_vars
  PROVE  IdsFit'
<1>1. CASE UNCHANGED <<edges, lines>> /\ (mode' \in {"graph", "co", "gr"} => mode \in {"graph", "co", "gr"})
  BY <1>1 DEF IdsFit
<1>2. ASSUME NEW f \in GraphFiles, LoadGraph(f)
      PROVE  IdsFit'
  <2>1. edges' = edges /\ lines' = Readable(f)
    BY <1>2, LoadsOpen DEF Opens
  <2> QED
    BY <2>1, FilesFit DEF IdsFit
<1>3. ASSUME NEW f \in QueryFiles, LoadInstance(f)
      PROVE  IdsFit'
  <2>1. edges' = edges /\ mode' = "format"
    BY <1>3, LoadsOpen DEF Opens
  <2> QED
    BY <2>1 DEF IdsFit
<1>4. CASE Reload
  <2>1. edges' = edges /\ lines' = Readable(Printed)
    BY <1>4, LoadsOpen DEF Opens
  <2> QED
    BY <2>1, PrintedFits, PartsAreLines DEF IdsFit, DimacsTypes
<1>5. CASE FindProblem
  BY <1>1, <1>5, FindProblemFacts
<1>6. CASE ReadNode
  BY <1>1, <1>6, ReadNodeFacts
<1>7. CASE FindFormat
  <2>1. UNCHANGED edges /\ FormatFound
    BY <1>7, FindFormatFacts
  <2> QED
    BY <2>1 DEF FormatFound, IdsFit
<1>8. CASE ReadQuery
  <2>1. UNCHANGED edges /\ QueryRead
    BY <1>8, ReadQueryFacts
  <2> QED
    BY <2>1 DEF QueryRead, IdsFit
<1>9. CASE ReadArc
  <2>1. /\ mode = "gr" /\ LineRead(edges, ReadArcOf(lines[pos]), "gr", "arc", "bad arc")
        /\ UNCHANGED lines
    BY <1>9, ReadArcFacts
  <2>2. CASE edges' = edges
    BY <2>1, <2>2 DEF IdsFit
  <2>3. CASE edges' # edges
    <3>1. /\ ~AtEnd /\ lines[pos].kind = "arc"
          /\ edges' = Append(edges, ReadArcOf(lines[pos]))
      BY <2>1, <2>3 DEF LineRead
    <3>2. pos \in 1 .. Len(lines)
      BY <3>1, LineAtPos
    <3>3. lines \in Seq(FitLine) /\ edges \in Seq(FitArcs)
      BY <2>1 DEF IdsFit
    <3>4. lines[pos] \in FitLine
      BY <3>2, <3>3
    <3>5. ReadArcOf(lines[pos]) \in FitArcs
      BY <3>1, <3>4 DEF FitLine, FitArcs, ReadArcOf
    <3>6. edges' \in Seq(FitArcs)
      BY <3>1, <3>3, <3>5, OneMoreOf
    <3> QED
      BY <2>1, <3>3, <3>6 DEF IdsFit
  <2> QED
    BY <2>2, <2>3
<1>10. CASE UNCHANGED vars
  BY <1>1, <1>10 DEF vars, loading
<1>11. CASE LoadMissing
  BY <1>1, <1>11, LoadsOpen
<1> QED
  BY <1>2, <1>3, <1>4, <1>5, <1>6, <1>7, <1>8, <1>9, <1>10, <1>11 DEF Next, Read

-----------------------------------------------------------------------------
(* The numbers of the nodes, and the file.                                 *)

LEMMA RanksInOrder ==
  ASSUME NEW S \in SUBSET Nat, IsFiniteSet(S)
  PROVE  /\ IdMap(S) \in Bijection(S, 1 .. Cardinality(S))
         /\ \A x, y \in S : x < y => IdMap(S)[x] < IdMap(S)[y]
<1> DEFINE Upto(n) == {k \in S : k <= n}
           m == IdMap(S)
           N == Cardinality(S)
<1>1. N \in Nat /\ IsFiniteSet(1 .. N) /\ Cardinality(1 .. N) = N
  <2>1. N \in Nat
    BY FS_CardinalityType
  <2> HIDE DEF N
  <2> QED
    BY <2>1, FS_Interval
<1>2. ASSUME NEW n \in S
      PROVE  IsFiniteSet(Upto(n)) /\ Cardinality(Upto(n)) \in 1 .. N
  <2>1. Upto(n) \in SUBSET S /\ n \in Upto(n)
    OBVIOUS
  <2> HIDE DEF Upto
  <2>2. IsFiniteSet(Upto(n)) /\ Cardinality(Upto(n)) <= N
    BY <2>1, FS_Subset
  <2>3. Cardinality(Upto(n)) \in Nat /\ Cardinality(Upto(n)) # 0
    <3>1. Upto(n) # {}
      BY <2>1
    <3> QED
      BY <2>2, <3>1, FS_CardinalityType, FS_EmptySet
  <2> HIDE DEF N
  <2> QED
    BY <1>1, <2>2, <2>3
<1>3. ASSUME NEW x \in S, NEW y \in S, x < y
      PROVE  Cardinality(Upto(x)) < Cardinality(Upto(y))
  <2>1. Upto(x) \in SUBSET Upto(y) /\ y \in Upto(y) /\ y \notin Upto(x)
    <3>1. x \in Nat /\ y \in Nat /\ y <= y /\ ~(y <= x)
      BY <1>3
    <3>2. \A k \in S : k <= x => k <= y
      <4>1. \A k \in Nat : k <= x => k <= y
        BY <1>3, <3>1
      <4> QED
        BY <4>1
    <3> QED
      BY <3>1, <3>2
  <2>2. /\ IsFiniteSet(Upto(y)) /\ Cardinality(Upto(x)) \in 1 .. N
        /\ Cardinality(Upto(y)) \in 1 .. N
    BY <1>2
  <2> HIDE DEF Upto, N
  <2>3. /\ Cardinality(Upto(x)) <= Cardinality(Upto(y))
        /\ Cardinality(Upto(x)) # Cardinality(Upto(y))
    BY <2>1, <2>2, FS_Subset
  <2> QED
    BY <2>2, <2>3
<1>4. \A n \in S : m[n] = Cardinality(Upto(n))
  BY DEF IdMap
<1>5. m = [n \in S |-> m[n]]
  BY DEF IdMap
<1> HIDE DEF Upto, m, N
<1>6. \A x, y \in S : x < y => m[x] < m[y]
  BY <1>3, <1>4
<1>7. m \in [S -> 1 .. N]
  BY <1>2, <1>4, <1>5
<1>8. m \in Injection(S, 1 .. N)
  <2>1. ASSUME NEW x \in S, NEW y \in S, m[x] = m[y]
        PROVE  x = y
    <3>1. m[x] \in Nat /\ m[y] \in Nat /\ x \in Nat /\ y \in Nat
      BY <1>1, <1>7
    <3>2. ~(x < y) /\ ~(y < x)
      BY <1>6, <2>1, <3>1
    <3> QED
      BY <3>1, <3>2
  <2> QED
    BY <1>7, <2>1 DEF Injection, IsInjective
<1>9. m \in Surjection(S, 1 .. N)
  <2>1. Cardinality(S) = Cardinality(1 .. N)
    BY <1>1 DEF N
  <2> QED
    BY <1>1, <1>8, <2>1, FS_Injection
<1>10. m \in Bijection(S, 1 .. N)
  BY <1>8, <1>9 DEF Bijection
<1> QED
  BY <1>6, <1>10 DEF m, N

\* M is the file of the nodes C and the edges in J between them.
IsMetisOf(M, C, J, order) ==
  /\ M.nodes = Cardinality(C)
  /\ M.edges = Cardinality({p \in J : p \subseteq C})
  /\ \E name \in Bijection(C, 1 .. M.nodes) :
       /\ order = <<>> => \A u, v \in C : u < v => name[u] < name[v]
       /\ \A u \in C : M.rows[name[u]] = {name[v] : v \in {x \in C : {u, x} \in J}}

LEMMA MetisOf ==
  ASSUME NEW es \in Seq(FitArcs), NEW order, NEW low \in Nat
  PROVE  IsMetisOf(Metis(es, order, low), CoreIn(es, Len(es), order, low),
                   PairsIn(es, Len(es)), order)
<1> DEFINE M == Metis(es, order, low)
           C == CoreIn(es, Len(es), order, low)
           J == PairsIn(es, Len(es))
           P == {p \in J : p \subseteq C}
           g == Graph(es, order, low)
           S == g.nodes
           m == IdMap(S)
           N == Cardinality(S)
           To(u) == Moved(u, order, low)
           f == [u \in C |-> To(u)]
           name == [u \in C |-> m[To(u)]]
           Row(n) == {m[a[2]] : a \in {x \in g.adj : m[x[1]] = n}}
<1>1. GraphOf(g, C, P, order, low)
  BY GraphIsBuilt DEF EdgesIn
<1>2. M.nodes = N /\ M.edges = g.num /\ M.rows = [n \in 1 .. N |-> Row(n)]
  BY DEF Metis
<1> HIDE DEF M, C, J, g
<1>3. /\ C \subseteq Ids /\ \A u \in C : Included(u, order, low)
      /\ IsFiniteSet(C) /\ S \subseteq Nat /\ g.adj \subseteq Nat \X Nat
      /\ S = {To(u) : u \in C} /\ g.num = Cardinality(P)
  BY <1>1 DEF GraphOf
<1>4. \A x, y : <<x, y>> \in g.adj <=> Adjacent(C, P, order, low, x, y)
  BY <1>1 DEF GraphOf
<1>5. \A u, v \in C : To(u) = To(v) => u = v
  BY <1>3, MovedApart
<1>6. order = <<>> => \A u \in C : To(u) = u
  BY DEF Moved
<1>7. \A x, y : Adjacent(C, P, order, low, x, y)
                <=> \E u, v \in C : {u, v} \in P /\ x = To(u) /\ y = To(v)
  BY DEF Adjacent
<1> HIDE DEF To, P, S
<1>8. f \in Bijection(C, S)
  <2>1. f \in [C -> S] /\ \A u \in C : f[u] = To(u)
    BY <1>3
  <2> HIDE DEF f
  <2> QED
    BY <1>3, <1>5, <2>1 DEF Bijection, Injection, Surjection, IsInjective
<1>9. IsFiniteSet(S) /\ N = Cardinality(C)
  <2>1. ExistsBijection(C, S)
    BY <1>8 DEF ExistsBijection
  <2> QED
    BY <1>3, <2>1, FS_Bijection
<1>10. m \in Bijection(S, 1 .. N) /\ \A x, y \in S : x < y => m[x] < m[y]
  BY <1>3, <1>9, RanksInOrder
<1> HIDE DEF m, N
<1>11. m \in [S -> 1 .. N] /\ \A x, y \in S : m[x] = m[y] => x = y
  BY <1>10 DEF Bijection, Injection, IsInjective
<1>12. \A n \in 1 .. N : \E x \in S : m[x] = n
  BY <1>10 DEF Bijection, Surjection
<1>13. \A u \in C : To(u) \in S /\ name[u] = m[To(u)]
  BY <1>3
<1>14. name \in [C -> 1 .. N]
  BY <1>11, <1>13
<1> HIDE DEF name
<1>15. \A u, v \in C : name[u] = name[v] => u = v
  BY <1>5, <1>11, <1>13
<1>16. name \in Bijection(C, 1 .. N)
  <2>1. \A n \in 1 .. N : \E u \in C : name[u] = n
    BY <1>3, <1>12, <1>13
  <2> QED
    BY <1>14, <1>15, <2>1 DEF Bijection, Injection, Surjection, IsInjective
<1>17. ASSUME order = <<>>, NEW u \in C, NEW v \in C, u < v
       PROVE  name[u] < name[v]
  <2>1. To(u) = u /\ To(v) = v
    BY <1>6, <1>17
  <2> QED
    BY <1>10, <1>13, <1>17, <2>1
<1>18. ASSUME NEW u \in C
       PROVE  M.rows[name[u]] = {name[v] : v \in {x \in C : {u, x} \in J}}
  <2>1. name[u] \in 1 .. N
    BY <1>14
  <2>2. M.rows[name[u]] = Row(name[u])
    BY <1>2, <2>1
  <2>3. \A v \in C : {u, v} \in J <=> {u, v} \in P
    BY DEF P
  <2>4. ASSUME NEW v \in C, {u, v} \in P
        PROVE  name[v] \in Row(name[u])
    <3> DEFINE a == <<To(u), To(v)>>
    <3>1. Adjacent(C, P, order, low, To(u), To(v))
      BY <1>7, <2>4
    <3>2. a \in g.adj
      BY <1>4, <3>1
    <3>3. a[1] = To(u) /\ a[2] = To(v)
      OBVIOUS
    <3> HIDE DEF a
    <3> QED
      BY <1>13, <3>2, <3>3
  <2>5. ASSUME NEW a \in g.adj, m[a[1]] = name[u]
        PROVE  \E v \in C : {u, v} \in P /\ m[a[2]] = name[v]
    <3>1. a = <<a[1], a[2]>>
      BY <1>3
    <3>2. Adjacent(C, P, order, low, a[1], a[2])
      BY <1>4, <3>1
    <3>3. \E p, q \in C : {p, q} \in P /\ a[1] = To(p) /\ a[2] = To(q)
      BY <3>2 DEF Adjacent, To
    <3>4. PICK p \in C, q \in C : {p, q} \in P /\ a[1] = To(p) /\ a[2] = To(q)
      BY <3>3
    <3>5. name[p] = name[u]
      BY <1>13, <2>5, <3>4
    <3>6. p = u
      BY <1>15, <3>5
    <3> QED
      BY <1>13, <3>4, <3>6
  <2>6. Row(name[u]) \subseteq {name[v] : v \in {x \in C : {u, x} \in P}}
    BY <2>5
  <2>7. {name[v] : v \in {x \in C : {u, x} \in P}} \subseteq Row(name[u])
    BY <2>4
  <2> HIDE DEF Row
  <2>8. {x \in C : {u, x} \in P} = {x \in C : {u, x} \in J}
    BY <2>3
  <2> QED
    BY <2>2, <2>6, <2>7, <2>8
<1>19. M.nodes = Cardinality(C) /\ M.edges = Cardinality(P)
  BY <1>2, <1>3, <1>9
<1>20. /\ name \in Bijection(C, 1 .. M.nodes)
       /\ order = <<>> => \A u, v \in C : u < v => name[u] < name[v]
       /\ \A u \in C : M.rows[name[u]] = {name[v] : v \in {x \in C : {u, x} \in J}}
  BY <1>2, <1>16, <1>17, <1>18
<1>21. \E n \in Bijection(C, 1 .. M.nodes) :
         /\ order = <<>> => \A u, v \in C : u < v => n[u] < n[v]
         /\ \A u \in C : M.rows[n[u]] = {n[v] : v \in {x \in C : {u, x} \in J}}
  <2> HIDE DEF J, M
  <2> QED
    BY <1>20, Zenon
<1> QED
  BY <1>19, <1>21 DEF M, C, J, P, IsMetisOf

\* The metis file is the undirected graph of the arcs, or of a core of them,
\* up to the names of its nodes, for arcs of any number and in any order.
THEOREM DimacsMetisIsTheGraph == Spec => []MetisIsTheGraph
<1>1. Init => IdsFit
  BY DEF Init, IdsFit
<1>2. DimacsTypes /\ IdsFit /\ [Next]_vars => IdsFit'
  BY IdsStep
<1>3. ASSUME IdsFit
      PROVE  MetisIsTheGraph
  <2> SUFFICES ASSUME NEW lex_order \in LexOrders, NEW low \in 0 .. Len(lex_order)
               PROVE  LET M == Metis(edges, lex_order, low)
                          ends == UNION {{edges[d].tail, edges[d].head} : d \in DOMAIN edges}
                          core == {id \in ends : Included(id, lex_order, low)}
                          Joined == {{edges[d].tail, edges[d].head} : d \in DOMAIN edges}
                      IN  /\ M.nodes = Cardinality(core)
                          /\ M.edges = Cardinality({p \in Joined : p \subseteq core})
                          /\ \E name \in Bijection(core, 1 .. M.nodes) :
                               /\ lex_order = <<>> => \A u, v \in core : u < v => name[u] < name[v]
                               /\ \A u \in core :
                                    M.rows[name[u]]
                                      = {name[v] : v \in {x \in core : {u, x} \in Joined}}
    BY Zenon DEF MetisIsTheGraph
  <2>1. edges \in Seq(FitArcs) /\ DOMAIN edges = 1 .. Len(edges)
    BY <1>3 DEF IdsFit
  <2>2. low \in Nat
    BY OrdersAssumption
  <2> DEFINE M == Metis(edges, lex_order, low)
             ends == UNION {{edges[d].tail, edges[d].head} : d \in DOMAIN edges}
             core == {id \in ends : Included(id, lex_order, low)}
             Joined == {{edges[d].tail, edges[d].head} : d \in DOMAIN edges}
  <2>3. Joined = PairsIn(edges, Len(edges))
    BY <2>1 DEF PairsIn
  <2>4. core = CoreIn(edges, Len(edges), lex_order, low)
    BY <2>1 DEF CoreIn, EndsIn
  <2> HIDE DEF core, Joined
  <2>5. IsMetisOf(Metis(edges, lex_order, low), core, Joined, lex_order)
    BY <2>1, <2>2, <2>3, <2>4, MetisOf
  <2> QED
    BY <2>5, Zenon DEF IsMetisOf, core, Joined
<1> QED
  BY <1>1, <1>2, <1>3, DimacsGraph, PTL DEF Spec

-----------------------------------------------------------------------------
(* What an extraction takes from the front of a stream.                    *)

LEMMA ExtractionStages ==
  ASSUME NEW s
  PROVE  \E f : /\ f[0] = [ok |-> TRUE, got |-> <<>>, rest |-> s]
                /\ \A k \in 0 .. 8 : f[k + 1] = Extract(f[k], Shape[k + 1])
                /\ Extraction(s) = f[9]
<1> DEFINE Is(f) == Stages(f, s, Len(Shape))
           upto == CHOOSE f : Is(f)
<1>1. Len(Shape) = 9
  BY DEF Shape
<1>2. Extraction(s) = upto[9]
  BY <1>1 DEF Extraction, Stages
<1>3. \E f : Is(f)
  BY <1>1, StagesExist
<1> HIDE DEF Is
<1>4. Is(upto)
  BY <1>3, Zenon
<1> HIDE DEF upto
<1>5. Stages(upto, s, 9)
  BY <1>1, <1>4 DEF Is
<1>6. \A k \in 0 .. 9 :
        upto[k] = IF k = 0 THEN [ok |-> TRUE, got |-> <<>>, rest |-> s]
                  ELSE Extract(upto[k - 1], Shape[k])
  BY <1>5 DEF Stages
<1>7. ASSUME NEW k \in 0 .. 8
      PROVE  upto[k + 1] = Extract(upto[k], Shape[k + 1])
  <2>1. k + 1 \in 0 .. 9 /\ k + 1 # 0 /\ (k + 1) - 1 = k
    OBVIOUS
  <2> QED
    BY <1>6, <2>1
<1> QED
  BY <1>2, <1>6, <1>7

\* A field that gives what its place asks for, and is used up by it.
Fits(f, k) ==
  Shape[k] = "number" => f.num # NoNumber /\ f.prec = 0 /\ f.word = ""

TakenAs(f, k) == IF Shape[k] = "number" THEN Digits(f.num) ELSE f

LEMMA DigitsFacts ==
  ASSUME NEW n \in Nat \cup {NoNumber}
  PROVE  /\ Digits(n) \in Field /\ Digits(n).num = n
         /\ Digits(n).prec = 0 /\ Digits(n).word = ""
BY DEF Digits, Field

LEMMA TakenTypes ==
  ASSUME NEW f \in Field, NEW k
  PROVE  TakenAs(f, k) \in Field
<1>1. f.num \in Nat \cup {NoNumber}
  BY DEF Field
<1>2. Digits(f.num) \in Field
  BY <1>1, DigitsFacts
<1> QED
  BY <1>2 DEF TakenAs

\* The first k fields of w have been taken, and no more.
HasTaken(x, w, k) ==
  /\ x \in [ok : BOOLEAN, got : Seq(Field), rest : Seq(Field)]
  /\ x.ok
  /\ Len(x.got) = k /\ \A l \in 1 .. k : x.got[l] = TakenAs(w[l], l)
  /\ Len(x.rest) = Len(w) - k /\ \A l \in 1 .. Len(w) - k : x.rest[l] = w[l + k]

LEMMA OneTaken ==
  ASSUME NEW w \in Seq(Field), NEW k \in 0 .. 8, k < Len(w), Fits(w[k + 1], k + 1),
         NEW x, HasTaken(x, w, k)
  PROVE  HasTaken(Extract(x, Shape[k + 1]), w, k + 1)
<1> DEFINE r == x.rest
           t == TakenAs(w[k + 1], k + 1)
           y == Extract(x, Shape[k + 1])
<1>1. /\ x \in [ok : BOOLEAN, got : Seq(Field), rest : Seq(Field)]
      /\ x.ok /\ Len(x.got) = k /\ Len(r) = Len(w) - k
      /\ \A l \in 1 .. k : x.got[l] = TakenAs(w[l], l)
      /\ \A l \in 1 .. Len(w) - k : r[l] = w[l + k]
  BY DEF HasTaken
<1>2. /\ r \in Seq(Field) /\ r # <<>> /\ r[1] = w[k + 1] /\ w[k + 1] \in Field
      /\ Len(w) \in Nat
  BY <1>1
<1>3. t \in Field
  BY <1>2, TakenTypes
<1>4. y = [x EXCEPT !.got = Append(@, t), !.rest = Tail(@)]
  <2>1. CASE Shape[k + 1] = "string"
    BY <1>1, <1>2, <2>1 DEF Extract, TakenAs
  <2>2. CASE Shape[k + 1] # "string"
    <3>1. Shape[k + 1] = "number"
      BY <2>2 DEF Shape
    <3>2. r[1].num # NoNumber /\ r[1].prec = 0 /\ r[1].word = ""
      BY <1>2, <3>1 DEF Fits
    <3>3. AfterNumber(r) = Tail(r) /\ t = Digits(r[1].num)
      BY <1>2, <3>1, <3>2 DEF AfterNumber, TakenAs
    <3> QED
      BY <1>1, <1>2, <2>2, <3>2, <3>3 DEF Extract
  <2> QED
    BY <2>1, <2>2
<1>5. /\ Tail(r) \in Seq(Field) /\ Len(Tail(r)) = Len(w) - (k + 1)
      /\ \A l \in 1 .. Len(w) - (k + 1) : Tail(r)[l] = w[l + (k + 1)]
  <2>1. /\ Tail(r) \in Seq(Field) /\ Len(Tail(r)) = Len(r) - 1
        /\ \A l \in 1 .. Len(Tail(r)) : Tail(r)[l] = r[l + 1]
    BY <1>2, HeadTailProperties
  <2>2. ASSUME NEW l \in 1 .. Len(w) - (k + 1)
        PROVE  Tail(r)[l] = w[l + (k + 1)]
    <3>1. Tail(r)[l] = r[l + 1] /\ l + 1 \in 1 .. Len(w) - k
      BY <1>1, <1>2, <2>1
    <3>2. r[l + 1] = w[(l + 1) + k] /\ (l + 1) + k = l + (k + 1)
      BY <1>1, <3>1
    <3> QED
      BY <3>1, <3>2
  <2>3. Len(Tail(r)) = Len(w) - (k + 1)
    <3>1. Len(Tail(r)) = Len(r) - 1 /\ Len(r) = Len(w) - k /\ Len(w) \in Nat
      BY <1>1, <1>2, <2>1
    <3> QED
      BY <3>1
  <2> QED
    BY <2>1, <2>2, <2>3, Zenon
<1>6. /\ Append(x.got, t) \in Seq(Field) /\ Len(Append(x.got, t)) = k + 1
      /\ \A l \in 1 .. k + 1 : Append(x.got, t)[l] = TakenAs(w[l], l)
  <2>1. /\ x.got \in Seq(Field) /\ Append(x.got, t) \in Seq(Field)
        /\ Len(Append(x.got, t)) = k + 1 /\ Append(x.got, t)[k + 1] = t
        /\ \A l \in 1 .. k : Append(x.got, t)[l] = x.got[l]
    BY <1>1, <1>3, AppendProperties
  <2> QED
    BY <1>1, <2>1
<1> DEFINE g == Append(x.got, t)
           q == Tail(r)
<1>7. /\ y.ok = x.ok /\ y.got = g /\ y.rest = q
      /\ y \in [ok : BOOLEAN, got : Seq(Field), rest : Seq(Field)]
  <2>1. y = [x EXCEPT !.got = g, !.rest = q] /\ g \in Seq(Field) /\ q \in Seq(Field)
    BY <1>4, <1>5, <1>6
  <2> HIDE DEF g, q, y
  <2> QED
    BY <1>1, <2>1
<1> HIDE DEF y, t, r
<1> QED
  BY <1>1, <1>5, <1>6, <1>7 DEF HasTaken, y

Numbers == {3, 4, 5, 6, 7, 8}

LEMMA Places ==
  /\ Shape[2] # "number" /\ Shape[9] # "number"
  /\ \A l \in Numbers : l \in 1 .. 9 /\ Shape[l] = "number"
<1>1. /\ Shape[3] = "number" /\ Shape[4] = "number" /\ Shape[5] = "number"
      /\ Shape[6] = "number" /\ Shape[7] = "number" /\ Shape[8] = "number"
      /\ Shape[2] = "string" /\ Shape[9] = "string"
  BY DEF Shape
<1>2. \A l \in Numbers : l \in 1 .. 9 /\ Shape[l] = "number"
  BY <1>1 DEF Numbers
<1> QED
  BY <1>1, <1>2

\* Nine fields that fit are taken, and the stream goes on behind them.
LEMMA NineTaken ==
  ASSUME NEW w \in Seq(Field), Len(w) >= 9, \A k \in 2 .. 9 : Fits(w[k], k),
         NEW f, \A k \in 0 .. 8 : f[k + 1] = Extract(f[k], Shape[k + 1]),
         HasTaken(f[1], w, 1)
  PROVE  HasTaken(f[9], w, 9)
<1> DEFINE Holds == {k \in Nat : HasTaken(f[k], w, k)}
<1>1. 1 \in Holds
  OBVIOUS
<1>2. ASSUME NEW k \in 1 .. 9 - 1, k \in Holds
      PROVE  k + 1 \in Holds
  <2>1. k \in 0 .. 8 /\ k < Len(w) /\ k + 1 \in 2 .. 9 /\ HasTaken(f[k], w, k)
    BY <1>2
  <2>2. HasTaken(Extract(f[k], Shape[k + 1]), w, k + 1)
    BY <2>1, OneTaken
  <2> QED
    BY <2>1, <2>2
<1> HIDE DEF Holds
<1>3. 1 .. 9 \subseteq Holds
  BY <1>1, <1>2, UpToLast
<1> QED
  BY <1>3 DEF Holds

(* Of nine such fields, taken from the front of a stream, the experiment   *)
(* is made; the stream goes on behind them.                                *)
FitsBehind(line) == Len(line) = 9 /\ \A k \in 2 .. 9 : Fits(line[k], k)

Extracts(f) == \A k \in 0 .. 8 : f[k + 1] = Extract(f[k], Shape[k + 1])

ReadFrom(f, line, t) ==
  f[9].ok /\ f[9].rest = t /\ Experiment(f[9].got) = Experiment(line)

LEMMA LineTaken ==
  ASSUME NEW line \in Seq(Field), FitsBehind(line), NEW t \in Seq(Field),
         NEW f, Extracts(f), HasTaken(f[1], line \o t, 1)
  PROVE  ReadFrom(f, line, t)
<1> DEFINE w == line \o t
           x == f[9]
<1>0. /\ Len(line) = 9 /\ \A k \in 2 .. 9 : Fits(line[k], k)
      /\ \A k \in 0 .. 8 : f[k + 1] = Extract(f[k], Shape[k + 1])
  BY DEF FitsBehind, Extracts
<1>1. /\ w \in Seq(Field) /\ Len(w) = Len(line) + Len(t) /\ Len(t) \in Nat
      /\ \A k \in 1 .. Len(line) + Len(t) :
           w[k] = IF k <= Len(line) THEN line[k] ELSE t[k - Len(line)]
  <2>1. Len(t) \in Nat
    OBVIOUS
  <2> QED
    BY <2>1, ConcatProperties, Zenon
<1> HIDE DEF w
<1>2. /\ \A k \in 1 .. 9 : w[k] = line[k]
      /\ \A k \in 1 .. Len(t) : w[k + 9] = t[k]
  <2>1. ASSUME NEW k \in 1 .. 9
        PROVE  w[k] = line[k]
    BY <1>0, <1>1
  <2>2. ASSUME NEW k \in 1 .. Len(t)
        PROVE  w[k + 9] = t[k]
    <3>1. k + 9 \in 1 .. Len(line) + Len(t) /\ ~(k + 9 <= Len(line))
          /\ (k + 9) - Len(line) = k
      BY <1>0, <1>1
    <3> QED
      BY <1>1, <3>1
  <2> QED
    BY <2>1, <2>2
<1>3. HasTaken(x, w, 9)
  <2>1. \A k \in 2 .. 9 : Fits(w[k], k)
    BY <1>0, <1>2
  <2>2. Len(w) >= 9 /\ HasTaken(f[1], w, 1)
    BY <1>0, <1>1 DEF w
  <2> QED
    BY <1>0, <1>1, <2>1, <2>2, NineTaken
<1> HIDE DEF x
<1>4. x.ok /\ x.rest \in Seq(Field) /\ Len(x.rest) = Len(t)
      /\ \A l \in 1 .. Len(t) : x.rest[l] = t[l]
  BY <1>0, <1>1, <1>2, <1>3 DEF HasTaken
<1>5. x.rest = t
  BY <1>4, SeqEqual
<1>6. \A l \in 1 .. 9 : x.got[l] = TakenAs(line[l], l)
  BY <1>2, <1>3 DEF HasTaken
<1>7. x.got[2] = line[2] /\ x.got[9] = line[9]
  BY <1>6, Places DEF TakenAs
<1>8. \A l \in Numbers : x.got[l].num = line[l].num
  <2>1. \A l \in Numbers : x.got[l] = Digits(line[l].num)
    BY <1>6, Places DEF TakenAs
  <2>2. \A n : Digits(n).num = n
    BY DEF Digits
  <2> QED
    BY <2>1, <2>2
<1>9. Experiment(x.got) = Experiment(line)
  BY <1>7, <1>8 DEF Experiment, Numbers
<1> QED
  BY <1>4, <1>5, <1>9 DEF x, ReadFrom

(* The record at the front of a stream is read as e, whatever follows.     *)
ReadsAs(line, e) ==
  \A t \in Seq(Field) :
    LET x == Extraction(line \o t)
    IN  x.ok /\ x.rest = t /\ Experiment(x.got) = e

LEMMA WholeReads ==
  ASSUME NEW line \in Seq(Field), IsWhole(line)
  PROVE  ReadsAs(line, Experiment(line))
<1> SUFFICES ASSUME NEW t \in Seq(Field)
             PROVE  LET x == Extraction(line \o t)
                    IN  x.ok /\ x.rest = t /\ Experiment(x.got) = Experiment(line)
  BY DEF ReadsAs
<1> DEFINE w == line \o t
<1>1. Len(line) = 9 /\ \A k \in 1 .. 9 : Fits(line[k], k)
  BY DEF IsWhole, Fits
<1>2. w \in Seq(Field) /\ Len(w) > 0 /\ w[1] = line[1]
  <2>1. /\ w \in Seq(Field) /\ Len(w) = Len(line) + Len(t)
        /\ \A k \in 1 .. Len(line) + Len(t) :
             w[k] = IF k <= Len(line) THEN line[k] ELSE t[k - Len(line)]
    BY ConcatProperties, Zenon
  <2>2. Len(t) \in Nat
    OBVIOUS
  <2> HIDE DEF w
  <2> QED
    BY <1>1, <2>1, <2>2
<1>3. PICK f : /\ f[0] = [ok |-> TRUE, got |-> <<>>, rest |-> w]
               /\ \A k \in 0 .. 8 : f[k + 1] = Extract(f[k], Shape[k + 1])
               /\ Extraction(w) = f[9]
  BY ExtractionStages
<1> HIDE DEF w
<1>4. HasTaken(f[1], w, 1)
  <2>1. HasTaken(f[0], w, 0)
    BY <1>2, <1>3 DEF HasTaken
  <2>2. ASSUME NEW k \in 0 .. 8, k = 0
        PROVE  HasTaken(f[k + 1], w, k + 1)
    <3>1. Fits(w[k + 1], k + 1) /\ k < Len(w) /\ HasTaken(f[k], w, k)
      BY <1>1, <1>2, <2>1, <2>2
    <3>2. HasTaken(Extract(f[k], Shape[k + 1]), w, k + 1)
      BY <1>2, <3>1, OneTaken
    <3> QED
      BY <1>3, <3>2
  <2> QED
    BY <2>2
<1>5. FitsBehind(line)
  BY <1>1 DEF FitsBehind
<1>6. Extracts(f)
  BY <1>3 DEF Extracts
<1>7. ReadFrom(f, line, t)
  BY <1>4, <1>5, <1>6, LineTaken DEF w
<1> QED
  BY <1>3, <1>7 DEF w, ReadFrom

\* Sequences that begin with one element.
LEMMA OneBefore ==
  ASSUME NEW S, NEW x \in S, NEW r \in Seq(S)
  PROVE  /\ <<x>> \o r \in Seq(S) /\ <<x>> \o r # <<>> /\ Len(<<x>> \o r) = Len(r) + 1
         /\ (<<x>> \o r)[1] = x /\ Tail(<<x>> \o r) = r
         /\ \A l \in 1 .. Len(r) : (<<x>> \o r)[l + 1] = r[l]
<1>1. <<x>> \o r \in Seq(S) /\ Len(<<x>> \o r) = Len(r) + 1
  OBVIOUS
<1>2. <<x>> \o r # <<>>
  OBVIOUS
<1>3. (<<x>> \o r)[1] = x 
  OBVIOUS
<1>4. Tail(<<x>> \o r) = r
  OBVIOUS
<1>5. \A l \in 1 .. Len(r) : (<<x>> \o r)[l + 1] = r[l]
  OBVIOUS
<1> QED
  BY <1>1, <1>2, <1>3, <1>4, <1>5

\* A number at the front of a field leaves the rest of it.
RestOf(m) == [m EXCEPT !.num = NoNumber]

LEMMA RestIsField ==
  ASSUME NEW m \in Field
  PROVE  RestOf(m) \in Field
BY DEF RestOf, Field

(* An empty stream, or one that does not go on with a number, ends a load  *)
(* at once.                                                                *)
LEMMA FailsAtOnce ==
  ASSUME NEW s \in Seq(Field), s = <<>> \/ s[1].num = NoNumber
  PROVE  ~Extraction(s).ok
<1>1. PICK f : /\ f[0] = [ok |-> TRUE, got |-> <<>>, rest |-> s]
               /\ \A k \in 0 .. 8 : f[k + 1] = Extract(f[k], Shape[k + 1])
               /\ Extraction(s) = f[9]
  BY ExtractionStages
<1> DEFINE Holds == {k \in Nat : Extracted(f[k], k) /\ ~f[k].ok}
<1>2. 1 \in Holds
  <2>1. f[0 + 1] = Extract(f[0], Shape[0 + 1])
    BY <1>1
  <2>2. f[1] = Extract([ok |-> TRUE, got |-> <<>>, rest |-> s], Shape[1])
    BY <1>1, <2>1
  <2>3. Shape[1] # "string"
    BY DEF Shape
  <2>4. f[1] = [[ok |-> TRUE, got |-> <<>>, rest |-> s] EXCEPT !.ok = FALSE]
    BY <2>2, <2>3 DEF Extract
  <2>6. f[1] = [ok |-> FALSE, got |-> <<>>, rest |-> s]
    BY <2>4
  <2>5. Extracted(f[1], 1)
    BY <2>6 DEF Extracted
  <2> QED
    BY <2>4, <2>5
<1>3. ASSUME NEW k \in 1 .. 9 - 1, k \in Holds
      PROVE  k + 1 \in Holds
  <2>1. k \in 0 .. 8 /\ Extracted(f[k], k) /\ ~f[k].ok
    BY <1>3
  <2>2. f[k + 1] = [f[k] EXCEPT !.ok = FALSE]
    BY <1>1, <2>1, Zenon DEF Extract
  <2>3. Extracted(f[k + 1], k + 1)
    BY <1>1, <2>1, ExtractFacts
  <2>4. ~f[k + 1].ok
    BY <2>1, <2>2 DEF Extracted
  <2> QED
    BY <2>1, <2>3, <2>4
<1> HIDE DEF Holds
<1>4. 1 .. 9 \subseteq Holds
  BY <1>2, <1>3, UpToLast
<1> QED
  BY <1>1, <1>4 DEF Holds

\* How many fields are gone at least, after k places: the rest of a field
\* whose number was taken is no other number.
Least(k) == IF k <= 1 THEN 0 ELSE IF k = 9 THEN 7 ELSE IF k = 2 THEN 1 ELSE k - 2

Gone(x, n, k) ==
  x.ok =>
    /\ Len(x.rest) + Least(k) <= n
    /\ k \in 3 .. 8 /\ x.rest # <<>> /\ x.rest[1].num # NoNumber
         => Len(x.rest) + k - 1 <= n

LEMMA AfterNumberFacts ==
  ASSUME NEW r \in Seq(Field), r # <<>>
  PROVE  /\ Len(AfterNumber(r)) <= Len(r)
         /\ AfterNumber(r) # <<>> /\ AfterNumber(r)[1].num # NoNumber
              => Len(AfterNumber(r)) + 1 = Len(r)
<1>1. r[1] \in Field /\ Tail(r) \in Seq(Field) /\ Len(Tail(r)) = Len(r) - 1 /\ Len(r) \in Nat
  OBVIOUS
<1>2. CASE AfterNumber(r) = Tail(r)
  BY <1>1, <1>2
<1>3. CASE AfterNumber(r) = <<RestOf(r[1])>> \o Tail(r)
  <2> DEFINE q == <<RestOf(r[1])>> \o Tail(r)
  <2>1. RestOf(r[1]) \in Field /\ RestOf(r[1]).num = NoNumber
    <3>1. RestOf(r[1]).num = NoNumber
      BY <1>1 DEF RestOf, Field
    <3> QED
      BY <1>1, <3>1, RestIsField
  <2>2. Len(q) = Len(Tail(r)) + 1 /\ q[1] = RestOf(r[1])
    BY <1>1, <2>1, OneBefore
  <2>3. AfterNumber(r) = q
    BY <1>3
  <2> HIDE DEF q
  <2>4. Len(AfterNumber(r)) = Len(r)
    BY <1>1, <2>2, <2>3
  <2>5. AfterNumber(r)[1].num = NoNumber
    BY <2>1, <2>2, <2>3, Zenon
  <2> QED
    BY <1>1, <2>4, <2>5
<1> QED
  BY <1>2, <1>3 DEF AfterNumber, RestOf

LEMMA LeastStep ==
  ASSUME NEW k \in 0 .. 8
  PROVE  /\ k \in {1, 8} => Least(k + 1) = Least(k) + 1
         /\ k \in {0, 2} => Least(k + 1) = Least(k)
         /\ k \in 3 .. 7 => Least(k + 1) = k - 1
         /\ k = 2 => Least(k) = 1
BY DEF Least

LEMMA GoneStep ==
  ASSUME NEW k \in 0 .. 8, NEW n \in Nat, NEW x, Extracted(x, k), Gone(x, n, k)
  PROVE  Gone(Extract(x, Shape[k + 1]), n, k + 1)
<1> DEFINE y == Extract(x, Shape[k + 1])
           r == x.rest
<1>1. /\ r \in Seq(Field) /\ Len(r) \in Nat
      /\ x \in [ok : BOOLEAN, got : Seq(Field), rest : Seq(Field)]
  BY DEF Extracted
<1>2. /\ Extracted(y, k + 1)
  BY ExtractFacts
<1>3. /\ y.rest \in Seq(Field) /\ Len(y.rest) \in Nat
  BY <1>2 DEF Extracted
<1> SUFFICES ASSUME y.ok
             PROVE  Gone(y, n, k + 1)
  BY DEF Gone
<1>4. x.ok /\ r # <<>>
  <2>1. [x EXCEPT !.ok = FALSE].ok = FALSE
    BY <1>1
  <2> QED
    BY <2>1, Zenon DEF Extract
<1>5. Len(r) + Least(k) <= n
      /\ (k \in 3 .. 8 /\ r[1].num # NoNumber => Len(r) + k - 1 <= n)
  BY <1>4 DEF Gone
<1>6. CASE Shape[k + 1] = "string"
  <2>1. y.rest = Tail(r)
    BY <1>1, <1>4, <1>6 DEF Extract
  <2>2. Len(y.rest) + 1 = Len(r)
    BY <1>1, <1>4, <2>1
  <2>3. k = 1 \/ k = 8
    BY <1>6 DEF Shape
  <2>4. Least(k + 1) = Least(k) + 1
    BY <2>3, LeastStep
  <2>5. Least(k) \in Nat
    BY DEF Least
  <2> HIDE DEF y, r
  <2>6. Len(y.rest) + Least(k + 1) <= n
    BY <1>1, <1>3, <1>5, <2>2, <2>4, <2>5
  <2>7. k + 1 \in 3 .. 8 => FALSE
    BY <2>3
  <2> QED
    BY <2>6, <2>7 DEF Gone
<1>7. CASE Shape[k + 1] # "string"
  <2>1. r[1].num # NoNumber
    <3>1. [x EXCEPT !.ok = FALSE].ok = FALSE
      BY <1>1
    <3> QED
      BY <1>7, <3>1, Zenon DEF Extract
  <2>2. y.rest = AfterNumber(r)
    BY <1>1, <1>4, <1>7, <2>1 DEF Extract
  <2>3. /\ Len(y.rest) <= Len(r)
        /\ y.rest # <<>> /\ y.rest[1].num # NoNumber => Len(y.rest) + 1 = Len(r)
    BY <1>1, <1>4, <2>2, AfterNumberFacts
  <2>4. k # 1 /\ k # 8
    BY <1>7 DEF Shape
  <2>5. Least(k) \in Nat
    BY DEF Least
  <2> HIDE DEF y, r
  <2>6. CASE k \in {0, 2}
    <3>1. Least(k + 1) = Least(k) /\ (k = 2 => Least(k) = 1)
      BY <2>6, LeastStep
    <3>2. Len(y.rest) + Least(k + 1) <= n
      BY <1>1, <1>3, <1>5, <2>3, <2>5, <3>1
    <3>3. ASSUME k + 1 \in 3 .. 8, Len(y.rest) + 1 = Len(r)
          PROVE  Len(y.rest) + (k + 1) - 1 <= n
      BY <1>1, <1>3, <1>5, <2>6, <3>1, <3>3
    <3> QED
      BY <2>3, <3>2, <3>3 DEF Gone
  <2>7. CASE k \in 3 .. 7
    <3>1. Least(k + 1) = k - 1 /\ Len(r) + k - 1 <= n
      BY <1>5, <2>1, <2>7, LeastStep
    <3>2. Len(y.rest) + Least(k + 1) <= n
      BY <1>1, <1>3, <2>3, <3>1
    <3>3. ASSUME Len(y.rest) + 1 = Len(r)
          PROVE  Len(y.rest) + (k + 1) - 1 <= n
      BY <1>1, <1>3, <3>1, <3>3
    <3> QED
      BY <2>3, <3>2, <3>3 DEF Gone
  <2> QED
    BY <2>4, <2>6, <2>7
<1> QED
  BY <1>6, <1>7

(* A record is made of seven fields or more.                               *)
LEMMA SevenGone ==
  ASSUME NEW s \in Seq(Field), Extraction(s).ok
  PROVE  Len(Extraction(s).rest) + 7 <= Len(s)
<1>1. PICK f : /\ f[0] = [ok |-> TRUE, got |-> <<>>, rest |-> s]
               /\ \A k \in 0 .. 8 : f[k + 1] = Extract(f[k], Shape[k + 1])
               /\ Extraction(s) = f[9]
  BY ExtractionStages
<1> DEFINE n == Len(s)
           Holds == {k \in Nat : Extracted(f[k], k) /\ Gone(f[k], n, k)}
<1>2. n \in Nat
  OBVIOUS
<1>3. Extracted(f[0], 0) /\ Gone(f[0], n, 0)
  BY <1>1, <1>2 DEF Extracted, Gone, Least
<1> HIDE DEF n
<1>4. ASSUME NEW k \in 0 .. 8, Extracted(f[k], k), Gone(f[k], n, k)
      PROVE  Extracted(f[k + 1], k + 1) /\ Gone(f[k + 1], n, k + 1)
  BY <1>1, <1>2, <1>4, ExtractFacts, GoneStep
<1>5. 1 \in Holds
  <2>1. Extracted(f[0 + 1], 0 + 1) /\ Gone(f[0 + 1], n, 0 + 1)
    BY <1>3, <1>4
  <2> QED
    BY <2>1
<1>6. ASSUME NEW k \in 1 .. 9 - 1, k \in Holds
      PROVE  k + 1 \in Holds
  BY <1>4, <1>6
<1> HIDE DEF Holds
<1>7. 1 .. 9 \subseteq Holds
  BY <1>5, <1>6, UpToLast
<1>8. Gone(f[9], n, 9)
  BY <1>7 DEF Holds
<1> QED
  BY <1>1, <1>8 DEF Gone, Least, n

-----------------------------------------------------------------------------
(* How many times, in how many lines.                                      *)

LEMMA TimesAppend ==
  ASSUME NEW S, NEW s \in Seq(S), NEW x \in S, NEW e
  PROVE  /\ Times(e, s) \in Nat
         /\ Times(e, Append(s, x)) = Times(e, s) + (IF x = e THEN 1 ELSE 0)
<1> DEFINE n == Len(s)
           a == Append(s, x)
           T == {k \in 1 .. n : s[k] = e}
           U == {k \in 1 .. n + 1 : a[k] = e}
<1>1. /\ n \in Nat /\ DOMAIN s = 1 .. n /\ DOMAIN a = 1 .. n + 1 /\ a[n + 1] = x
      /\ \A k \in 1 .. n : a[k] = s[k]
  OBVIOUS
<1>2. Times(e, s) = Cardinality(T) /\ Times(e, a) = Cardinality(U)
  BY <1>1 DEF Times
<1> HIDE DEF n, a
<1>3. IsFiniteSet(T) /\ Cardinality(T) \in Nat
  <2>1. IsFiniteSet(1 .. n) /\ T \in SUBSET (1 .. n)
    BY <1>1, FS_Interval
  <2> HIDE DEF T
  <2> QED
    BY <2>1, FS_Subset, FS_CardinalityType
<1>4. CASE x = e
  <2>1. U = T \cup {n + 1} /\ n + 1 \notin T
    BY <1>1, <1>4
  <2> HIDE DEF T, U
  <2> QED
    BY <1>2, <1>3, <1>4, <2>1, FS_AddElement DEF a
<1>5. CASE x # e
  <2>1. U = T
    BY <1>1, <1>5
  <2> HIDE DEF T, U
  <2> QED
    BY <1>2, <1>3, <1>5, <2>1 DEF a
<1> QED
  BY <1>4, <1>5

LEMMA TimesInNone ==
  ASSUME NEW e
  PROVE  Times(e, <<>>) = 0
<1>1. {k \in DOMAIN <<>> : <<>>[k] = e} = {}
  OBVIOUS
<1> QED
  BY <1>1, FS_EmptySet DEF Times

\* The places in front of the first bad one are counted.
AllGood(T, Good, n) == T = {k \in 1 .. n : \A l \in 1 .. k : l \in Good}

LEMMA PrefixIs ==
  ASSUME NEW n \in Nat, NEW Good, NEW T, AllGood(T, Good, n)
  PROVE  \E c \in 0 .. n : T = 1 .. c /\ Cardinality(T) = c /\ 1 .. c \subseteq Good
<1>0. T = {k \in 1 .. n : \A l \in 1 .. k : l \in Good}
  BY DEF AllGood
<1>1. ASSUME NEW c \in 0 .. n, T = 1 .. c, 1 .. c \subseteq Good
      PROVE  \E m \in 0 .. n : T = 1 .. m /\ Cardinality(T) = m /\ 1 .. m \subseteq Good
  <2>1. Cardinality(1 .. c) = c
    BY FS_Interval
  <2> QED
    BY <1>1, <2>1
<1> DEFINE B == {k \in 1 .. n : k \notin Good}
<1>2. CASE B = {}
  <2>1. 1 .. n \subseteq Good
    BY <1>2
  <2>2. T = 1 .. n
    BY <1>0, <2>1
  <2> QED
    BY <1>1, <2>1, <2>2
<1>3. CASE B # {}
  <2>1. PICK b \in B : \A m \in B : b <= m
    <3>1. B \subseteq Nat
      OBVIOUS
    <3> HIDE DEF B
    <3> QED
      BY <1>3, <3>1, SmallestOf
  <2>2. b - 1 \in 0 .. n /\ 1 .. b - 1 \subseteq Good
    BY <2>1
  <2>3. \A k \in 1 .. n : k \in T <=> k <= b - 1
    BY <1>0, <2>1
  <2>4. T = 1 .. b - 1
    BY <1>0, <2>2, <2>3
  <2> QED
    BY <1>1, <2>2, <2>4
<1> QED
  BY <1>2, <1>3

LEMMA JoinOfThree ==
  ASSUME NEW S, NEW x \in Seq(S), NEW y \in Seq(S), NEW z \in Seq(S)
  PROVE  (x \o y) \o z = x \o (y \o z)
BY ConcatAssociative

IsJoin(c, a, b) == c = a \o b

LEMMA JoinsOn ==
  ASSUME NEW S, NEW x, NEW y, NEW z, NEW both, NEW more, NEW behind,
         x \in Seq(S), y \in Seq(S), z \in Seq(S),
         IsJoin(both, x, y), IsJoin(more, both, z), IsJoin(behind, y, z)
  PROVE  IsJoin(more, x, behind)
<1>1. (x \o y) \o z = x \o (y \o z)
  BY JoinOfThree
<1> QED
  BY <1>1, Zenon DEF IsJoin

\* From m on, F holds what it held and the members of t behind it.
Joins(F, t, m, n, S) ==
  \A l \in m .. n - 1 :
    F[l] \in Seq(S) /\ t[l + 1] \in Seq(S) /\ IsJoin(F[l + 1], F[l], t[l + 1])

\* What is joined to F and G alike leaves x in front.
LEMMA JoinedBehind ==
  ASSUME NEW S, NEW m \in Nat, NEW n \in Nat, m <= n, NEW x, x \in Seq(S),
         NEW t, NEW F, NEW G, IsJoin(F[m], x, G[m]),
         Joins(F, t, m, n, S), Joins(G, t, m, n, S)
  PROVE  IsJoin(F[n], x, G[n])
<1> DEFINE Good == {l \in Nat : IsJoin(F[l], x, G[l])}
           Holds == {k \in Nat : m - 1 + k \in Good}
           last == n - m + 1
<1>2. m \in Good
  OBVIOUS
<1>3. ASSUME NEW l \in m .. n - 1, l \in Good
      PROVE  l + 1 \in Good
  <2>1. /\ G[l] \in Seq(S) /\ t[l + 1] \in Seq(S)
        /\ IsJoin(F[l + 1], F[l], t[l + 1]) /\ IsJoin(G[l + 1], G[l], t[l + 1])
    BY Zenon DEF Joins
  <2>2. IsJoin(F[l], x, G[l])
    BY <1>3
  <2>3. l + 1 \in Nat
    OBVIOUS
  <2> DEFINE y == G[l]
             z == t[l + 1]
             f == F[l]
             more == F[l + 1]
             behind == G[l + 1]
  <2>4. /\ y \in Seq(S) /\ z \in Seq(S) /\ IsJoin(f, x, y)
        /\ IsJoin(more, f, z) /\ IsJoin(behind, y, z)
    BY <2>1, <2>2, Zenon
  <2> HIDE DEF y, z, f, more, behind
  <2>5. IsJoin(more, x, behind)
    BY <2>4, JoinsOn
  <2>6. IsJoin(F[l + 1], x, G[l + 1])
    BY <2>5, Zenon DEF more, behind
  <2> QED
    BY <2>3, <2>6
<1> HIDE DEF Good
<1>4. 1 \in Holds
  <2>1. m - 1 + 1 = m
    OBVIOUS
  <2> QED
    BY <1>2, <2>1
<1>5. ASSUME NEW k \in 1 .. last - 1, k \in Holds
      PROVE  k + 1 \in Holds
  <2>1. m - 1 + k \in m .. n - 1 /\ (m - 1 + k) + 1 = m - 1 + (k + 1)
    OBVIOUS
  <2>2. (m - 1 + k) + 1 \in Good
    BY <1>3, <1>5, <2>1
  <2> QED
    BY <2>1, <2>2
<1>6. last \in Nat /\ last \in 1 .. last /\ m - 1 + last = n
  OBVIOUS
<1> HIDE DEF last, Holds
<1>7. 1 .. last \subseteq Holds
  BY <1>4, <1>5, <1>6, UpToLast
<1>8. m - 1 + last \in Good
  BY <1>6, <1>7 DEF Holds
<1> QED
  BY <1>6, <1>8 DEF Good

\* The first of several sequences stands in front.
LEMMA FlattenFrom ==
  ASSUME NEW S, NEW s \in Seq(Seq(S)), NEW m \in 1 .. Len(s)
  PROVE  /\ FlattenSeq(SubSeq(s, m + 1, Len(s))) \in Seq(S)
         /\ FlattenSeq(SubSeq(s, m, Len(s)))
              = s[m] \o FlattenSeq(SubSeq(s, m + 1, Len(s)))
<1> DEFINE n == Len(s)
           F == [l \in Nat |-> FlattenSeq(SubSeq(s, m, l))]
           G == [l \in Nat |-> FlattenSeq(SubSeq(s, m + 1, l))]
<1>1. n \in Nat /\ m \in 1 .. n /\ \A l \in 1 .. n : s[l] \in Seq(S)
  OBVIOUS
<1> HIDE DEF n
<1>2. ASSUME NEW a \in 1 .. n + 1, NEW l \in 0 .. n
      PROVE  SubSeq(s, a, l) \in Seq(Seq(S)) /\ FlattenSeq(SubSeq(s, a, l)) \in Seq(S)
  <2>1. \A k \in a .. l : s[k] \in Seq(S)
    BY <1>1
  <2>2. SubSeq(s, a, l) \in Seq(Seq(S))
    BY <1>1, <2>1, SubSeqProperties
  <2> QED
    BY <2>2, FlattenTypes
<1>3. ASSUME NEW a \in 1 .. n + 1, NEW l \in Nat, l + 1 \in a .. n
      PROVE  FlattenSeq(SubSeq(s, a, l + 1)) = FlattenSeq(SubSeq(s, a, l)) \o s[l + 1]
  <2>1. SubSeq(s, a, l + 1) = Append(SubSeq(s, a, l), s[l + 1])
    BY <1>1, <1>3 DEF n
  <2>2. l \in 0 .. n /\ s[l + 1] \in Seq(S)
    BY <1>1, <1>3
  <2> QED
    BY <1>2, <2>1, <2>2, FlattenAppend
<1>4. /\ \A l \in 0 .. n : F[l] \in Seq(S) /\ G[l] \in Seq(S)
      /\ F[m - 1] = <<>> /\ G[m] = <<>>
      /\ \A l \in Nat : l + 1 \in m .. n => F[l + 1] = F[l] \o s[l + 1]
      /\ \A l \in Nat : l + 1 \in m + 1 .. n => G[l + 1] = G[l] \o s[l + 1]
  <2>1. m \in 1 .. n + 1 /\ m + 1 \in 1 .. n + 1 /\ m - 1 \in Nat
    BY <1>1
  <2>2. SubSeq(s, m, m - 1) = <<>> /\ SubSeq(s, m + 1, m) = <<>>
    BY <1>1
  <2>3. F[m - 1] = <<>> /\ G[m] = <<>>
    <3>1. F[m - 1] = FlattenSeq(SubSeq(s, m, m - 1)) /\ G[m] = FlattenSeq(SubSeq(s, m + 1, m))
      BY <1>1, <2>1
    <3> QED
      BY <2>2, <3>1, FlattenOfNone, Zenon
  <2>4. \A l \in 0 .. n : F[l] \in Seq(S) /\ G[l] \in Seq(S)
    BY <1>2, <2>1
  <2>5. ASSUME NEW l \in Nat
        PROVE  /\ F[l] = FlattenSeq(SubSeq(s, m, l)) /\ G[l] = FlattenSeq(SubSeq(s, m + 1, l))
               /\ F[l + 1] = FlattenSeq(SubSeq(s, m, l + 1))
               /\ G[l + 1] = FlattenSeq(SubSeq(s, m + 1, l + 1))
    OBVIOUS
  <2> HIDE DEF F, G
  <2> QED
    BY <1>3, <2>1, <2>3, <2>4, <2>5
<1>5. F[n] = FlattenSeq(SubSeq(s, m, n)) /\ G[n] = FlattenSeq(SubSeq(s, m + 1, n))
  BY <1>1
<1>6. F[m] = s[m]
  <2>1. m - 1 \in Nat /\ (m - 1) + 1 = m /\ m \in m .. n /\ m \in Nat
    BY <1>1
  <2> HIDE DEF F, G
  <2>2. F[m] = F[m - 1] \o s[m]
    BY <1>4, <2>1
  <2> QED
    BY <1>1, <1>4, <2>2, ConcatEmptySeq
<1> HIDE DEF F, G
<1>7. ASSUME NEW l \in m .. n - 1
      PROVE  /\ F[l] \in Seq(S) /\ G[l] \in Seq(S)
             /\ s[l + 1] \in Seq(S)
             /\ F[l + 1] = F[l] \o s[l + 1] /\ G[l + 1] = G[l] \o s[l + 1]
  <2>1. /\ l \in Nat /\ l \in 0 .. n /\ l + 1 \in m .. n /\ l + 1 \in m + 1 .. n
        /\ l + 1 \in 1 .. n
    BY <1>1
  <2> QED
    BY <1>1, <1>4, <2>1
<1>8. IsJoin(F[n], s[m], G[n])
  <2>1. m \in Nat /\ n \in Nat /\ m <= n /\ s[m] \in Seq(S)
    BY <1>1
  <2>2. IsJoin(F[m], s[m], G[m])
    <3>1. s[m] = s[m] \o G[m]
      BY <1>4, <2>1, ConcatEmptySeq
    <3> QED
      BY <1>6, <3>1, Zenon DEF IsJoin
  <2>3. Joins(F, s, m, n, S) /\ Joins(G, s, m, n, S)
    BY <1>7, Zenon DEF Joins, IsJoin
  <2> QED
    BY <2>1, <2>2, <2>3, JoinedBehind, Zenon
<1>9. G[n] \in Seq(S)
  BY <1>1, <1>4
<1> QED
  BY <1>5, <1>8, <1>9, Zenon DEF n, IsJoin

-----------------------------------------------------------------------------
(* What the operations bring.                                              *)

WholeFile == [readable : BOOLEAN, version1 : BOOLEAN, lines : Seq(Seq(Field))]

\* The lines that are known to bring something bring it.
LinesBring(ls, es) ==
  /\ ls \in Seq(Seq(Field)) /\ es \in Seq(Experiments) /\ Len(es) <= Len(ls)
  /\ \A k \in 1 .. Len(es) : ReadsAs(ls[k], es[k])

IsGift(g) ==
  /\ Known(g) \in Seq(Experiments)
  /\ g.by # "add" => LinesBring(g.file.lines, Known(g))

Gifts ==
  {g \in [by : {"load", "add", "reload"}, file : WholeFile \cup {Null},
          exps : Seq(Experiments)] : IsGift(g)}

LEMMA ReadExperiments ==
  ASSUME NEW line \in Seq(Field), NEW e, ReadsAs(line, e)
  PROVE  e \in Experiments
<1> DEFINE s == line \o <<>>
           x == Extraction(s)
<1>1. <<>> \in Seq(Field) /\ s \in Seq(Field)
  OBVIOUS
<1>2. x.ok /\ Experiment(x.got) = e
  BY <1>1 DEF ReadsAs
<1> HIDE DEF s
<1>3. Extracted(x, 9)
  BY <1>1, ExtractionFacts
<1> HIDE DEF x
<1> QED
  BY <1>2, <1>3, ExperimentFacts

LEMMA GiftOfFile ==
  ASSUME NEW f \in Files
  PROVE  /\ FromFile(f) \in Gifts /\ FromFile(f).by # "add"
         /\ FromFile(f).file = f
<1> DEFINE ls == f.lines
           n == Len(ls)
           Good == {l \in 1 .. n : IsWhole(ls[l])}
           T == {k \in 1 .. n : \A l \in 1 .. k : l \in Good}
           g == FromFile(f)
<1>1. f \in WholeFile /\ ls \in Seq(Seq(Field))
  BY FilesAssumption DEF WholeFile
<1>2. n \in Nat /\ DOMAIN ls = 1 .. n /\ \A k \in 1 .. n : ls[k] \in Seq(Field)
  BY <1>1
<1>3. g.by = "load" /\ g.file = f /\ g.exps = <<>>
  BY DEF FromFile
<1> HIDE DEF ls, n
<1>4. Count(ls) = Cardinality(T)
  <2>1. {k \in DOMAIN ls : \A l \in 1 .. k : IsWhole(ls[l])} = T
    BY <1>2
  <2> QED
    BY <2>1 DEF Count
<1> HIDE DEF Good
<1>13. AllGood(T, Good, n)
  BY DEF AllGood
<1> HIDE DEF T
<1>5. PICK c \in 0 .. n : T = 1 .. c /\ Cardinality(T) = c /\ 1 .. c \subseteq Good
  BY <1>2, <1>13, PrefixIs
<1>6. Known(g) = [k \in 1 .. c |-> Experiment(ls[k])]
  BY <1>3, <1>4, <1>5 DEF Known, ls
<1>7. ASSUME NEW k \in 1 .. c
      PROVE  ReadsAs(ls[k], Experiment(ls[k])) /\ Experiment(ls[k]) \in Experiments
  <2>1. k \in 1 .. n /\ ls[k] \in Seq(Field) /\ IsWhole(ls[k])
    BY <1>2, <1>5 DEF Good
  <2>2. ReadsAs(ls[k], Experiment(ls[k]))
    BY <2>1, WholeReads
  <2> QED
    BY <2>1, <2>2, ReadExperiments
<1> HIDE DEF g
<1>8. Known(g) \in Seq(Experiments) /\ Len(Known(g)) = c
  <2>1. c \in Nat
    BY <1>2
  <2> QED
    BY <1>6, <1>7, <2>1, IsASeq
<1>9. LinesBring(ls, Known(g))
  <2>1. c <= Len(ls)
    BY <1>2 DEF n
  <2>2. \A k \in 1 .. c : ReadsAs(ls[k], Known(g)[k])
    BY <1>6, <1>7
  <2> QED
    BY <1>1, <1>8, <2>1, <2>2 DEF LinesBring
<1>10. IsGift(g)
  BY <1>3, <1>8, <1>9 DEF IsGift, ls
<1>11. g \in [by : {"load", "add", "reload"}, file : WholeFile \cup {Null},
              exps : Seq(Experiments)]
  <2>1. <<>> \in Seq(Experiments)
    OBVIOUS
  <2> QED
    BY <1>1, <2>1 DEF g, FromFile
<1> QED
  BY <1>3, <1>10, <1>11 DEF Gifts, g

LEMMA GiftOfUser ==
  ASSUME NEW e \in Experiments
  PROVE  /\ FromUser(e) \in Gifts /\ Known(FromUser(e)) = <<e>>
         /\ Doubtful(FromUser(e)) = <<>>
<1> DEFINE g == FromUser(e)
<1>1. g.by = "add" /\ g.exps = <<e>>
  BY DEF FromUser
<1>2. g \in [by : {"load", "add", "reload"}, file : WholeFile \cup {Null},
             exps : Seq(Experiments)]
  BY DEF FromUser
<1> HIDE DEF g
<1>3. Known(g) = <<e>>
  BY <1>1 DEF Known
<1>4. Doubtful(g) = <<>>
  BY <1>1 DEF Doubtful
<1>5. <<e>> \in Seq(Experiments)
  OBVIOUS
<1> QED
  BY <1>1, <1>2, <1>3, <1>4, <1>5 DEF Gifts, IsGift, g

LEMMA GiftOfWrite ==
  ASSUME experiments \in Seq(Experiments)
  PROVE  FromWrite([file |-> Written, exps |-> experiments]) \in Gifts
<1> DEFINE g == FromWrite([file |-> Written, exps |-> experiments])
<1>1. g.by = "reload" /\ g.file = Written
  BY DEF FromWrite
<1>2. Written.lines \in Seq(Seq(Field))
  BY LinesAreFields
<1>3. Known(g) = <<>>
  BY <1>1 DEF Known
<1>4. IsGift(g)
  <2>1. <<>> \in Seq(Experiments) /\ Len(<<>>) = 0 /\ Len(Written.lines) \in Nat
    BY <1>2
  <2> HIDE DEF g
  <2> QED
    BY <1>1, <1>2, <1>3, <2>1 DEF IsGift, LinesBring
<1>5. g \in [by : {"load", "add", "reload"}, file : WholeFile \cup {Null},
             exps : Seq(Experiments)]
  BY <1>2 DEF FromWrite, Written, WholeFile
<1> QED
  BY <1>4, <1>5 DEF Gifts

-----------------------------------------------------------------------------
(* All that several operations bring.                                      *)

ExpectedOf(gs) == FlattenSeq([k \in DOMAIN gs |-> Known(gs[k])])
DoubtedOf(gs) == FlattenSeq([k \in DOMAIN gs |-> Doubtful(gs[k])])

LEMMA GiftFacts ==
  ASSUME NEW g \in Gifts
  PROVE  /\ Known(g) \in Seq(Experiments) /\ Doubtful(g) \in Seq(Field)
         /\ g.by # "add" => LinesBring(g.file.lines, Known(g)) /\ Left(g) \in Seq(Field)
<1>1. Known(g) \in Seq(Experiments)
  BY DEF Gifts, IsGift
<1>2. g.by # "add" => LinesBring(g.file.lines, Known(g))
  BY DEF Gifts, IsGift
<1>3. ASSUME g.by # "add"
      PROVE  Left(g) \in Seq(Field)
  <2> DEFINE ls == g.file.lines
             m == Len(Known(g)) + 1
             n == Len(ls)
  <2>1. ls \in Seq(Seq(Field)) /\ Len(Known(g)) <= Len(ls)
    BY <1>2, <1>3 DEF LinesBring
  <2>2. Left(g) = FlattenSeq(SubSeq(ls, m, n))
    BY DEF Left
  <2>3. m \in 1 .. n + 1 /\ n \in Nat /\ \A k \in m .. n : ls[k] \in Seq(Field)
    BY <1>1, <2>1
  <2> HIDE DEF ls, m, n
  <2>4. SubSeq(ls, m, n) \in Seq(Seq(Field))
    BY <2>1, <2>3, SubSeqProperties
  <2> QED
    BY <2>2, <2>4, FlattenTypes
<1>4. Doubtful(g) \in Seq(Field)
  <2>1. <<>> \in Seq(Field)
    OBVIOUS
  <2> QED
    BY <1>3, <2>1 DEF Doubtful
<1> QED
  BY <1>1, <1>2, <1>3, <1>4

LEMMA LenOfJoin ==
  ASSUME NEW S, NEW s \in Seq(S), NEW t \in Seq(S)
  PROVE  Len(s \o t) = Len(s) + Len(t)
BY ConcatProperties

LEMMA ExpectedAppend ==
  ASSUME NEW gs \in Seq(Gifts), NEW g \in Gifts
  PROVE  /\ ExpectedOf(gs) \in Seq(Experiments)
         /\ ExpectedOf(Append(gs, g)) = ExpectedOf(gs) \o Known(g)
<1> DEFINE n == Len(gs)
           a == Append(gs, g)
           p == [k \in DOMAIN gs |-> Known(gs[k])]
           q == [k \in DOMAIN a |-> Known(a[k])]
<1>1. /\ n \in Nat /\ DOMAIN gs = 1 .. n /\ DOMAIN a = 1 .. n + 1 /\ a[n + 1] = g
      /\ \A k \in 1 .. n : a[k] = gs[k] /\ gs[k] \in Gifts
  OBVIOUS
<1> HIDE DEF n, a
<1>2. \A k \in 1 .. n : Known(gs[k]) \in Seq(Experiments)
  BY <1>1, GiftFacts
<1>3. p \in Seq(Seq(Experiments)) /\ Len(p) = n
  <2>1. p = [k \in 1 .. n |-> Known(gs[k])]
    BY <1>1
  <2>2. p \in Seq(Seq(Experiments))
    BY <1>1, <1>2, <2>1, IsASeq
  <2> QED
    BY <1>1, <2>1, <2>2
<1>4. Known(g) \in Seq(Experiments)
  BY GiftFacts
<1>5. q = Append(p, Known(g))
  <2>1. Append(p, Known(g)) = [k \in 1 .. n + 1 |-> IF k = n + 1 THEN Known(g) ELSE p[k]]
    BY <1>3, <1>4
  <2>2. \A k \in 1 .. n + 1 : Known(a[k]) = IF k = n + 1 THEN Known(g) ELSE p[k]
    BY <1>1
  <2> QED
    BY <1>1, <2>1, <2>2
<1>6. ExpectedOf(gs) = FlattenSeq(p) /\ ExpectedOf(a) = FlattenSeq(q)
  BY Zenon DEF ExpectedOf
<1> HIDE DEF p, q
<1> QED
  BY <1>3, <1>4, <1>5, <1>6, FlattenTypes, FlattenAppend DEF a

LEMMA DoubtedAppend ==
  ASSUME NEW gs \in Seq(Gifts), NEW g \in Gifts
  PROVE  /\ DoubtedOf(gs) \in Seq(Field)
         /\ Len(DoubtedOf(Append(gs, g))) = Len(DoubtedOf(gs)) + Len(Doubtful(g))
<1> DEFINE n == Len(gs)
           a == Append(gs, g)
           p == [k \in DOMAIN gs |-> Doubtful(gs[k])]
           q == [k \in DOMAIN a |-> Doubtful(a[k])]
<1>1. /\ n \in Nat /\ DOMAIN gs = 1 .. n /\ DOMAIN a = 1 .. n + 1 /\ a[n + 1] = g
      /\ \A k \in 1 .. n : a[k] = gs[k] /\ gs[k] \in Gifts
  OBVIOUS
<1> HIDE DEF n, a
<1>2. \A k \in 1 .. n : Doubtful(gs[k]) \in Seq(Field)
  BY <1>1, GiftFacts
<1>3. p \in Seq(Seq(Field)) /\ Len(p) = n
  <2>1. p = [k \in 1 .. n |-> Doubtful(gs[k])]
    BY <1>1
  <2>2. p \in Seq(Seq(Field))
    BY <1>1, <1>2, <2>1, IsASeq
  <2> QED
    BY <1>1, <2>1, <2>2
<1>4. Doubtful(g) \in Seq(Field)
  BY GiftFacts
<1>5. q = Append(p, Doubtful(g))
  <2>1. Append(p, Doubtful(g))
          = [k \in 1 .. n + 1 |-> IF k = n + 1 THEN Doubtful(g) ELSE p[k]]
    BY <1>3, <1>4
  <2>2. \A k \in 1 .. n + 1 : Doubtful(a[k]) = IF k = n + 1 THEN Doubtful(g) ELSE p[k]
    BY <1>1
  <2> QED
    BY <1>1, <2>1, <2>2
<1>6. DoubtedOf(gs) = FlattenSeq(p) /\ DoubtedOf(a) = FlattenSeq(q)
  BY Zenon DEF DoubtedOf
<1> HIDE DEF p, q
<1>7. DoubtedOf(gs) \in Seq(Field) /\ DoubtedOf(a) = DoubtedOf(gs) \o Doubtful(g)
  BY <1>3, <1>4, <1>5, <1>6, FlattenTypes, FlattenAppend
<1> QED
  BY <1>4, <1>7, LenOfJoin DEF a

LEMMA NothingGiven == ExpectedOf(<<>>) = <<>> /\ DoubtedOf(<<>>) = <<>>
<1>1. [k \in DOMAIN <<>> |-> Known(<<>>[k])] = <<>>
  OBVIOUS
<1>2. [k \in DOMAIN <<>> |-> Doubtful(<<>>[k])] = <<>>
  OBVIOUS
<1> QED
  BY <1>1, <1>2, FlattenOfNone DEF ExpectedOf, DoubtedOf

-----------------------------------------------------------------------------
(* All that is expected is there, and of anything else only what d fields  *)
(* are enough for.                                                         *)

Covered(es, xs, d) ==
  /\ \A e : Times(e, xs) <= Times(e, es)
  /\ 7 * (Len(es) - Len(xs)) <= d

LEMMA CoveredByNone == Covered(<<>>, <<>>, 0)
BY TimesInNone DEF Covered

LEMMA CoveredAppend ==
  ASSUME NEW es \in Seq(Experiments), NEW xs \in Seq(Experiments), NEW d \in Int,
         NEW e \in Experiments, Covered(es, xs, d)
  PROVE  Covered(Append(es, e), Append(xs, e), d)
<1>1. ASSUME NEW f
      PROVE  Times(f, Append(xs, e)) <= Times(f, Append(es, e))
  <2>1. /\ Times(f, xs) \in Nat /\ Times(f, es) \in Nat
        /\ Times(f, Append(xs, e)) = Times(f, xs) + (IF e = f THEN 1 ELSE 0)
        /\ Times(f, Append(es, e)) = Times(f, es) + (IF e = f THEN 1 ELSE 0)
    BY TimesAppend
  <2>2. Times(f, xs) <= Times(f, es)
    BY DEF Covered
  <2> QED
    BY <2>1, <2>2
<1>2. 7 * (Len(Append(es, e)) - Len(Append(xs, e))) <= d
  <2>1. /\ Len(Append(es, e)) = Len(es) + 1 /\ Len(Append(xs, e)) = Len(xs) + 1
        /\ Len(es) \in Nat /\ Len(xs) \in Nat
    OBVIOUS
  <2>2. 7 * (Len(es) - Len(xs)) <= d
    BY DEF Covered
  <2> QED
    BY <2>1, <2>2
<1> QED
  BY <1>1, <1>2 DEF Covered

LEMMA CoveredMore ==
  ASSUME NEW es \in Seq(Experiments), NEW xs \in Seq(Experiments), NEW d \in Int,
         NEW more \in Int, NEW e \in Experiments, Covered(es, xs, d), d + 7 <= more
  PROVE  Covered(Append(es, e), xs, more)
<1>1. ASSUME NEW f
      PROVE  Times(f, xs) <= Times(f, Append(es, e))
  <2>1. /\ Times(f, xs) \in Nat /\ Times(f, es) \in Nat
        /\ Times(f, Append(es, e)) = Times(f, es) + (IF e = f THEN 1 ELSE 0)
    BY TimesAppend
  <2>2. Times(f, xs) <= Times(f, es)
    BY DEF Covered
  <2> QED
    BY <2>1, <2>2
<1>2. 7 * (Len(Append(es, e)) - Len(xs)) <= more
  <2>1. Len(Append(es, e)) = Len(es) + 1 /\ Len(es) \in Nat /\ Len(xs) \in Nat
    OBVIOUS
  <2>2. 7 * (Len(es) - Len(xs)) <= d
    BY DEF Covered
  <2> QED
    BY <2>1, <2>2
<1> QED
  BY <1>1, <1>2 DEF Covered

LEMMA CoveredWithin ==
  ASSUME NEW es \in Seq(Experiments), NEW xs \in Seq(Experiments), NEW d \in Int,
         NEW more \in Int, Covered(es, xs, d), d <= more
  PROVE  Covered(es, xs, more)
<1>1. 7 * (Len(es) - Len(xs)) <= d /\ Len(es) \in Nat /\ Len(xs) \in Nat
  BY DEF Covered
<1>2. 7 * (Len(es) - Len(xs)) <= more
  BY <1>1
<1> QED
  BY <1>2 DEF Covered

-----------------------------------------------------------------------------
(* A load under way.                                                       *)

\* What is expected when m records of the last operation have been read.
PartExpected(gs, m) == ExpectedOf(Front(gs)) \o SubSeq(Known(Last(gs)), 1, m)

\* What is then left of its file.
RestLines(g, m) == FlattenSeq(SubSeq(g.file.lines, m + 1, Len(g.file.lines)))

\* The lines that are known to bring something are still being read, es are
\* the experiments and s is the rest of the stream ...
LinesComing(gs, es, s) ==
  \E m \in 0 .. Len(Known(Last(gs))) :
    /\ s = RestLines(Last(gs), m)
    /\ Covered(es, PartExpected(gs, m), Len(DoubtedOf(Front(gs))))

\* ... or what is left behind them.
FieldsComing(gs, es, s) ==
  Covered(es, ExpectedOf(gs), Len(DoubtedOf(gs)) - Len(s))

LEMMA LastGift ==
  ASSUME NEW gs \in Seq(Gifts), gs # <<>>
  PROVE  /\ Front(gs) \in Seq(Gifts) /\ Last(gs) \in Gifts
         /\ ExpectedOf(Front(gs)) \in Seq(Experiments)
         /\ ExpectedOf(gs) \in Seq(Experiments)
         /\ ExpectedOf(gs) = ExpectedOf(Front(gs)) \o Known(Last(gs))
         /\ DoubtedOf(Front(gs)) \in Seq(Field) /\ DoubtedOf(gs) \in Seq(Field)
         /\ Len(DoubtedOf(gs)) = Len(DoubtedOf(Front(gs))) + Len(Doubtful(Last(gs)))
<1>1. Front(gs) \in Seq(Gifts) /\ Last(gs) \in Gifts /\ gs = Append(Front(gs), Last(gs))
  BY FrontAndLast
<1>2. /\ ExpectedOf(Front(gs)) \in Seq(Experiments)
      /\ ExpectedOf(Append(Front(gs), Last(gs)))
           = ExpectedOf(Front(gs)) \o Known(Last(gs))
  BY <1>1, ExpectedAppend
<1>3. /\ DoubtedOf(Front(gs)) \in Seq(Field)
      /\ Len(DoubtedOf(Append(Front(gs), Last(gs))))
           = Len(DoubtedOf(Front(gs))) + Len(Doubtful(Last(gs)))
  BY <1>1, DoubtedAppend
<1>4. ExpectedOf(gs) \in Seq(Experiments) /\ DoubtedOf(gs) \in Seq(Field)
  BY ExpectedAppend, DoubtedAppend, <1>1
<1> QED
  BY <1>1, <1>2, <1>3, <1>4

LEMMA JoinAppend ==
  ASSUME NEW S, NEW s \in Seq(S), NEW t \in Seq(S), NEW e \in S
  PROVE  s \o Append(t, e) = Append(s \o t, e)
OBVIOUS

LEMMA PartTypes ==
  ASSUME NEW S, NEW x \in Seq(S), NEW k \in Seq(S), NEW m \in 0 .. Len(k)
  PROVE  SubSeq(k, 1, m) \in Seq(S) /\ x \o SubSeq(k, 1, m) \in Seq(S)
<1>1. SubSeq(k, 1, m) \in Seq(S)
  OBVIOUS
<1> QED
  BY <1>1, ConcatProperties

LEMMA PartNone ==
  ASSUME NEW S, NEW x \in Seq(S), NEW k \in Seq(S)
  PROVE  x \o SubSeq(k, 1, 0) = x
<1>1. SubSeq(k, 1, 0) = <<>>
  OBVIOUS
<1> QED
  BY <1>1, ConcatEmptySeq

LEMMA PartAll ==
  ASSUME NEW S, NEW x \in Seq(S), NEW k \in Seq(S)
  PROVE  x \o SubSeq(k, 1, Len(k)) = x \o k
<1>1. SubSeq(k, 1, Len(k)) = k
  OBVIOUS
<1> QED
  BY <1>1

LEMMA PartNext ==
  ASSUME NEW S, NEW x \in Seq(S), NEW k \in Seq(S), NEW m \in 0 .. Len(k) - 1
  PROVE  x \o SubSeq(k, 1, m + 1) = Append(x \o SubSeq(k, 1, m), k[m + 1])
<1>1. SubSeq(k, 1, m + 1) = Append(SubSeq(k, 1, m), k[m + 1])
  OBVIOUS
<1>2. m \in 0 .. Len(k) /\ m + 1 \in 1 .. Len(k)
  OBVIOUS
<1>3. SubSeq(k, 1, m) \in Seq(S) /\ k[m + 1] \in S
  BY <1>2, PartTypes
<1> QED
  BY <1>1, <1>3, JoinAppend

LEMMA OneMorePart ==
  ASSUME NEW gs \in Seq(Gifts), gs # <<>>,
         NEW m \in 0 .. Len(Known(Last(gs))) - 1
  PROVE  /\ PartExpected(gs, m) \in Seq(Experiments)
         /\ PartExpected(gs, m + 1)
              = Append(PartExpected(gs, m), Known(Last(gs))[m + 1])
<1> DEFINE x == ExpectedOf(Front(gs))
           k == Known(Last(gs))
<1>1. x \in Seq(Experiments) /\ k \in Seq(Experiments)
  BY LastGift, GiftFacts
<1>2. /\ PartExpected(gs, m) = x \o SubSeq(k, 1, m)
      /\ PartExpected(gs, m + 1) = x \o SubSeq(k, 1, m + 1)
  BY DEF PartExpected
<1>3. m \in 0 .. Len(k) - 1
  OBVIOUS
<1> HIDE DEF x, k
<1>4. m \in 0 .. Len(k)
  BY <1>1, <1>3
<1>5. x \o SubSeq(k, 1, m) \in Seq(Experiments)
  BY <1>1, <1>4, PartTypes
<1>6. x \o SubSeq(k, 1, m + 1) = Append(x \o SubSeq(k, 1, m), k[m + 1])
  BY <1>1, <1>3, PartNext
<1> QED
  BY <1>2, <1>5, <1>6 DEF k

\* The record that a known line makes.
LEMMA ReadLine ==
  ASSUME NEW gs \in Seq(Gifts), gs # <<>>, Last(gs).by # "add",
         NEW es \in Seq(Experiments), NEW s,
         NEW m \in 0 .. Len(Known(Last(gs))) - 1, s = RestLines(Last(gs), m),
         Covered(es, PartExpected(gs, m), Len(DoubtedOf(Front(gs))))
  PROVE  LET x == Extraction(s)
         IN  x.ok /\ LinesComing(gs, Append(es, Experiment(x.got)), x.rest)
<1> DEFINE g == Last(gs)
           ls == g.file.lines
           k == Known(g)
           d == Len(DoubtedOf(Front(gs)))
           x == Extraction(s)
           t == RestLines(g, m + 1)
<1>1. g \in Gifts /\ d \in Nat /\ ExpectedOf(Front(gs)) \in Seq(Experiments)
  BY LastGift
<1>2. /\ ls \in Seq(Seq(Field)) /\ k \in Seq(Experiments) /\ Len(k) <= Len(ls)
      /\ \A l \in 1 .. Len(k) : ReadsAs(ls[l], k[l])
  BY <1>1, GiftFacts DEF LinesBring
<1>3. /\ m + 1 \in 1 .. Len(k) /\ m + 1 \in 1 .. Len(ls) /\ m + 1 \in 0 .. Len(k)
      /\ ReadsAs(ls[m + 1], k[m + 1]) /\ k[m + 1] \in Experiments
  <2>1. m \in 0 .. Len(k) - 1
    OBVIOUS
  <2> HIDE DEF k, ls
  <2>2. /\ m + 1 \in 1 .. Len(k) /\ m + 1 \in 1 .. Len(ls) /\ m + 1 \in 0 .. Len(k)
    BY <1>2, <2>1
  <2>3. k[m + 1] \in Experiments
    BY <1>2, <2>2
  <2> QED
    BY <1>2, <2>2, <2>3
<1>4. s = RestLines(g, m)
  OBVIOUS
<1> HIDE DEF g, k, d
<1>5. t \in Seq(Field) /\ s = ls[m + 1] \o t
  <2> DEFINE o == m + 1
  <2>1. /\ FlattenSeq(SubSeq(ls, o + 1, Len(ls))) \in Seq(Field)
        /\ FlattenSeq(SubSeq(ls, o, Len(ls))) = ls[o] \o FlattenSeq(SubSeq(ls, o + 1, Len(ls)))
    <3>1. o \in 1 .. Len(ls)
      BY <1>3
    <3> HIDE DEF o, ls
    <3> QED
      BY <1>2, <3>1, FlattenFrom
  <2> QED
    BY <1>4, <2>1, Zenon DEF RestLines
<1> HIDE DEF ls, t
<1>6. x.ok /\ x.rest = t /\ Experiment(x.got) = k[m + 1]
  BY <1>3, <1>5, Zenon DEF ReadsAs
<1> HIDE DEF x
<1>7. Covered(Append(es, k[m + 1]), PartExpected(gs, m + 1), d)
  <2> DEFINE xs == PartExpected(gs, m)
  <2>1. /\ xs \in Seq(Experiments)
        /\ PartExpected(gs, m + 1) = Append(xs, k[m + 1])
    BY OneMorePart DEF k, g
  <2>2. Covered(es, xs, d)
    BY DEF d
  <2> HIDE DEF xs
  <2>3. d \in Int /\ k[m + 1] \in Experiments
    BY <1>1, <1>3
  <2>4. Covered(Append(es, k[m + 1]), Append(xs, k[m + 1]), d)
    BY <2>1, <2>2, <2>3, CoveredAppend
  <2> QED
    BY <2>1, <2>4
<1> QED
  BY <1>3, <1>6, <1>7, Zenon DEF LinesComing, t, x, k, g, d

\* What lies behind the known lines.
LEMMA ReadBehind ==
  ASSUME NEW gs \in Seq(Gifts), gs # <<>>,
         NEW es \in Seq(Experiments), NEW s \in Seq(Field), FieldsComing(gs, es, s)
  PROVE  LET x == Extraction(s)
         IN  /\ x.ok => FieldsComing(gs, Append(es, Experiment(x.got)), x.rest)
             /\ Covered(es, ExpectedOf(gs), Len(DoubtedOf(gs)))
<1> DEFINE x == Extraction(s)
           d == Len(DoubtedOf(gs))
           xs == ExpectedOf(gs)
<1>1. d \in Nat /\ xs \in Seq(Experiments) /\ Len(s) \in Nat
  BY LastGift
<1>2. Extracted(x, 9)
  BY ExtractionFacts
<1>3. x.ok => Experiment(x.got) \in Experiments
  BY <1>2, ExperimentFacts
<1>4. x.rest \in Seq(Field) /\ (x.ok => Len(x.rest) + 7 <= Len(s))
  BY <1>2, SevenGone DEF Extracted
<1>5. Covered(es, xs, d - Len(s))
  BY DEF FieldsComing
<1> HIDE DEF d, xs, x
<1>6. Covered(es, xs, d)
  <2>1. d - Len(s) \in Int /\ d \in Int /\ d - Len(s) <= d
    BY <1>1
  <2> QED
    BY <1>1, <1>5, <2>1, CoveredWithin
<1>7. ASSUME x.ok
      PROVE  Covered(Append(es, Experiment(x.got)), xs, d - Len(x.rest))
  <2>1. Len(x.rest) \in Nat /\ Len(x.rest) + 7 <= Len(s)
    BY <1>4, <1>7
  <2>2. d - Len(s) \in Int /\ d - Len(x.rest) \in Int /\ d - Len(s) + 7 <= d - Len(x.rest)
    <3> DEFINE a == Len(s)
               b == Len(x.rest)
    <3>1. d \in Nat /\ a \in Nat /\ b \in Nat /\ b + 7 <= a
      BY <1>1, <2>1
    <3> HIDE DEF a, b
    <3>2. d - a \in Int /\ d - b \in Int /\ d - a + 7 <= d - b
      BY <3>1
    <3> QED
      BY <3>2 DEF a, b
  <2> QED
    BY <1>1, <1>3, <1>5, <1>7, <2>2, CoveredMore
<1> QED
  BY <1>6, <1>7 DEF FieldsComing, d, xs, x

(* A record that is read keeps what is expected within reach, and a record *)
(* that fails leaves all of it there.                                      *)
LEMMA RecordIsRead ==
  ASSUME NEW gs \in Seq(Gifts), gs # <<>>, Last(gs).by # "add",
         NEW es \in Seq(Experiments), NEW s \in Seq(Field),
         LinesComing(gs, es, s) \/ FieldsComing(gs, es, s)
  PROVE  LET x == Extraction(s)
             more == Append(es, Experiment(x.got))
         IN  IF x.ok THEN LinesComing(gs, more, x.rest) \/ FieldsComing(gs, more, x.rest)
             ELSE Covered(es, ExpectedOf(gs), Len(DoubtedOf(gs)))
<1>1. CASE FieldsComing(gs, es, s)
  BY <1>1, ReadBehind
<1>2. CASE LinesComing(gs, es, s)
  <2> DEFINE g == Last(gs)
             k == Known(g)
             d == Len(DoubtedOf(Front(gs)))
  <2>1. PICK m \in 0 .. Len(k) : s = RestLines(g, m) /\ Covered(es, PartExpected(gs, m), d)
    BY <1>2, Zenon DEF LinesComing
  <2>2. g \in Gifts /\ k \in Seq(Experiments) /\ Len(k) \in Nat /\ d \in Nat
    <3>1. g \in Gifts /\ DoubtedOf(Front(gs)) \in Seq(Field)
      BY LastGift
    <3>2. k \in Seq(Experiments)
      BY <3>1, GiftFacts
    <3> QED
      BY <3>1, <3>2
  <2>3. CASE m \in 0 .. Len(k) - 1
    BY <2>1, <2>3, ReadLine
  <2>4. CASE m = Len(k)
    <3>1. s = Left(g)
      BY <2>1, <2>4 DEF RestLines, Left
    <3>2. PartExpected(gs, m) = ExpectedOf(gs)
      <4>1. ExpectedOf(Front(gs)) \in Seq(Experiments)
        BY LastGift
      <4>2. ExpectedOf(Front(gs)) \o SubSeq(k, 1, Len(k)) = ExpectedOf(Front(gs)) \o k
        BY <2>2, <4>1, PartAll
      <4> QED
        BY <2>4, <4>2, LastGift DEF PartExpected
    <3>3. Len(DoubtedOf(gs)) = d + Len(Doubtful(g)) /\ Len(s) \in Nat
      BY LastGift
    <3>6. Doubtful(g) = s \/ (Doubtful(g) = <<>> /\ (s = <<>> \/ s[1].num = NoNumber))
      BY <2>2, <3>1 DEF Doubtful, Gifts
    <3>4. CASE Doubtful(g) = s
      <4>1. Doubtful(g) = s
        BY <3>4
      <4>2. Len(DoubtedOf(gs)) - Len(s) = d
        BY <2>2, <3>3, <4>1
      <4>3. FieldsComing(gs, es, s)
        BY <2>1, <3>2, <4>2 DEF FieldsComing
      <4> QED
        BY <4>3, ReadBehind
    <3>5. CASE Doubtful(g) = <<>> /\ (s = <<>> \/ s[1].num = NoNumber)
      <4>1. Doubtful(g) = <<>>
        BY <3>5
      <4>2. Len(DoubtedOf(gs)) = d
        BY <2>2, <3>3, <4>1
      <4>3. ~Extraction(s).ok
        BY <3>5, FailsAtOnce
      <4> QED
        BY <2>1, <3>2, <4>2, <4>3
    <3> QED
      BY <3>4, <3>5, <3>6
  <2> QED
    BY <2>2, <2>3, <2>4
<1> QED
  BY <1>1, <1>2

-----------------------------------------------------------------------------
(* The invariant.                                                          *)

AllThere == Covered(experiments, ExpectedOf(given), Len(DoubtedOf(given)))

LoadsAreRead ==
  /\ given \in Seq(Gifts)
  /\ written = Null \/ FromWrite(written) \in Gifts
  /\ spc \in {"idle", "sort"} => AllThere
  /\ spc = "load" =>
       /\ given # <<>> /\ Last(given).by # "add"
       /\ LinesComing(given, experiments, input) \/ FieldsComing(given, experiments, input)

LEMMA LoadsInit ==
  ASSUME UserInit
  PROVE  LoadsAreRead
<1>1. experiments = <<>> /\ given = <<>> /\ written = Null /\ spc = "idle"
  BY DEF UserInit, ScenarioInit
<1>2. Len(DoubtedOf(given)) = 0 /\ ExpectedOf(given) = <<>> /\ given \in Seq(Gifts)
  BY <1>1, NothingGiven
<1>3. AllThere
  BY <1>1, <1>2, CoveredByNone DEF AllThere
<1> QED
  BY <1>1, <1>2, <1>3 DEF LoadsAreRead

\* A load begins in front of the lines.
LEMMA LoadBegins ==
  ASSUME ScenarioInv, LoadsAreRead, NEW g \in Gifts, g.by # "add",
         LoadScenario(g.file), given' = Append(given, g), UNCHANGED written
  PROVE  LoadsAreRead'
<1> DEFINE gs == Append(given, g)
           s == FlattenSeq(g.file.lines)
<1>1. /\ spc = "idle" /\ spc' \in {"load", "exit"} /\ experiments' = experiments
      /\ spc' = "load" => input' = s
  BY DEF LoadScenario
<1>2. /\ given \in Seq(Gifts) /\ AllThere /\ experiments \in Seq(Experiments)
      /\ written = Null \/ FromWrite(written) \in Gifts
  BY <1>1 DEF LoadsAreRead, ScenarioInv, TypesOK
<1>3. gs \in Seq(Gifts) /\ gs # <<>> /\ Last(gs) = g /\ Front(gs) = given
  <2>1. given \in Seq(Gifts) /\ g \in Gifts
    BY <1>2
  <2>2. Last(gs) = g /\ Front(gs) = given
    BY <2>1, FrontAndLast
  <2>3. gs \in Seq(Gifts) /\ gs # <<>>
    BY <2>1
  <2> QED
    BY <2>2, <2>3
<1>4. /\ Known(g) \in Seq(Experiments) /\ g.file.lines \in Seq(Seq(Field))
      /\ Len(Known(g)) \in Nat
  BY GiftFacts DEF LinesBring
<1> HIDE DEF gs
<1>5. s = RestLines(g, 0)
  <2>1. SubSeq(g.file.lines, 0 + 1, Len(g.file.lines)) = g.file.lines
    BY <1>4
  <2> QED
    BY <2>1, Zenon DEF RestLines
<1>6. PartExpected(gs, 0) = ExpectedOf(given)
  <2> DEFINE x == ExpectedOf(given)
             k == Known(g)
  <2>1. x \in Seq(Experiments) /\ k \in Seq(Experiments)
    BY <1>2, <1>4, ExpectedAppend
  <2>2. PartExpected(gs, 0) = x \o SubSeq(k, 1, 0)
    BY <1>3 DEF PartExpected
  <2> HIDE DEF x, k
  <2>3. x \o SubSeq(k, 1, 0) = x
    BY <2>1, PartNone
  <2> QED
    BY <2>2, <2>3 DEF x
<1> HIDE DEF s
<1>7. LinesComing(gs, experiments, s)
  <2>1. 0 \in 0 .. Len(Known(Last(gs)))
    BY <1>3, <1>4
  <2>2. Covered(experiments, PartExpected(gs, 0), Len(DoubtedOf(Front(gs))))
    BY <1>2, <1>3, <1>6 DEF AllThere
  <2>3. s = RestLines(Last(gs), 0)
    BY <1>3, <1>5
  <2> QED
    BY <2>1, <2>2, <2>3 DEF LinesComing
<1>8. given' = gs /\ written' = written
  BY DEF gs
<1> QED
  BY <1>1, <1>2, <1>3, <1>7, <1>8 DEF LoadsAreRead

LEMMA LoadReads ==
  ASSUME ScenarioInv, LoadsAreRead, ReadExperiment, UNCHANGED uvars
  PROVE  LoadsAreRead'
<1> DEFINE x == Extraction(input)
           more == Append(experiments, Experiment(x.got))
<1>1. /\ spc = "load" /\ input' = x.rest
      /\ x.ok => experiments' = more /\ spc' = "load"
      /\ ~x.ok => experiments' = experiments /\ spc' = "idle"
  BY DEF ReadExperiment, Appended
<1>2. given' = given /\ written' = written
  BY DEF uvars
<1>3. /\ given \in Seq(Gifts) /\ given # <<>> /\ Last(given).by # "add"
      /\ written = Null \/ FromWrite(written) \in Gifts
      /\ LinesComing(given, experiments, input) \/ FieldsComing(given, experiments, input)
  BY <1>1 DEF LoadsAreRead
<1>4. experiments \in Seq(Experiments) /\ input \in Seq(Field)
  BY DEF ScenarioInv, TypesOK
<1>5. IF x.ok THEN LinesComing(given, more, x.rest) \/ FieldsComing(given, more, x.rest)
      ELSE Covered(experiments, ExpectedOf(given), Len(DoubtedOf(given)))
  BY <1>3, <1>4, RecordIsRead
<1> HIDE DEF x, more
<1> QED
  BY <1>1, <1>2, <1>3, <1>5 DEF LoadsAreRead, AllThere

LEMMA UserBrings ==
  ASSUME ScenarioInv, LoadsAreRead, UserAdds
  PROVE  LoadsAreRead'
<1>1. PICK e \in Added : AddExperiment(e) /\ given' = Append(given, FromUser(e))
  BY DEF UserAdds
<1>2. /\ e \in Experiments /\ spc = "idle" /\ spc' = "idle" /\ written' = written
      /\ experiments' = Append(experiments, e)
  BY <1>1, AddedAssumption DEF UserAdds, AddExperiment
<1>3. /\ given \in Seq(Gifts) /\ AllThere /\ experiments \in Seq(Experiments)
      /\ written = Null \/ FromWrite(written) \in Gifts
  BY <1>2 DEF LoadsAreRead, ScenarioInv, TypesOK
<1> DEFINE g == FromUser(e)
           xs == ExpectedOf(given)
           d == Len(DoubtedOf(given))
<1>4. g \in Gifts /\ Known(g) = <<e>> /\ Doubtful(g) = <<>>
  BY <1>2, GiftOfUser
<1> HIDE DEF g
<1>5. /\ xs \in Seq(Experiments) /\ ExpectedOf(Append(given, g)) = xs \o <<e>>
      /\ d \in Nat /\ Len(DoubtedOf(Append(given, g))) = d
  <2>1. xs \in Seq(Experiments) /\ ExpectedOf(Append(given, g)) = xs \o <<e>>
    BY <1>3, <1>4, ExpectedAppend
  <2>2. DoubtedOf(given) \in Seq(Field)
        /\ Len(DoubtedOf(Append(given, g))) = d + Len(Doubtful(g))
    BY <1>3, <1>4, DoubtedAppend
  <2>3. d \in Nat /\ Len(Doubtful(g)) = 0
    BY <1>4, <2>2
  <2> HIDE DEF d
  <2> QED
    BY <2>1, <2>2, <2>3
<1> HIDE DEF xs, d
<1>6. xs \o <<e>> = Append(xs, e)
  BY <1>2, <1>5
<1>7. Covered(Append(experiments, e), Append(xs, e), d)
  <2>1. Covered(experiments, xs, d) /\ d \in Int
    BY <1>3, <1>5 DEF AllThere, xs, d
  <2> QED
    BY <1>2, <1>3, <1>5, <2>1, CoveredAppend
<1>8. given' = Append(given, g) /\ Append(given, g) \in Seq(Gifts)
  BY <1>1, <1>3, <1>4 DEF g
<1>9. AllThere'
  BY <1>2, <1>5, <1>6, <1>7, <1>8 DEF AllThere
<1> QED
  BY <1>2, <1>3, <1>8, <1>9 DEF LoadsAreRead

LEMMA ExchangeCovers ==
  ASSUME ScenarioInv, LoadsAreRead, Compare, UNCHANGED uvars
  PROVE  LoadsAreRead'
<1>1. spc = "sort" /\ spc' = "sort" /\ given' = given /\ written' = written
  BY DEF Compare, uvars
<1>2. Len(experiments') = Len(experiments)
  BY ExchangeFacts
<1>3. \A e : Times(e, experiments') = Times(e, experiments)
  BY ExchangeKeeps
<1>4. Covered(experiments, ExpectedOf(given), Len(DoubtedOf(given)))
  BY <1>1 DEF LoadsAreRead, AllThere
<1>5. Covered(experiments', ExpectedOf(given), Len(DoubtedOf(given)))
  BY <1>2, <1>3, <1>4 DEF Covered
<1> QED
  BY <1>1, <1>5 DEF LoadsAreRead, AllThere

LEMMA LoadsStep ==
  ASSUME ScenarioInv, LoadsAreRead, [UserNext]_<<svars, uvars>>
  PROVE  LoadsAreRead'
<1>1. CASE UserLoads
  <2>1. PICK f \in Files : LoadScenario(f) /\ given' = Append(given, FromFile(f))
    BY <1>1 DEF UserLoads
  <2> DEFINE g == FromFile(f)
  <2>2. g \in Gifts /\ g.by # "add" /\ g.file = f
    BY GiftOfFile
  <2> HIDE DEF g
  <2>3. LoadScenario(g.file) /\ given' = Append(given, g) /\ written' = written
    BY <1>1, <2>1, <2>2 DEF UserLoads, g
  <2> QED
    BY <2>2, <2>3, LoadBegins
<1>2. CASE UserReloads
  <2> DEFINE g == FromWrite(written)
  <2>1. g.by # "add" /\ g.file = written.file
    BY DEF FromWrite
  <2>2. g \in Gifts
    BY <1>2 DEF UserReloads, LoadsAreRead
  <2> HIDE DEF g
  <2>3. LoadScenario(g.file) /\ given' = Append(given, g) /\ written' = written
    BY <1>2, <2>1 DEF UserReloads, g
  <2> QED
    BY <2>1, <2>2, <2>3, LoadBegins
<1>3. CASE UserAdds
  BY <1>3, UserBrings
<1>4. CASE UserClears
  <2>1. /\ experiments' = <<>> /\ given' = <<>> /\ spc' = "idle" /\ written' = written
    BY <1>4 DEF UserClears, ClearExperiments
  <2>2. AllThere'
    <3>1. Len(DoubtedOf(<<>>)) = 0 /\ ExpectedOf(<<>>) = <<>>
      BY NothingGiven
    <3> QED
      BY <2>1, <3>1, CoveredByNone DEF AllThere
  <2> QED
    BY <2>1, <2>2 DEF LoadsAreRead
<1>5. CASE UserSorts
  BY <1>5 DEF UserSorts, Sort, LoadsAreRead, AllThere
<1>6. CASE UserWrites
  <2>1. /\ written' = [file |-> Written, exps |-> experiments]
        /\ UNCHANGED <<experiments, input, spc, given>>
    BY <1>6 DEF UserWrites, svars
  <2>2. experiments \in Seq(Experiments)
    BY DEF ScenarioInv, TypesOK
  <2>3. FromWrite(written') \in Gifts
    BY <2>1, <2>2, GiftOfWrite
  <2>4. FromWrite(written)' = FromWrite(written')
    OBVIOUS
  <2> QED
    BY <2>1, <2>3, <2>4 DEF LoadsAreRead, AllThere
<1>7. CASE ScenarioStep /\ UNCHANGED uvars
  <2>1. CASE NextPlace \/ SortReturns
    BY <1>7, <2>1 DEF NextPlace, SortReturns, uvars, LoadsAreRead, AllThere
  <2> QED
    BY <1>7, <2>1, LoadReads, ExchangeCovers DEF ScenarioStep
<1>8. CASE UNCHANGED <<svars, uvars>>
  BY <1>8 DEF svars, uvars, LoadsAreRead, AllThere
<1> QED
  BY <1>1, <1>2, <1>3, <1>4, <1>5, <1>6, <1>7, <1>8 DEF UserNext

(* The experiments of all loads add up, also after sort(): none that a     *)
(* whole line, a user or a written file is known to bring is lost, and     *)
(* what else is there is made of seven fields or more each that lie behind *)
(* a damaged line; for any files, with any damage.                         *)
THEOREM ScenarioAddsUp == UserSpec => []LoadsAddUp
<1>1. UserInit => LoadsAreRead
  BY LoadsInit
<1>2. ScenarioInv /\ LoadsAreRead /\ [UserNext]_<<svars, uvars>> => LoadsAreRead'
  BY LoadsStep
<1>3. LoadsAreRead => LoadsAddUp
  <2>1. Expected = ExpectedOf(given) /\ Doubted = DoubtedOf(given)
    BY DEF Expected, Doubted, ExpectedOf, DoubtedOf
  <2> QED
    BY <2>1 DEF LoadsAreRead, AllThere, Covered, LoadsAddUp
<1> QED
  BY <1>1, <1>2, <1>3, ScenarioInvariant, PTL DEF UserSpec
===============================================================================
