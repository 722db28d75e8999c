------------------------------ MODULE MCScenario ------------------------------
(***************************************************************************)
(* Scenario files of up to three lines for TLC, with every kind of damage. *)
(***************************************************************************)
EXTENDS ScenarioCorrectness

MCWords == {"arena", "up", "x"}
Arena == Word("arena")
SevenUp == [Digits(7) EXCEPT !.word = "up"]

Line(map, xs, dist) ==
  <<Digits(3), map, Digits(5), Digits(5), Digits(xs), Digits(1), Digits(2),
    Digits(4), dist>>

Near  == Line(Arena, 0, Decimal(150, 1))
Far   == Line(Arena, 1, Decimal(1241, 2))
Whole == Line(Arena, 2, Digits(9))
Up    == Line(SevenUp, 3, Decimal(300, 2))

Short   == SubSeq(Near, 1, 8)                     \* the distance is missing
Long    == Far \o <<Digits(4)>>                   \* one field too many
Garbled == [Far EXCEPT ![4] = Word("x")]          \* a word for a number
Split   == [Near EXCEPT ![3] = Decimal(550, 1)]   \* a fraction for a number

File(lines) == [readable |-> TRUE, version1 |-> TRUE, lines |-> lines]

MCFiles ==
  {File(l) : l \in
     {<<>>, <<Far, Near, Whole>>, <<Near>>, <<Up, Up, Far>>,
      <<Far, Short, Near>>, <<Near, Short, Up>>, <<Whole, Short>>, <<Long, Near>>,
      <<Far, Garbled, Near>>, <<Split, Near>>}}
  \cup {[File(<<Near>>) EXCEPT !.readable = FALSE],
        [File(<<Near>>) EXCEPT !.version1 = FALSE]}

MCAdded == {Experiment(Line(SevenUp, 4, Decimal(725, 4)))}
=============================================================================
