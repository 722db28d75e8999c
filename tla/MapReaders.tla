------------------------------ MODULE MapReaders ------------------------------
(***************************************************************************)
(* The two readers of map files.  gridmap reads with                       *)
(* io::bittable_serialize: fields in a fixed order, then row after row.    *)
(* labelled_gridmap reads with gm_parser: three fields in any order, then  *)
(* every character that is not a space.  A file is the tokens of its       *)
(* header and the characters behind the word map.                          *)
(***************************************************************************)
EXTENDS Integers, SequencesExt

CONSTANTS
  Numeral,   \* the numbers of the headers: a function from words
  Newline,   \* a space between the rows
  GridDimensionMax   \* the characters that read_map has a buffer for: GRID_DIMENSION_MAX

\* Sizes of 0, which gridmap does not refuse, are left out.
ASSUME NumeralAssumption == \A word \in DOMAIN Numeral : Numeral[word] \in Nat \ {0}

ASSUME GridDimensionAssumption == GridDimensionMax \in Nat

MapFile == [head : Seq(STRING), body : Seq(STRING)]

UpTo(s, n) == SubSeq(s, 1, IF n < Len(s) THEN n ELSE Len(s))

\* A reader that gives up.
Rejected == [ok |-> FALSE, width |-> 0, height |-> 0, cells |-> <<>>]

-----------------------------------------------------------------------------
(* gm_parser                                                               *)

\* atoi
Atoi(word) == IF word \in DOMAIN Numeral THEN Numeral[word] ELSE 0

\* contents[key] after three pairs: the last value that key was given
GmField(head, key) ==
  LET places == {k \in {1, 3, 5} : head[k] = key}
  IN  IF places = {} THEN "" ELSE head[Max(places) + 1]

\* parse_header and the word map
GmAccepts(head) ==
  /\ Len(head) = 7
  /\ GmField(head, "type") = "octile"
  /\ Atoi(GmField(head, "height")) > 0
  /\ Atoi(GmField(head, "width")) > 0
  /\ head[7] = "map"

\* What is left of s without the spaces.
Solid(s) ==
  LET upto[n \in 0 .. Len(s)] ==
        IF n = 0 THEN <<>>
        ELSE IF s[n] = Newline THEN upto[n - 1] ELSE Append(upto[n - 1], s[n])
  IN  upto[Len(s)]

Tiles(f) == Solid(f.body)

\* Mutant: the characters are not counted.
GmParserUncounted(f) ==
  LET w == Atoi(GmField(f.head, "width"))
      h == Atoi(GmField(f.head, "height"))
      tiles == Tiles(f) \o [k \in 1 .. w * h |-> "."]
  IN  IF GmAccepts(f.head)
      THEN [ok |-> TRUE, width |-> w, height |-> h,
            cells |-> SubSeq(tiles, 1, w * h)]
      ELSE Rejected

\* The header and the tiles of a gm_parser, or exit(1).
GmParser(f) ==
  LET w == Atoi(GmField(f.head, "width"))
      h == Atoi(GmField(f.head, "height"))
  IN  IF GmAccepts(f.head) /\ Len(Tiles(f)) = w * h
      THEN [ok |-> TRUE, width |-> w, height |-> h, cells |-> Tiles(f)]
      ELSE Rejected

-----------------------------------------------------------------------------
(* io::bittable_serialize                                                  *)

\* The fields behind the type; those of a patch have a number in front.
AfterType(head) ==
  IF head # <<>> /\ head[1] = "type" THEN SubSeq(head, 3, Len(head)) ELSE head

\* m_type of a header that is read
GridType(head) ==
  IF head[1] = "type" /\ Len(head) > 1 /\ head[2] = "octile" THEN "OCTILE"
  ELSE IF head[1] = "type" /\ Len(head) > 1 /\ head[2] = "patch" THEN "PATCH"
  ELSE IF head[1] = "type" THEN "OTHER" ELSE "NONE"

\* read_header
ReadHeader(head) ==
  LET fields == IF head # <<>> /\ GridType(head) = "PATCH"
                THEN SubSeq(head, 5, Len(head)) ELSE AfterType(head)
  IN  /\ head # <<>>
      /\ GridType(head) = "PATCH" =>
           Len(head) >= 4 /\ head[3] = "patches" /\ head[4] \in DOMAIN Numeral
      /\ Len(fields) = 5
      /\ fields[1] = "height" /\ fields[2] \in DOMAIN Numeral
      /\ fields[3] = "width" /\ fields[4] \in DOMAIN Numeral
      /\ fields[5] = "map"

\* in >> std::ws, then at most n characters
SkipSpaces(s) ==
  LET solid == {k \in DOMAIN s : s[k] # Newline}
  IN  IF solid = {} THEN <<>> ELSE SubSeq(s, Min(solid), Len(s))

ReadRow(s, n) == UpTo(SkipSpaces(s), n)

RestOf(s, n) == SubSeq(SkipSpaces(s), n + 1, Len(SkipSpaces(s)))

(* buffer after the row is read, and what is left of the file.  The state  *)
(* of the stream is not looked at: where the file ends early, the buffer   *)
(* keeps what the row before has left.                                     *)
NextRow(x, n) ==
  LET row == ReadRow(x.rest, n)
  IN  [buffer |-> [k \in 1 .. n |->
                     IF k <= Len(row) THEN row[k] ELSE x.buffer[k]],
       rest |-> RestOf(x.rest, n)]

\* The buffers of all rows; nobody has written into the first one.
Buffers(body, w, h, junk) ==
  LET row[y \in 0 .. h] ==
        IF y = 0 THEN [buffer |-> [k \in 1 .. w |-> junk], rest |-> body]
        ELSE NextRow(row[y - 1], w)
  IN  [y \in 1 .. h |-> row[y].buffer]

\* cell_type
Blocker     == {"@", "O", "S", "T", "W"}
Traversable == {".", "G"}

ASSUME NewlineAssumption == Newline \notin Blocker \cup Traversable

\* Rows that the buffer has no room for; any number of them is read.
TooWide(head) == Numeral[head[6]] > GridDimensionMax

\* The cells that gridmap's constructor reads, or an exception.
ReadGrid(f, junk) ==
  IF ~ReadHeader(f.head) THEN Rejected
  ELSE IF GridType(f.head) # "OCTILE" THEN Rejected
  ELSE IF TooWide(f.head) THEN Rejected
  ELSE LET h == Numeral[f.head[4]]
           w == Numeral[f.head[6]]
           buffers == Buffers(f.body, w, h, junk)
           cells == [k \in 1 .. w * h |-> buffers[((k - 1) \div w) + 1][((k - 1) % w) + 1]]
       IN  IF \A k \in DOMAIN cells : cells[k] \in Blocker \cup Traversable
           THEN [ok |-> TRUE, width |-> w, height |-> h, cells |-> cells]
           ELSE Rejected
=============================================================================
