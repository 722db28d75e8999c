----------------------------- MODULE ProgramSafety -----------------------------
(***************************************************************************)
(* The maps, the heuristics and the program.  The engine of the program is *)
(* that of UnidirectionalSearch on a map that was built of a file, so what *)
(* SearchSafety proves of every map and every estimate holds of it; what   *)
(* is added is that the policies and heuristics of grids and terrains meet *)
(* the hypotheses, for maps of every size.  Then the cells are compared    *)
(* with the file, for both readers and every number of characters in its   *)
(* lines, and the tables of the engine with the moves of the drawing, so   *)
(* that the rows that are printed, and the exit status, are compared with  *)
(* the drawing in the map file.                                            *)
(***************************************************************************)
EXTENDS ProgramCorrectness, SearchSafety, SequenceTheorems

-----------------------------------------------------------------------------
(* Rows and columns.                                                       *)

LEMMA Division ==
  ASSUME NEW n \in Int, NEW d \in Nat \ {0}
  PROVE  /\ n = (n \div d) * d + (n % d)
         /\ n % d \in 0 .. d - 1 /\ n \div d \in Int
  OBVIOUS

LEMMA Multiples ==
  ASSUME NEW a \in Int, NEW d \in Nat \ {0}, a >= 1
  PROVE  a * d >= d /\ a * d \in Int
  OBVIOUS

\* A number is a multiple of d and a rest below d in one way only.
LEMMA Quotient ==
  ASSUME NEW d \in Nat \ {0}, NEW q \in Int, NEW r \in 0 .. d - 1
  PROVE  (q * d + r) \div d = q /\ (q * d + r) % d = r
<1> DEFINE n == q * d + r
           p == n \div d
           s == n % d
<1>1. n \in Int
  OBVIOUS
<1>2. n = p * d + s /\ s \in 0 .. d - 1 /\ p \in Int
  <2> HIDE DEF n
  <2> QED
    BY <1>1, Division
<1>3. p * d + s = q * d + r
  BY <1>2
<1> HIDE DEF p, s
<1>4. (p - q) * d = r - s /\ (q - p) * d = s - r
  BY <1>2, <1>3
<1>5. ~(p - q >= 1)
  <2> SUFFICES ASSUME p - q >= 1
               PROVE  FALSE
    OBVIOUS
  <2>1. p - q \in Int
    BY <1>2
  <2>2. (p - q) * d >= d
    BY <2>1, Multiples
  <2> QED
    BY <1>2, <1>4, <2>2
<1>6. ~(q - p >= 1)
  <2> SUFFICES ASSUME q - p >= 1
               PROVE  FALSE
    OBVIOUS
  <2>1. q - p \in Int
    BY <1>2
  <2>2. (q - p) * d >= d
    BY <2>1, Multiples
  <2> QED
    BY <1>2, <1>4, <2>2
<1>7. p = q
  BY <1>2, <1>5, <1>6
<1>8. s = r
  BY <1>2, <1>3, <1>7
<1> QED
  BY <1>7, <1>8 DEF p, s

(* The place number k of a grid of w columns and h rows, and the number of *)
(* a place.                                                                *)
LEMMA NumberOf ==
  ASSUME NEW w \in Nat \ {0}, NEW h \in Nat \ {0},
         NEW x \in 0 .. w - 1, NEW y \in 0 .. h - 1
  PROVE  /\ y * w + x \in 0 .. w * h - 1 /\ y * w + x + 1 \in 1 .. w * h
         /\ (y * w + x) % w = x /\ (y * w + x) \div w = y
<1>1. (y * w + x) % w = x /\ (y * w + x) \div w = y
  BY Quotient
<1>2. (h - y) * w >= w /\ h - y \in Int
  BY Multiples
<1>3. y * w \in Int /\ y * w >= 0 /\ w * h \in Int /\ (h - y) * w = w * h - y * w
  OBVIOUS
<1> DEFINE a == y * w
           c == w * h
<1>4. a \in Int /\ a >= 0 /\ c \in Int /\ c - a >= w
  BY <1>2, <1>3
<1> HIDE DEF a, c
<1>5. a + x \in 0 .. c - 1 /\ a + x + 1 \in 1 .. c
  BY <1>4
<1> QED
  BY <1>1, <1>5 DEF a, c

LEMMA PlaceOf ==
  ASSUME NEW w \in Nat \ {0}, NEW h \in Nat \ {0}, NEW k \in 0 .. w * h - 1
  PROVE  /\ k % w \in 0 .. w - 1 /\ k \div w \in 0 .. h - 1
         /\ k = (k \div w) * w + (k % w)
<1> DEFINE x == k % w
           r == k \div w
           c == w * h
<1>1. c \in Nat
  OBVIOUS
<1>2. k \in Int /\ 0 <= k /\ k < c
  <2> HIDE DEF c
  <2>1. k \in 0 .. c - 1
    BY DEF c
  <2> QED
    BY <1>1, <2>1
<1>3. k = r * w + x /\ x \in 0 .. w - 1 /\ r \in Int
  BY <1>2, Division
<1> HIDE DEF x, r
<1>4. r >= 0
  <2> SUFFICES ASSUME ~(r >= 0)
               PROVE  FALSE
    OBVIOUS
  <2>1. (-r) * w >= w
    BY <1>3, Multiples
  <2>2. (-r) * w = -(r * w) /\ r * w \in Int
    BY <1>3
  <2> QED
    BY <1>2, <1>3, <2>1, <2>2
<1>5. r < h
  <2> SUFFICES ASSUME ~(r < h)
               PROVE  FALSE
    OBVIOUS
  <2>1. r - h \in Nat /\ (r - h) * w >= 0
    BY <1>3
  <2>2. (r - h) * w = r * w - c /\ r * w \in Int
    BY <1>3
  <2> DEFINE a == r * w
  <2>3. a \in Int /\ a - c >= 0 /\ k = a + x
    BY <1>3, <2>1, <2>2
  <2> HIDE DEF a, c
  <2> QED
    BY <1>1, <1>2, <1>3, <2>3
<1>6. r \in 0 .. h - 1
  BY <1>3, <1>4, <1>5
<1> QED
  BY <1>3, <1>6 DEF x, r

-----------------------------------------------------------------------------
(* The cells of the two kinds of maps.                                     *)

\* The distance between two rows in memory, and the id of a place.
Stride(m) ==
  IF m.alg = "astar_wgm" THEN Terrain(m.width, m.height)!Width
                         ELSE Grid(m.width, m.height)!Width

CellAt(W, x, y) == (y + 3) * W + x

IdsOf(W, w, h) == {CellAt(W, x, y) : x \in 0 .. w - 1, y \in 0 .. h - 1}

CellIds(m) == IdsOf(Stride(m), m.width, m.height)

LEMMA StrideFacts ==
  ASSUME NEW w \in Nat \ {0}, NEW h \in Nat \ {0}
  PROVE  /\ Grid(w, h)!Width \in Nat \ {0} /\ w < Grid(w, h)!Width
         /\ Terrain(w, h)!Width \in Nat \ {0} /\ w < Terrain(w, h)!Width
<1>1. Terrain(w, h)!Width = w + 1
  BY DEF Terrain!Width, Terrain!PADDING_PER_ROW
<1>2. CASE (w + 1) % WordBits = 0
  <2>1. Grid(w, h)!Width = w + 1
    BY <1>2 DEF Grid!Width
  <2> QED
    BY <1>1, <2>1
<1>3. CASE (w + 1) % WordBits # 0
  <2> DEFINE q == w \div WordBits
             r == w % WordBits
  <2>1. w = q * WordBits + r /\ r \in 0 .. WordBits - 1 /\ q \in Int
    BY WordAssumption, Division
  <2>2. Grid(w, h)!Width = (q + 1) * WordBits
    BY <1>3 DEF Grid!Width
  <2> HIDE DEF q, r
  <2> DEFINE a == q * WordBits
  <2>3. a \in Int /\ w = a + r /\ Grid(w, h)!Width = a + WordBits
    BY <2>1, <2>2, WordAssumption
  <2> HIDE DEF a
  <2>4. w < a + WordBits /\ a + WordBits \in Nat \ {0}
    BY <2>1, <2>3, WordAssumption
  <2> QED
    BY <1>1, <2>3, <2>4
<1> QED
  BY <1>1, <1>2, <1>3

\* A place of a map, or one around it, has an id of its own.
LEMMA IdsAreUnique ==
  ASSUME NEW W \in Nat \ {0}, NEW x \in 0 .. W - 1, NEW y \in Int
  PROVE  /\ CellAt(W, x, y) \in Int
         /\ CellAt(W, x, y) % W = x /\ CellAt(W, x, y) \div W = y + 3
<1>1. y + 3 \in Int
  OBVIOUS
<1> QED
  BY <1>1, Quotient DEF CellAt

\* The id that three formulas of the code give to the place number k.
LEMMA IdOfNumber ==
  ASSUME NEW w \in Nat \ {0}, NEW h \in Nat \ {0}, NEW k \in 0 .. w * h - 1
  PROVE  LET x == k % w
             y == k \div w
         IN  /\ Grid(w, h)!ToPaddedId(k) = CellAt(Grid(w, h)!Width, x, y)
             /\ Terrain(w, h)!ToPaddedId(k) = CellAt(Terrain(w, h)!Width, x, y)
             /\ BitId(w, h, k) = CellAt(Grid(w, h)!Width, x, y)
<1> DEFINE x == k % w
           y == k \div w
<1>1. x \in 0 .. w - 1 /\ y \in 0 .. h - 1 /\ k = y * w + x
  BY PlaceOf
<1>2. BitId(w, h, k) = (3 + y) * Grid(w, h)!Width + x
  BY DEF BitId, Grid!PADDED_ROWS
<1>3. ASSUME NEW W \in Nat
      PROVE  k + 3 * W + y * (W - w) = CellAt(W, x, y)
  <2> HIDE DEF x, y
  <2>1. y * (W - w) = y * W - y * w /\ (y + 3) * W = y * W + 3 * W
        /\ y * W \in Int /\ y * w \in Int
    BY <1>1
  <2> DEFINE a == y * W
             b == y * w
  <2>2. a \in Int /\ b \in Int /\ k = b + x /\ y * (W - w) = a - b /\ (y + 3) * W = a + 3 * W
    BY <1>1, <2>1
  <2> HIDE DEF a, b
  <2> QED
    BY <1>1, <2>2 DEF CellAt
<1>4. Grid(w, h)!ToPaddedId(k) = k + 3 * Grid(w, h)!Width + y * (Grid(w, h)!Width - w)
  BY DEF Grid!ToPaddedId, Grid!PADDED_ROWS, Grid!PaddingPerRow
<1>5. Terrain(w, h)!ToPaddedId(k)
        = k + 3 * Terrain(w, h)!Width + y * (Terrain(w, h)!Width - w)
  BY DEF Terrain!ToPaddedId, Terrain!PADDED_ROWS, Terrain!PADDING_PER_ROW, Terrain!Width
<1>6. Grid(w, h)!Width \in Nat /\ Terrain(w, h)!Width \in Nat
  BY StrideFacts
<1> HIDE DEF x, y
<1>7. BitId(w, h, k) = CellAt(Grid(w, h)!Width, x, y)
  <2>1. 3 + y = y + 3
    BY <1>1
  <2> QED
    BY <1>2, <2>1 DEF CellAt
<1> QED
  BY <1>3, <1>4, <1>5, <1>6, <1>7 DEF x, y

-----------------------------------------------------------------------------
(* Places and cells.                                                       *)

Kinds == GridAlgs \cup {"astar_wgm"}

\* What the programs build: cells under the ids of their places.
IsMap(m) ==
  /\ m.alg \in Kinds
  /\ m.width \in Nat \ {0} /\ m.height \in Nat \ {0}
  /\ DOMAIN m.cells = CellIds(m)
  /\ \A id \in CellIds(m) : m.cells[id] \in Nat

IsPlace(m, x, y) == x \in 0 .. m.width - 1 /\ y \in 0 .. m.height - 1

\* The cost of a place, 0 outside of the map.
Worth(m, x, y) ==
  IF IsPlace(m, x, y) THEN m.cells[CellAt(Stride(m), x, y)] ELSE 0

LEMMA StrideIsWide ==
  ASSUME NEW m, IsMap(m)
  PROVE  /\ m.width \in Nat \ {0} /\ m.height \in Nat \ {0}
         /\ Stride(m) \in Nat \ {0} /\ m.width < Stride(m)
  BY StrideFacts DEF IsMap, Stride

\* A place, and one next to the map, is a cell if it is within the map.
LEMMA CellOfPlace ==
  ASSUME NEW m, IsMap(m), NEW x \in -1 .. m.width, NEW y \in Int
  PROVE  CellAt(Stride(m), x, y) \in CellIds(m) <=> IsPlace(m, x, y)
<1> DEFINE W == Stride(m)
           id == CellAt(W, x, y)
<1>1. /\ m.width \in Nat \ {0} /\ m.height \in Nat \ {0}
      /\ W \in Nat \ {0} /\ m.width < W
  BY StrideIsWide
<1> HIDE DEF W
<1>2. IsPlace(m, x, y) => id \in CellIds(m)
  BY DEF IsPlace, CellIds, IdsOf, W
<1>3. ASSUME id \in CellIds(m)
      PROVE  IsPlace(m, x, y)
  <2>1. PICK a \in 0 .. m.width - 1, b \in 0 .. m.height - 1 : id = CellAt(W, a, b)
    BY <1>3 DEF CellIds, IdsOf, W
  <2>2. a \in 0 .. W - 1 /\ b \in Int /\ a # W - 1
    BY <1>1, <2>1
  <2>3. id % W = a /\ id \div W = b + 3
    BY <1>1, <2>1, <2>2, IdsAreUnique
  <2>4. CASE x \in 0 .. m.width
    <3>1. x \in 0 .. W - 1
      BY <1>1, <2>4
    <3>2. id % W = x /\ id \div W = y + 3
      BY <1>1, <3>1, IdsAreUnique
    <3>3. x = a /\ y = b
      BY <2>2, <2>3, <3>2
    <3> QED
      BY <2>1, <3>3 DEF IsPlace
  <2>5. CASE x = -1
    <3>1. W - 1 \in 0 .. W - 1 /\ y - 1 \in Int
      BY <1>1
    <3>2. id = CellAt(W, W - 1, y - 1)
      <4>1. (y + 3) * W + -1 = ((y - 1) + 3) * W + (W - 1)
        BY <1>1
      <4> QED
        BY <2>5, <4>1 DEF CellAt
    <3>3. id % W = W - 1
      BY <1>1, <3>1, <3>2, IdsAreUnique
    <3> QED
      BY <2>2, <2>3, <3>3
  <2>6. x \in 0 .. m.width \/ x = -1
    BY <1>1
  <2> QED
    BY <2>4, <2>5, <2>6
<1> QED
  BY <1>2, <1>3 DEF W

\* A step of one row and one column.
StepsOver(W, x, y, dx, dy) ==
  /\ CellAt(W, x, y) + dy * W + dx = CellAt(W, x + dx, y + dy)
  /\ CellAt(W, x, y) + dx = CellAt(W, x + dx, y)
  /\ CellAt(W, x, y) + dy * W = CellAt(W, x, y + dy)

LEMMA CellBeside ==
  ASSUME NEW W \in Nat \ {0}, NEW x \in Int, NEW y \in Int,
         NEW dx \in Int, NEW dy \in Int
  PROVE  StepsOver(W, x, y, dx, dy)
<1>1. /\ y * W \in Int /\ dy * W \in Int
      /\ (y + 3) * W = y * W + 3 * W /\ ((y + dy) + 3) * W = y * W + dy * W + 3 * W
  OBVIOUS
<1> DEFINE a == y * W
           b == dy * W
<1>2. /\ a \in Int /\ b \in Int
      /\ (y + 3) * W = a + 3 * W /\ ((y + dy) + 3) * W = a + b + 3 * W
  BY <1>1
<1>3. dy * W = b
  OBVIOUS
<1> HIDE DEF a, b
<1> QED
  BY <1>2, <1>3 DEF CellAt, StepsOver

LEMMA WorthOfPlace ==
  ASSUME NEW m, IsMap(m), NEW x \in -1 .. m.width, NEW y \in Int
  PROVE  LET id == CellAt(Stride(m), x, y)
         IN  /\ Worth(m, x, y) = IF id \in DOMAIN m.cells THEN m.cells[id] ELSE 0
             /\ Worth(m, x, y) \in Nat
  BY CellOfPlace DEF Worth, IsMap

IdsByNumber(W, w, h) == {CellAt(W, k % w, k \div w) : k \in 0 .. w * h - 1}

\* The ids of the places are those of their numbers.
LEMMA IdsOfNumbers ==
  ASSUME NEW w \in Nat \ {0}, NEW h \in Nat \ {0}, NEW W
  PROVE  IdsByNumber(W, w, h) = IdsOf(W, w, h)
<1>1. ASSUME NEW id \in IdsByNumber(W, w, h)
      PROVE  id \in IdsOf(W, w, h)
  <2>1. PICK k \in 0 .. w * h - 1 : id = CellAt(W, k % w, k \div w)
    BY <1>1 DEF IdsByNumber
  <2>2. k % w \in 0 .. w - 1 /\ k \div w \in 0 .. h - 1
    BY PlaceOf
  <2> QED
    BY <2>1, <2>2 DEF IdsOf
<1>2. ASSUME NEW id \in IdsOf(W, w, h)
      PROVE  id \in IdsByNumber(W, w, h)
  <2>1. PICK x \in 0 .. w - 1, y \in 0 .. h - 1 : id = CellAt(W, x, y)
    BY <1>2 DEF IdsOf
  <2> DEFINE k == y * w + x
  <2>2. k \in 0 .. w * h - 1 /\ k % w = x /\ k \div w = y
    BY NumberOf
  <2> HIDE DEF k
  <2> QED
    BY <2>1, <2>2 DEF IdsByNumber
<1> QED
  BY <1>1, <1>2

\* Both kinds of maps keep their cells under these ids.
LEMMA CellsOfMaps ==
  ASSUME NEW w \in Nat \ {0}, NEW h \in Nat \ {0}
  PROVE  /\ Grid(w, h)!Cells = IdsOf(Grid(w, h)!Width, w, h)
         /\ Terrain(w, h)!Cells = IdsOf(Terrain(w, h)!Width, w, h)
<1> DEFINE N == 0 .. w * h - 1
           W == Grid(w, h)!Width
           V == Terrain(w, h)!Width
<1>1. ASSUME NEW k \in N
      PROVE  /\ Grid(w, h)!ToPaddedId(k) = CellAt(W, k % w, k \div w)
             /\ Terrain(w, h)!ToPaddedId(k) = CellAt(V, k % w, k \div w)
  BY IdOfNumber
<1> HIDE DEF W, V
<1>2. Grid(w, h)!Cells = IdsByNumber(W, w, h)
  BY <1>1 DEF Grid!Cells, Grid!PackIds, IdsByNumber
<1>3. Terrain(w, h)!Cells = IdsByNumber(V, w, h)
  BY <1>1 DEF Terrain!Cells, IdsByNumber
<1> QED
  BY <1>2, <1>3, IdsOfNumbers DEF W, V

-----------------------------------------------------------------------------
(* The moves between places, and the edges of the policies.                *)

Straight == {<<0, -1>>, <<1, 0>>, <<0, 1>>, <<-1, 0>>}
Oblique  == {<<1, -1>>, <<1, 1>>, <<-1, 1>>, <<-1, -1>>}
Steps8   == Straight \cup Oblique

\* Is there something to stand on wherever a move passes?
MayPass(m, x, y, d) ==
  /\ Worth(m, x + d[1], y + d[2]) # 0
  /\ d[1] # 0 => Worth(m, x + d[1], y) # 0
  /\ d[2] # 0 => Worth(m, x, y + d[2]) # 0
  /\ m.alg # "astar_wgm" => Worth(m, x, y) # 0

MapMoves(m, x, y) ==
  {d \in Steps8 : MayPass(m, x, y, d) /\ (m.alg = "astar4c" => d \in Straight)}

CostOfMove(m, x, y, d) ==
  IF m.alg # "astar_wgm" THEN IF d \in Straight THEN Cardinal ELSE Diagonal
  ELSE IF d \in Straight
       THEN Half * (Worth(m, x, y) + Worth(m, x + d[1], y + d[2]))
       ELSE Quarter * (Worth(m, x, y) + Worth(m, x + d[1], y + d[2])
                       + (Worth(m, x + d[1], y) + Worth(m, x, y + d[2])))

EdgeOfMove(m, x, y, d) ==
  [node |-> CellAt(Stride(m), x + d[1], y + d[2]), cost |-> CostOfMove(m, x, y, d)]

LEMMA StepFacts ==
  ASSUME NEW d \in Steps8
  PROVE  /\ d[1] \in -1 .. 1 /\ d[2] \in -1 .. 1 /\ d = <<d[1], d[2]>>
         /\ ~(d[1] = 0 /\ d[2] = 0)
         /\ d \in Straight <=> d[1] = 0 \/ d[2] = 0
         /\ d \in Straight <=> d \notin Oblique
         /\ d \in Straight <=> 0 \in {d[1], d[2]}
  BY DEF Steps8, Straight, Oblique

LEMMA PlacesAround ==
  ASSUME NEW m, IsMap(m), NEW x, NEW y, IsPlace(m, x, y),
         NEW dx \in -1 .. 1, NEW dy \in -1 .. 1
  PROVE  /\ x \in Int /\ y \in Int /\ x + dx \in -1 .. m.width /\ y + dy \in Int
         /\ StepsOver(Stride(m), x, y, dx, dy)
<1>1. /\ m.width \in Nat \ {0} /\ m.height \in Nat \ {0} /\ Stride(m) \in Nat \ {0}
  BY StrideIsWide
<1>2. x \in Int /\ y \in Int /\ x + dx \in -1 .. m.width /\ y + dy \in Int
  BY <1>1 DEF IsPlace
<1>3. dx \in Int /\ dy \in Int
  OBVIOUS
<1> QED
  BY <1>1, <1>2, <1>3, CellBeside

LEMMA WorthAround ==
  ASSUME NEW m, IsMap(m), NEW x, NEW y, IsPlace(m, x, y),
         NEW dx \in -1 .. 1, NEW dy \in -1 .. 1
  PROVE  /\ Worth(m, x + dx, y + dy) \in Nat
         /\ Worth(m, x + dx, y + dy)
              = IF CellAt(Stride(m), x + dx, y + dy) \in DOMAIN m.cells
                THEN m.cells[CellAt(Stride(m), x + dx, y + dy)] ELSE 0
<1>1. x + dx \in -1 .. m.width /\ y + dy \in Int
  BY PlacesAround
<1> QED
  BY <1>1, WorthOfPlace

LEMMA GridMove ==
  ASSUME NEW m, IsMap(m), m.alg \in GridAlgs, NEW x, NEW y, IsPlace(m, x, y),
         NEW d \in Steps8, NEW c
  PROVE  Grid(m.width, m.height)!Move(Free(m), CellAt(Stride(m), x, y), d, c)
           = IF MayPass(m, x, y, d)
             THEN <<[node |-> CellAt(Stride(m), x + d[1], y + d[2]), cost |-> c]>>
             ELSE <<>>
<1> DEFINE W == Stride(m)
           id == CellAt(W, x, y)
           Isle(e) == e \in Grid(m.width, m.height)!Neighbours(Free(m), id)
           to == id + d[2] * W + d[1]
<1>1. d[1] \in -1 .. 1 /\ d[2] \in -1 .. 1 /\ 0 \in -1 .. 1 /\ d = <<d[1], d[2]>>
  BY StepFacts
<1>2. W = Grid(m.width, m.height)!Width
  BY DEF Stride, GridAlgs
<1>3. ASSUME NEW dx \in -1 .. 1, NEW dy \in -1 .. 1
      PROVE  Isle(<<dx, dy>>) <=> Worth(m, x + dx, y + dy) # 0
  <2>1. CellAt(W, x, y) + dy * W + dx = CellAt(W, x + dx, y + dy)
    <3>1. StepsOver(W, x, y, dx, dy)
      BY PlacesAround
    <3> QED
      BY <3>1 DEF StepsOver
  <2>2. Isle(<<dx, dy>>) <=> CellAt(W, x + dx, y + dy) \in Free(m)
    BY <1>2, <2>1 DEF Grid!Neighbours
  <2>3. Worth(m, x + dx, y + dy)
          = IF CellAt(W, x + dx, y + dy) \in DOMAIN m.cells
            THEN m.cells[CellAt(W, x + dx, y + dy)] ELSE 0
    BY WorthAround
  <2> QED
    BY <2>2, <2>3 DEF Free
<1>4. x + 0 = x /\ y + 0 = y /\ to = CellAt(W, x + d[1], y + d[2])
  BY <1>1, PlacesAround DEF StepsOver
<1>5. /\ Isle(<<0, 0>>) <=> Worth(m, x, y) # 0
      /\ Isle(<<d[1], 0>>) <=> Worth(m, x + d[1], y) # 0
      /\ Isle(<<0, d[2]>>) <=> Worth(m, x, y + d[2]) # 0
      /\ Isle(d) <=> Worth(m, x + d[1], y + d[2]) # 0
  BY <1>1, <1>3, <1>4
<1>6. Grid(m.width, m.height)!Mask(d) = {<<0, 0>>, <<d[1], 0>>, <<0, d[2]>>, d}
  BY DEF Grid!Mask
<1>7. MayPass(m, x, y, d)
        <=> Grid(m.width, m.height)!Mask(d)
              \subseteq Grid(m.width, m.height)!Neighbours(Free(m), id)
  <2>1. m.alg # "astar_wgm"
    BY DEF GridAlgs
  <2>2. (d[1] = 0 => Worth(m, x + d[1], y) = Worth(m, x, y))
        /\ (d[2] = 0 => Worth(m, x, y + d[2]) = Worth(m, x, y))
    BY <1>4
  <2>3. MayPass(m, x, y, d) <=> Isle(<<0, 0>>) /\ Isle(<<d[1], 0>>) /\ Isle(<<0, d[2]>>) /\ Isle(d)
    BY <1>5, <2>1, <2>2 DEF MayPass
  <2> QED
    BY <1>6, <2>3
<1>8. Grid(m.width, m.height)!Move(Free(m), id, d, c)
        = IF Grid(m.width, m.height)!Mask(d)
               \subseteq Grid(m.width, m.height)!Neighbours(Free(m), id)
          THEN <<[node |-> to, cost |-> c]>> ELSE <<>>
  BY <1>2 DEF Grid!Move
<1> HIDE DEF to
<1> QED
  BY <1>4, <1>7, <1>8

LEMMA TerrainMove ==
  ASSUME NEW m, IsMap(m), m.alg = "astar_wgm", NEW x, NEW y, IsPlace(m, x, y),
         NEW d \in Steps8
  PROVE  Terrain(m.width, m.height)!Move(m.cells, CellAt(Stride(m), x, y), d)
           = IF MayPass(m, x, y, d) THEN <<EdgeOfMove(m, x, y, d)>> ELSE <<>>
<1> DEFINE W == Stride(m)
           id == CellAt(W, x, y)
           a == id + d[1]
           b == id + d[2] * W
           to == id + d[2] * W + d[1]
           Value(p) == Terrain(m.width, m.height)!Cost(m.cells, p)
<1>1. d[1] \in -1 .. 1 /\ d[2] \in -1 .. 1 /\ 0 \in -1 .. 1 /\ d = <<d[1], d[2]>>
  BY StepFacts
<1>2. W = Terrain(m.width, m.height)!Width
  BY DEF Stride
<1>3. ASSUME NEW dx \in -1 .. 1, NEW dy \in -1 .. 1
      PROVE  Value(CellAt(W, x + dx, y + dy)) = Worth(m, x + dx, y + dy)
  <2>1. Worth(m, x + dx, y + dy)
          = IF CellAt(W, x + dx, y + dy) \in DOMAIN m.cells
            THEN m.cells[CellAt(W, x + dx, y + dy)] ELSE 0
    BY WorthAround
  <2> QED
    BY <2>1 DEF Terrain!Cost
<1>4. /\ x + 0 = x /\ y + 0 = y /\ x \in Int /\ y \in Int
      /\ to = CellAt(W, x + d[1], y + d[2])
      /\ a = CellAt(W, x + d[1], y) /\ b = CellAt(W, x, y + d[2])
  BY <1>1, PlacesAround DEF StepsOver
<1>5. /\ Value(id) = Worth(m, x, y)
      /\ Value(a) = Worth(m, x + d[1], y)
      /\ Value(b) = Worth(m, x, y + d[2])
      /\ Value(to) = Worth(m, x + d[1], y + d[2])
  BY <1>1, <1>3, <1>4
<1>6. /\ a = id <=> d[1] = 0
      /\ b = id <=> d[2] = 0
      /\ to # id
      /\ d[2] = 0 => to = a
      /\ d[1] = 0 => to = b
  <2>1. W \in Nat /\ W > 1
    <3> HIDE DEF W
    <3> QED
      BY StrideIsWide DEF W
  <2>2. id \in Int
    <3> HIDE DEF W
    <3> QED
      BY <1>4, <2>1 DEF CellAt
  <2>3. ~(d[1] = 0 /\ d[2] = 0)
    BY StepFacts
  <2> HIDE DEF W, id
  <2>4. /\ d[2] * W = IF d[2] = 0 THEN 0 ELSE IF d[2] = 1 THEN W ELSE -W
        /\ d[2] * W \in Int
    BY <1>1, <2>1
  <2> QED
    BY <1>1, <2>1, <2>2, <2>3, <2>4
<1>7. Terrain(m.width, m.height)!Square(id, d) = {id, a, b, to}
  BY <1>2 DEF Terrain!Square
<1>8. MayPass(m, x, y, d)
        <=> ~\E p \in Terrain(m.width, m.height)!Square(id, d) \ {id} : Value(p) = 0
  <2> HIDE DEF a, b, to, id, Value, W
  <2>1. MayPass(m, x, y, d) <=> /\ Value(to) # 0
                                /\ d[1] # 0 => Value(a) # 0
                                /\ d[2] # 0 => Value(b) # 0
    BY <1>5 DEF MayPass
  <2> QED
    BY <1>6, <1>7, <2>1
<1>9. CostOfMove(m, x, y, d)
        = IF 0 \in {d[1], d[2]} THEN Half * (Value(id) + Value(to))
          ELSE Quarter * (Value(id) + Value(to) + (Value(a) + Value(b)))
  <2> HIDE DEF a, b, to, id, Value, W
  <2>1. d \in Straight <=> 0 \in {d[1], d[2]}
    BY StepFacts
  <2> QED
    BY <1>5, <2>1 DEF CostOfMove
<1>10. Terrain(m.width, m.height)!Move(m.cells, id, d)
         = IF \E p \in Terrain(m.width, m.height)!Square(id, d) \ {id} : Value(p) = 0
           THEN <<>>
           ELSE <<[node |-> to,
                   cost |-> IF 0 \in {d[1], d[2]} THEN Half * (Value(id) + Value(to))
                            ELSE Quarter * (Value(id) + Value(to) + (Value(a) + Value(b)))]>>
  BY <1>2 DEF Terrain!Move
<1> HIDE DEF a, b, id, Value, W
<1> QED
  BY <1>4, <1>8, <1>9, <1>10 DEF EdgeOfMove, W, id

-----------------------------------------------------------------------------
(* The edges are the moves.                                                *)

AnyEdge == [node : Int, cost : Nat]

LEMMA RangeOfOne ==
  ASSUME NEW S, NEW e \in S
  PROVE  <<e>> \in Seq(S) /\ Range(<<e>>) = {e}
  BY DEF Range

LEMMA RangeOfNone ==
  ASSUME NEW S
  PROVE  <<>> \in Seq(S) /\ Range(<<>>) = {}
  BY DEF Range

LEMMA RangeOfTwo ==
  ASSUME NEW S, NEW a \in Seq(S), NEW b \in Seq(S)
  PROVE  a \o b \in Seq(S) /\ Range(a \o b) = Range(a) \cup Range(b)
<1>1. /\ a \o b \in Seq(S) /\ Len(a) \in Nat /\ Len(b) \in Nat
      /\ Len(a \o b) = Len(a) + Len(b)
      /\ DOMAIN (a \o b) = 1 .. Len(a) + Len(b)
      /\ DOMAIN a = 1 .. Len(a) /\ DOMAIN b = 1 .. Len(b)
      /\ \A k \in 1 .. Len(a) + Len(b) :
           (a \o b)[k] = IF k <= Len(a) THEN a[k] ELSE b[k - Len(a)]
  OBVIOUS
<1>2. ASSUME NEW e \in Range(a \o b)
      PROVE  e \in Range(a) \cup Range(b)
  <2>1. PICK k \in 1 .. Len(a) + Len(b) : e = (a \o b)[k]
    BY <1>1, <1>2 DEF Range
  <2>2. CASE k <= Len(a)
    BY <1>1, <2>1, <2>2 DEF Range
  <2>3. CASE ~(k <= Len(a))
    <3>1. k - Len(a) \in 1 .. Len(b) /\ e = b[k - Len(a)]
      BY <1>1, <2>1, <2>3
    <3> QED
      BY <1>1, <3>1 DEF Range
  <2> QED
    BY <2>2, <2>3
<1>3. ASSUME NEW e \in Range(a)
      PROVE  e \in Range(a \o b)
  <2>1. PICK k \in 1 .. Len(a) : e = a[k]
    BY <1>1, <1>3 DEF Range
  <2>2. k \in 1 .. Len(a) + Len(b) /\ (a \o b)[k] = e
    BY <1>1, <2>1
  <2> QED
    BY <1>1, <2>2 DEF Range
<1>4. ASSUME NEW e \in Range(b)
      PROVE  e \in Range(a \o b)
  <2>1. PICK k \in 1 .. Len(b) : e = b[k]
    BY <1>1, <1>4 DEF Range
  <2>2. k + Len(a) \in 1 .. Len(a) + Len(b) /\ (a \o b)[k + Len(a)] = e
    BY <1>1, <2>1
  <2> QED
    BY <1>1, <2>2 DEF Range
<1> QED
  BY <1>1, <1>2, <1>3, <1>4

Holds(s, S, R) == s \in Seq(S) /\ Range(s) = R

LEMMA HoldsBoth ==
  ASSUME NEW S, NEW a, NEW b, NEW A, NEW B, Holds(a, S, A), Holds(b, S, B)
  PROVE  Holds(a \o b, S, A \cup B)
  BY RangeOfTwo DEF Holds

LEMMA HoldsNone ==
  ASSUME NEW S, NEW a, NEW A, Holds(a, S, A)
  PROVE  Holds(a \o <<>>, S, A)
<1>1. Holds(<<>>, S, {})
  BY RangeOfNone DEF Holds
<1>2. Holds(a \o <<>>, S, A \cup {})
  BY <1>1, HoldsBoth
<1> QED
  BY <1>2

LEMMA RangeOfEight ==
  ASSUME NEW S, NEW s, NEW R, \A k \in 1 .. 8 : Holds(s[k], S, R[k])
  PROVE  LET P == R[1] \cup R[2] \cup R[3] \cup R[4]
             Q == P \cup R[5] \cup R[6] \cup R[7] \cup R[8]
         IN  /\ Holds(s[1] \o s[2] \o s[3] \o s[4] \o s[5] \o s[6] \o s[7] \o s[8], S, Q)
             /\ Holds(s[1] \o s[2] \o s[3] \o s[4] \o <<>>, S, P)
             /\ Holds(s[1] \o s[2] \o s[3] \o s[4] \o (s[5] \o s[6] \o s[7] \o s[8]), S, Q)
<1>0. /\ Holds(s[1], S, R[1]) /\ Holds(s[2], S, R[2]) /\ Holds(s[3], S, R[3])
      /\ Holds(s[4], S, R[4]) /\ Holds(s[5], S, R[5]) /\ Holds(s[6], S, R[6])
      /\ Holds(s[7], S, R[7]) /\ Holds(s[8], S, R[8])
  OBVIOUS
<1>1. Holds(s[1] \o s[2], S, R[1] \cup R[2]) /\ Holds(s[5] \o s[6], S, R[5] \cup R[6])
  BY <1>0, HoldsBoth
<1>2. /\ Holds(s[1] \o s[2] \o s[3], S, R[1] \cup R[2] \cup R[3])
      /\ Holds(s[5] \o s[6] \o s[7], S, R[5] \cup R[6] \cup R[7])
  BY <1>0, <1>1, HoldsBoth
<1>3. /\ Holds(s[1] \o s[2] \o s[3] \o s[4], S, R[1] \cup R[2] \cup R[3] \cup R[4])
      /\ Holds(s[5] \o s[6] \o s[7] \o s[8], S, R[5] \cup R[6] \cup R[7] \cup R[8])
  BY <1>0, <1>2, HoldsBoth
<1>4. Holds(s[1] \o s[2] \o s[3] \o s[4] \o <<>>, S, R[1] \cup R[2] \cup R[3] \cup R[4])
  BY <1>3, HoldsNone
<1>5. Holds(s[1] \o s[2] \o s[3] \o s[4] \o (s[5] \o s[6] \o s[7] \o s[8]), S,
            (R[1] \cup R[2] \cup R[3] \cup R[4]) \cup (R[5] \cup R[6] \cup R[7] \cup R[8]))
  BY <1>0, <1>3, HoldsBoth
<1>6. Holds(s[1] \o s[2] \o s[3] \o s[4] \o s[5], S, R[1] \cup R[2] \cup R[3] \cup R[4] \cup R[5])
  BY <1>0, <1>3, HoldsBoth
<1>7. Holds(s[1] \o s[2] \o s[3] \o s[4] \o s[5] \o s[6], S, R[1] \cup R[2] \cup R[3] \cup R[4] \cup R[5] \cup R[6])
  BY <1>0, <1>6, HoldsBoth
<1>8. Holds(s[1] \o s[2] \o s[3] \o s[4] \o s[5] \o s[6] \o s[7], S,
            R[1] \cup R[2] \cup R[3] \cup R[4] \cup R[5] \cup R[6] \cup R[7])
  BY <1>0, <1>7, HoldsBoth
<1>9. Holds(s[1] \o s[2] \o s[3] \o s[4] \o s[5] \o s[6] \o s[7] \o s[8], S,
            R[1] \cup R[2] \cup R[3] \cup R[4] \cup R[5] \cup R[6] \cup R[7] \cup R[8])
  BY <1>0, <1>8, HoldsBoth
<1>10. (R[1] \cup R[2] \cup R[3] \cup R[4]) \cup (R[5] \cup R[6] \cup R[7] \cup R[8])
         = R[1] \cup R[2] \cup R[3] \cup R[4] \cup R[5] \cup R[6] \cup R[7] \cup R[8]
  OBVIOUS
<1> QED
  BY <1>4, <1>5, <1>9, <1>10

LEMMA HoldsMove ==
  ASSUME NEW S, NEW P, NEW e, P => e \in S
  PROVE  Holds(IF P THEN <<e>> ELSE <<>>, S, IF P THEN {e} ELSE {})
  BY RangeOfOne, RangeOfNone DEF Holds

LEMMA WorthOfMove ==
  ASSUME NEW m, IsMap(m), NEW x, NEW y, IsPlace(m, x, y), NEW d \in Steps8
  PROVE  /\ Worth(m, x, y) \in Nat /\ Worth(m, x + d[1], y + d[2]) \in Nat
         /\ Worth(m, x + d[1], y) \in Nat /\ Worth(m, x, y + d[2]) \in Nat
<1>1. d[1] \in -1 .. 1 /\ d[2] \in -1 .. 1 /\ 0 \in -1 .. 1
  BY StepFacts
<1>2. x + 0 = x /\ y + 0 = y
  <2>1. x \in Int /\ y \in Int
    BY StrideIsWide DEF IsPlace
  <2> QED
    BY <2>1
<1>3. /\ Worth(m, x + 0, y + 0) \in Nat /\ Worth(m, x + d[1], y + d[2]) \in Nat
      /\ Worth(m, x + d[1], y + 0) \in Nat /\ Worth(m, x + 0, y + d[2]) \in Nat
  BY <1>1, WorthAround
<1> QED
  BY <1>2, <1>3

LEMMA CostsAreNat == {Cardinal, Diagonal, Half, Quarter} \subseteq Nat
  BY CostAssumption

LEMMA EdgeType ==
  ASSUME NEW m, IsMap(m), NEW x, NEW y, IsPlace(m, x, y), NEW d \in Steps8
  PROVE  EdgeOfMove(m, x, y, d) \in AnyEdge
<1>1. x + d[1] \in Int /\ y + d[2] \in Int
  <2>1. d[1] \in -1 .. 1 /\ d[2] \in -1 .. 1
    BY StepFacts
  <2>2. m.width \in Nat /\ x + d[1] \in -1 .. m.width /\ y + d[2] \in Int
    BY <2>1, PlacesAround, StrideIsWide
  <2> QED
    BY <2>2
<1>2. CellAt(Stride(m), x + d[1], y + d[2]) \in Int
  <2> DEFINE W == Stride(m)
             a == x + d[1]
             b == y + d[2]
  <2>1. W \in Nat
    BY StrideIsWide
  <2>2. a \in Int /\ b \in Int
    BY <1>1
  <2> HIDE DEF W, a, b
  <2>3. CellAt(W, a, b) \in Int
    BY <2>1, <2>2 DEF CellAt
  <2> QED
    BY <2>3 DEF W, a, b
<1>3. CostOfMove(m, x, y, d) \in Nat
  <2> DEFINE a == Worth(m, x, y)
             b == Worth(m, x + d[1], y + d[2])
             c == Worth(m, x + d[1], y)
             e == Worth(m, x, y + d[2])
  <2>1. a \in Nat /\ b \in Nat /\ c \in Nat /\ e \in Nat
    BY WorthOfMove
  <2> HIDE DEF a, b, c, e
  <2>2. Half * (a + b) \in Nat /\ Quarter * (a + b + (c + e)) \in Nat
    BY <2>1, CostsAreNat
  <2> QED
    BY <2>2, CostsAreNat DEF CostOfMove, a, b, c, e
<1> QED
  BY <1>2, <1>3 DEF EdgeOfMove, AnyEdge

\* The edges of one of the eight moves.
Out(m, x, y, d) == IF MayPass(m, x, y, d) THEN {EdgeOfMove(m, x, y, d)} ELSE {}

LEMMA OutByGrid ==
  ASSUME NEW m, IsMap(m), m.alg \in GridAlgs, NEW x, NEW y, IsPlace(m, x, y), NEW d \in Steps8
  PROVE  Holds(Grid(m.width, m.height)!Move(Free(m), CellAt(Stride(m), x, y), d,
                                            IF d \in Straight THEN Cardinal ELSE Diagonal),
               AnyEdge, Out(m, x, y, d))
<1> DEFINE e == EdgeOfMove(m, x, y, d)
           P == MayPass(m, x, y, d)
           c == IF d \in Straight THEN Cardinal ELSE Diagonal
<1>1. e \in AnyEdge
  BY EdgeType
<1>2. e = [node |-> CellAt(Stride(m), x + d[1], y + d[2]), cost |-> c]
  BY DEF EdgeOfMove, CostOfMove, GridAlgs
<1>3. Grid(m.width, m.height)!Move(Free(m), CellAt(Stride(m), x, y), d, c)
        = IF P THEN <<e>> ELSE <<>>
  <2> HIDE DEF c
  <2> QED
    BY <1>2, GridMove
<1>4. Holds(IF P THEN <<e>> ELSE <<>>, AnyEdge, IF P THEN {e} ELSE {})
  <2> HIDE DEF P, e
  <2> QED
    BY <1>1, HoldsMove
<1> QED
  BY <1>3, <1>4 DEF Out

LEMMA OutByTerrain ==
  ASSUME NEW m, IsMap(m), m.alg = "astar_wgm", NEW x, NEW y, IsPlace(m, x, y), NEW d \in Steps8
  PROVE  Holds(Terrain(m.width, m.height)!Move(m.cells, CellAt(Stride(m), x, y), d),
               AnyEdge, Out(m, x, y, d))
<1> DEFINE e == EdgeOfMove(m, x, y, d)
           P == MayPass(m, x, y, d)
<1>1. e \in AnyEdge
  BY EdgeType
<1>2. Terrain(m.width, m.height)!Move(m.cells, CellAt(Stride(m), x, y), d)
        = IF P THEN <<e>> ELSE <<>>
  BY TerrainMove
<1>3. Holds(IF P THEN <<e>> ELSE <<>>, AnyEdge, IF P THEN {e} ELSE {})
  <2> HIDE DEF P, e
  <2> QED
    BY <1>1, HoldsMove
<1> QED
  BY <1>2, <1>3 DEF Out

(* The successors of a cell in the code's tables are the moves from its    *)
(* place, each with its cost.                                              *)
LEMMA EdgesAreMoves ==
  ASSUME NEW m, IsMap(m), NEW x, NEW y, IsPlace(m, x, y)
  PROVE  /\ SuccessorsOf(m, CellAt(Stride(m), x, y)) \in Seq(AnyEdge)
         /\ Range(SuccessorsOf(m, CellAt(Stride(m), x, y)))
              = {EdgeOfMove(m, x, y, d) : d \in MapMoves(m, x, y)}
<1> DEFINE id == CellAt(Stride(m), x, y)
           s == SuccessorsOf(m, id)
           E(d) == Out(m, x, y, d)
           N4 == E(<<0, -1>>) \cup E(<<1, 0>>) \cup E(<<0, 1>>) \cup E(<<-1, 0>>)
           N8 == N4 \cup E(<<1, -1>>) \cup E(<<1, 1>>) \cup E(<<-1, 1>>) \cup E(<<-1, -1>>)
           T8 == E(<<0, -1>>) \cup E(<<1, -1>>) \cup E(<<-1, -1>>) \cup E(<<0, 1>>)
                   \cup E(<<1, 1>>) \cup E(<<-1, 1>>) \cup E(<<1, 0>>) \cup E(<<-1, 0>>)
           M == {EdgeOfMove(m, x, y, d) : d \in MapMoves(m, x, y)}
<1>1. id \in DOMAIN m.cells
  BY CellOfPlace, StrideIsWide DEF IsMap, IsPlace
<1>2. ASSUME m.alg # "astar_wgm"
      PROVE  Holds(s, AnyEdge, IF m.alg = "astar4c" THEN N4 ELSE N8)
  <2> DEFINE G(d) == Grid(m.width, m.height)!Move(Free(m), id, d, Cardinal)
             D(d) == Grid(m.width, m.height)!Move(Free(m), id, d, Diagonal)
  <2>1. m.alg \in GridAlgs
    BY <1>2 DEF IsMap, Kinds
  <2>2. ASSUME NEW d \in Straight
        PROVE  Holds(G(d), AnyEdge, E(d))
    <3>1. d \in Steps8
      BY DEF Steps8
    <3> QED
      BY <2>1, <3>1, OutByGrid
  <2>3. ASSUME NEW d \in Oblique
        PROVE  Holds(D(d), AnyEdge, E(d))
    <3>1. d \in Steps8 /\ d \notin Straight
      BY DEF Steps8, Straight, Oblique
    <3> QED
      BY <2>1, <3>1, OutByGrid
  <2>4. Grid(m.width, m.height)!Expansion(Free(m), id, m.alg = "astar4c")
          = G(<<0, -1>>) \o G(<<1, 0>>) \o G(<<0, 1>>) \o G(<<-1, 0>>)
              \o (IF m.alg = "astar4c" THEN <<>>
                  ELSE D(<<1, -1>>) \o D(<<1, 1>>) \o D(<<-1, 1>>) \o D(<<-1, -1>>))
    BY DEF Grid!Expansion
  <2>5. s = Grid(m.width, m.height)!Expansion(Free(m), id, m.alg = "astar4c")
    BY <1>1, <1>2 DEF SuccessorsOf
  <2>6. /\ Holds(G(<<0, -1>>), AnyEdge, E(<<0, -1>>)) /\ Holds(G(<<1, 0>>), AnyEdge, E(<<1, 0>>))
        /\ Holds(G(<<0, 1>>), AnyEdge, E(<<0, 1>>)) /\ Holds(G(<<-1, 0>>), AnyEdge, E(<<-1, 0>>))
        /\ Holds(D(<<1, -1>>), AnyEdge, E(<<1, -1>>)) /\ Holds(D(<<1, 1>>), AnyEdge, E(<<1, 1>>))
        /\ Holds(D(<<-1, 1>>), AnyEdge, E(<<-1, 1>>)) /\ Holds(D(<<-1, -1>>), AnyEdge, E(<<-1, -1>>))
    <3>1. /\ <<0, -1>> \in Straight /\ <<1, 0>> \in Straight
          /\ <<0, 1>> \in Straight /\ <<-1, 0>> \in Straight
          /\ <<1, -1>> \in Oblique /\ <<1, 1>> \in Oblique
          /\ <<-1, 1>> \in Oblique /\ <<-1, -1>> \in Oblique
      BY DEF Straight, Oblique
    <3> HIDE DEF G, D, E
    <3> QED
      BY <2>2, <2>3, <3>1
  <2> HIDE DEF G, D, E, s
  <2>7. /\ Holds(G(<<0, -1>>) \o G(<<1, 0>>) \o G(<<0, 1>>) \o G(<<-1, 0>>) \o <<>>, AnyEdge, N4)
        /\ Holds(G(<<0, -1>>) \o G(<<1, 0>>) \o G(<<0, 1>>) \o G(<<-1, 0>>)
                   \o (D(<<1, -1>>) \o D(<<1, 1>>) \o D(<<-1, 1>>) \o D(<<-1, -1>>)),
                 AnyEdge, N8)
    <3> DEFINE q == <<G(<<0, -1>>), G(<<1, 0>>), G(<<0, 1>>), G(<<-1, 0>>),
                      D(<<1, -1>>), D(<<1, 1>>), D(<<-1, 1>>), D(<<-1, -1>>)>>
               R == <<E(<<0, -1>>), E(<<1, 0>>), E(<<0, 1>>), E(<<-1, 0>>),
                      E(<<1, -1>>), E(<<1, 1>>), E(<<-1, 1>>), E(<<-1, -1>>)>>
    <3>1. /\ q[1] = G(<<0, -1>>) /\ R[1] = E(<<0, -1>>)
          /\ q[2] = G(<<1, 0>>) /\ R[2] = E(<<1, 0>>)
          /\ q[3] = G(<<0, 1>>) /\ R[3] = E(<<0, 1>>)
          /\ q[4] = G(<<-1, 0>>) /\ R[4] = E(<<-1, 0>>)
          /\ q[5] = D(<<1, -1>>) /\ R[5] = E(<<1, -1>>)
          /\ q[6] = D(<<1, 1>>) /\ R[6] = E(<<1, 1>>)
          /\ q[7] = D(<<-1, 1>>) /\ R[7] = E(<<-1, 1>>)
          /\ q[8] = D(<<-1, -1>>) /\ R[8] = E(<<-1, -1>>)
      OBVIOUS
    <3>2. \A k \in 1 .. 8 : Holds(q[k], AnyEdge, R[k])
      <4> HIDE DEF q, R
      <4> QED
        BY <2>6, <3>1
    <3> HIDE DEF q, R
    <3> QED
      BY <3>1, <3>2, RangeOfEight
  <2> QED
    BY <2>4, <2>5, <2>7
<1>3. ASSUME m.alg = "astar_wgm"
      PROVE  Holds(s, AnyEdge, T8)
  <2> DEFINE T(d) == Terrain(m.width, m.height)!Move(m.cells, id, d)
  <2>1. ASSUME NEW d \in Steps8
        PROVE  Holds(T(d), AnyEdge, E(d))
    BY <1>3, OutByTerrain
  <2>2. Terrain(m.width, m.height)!Expansion(m.cells, id)
          = T(<<0, -1>>) \o T(<<1, -1>>) \o T(<<-1, -1>>) \o T(<<0, 1>>)
              \o T(<<1, 1>>) \o T(<<-1, 1>>) \o T(<<1, 0>>) \o T(<<-1, 0>>)
    BY DEF Terrain!Expansion
  <2>3. s = Terrain(m.width, m.height)!Expansion(m.cells, id)
    BY <1>1, <1>3 DEF SuccessorsOf
  <2>4. /\ Holds(T(<<0, -1>>), AnyEdge, E(<<0, -1>>)) /\ Holds(T(<<1, -1>>), AnyEdge, E(<<1, -1>>))
        /\ Holds(T(<<-1, -1>>), AnyEdge, E(<<-1, -1>>)) /\ Holds(T(<<0, 1>>), AnyEdge, E(<<0, 1>>))
        /\ Holds(T(<<1, 1>>), AnyEdge, E(<<1, 1>>)) /\ Holds(T(<<-1, 1>>), AnyEdge, E(<<-1, 1>>))
        /\ Holds(T(<<1, 0>>), AnyEdge, E(<<1, 0>>)) /\ Holds(T(<<-1, 0>>), AnyEdge, E(<<-1, 0>>))
    <3>1. /\ <<0, -1>> \in Steps8 /\ <<1, -1>> \in Steps8
          /\ <<-1, -1>> \in Steps8 /\ <<0, 1>> \in Steps8
          /\ <<1, 1>> \in Steps8 /\ <<-1, 1>> \in Steps8
          /\ <<1, 0>> \in Steps8 /\ <<-1, 0>> \in Steps8
      BY DEF Steps8, Straight, Oblique
    <3> HIDE DEF T, E
    <3> QED
      BY <2>1, <3>1
  <2> HIDE DEF T, E, s
  <2>5. Holds(T(<<0, -1>>) \o T(<<1, -1>>) \o T(<<-1, -1>>) \o T(<<0, 1>>)
                \o T(<<1, 1>>) \o T(<<-1, 1>>) \o T(<<1, 0>>) \o T(<<-1, 0>>), AnyEdge, T8)
    <3> DEFINE q == <<T(<<0, -1>>), T(<<1, -1>>), T(<<-1, -1>>), T(<<0, 1>>),
                      T(<<1, 1>>), T(<<-1, 1>>), T(<<1, 0>>), T(<<-1, 0>>)>>
               R == <<E(<<0, -1>>), E(<<1, -1>>), E(<<-1, -1>>), E(<<0, 1>>),
                      E(<<1, 1>>), E(<<-1, 1>>), E(<<1, 0>>), E(<<-1, 0>>)>>
    <3>1. /\ q[1] = T(<<0, -1>>) /\ R[1] = E(<<0, -1>>)
          /\ q[2] = T(<<1, -1>>) /\ R[2] = E(<<1, -1>>)
          /\ q[3] = T(<<-1, -1>>) /\ R[3] = E(<<-1, -1>>)
          /\ q[4] = T(<<0, 1>>) /\ R[4] = E(<<0, 1>>)
          /\ q[5] = T(<<1, 1>>) /\ R[5] = E(<<1, 1>>)
          /\ q[6] = T(<<-1, 1>>) /\ R[6] = E(<<-1, 1>>)
          /\ q[7] = T(<<1, 0>>) /\ R[7] = E(<<1, 0>>)
          /\ q[8] = T(<<-1, 0>>) /\ R[8] = E(<<-1, 0>>)
      OBVIOUS
    <3>2. \A k \in 1 .. 8 : Holds(q[k], AnyEdge, R[k])
      <4> HIDE DEF q, R
      <4> QED
        BY <2>4, <3>1
    <3> HIDE DEF q, R
    <3> QED
      BY <3>1, <3>2, RangeOfEight
  <2> QED
    BY <2>2, <2>3, <2>5
<1>4. ASSUME NEW D8, \A d \in D8 : d \in Steps8, \A d \in Steps8 : d \in D8 <=> (m.alg = "astar4c" => d \in Straight)
      PROVE  \A e : e \in M <=> \E d \in D8 : e \in E(d)
  BY <1>4 DEF MapMoves, Out
<1>5. ASSUME m.alg = "astar4c"
      PROVE  N4 = M
  <2>1. \A e : e \in M <=> \E d \in Straight : e \in E(d)
    BY <1>4, <1>5 DEF Steps8
  <2> HIDE DEF E, M
  <2> QED
    BY <2>1 DEF Straight
<1>6. ASSUME m.alg # "astar4c"
      PROVE  N8 = M /\ T8 = M
  <2>1. \A e : e \in M <=> \E d \in Steps8 : e \in E(d)
    BY <1>4, <1>6
  <2> HIDE DEF E, M
  <2> QED
    BY <2>1 DEF Steps8, Straight, Oblique
<1>7. Holds(s, AnyEdge, M)
  <2> HIDE DEF s, N4, N8, T8, M
  <2> QED
    BY <1>2, <1>3, <1>5, <1>6
<1> QED
  BY <1>7 DEF Holds

-----------------------------------------------------------------------------
(* Distances on a grid.                                                    *)

LEMMA Scaled ==
  ASSUME NEW u \in Nat, NEW v \in Nat, NEW c \in Nat, u <= v
  PROVE  u * c <= v * c /\ c * u <= c * v
<1>1. (v - u) * c >= 0 /\ (v - u) * c = v * c - u * c /\ c * u = u * c /\ c * v = v * c
  OBVIOUS
<1>2. u * c \in Int /\ v * c \in Int
  OBVIOUS
<1> QED
  BY <1>1, <1>2

Larger(a, b)  == IF a < b THEN b ELSE a
Smaller(a, b) == IF a < b THEN a ELSE b

OctileOf(a, b) ==
  IF a < b THEN a * Diagonal + (b - a) * Cardinal
           ELSE b * Diagonal + (a - b) * Cardinal

LEMMA OctileIsSum ==
  ASSUME NEW a \in Nat, NEW b \in Nat
  PROVE  /\ OctileOf(a, b) \in Nat
         /\ OctileOf(a, b)
              = Larger(a, b) * Cardinal + Smaller(a, b) * (Diagonal - Cardinal)
<1>1. Cardinal \in Nat /\ Diagonal \in Nat /\ Cardinal <= Diagonal
  BY CostAssumption
<1>2. ASSUME NEW u \in Nat, NEW v \in Nat, u <= v
      PROVE  /\ u * Diagonal + (v - u) * Cardinal
                  = v * Cardinal + u * (Diagonal - Cardinal)
             /\ u * Diagonal + (v - u) * Cardinal \in Nat
  BY <1>1, <1>2
<1> QED
  BY <1>2 DEF OctileOf, Larger, Smaller

\* A move changes the distance by no more than its length.
LEMMA OctileMoves ==
  ASSUME NEW a \in Nat, NEW b \in Nat, NEW c \in Nat, NEW d \in Nat,
         NEW p \in 0 .. 1, NEW q \in 0 .. 1, p = 1 \/ q = 1,
         a <= c + p, b <= d + q
  PROVE  OctileOf(a, b)
           <= OctileOf(c, d) + (IF p = 1 /\ q = 1 THEN Diagonal ELSE Cardinal)
<1> DEFINE E == Diagonal - Cardinal
           l == Larger(a, b)
           s == Smaller(a, b)
           L == Larger(c, d)
           S == Smaller(c, d)
<1>1. Cardinal \in Nat /\ E \in Nat /\ E <= Cardinal /\ Diagonal = Cardinal + E
  BY CostAssumption
<1>2. l \in Nat /\ s \in Nat /\ L \in Nat /\ S \in Nat
  BY DEF Larger, Smaller
<1>3. /\ l <= L + 1 /\ s <= S + 1
      /\ (p = 1 /\ q = 1) \/ l <= L \/ s <= S
  BY DEF Larger, Smaller
<1>4. OctileOf(a, b) = l * Cardinal + s * E /\ OctileOf(c, d) = L * Cardinal + S * E
  BY OctileIsSum
<1> HIDE DEF E, l, s, L, S
<1>5. /\ l * Cardinal <= (L + 1) * Cardinal /\ (L + 1) * Cardinal = L * Cardinal + Cardinal
      /\ s * E <= (S + 1) * E /\ (S + 1) * E = S * E + E
      /\ l <= L => l * Cardinal <= L * Cardinal
      /\ s <= S => s * E <= S * E
  <2>1. L + 1 \in Nat /\ S + 1 \in Nat
    BY <1>2
  <2>2. (L + 1) * Cardinal = L * Cardinal + Cardinal /\ (S + 1) * E = S * E + E
    BY <1>1, <1>2
  <2>3. l * Cardinal <= (L + 1) * Cardinal /\ s * E <= (S + 1) * E
    BY <1>1, <1>2, <1>3, <2>1, Scaled
  <2>4. (l <= L => l * Cardinal <= L * Cardinal) /\ (s <= S => s * E <= S * E)
    BY <1>1, <1>2, Scaled
  <2> QED
    BY <2>2, <2>3, <2>4
<1> DEFINE A == l * Cardinal
           B == s * E
           C == L * Cardinal
           D == S * E
<1>6. /\ A \in Int /\ B \in Int /\ C \in Int /\ D \in Int
      /\ A <= C + Cardinal /\ B <= D + E
      /\ l <= L => A <= C
      /\ s <= S => B <= D
      /\ OctileOf(a, b) = A + B /\ OctileOf(c, d) = C + D
  BY <1>1, <1>2, <1>4, <1>5
<1> HIDE DEF A, B, C, D
<1>7. CASE p = 1 /\ q = 1
  BY <1>1, <1>6, <1>7
<1>8. CASE ~(p = 1 /\ q = 1)
  <2>1. A + B <= C + D + Cardinal
    BY <1>1, <1>3, <1>6, <1>8
  <2> QED
    BY <1>1, <1>6, <1>8, <2>1
<1> QED
  BY <1>7, <1>8

Away(x, y) == IF x - y < 0 THEN -(x - y) ELSE x - y

LEMMA AwayMoves ==
  ASSUME NEW x \in Int, NEW y \in Int, NEW d \in -1 .. 1
  PROVE  /\ Away(x, y) \in Nat /\ Away(x + d, y) \in Nat
         /\ Away(x, y) <= Away(x + d, y) + (IF d = 0 THEN 0 ELSE 1)
  BY DEF Away

\* A map of terrains has something that is not an obstacle.
HasFloor(m) == m.alg = "astar_wgm" => \E id \in DOMAIN m.cells : m.cells[id] # 0

Floor(m) == Terrain(m.width, m.height)!LowestCost(m.cells)

LEMMA FloorFacts ==
  ASSUME NEW m, IsMap(m), m.alg = "astar_wgm", HasFloor(m)
  PROVE  /\ Floor(m) \in Nat
         /\ \A x, y : Worth(m, x, y) # 0 => Floor(m) <= Worth(m, x, y)
<1> DEFINE V == {m.cells[id] : id \in DOMAIN m.cells} \ {0}
<1>1. V \subseteq Nat /\ V # {}
  BY DEF IsMap, HasFloor
<1>2. PICK v \in V : \A u \in V : v <= u
  <2> HIDE DEF V
  <2> QED
    BY <1>1, SmallestOf
<1>3. Floor(m) \in V /\ \A u \in V : Floor(m) <= u
  <2>1. Floor(m) = CHOOSE l \in V : \A u \in V : l <= u
    BY DEF Floor, Terrain!LowestCost, Terrain!Min
  <2> HIDE DEF V
  <2> QED
    BY <1>2, <2>1
<1>4. ASSUME NEW x, NEW y, Worth(m, x, y) # 0
      PROVE  Worth(m, x, y) \in V
  <2>1. IsPlace(m, x, y) /\ Worth(m, x, y) = m.cells[CellAt(Stride(m), x, y)]
    BY <1>4 DEF Worth
  <2>2. CellAt(Stride(m), x, y) \in DOMAIN m.cells
    BY <2>1, CellOfPlace, StrideIsWide DEF IsPlace, IsMap
  <2> QED
    BY <1>4, <2>1, <2>2
<1> QED
  BY <1>1, <1>3, <1>4

LEMMA PlaceOfId ==
  ASSUME NEW m, IsMap(m), NEW x, NEW y, IsPlace(m, x, y)
  PROVE  /\ CellAt(Stride(m), x, y) \in Int
         /\ CellAt(Stride(m), x, y) % Stride(m) = x
         /\ CellAt(Stride(m), x, y) \div Stride(m) = y + 3
         /\ x \in Int /\ y \in Int
<1> DEFINE W == Stride(m)
<1>1. W \in Nat \ {0} /\ x \in 0 .. W - 1 /\ y \in Int
  <2>1. W \in Nat \ {0} /\ m.width \in Nat /\ m.height \in Nat /\ m.width < W
    BY StrideIsWide
  <2> HIDE DEF W
  <2> QED
    BY <2>1 DEF IsPlace
<1> HIDE DEF W
<1>2. CellAt(W, x, y) \in Int /\ CellAt(W, x, y) % W = x /\ CellAt(W, x, y) \div W = y + 3
  BY <1>1, IdsAreUnique
<1> QED
  BY <1>1, <1>2 DEF W

\* How far two cells of the table are from each other, along both axes.
FarX(m, s, t) == Away(s % Stride(m), t % Stride(m))
FarY(m, s, t) == Away(s \div Stride(m), t \div Stride(m))

LEMMA FarType ==
  ASSUME NEW m, IsMap(m), NEW s \in Int, NEW t \in Int
  PROVE  FarX(m, s, t) \in Nat /\ FarY(m, s, t) \in Nat
<1> DEFINE W == Stride(m)
<1>1. W \in Nat \ {0}
  BY StrideIsWide
<1> HIDE DEF W
<1>2. s % W \in Int /\ t % W \in Int /\ s \div W \in Int /\ t \div W \in Int
  <2>1. s % W \in 0 .. W - 1 /\ s \div W \in Int
    BY <1>1, Division
  <2>2. t % W \in 0 .. W - 1 /\ t \div W \in Int
    BY <1>1, Division
  <2> QED
    BY <1>1, <2>1, <2>2
<1> QED
  BY <1>2 DEF FarX, FarY, Away, W

LEMMA EstimateIs ==
  ASSUME NEW m, IsMap(m), NEW s \in Int, NEW t \in Int
  PROVE  Estimate(m, s, t) =
           IF m.alg = "dijkstra" THEN 0
           ELSE IF m.alg = "astar" THEN OctileOf(FarX(m, s, t), FarY(m, s, t))
           ELSE IF m.alg = "astar4c" THEN Cardinal * (FarX(m, s, t) + FarY(m, s, t))
           ELSE Floor(m) * OctileOf(FarX(m, s, t), FarY(m, s, t))
<1> DEFINE a == FarX(m, s, t)
           b == FarY(m, s, t)
<1>1. a \in Nat /\ b \in Nat
  BY FarType
<1>2. CASE m.alg = "dijkstra"
  BY <1>2 DEF Estimate
<1>3. CASE m.alg = "astar"
  <2>1. Stride(m) = Grid(m.width, m.height)!Width
    BY <1>3 DEF Stride
  <2>2. Grid(m.width, m.height)!Octile(s, t)
          = IF a < b THEN a * Diagonal + (b - a) * Cardinal ELSE b * Diagonal + (a - b) * Cardinal
    BY <2>1 DEF Grid!Octile, Grid!Abs, Grid!ToPaddedXY, FarX, FarY, Away
  <2>3. Estimate(m, s, t) = Grid(m.width, m.height)!Octile(s, t)
    BY <1>3 DEF Estimate
  <2> HIDE DEF a, b
  <2> QED
    BY <1>3, <2>2, <2>3 DEF OctileOf, a, b
<1>4. CASE m.alg = "astar4c"
  <2>1. Stride(m) = Grid(m.width, m.height)!Width
    BY <1>4 DEF Stride
  <2>2. Grid(m.width, m.height)!ManhattanDistance(s, t) = Cardinal * (a + b)
    BY <2>1 DEF Grid!ManhattanDistance, Grid!Abs, Grid!ToPaddedXY, FarX, FarY, Away
  <2>3. Estimate(m, s, t) = Grid(m.width, m.height)!ManhattanDistance(s, t)
    BY <1>4 DEF Estimate
  <2> QED
    BY <1>4, <2>2, <2>3
<1>5. CASE m.alg = "astar_wgm"
  <2>1. Stride(m) = Terrain(m.width, m.height)!Width
    BY <1>5 DEF Stride
  <2>2. Terrain(m.width, m.height)!Octile(m.cells, s, t)
          = Floor(m) * (IF a < b THEN a * 4 * Quarter + (b - a) * 2 * Half
                                 ELSE b * 4 * Quarter + (a - b) * 2 * Half)
    BY <2>1 DEF Terrain!Octile, Terrain!Abs, FarX, FarY, Away, Floor
  <2>3. ASSUME NEW u \in Int
        PROVE  u * 4 * Quarter = u * Diagonal /\ u * 2 * Half = u * Cardinal
    BY CostAssumption
  <2>4. a - b \in Int /\ b - a \in Int
    BY <1>1
  <2> HIDE DEF a, b
  <2>5. /\ a * 4 * Quarter = a * Diagonal /\ b * 4 * Quarter = b * Diagonal
        /\ (b - a) * 2 * Half = (b - a) * Cardinal /\ (a - b) * 2 * Half = (a - b) * Cardinal
    BY <1>1, <2>3, <2>4
  <2>6. Terrain(m.width, m.height)!Octile(m.cells, s, t) = Floor(m) * OctileOf(a, b)
    BY <2>2, <2>5 DEF OctileOf
  <2>7. Estimate(m, s, t) = Terrain(m.width, m.height)!Octile(m.cells, s, t)
    BY <1>5 DEF Estimate
  <2> QED
    BY <1>5, <2>6, <2>7 DEF a, b
<1> QED
  BY <1>2, <1>3, <1>4, <1>5 DEF IsMap, Kinds, GridAlgs

(* What a move costs is at least the length of the move, over the cheapest *)
(* ground there is.                                                        *)
LEMMA MoveIsWorth ==
  ASSUME NEW m, IsMap(m), HasFloor(m), NEW x, NEW y, IsPlace(m, x, y),
         NEW d \in MapMoves(m, x, y), Worth(m, x, y) # 0
  PROVE  /\ CostOfMove(m, x, y, d) \in Nat
         /\ m.alg # "astar_wgm" =>
              CostOfMove(m, x, y, d) = IF d \in Straight THEN Cardinal ELSE Diagonal
         /\ m.alg = "astar_wgm" =>
              Floor(m) * (IF d \in Straight THEN Cardinal ELSE Diagonal)
                <= CostOfMove(m, x, y, d)
<1>1. d \in Steps8 /\ MayPass(m, x, y, d)
  BY DEF MapMoves
<1>2. CostOfMove(m, x, y, d) \in Nat
  BY <1>1, EdgeType DEF EdgeOfMove, AnyEdge
<1>3. m.alg # "astar_wgm" =>
        CostOfMove(m, x, y, d) = IF d \in Straight THEN Cardinal ELSE Diagonal
  BY DEF CostOfMove
<1>4. ASSUME m.alg = "astar_wgm"
      PROVE  Floor(m) * (IF d \in Straight THEN Cardinal ELSE Diagonal)
               <= CostOfMove(m, x, y, d)
  <2> DEFINE L == Floor(m)
             a == Worth(m, x, y)
             b == Worth(m, x + d[1], y + d[2])
             c == Worth(m, x + d[1], y)
             e == Worth(m, x, y + d[2])
  <2>1. a \in Nat /\ b \in Nat /\ c \in Nat /\ e \in Nat
    BY <1>1, WorthOfMove
  <2>2. L \in Nat /\ \A u, v : Worth(m, u, v) # 0 => L <= Worth(m, u, v)
    BY <1>4, FloorFacts
  <2>3. L <= a /\ L <= b
    BY <1>1, <2>2 DEF MayPass
  <2>4. d \notin Straight => L <= c /\ L <= e
    BY <1>1, <2>2, StepFacts DEF MayPass
  <2>5. CostOfMove(m, x, y, d) = IF d \in Straight THEN Half * (a + b)
                                 ELSE Quarter * (a + b + (c + e))
    BY <1>4 DEF CostOfMove
  <2> HIDE DEF L, a, b, c, e
  <2>6. CASE d \in Straight
    <3>1. Half * (2 * L) <= Half * (a + b) /\ Half * (2 * L) = L * Cardinal
      <4>1. 2 * L \in Nat /\ a + b \in Nat /\ 2 * L <= a + b
        BY <2>1, <2>2, <2>3
      <4>2. Half * (2 * L) = L * (2 * Half) /\ Half \in Nat
        BY <2>2, CostsAreNat
      <4> QED
        BY <4>1, <4>2, Scaled, CostAssumption
    <3> QED
      BY <2>5, <2>6, <3>1 DEF L
  <2>7. CASE d \notin Straight
    <3>1. Quarter * (4 * L) <= Quarter * (a + b + (c + e)) /\ Quarter * (4 * L) = L * Diagonal
      <4>1. 4 * L \in Nat /\ a + b + (c + e) \in Nat /\ 4 * L <= a + b + (c + e)
        BY <2>1, <2>2, <2>3, <2>4, <2>7
      <4>2. Quarter * (4 * L) = L * (4 * Quarter) /\ Quarter \in Nat
        BY <2>2, CostsAreNat
      <4> QED
        BY <4>1, <4>2, Scaled, CostAssumption
    <3> QED
      BY <2>5, <2>7, <3>1 DEF L
  <2> QED
    BY <2>6, <2>7
<1> QED
  BY <1>2, <1>3, <1>4

LEMMA FarMoves ==
  ASSUME NEW m, IsMap(m), NEW x, NEW y, IsPlace(m, x, y), NEW t \in Int,
         NEW d \in Steps8, IsPlace(m, x + d[1], y + d[2])
  PROVE  LET s == CellAt(Stride(m), x, y)
             n == CellAt(Stride(m), x + d[1], y + d[2])
         IN  /\ s \in Int /\ n \in Int
             /\ FarX(m, s, t) \in Nat /\ FarY(m, s, t) \in Nat
             /\ FarX(m, n, t) \in Nat /\ FarY(m, n, t) \in Nat
             /\ FarX(m, s, t) <= FarX(m, n, t) + (IF d[1] = 0 THEN 0 ELSE 1)
             /\ FarY(m, s, t) <= FarY(m, n, t) + (IF d[2] = 0 THEN 0 ELSE 1)
<1> DEFINE s == CellAt(Stride(m), x, y)
           n == CellAt(Stride(m), x + d[1], y + d[2])
           W == Stride(m)
           a == t % W
           b == t \div W
<1>1. /\ s \in Int /\ n \in Int /\ s % W = x /\ s \div W = y + 3
      /\ n % W = x + d[1] /\ n \div W = y + d[2] + 3
      /\ x \in Int /\ y \in Int
  BY PlaceOfId
<1>2. d[1] \in -1 .. 1 /\ d[2] \in -1 .. 1
  BY StepFacts
<1>3. a \in Int /\ b \in Int
  <2>1. W \in Nat \ {0}
    BY StrideIsWide
  <2> HIDE DEF W
  <2>2. a \in 0 .. W - 1 /\ b \in Int
    BY <2>1, Division
  <2> QED
    BY <2>1, <2>2
<1>4. /\ FarX(m, s, t) \in Nat /\ FarY(m, s, t) \in Nat
      /\ FarX(m, n, t) \in Nat /\ FarY(m, n, t) \in Nat
  BY <1>1, FarType
<1>5. /\ FarX(m, s, t) = Away(x, a) /\ FarX(m, n, t) = Away(x + d[1], a)
      /\ FarY(m, s, t) = Away(y + 3, b) /\ FarY(m, n, t) = Away((y + 3) + d[2], b)
  <2>1. y + d[2] + 3 = (y + 3) + d[2]
    BY <1>1, <1>2
  <2> HIDE DEF s, n
  <2> QED
    BY <1>1, <2>1 DEF FarX, FarY
<1> HIDE DEF a, b
<1>6. Away(x, a) <= Away(x + d[1], a) + (IF d[1] = 0 THEN 0 ELSE 1)
  BY <1>1, <1>2, <1>3, AwayMoves
<1>7. Away(y + 3, b) <= Away((y + 3) + d[2], b) + (IF d[2] = 0 THEN 0 ELSE 1)
  <2>1. y + 3 \in Int
    BY <1>1
  <2> QED
    BY <1>2, <1>3, <2>1, AwayMoves
<1> HIDE DEF s, n
<1>8. /\ s \in Int /\ n \in Int
      /\ FarX(m, s, t) \in Nat /\ FarY(m, s, t) \in Nat
      /\ FarX(m, n, t) \in Nat /\ FarY(m, n, t) \in Nat
      /\ FarX(m, s, t) <= FarX(m, n, t) + (IF d[1] = 0 THEN 0 ELSE 1)
      /\ FarY(m, s, t) <= FarY(m, n, t) + (IF d[2] = 0 THEN 0 ELSE 1)
  BY <1>1, <1>4, <1>5, <1>6, <1>7
<1> QED
  BY <1>8 DEF s, n

LEMMA EstimateType ==
  ASSUME NEW m, IsMap(m), HasFloor(m), NEW s \in Int, NEW t \in Int
  PROVE  Estimate(m, s, t) \in Nat
<1> DEFINE a == FarX(m, s, t)
           b == FarY(m, s, t)
           o == OctileOf(a, b)
<1>1. a \in Nat /\ b \in Nat
  BY FarType
<1>2. o \in Nat
  BY <1>1, OctileIsSum
<1>3. Cardinal * (a + b) \in Nat
  BY <1>1, CostsAreNat
<1>4. m.alg = "astar_wgm" => Floor(m) * o \in Nat
  <2> HIDE DEF o
  <2> QED
    BY <1>2, FloorFacts
<1>5. m.alg \notin {"dijkstra", "astar", "astar4c"} => m.alg = "astar_wgm"
  BY DEF IsMap, Kinds, GridAlgs
<1> HIDE DEF a, b, o
<1> QED
  BY <1>2, <1>3, <1>4, <1>5, EstimateIs DEF a, b, o

LEMMA EstimateOfSelf ==
  ASSUME NEW m, IsMap(m), HasFloor(m), NEW t \in Int
  PROVE  Estimate(m, t, t) = 0
<1> DEFINE W == Stride(m)
<1>1. FarX(m, t, t) = 0 /\ FarY(m, t, t) = 0
  <2>1. W \in Nat \ {0}
    BY StrideIsWide
  <2> HIDE DEF W
  <2>2. t % W \in 0 .. W - 1 /\ t \div W \in Int
    BY <2>1, Division
  <2>3. (t % W) - (t % W) = 0 /\ (t \div W) - (t \div W) = 0
    BY <2>1, <2>2
  <2> QED
    BY <2>3 DEF FarX, FarY, Away, W
<1>2. OctileOf(0, 0) = 0
  BY CostsAreNat DEF OctileOf
<1>3. Cardinal * (0 + 0) = 0
  BY CostsAreNat
<1>4. m.alg = "astar_wgm" => Floor(m) * 0 = 0
  BY FloorFacts
<1>5. m.alg \notin {"dijkstra", "astar", "astar4c"} => m.alg = "astar_wgm"
  BY DEF IsMap, Kinds, GridAlgs
<1> QED
  BY <1>1, <1>2, <1>3, <1>4, <1>5, EstimateIs

\* No move lowers the estimate by more than it costs.
LEMMA MoveIsConsistent ==
  ASSUME NEW m, IsMap(m), HasFloor(m), NEW x, NEW y, IsPlace(m, x, y),
         Worth(m, x, y) # 0, NEW d \in MapMoves(m, x, y), NEW t \in Int
  PROVE  Estimate(m, CellAt(Stride(m), x, y), t)
           <= CostOfMove(m, x, y, d)
                + Estimate(m, CellAt(Stride(m), x + d[1], y + d[2]), t)
<1> DEFINE s == CellAt(Stride(m), x, y)
           n == CellAt(Stride(m), x + d[1], y + d[2])
           c == CostOfMove(m, x, y, d)
           a == FarX(m, s, t)
           b == FarY(m, s, t)
           p == FarX(m, n, t)
           q == FarY(m, n, t)
           len == IF d \in Straight THEN Cardinal ELSE Diagonal
           dx == IF d[1] = 0 THEN 0 ELSE 1
           dy == IF d[2] = 0 THEN 0 ELSE 1
<1>1. d \in Steps8 /\ MayPass(m, x, y, d) /\ (m.alg = "astar4c" => d \in Straight)
  BY DEF MapMoves
<1>2. IsPlace(m, x + d[1], y + d[2])
  BY <1>1 DEF MayPass, Worth
<1>3. /\ s \in Int /\ n \in Int /\ a \in Nat /\ b \in Nat /\ p \in Nat /\ q \in Nat
      /\ a <= p + dx /\ b <= q + dy
  BY <1>1, <1>2, FarMoves
<1>4. /\ dx \in 0 .. 1 /\ dy \in 0 .. 1 /\ (dx = 1 \/ dy = 1)
      /\ d \in Straight <=> ~(dx = 1 /\ dy = 1)
  BY <1>1, StepFacts
<1>5. /\ c \in Nat
      /\ m.alg # "astar_wgm" => c = len
      /\ m.alg = "astar_wgm" => Floor(m) * len <= c
  BY MoveIsWorth
<1>6. /\ Estimate(m, s, t) \in Nat /\ Estimate(m, n, t) \in Nat
  <2> HIDE DEF s, n
  <2> QED
    BY <1>3, EstimateType
<1>7. len \in Nat
  BY CostsAreNat
<1>8. OctileOf(a, b) \in Nat /\ OctileOf(p, q) \in Nat /\ OctileOf(a, b) <= OctileOf(p, q) + len
  <2> HIDE DEF a, b, p, q, dx, dy, len
  <2>1. OctileOf(a, b) <= OctileOf(p, q) + (IF dx = 1 /\ dy = 1 THEN Diagonal ELSE Cardinal)
    BY <1>3, <1>4, OctileMoves
  <2>2. OctileOf(a, b) \in Nat /\ OctileOf(p, q) \in Nat
    BY <1>3, OctileIsSum
  <2> QED
    BY <1>4, <2>1, <2>2 DEF len
<1>9. /\ Estimate(m, s, t) = IF m.alg = "dijkstra" THEN 0
                             ELSE IF m.alg = "astar" THEN OctileOf(a, b)
                             ELSE IF m.alg = "astar4c" THEN Cardinal * (a + b)
                             ELSE Floor(m) * OctileOf(a, b)
      /\ Estimate(m, n, t) = IF m.alg = "dijkstra" THEN 0
                             ELSE IF m.alg = "astar" THEN OctileOf(p, q)
                             ELSE IF m.alg = "astar4c" THEN Cardinal * (p + q)
                             ELSE Floor(m) * OctileOf(p, q)
  <2> HIDE DEF s, n
  <2> QED
    BY <1>3, EstimateIs DEF a, b, p, q
<1> SUFFICES Estimate(m, s, t) <= c + Estimate(m, n, t)
  OBVIOUS
<1> HIDE DEF s, n, c, a, b, p, q, dx, dy, len
<1>10. CASE m.alg = "dijkstra"
  BY <1>5, <1>6, <1>9, <1>10
<1>11. CASE m.alg = "astar"
  BY <1>5, <1>8, <1>9, <1>11
<1>12. CASE m.alg = "astar4c"
  <2>1. len = Cardinal
    BY <1>1, <1>12 DEF len
  <2>2. a + b \in Nat /\ (p + q) + 1 \in Nat /\ a + b <= (p + q) + 1
    BY <1>1, <1>3, <1>4, <1>12
  <2>3. Cardinal * (a + b) <= Cardinal * ((p + q) + 1)
    BY <2>2, CostsAreNat, Scaled
  <2>4. Cardinal * ((p + q) + 1) = Cardinal * (p + q) + Cardinal
    BY <1>3, CostsAreNat
  <2>5. Cardinal * (a + b) \in Int /\ Cardinal * (p + q) \in Int
    BY <1>3, CostsAreNat
  <2> DEFINE u == Cardinal * (a + b)
             v == Cardinal * (p + q)
  <2>6. u <= Cardinal + v
    <3>1. u \in Int /\ v \in Int /\ u <= v + Cardinal
      BY <2>3, <2>4, <2>5
    <3> HIDE DEF u, v
    <3> QED
      BY <3>1, CostsAreNat
  <2>7. Estimate(m, s, t) = u /\ Estimate(m, n, t) = v /\ c = Cardinal
    BY <1>5, <1>9, <1>12, <2>1
  <2> QED
    BY <2>6, <2>7
<1>13. CASE m.alg = "astar_wgm"
  <2> DEFINE L == Floor(m)
             u == OctileOf(a, b)
             v == OctileOf(p, q)
  <2>1. L \in Nat
    BY <1>13, FloorFacts
  <2>2. u \in Nat /\ v \in Nat /\ u <= v + len
    BY <1>8
  <2>3. Estimate(m, s, t) = L * u /\ Estimate(m, n, t) = L * v /\ L * len <= c
    BY <1>5, <1>9, <1>13
  <2> HIDE DEF L, u, v
  <2>4. L * u <= L * (v + len) /\ L * (v + len) = L * v + L * len
    <3>1. v + len \in Nat
      BY <1>7, <2>2
    <3> QED
      BY <1>7, <2>1, <2>2, <3>1, Scaled
  <2>5. L * u \in Int /\ L * v \in Int /\ L * len \in Int
    BY <1>7, <2>1, <2>2
  <2> DEFINE A == L * u
             B == L * v
             C == L * len
  <2>6. A \in Int /\ B \in Int /\ C \in Int /\ A <= B + C /\ C <= c
        /\ Estimate(m, s, t) = A /\ Estimate(m, n, t) = B
    BY <2>3, <2>4, <2>5
  <2> HIDE DEF A, B, C
  <2> QED
    BY <1>5, <2>6
<1> QED
  BY <1>10, <1>11, <1>12, <1>13 DEF IsMap, Kinds, GridAlgs

-----------------------------------------------------------------------------
(* The tables of the engine.                                               *)

\* The tables have the edges and the estimates of the map.
IsTabled(m) ==
  \A n \in Node :
    /\ Successors[m][n] = SuccessorsOf(m, n)
    /\ \A t \in Node : LowerBound[m][n][t] = Estimate(m, n, t)

LEMMA PlaceOfCell ==
  ASSUME NEW m, IsMap(m), NEW id \in DOMAIN m.cells
  PROVE  \E x, y : IsPlace(m, x, y) /\ id = CellAt(Stride(m), x, y)
<1>1. id \in IdsOf(Stride(m), m.width, m.height)
  BY DEF IsMap, CellIds
<1>2. PICK x \in 0 .. m.width - 1, y \in 0 .. m.height - 1 : id = CellAt(Stride(m), x, y)
  BY <1>1 DEF IdsOf
<1> QED
  BY <1>2 DEF IsPlace

\* An edge is a move from a place that is in the map.
LEMMA EdgeIsMove ==
  ASSUME NEW m, IsMap(m), IsTabled(m), NEW u \in Node, NEW k \in DOMAIN Successors[m][u]
  PROVE  \E x, y, d :
           /\ IsPlace(m, x, y) /\ u = CellAt(Stride(m), x, y)
           /\ d \in MapMoves(m, x, y)
           /\ Successors[m][u][k] = EdgeOfMove(m, x, y, d)
<1> DEFINE s == SuccessorsOf(m, u)
<1>1. Successors[m][u] = s
  BY DEF IsTabled
<1>2. u \in DOMAIN m.cells
  <2> SUFFICES ASSUME u \notin DOMAIN m.cells
               PROVE  FALSE
    OBVIOUS
  <2>1. s = <<>>
    BY DEF SuccessorsOf
  <2> HIDE DEF s
  <2> QED
    BY <1>1, <2>1
<1>3. PICK x, y : IsPlace(m, x, y) /\ u = CellAt(Stride(m), x, y)
  BY <1>2, PlaceOfCell
<1>4. Range(s) = {EdgeOfMove(m, x, y, d) : d \in MapMoves(m, x, y)}
  BY <1>3, EdgesAreMoves
<1>5. s[k] \in Range(s)
  <2> HIDE DEF s
  <2> QED
    BY <1>1 DEF Range
<1> HIDE DEF s
<1>6. PICK d \in MapMoves(m, x, y) : s[k] = EdgeOfMove(m, x, y, d)
  BY <1>4, <1>5
<1> QED
  BY <1>1, <1>3, <1>6

\* Edges lead to places that are not obstacles.
LEMMA EnteredIsOpen ==
  ASSUME NEW m, IsMap(m), IsTabled(m), NEW n \in Entered(Successors[m])
  PROVE  \E x, y : IsPlace(m, x, y) /\ n = CellAt(Stride(m), x, y) /\ Worth(m, x, y) # 0
<1>1. PICK u \in Node : \E k \in DOMAIN Successors[m][u] : n = Successors[m][u][k].node
  BY DEF Entered
<1>2. PICK k \in DOMAIN Successors[m][u] : n = Successors[m][u][k].node
  BY <1>1
<1>3. PICK x, y, d : /\ IsPlace(m, x, y)
                     /\ d \in MapMoves(m, x, y)
                     /\ Successors[m][u][k] = EdgeOfMove(m, x, y, d)
  BY EdgeIsMove
<1>4. n = CellAt(Stride(m), x + d[1], y + d[2]) /\ Worth(m, x + d[1], y + d[2]) # 0
  BY <1>2, <1>3 DEF EdgeOfMove, MapMoves, MayPass
<1>5. IsPlace(m, x + d[1], y + d[2])
  BY <1>4 DEF Worth
<1> QED
  BY <1>4, <1>5

LEMMA EdgeOfTable ==
  ASSUME NEW m \in Maps, NEW u \in Node, NEW k \in DOMAIN Successors[m][u]
  PROVE  Successors[m][u][k].node \in Node /\ Successors[m][u][k].cost \in Nat
<1> DEFINE s == Successors[m][u]
<1>1. s \in Seq(Edge)
  BY MapsAssumption
<1> HIDE DEF s
<1>2. k \in DOMAIN s => s[k] \in Edge
  BY <1>1
<1> QED
  BY <1>2 DEF s, Edge

LEMMA MapIsConsistent ==
  ASSUME NEW m \in Maps, IsMap(m), HasFloor(m), IsTabled(m), Node \subseteq Int
  PROVE  Targets \subseteq ConsistentTargets[m]
<1> DEFINE succ == Successors[m]
           low == LowerBound[m]
<1> SUFFICES ASSUME NEW t \in Targets
             PROVE  t \in ConsistentIn(succ, low)
  BY DEF ConsistentTargets
<1>1. t \in Node /\ t \in Int
  BY CallsAssumption DEF Targets
<1>2. low[t][t] = 0
  BY <1>1, EstimateOfSelf DEF IsTabled
<1>3. ASSUME NEW n \in Entered(succ)
      PROVE  ConsistentAt(succ, low, n, t)
  <2>1. PICK a, b : IsPlace(m, a, b) /\ n = CellAt(Stride(m), a, b) /\ Worth(m, a, b) # 0
    BY <1>3, EnteredIsOpen
  <2>2. n \in Node
    BY <1>3, EdgeOfTable DEF Entered
  <2> SUFFICES ASSUME NEW k \in DOMAIN succ[n]
               PROVE  low[n][t] <= succ[n][k].cost + low[succ[n][k].node][t]
    BY DEF ConsistentAt
  <2>3. PICK x, y, d : /\ IsPlace(m, x, y) /\ n = CellAt(Stride(m), x, y)
                       /\ d \in MapMoves(m, x, y)
                       /\ succ[n][k] = EdgeOfMove(m, x, y, d)
    BY <2>2, EdgeIsMove
  <2>4. Worth(m, x, y) # 0
    <3>1. Worth(m, a, b) = m.cells[n] /\ Worth(m, x, y) = m.cells[n]
      BY <2>1, <2>3 DEF Worth
    <3> QED
      BY <2>1, <3>1
  <2>5. succ[n][k].node \in Node
    BY <2>2, EdgeOfTable
  <2>6. /\ succ[n][k].node = CellAt(Stride(m), x + d[1], y + d[2])
        /\ succ[n][k].cost = CostOfMove(m, x, y, d)
    BY <2>3 DEF EdgeOfMove
  <2>7. /\ low[n][t] = Estimate(m, n, t)
        /\ low[succ[n][k].node][t] = Estimate(m, succ[n][k].node, t)
    BY <1>1, <2>2, <2>5 DEF IsTabled
  <2>8. Estimate(m, CellAt(Stride(m), x, y), t)
          <= CostOfMove(m, x, y, d) + Estimate(m, CellAt(Stride(m), x + d[1], y + d[2]), t)
    BY <1>1, <2>3, <2>4, MoveIsConsistent
  <2> HIDE DEF succ, low
  <2> QED
    BY <2>3, <2>6, <2>7, <2>8
<1> QED
  BY <1>2, <1>3 DEF ConsistentIn

-----------------------------------------------------------------------------
(* What the readers build.                                                 *)

LEMMA FilesAreFiles ==
  ASSUME NEW path
  PROVE  FileAt(path) \in MapFile
<1>1. ASSUME path \in DOMAIN MapAt
      PROVE  FileAt(path) \in MapFile
  BY <1>1, ProgramAssumption DEF FileAt
<1>2. ASSUME path \notin DOMAIN MapAt
      PROVE  FileAt(path) \in MapFile
  <2>1. <<>> \in Seq(STRING)
    OBVIOUS
  <2> QED
    BY <1>2, <2>1 DEF FileAt, MapFile
<1> QED
  BY <1>1, <1>2

\* The header that gridmap accepts.
LEMMA GridHeader ==
  ASSUME NEW f \in MapFile, ReadHeader(f.head), GridType(f.head) = "OCTILE"
  PROVE  /\ Len(f.head) = 7
         /\ f.head[1] = "type" /\ f.head[2] = "octile"
         /\ f.head[3] = "height" /\ f.head[4] \in DOMAIN Numeral
         /\ f.head[5] = "width" /\ f.head[6] \in DOMAIN Numeral
         /\ f.head[7] = "map"
         /\ Numeral[f.head[4]] \in Nat \ {0} /\ Numeral[f.head[6]] \in Nat \ {0}
<1> DEFINE h == f.head
           fields == SubSeq(h, 3, Len(h))
<1>1. h \in Seq(STRING) /\ Len(h) \in Nat
  BY DEF MapFile
<1>2. h # <<>> /\ h[1] = "type" /\ h[2] = "octile" /\ Len(h) > 1
  <2> HIDE DEF h
  <2>1. h # <<>>
    BY DEF ReadHeader, h
  <2>2. GridType(h) = "OCTILE"
    BY DEF h
  <2> QED
    BY <2>1, <2>2 DEF GridType
<1>3. AfterType(h) = fields
  BY <1>2 DEF AfterType
<1> HIDE DEF h
<1>4. /\ Len(fields) = 5
      /\ fields[1] = "height" /\ fields[2] \in DOMAIN Numeral
      /\ fields[3] = "width" /\ fields[4] \in DOMAIN Numeral
      /\ fields[5] = "map"
  <2>1. ReadHeader(h) /\ GridType(h) = "OCTILE"
    BY DEF h
  <2> HIDE DEF fields
  <2> QED
    BY <1>3, <2>1 DEF ReadHeader
<1>5. Len(h) = 7
  BY <1>1, <1>4
<1>6. /\ fields[1] = h[3] /\ fields[2] = h[4] /\ fields[3] = h[5]
      /\ fields[4] = h[6] /\ fields[5] = h[7]
  BY <1>1, <1>5
<1>7. h[4] \in DOMAIN Numeral /\ h[6] \in DOMAIN Numeral
  BY <1>4, <1>6
<1> QED
  BY <1>2, <1>4, <1>5, <1>6, <1>7, NumeralAssumption DEF h

LEMMA GridRead ==
  ASSUME NEW f \in MapFile, NEW junk, ReadGrid(f, junk).ok
  PROVE  LET r == ReadGrid(f, junk)
             h == Numeral[f.head[4]]
             w == Numeral[f.head[6]]
             b == Buffers(f.body, w, h, junk)
         IN  /\ ReadHeader(f.head) /\ GridType(f.head) = "OCTILE"
             /\ r.width = w /\ r.height = h
             /\ r.cells = [k \in 1 .. w * h |-> b[((k - 1) \div w) + 1][((k - 1) % w) + 1]]
             /\ \A k \in DOMAIN r.cells : r.cells[k] \in Blocker \cup Traversable
<1>1. ~Rejected.ok
  BY DEF Rejected
<1>2. ReadHeader(f.head) /\ GridType(f.head) = "OCTILE"
  BY <1>1 DEF ReadGrid
<1>0. ~TooWide(f.head)
  BY <1>1, <1>2 DEF ReadGrid
<1> DEFINE h == Numeral[f.head[4]]
           w == Numeral[f.head[6]]
           b == Buffers(f.body, w, h, junk)
           cells == [k \in 1 .. w * h |-> b[((k - 1) \div w) + 1][((k - 1) % w) + 1]]
<1>3. ReadGrid(f, junk) = IF \A k \in DOMAIN cells : cells[k] \in Blocker \cup Traversable
                          THEN [ok |-> TRUE, width |-> w, height |-> h, cells |-> cells]
                          ELSE Rejected
  BY <1>2, <1>0 DEF ReadGrid
<1> HIDE DEF cells, w, h
<1>4. /\ \A k \in DOMAIN cells : cells[k] \in Blocker \cup Traversable
      /\ ReadGrid(f, junk) = [ok |-> TRUE, width |-> w, height |-> h, cells |-> cells]
  BY <1>1, <1>3
<1>5. /\ ReadGrid(f, junk).width = w /\ ReadGrid(f, junk).height = h
      /\ ReadGrid(f, junk).cells = cells
  BY <1>4
<1> QED
  BY <1>2, <1>4, <1>5 DEF cells, w, h

LEMMA GridIsMap ==
  ASSUME NEW alg \in GridAlgs, NEW f \in MapFile, NEW junk, ReadGrid(f, junk).ok
  PROVE  /\ IsMap(MapOf(alg, ReadGrid(f, junk), GridCells(ReadGrid(f, junk))))
         /\ HasFloor(MapOf(alg, ReadGrid(f, junk), GridCells(ReadGrid(f, junk))))
<1> DEFINE r == ReadGrid(f, junk)
           m == MapOf(alg, r, GridCells(r))
           w == r.width
           h == r.height
<1>1. w \in Nat \ {0} /\ h \in Nat \ {0}
  <2>1. /\ ReadHeader(f.head) /\ GridType(f.head) = "OCTILE"
        /\ w = Numeral[f.head[6]] /\ h = Numeral[f.head[4]]
    BY GridRead
  <2> HIDE DEF w, h
  <2> QED
    BY <2>1, GridHeader
<1> HIDE DEF r
<1>2. m.alg = alg /\ m.width = w /\ m.height = h /\ m.cells = GridCells(r)
  BY DEF MapOf
<1>3. alg # "astar_wgm" /\ alg \in Kinds
  BY DEF GridAlgs, Kinds
<1> HIDE DEF m
<1>4. CellIds(m) = Grid(w, h)!Cells
  <2>1. Stride(m) = Grid(w, h)!Width
    BY <1>2, <1>3 DEF Stride
  <2> HIDE DEF w, h
  <2> QED
    BY <1>1, <1>2, <2>1, CellsOfMaps DEF CellIds
<1>5. /\ DOMAIN GridCells(r) = Grid(w, h)!Cells
      /\ \A id \in Grid(w, h)!Cells : GridCells(r)[id] \in Nat
  BY DEF GridCells
<1> QED
  BY <1>1, <1>2, <1>3, <1>4, <1>5 DEF IsMap, HasFloor, m, r

LEMMA CostOfAny ==
  ASSUME NEW costs \in CostFile, CostsAccepted(costs), NEW terrain, CostOf(costs, terrain) # NaN
  PROVE  CostOf(costs, terrain) \in Nat
<1> DEFINE at(k) == costs.entries[k].terrain = terrain
           l == CHOOSE k \in DOMAIN costs.entries : at(k)
<1>1. \E k \in DOMAIN costs.entries : at(k)
  BY DEF CostOf
<1>2. CostOf(costs, terrain) = costs.entries[l].cost /\ l \in DOMAIN costs.entries
  BY <1>1 DEF CostOf
<1> HIDE DEF l
<1>3. costs.entries[l].cost \in Int
  <2> DEFINE e == costs.entries
             E == [terrain : STRING, cost : Int, parsed : BOOLEAN]
  <2>1. e \in Seq(E) /\ l \in DOMAIN e
    BY <1>2 DEF CostFile
  <2> HIDE DEF e, E
  <2>2. e[l] \in E
    BY <2>1
  <2> USE DEF e, E
  <2> QED
    BY <2>2
<1>4. costs.entries[l].cost >= 0
  BY <1>2 DEF CostsAccepted
<1> QED
  BY <1>2, <1>3, <1>4

LEMMA GmRead ==
  ASSUME NEW f, GmParser(f).ok
  PROVE  /\ GmAccepts(f.head)
         /\ GmParser(f).width = WidthOf(f) /\ GmParser(f).height = HeightOf(f)
         /\ GmParser(f).cells = Tiles(f)
         /\ Len(Tiles(f)) = WidthOf(f) * HeightOf(f)
<1>1. ~Rejected.ok
  BY DEF Rejected
<1>2. GmAccepts(f.head) /\ Len(Tiles(f)) = WidthOf(f) * HeightOf(f)
  BY <1>1 DEF GmParser, WidthOf, HeightOf
<1>3. GmParser(f) = [ok |-> TRUE, width |-> WidthOf(f), height |-> HeightOf(f), cells |-> Tiles(f)]
  BY <1>2 DEF GmParser, WidthOf, HeightOf
<1> QED
  BY <1>2, <1>3

LEMMA SizesOfGm ==
  ASSUME NEW f, GmAccepts(f.head)
  PROVE  WidthOf(f) \in Nat \ {0} /\ HeightOf(f) \in Nat \ {0}
<1>1. ASSUME NEW word, Atoi(word) > 0
      PROVE  Atoi(word) \in Nat \ {0}
  BY <1>1, NumeralAssumption DEF Atoi
<1> QED
  BY <1>1 DEF GmAccepts, WidthOf, HeightOf

LEMMA TerrainIsMap ==
  ASSUME NEW f, GmParser(f).ok, NEW costs \in CostFile, CostsAccepted(costs),
         Priced(MapOf("astar_wgm", GmParser(f), TerrainCells(GmParser(f), costs)))
  PROVE  IsMap(MapOf("astar_wgm", GmParser(f), TerrainCells(GmParser(f), costs)))
<1> DEFINE r == GmParser(f)
           m == MapOf("astar_wgm", r, TerrainCells(r, costs))
           w == r.width
           h == r.height
<1>1. w \in Nat \ {0} /\ h \in Nat \ {0}
  BY GmRead, SizesOfGm
<1> HIDE DEF r
<1>2. m.alg = "astar_wgm" /\ m.width = w /\ m.height = h /\ m.cells = TerrainCells(r, costs)
  BY DEF MapOf
<1>3. Priced(m)
  BY DEF r
<1> HIDE DEF m
<1>4. CellIds(m) = Terrain(w, h)!Cells
  <2>1. Stride(m) = Terrain(w, h)!Width
    BY <1>2 DEF Stride
  <2> HIDE DEF w, h
  <2> QED
    BY <1>1, <1>2, <2>1, CellsOfMaps DEF CellIds
<1>5. DOMAIN TerrainCells(r, costs) = Terrain(w, h)!Cells
  BY DEF TerrainCells
<1>6. ASSUME NEW id \in Terrain(w, h)!Cells
      PROVE  m.cells[id] \in Nat
  <2>1. m.cells[id] # NaN
    BY <1>2, <1>3, <1>5 DEF Priced
  <2>2. \E c : TerrainCells(r, costs)[id] = CostOf(costs, c)
    BY DEF TerrainCells
  <2> QED
    BY <1>2, <2>1, <2>2, CostOfAny
<1> QED
  BY <1>1, <1>2, <1>4, <1>5, <1>6 DEF IsMap, Kinds, m, r

-----------------------------------------------------------------------------
(* The engine in the program.                                              *)

IsSequence(s) == \E S : s \in Seq(S)

\* The tables of the engine are those of maps that are not all obstacles.
TablesFit ==
  /\ Node \subseteq Int /\ IsFiniteSet(Node)
  /\ \A m \in Maps : IsTabled(m) /\ HasFloor(m)

(* What the program builds has tables, and the scenario asks for queries   *)
(* of the tables: the points of its experiments are points of the map.     *)
WithinTables ==
  stage = "run" =>
    /\ map \in Maps
    /\ \A k \in DOMAIN experiments : Ids(map, experiments[k]) \in Queries

NotBuilt == Unused /\ map = Null
IsBuilt  == ExactInv /\ map \in Maps /\ IsMap(map)

EngineInv ==
  /\ args \in Arguments
  /\ IsSequence(experiments) /\ IsSequence(rows)
  /\ stage \in {"start", "load", "build", "run", "exit"}
  /\ stage \in {"start", "load", "build"} => NotBuilt /\ rows = <<>>
  /\ stage = "run" => IsBuilt
  /\ stage = "exit" => NotBuilt \/ IsBuilt

LEMMA AppendedSequence ==
  ASSUME NEW s, IsSequence(s), NEW e
  PROVE  /\ IsSequence(Append(s, e))
         /\ Len(s) \in Nat /\ DOMAIN s = 1 .. Len(s)
         /\ Len(Append(s, e)) = Len(s) + 1
         /\ Append(s, e)[Len(s) + 1] = e
         /\ \A k \in 1 .. Len(s) : Append(s, e)[k] = s[k]
<1>1. PICK S : s \in Seq(S)
  BY DEF IsSequence
<1>2. s \in Seq(S \cup {e})
  BY <1>1
<1>3. Append(s, e) \in Seq(S \cup {e})
  BY <1>2
<1> QED
  BY <1>1, <1>2, <1>3 DEF IsSequence

LEMMA EmptySequence == IsSequence(<<>>)
<1>1. <<>> \in Seq({})
  OBVIOUS
<1> QED
  BY <1>1 DEF IsSequence

LEMMA QueryOfCurrent ==
  ASSUME EngineInv, WithinTables, BeginExperiment
  PROVE  /\ Current = experiments[calls + 1] /\ calls + 1 \in DOMAIN experiments
         /\ Ids(map, Current) \in Queries
<1>1. stage = "run" /\ calls = Len(rows) /\ calls < Len(experiments)
  BY DEF BeginExperiment, Running, Scenario!NumExperiments
<1>2. /\ Len(rows) \in Nat /\ Len(experiments) \in Nat
      /\ DOMAIN experiments = 1 .. Len(experiments)
  BY AppendedSequence DEF EngineInv
<1>3. Current = experiments[calls + 1]
  BY <1>1 DEF Current, Scenario!GetExperiment, Scenario!NumExperiments
<1>4. calls + 1 \in DOMAIN experiments
  BY <1>1, <1>2
<1> QED
  BY <1>1, <1>3, <1>4 DEF WithinTables

\* What runs is a step of the engine.
LEMMA RunIsStep ==
  ASSUME EngineInv, WithinTables, stage = "run", [ProgramNext]_ProgramVars, "convert" \in IdOps
  PROVE  [Next]_vars
<1>1. CASE BeginExperiment
  <2>1. PICK p \in Params : GetPath("convert", Ids(map, Current)[1], Ids(map, Current)[2], p)
    BY <1>1 DEF BeginExperiment
  <2>2. Ids(map, Current) \in Queries
    BY <1>1, QueryOfCurrent
  <2> DEFINE q == Ids(map, Current)
  <2>3. \E p1 \in Params : GetPath("convert", q[1], q[2], p1)
    BY <2>1
  <2> HIDE DEF q
  <2> QED
    BY <2>2, <2>3 DEF Next, Call, q
<1>2. CASE Search
  BY <1>2 DEF Search, Next
<1>3. CASE PrintRow \/ AllDone
  BY <1>3 DEF PrintRow, AllDone
<1>4. CASE UNCHANGED ProgramVars
  BY <1>4 DEF ProgramVars
<1> QED
  BY <1>1, <1>2, <1>3, <1>4
  DEF ProgramNext, ParseArguments, ReadExperiment, LocateMap, BuildGrid, BuildTerrain,
      BuildNothing

LEMMA EngineInvInit ==
  ASSUME ProgramInit
  PROVE  EngineInv
BY EmptySequence DEF ProgramInit, EngineInv, NotBuilt, Scenario!ScenarioInit

\* What is built is a map.
LEMMA BuiltIsMap ==
  ASSUME EngineInv, BuildGrid \/ BuildTerrain, stage' = "run"
  PROVE  IsMap(map')
<1>1. CASE BuildGrid
  <2>1. PICK junk \in GarbageCells :
          LET r == ReadGrid(FileAt(mapfile), junk) IN
          IF r.ok
          THEN map' = MapOf(args.alg, r, GridCells(r)) /\ GoOn("run")
          ELSE Exit(Aborted) /\ UNCHANGED map
    BY <1>1 DEF BuildGrid
  <2>2. /\ ReadGrid(FileAt(mapfile), junk).ok
        /\ map' = MapOf(args.alg, ReadGrid(FileAt(mapfile), junk),
                        GridCells(ReadGrid(FileAt(mapfile), junk)))
    BY <2>1 DEF Exit
  <2>3. args.alg \in GridAlgs
    BY <1>1 DEF BuildGrid
  <2> QED
    BY <2>2, <2>3, FilesAreFiles, GridIsMap
<1>2. CASE BuildTerrain
  <2> DEFINE r == GmParser(FileAt(mapfile))
             m == MapOf(args.alg, r, TerrainCells(r, args.costs))
  <2>1. /\ args.alg = "astar_wgm"
        /\ IF args.costs # Null /\ CostsAccepted(args.costs) /\ r.ok /\ Priced(m)
           THEN map' = m /\ GoOn("run")
           ELSE Exit(1) /\ UNCHANGED map
    BY <1>2 DEF BuildTerrain
  <2> HIDE DEF m, r
  <2>2. args.costs # Null /\ CostsAccepted(args.costs) /\ r.ok /\ Priced(m) /\ map' = m
    BY <2>1 DEF Exit
  <2>3. args.costs \in CostFile
    BY <2>2, ProgramAssumption DEF EngineInv
  <2> QED
    BY <2>1, <2>2, <2>3, TerrainIsMap DEF m, r
<1> QED
  BY <1>1, <1>2

\* The engine is not touched before a map is built.
LEMMA BeforeRun ==
  ASSUME EngineInv, ProgramNext, stage \in {"start", "load", "build"}
  PROVE  /\ UNCHANGED <<args, rows>>
         /\ UNCHANGED <<node, open, pi, par, sol, counter, calls, pc, current, i>>
         /\ stage' \in {"start", "load", "build", "exit"} => map' = map
         /\ stage' \in {"start", "load", "build", "run", "exit"}
         /\ stage' = "run" => BuildGrid \/ BuildTerrain
         /\ IsSequence(experiments')
<1>1. CASE ParseArguments
  <2>1. experiments' = experiments
    BY <1>1 DEF ParseArguments, svars, Scenario!LoadScenario
  <2>2. UNCHANGED vars
    BY <1>1 DEF ParseArguments
  <2>3. /\ UNCHANGED <<args, rows>>
        /\ stage' \in {"exit", "load"}
    BY <1>1 DEF ParseArguments, Exit, GoOn
  <2> QED
    BY <2>1, <2>2, <2>3 DEF vars, EngineInv
<1>2. CASE ReadExperiment
  <2>1. IsSequence(experiments')
    <3>1. \/ experiments' = experiments
          \/ \E e : experiments' = Append(experiments, e)
      BY <1>2 DEF ReadExperiment, Scenario!ReadExperiment, Scenario!Appended
    <3>2. CASE experiments' = experiments
      BY <3>2 DEF EngineInv
    <3>3. ASSUME NEW e, experiments' = Append(experiments, e)
          PROVE  IsSequence(experiments')
      <4>1. IsSequence(Append(experiments, e))
        BY AppendedSequence DEF EngineInv
      <4> QED
        BY <3>3, <4>1
    <3> QED
      BY <3>1, <3>2, <3>3
  <2>2. UNCHANGED vars /\ UNCHANGED pvars
    BY <1>2 DEF ReadExperiment
  <2> QED
    BY <2>1, <2>2 DEF vars, pvars
<1>3. CASE LocateMap
  <2>1. UNCHANGED vars /\ UNCHANGED svars
    BY <1>3 DEF LocateMap
  <2>2. UNCHANGED <<args, rows>> /\ stage' \in {"exit", "build"}
    BY <1>3 DEF LocateMap, Exit
  <2> QED
    BY <2>1, <2>2 DEF vars, svars, EngineInv
<1>4. CASE BuildGrid
  <2>1. /\ UNCHANGED <<args, rows>> /\ stage' \in {"exit", "run"}
        /\ stage' = "exit" => map' = map
    BY <1>4 DEF BuildGrid, Exit, GoOn
  <2>2. UNCHANGED <<node, open, pi, par, sol, counter, calls, pc, current, i, svars>>
    BY <1>4 DEF BuildGrid
  <2> QED
    BY <1>4, <2>1, <2>2 DEF svars, EngineInv
<1>5. CASE BuildTerrain
  <2>1. /\ UNCHANGED <<args, rows>> /\ stage' \in {"exit", "run"}
        /\ stage' = "exit" => map' = map
    BY <1>5 DEF BuildTerrain, Exit, GoOn
  <2>2. UNCHANGED <<node, open, pi, par, sol, counter, calls, pc, current, i, svars>>
    BY <1>5 DEF BuildTerrain
  <2> QED
    BY <1>5, <2>1, <2>2 DEF svars, EngineInv
<1>6. CASE BuildNothing
  BY <1>6 DEF BuildNothing, Exit, vars, svars, EngineInv
<1> QED
  BY <1>1, <1>2, <1>3, <1>4, <1>5, <1>6
  DEF ProgramNext, BeginExperiment, Search, PrintRow, AllDone, Running

\* What changes besides the engine while the experiments are run.
LEMMA WhileRunning ==
  ASSUME EngineInv, ProgramNext, stage = "run"
  PROVE  /\ UNCHANGED <<args, mapfile, experiments, map>>
         /\ stage' \in {"run", "exit"}
         /\ IsSequence(rows')
<1>1. CASE BeginExperiment
  BY <1>1 DEF BeginExperiment, svars, pvars, GetPath, EngineInv
<1>2. CASE Search
  <2>1. map' = map
    BY <1>2 DEF Search, Step, Expand, SuccessorStep, Generate, Prune, Decrease, Reopen,
                Dominated, EndExpansion, Stop, Extract
  <2> QED
    BY <1>2, <2>1 DEF Search, svars, pvars, EngineInv
<1>3. CASE PrintRow
  BY <1>3, AppendedSequence DEF PrintRow, vars, svars, EngineInv
<1>4. CASE AllDone
  BY <1>4 DEF AllDone, Exit, vars, svars, EngineInv
<1> QED
  BY <1>1, <1>2, <1>3, <1>4
  DEF ProgramNext, ParseArguments, ReadExperiment, LocateMap, BuildGrid, BuildTerrain,
      BuildNothing

LEMMA EngineInvStep ==
  ASSUME EngineInv, [ProgramNext]_ProgramVars, WithinTables, WithinTables',
         TablesFit, FreshIds, "convert" \in IdOps, Init' => ExactInv'
  PROVE  EngineInv'
<1>1. CASE UNCHANGED ProgramVars
  <2>1. UNCHANGED <<vars, args, stage, rows, experiments>>
    BY <1>1 DEF ProgramVars, svars, pvars
  <2>2. NotBuilt' <=> NotBuilt
    BY <2>1 DEF NotBuilt, Unused, vars
  <2>3. IsBuilt => IsBuilt'
    <3>1. ExactInv => ExactInv'
      BY <2>1, ExactInvStep DEF TablesFit
    <3> QED
      BY <2>1, <3>1 DEF IsBuilt, vars, IsMap
  <2> QED
    BY <2>1, <2>2, <2>3 DEF EngineInv, vars
<1>2. CASE ProgramNext /\ stage \in {"start", "load", "build"}
  <2>1. NotBuilt /\ rows = <<>>
    BY <1>2 DEF EngineInv
  <2>2. Unused'
    BY <1>2, <2>1, BeforeRun DEF NotBuilt, Unused
  <2>3. ASSUME stage' = "run"
        PROVE  IsBuilt'
    <3>1. map' \in Maps
      BY <2>3 DEF WithinTables
    <3>2. Init'
      BY <2>2, <3>1 DEF Init
    <3>3. IsMap(map')
      BY <1>2, <2>3, BeforeRun, BuiltIsMap
    <3> QED
      BY <3>1, <3>2, <3>3 DEF IsBuilt
  <2>4. stage' # "run" => NotBuilt'
    BY <1>2, <2>1, <2>2, BeforeRun DEF NotBuilt
  <2> QED
    BY <1>2, <2>1, <2>3, <2>4, BeforeRun DEF EngineInv
<1>3. CASE ProgramNext /\ stage = "run"
  <2>1. [Next]_vars
    BY <1>3, RunIsStep
  <2>2. IsBuilt
    BY <1>3 DEF EngineInv
  <2>3. IsBuilt'
    <3>1. ExactInv'
      BY <2>1, <2>2, ExactInvStep DEF IsBuilt, TablesFit
    <3> QED
      BY <1>3, <2>2, <3>1, WhileRunning DEF IsBuilt
  <2> QED
    BY <1>3, <2>3, WhileRunning DEF EngineInv
<1>4. CASE ProgramNext /\ stage = "exit"
  BY <1>4
  DEF ProgramNext, ParseArguments, ReadExperiment, LocateMap, BuildGrid, BuildTerrain,
      BuildNothing, BeginExperiment, Search, PrintRow, AllDone, Running
<1> QED
  BY <1>1, <1>2, <1>3, <1>4 DEF EngineInv

LEMMA EngineInvariant ==
  ASSUME TablesFit, FreshIds, "convert" \in IdOps
  PROVE  ProgramSpec /\ []WithinTables => []EngineInv
<1>1. ProgramInit => EngineInv
  BY EngineInvInit
<1>2. Init => ExactInv
  BY ExactInvInit
<1>3. /\ EngineInv /\ [ProgramNext]_ProgramVars /\ WithinTables /\ WithinTables'
      /\ Init' => ExactInv'
      => EngineInv'
  BY EngineInvStep
<1> QED
  BY <1>1, <1>2, <1>3, PTL DEF ProgramSpec

\* What the engine has built satisfies, and an unused engine too.
LEMMA EngineIsRight ==
  ASSUME EngineInv, TablesFit
  PROVE  /\ HeuristicIsConsistent /\ SumIsNearOptimal /\ PathIsReal
         /\ AC = "any" \/ RP = "yes" => ClosedIsFinal
<1>1. CASE NotBuilt
  <2>1. calls = 0 /\ pc = "idle" /\ sol.s_node = Null
    BY <1>1 DEF NotBuilt, Unused, EmptySolution
  <2> QED
    BY <2>1 DEF HeuristicIsConsistent, SumIsNearOptimal, PathIsReal, ClosedIsFinal, Found
<1>2. CASE IsBuilt
  <2>1. HeuristicIsConsistent
    <3> SUFFICES ASSUME calls > 0
                 PROVE  pi.target \in ConsistentTargets[map]
      BY DEF HeuristicIsConsistent
    <3>1. <<pi.start, pi.target>> \in Queries
      BY <1>2 DEF IsBuilt, ExactInv, ConsistentInv, OrderInv, QueryAsked
    <3>2. pi.target \in Targets
      BY <3>1 DEF Targets
    <3> QED
      BY <1>2, <3>2, MapIsConsistent DEF IsBuilt, TablesFit
  <2>2. SumIsNearOptimal
    BY <1>2, SumNearOptimal DEF IsBuilt, ExactInv, TablesFit
  <2>3. PathIsReal
    BY <1>2, PathReal DEF IsBuilt, ExactInv, ConsistentInv
  <2>4. AC = "any" \/ RP = "yes" => ClosedIsFinal
    BY <1>2, ClosedFinal DEF IsBuilt, ExactInv, TablesFit
  <2> QED
    BY <2>1, <2>2, <2>3, <2>4
<1> QED
  BY <1>1, <1>2 DEF EngineInv

\* When a node is expanded, the bound of the search is no lower than before.
LEMMA BoundIsKept ==
  ASSUME EngineInv, WithinTables, [ProgramNext]_ProgramVars, "convert" \in IdOps
  PROVE  [pc = "loop" /\ pc' = "succ" /\ sol.lb # CostMax /\ Consistent
            => sol.lb <= sol'.lb]_vars
<1> SUFFICES ASSUME pc = "loop", pc' = "succ", sol.lb # CostMax, Consistent
             PROVE  sol.lb <= sol'.lb
  OBVIOUS
<1>1. stage = "run"
  <2>1. ProgramNext
    BY DEF ProgramVars, vars
  <2>2. ~NotBuilt
    BY DEF NotBuilt, Unused
  <2> QED
    BY <2>1, <2>2
    DEF EngineInv, ProgramNext, ParseArguments, ReadExperiment, LocateMap, BuildGrid,
        BuildTerrain, BuildNothing, BeginExperiment, Search, PrintRow, AllDone, Running
<1> QED
  BY <1>1, RunIsStep, BoundStep DEF EngineInv, IsBuilt, ExactInv, ConsistentInv

-----------------------------------------------------------------------------
(* What is left of a file without its spaces.                              *)

\* One more character.
OneMore(t, c) == IF c = Newline THEN t ELSE Append(t, c)

SolidStep(u, s, n) == IF n = 0 THEN <<>> ELSE OneMore(u[n - 1], s[n])

\* The solid characters of s up to each place.
IsSolidUpTo(u, s, l) == u = [n \in 0 .. l |-> SolidStep(u, s, n)]

LEMMA SolidExists ==
  ASSUME NEW s, NEW l \in Nat
  PROVE  \E u : IsSolidUpTo(u, s, l)
<1> DEFINE Has == {k \in Nat : \E u : IsSolidUpTo(u, s, k - 1)}
<1>1. 1 \in Has
  <2> DEFINE u == [n \in 0 .. 0 |-> <<>>]
  <2>1. \A n \in 0 .. 0 : SolidStep(u, s, n) = <<>>
    BY DEF SolidStep
  <2>2. u = [n \in 0 .. 0 |-> SolidStep(u, s, n)]
    BY <2>1
  <2> HIDE DEF u
  <2>3. IsSolidUpTo(u, s, 1 - 1)
    BY <2>2 DEF IsSolidUpTo
  <2> QED
    BY <2>3
<1>2. ASSUME NEW k \in 1 .. (l + 1) - 1, k \in Has
      PROVE  k + 1 \in Has
  <2>1. PICK u : IsSolidUpTo(u, s, k - 1)
    BY <1>2
  <2> DEFINE v == [n \in 0 .. k |-> IF n = k THEN SolidStep(u, s, k) ELSE u[n]]
  <2>2. \A n \in 0 .. k - 1 : u[n] = SolidStep(u, s, n)
    BY <2>1, Zenon DEF IsSolidUpTo
  <2>3. /\ v = [n \in 0 .. k |-> v[n]] /\ v[k] = SolidStep(u, s, k)
        /\ \A n \in 0 .. k - 1 : v[n] = u[n]
    OBVIOUS
  <2> HIDE DEF v
  <2>4. ASSUME NEW n \in 0 .. k
        PROVE  v[n] = SolidStep(v, s, n)
    <3>1. n # 0 => v[n - 1] = u[n - 1]
      <4>1. n # 0 => n - 1 \in 0 .. k - 1
        OBVIOUS
      <4> QED
        BY <2>3, <4>1
    <3>2. SolidStep(v, s, n) = SolidStep(u, s, n)
      BY <3>1 DEF SolidStep
    <3>3. v[n] = SolidStep(u, s, n)
      <4>1. CASE n = k
        BY <2>3, <4>1
      <4>2. CASE n # k
        <5>1. n \in 0 .. k - 1
          BY <4>2
        <5> QED
          BY <2>2, <2>3, <5>1
      <4> QED
        BY <4>1, <4>2
    <3> QED
      BY <3>2, <3>3
  <2>5. IsSolidUpTo(v, s, k)
    BY <2>3, <2>4, Zenon DEF IsSolidUpTo
  <2>6. (k + 1) - 1 = k /\ k + 1 \in Nat
    OBVIOUS
  <2> QED
    BY <2>5, <2>6
<1> HIDE DEF Has
<1>3. 1 .. (l + 1) \subseteq Has
  BY <1>1, <1>2, UpToLast
<1>4. l + 1 \in Has /\ (l + 1) - 1 = l
  BY <1>3
<1> QED
  BY <1>4 DEF Has

\* The function that Solid is computed by.
LEMMA SolidIs ==
  ASSUME NEW s, Len(s) \in Nat
  PROVE  \E u : IsSolidUpTo(u, s, Len(s)) /\ Solid(s) = u[Len(s)]
<1> DEFINE l == Len(s)
           u == CHOOSE t : IsSolidUpTo(t, s, l)
<1>1. IsSolidUpTo(u, s, l)
  <2>1. \E t : IsSolidUpTo(t, s, l)
    BY SolidExists
  <2> QED
    BY <2>1, Zenon
<1>2. Solid(s) = u[l]
  BY Zenon DEF Solid, IsSolidUpTo, SolidStep, OneMore
<1> QED
  BY <1>1, <1>2

LEMMA SolidSteps ==
  ASSUME NEW S, NEW s \in Seq(S), NEW u, IsSolidUpTo(u, s, Len(s))
  PROVE  /\ u[0] = <<>>
         /\ \A n \in 1 .. Len(s) : u[n] = OneMore(u[n - 1], s[n])
         /\ \A n \in 0 .. Len(s) : u[n] \in Seq(S)
<1> DEFINE l == Len(s)
<1>1. l \in Nat
  OBVIOUS
<1>2. \A n \in 0 .. l : u[n] = SolidStep(u, s, n)
  BY Zenon DEF IsSolidUpTo
<1>3. u[0] = <<>>
  <2>1. 0 \in 0 .. l
    BY <1>1
  <2>2. u[0] = SolidStep(u, s, 0)
    BY <1>2, <2>1, Zenon
  <2> QED
    BY <2>2 DEF SolidStep
<1>4. ASSUME NEW n \in 1 .. l
      PROVE  u[n] = OneMore(u[n - 1], s[n])
  <2>1. n \in 0 .. l /\ n # 0
    BY <1>1
  <2>2. u[n] = SolidStep(u, s, n)
    BY <1>2, <2>1, Zenon
  <2> QED
    BY <2>1, <2>2 DEF SolidStep
<1> DEFINE Has == {k \in Nat : u[k - 1] \in Seq(S)}
<1>5. 1 \in Has
  <2>1. <<>> \in Seq(S) /\ 1 - 1 = 0
    OBVIOUS
  <2> QED
    BY <1>3, <2>1
<1>6. ASSUME NEW k \in 1 .. (l + 1) - 1, k \in Has
      PROVE  k + 1 \in Has
  <2>1. k \in 1 .. l /\ (k + 1) - 1 = k /\ k + 1 \in Nat
    BY <1>1
  <2>2. u[k - 1] \in Seq(S) /\ s[k] \in S
    BY <1>6, <2>1
  <2>3. u[k] \in Seq(S)
    <3>1. u[k] = OneMore(u[k - 1], s[k])
      BY <1>4, <2>1
    <3> DEFINE p == u[k - 1]
               c == s[k]
    <3>2. p \in Seq(S) /\ c \in S
      BY <2>2
    <3> HIDE DEF p, c
    <3>3. Append(p, c) \in Seq(S)
      BY <3>2
    <3>4. OneMore(p, c) \in Seq(S)
      BY <3>2, <3>3 DEF OneMore
    <3> QED
      BY <3>1, <3>4 DEF p, c
  <2> QED
    BY <2>1, <2>3
<1>7. 1 .. (l + 1) \subseteq Has
  <2> HIDE DEF Has
  <2>1. l + 1 \in Nat
    BY <1>1
  <2> QED
    BY <1>5, <1>6, <2>1, UpToLast
<1>8. ASSUME NEW n \in 0 .. l
      PROVE  u[n] \in Seq(S)
  <2>1. n + 1 \in 1 .. (l + 1) /\ (n + 1) - 1 = n
    BY <1>1
  <2>2. n + 1 \in Has
    BY <1>7, <2>1
  <2> QED
    BY <2>1, <2>2
<1> QED
  BY <1>3, <1>4, <1>8

LEMMA SolidType ==
  ASSUME NEW S, NEW s \in Seq(S)
  PROVE  Solid(s) \in Seq(S)
<1>1. Len(s) \in Nat /\ Len(s) \in 0 .. Len(s)
  OBVIOUS
<1>2. PICK u : IsSolidUpTo(u, s, Len(s)) /\ Solid(s) = u[Len(s)]
  BY <1>1, SolidIs
<1> QED
  BY <1>1, <1>2, SolidSteps

\* A file in two parts.
LEMMA SolidParts ==
  ASSUME NEW S, NEW s \in Seq(S), NEW n \in 0 .. Len(s)
  PROVE  Solid(s) = Solid(SubSeq(s, 1, n)) \o Solid(SubSeq(s, n + 1, Len(s)))
<1> DEFINE l == Len(s)
           a == SubSeq(s, 1, n)
           b == SubSeq(s, n + 1, l)
<1>1. /\ l \in Nat /\ a \in Seq(S) /\ b \in Seq(S)
      /\ Len(a) = n /\ Len(b) = l - n
      /\ \A k \in 1 .. n : a[k] = s[k]
      /\ \A k \in 1 .. l - n : b[k] = s[n + k]
  OBVIOUS
<1> HIDE DEF a, b
<1>2. PICK u : IsSolidUpTo(u, s, l) /\ Solid(s) = u[l]
  BY <1>1, SolidIs
<1>3. PICK v : IsSolidUpTo(v, a, n) /\ Solid(a) = v[n]
  BY <1>1, SolidIs
<1>4. PICK x : IsSolidUpTo(x, b, l - n) /\ Solid(b) = x[l - n]
  <2>1. l - n \in Nat
    BY <1>1
  <2> QED
    BY <1>1, <2>1, SolidIs
<1>5. /\ u[0] = <<>> /\ \A k \in 1 .. l : u[k] = OneMore(u[k - 1], s[k])
      /\ \A k \in 0 .. l : u[k] \in Seq(S)
  BY <1>2, SolidSteps
<1>6. /\ v[0] = <<>> /\ \A k \in 1 .. n : v[k] = OneMore(v[k - 1], a[k])
      /\ \A k \in 0 .. n : v[k] \in Seq(S)
  <2>1. IsSolidUpTo(v, a, Len(a)) /\ a \in Seq(S)
    BY <1>1, <1>3
  <2>2. /\ v[0] = <<>> /\ \A k \in 1 .. Len(a) : v[k] = OneMore(v[k - 1], a[k])
        /\ \A k \in 0 .. Len(a) : v[k] \in Seq(S)
    BY <2>1, SolidSteps
  <2> QED
    BY <1>1, <2>2
<1>7. /\ x[0] = <<>> /\ \A k \in 1 .. l - n : x[k] = OneMore(x[k - 1], b[k])
      /\ \A k \in 0 .. l - n : x[k] \in Seq(S)
  <2>1. IsSolidUpTo(x, b, Len(b))
    BY <1>1, <1>4
  <2> HIDE DEF l
  <2> QED
    BY <1>1, <2>1, SolidSteps
<1> DEFINE Same == {k \in Nat : u[k - 1] = v[k - 1]}
<1>8. n + 1 \in Same
  <2>1. 1 \in Same
    <3>1. 1 - 1 = 0
      OBVIOUS
    <3> QED
      BY <1>5, <1>6, <3>1
  <2>2. ASSUME NEW k \in 1 .. (n + 1) - 1, k \in Same
        PROVE  k + 1 \in Same
    <3>1. k \in 1 .. n /\ k \in 1 .. l /\ (k + 1) - 1 = k /\ k + 1 \in Nat
      BY <1>1
    <3>2. u[k] = v[k]
      BY <1>1, <1>5, <1>6, <2>2, <3>1
    <3> QED
      BY <3>1, <3>2
  <2> HIDE DEF Same
  <2>3. n + 1 \in Nat /\ n + 1 \in 1 .. (n + 1)
    BY <1>1
  <2>4. 1 .. (n + 1) \subseteq Same
    BY <2>1, <2>2, <2>3, UpToLast
  <2> QED
    BY <2>3, <2>4
<1>9. u[n] = v[n]
  <2>1. (n + 1) - 1 = n
    OBVIOUS
  <2> QED
    BY <1>8, <2>1
<1> HIDE DEF Same
<1> DEFINE On == {k \in Nat : u[n + (k - 1)] = v[n] \o x[k - 1]}
           r == l - n
<1>10. r + 1 \in On
  <2>1. 1 \in On
    <3>1. 1 - 1 = 0 /\ n + (1 - 1) = n
      BY <1>1
    <3>2. v[n] \o <<>> = v[n]
      BY <1>6
    <3> QED
      BY <1>7, <1>9, <3>1, <3>2
  <2>2. ASSUME NEW k \in 1 .. (r + 1) - 1, k \in On
        PROVE  k + 1 \in On
    <3>1. /\ k \in 1 .. r /\ n + k \in 1 .. l /\ (k + 1) - 1 = k /\ k + 1 \in Nat
          /\ n + ((k + 1) - 1) = n + k /\ (n + k) - 1 = n + (k - 1) /\ k - 1 \in 0 .. r
      BY <1>1
    <3>2. u[n + (k - 1)] = v[n] \o x[k - 1]
      BY <2>2
    <3>3. u[n + k] = OneMore(v[n] \o x[k - 1], s[n + k])
      BY <1>5, <3>1, <3>2
    <3>4. x[k] = OneMore(x[k - 1], s[n + k])
      BY <1>1, <1>7, <3>1
    <3>5. v[n] \in Seq(S) /\ x[k - 1] \in Seq(S) /\ s[n + k] \in S
      BY <1>1, <1>6, <1>7, <3>1
    <3>6. ASSUME NEW p \in Seq(S), NEW q \in Seq(S), NEW c \in S
          PROVE  OneMore(p \o q, c) = p \o OneMore(q, c)
      <4>1. p \o q \in Seq(S) /\ <<c>> \in Seq(S)
        BY ConcatProperties
      <4>2. Append(p \o q, c) = (p \o q) \o <<c>> /\ Append(q, c) = q \o <<c>>
        BY <4>1, AppendIsConcat
      <4>3. (p \o q) \o <<c>> = p \o (q \o <<c>>)
        BY <4>1, ConcatAssociative, SMTT(30)
      <4> QED
        BY <4>2, <4>3, Zenon DEF OneMore
    <3>7. u[n + k] = v[n] \o x[k]
      <4> DEFINE p == v[n]
                 q == x[k - 1]
                 c == s[n + k]
      <4>1. p \in Seq(S) /\ q \in Seq(S) /\ c \in S
        BY <3>5
      <4>2. u[n + k] = OneMore(p \o q, c) /\ x[k] = OneMore(q, c)
        BY <3>3, <3>4
      <4> HIDE DEF p, q, c
      <4>3. OneMore(p \o q, c) = p \o OneMore(q, c)
        BY <3>6, <4>1
      <4>4. u[n + k] = p \o x[k]
        BY <4>2, <4>3, Zenon
      <4> QED
        BY <4>4 DEF p
    <3> QED
      BY <3>1, <3>7
  <2>3. r + 1 \in Nat /\ r + 1 \in 1 .. (r + 1)
    BY <1>1
  <2> HIDE DEF On, r
  <2>4. 1 .. (r + 1) \subseteq On
    BY <2>1, <2>2, <2>3, UpToLast
  <2> QED
    BY <2>3, <2>4
<1>11. u[l] = v[n] \o x[r]
  <2>1. (r + 1) - 1 = r /\ n + ((r + 1) - 1) = l
    BY <1>1
  <2> HIDE DEF r, l
  <2> QED
    BY <1>10, <2>1
<1> QED
  BY <1>2, <1>3, <1>4, <1>11 DEF a, b

LEMMA SolidPlain ==
  ASSUME NEW S, NEW s \in Seq(S), \A k \in 1 .. Len(s) : s[k] # Newline
  PROVE  Solid(s) = s
<1> DEFINE l == Len(s)
<1>1. l \in Nat /\ l + 1 \in Nat /\ l + 1 \in 1 .. (l + 1) /\ (l + 1) - 1 = l
  OBVIOUS
<1>2. PICK u : IsSolidUpTo(u, s, l) /\ Solid(s) = u[l]
  BY <1>1, SolidIs
<1>3. u[0] = <<>> /\ \A k \in 1 .. l : u[k] = OneMore(u[k - 1], s[k])
  BY <1>2, SolidSteps
<1> DEFINE Prefix(k) == SubSeq(s, 1, k)
           Has == {k \in Nat : u[k - 1] = Prefix(k - 1)}
<1>4. Prefix(0) = <<>> /\ Prefix(l) = s
  OBVIOUS
<1>5. ASSUME NEW k \in 1 .. l
      PROVE  Append(Prefix(k - 1), s[k]) = Prefix(k)
  OBVIOUS
<1> HIDE DEF Prefix
<1>6. 1 \in Has
  <2>1. 1 - 1 = 0
    OBVIOUS
  <2> QED
    BY <1>3, <1>4, <2>1
<1>7. ASSUME NEW k \in 1 .. (l + 1) - 1, k \in Has
      PROVE  k + 1 \in Has
  <2>1. k \in 1 .. l /\ (k + 1) - 1 = k /\ k + 1 \in Nat
    BY <1>1
  <2>2. u[k] = Append(u[k - 1], s[k])
    BY <1>3, <2>1 DEF OneMore
  <2>3. u[k - 1] = Prefix(k - 1)
    BY <1>7
  <2>4. u[k] = Prefix(k)
    BY <1>5, <2>1, <2>2, <2>3
  <2> QED
    BY <2>1, <2>4
<1>8. l + 1 \in Has
  <2> HIDE DEF Has
  <2> QED
    BY <1>1, <1>6, <1>7, UpToLast
<1> QED
  BY <1>1, <1>2, <1>4, <1>8

LEMMA SolidBlank ==
  ASSUME NEW S, NEW s \in Seq(S), \A k \in 1 .. Len(s) : s[k] = Newline
  PROVE  Solid(s) = <<>>
<1> DEFINE l == Len(s)
<1>1. l \in Nat /\ l + 1 \in Nat /\ l + 1 \in 1 .. (l + 1) /\ (l + 1) - 1 = l
  OBVIOUS
<1>2. PICK u : IsSolidUpTo(u, s, l) /\ Solid(s) = u[l]
  BY <1>1, SolidIs
<1>3. u[0] = <<>> /\ \A k \in 1 .. l : u[k] = OneMore(u[k - 1], s[k])
  BY <1>2, SolidSteps
<1> DEFINE Has == {k \in Nat : u[k - 1] = <<>>}
<1>4. 1 \in Has
  <2>1. 1 - 1 = 0
    OBVIOUS
  <2> QED
    BY <1>3, <2>1
<1>5. ASSUME NEW k \in 1 .. (l + 1) - 1, k \in Has
      PROVE  k + 1 \in Has
  <2>1. k \in 1 .. l /\ (k + 1) - 1 = k /\ k + 1 \in Nat
    BY <1>1
  <2>2. u[k] = u[k - 1]
    BY <1>3, <2>1 DEF OneMore
  <2> QED
    BY <1>5, <2>1, <2>2
<1>6. l + 1 \in Has
  <2> HIDE DEF Has
  <2> QED
    BY <1>1, <1>4, <1>5, UpToLast
<1> QED
  BY <1>1, <1>2, <1>6

LEMMA SolidOfNone == Solid(<<>>) = <<>>
<1> DEFINE s == <<>>
<1>1. s \in Seq(Nat) /\ Len(s) = 0
  OBVIOUS
<1> HIDE DEF s
<1>2. \A k \in 1 .. Len(s) : s[k] # Newline
  BY <1>1
<1>3. Solid(s) = s
  BY <1>1, <1>2, SolidPlain
<1> QED
  BY <1>3 DEF s

LEMMA Skipped ==
  ASSUME NEW S, NEW s \in Seq(S)
  PROVE  /\ SkipSpaces(s) \in Seq(S)
         /\ Solid(SkipSpaces(s)) = Solid(s)
<1> DEFINE solid == {k \in DOMAIN s : s[k] # Newline}
<1>1. Len(s) \in Nat /\ DOMAIN s = 1 .. Len(s)
  OBVIOUS
<1>2. CASE solid = {}
  <2>1. SkipSpaces(s) = <<>> /\ <<>> \in Seq(S)
    BY <1>2 DEF SkipSpaces
  <2>2. Solid(s) = <<>>
    BY <1>1, <1>2, SolidBlank
  <2> QED
    BY <2>1, <2>2, SolidOfNone
<1>3. CASE solid # {}
  <2> DEFINE n == Min(solid)
  <2>1. n \in solid /\ \A k \in solid : n <= k
    <3>1. solid \subseteq Nat
      BY <1>1
    <3> HIDE DEF solid
    <3>2. \E x \in solid : \A y \in solid : x <= y
      BY <1>3, <3>1, SmallestOf
    <3> QED
      BY <3>2 DEF Min
  <2>2. SkipSpaces(s) = SubSeq(s, n, Len(s))
    BY <1>3 DEF SkipSpaces
  <2> HIDE DEF n
  <2> DEFINE a == SubSeq(s, 1, n - 1)
             b == SubSeq(s, n, Len(s))
  <2>3. n \in 1 .. Len(s) /\ n - 1 \in 0 .. Len(s) /\ (n - 1) + 1 = n
    BY <1>1, <2>1
  <2>4. Solid(s) = Solid(a) \o Solid(b)
    BY <2>3, SolidParts
  <2>5. /\ a \in Seq(S) /\ b \in Seq(S) /\ Len(a) = n - 1
        /\ \A k \in 1 .. n - 1 : a[k] = s[k]
    BY <1>1, <2>3
  <2>6. \A k \in 1 .. n - 1 : s[k] = Newline
    BY <1>1, <2>1, <2>3
  <2> HIDE DEF a, b
  <2>7. Solid(a) = <<>>
    BY <2>5, <2>6, SolidBlank
  <2>8. Solid(b) \in Seq(S)
    BY <2>5, SolidType
  <2>9. Solid(s) = Solid(b)
    BY <2>4, <2>7, <2>8, ConcatEmptySeq
  <2> QED
    BY <2>2, <2>5, <2>9 DEF b
<1> QED
  BY <1>2, <1>3

\* What a row that has no spaces takes from the file.
LEMMA RowIsSolid ==
  ASSUME NEW S, NEW s \in Seq(S), NEW n \in Nat,
         \A k \in 1 .. Len(ReadRow(s, n)) : ReadRow(s, n)[k] # Newline
  PROVE  /\ ReadRow(s, n) \in Seq(S) /\ RestOf(s, n) \in Seq(S)
         /\ Len(ReadRow(s, n)) <= n
         /\ Solid(s) = ReadRow(s, n) \o Solid(RestOf(s, n))
         /\ Len(ReadRow(s, n)) < n => Solid(RestOf(s, n)) = <<>>
<1> DEFINE t == SkipSpaces(s)
           l == Len(t)
           c == IF n < l THEN n ELSE l
           a == SubSeq(t, 1, c)
           b == SubSeq(t, c + 1, l)
<1>1. t \in Seq(S) /\ Solid(t) = Solid(s)
  BY Skipped
<1> HIDE DEF t
<1>2. l \in Nat /\ c \in 0 .. l /\ c <= n /\ (c < n => c = l)
  BY <1>1
<1>3. ReadRow(s, n) = a
  BY DEF ReadRow, UpTo, t
<1>4. RestOf(s, n) = b
  <2>1. RestOf(s, n) = SubSeq(t, n + 1, l)
    BY DEF RestOf, t
  <2>2. CASE c = n
    BY <2>1, <2>2
  <2>3. CASE c # n
    <3>1. c = l /\ l < n
      BY <1>2, <2>3
    <3>2. SubSeq(t, n + 1, l) = <<>> /\ SubSeq(t, l + 1, l) = <<>>
      BY <1>1, <1>2, <3>1
    <3> QED
      BY <2>1, <3>1, <3>2
  <2> QED
    BY <2>2, <2>3
<1>5. /\ a \in Seq(S) /\ b \in Seq(S) /\ Len(a) = c /\ (c = l => b = <<>>)
  BY <1>1, <1>2
<1>6. Solid(t) = Solid(a) \o Solid(b)
  BY <1>1, <1>2, SolidParts
<1> HIDE DEF a, b
<1>7. Solid(a) = a
  BY <1>3, <1>5, SolidPlain
<1>8. c < n => Solid(b) = <<>>
  BY <1>2, <1>5, SolidOfNone
<1> QED
  BY <1>1, <1>2, <1>3, <1>4, <1>5, <1>6, <1>7, <1>8

-----------------------------------------------------------------------------
(* The rows that gridmap reads.                                            *)

RowStep(r, first, w, n) == IF n = 0 THEN first ELSE NextRow(r[n - 1], w)

IsRowsUpTo(r, first, w, l) == r = [n \in 0 .. l |-> RowStep(r, first, w, n)]

LEMMA RowsExist ==
  ASSUME NEW first, NEW w, NEW l \in Nat
  PROVE  \E r : IsRowsUpTo(r, first, w, l)
<1> DEFINE Has == {k \in Nat : \E r : IsRowsUpTo(r, first, w, k - 1)}
<1>1. 1 \in Has
  <2> DEFINE r == [n \in 0 .. 0 |-> first]
  <2>1. \A n \in 0 .. 0 : RowStep(r, first, w, n) = first
    BY DEF RowStep
  <2>2. r = [n \in 0 .. 0 |-> RowStep(r, first, w, n)]
    BY <2>1
  <2> HIDE DEF r
  <2>3. IsRowsUpTo(r, first, w, 1 - 1)
    BY <2>2 DEF IsRowsUpTo
  <2> QED
    BY <2>3
<1>2. ASSUME NEW k \in 1 .. (l + 1) - 1, k \in Has
      PROVE  k + 1 \in Has
  <2>1. PICK r : IsRowsUpTo(r, first, w, k - 1)
    BY <1>2
  <2> DEFINE v == [n \in 0 .. k |-> IF n = k THEN RowStep(r, first, w, k) ELSE r[n]]
  <2>2. \A n \in 0 .. k - 1 : r[n] = RowStep(r, first, w, n)
    BY <2>1, Zenon DEF IsRowsUpTo
  <2>3. /\ v = [n \in 0 .. k |-> v[n]] /\ v[k] = RowStep(r, first, w, k)
        /\ \A n \in 0 .. k - 1 : v[n] = r[n]
    OBVIOUS
  <2> HIDE DEF v
  <2>4. ASSUME NEW n \in 0 .. k
        PROVE  v[n] = RowStep(v, first, w, n)
    <3>1. n # 0 => v[n - 1] = r[n - 1]
      <4>1. n # 0 => n - 1 \in 0 .. k - 1
        OBVIOUS
      <4> QED
        BY <2>3, <4>1
    <3>2. RowStep(v, first, w, n) = RowStep(r, first, w, n)
      BY <3>1, Zenon DEF RowStep
    <3>3. v[n] = RowStep(r, first, w, n)
      <4>1. CASE n = k
        BY <2>3, <4>1
      <4>2. CASE n # k
        <5>1. n \in 0 .. k - 1
          BY <4>2
        <5> QED
          BY <2>2, <2>3, <5>1
      <4> QED
        BY <4>1, <4>2
    <3> QED
      BY <3>2, <3>3
  <2>5. IsRowsUpTo(v, first, w, k)
    BY <2>3, <2>4, Zenon DEF IsRowsUpTo
  <2>6. (k + 1) - 1 = k /\ k + 1 \in Nat
    OBVIOUS
  <2> QED
    BY <2>5, <2>6
<1> HIDE DEF Has
<1>3. 1 .. (l + 1) \subseteq Has
  BY <1>1, <1>2, UpToLast
<1>4. l + 1 \in Has /\ (l + 1) - 1 = l
  BY <1>3
<1> QED
  BY <1>4 DEF Has

Unwritten(body, w, junk) == [buffer |-> [k \in 1 .. w |-> junk], rest |-> body]

\* The rows r from the unwritten buffer on.
RowsFrom(r, body, w, h, junk) ==
  /\ r[0] = Unwritten(body, w, junk)
  /\ \A y \in 1 .. h : r[y] = NextRow(r[y - 1], w)

LEMMA BuffersAre ==
  ASSUME NEW body, NEW w, NEW h \in Nat, NEW junk
  PROVE  \E r : /\ RowsFrom(r, body, w, h, junk)
                /\ \A y \in 1 .. h : Buffers(body, w, h, junk)[y] = r[y].buffer
<1> DEFINE first == Unwritten(body, w, junk)
           r == CHOOSE t : IsRowsUpTo(t, first, w, h)
<1>1. IsRowsUpTo(r, first, w, h)
  <2>1. \E t : IsRowsUpTo(t, first, w, h)
    <3> HIDE DEF first
    <3> QED
      BY RowsExist
  <2> QED
    BY <2>1, Zenon
<1>2. Buffers(body, w, h, junk) = [y \in 1 .. h |-> r[y].buffer]
  BY Zenon DEF Buffers, IsRowsUpTo, RowStep, Unwritten
<1> HIDE DEF r, first
<1>3. \A n \in 0 .. h : r[n] = RowStep(r, first, w, n)
  BY <1>1, Zenon DEF IsRowsUpTo
<1>4. r[0] = first
  <2>1. 0 \in 0 .. h
    OBVIOUS
  <2>2. r[0] = RowStep(r, first, w, 0)
    BY <1>3, <2>1, Zenon
  <2> QED
    BY <2>2 DEF RowStep
<1>5. ASSUME NEW y \in 1 .. h
      PROVE  r[y] = NextRow(r[y - 1], w)
  <2>1. y \in 0 .. h /\ y # 0
    OBVIOUS
  <2>2. r[y] = RowStep(r, first, w, y)
    BY <1>3, <2>1, Zenon
  <2> QED
    BY <2>1, <2>2 DEF RowStep
<1> QED
  BY <1>2, <1>4, <1>5 DEF first, RowsFrom

\* How far into the tiles y rows of the map reach, and what is left of the file.
Reaches(x, tiles, a, c) ==
  /\ c \in 0 .. Len(tiles) /\ (c = a \/ (c = Len(tiles) /\ c < a))
  /\ x.rest \in Seq(STRING)
  /\ Len(Solid(x.rest)) = Len(tiles) - c
  /\ \A k \in 1 .. Len(tiles) - c : Solid(x.rest)[k] = tiles[c + k]

LEMMA OneRow ==
  ASSUME NEW tiles, Len(tiles) \in Nat, NEW w \in Nat \ {0}, NEW a \in Nat, NEW c, NEW x,
         Reaches(x, tiles, a, c),
         \A k \in 1 .. w : NextRow(x, w).buffer[k] # Newline
  PROVE  /\ \E d : Reaches(NextRow(x, w), tiles, a + w, d)
         /\ \A k \in 1 .. w :
              NextRow(x, w).buffer[k] = IF a + k <= Len(tiles) THEN tiles[a + k] ELSE x.buffer[k]
<1> DEFINE row == ReadRow(x.rest, w)
           rest == RestOf(x.rest, w)
           n == Len(row)
           l == Len(tiles)
           s == x.rest
<1>1. /\ NextRow(x, w).rest = rest
      /\ \A k \in 1 .. w : NextRow(x, w).buffer[k] = IF k <= n THEN row[k] ELSE x.buffer[k]
  BY DEF NextRow
<1>2. s \in Seq(STRING)
  BY DEF Reaches
<1>3. n \in Nat /\ n <= w
  <2> DEFINE t == SkipSpaces(s)
             b == IF w < Len(t) THEN w ELSE Len(t)
  <2>1. t \in Seq(STRING)
    BY <1>2, Skipped
  <2>2. row = SubSeq(t, 1, b)
    BY DEF ReadRow, UpTo
  <2> HIDE DEF t, row
  <2>3. Len(t) \in Nat
    BY <2>1
  <2>4. b \in 0 .. Len(t) /\ b <= w
    BY <2>3
  <2>5. Len(SubSeq(t, 1, b)) = b
    BY <2>1, <2>3, <2>4
  <2> QED
    BY <2>2, <2>3, <2>4, <2>5
<1>4. \A k \in 1 .. n : row[k] # Newline
  BY <1>1, <1>3
<1>5. /\ row \in Seq(STRING) /\ rest \in Seq(STRING)
      /\ Solid(s) = row \o Solid(rest)
      /\ n < w => Solid(rest) = <<>>
  BY <1>2, <1>4, RowIsSolid
<1> HIDE DEF row, rest, s, l
<1> DEFINE u == Solid(rest)
           v == Solid(s)
<1>6. u \in Seq(STRING)
  BY <1>5, SolidType
<1>7. /\ Len(v) = n + Len(u) /\ Len(u) \in Nat
      /\ \A k \in 1 .. n : v[k] = row[k]
      /\ \A k \in 1 .. Len(u) : v[n + k] = u[k]
  <2> DEFINE S == STRING
  <2>1. row \in Seq(S) /\ u \in Seq(S) /\ v = row \o u
    BY <1>5, <1>6
  <2> HIDE DEF S, u, v
  <2> QED
    BY <2>1
<1>8. /\ c \in 0 .. l /\ (c = a \/ (c = l /\ c < a))
      /\ Len(v) = l - c
      /\ \A k \in 1 .. l - c : v[k] = tiles[c + k]
  BY DEF Reaches, s, l
<1>9. n < w => Len(u) = 0
  BY <1>5
<1>10. l \in Nat
  BY DEF l
<1>11. Reaches(NextRow(x, w), tiles, a + w, c + n)
  <2> HIDE DEF v
  <2>1. Solid(NextRow(x, w).rest) = u
    BY <1>1
  <2>2. NextRow(x, w).rest \in Seq(STRING)
    BY <1>1, <1>5
  <2> HIDE DEF u
  <2>3. c + n \in 0 .. l /\ (c + n = a + w \/ (c + n = l /\ c + n < a + w))
    BY <1>3, <1>7, <1>8, <1>9, <1>10
  <2>4. Len(u) = l - (c + n)
    BY <1>3, <1>7, <1>8, <1>10
  <2>5. ASSUME NEW k \in 1 .. l - (c + n)
        PROVE  u[k] = tiles[(c + n) + k]
    <3>1. c \in Nat /\ n \in Nat /\ l \in Nat
      BY <1>3, <1>8, <1>10
    <3>2. k \in 1 .. Len(u)
      BY <2>4
    <3> HIDE DEF n
    <3>3. n + k \in 1 .. l - c /\ c + (n + k) = (c + n) + k
      BY <3>1
    <3>4. u[k] = v[n + k] /\ v[n + k] = tiles[c + (n + k)]
      BY <1>7, <1>8, <3>2, <3>3
    <3> QED
      BY <3>3, <3>4
  <2> QED
    BY <2>1, <2>2, <2>3, <2>4, <2>5 DEF Reaches, l
<1>12. ASSUME NEW k \in 1 .. w
       PROVE  NextRow(x, w).buffer[k] = IF a + k <= l THEN tiles[a + k] ELSE x.buffer[k]
  <2> HIDE DEF u, v
  <2>1. k <= n <=> a + k <= l
    BY <1>3, <1>7, <1>8, <1>9, <1>10
  <2>2. k <= n => row[k] = tiles[a + k]
    <3>1. k <= n => c = a /\ k \in 1 .. l - c /\ k \in 1 .. n
      BY <1>3, <1>7, <1>8, <1>9, <1>10
    <3> QED
      BY <1>7, <1>8, <3>1
  <2> QED
    BY <1>1, <2>1, <2>2
<1> QED
  BY <1>11, <1>12 DEF l

\* The buffers hold tiles; where there are none, what they held before.
RowsShow(r, tiles, w, h) ==
  \A y \in 1 .. h : \A k \in 1 .. w :
    r[y].buffer[k] = IF (y - 1) * w + k <= Len(tiles)
                     THEN tiles[(y - 1) * w + k] ELSE r[y - 1].buffer[k]

LEMMA RowsAreTiles ==
  ASSUME NEW body \in Seq(STRING), NEW w \in Nat \ {0}, NEW h \in Nat, NEW junk, NEW r,
         RowsFrom(r, body, w, h, junk),
         \A y \in 1 .. h : \A k \in 1 .. w : r[y].buffer[k] # Newline
  PROVE  RowsShow(r, Solid(body), w, h)
<1> DEFINE tiles == Solid(body)
           Has == {y \in Nat : \E c : Reaches(r[y - 1], tiles, (y - 1) * w, c)}
<1>1. tiles \in Seq(STRING) /\ Len(tiles) \in Nat
  <2>1. tiles \in Seq(STRING)
    BY SolidType
  <2> QED
    BY <2>1
<1> HIDE DEF tiles
<1>2. 1 \in Has
  <2>1. r[0].rest = body
    BY DEF RowsFrom, Unwritten
  <2>2. Reaches(r[0], tiles, 0, 0)
    BY <1>1, <2>1 DEF Reaches, tiles
  <2>3. 1 - 1 = 0 /\ 0 * w = 0
    OBVIOUS
  <2> QED
    BY <2>2, <2>3
<1>3. ASSUME NEW y \in 1 .. h, y \in Has
      PROVE  /\ y + 1 \in Has
             /\ \A k \in 1 .. w :
                  r[y].buffer[k] = IF (y - 1) * w + k <= Len(tiles)
                                   THEN tiles[(y - 1) * w + k] ELSE r[y - 1].buffer[k]
  <2> DEFINE a == (y - 1) * w
             x == r[y - 1]
  <2>1. a \in Nat /\ ((y + 1) - 1) * w = a + w /\ (y + 1) - 1 = y /\ y + 1 \in Nat
    OBVIOUS
  <2>2. PICK c : Reaches(x, tiles, a, c)
    BY <1>3
  <2>3. r[y] = NextRow(x, w)
    BY DEF RowsFrom
  <2>4. \A k \in 1 .. w : NextRow(x, w).buffer[k] # Newline
    BY <2>3
  <2> HIDE DEF a, x
  <2>5. /\ \E d : Reaches(NextRow(x, w), tiles, a + w, d)
        /\ \A k \in 1 .. w :
             NextRow(x, w).buffer[k] = IF a + k <= Len(tiles) THEN tiles[a + k] ELSE x.buffer[k]
    BY <1>1, <2>1, <2>2, <2>4, OneRow, SMTT(30)
  <2>6. y + 1 \in Has
    BY <2>1, <2>3, <2>5
  <2> QED
    BY <2>3, <2>5, <2>6 DEF a, x
<1>4. 1 .. h \subseteq Has
  <2>1. ASSUME NEW y \in 1 .. h - 1, y \in Has
        PROVE  y + 1 \in Has
    <3>1. y \in 1 .. h
      OBVIOUS
    <3> HIDE DEF Has
    <3> QED
      BY <1>3, <2>1, <3>1
  <2> HIDE DEF Has
  <2> QED
    BY <1>2, <2>1, UpToLast
<1> QED
  BY <1>3, <1>4 DEF tiles, RowsShow

\* The cell number k that gridmap reads is tile number k of the file, if there is one.
LEMMA CellsAreTiles ==
  ASSUME NEW f \in MapFile, NEW junk, ReadGrid(f, junk).ok,
         NEW x \in 0 .. ReadGrid(f, junk).width - 1, NEW y \in 0 .. ReadGrid(f, junk).height - 1
  PROVE  LET r == ReadGrid(f, junk)
             w == r.width
         IN  /\ y * w + x + 1 \in DOMAIN r.cells
             /\ IF y * w + x + 1 <= Len(Tiles(f))
                THEN r.cells[y * w + x + 1] = Tiles(f)[y * w + x + 1]
                ELSE y > 0 => r.cells[y * w + x + 1] = r.cells[(y - 1) * w + x + 1]
<1> DEFINE r == ReadGrid(f, junk)
           w == r.width
           h == r.height
           b == Buffers(f.body, w, h, junk)
<1>1. w \in Nat \ {0} /\ h \in Nat \ {0}
  <2>1. /\ ReadHeader(f.head) /\ GridType(f.head) = "OCTILE"
        /\ w = Numeral[f.head[6]] /\ h = Numeral[f.head[4]]
    BY GridRead
  <2> HIDE DEF w, h
  <2> QED
    BY <2>1, GridHeader
<1> DEFINE Read(u, v) ==
             [k \in 1 .. u * v |->
                Buffers(f.body, u, v, junk)[((k - 1) \div u) + 1][((k - 1) % u) + 1]]
<1>2. /\ r.cells = [k \in 1 .. w * h |-> b[((k - 1) \div w) + 1][((k - 1) % w) + 1]]
      /\ \A k \in DOMAIN r.cells : r.cells[k] \in Blocker \cup Traversable
  <2> DEFINE u == Numeral[f.head[6]]
             v == Numeral[f.head[4]]
  <2>1. /\ r.cells = Read(u, v) /\ w = u /\ h = v
        /\ \A k \in DOMAIN r.cells : r.cells[k] \in Blocker \cup Traversable
    BY GridRead
  <2> HIDE DEF Read, u, v, r
  <2>2. r.cells = Read(w, h)
    BY <2>1, Zenon
  <2> QED
    BY <2>1, <2>2 DEF Read
<1> HIDE DEF r, b
<1>3. x \in 0 .. w - 1 /\ y \in 0 .. h - 1
  BY DEF r
<1> HIDE DEF w, h
<1>4. ASSUME NEW p \in 0 .. w - 1, NEW q \in 0 .. h - 1
      PROVE  /\ q * w + p + 1 \in DOMAIN r.cells
             /\ r.cells[q * w + p + 1] = b[q + 1][p + 1]
  <2> DEFINE k == q * w + p
  <2>1. k \in Int /\ k + 1 \in 1 .. w * h /\ k % w = p /\ k \div w = q
    BY <1>1, NumberOf
  <2> HIDE DEF k
  <2>2. (k + 1) - 1 = k
    BY <2>1
  <2>3. k + 1 \in DOMAIN r.cells /\ r.cells[k + 1] = b[q + 1][p + 1]
    BY <1>2, <2>1, <2>2
  <2> QED
    BY <2>3 DEF k
<1>5. PICK s : /\ RowsFrom(s, f.body, w, h, junk)
               /\ \A n \in 1 .. h : b[n] = s[n].buffer
  BY <1>1, BuffersAre DEF b
<1>6. ASSUME NEW n \in 1 .. h, NEW k \in 1 .. w
      PROVE  s[n].buffer[k] # Newline
  <2>1. k - 1 \in 0 .. w - 1 /\ n - 1 \in 0 .. h - 1 /\ (k - 1) + 1 = k /\ (n - 1) + 1 = n
    BY <1>1
  <2> DEFINE g == (n - 1) * w + (k - 1) + 1
  <2>2. g \in DOMAIN r.cells /\ r.cells[g] = b[(n - 1) + 1][(k - 1) + 1]
    BY <1>4, <2>1
  <2> HIDE DEF g
  <2>3. b[n][k] \in Blocker \cup Traversable
    BY <1>2, <2>1, <2>2
  <2> QED
    BY <1>5, <2>3, NewlineAssumption
<1>7. f.body \in Seq(STRING)
  BY DEF MapFile
<1>8. RowsShow(s, Tiles(f), w, h)
  <2> DEFINE body == f.body
  <2>1. body \in Seq(STRING) /\ RowsFrom(s, body, w, h, junk) /\ Tiles(f) = Solid(body)
    BY <1>5, <1>7 DEF Tiles
  <2>2. \A n \in 1 .. h : \A k \in 1 .. w : s[n].buffer[k] # Newline
    BY <1>6
  <2>3. h \in Nat
    BY <1>1
  <2> HIDE DEF body
  <2>4. RowsShow(s, Solid(body), w, h)
    BY <1>1, <2>1, <2>2, <2>3, RowsAreTiles
  <2> QED
    BY <2>1, <2>4
<1>9. /\ y + 1 \in 1 .. h /\ x + 1 \in 1 .. w /\ (y + 1) - 1 = y
      /\ y * w + (x + 1) = y * w + x + 1
      /\ y > 0 => y - 1 \in 0 .. h - 1 /\ (y - 1) + 1 = y /\ y \in 1 .. h
  BY <1>1, <1>3
<1>10. b[y + 1][x + 1] = IF y * w + x + 1 <= Len(Tiles(f))
                         THEN Tiles(f)[y * w + x + 1] ELSE s[y].buffer[x + 1]
  BY <1>5, <1>8, <1>9 DEF RowsShow
<1>11. y > 0 => s[y].buffer[x + 1] = r.cells[(y - 1) * w + x + 1]
  BY <1>3, <1>4, <1>5, <1>9
<1> QED
  BY <1>3, <1>4, <1>10, <1>11 DEF r, w

\* The id of a point, by the program's own formulas.
LEMMA IdOfPoint ==
  ASSUME NEW w \in Nat \ {0}, NEW h \in Nat \ {0}, NEW x \in 0 .. w - 1, NEW y \in 0 .. h - 1
  PROVE  /\ Grid(w, h)!ProblemInstance(<<x, y>>, <<x, y>>)[1] = CellAt(Grid(w, h)!Width, x, y)
         /\ Terrain(w, h)!ProblemInstance(<<x, y>>, <<x, y>>)[1]
              = CellAt(Terrain(w, h)!Width, x, y)
<1> DEFINE k == y * w + x
<1>1. k \in 0 .. w * h - 1 /\ k % w = x /\ k \div w = y
  BY NumberOf
<1>2. /\ Grid(w, h)!ProblemInstance(<<x, y>>, <<x, y>>)[1] = Grid(w, h)!ToPaddedId(k)
      /\ Terrain(w, h)!ProblemInstance(<<x, y>>, <<x, y>>)[1] = Terrain(w, h)!ToPaddedId(k)
  BY DEF Grid!ProblemInstance, Grid!GetPack, Grid!ToPackId,
         Terrain!ProblemInstance, Terrain!GetPack
<1> HIDE DEF k
<1> QED
  BY <1>1, <1>2, IdOfNumber

\* Numbers below w * h with the same id are the same.
LEMMA NumberOfId ==
  ASSUME NEW w \in Nat \ {0}, NEW h \in Nat \ {0}, NEW k \in 0 .. w * h - 1,
         NEW W \in Nat \ {0}, w < W, NEW x \in 0 .. w - 1, NEW y \in 0 .. h - 1,
         CellAt(W, k % w, k \div w) = CellAt(W, x, y)
  PROVE  k = y * w + x
<1> DEFINE a == k % w
           b == k \div w
<1>1. a \in 0 .. w - 1 /\ b \in 0 .. h - 1 /\ k = b * w + a
  BY PlaceOf
<1> HIDE DEF a, b
<1>2. a \in 0 .. W - 1 /\ b \in Int /\ x \in 0 .. W - 1 /\ y \in Int
  BY <1>1
<1>3. /\ CellAt(W, a, b) % W = a /\ CellAt(W, a, b) \div W = b + 3
      /\ CellAt(W, x, y) % W = x /\ CellAt(W, x, y) \div W = y + 3
  BY <1>2, IdsAreUnique
<1>4. a = x /\ b = y
  BY <1>2, <1>3 DEF a, b
<1> QED
  BY <1>1, <1>4

\* The map is that of the file and of the arguments.
BuiltOf(a, f, m) ==
  \/ /\ a.alg \in GridAlgs
     /\ \E junk \in GarbageCells :
          /\ ReadGrid(f, junk).ok
          /\ m = MapOf(a.alg, ReadGrid(f, junk), GridCells(ReadGrid(f, junk)))
  \/ /\ a.alg = "astar_wgm" /\ a.costs # Null /\ CostsAccepted(a.costs)
     /\ GmParser(f).ok
     /\ m = MapOf(a.alg, GmParser(f), TerrainCells(GmParser(f), a.costs))
     /\ Priced(m)

BuiltInv ==
  /\ stage \in {"start", "load", "build"} => rows = <<>>
  /\ stage = "run" \/ rows # <<>> => BuiltOf(args, FileAt(mapfile), map)

\* The cells of a gridmap.
LEMMA GridDrawn ==
  ASSUME NEW alg \in GridAlgs, NEW f \in MapFile, NEW junk, ReadGrid(f, junk).ok,
         NEW x \in 0 .. ReadGrid(f, junk).width - 1, NEW y \in 0 .. ReadGrid(f, junk).height - 1
  PROVE  LET r == ReadGrid(f, junk)
             w == r.width
             k == y * w + x + 1
             Cell(a, b) ==
               GridCells(r)[Grid(w, r.height)!ProblemInstance(<<a, b>>, <<a, b>>)[1]]
         IN  /\ k <= Len(Tiles(f)) =>
                  Cell(x, y) = IF Tiles(f)[k] \in Traversable THEN 1 ELSE 0
             /\ k > Len(Tiles(f)) /\ y > 0 => Cell(x, y) = Cell(x, y - 1)
<1> DEFINE r == ReadGrid(f, junk)
           w == r.width
           h == r.height
           W == Grid(w, h)!Width
           Cell(a, b) == GridCells(r)[Grid(w, h)!ProblemInstance(<<a, b>>, <<a, b>>)[1]]
           k == y * w + x + 1
<1>1. w \in Nat \ {0} /\ h \in Nat \ {0}
  <2>1. /\ ReadHeader(f.head) /\ GridType(f.head) = "OCTILE"
        /\ w = Numeral[f.head[6]] /\ h = Numeral[f.head[4]]
    BY GridRead
  <2> HIDE DEF w, h
  <2> QED
    BY <2>1, GridHeader
<1>2. DOMAIN r.cells = 1 .. w * h
  <2> DEFINE u == Numeral[f.head[6]]
             v == Numeral[f.head[4]]
  <2>1. DOMAIN r.cells = 1 .. u * v /\ w = u /\ h = v
    BY GridRead, ZenonT(30)
  <2> QED
    BY <2>1
<1>3. /\ k \in DOMAIN r.cells
      /\ IF k <= Len(Tiles(f))
         THEN r.cells[k] = Tiles(f)[k]
         ELSE y > 0 => r.cells[k] = r.cells[(y - 1) * w + x + 1]
  BY CellsAreTiles
<1> HIDE DEF r
<1>4. x \in 0 .. w - 1 /\ y \in 0 .. h - 1 /\ (y > 0 => y - 1 \in 0 .. h - 1)
  <2>1. x \in 0 .. w - 1 /\ y \in 0 .. h - 1
    BY DEF r
  <2> HIDE DEF w, h
  <2> QED
    BY <1>1, <2>1
<1>5. W \in Nat \ {0} /\ w < W
  <2> HIDE DEF w, h
  <2> QED
    BY <1>1, StrideFacts
<1>6. GridCells(r) = [id \in Grid(w, h)!Cells |->
         IF \E n \in 1 .. w * h : BitId(w, h, n - 1) = id /\ r.cells[n] \in Traversable
         THEN 1 ELSE 0]
  BY <1>2 DEF GridCells
<1> DEFINE cells == r.cells
           db == GridCells(r)
<1> HIDE DEF w, h, cells, db
<1>7. ASSUME NEW a \in 0 .. w - 1, NEW b \in 0 .. h - 1
      PROVE  Cell(a, b) = IF cells[b * w + a + 1] \in Traversable THEN 1 ELSE 0
  <2> DEFINE id == CellAt(W, a, b)
             c == b * w + a
  <2>1. c \in 0 .. w * h - 1 /\ c + 1 \in 1 .. w * h /\ c % w = a /\ c \div w = b
    BY <1>1, NumberOf
  <2>2. Cell(a, b) = db[id]
    BY <1>1, IdOfPoint DEF db
  <2>3. id \in Grid(w, h)!Cells
    <3>1. id \in IdsOf(W, w, h)
      BY DEF IdsOf
    <3> HIDE DEF id
    <3> QED
      BY <1>1, <3>1, CellsOfMaps
  <2> HIDE DEF c, Cell
  <2>4. BitId(w, h, c) = id /\ (c + 1) - 1 = c
    <3>1. BitId(w, h, c) = CellAt(W, c % w, c \div w)
      BY <1>1, <2>1, IdOfNumber
    <3> QED
      BY <2>1, <3>1
  <2>5. ASSUME NEW n \in 1 .. w * h, BitId(w, h, n - 1) = id
        PROVE  n = c + 1
    <3> DEFINE e == n - 1
               g == w * h
    <3>1. e \in 0 .. g - 1 /\ n = e + 1
      <4>1. g \in Nat
        BY <1>1
      <4>2. n \in 1 .. g
        OBVIOUS
      <4> HIDE DEF g
      <4> QED
        BY <4>1, <4>2
    <3>2. BitId(w, h, e) = id
      BY <2>5
    <3> HIDE DEF e
    <3>3. BitId(w, h, e) = CellAt(W, e % w, e \div w)
      BY <1>1, <3>1, IdOfNumber
    <3>4. e = b * w + a
      <4>1. CellAt(W, e % w, e \div w) = CellAt(W, a, b) /\ e \in 0 .. w * h - 1
        BY <3>1, <3>2, <3>3
      <4> HIDE DEF W
      <4> QED
        BY <1>1, <1>5, <4>1, NumberOfId
    <3> QED
      BY <3>1, <3>4 DEF c
  <2>6. db[id] = IF \E n \in 1 .. w * h : BitId(w, h, n - 1) = id /\ cells[n] \in Traversable
                 THEN 1 ELSE 0
    BY <1>6, <2>3 DEF db, cells
  <2> HIDE DEF id
  <2>7. (\E n \in 1 .. w * h : BitId(w, h, n - 1) = id /\ cells[n] \in Traversable)
          <=> cells[c + 1] \in Traversable
    BY <2>1, <2>4, <2>5
  <2> QED
    BY <2>2, <2>6, <2>7 DEF c
<1>8. Cell(x, y) = IF cells[k] \in Traversable THEN 1 ELSE 0
  BY <1>4, <1>7
<1>9. y > 0 => Cell(x, y - 1) = IF cells[(y - 1) * w + x + 1] \in Traversable THEN 1 ELSE 0
  BY <1>4, <1>7
<1> HIDE DEF Cell
<1>10. k \in Int /\ Len(Tiles(f)) \in Int
  <2>1. k \in 1 .. w * h
    BY <1>2, <1>3 DEF w
  <2>2. f.body \in Seq(STRING)
    BY DEF MapFile
  <2>3. Tiles(f) \in Seq(STRING)
    BY <2>2, SolidType DEF Tiles
  <2> QED
    BY <2>1, <2>3
<1> DEFINE above == (y - 1) * w + x + 1
<1>11. /\ k <= Len(Tiles(f)) => cells[k] = Tiles(f)[k]
       /\ k > Len(Tiles(f)) /\ y > 0 => cells[k] = cells[above]
  <2>1. IF k <= Len(Tiles(f)) THEN cells[k] = Tiles(f)[k] ELSE y > 0 => cells[k] = cells[above]
    BY <1>3 DEF cells, w
  <2> HIDE DEF k, above
  <2> QED
    BY <1>10, <2>1
<1>12. y > 0 => Cell(x, y - 1) = IF cells[above] \in Traversable THEN 1 ELSE 0
  BY <1>9
<1> HIDE DEF k, above
<1>13. /\ k <= Len(Tiles(f)) => Cell(x, y) = IF Tiles(f)[k] \in Traversable THEN 1 ELSE 0
       /\ k > Len(Tiles(f)) /\ y > 0 => Cell(x, y) = Cell(x, y - 1)
  BY <1>8, <1>11, <1>12
<1> QED
  BY <1>13 DEF k, Cell, w, h, r

LEMMA TilesType ==
  ASSUME NEW f \in MapFile
  PROVE  Tiles(f) \in Seq(STRING) /\ Len(Tiles(f)) \in Nat /\ DOMAIN Tiles(f) = 1 .. Len(Tiles(f))
<1>1. f.body \in Seq(STRING)
  BY DEF MapFile
<1>2. Tiles(f) \in Seq(STRING)
  BY <1>1, SolidType DEF Tiles
<1> QED
  BY <1>2

\* The cells of a map of terrains.
LEMMA TerrainDrawn ==
  ASSUME NEW f \in MapFile, GmParser(f).ok, NEW costs,
         NEW x \in 0 .. GmParser(f).width - 1, NEW y \in 0 .. GmParser(f).height - 1
  PROVE  LET r == GmParser(f)
             w == r.width
             k == y * w + x + 1
             id == Terrain(w, r.height)!ProblemInstance(<<x, y>>, <<x, y>>)[1]
         IN  /\ k \in 1 .. Len(Tiles(f))
             /\ TerrainCells(r, costs)[id] = CostOf(costs, Tiles(f)[k])
<1> DEFINE r == GmParser(f)
           w == r.width
           h == r.height
           W == Terrain(w, h)!Width
           c == y * w + x
           id == CellAt(W, x, y)
           tiles == Tiles(f)
<1>1. w \in Nat \ {0} /\ h \in Nat \ {0}
  BY GmRead, SizesOfGm
<1>2. r.cells = tiles /\ Len(tiles) = w * h
  BY GmRead
<1>3. DOMAIN tiles = 1 .. w * h
  BY <1>2, TilesType
<1> HIDE DEF r
<1>4. x \in 0 .. w - 1 /\ y \in 0 .. h - 1
  BY DEF r
<1>5. TerrainCells(r, costs) = [n \in Terrain(w, h)!Cells |->
        CostOf(costs, tiles[CHOOSE k \in 1 .. w * h : Terrain(w, h)!ToPaddedId(k - 1) = n])]
  BY <1>2, <1>3 DEF TerrainCells
<1> HIDE DEF w, h, tiles
<1>6. W \in Nat \ {0} /\ w < W
  BY <1>1, StrideFacts
<1>7. c \in 0 .. w * h - 1 /\ c + 1 \in 1 .. w * h /\ c % w = x /\ c \div w = y
  BY <1>1, <1>4, NumberOf
<1>8. Terrain(w, h)!ProblemInstance(<<x, y>>, <<x, y>>)[1] = id
  BY <1>1, <1>4, IdOfPoint
<1>9. id \in Terrain(w, h)!Cells
  <2>1. id \in IdsOf(W, w, h)
    BY <1>4 DEF IdsOf
  <2> HIDE DEF id
  <2> QED
    BY <1>1, <2>1, CellsOfMaps
<1> HIDE DEF c
<1>10. Terrain(w, h)!ToPaddedId(c) = id /\ (c + 1) - 1 = c
  <2>1. Terrain(w, h)!ToPaddedId(c) = CellAt(W, c % w, c \div w)
    BY <1>1, <1>7, IdOfNumber
  <2> QED
    BY <1>7, <2>1
<1>11. ASSUME NEW n \in 1 .. w * h, Terrain(w, h)!ToPaddedId(n - 1) = id
       PROVE  n = c + 1
  <2> DEFINE e == n - 1
             g == w * h
  <2>1. e \in 0 .. g - 1 /\ n = e + 1
    <3>1. g \in Nat
      BY <1>1
    <3>2. n \in 1 .. g
      OBVIOUS
    <3> HIDE DEF g
    <3> QED
      BY <3>1, <3>2
  <2>2. Terrain(w, h)!ToPaddedId(e) = id
    BY <1>11
  <2> HIDE DEF e
  <2>3. Terrain(w, h)!ToPaddedId(e) = CellAt(W, e % w, e \div w)
    BY <1>1, <2>1, IdOfNumber
  <2>4. e = y * w + x
    <3>1. CellAt(W, e % w, e \div w) = CellAt(W, x, y) /\ e \in 0 .. w * h - 1
      BY <2>1, <2>2, <2>3
    <3> HIDE DEF W
    <3> QED
      BY <1>1, <1>4, <1>6, <3>1, NumberOfId
  <2> QED
    BY <2>1, <2>4 DEF c
<1> HIDE DEF id
<1> DEFINE k == CHOOSE n \in 1 .. w * h : Terrain(w, h)!ToPaddedId(n - 1) = id
<1>12. k = c + 1
  <2>1. \E n \in 1 .. w * h : Terrain(w, h)!ToPaddedId(n - 1) = id
    BY <1>7, <1>10
  <2>2. k \in 1 .. w * h /\ Terrain(w, h)!ToPaddedId(k - 1) = id
    BY <2>1
  <2> HIDE DEF k
  <2> QED
    BY <1>11, <2>2
<1>13. TerrainCells(r, costs)[id] = CostOf(costs, tiles[k])
  BY <1>5, <1>9
<1> HIDE DEF k
<1>14. y * w + x + 1 = c + 1 /\ c + 1 \in 1 .. Len(tiles)
  BY <1>2, <1>7 DEF c, tiles, r, w, h
<1> QED
  BY <1>8, <1>12, <1>13, <1>14 DEF tiles, r, w, h

LEMMA BuiltInvInit ==
  ASSUME ProgramInit
  PROVE  BuiltInv
BY DEF ProgramInit, BuiltInv

LEMMA BuiltInvStep ==
  ASSUME BuiltInv, [ProgramNext]_ProgramVars
  PROVE  BuiltInv'
<1>1. CASE UNCHANGED ProgramVars
  BY <1>1 DEF ProgramVars, vars, pvars, BuiltInv
<1>2. CASE ParseArguments
  BY <1>2 DEF ParseArguments, Exit, GoOn, BuiltInv
<1>3. CASE ReadExperiment
  BY <1>3 DEF ReadExperiment, pvars, vars, BuiltInv
<1>4. CASE LocateMap
  BY <1>4 DEF LocateMap, Exit, BuiltInv
<1>5. CASE BuildGrid
  <2>1. PICK junk \in GarbageCells :
          LET r == ReadGrid(FileAt(mapfile), junk) IN
          IF r.ok
          THEN map' = MapOf(args.alg, r, GridCells(r)) /\ GoOn("run")
          ELSE Exit(Aborted) /\ UNCHANGED map
    BY <1>5 DEF BuildGrid
  <2>2. CASE ReadGrid(FileAt(mapfile), junk).ok
    <3>1. BuiltOf(args, FileAt(mapfile), map')
      BY <1>5, <2>1, <2>2 DEF BuildGrid, BuiltOf
    <3>2. args' = args /\ mapfile' = mapfile /\ stage' = "run"
      BY <2>1, <2>2 DEF GoOn
    <3>3. FileAt(mapfile)' = FileAt(mapfile)
      BY <3>2 DEF FileAt
    <3> QED
      BY <3>1, <3>2, <3>3 DEF BuiltInv
  <2>3. CASE ~ReadGrid(FileAt(mapfile), junk).ok
    <3>1. stage' = "exit" /\ rows' = rows
      BY <2>1, <2>3 DEF Exit
    <3>2. rows = <<>>
      BY <1>5 DEF BuildGrid, BuiltInv
    <3> QED
      BY <3>1, <3>2 DEF BuiltInv
  <2> QED
    BY <2>2, <2>3
<1>6. CASE BuildTerrain
  <2> DEFINE r == GmParser(FileAt(mapfile))
             m == MapOf(args.alg, r, TerrainCells(r, args.costs))
  <2>1. /\ args.alg = "astar_wgm" /\ stage = "build"
        /\ IF args.costs # Null /\ CostsAccepted(args.costs) /\ r.ok /\ Priced(m)
           THEN map' = m /\ GoOn("run")
           ELSE Exit(1) /\ UNCHANGED map
    BY <1>6 DEF BuildTerrain
  <2>2. CASE args.costs # Null /\ CostsAccepted(args.costs) /\ r.ok /\ Priced(m)
    <3>1. BuiltOf(args, FileAt(mapfile), map')
      BY <2>1, <2>2 DEF BuiltOf
    <3>2. args' = args /\ mapfile' = mapfile /\ stage' = "run"
      BY <2>1, <2>2 DEF GoOn
    <3>3. FileAt(mapfile)' = FileAt(mapfile)
      BY <3>2 DEF FileAt
    <3> QED
      BY <3>1, <3>2, <3>3 DEF BuiltInv
  <2>3. CASE ~(args.costs # Null /\ CostsAccepted(args.costs) /\ r.ok /\ Priced(m))
    <3> HIDE DEF r, m
    <3>1. stage' = "exit" /\ rows' = rows /\ rows = <<>>
      BY <2>1, <2>3 DEF Exit, BuiltInv
    <3> QED
      BY <3>1 DEF BuiltInv
  <2> QED
    BY <2>2, <2>3
<1>7. CASE BuildNothing
  BY <1>7 DEF BuildNothing, Exit, BuiltInv
<1>8. CASE BeginExperiment \/ Search \/ PrintRow \/ AllDone
  <2>1. stage = "run" /\ stage' \in {"run", "exit"}
    BY <1>8 DEF BeginExperiment, Search, PrintRow, AllDone, Running, Exit, pvars
  <2>2. args' = args /\ mapfile' = mapfile
    BY <1>8 DEF BeginExperiment, Search, PrintRow, AllDone, Exit, pvars
  <2>3. map' = map
    <3>1. BeginExperiment => map' = map
      BY DEF BeginExperiment, GetPath
    <3>2. Search => map' = map
      BY DEF Search, Step, Expand, SuccessorStep, Generate, Prune, Decrease, Reopen,
             Dominated, EndExpansion, Stop, Extract
    <3>3. PrintRow \/ AllDone => map' = map
      BY DEF PrintRow, AllDone, vars
    <3> QED
      BY <1>8, <3>1, <3>2, <3>3
  <2>4. FileAt(mapfile)' = FileAt(mapfile)
    BY <2>2 DEF FileAt
  <2> QED
    BY <2>1, <2>2, <2>3, <2>4 DEF BuiltInv
<1> QED
  BY <1>1, <1>2, <1>3, <1>4, <1>5, <1>6, <1>7, <1>8 DEF ProgramNext

\* The values of the fields of a header that has them in their usual places.
LEMMA FieldsInPlace ==
  ASSUME NEW head, head[1] = "type", head[3] = "height", head[5] = "width"
  PROVE  /\ GmField(head, "type") = head[2]
         /\ GmField(head, "height") = head[4] /\ GmField(head, "width") = head[6]
<1>1. Max({1}) = 1 /\ Max({3}) = 3 /\ Max({5}) = 5
  BY DEF Max
<1>2. /\ {k \in {1, 3, 5} : head[k] = "type"} = {1}
      /\ {k \in {1, 3, 5} : head[k] = "height"} = {3}
      /\ {k \in {1, 3, 5} : head[k] = "width"} = {5}
  OBVIOUS
<1>3. head[1 + 1] = head[2] /\ head[3 + 1] = head[4] /\ head[5 + 1] = head[6]
  OBVIOUS
<1>4. GmField(head, "type") = head[Max({1}) + 1]
  BY <1>2, Zenon DEF GmField
<1>5. GmField(head, "height") = head[Max({3}) + 1]
  BY <1>2, Zenon DEF GmField
<1>6. GmField(head, "width") = head[Max({5}) + 1]
  BY <1>2, Zenon DEF GmField
<1> QED
  BY <1>1, <1>3, <1>4, <1>5, <1>6

\* gm_parser would read the same sizes.
LEMMA GridSizes ==
  ASSUME NEW f \in MapFile, NEW junk, ReadGrid(f, junk).ok
  PROVE  /\ ReadGrid(f, junk).width = WidthOf(f) /\ ReadGrid(f, junk).height = HeightOf(f)
         /\ WidthOf(f) \in Nat \ {0} /\ HeightOf(f) \in Nat \ {0}
         /\ GmAccepts(f.head)
<1> DEFINE head == f.head
<1>1. /\ ReadHeader(head) /\ GridType(head) = "OCTILE"
      /\ ReadGrid(f, junk).width = Numeral[head[6]] /\ ReadGrid(f, junk).height = Numeral[head[4]]
  BY GridRead
<1>2. /\ Len(head) = 7
      /\ head[1] = "type" /\ head[2] = "octile"
      /\ head[3] = "height" /\ head[4] \in DOMAIN Numeral
      /\ head[5] = "width" /\ head[6] \in DOMAIN Numeral
      /\ head[7] = "map"
      /\ Numeral[head[4]] \in Nat \ {0} /\ Numeral[head[6]] \in Nat \ {0}
  BY <1>1, GridHeader
<1> HIDE DEF head
<1>3. GmField(head, "type") = head[2] /\ GmField(head, "height") = head[4]
      /\ GmField(head, "width") = head[6]
  BY <1>2, FieldsInPlace
<1>4. /\ Atoi(GmField(head, "width")) = Numeral[head[6]]
      /\ Atoi(GmField(head, "height")) = Numeral[head[4]]
  BY <1>2, <1>3 DEF Atoi
<1>5. WidthOf(f) = Numeral[head[6]] /\ HeightOf(f) = Numeral[head[4]]
  BY <1>4 DEF WidthOf, HeightOf, head
<1>6. GmAccepts(head)
  BY <1>2, <1>3, <1>4 DEF GmAccepts
<1> QED
  BY <1>1, <1>2, <1>5, <1>6 DEF head

\* What the map has at the place x, y, as the arguments ask for.
CellOf(a, m, x, y) ==
  m.cells[IF a.alg = "astar_wgm"
          THEN Terrain(m.width, m.height)!ProblemInstance(<<x, y>>, <<x, y>>)[1]
          ELSE Grid(m.width, m.height)!ProblemInstance(<<x, y>>, <<x, y>>)[1]]

\* The place x, y of the map is as the file has it.
Shows(a, f, m, x, y) ==
  LET k == y * m.width + x + 1 IN
  IF k <= Len(Tiles(f))
  THEN CellOf(a, m, x, y) = IF a.alg = "astar_wgm" THEN CostOf(a.costs, Tiles(f)[k])
                            ELSE IF Tiles(f)[k] \in Traversable THEN 1 ELSE 0
  ELSE /\ a.alg # "astar_wgm"
       /\ y > 0 => CellOf(a, m, x, y) = CellOf(a, m, x, y - 1)

LEMMA BuiltShows ==
  ASSUME NEW a, NEW f \in MapFile, NEW m, BuiltOf(a, f, m)
  PROVE  /\ m.width = WidthOf(f) /\ m.height = HeightOf(f)
         /\ \A x \in 0 .. m.width - 1, y \in 0 .. m.height - 1 : Shows(a, f, m, x, y)
<1> DEFINE Cell(x, y) == CellOf(a, m, x, y)
           tiles == Tiles(f)
           Drawn1(x, y) == Shows(a, f, m, x, y)
<1>3. ASSUME NEW junk \in GarbageCells, a.alg \in GridAlgs, ReadGrid(f, junk).ok,
             m = MapOf(a.alg, ReadGrid(f, junk), GridCells(ReadGrid(f, junk)))
      PROVE  /\ m.width = WidthOf(f) /\ m.height = HeightOf(f)
             /\ \A x \in 0 .. m.width - 1, y \in 0 .. m.height - 1 : Drawn1(x, y)
  <2> DEFINE r == ReadGrid(f, junk)
  <2>1. /\ m.width = r.width /\ m.height = r.height /\ m.cells = GridCells(r)
        /\ a.alg # "astar_wgm"
    BY <1>3 DEF MapOf, GridAlgs
  <2>2. r.width = WidthOf(f) /\ r.height = HeightOf(f)
        /\ WidthOf(f) \in Nat \ {0} /\ HeightOf(f) \in Nat \ {0}
    BY <1>3, GridSizes
  <2>3. ASSUME NEW x \in 0 .. m.width - 1, NEW y \in 0 .. m.height - 1
        PROVE  Drawn1(x, y)
    <3> DEFINE k == y * m.width + x + 1
               G(u, v) == GridCells(r)[Grid(r.width, r.height)!ProblemInstance(<<u, v>>, <<u, v>>)[1]]
    <3>1. x \in 0 .. r.width - 1 /\ y \in 0 .. r.height - 1
      BY <2>1
    <3>2. /\ y * r.width + x + 1 <= Len(tiles) =>
               G(x, y) = IF tiles[y * r.width + x + 1] \in Traversable THEN 1 ELSE 0
          /\ y * r.width + x + 1 > Len(tiles) /\ y > 0 => G(x, y) = G(x, y - 1)
      BY <1>3, <3>1, GridDrawn
    <3>3. Cell(x, y) = G(x, y) /\ Cell(x, y - 1) = G(x, y - 1)
      BY <2>1 DEF CellOf
    <3>4. k = y * r.width + x + 1 /\ k \in Int /\ Len(tiles) \in Int
      <4>1. Len(tiles) \in Int
        BY TilesType
      <4>2. r.width \in Nat /\ x \in Int /\ y \in Int
        BY <2>2, <3>1
      <4> QED
        BY <2>1, <4>1, <4>2
    <3> HIDE DEF Cell, G, tiles
    <3>5. /\ k <= Len(tiles) => Cell(x, y) = IF tiles[k] \in Traversable THEN 1 ELSE 0
          /\ k > Len(tiles) /\ y > 0 => Cell(x, y) = Cell(x, y - 1)
      BY <3>2, <3>3, <3>4
    <3> HIDE DEF k
    <3>6. IF k <= Len(tiles)
          THEN Cell(x, y) = IF a.alg = "astar_wgm" THEN CostOf(a.costs, tiles[k])
                            ELSE IF tiles[k] \in Traversable THEN 1 ELSE 0
          ELSE /\ a.alg # "astar_wgm"
               /\ y > 0 => Cell(x, y) = Cell(x, y - 1)
      BY <2>1, <3>4, <3>5
    <3> QED
      BY <3>6 DEF k, Cell, tiles, Shows
  <2> QED
    BY <2>1, <2>2, <2>3
<1>4. ASSUME a.alg = "astar_wgm", GmParser(f).ok,
             m = MapOf(a.alg, GmParser(f), TerrainCells(GmParser(f), a.costs))
      PROVE  /\ m.width = WidthOf(f) /\ m.height = HeightOf(f)
             /\ \A x \in 0 .. m.width - 1, y \in 0 .. m.height - 1 : Drawn1(x, y)
  <2> DEFINE r == GmParser(f)
  <2>1. /\ m.width = r.width /\ m.height = r.height
        /\ m.cells = TerrainCells(r, a.costs)
    BY <1>4 DEF MapOf
  <2>2. r.width = WidthOf(f) /\ r.height = HeightOf(f)
    BY <1>4, GmRead
  <2>3. ASSUME NEW x \in 0 .. m.width - 1, NEW y \in 0 .. m.height - 1
        PROVE  Drawn1(x, y)
    <3> DEFINE k == y * m.width + x + 1
               T == TerrainCells(r, a.costs)[
                      Terrain(r.width, r.height)!ProblemInstance(<<x, y>>, <<x, y>>)[1]]
    <3>1. x \in 0 .. r.width - 1 /\ y \in 0 .. r.height - 1
      BY <2>1
    <3>2. /\ y * r.width + x + 1 \in 1 .. Len(tiles)
          /\ T = CostOf(a.costs, tiles[y * r.width + x + 1])
      BY <1>4, <3>1, TerrainDrawn
    <3>3. Cell(x, y) = T /\ k = y * r.width + x + 1
      BY <1>4, <2>1 DEF CellOf
    <3>4. Len(tiles) \in Nat
      BY TilesType
    <3> HIDE DEF Cell, T, tiles, k
    <3>5. k <= Len(tiles) /\ Cell(x, y) = CostOf(a.costs, tiles[k])
      BY <3>2, <3>3, <3>4
    <3>6. IF k <= Len(tiles)
          THEN Cell(x, y) = IF a.alg = "astar_wgm" THEN CostOf(a.costs, tiles[k])
                            ELSE IF tiles[k] \in Traversable THEN 1 ELSE 0
          ELSE /\ a.alg # "astar_wgm"
               /\ y > 0 => Cell(x, y) = Cell(x, y - 1)
      BY <1>4, <3>5
    <3> QED
      BY <3>6 DEF k, Cell, tiles, Shows
  <2> QED
    BY <2>1, <2>2, <2>3
<1>5. /\ m.width = WidthOf(f) /\ m.height = HeightOf(f)
      /\ \A x \in 0 .. m.width - 1, y \in 0 .. m.height - 1 : Drawn1(x, y)
  <2> HIDE DEF Drawn1
  <2> QED
    BY <1>3, <1>4 DEF BuiltOf
<1> QED
  BY <1>5

LEMMA BuiltIsDrawn ==
  ASSUME BuiltInv
  PROVE  CellsAreDrawn
<1> SUFFICES ASSUME stage = "run"
             PROVE  CellsAreDrawn
  BY DEF CellsAreDrawn
<1>1. FileAt(mapfile) \in MapFile /\ BuiltOf(args, FileAt(mapfile), map)
  BY FilesAreFiles DEF BuiltInv
<1> QED
  BY <1>1, BuiltShows DEF CellsAreDrawn, Shows, CellOf

-----------------------------------------------------------------------------
(* The rows.                                                               *)

\* The points of an experiment are points of the map, with ids of their own.
IsWithin(m, e) ==
  /\ {e.sx, e.sy, e.gx, e.gy} \subseteq Nat
  /\ IsPlace(m, e.sx % m.width, e.sy + e.sx \div m.width)
  /\ IsPlace(m, e.gx % m.width, e.gy + e.gx \div m.width)
  /\ Ids(m, e)[1] # Null

\* The scenario is one for the map.
WithinMap == stage = "run" => \A k \in DOMAIN experiments : IsWithin(map, experiments[k])

\* What the engine was asked last is an experiment.
Asked ==
  calls > 0 =>
    /\ calls \in DOMAIN experiments /\ IsWithin(map, experiments[calls])
    /\ <<pi.start, pi.target>> = Ids(map, experiments[calls])
    /\ par \in Params

\* There is a row for each call that has ended, or there will be next.
RowInv ==
  /\ calls \in {Len(rows), Len(rows) + 1}
  /\ pc # "idle" => calls = Len(rows) + 1
  /\ Asked
  /\ pc = "idle" /\ calls = Len(rows) /\ calls > 0 =>
       /\ LastRow.plen = PathLength /\ LastRow.pcost = sol.sum
       /\ LastRow.scost = LastExperiment.distance

LEMMA RowInvInit ==
  ASSUME ProgramInit
  PROVE  RowInv
BY DEF ProgramInit, Unused, RowInv, Asked

LEMMA RowInvStep ==
  ASSUME EngineInv, RowInv, WithinMap, WithinTables, [ProgramNext]_ProgramVars
  PROVE  RowInv'
<1>1. IsSequence(rows) /\ Len(rows) \in Nat /\ IsSequence(experiments)
  BY AppendedSequence DEF EngineInv
<1>2. CASE UNCHANGED ProgramVars
  <2>1. UNCHANGED <<map, pi, par, sol, calls, pc, rows, experiments>>
    BY <1>2 DEF ProgramVars, vars, svars, pvars
  <2> QED
    BY <2>1 DEF RowInv, Asked, LastRow, LastExperiment, PathLength
<1>3. CASE ProgramNext /\ stage \in {"start", "load", "build"}
  <2>1. calls = 0 /\ pc = "idle" /\ rows = <<>>
    BY <1>3 DEF EngineInv, NotBuilt, Unused
  <2>2. calls' = 0 /\ pc' = "idle" /\ rows' = <<>>
    BY <1>3, <2>1, BeforeRun
  <2> QED
    BY <2>2 DEF RowInv, Asked
<1>4. CASE ProgramNext /\ stage = "run"
  <2>1. UNCHANGED <<args, mapfile, experiments, map>>
    BY <1>4, WhileRunning
  <2>2. calls \in Nat
    BY <1>4 DEF EngineInv, IsBuilt, ExactInv, ConsistentInv, OrderInv, Inv, TypeInv, TypeOK
  <2>3. CASE BeginExperiment
    <3>1. calls = Len(rows) /\ UNCHANGED rows
      BY <2>3 DEF BeginExperiment, pvars
    <3> DEFINE q == Ids(map, Current)
    <3>2. PICK p \in Params : GetPath("convert", q[1], q[2], p)
      BY <2>3 DEF BeginExperiment
    <3>3. /\ Current = experiments[calls + 1] /\ calls + 1 \in DOMAIN experiments
          /\ q \in Queries
      BY <2>3, QueryOfCurrent
    <3>4. q = <<q[1], q[2]>>
      <4> HIDE DEF q
      <4> QED
        BY <3>3, CallsAssumption
    <3>5. IsWithin(map, Current)
      BY <1>4, <3>3 DEF WithinMap
    <3> HIDE DEF q
    <3>6. /\ calls' = calls + 1 /\ par' = p
          /\ pi'.start = q[1] /\ pi'.target = q[2]
      BY <3>2 DEF GetPath
    <3>7. Asked'
      BY <2>1, <3>3, <3>4, <3>5, <3>6 DEF Asked, q
    <3> QED
      BY <1>1, <3>1, <3>6, <3>7 DEF RowInv
  <2>4. CASE Search
    <3>1. Step /\ UNCHANGED rows
      BY <2>4 DEF Search, pvars
    <3>2. pc # "idle" /\ UNCHANGED <<pi, par, calls>>
      BY <3>1 DEF Step, Expand, SuccessorStep, AtSuccessor, Generate, Prune, Decrease, Reopen,
                  Dominated, EndExpansion, Stop, Extract
    <3>3. calls = Len(rows) + 1
      BY <3>2 DEF RowInv
    <3> QED
      BY <1>1, <2>1, <3>1, <3>2, <3>3 DEF RowInv, Asked
  <2>5. CASE PrintRow
    <3>1. calls = Len(rows) + 1 /\ pc = "idle" /\ rows' = Append(rows, Row) /\ UNCHANGED vars
      BY <2>5 DEF PrintRow, Running
    <3>2. Len(rows') = calls /\ rows'[calls] = Row
      BY <1>1, <3>1, AppendedSequence
    <3>3. calls \in DOMAIN experiments
      BY <1>1, <3>1 DEF RowInv, Asked
    <3>4. Current = experiments[calls]
      <4>1. DOMAIN experiments = 1 .. Len(experiments) /\ Len(experiments) \in Nat
        BY <1>1, AppendedSequence
      <4>2. Len(rows) < Len(experiments)
        BY <1>1, <3>1, <3>3, <4>1
      <4> QED
        BY <3>1, <4>2 DEF Current, Scenario!GetExperiment, Scenario!NumExperiments
    <3>5. /\ LastRow' = Row /\ LastExperiment' = experiments[calls]
      BY <2>1, <3>2 DEF LastRow, LastExperiment
    <3>6. /\ Row.plen = PathLength /\ Row.pcost = sol.sum
          /\ Row.scost = experiments[calls].distance
      BY <3>4 DEF Row
    <3>7. PathLength' = PathLength /\ sol' = sol /\ Asked'
      BY <2>1, <3>1 DEF vars, PathLength, Asked, RowInv
    <3> QED
      BY <1>1, <3>1, <3>2, <3>5, <3>6, <3>7 DEF RowInv, vars
  <2>6. CASE AllDone
    <3>1. UNCHANGED vars /\ UNCHANGED rows
      BY <2>6 DEF AllDone, Exit
    <3> QED
      BY <2>1, <3>1 DEF vars, RowInv, Asked, LastRow, LastExperiment, PathLength
  <2> QED
    BY <1>4, <2>3, <2>4, <2>5, <2>6
    DEF ProgramNext, ParseArguments, ReadExperiment, LocateMap, BuildGrid, BuildTerrain,
        BuildNothing
<1>5. CASE ProgramNext /\ stage = "exit"
  BY <1>5
  DEF ProgramNext, ParseArguments, ReadExperiment, LocateMap, BuildGrid, BuildTerrain,
      BuildNothing, BeginExperiment, Search, PrintRow, AllDone, Running
<1> QED
  BY <1>2, <1>3, <1>4, <1>5 DEF EngineInv

-----------------------------------------------------------------------------
(* The moves of the drawing.                                               *)

LEMMA BuiltSizes ==
  ASSUME NEW a, NEW f \in MapFile, NEW m, BuiltOf(a, f, m), IsMap(m)
  PROVE  /\ m.alg = a.alg
         /\ m.width = WidthOf(f) /\ m.height = HeightOf(f)
         /\ WidthOf(f) \in Nat \ {0} /\ HeightOf(f) \in Nat \ {0}
         /\ \A p \in PlacesOf(f) : /\ p = <<p[1], p[2]>> /\ p[1] \in Int /\ p[2] \in Int
                                   /\ IsPlace(m, p[1], p[2])
         /\ \A x, y : IsPlace(m, x, y) => <<x, y>> \in PlacesOf(f)
<1>1. m.width = WidthOf(f) /\ m.height = HeightOf(f)
  BY BuiltShows
<1>2. m.alg = a.alg
  BY DEF BuiltOf, MapOf
<1>3. m.width \in Nat \ {0} /\ m.height \in Nat \ {0}
  BY DEF IsMap
<1> QED
  BY <1>1, <1>2, <1>3 DEF PlacesOf, IsPlace

\* What there is at a place of a drawing that is complete.
LEMMA WorthDrawn ==
  ASSUME NEW a, NEW f \in MapFile, NEW m, BuiltOf(a, f, m), IsMap(m), IsDrawing(f),
         NEW p \in PlacesOf(f)
  PROVE  Worth(m, p[1], p[2]) =
           IF a.alg = "astar_wgm" THEN CostOf(a.costs, TileAt(f, p))
           ELSE IF TileAt(f, p) \in Traversable THEN 1 ELSE 0
<1> DEFINE x == p[1]
           y == p[2]
           k == y * m.width + x + 1
<1>1. /\ m.alg = a.alg /\ m.width = WidthOf(f) /\ m.height = HeightOf(f)
      /\ m.width \in Nat \ {0} /\ m.height \in Nat \ {0}
      /\ IsPlace(m, x, y) /\ p = <<x, y>>
  BY BuiltSizes
<1>2. x \in 0 .. m.width - 1 /\ y \in 0 .. m.height - 1
  BY <1>1 DEF IsPlace
<1> HIDE DEF x, y
<1>3. k \in 1 .. m.width * m.height /\ Len(Tiles(f)) \in Nat
  BY <1>1, <1>2, NumberOf, TilesType
<1>4. k <= Len(Tiles(f))
  <2>1. Len(Tiles(f)) >= m.width * m.height
    BY <1>1 DEF IsDrawing
  <2>2. m.width * m.height \in Int
    BY <1>1
  <2> HIDE DEF k
  <2> QED
    BY <1>3, <2>1, <2>2
<1>5. Shows(a, f, m, x, y)
  BY <1>2, BuiltShows
<1>6. CellOf(a, m, x, y) = m.cells[CellAt(Stride(m), x, y)]
  BY <1>1, <1>2, IdOfPoint DEF CellOf, Stride
<1>7. Worth(m, x, y) = m.cells[CellAt(Stride(m), x, y)]
  BY <1>1 DEF Worth
<1>8. TileAt(f, p) = Tiles(f)[k]
  BY <1>1 DEF TileAt, x, y
<1> HIDE DEF k
<1>9. CellOf(a, m, x, y) = IF a.alg = "astar_wgm" THEN CostOf(a.costs, Tiles(f)[k])
                           ELSE IF Tiles(f)[k] \in Traversable THEN 1 ELSE 0
  BY <1>4, <1>5 DEF Shows, k
<1> QED
  BY <1>6, <1>7, <1>8, <1>9 DEF x, y

\* A point is open if the map has something there.
LEMMA OpenDrawn ==
  ASSUME NEW a, NEW f \in MapFile, NEW m, BuiltOf(a, f, m), IsMap(m), IsDrawing(f),
         NEW x, NEW y
  PROVE  IsOpenAt(a, f, <<x, y>>) <=> Worth(m, x, y) # 0
<1>1. CASE <<x, y>> \in PlacesOf(f)
  BY <1>1, WorthDrawn DEF IsOpenAt
<1>2. CASE <<x, y>> \notin PlacesOf(f)
  <2>1. ~IsPlace(m, x, y)
    BY <1>2, BuiltSizes
  <2> QED
    BY <1>2, <2>1 DEF IsOpenAt, Worth
<1> QED
  BY <1>1, <1>2

\* The steps to the eight places around.
LEMMA StepsAround ==
  /\ Steps8 = ((-1 .. 1) \X (-1 .. 1)) \ {<<0, 0>>}
  /\ \A d \in Steps8 : IsDiagonal(d) <=> d \notin Straight
<1>1. ASSUME NEW d \in ((-1 .. 1) \X (-1 .. 1)) \ {<<0, 0>>}
      PROVE  d \in Steps8
  <2>1. d[1] \in {-1, 0, 1} /\ d[2] \in {-1, 0, 1} /\ d = <<d[1], d[2]>>
    OBVIOUS
  <2> QED
    BY <1>1, <2>1 DEF Steps8, Straight, Oblique
<1>2. ASSUME NEW d \in Steps8
      PROVE  d \in ((-1 .. 1) \X (-1 .. 1)) \ {<<0, 0>>}
  BY StepFacts
<1>3. ASSUME NEW d \in Steps8
      PROVE  IsDiagonal(d) <=> d \notin Straight
  BY StepFacts DEF IsDiagonal
<1> QED
  BY <1>1, <1>2, <1>3

\* What a move touches.
LEMMA TouchedPlaces ==
  ASSUME NEW x \in Int, NEW y \in Int, NEW d \in Steps8
  PROVE  /\ Touched(<<x, y>>, d)
              = {<<x + d[1], y + d[2]>>}
                  \cup (IF d[1] = 0 THEN {} ELSE {<<x + d[1], y>>})
                  \cup (IF d[2] = 0 THEN {} ELSE {<<x, y + d[2]>>})
         /\ Beside(<<x, y>>, d) = <<x + d[1], y + d[2]>>
<1>1. /\ d[1] \in -1 .. 1 /\ d[2] \in -1 .. 1 /\ ~(d[1] = 0 /\ d[2] = 0)
  BY StepFacts
<1>2. /\ Beside(<<x, y>>, d) = <<x + d[1], y + d[2]>>
      /\ Beside(<<x, y>>, <<d[1], 0>>) = <<x + d[1], y>>
      /\ Beside(<<x, y>>, <<0, d[2]>>) = <<x, y + d[2]>>
  BY <1>1 DEF Beside
<1>3. Touched(<<x, y>>, d)
        = {<<x + d[1], y>>, <<x, y + d[2]>>, <<x + d[1], y + d[2]>>} \ {<<x, y>>}
  BY <1>2 DEF Touched
<1> QED
  BY <1>1, <1>2, <1>3

LEMMA MovesAreDrawn ==
  ASSUME NEW a, NEW f \in MapFile, NEW m, BuiltOf(a, f, m), IsMap(m), IsDrawing(f),
         NEW p \in PlacesOf(f)
  PROVE  /\ MovesFrom(a, f, p) = MapMoves(m, p[1], p[2])
         /\ \A d \in MovesFrom(a, f, p) :
              /\ MoveCost(a, f, p, d) = CostOfMove(m, p[1], p[2], d)
              /\ Beside(p, d) = <<p[1] + d[1], p[2] + d[2]>>
              /\ Beside(p, d) \in PlacesOf(f)
<1> DEFINE x == p[1]
           y == p[2]
<1>1. /\ m.alg = a.alg /\ IsPlace(m, x, y) /\ p = <<x, y>> /\ x \in Int /\ y \in Int
  BY BuiltSizes
<1> HIDE DEF x, y
<1>2. ASSUME NEW d \in Steps8
      PROVE  /\ d \in MovesFrom(a, f, p) <=> d \in MapMoves(m, x, y)
  <2>1. (\A q \in Touched(p, d) : IsOpenAt(a, f, q)) <=>
          /\ Worth(m, x + d[1], y + d[2]) # 0
          /\ d[1] # 0 => Worth(m, x + d[1], y) # 0
          /\ d[2] # 0 => Worth(m, x, y + d[2]) # 0
    <3>1. /\ IsOpenAt(a, f, <<x + d[1], y + d[2]>>) <=> Worth(m, x + d[1], y + d[2]) # 0
          /\ IsOpenAt(a, f, <<x + d[1], y>>) <=> Worth(m, x + d[1], y) # 0
          /\ IsOpenAt(a, f, <<x, y + d[2]>>) <=> Worth(m, x, y + d[2]) # 0
      BY OpenDrawn
    <3>2. Touched(p, d)
            = {<<x + d[1], y + d[2]>>}
                \cup (IF d[1] = 0 THEN {} ELSE {<<x + d[1], y>>})
                \cup (IF d[2] = 0 THEN {} ELSE {<<x, y + d[2]>>})
      BY <1>1, TouchedPlaces
    <3> QED
      BY <3>1, <3>2
  <2>2. IsOpenAt(a, f, p) <=> Worth(m, x, y) # 0
    BY <1>1, OpenDrawn
  <2>3. /\ d \in ((-1 .. 1) \X (-1 .. 1)) \ {<<0, 0>>}
        /\ IsDiagonal(d) <=> d \notin Straight
    BY StepsAround
  <2> QED
    BY <1>1, <2>1, <2>2, <2>3 DEF MovesFrom, MapMoves, MayPass
<1>3. MovesFrom(a, f, p) = MapMoves(m, x, y)
  <2>1. MovesFrom(a, f, p) \subseteq Steps8
    BY StepsAround DEF MovesFrom
  <2>2. MapMoves(m, x, y) \subseteq Steps8
    BY DEF MapMoves
  <2> QED
    BY <1>2, <2>1, <2>2
<1>4. ASSUME NEW d \in MapMoves(m, x, y)
      PROVE  /\ MoveCost(a, f, p, d) = CostOfMove(m, x, y, d)
             /\ Beside(p, d) = <<x + d[1], y + d[2]>>
             /\ Beside(p, d) \in PlacesOf(f)
  <2>1. d \in Steps8 /\ MayPass(m, x, y, d)
    BY DEF MapMoves
  <2>2. Beside(p, d) = <<x + d[1], y + d[2]>>
    BY <1>1, <2>1, TouchedPlaces
  <2>3. IsPlace(m, x + d[1], y + d[2])
    BY <2>1 DEF MayPass, Worth
  <2>4. Beside(p, d) \in PlacesOf(f)
    <3>1. <<x + d[1], y + d[2]>> \in PlacesOf(f)
      BY <2>3, BuiltSizes, Zenon
    <3> QED
      BY <2>2, <3>1
  <2>5. IsDiagonal(d) <=> d \notin Straight
    BY <2>1, StepsAround
  <2>6. CASE a.alg # "astar_wgm"
    BY <1>1, <2>2, <2>4, <2>5, <2>6 DEF MoveCost, CostOfMove
  <2>7. CASE a.alg = "astar_wgm"
    <3> DEFINE At(u, v) == CostOf(a.costs, TileAt(f, Beside(p, <<u, v>>)))
    <3>1. ASSUME NEW u \in -1 .. 1, NEW v \in -1 .. 1, IsPlace(m, x + u, y + v)
          PROVE  At(u, v) = Worth(m, x + u, y + v)
      <4>1. Beside(p, <<u, v>>) = <<x + u, y + v>>
        BY <1>1 DEF Beside
      <4>2. <<x + u, y + v>> \in PlacesOf(f)
        BY <3>1, BuiltSizes
      <4> QED
        BY <2>7, <4>1, <4>2, WorthDrawn
    <3>2. /\ d[1] \in -1 .. 1 /\ d[2] \in -1 .. 1
          /\ d \in Straight <=> (d[1] = 0 \/ d[2] = 0)
      BY <2>1, StepFacts
    <3>3. x + 0 = x /\ y + 0 = y
      BY <1>1
    <3>4. At(0, 0) = Worth(m, x, y) /\ At(d[1], d[2]) = Worth(m, x + d[1], y + d[2])
      <4>1. IsPlace(m, x + 0, y + 0)
        BY <1>1, <3>3
      <4> HIDE DEF At
      <4>2. At(0, 0) = Worth(m, x + 0, y + 0)
        <5>1. 0 \in -1 .. 1
          OBVIOUS
        <5> QED
          BY <3>1, <4>1, <5>1, Zenon
      <4>3. At(d[1], d[2]) = Worth(m, x + d[1], y + d[2])
        BY <2>3, <3>1, <3>2, Zenon
      <4> QED
        BY <3>3, <4>2, <4>3
    <3>5. d \notin Straight => /\ At(d[1], 0) = Worth(m, x + d[1], y)
                               /\ At(0, d[2]) = Worth(m, x, y + d[2])
      <4> SUFFICES ASSUME d \notin Straight
                   PROVE  /\ At(d[1], 0) = Worth(m, x + d[1], y)
                          /\ At(0, d[2]) = Worth(m, x, y + d[2])
        OBVIOUS
      <4>1. IsPlace(m, x + d[1], y + 0) /\ IsPlace(m, x + 0, y + d[2])
        BY <2>1, <3>2, <3>3 DEF MayPass, Worth
      <4>2. 0 \in -1 .. 1
        OBVIOUS
      <4> HIDE DEF At
      <4>3. /\ At(d[1], 0) = Worth(m, x + d[1], y + 0)
            /\ At(0, d[2]) = Worth(m, x + 0, y + d[2])
        BY <3>1, <3>2, <4>1, <4>2, Zenon
      <4> QED
        BY <3>3, <4>3
    <3>6. MoveCost(a, f, p, d)
            = IF IsDiagonal(d)
              THEN Quarter * (At(0, 0) + At(d[1], d[2]) + (At(d[1], 0) + At(0, d[2])))
              ELSE Half * (At(0, 0) + At(d[1], d[2]))
      <4>1. {At(0, 0), At(d[1], d[2])} \subseteq Nat
        BY <1>1, <2>1, <3>4, WorthOfMove
      <4>2. d \notin Straight => {At(d[1], 0), At(0, d[2])} \subseteq Nat
        BY <1>1, <2>1, <3>5, WorthOfMove
      <4>3. MoveCost(a, f, p, d)
              = IF IsDiagonal(d)
                THEN Quarter * (At(0, 0) + At(d[1], d[2]) + At(d[1], 0) + At(0, d[2]))
                ELSE Half * (At(0, 0) + At(d[1], d[2]))
        BY <2>7 DEF MoveCost
      <4> HIDE DEF At
      <4>4. IsDiagonal(d) => At(0, 0) + At(d[1], d[2]) + At(d[1], 0) + At(0, d[2])
                               = At(0, 0) + At(d[1], d[2]) + (At(d[1], 0) + At(0, d[2]))
        BY <2>5, <4>1, <4>2
      <4> QED
        BY <4>3, <4>4
    <3> HIDE DEF At
    <3> QED
      BY <1>1, <2>2, <2>4, <2>5, <2>7, <3>4, <3>5, <3>6 DEF CostOfMove
  <2> QED
    BY <2>2, <2>4, <2>6, <2>7
<1> QED
  BY <1>3, <1>4 DEF x, y

-----------------------------------------------------------------------------
(* The drawing and the tables of the engine.                               *)

DrawnFile == FileAt(mapfile)

\* The id of each place, and the places whose ids the tables have.
IdAt   == [p \in PlacesOf(DrawnFile) |-> CellAt(Stride(map), p[1], p[2])]
Tabled == {p \in PlacesOf(DrawnFile) : IdAt[p] \in Node}

\* The engine has been built for a drawing that can be searched.
OnDrawing ==
  /\ IsDrawn /\ BuiltOf(args, DrawnFile, map) /\ IsMap(map)
  /\ map \in Maps /\ IsTabled(map) /\ Node \subseteq Int

\* The edges of the drawing are its moves.
LEMMA DrawnFacts ==
  ASSUME IsDrawn
  PROVE  /\ IsSearchable(args, DrawnFile) /\ IsDrawing(DrawnFile)
         /\ DrawnFile \in MapFile
         /\ PlacesOf(DrawnFile) \subseteq Places
         /\ \A p \in PlacesOf(DrawnFile) :
              /\ DOMAIN DrawnMoves[Here][p] = MovesFrom(args, DrawnFile, p)
              /\ \A d \in MovesFrom(args, DrawnFile, p) :
                   DrawnMoves[Here][p][d]
                     = [node |-> Beside(p, d), cost |-> MoveCost(args, DrawnFile, p, d)]
<1>1. PICK b \in Arguments : \E path \in Paths(b) :
        IsSearchable(b, FileAt(path)) /\ Here = Drawing(path, b)
  BY DEF IsDrawn, Drawings
<1>2. PICK path \in Paths(b) : IsSearchable(b, FileAt(path)) /\ Here = Drawing(path, b)
  BY <1>1
<1>3. mapfile = path /\ args.alg = b.alg /\ args.costs = b.costs
  BY <1>2 DEF Here, Drawing
<1>4. IsSearchable(args, DrawnFile)
  BY <1>2, <1>3 DEF IsSearchable, DrawnFile
<1> DEFINE a == [alg |-> Here[2], costs |-> Here[3]]
           f == FileAt(Here[1])
<1>5. f = DrawnFile /\ a.alg = args.alg /\ a.costs = args.costs
  BY DEF Here, Drawing, DrawnFile
<1>6. DrawnMoves[Here] = [p \in PlacesOf(f) |->
                            [d \in MovesFrom(a, f, p) |->
                               [node |-> Beside(p, d), cost |-> MoveCost(a, f, p, d)]]]
      /\ DOMAIN DrawnMoves = Drawings
  BY DEF DrawnMoves, IsDrawn
<1>7. PlacesOf(DrawnFile) \subseteq Places
  BY <1>5, <1>6 DEF Places, IsDrawn
<1> HIDE DEF a, f
<1>8. ASSUME NEW p
      PROVE  /\ MovesFrom(a, f, p) = MovesFrom(args, DrawnFile, p)
             /\ \A d : MoveCost(a, f, p, d) = MoveCost(args, DrawnFile, p, d)
  <2>1. \A q : IsOpenAt(a, f, q) <=> IsOpenAt(args, DrawnFile, q)
    BY <1>5 DEF IsOpenAt
  <2> QED
    BY <1>5, <2>1 DEF MovesFrom, MoveCost
<1>9. ASSUME NEW p \in PlacesOf(DrawnFile)
      PROVE  /\ DOMAIN DrawnMoves[Here][p] = MovesFrom(args, DrawnFile, p)
             /\ \A d \in MovesFrom(args, DrawnFile, p) :
                  DrawnMoves[Here][p][d]
                    = [node |-> Beside(p, d), cost |-> MoveCost(args, DrawnFile, p, d)]
  BY <1>5, <1>6, <1>8
<1> QED
  BY <1>4, <1>7, <1>9, FilesAreFiles DEF DrawnFile, IsSearchable

\* An edge d of the drawing is the edge e of the map.
Same(d, e) == IdAt[d.node] = e.node /\ d.cost = e.cost

LEMMA PlaceDrawn ==
  ASSUME OnDrawing, NEW p \in PlacesOf(DrawnFile)
  PROVE  /\ p = <<p[1], p[2]>> /\ IsPlace(map, p[1], p[2])
         /\ IdAt[p] = CellAt(Stride(map), p[1], p[2]) /\ IdAt[p] \in Int
<1>1. p = <<p[1], p[2]>> /\ IsPlace(map, p[1], p[2])
  BY DrawnFacts, BuiltSizes DEF OnDrawing
<1>2. IdAt[p] = CellAt(Stride(map), p[1], p[2])
  BY DEF IdAt
<1>3. IdAt[p] \in Int
  BY <1>1, <1>2, PlaceOfId DEF OnDrawing
<1> QED
  BY <1>1, <1>2, <1>3

LEMMA IdsDiffer ==
  ASSUME OnDrawing, NEW p \in PlacesOf(DrawnFile), NEW q \in PlacesOf(DrawnFile),
         IdAt[p] = IdAt[q]
  PROVE  p = q
<1>1. /\ p = <<p[1], p[2]>> /\ IsPlace(map, p[1], p[2])
      /\ IdAt[p] = CellAt(Stride(map), p[1], p[2])
      /\ q = <<q[1], q[2]>> /\ IsPlace(map, q[1], q[2])
      /\ IdAt[q] = CellAt(Stride(map), q[1], q[2])
  BY PlaceDrawn
<1>2. IsMap(map)
  BY DEF OnDrawing
<1>3. ASSUME NEW r, IsPlace(map, r[1], r[2]), CellAt(Stride(map), r[1], r[2]) = IdAt[p]
      PROVE  /\ IdAt[p] % Stride(map) = r[1] /\ IdAt[p] \div Stride(map) - 3 = r[2]
  <2>1. /\ IdAt[p] % Stride(map) = r[1] /\ IdAt[p] \div Stride(map) = r[2] + 3
        /\ r[2] \in Int
    BY <1>2, <1>3, PlaceOfId
  <2> QED
    BY <2>1
<1>4. /\ IdAt[p] % Stride(map) = p[1] /\ IdAt[p] \div Stride(map) - 3 = p[2]
      /\ IdAt[p] % Stride(map) = q[1] /\ IdAt[p] \div Stride(map) - 3 = q[2]
  <2>1. CellAt(Stride(map), p[1], p[2]) = IdAt[p] /\ CellAt(Stride(map), q[1], q[2]) = IdAt[p]
    BY <1>1
  <2>2. IdAt[p] % Stride(map) = p[1] /\ IdAt[p] \div Stride(map) - 3 = p[2]
    BY <1>1, <1>3, <2>1
  <2>3. IdAt[p] % Stride(map) = q[1] /\ IdAt[p] \div Stride(map) - 3 = q[2]
    BY <1>1, <1>3, <2>1
  <2> QED
    BY <2>2, <2>3
<1>5. p[1] = q[1] /\ p[2] = q[2]
  BY <1>4
<1> QED
  BY <1>1, <1>5

\* The id of a cell of the map is the id of a place.
LEMMA PlacesOfCells ==
  ASSUME OnDrawing, NEW x, NEW y, IsPlace(map, x, y)
  PROVE  /\ <<x, y>> \in PlacesOf(DrawnFile)
         /\ IdAt[<<x, y>>] = CellAt(Stride(map), x, y)
<1>1. <<x, y>> \in PlacesOf(DrawnFile)
  BY DrawnFacts, BuiltSizes, Zenon DEF OnDrawing
<1> QED
  BY <1>1 DEF IdAt

\* The moves of the drawing from a place are the edges of the tables.
LEMMA EdgesDrawn ==
  ASSUME OnDrawing, NEW p \in Tabled
  PROVE  LET succ == DrawnMoves[Here]
             edges == Successors[map][IdAt[p]]
         IN  /\ \A k \in DOMAIN edges : \E d \in DOMAIN succ[p] : Same(succ[p][d], edges[k])
             /\ \A d \in DOMAIN succ[p] :
                  /\ \E k \in DOMAIN edges : Same(succ[p][d], edges[k])
                  /\ succ[p][d].node \in PlacesOf(DrawnFile)
<1> DEFINE succ == DrawnMoves[Here]
           edges == Successors[map][IdAt[p]]
           x == p[1]
           y == p[2]
<1>1. /\ p \in PlacesOf(DrawnFile) /\ IsPlace(map, x, y) /\ IdAt[p] = CellAt(Stride(map), x, y)
      /\ IdAt[p] \in Node
  BY PlaceDrawn DEF Tabled
<1>2. edges = SuccessorsOf(map, IdAt[p])
  BY <1>1 DEF OnDrawing, IsTabled
<1>3. Range(edges) = {EdgeOfMove(map, x, y, d) : d \in MapMoves(map, x, y)}
  BY <1>1, <1>2, EdgesAreMoves DEF OnDrawing
<1>4. /\ MovesFrom(args, DrawnFile, p) = MapMoves(map, x, y)
      /\ \A d \in MapMoves(map, x, y) :
           /\ MoveCost(args, DrawnFile, p, d) = CostOfMove(map, x, y, d)
           /\ Beside(p, d) = <<x + d[1], y + d[2]>>
           /\ Beside(p, d) \in PlacesOf(DrawnFile)
  <2>1. /\ BuiltOf(args, DrawnFile, map) /\ IsMap(map) /\ IsDrawing(DrawnFile)
        /\ DrawnFile \in MapFile
    BY DrawnFacts DEF OnDrawing
  <2>2. MovesFrom(args, DrawnFile, p) = MapMoves(map, p[1], p[2])
    BY <1>1, <2>1, MovesAreDrawn
  <2>3. \A d \in MovesFrom(args, DrawnFile, p) :
           /\ MoveCost(args, DrawnFile, p, d) = CostOfMove(map, p[1], p[2], d)
           /\ Beside(p, d) = <<p[1] + d[1], p[2] + d[2]>>
           /\ Beside(p, d) \in PlacesOf(DrawnFile)
    BY <1>1, <2>1, MovesAreDrawn
  <2> QED
    BY <2>2, <2>3
<1>5. DOMAIN succ[p] = MapMoves(map, x, y)
  BY <1>1, <1>4, DrawnFacts DEF OnDrawing
<1> HIDE DEF x, y
<1>6. ASSUME NEW d \in MapMoves(map, x, y)
      PROVE  /\ Same(succ[p][d], EdgeOfMove(map, x, y, d))
             /\ succ[p][d].node \in PlacesOf(DrawnFile)
  <2>1. succ[p][d] = [node |-> Beside(p, d), cost |-> MoveCost(args, DrawnFile, p, d)]
    BY <1>1, <1>4, DrawnFacts DEF OnDrawing
  <2>2. IdAt[Beside(p, d)] = CellAt(Stride(map), x + d[1], y + d[2])
    <3>1. Beside(p, d) \in PlacesOf(DrawnFile) /\ Beside(p, d) = <<x + d[1], y + d[2]>>
      BY <1>4
    <3>2. IdAt[Beside(p, d)] = CellAt(Stride(map), Beside(p, d)[1], Beside(p, d)[2])
      BY <3>1, PlaceDrawn
    <3> QED
      BY <3>1, <3>2
  <2> QED
    BY <1>4, <2>1, <2>2 DEF Same, EdgeOfMove
<1> HIDE DEF succ, edges
<1>7. ASSUME NEW k \in DOMAIN edges
      PROVE  \E d \in DOMAIN succ[p] : Same(succ[p][d], edges[k])
  <2>1. edges[k] \in Range(edges)
    BY DEF Range
  <2>2. PICK d \in MapMoves(map, x, y) : edges[k] = EdgeOfMove(map, x, y, d)
    BY <1>3, <2>1
  <2> QED
    BY <1>5, <1>6, <2>2
<1>8. ASSUME NEW d \in DOMAIN succ[p]
      PROVE  /\ \E k \in DOMAIN edges : Same(succ[p][d], edges[k])
             /\ succ[p][d].node \in PlacesOf(DrawnFile)
  <2>1. EdgeOfMove(map, x, y, d) \in Range(edges)
    BY <1>3, <1>5
  <2>2. PICK k \in DOMAIN edges : edges[k] = EdgeOfMove(map, x, y, d)
    BY <2>1 DEF Range
  <2> QED
    BY <1>5, <1>6, <2>2
<1> QED
  BY <1>7, <1>8 DEF succ, edges

\* Paths of the drawing, as paths of the map.
DrawnWalks ==
  {x \in Tabled \X Nat : <<IdAt[x[1]], x[2]>> \in Walked(map, pi.start)}

LEMMA DrawnStandsFor ==
  ASSUME OnDrawing
  PROVE  StandFor(DrawnMoves[Here], Tabled, IdAt)
<1> DEFINE succ == DrawnMoves[Here]
<1> SUFFICES ASSUME NEW p \in Tabled, NEW k \in DOMAIN Successors[map][IdAt[p]]
             PROVE  \E j \in DOMAIN succ[p] :
                      /\ IdAt[succ[p][j].node] = Successors[map][IdAt[p]][k].node
                      /\ succ[p][j].cost = Successors[map][IdAt[p]][k].cost
  BY DEF StandFor
<1>1. \E j \in DOMAIN succ[p] : Same(succ[p][j], Successors[map][IdAt[p]][k])
  BY EdgesDrawn
<1> QED
  BY <1>1 DEF Same

LEMMA DrawnIsClosed ==
  ASSUME OnDrawing, pi.start \in Node
  PROVE  /\ DrawnWalks \subseteq Tabled \X Nat
         /\ ClosedUnder(DrawnMoves[Here], DrawnWalks)
<1> DEFINE succ == DrawnMoves[Here]
<1>1. ASSUME NEW x \in DrawnWalks, NEW d \in DOMAIN succ[x[1]]
      PROVE  <<succ[x[1]][d].node, x[2] + succ[x[1]][d].cost>> \in DrawnWalks
  <2> DEFINE p == x[1]
             e(k) == Successors[map][IdAt[p]][k]
  <2>1. p \in Tabled /\ x[2] \in Nat /\ <<IdAt[p], x[2]>> \in Walked(map, pi.start)
    BY DEF DrawnWalks
  <2>2. PICK k \in DOMAIN Successors[map][IdAt[p]] : Same(succ[p][d], e(k))
    BY <2>1, EdgesDrawn
  <2>3. succ[p][d].node \in PlacesOf(DrawnFile)
    BY <2>1, EdgesDrawn
  <2>4. <<e(k).node, x[2] + e(k).cost>> \in Walked(map, pi.start)
    <3>1. /\ <<IdAt[p], x[2]>>[1] = IdAt[p] /\ <<IdAt[p], x[2]>>[2] = x[2]
      OBVIOUS
    <3>2. map \in Maps
      BY DEF OnDrawing
    <3> QED
      BY <2>1, <2>2, <3>1, <3>2, WalkedOn
  <2>5. IdAt[succ[p][d].node] = e(k).node /\ succ[p][d].cost = e(k).cost
    BY <2>2 DEF Same
  <2>6. e(k).node \in Node /\ x[2] + e(k).cost \in Nat
    BY <2>4 DEF Walked
  <2> QED
    BY <2>3, <2>4, <2>5, <2>6 DEF DrawnWalks, Tabled
<1> QED
  BY <1>1 DEF ClosedUnder, DrawnWalks

-----------------------------------------------------------------------------
(* The reference on the drawing.                                           *)

LEMMA DrawnRounds ==
  ASSUME NEW s, Cardinality(Places) \in Nat, Cardinality(Places) # 0
  PROVE  \E r : /\ Rounds(DrawnMoves[Here], s, r, Cardinality(Places))
                /\ Drawn!ShortestFrom(Here, s) = r[Cardinality(Places)]
<1> DEFINE n == Cardinality(Places)
           first == {<<s, 0>>}
           r == CHOOSE t : RoundFunction(t, DrawnMoves[Here], first, n)
<1>1. Rounds(DrawnMoves[Here], s, r, n)
  BY RoundsOfAny
<1>2. Drawn!ShortestFrom(Here, s) = r[n]
  <2>1. Drawn!Cardinality(Places) = Cardinality(Places)
    BY DEF Cardinality, Drawn!Cardinality
  <2>2. \A x : Drawn!Cheapest(x) = Reference!Cheapest(x)
    BY Zenon DEF Drawn!Cheapest, Reference!Cheapest, Drawn!Min, Reference!Min
  <2>3. \A u, x : Drawn!Reached(u, x) = Reference!Reached(u, x)
    BY Zenon DEF Drawn!Reached, Reference!Reached
  <2> QED
    BY <2>1, <2>2, <2>3, Zenon DEF Drawn!ShortestFrom, RoundFunction, NextRound
<1> QED
  BY <1>1, <1>2

\* The search has started at the place s of the drawing.
StartsAt(s) == s \in Tabled /\ IdAt[s] = pi.start /\ pi.start \in Node

\* The reference does not leave a set that the moves do not leave.
LEMMA DrawnStays ==
  ASSUME OnDrawing, NEW s \in Places, IsFiniteSet(Places),
         NEW X, X \subseteq Tabled \X Nat, <<s, 0>> \in X, ClosedUnder(DrawnMoves[Here], X)
  PROVE  Drawn!ShortestFrom(Here, s) \subseteq X
<1> DEFINE n == Cardinality(Places)
           succ == DrawnMoves[Here]
<1>1. n \in Nat /\ n # 0
  BY FS_CardinalityType, FS_EmptySet
<1>2. PICK r : Rounds(succ, s, r, n) /\ Drawn!ShortestFrom(Here, s) = r[n]
  BY <1>1, DrawnRounds
<1>3. \A k \in 1 .. n : r[k] \subseteq X
  <2> HIDE DEF n, succ
  <2>1. ClosedUnder(succ, X)
    BY DEF succ
  <2> QED
    BY <1>1, <1>2, <2>1, RoundsStay
<1> QED
  BY <1>1, <1>2, <1>3

\* What is reached on the drawing is reached by a path of the map.
LEMMA DrawnIsWalked ==
  ASSUME OnDrawing, NEW s, StartsAt(s), IsFiniteSet(Places),
         NEW x \in Drawn!ShortestFrom(Here, s)
  PROVE  x \in DrawnWalks
<1>1. s \in Places
  BY DrawnFacts DEF StartsAt, Tabled, OnDrawing
<1>2. <<s, 0>> \in DrawnWalks
  BY WalkedIsClosed DEF OnDrawing, StartsAt, DrawnWalks
<1>3. DrawnWalks \subseteq Tabled \X Nat /\ ClosedUnder(DrawnMoves[Here], DrawnWalks)
  BY DrawnIsClosed DEF StartsAt
<1> QED
  BY <1>1, <1>2, <1>3, DrawnStays

\* Nodes that have been generated are the ids of places.
LEMMA GeneratedIsPlace ==
  ASSUME OnDrawing, AnswerInv, ReachedByEdges, NEW s, StartsAt(s), NEW v \in Generated
  PROVE  v \in Node /\ \E p \in Tabled : IdAt[p] = v
<1>1. v \in Node
  BY CostsOfGenerated DEF AnswerInv
<1>2. CASE v = pi.start
  BY <1>1, <1>2 DEF StartsAt
<1>3. CASE v \in Entered(Successors[map])
  <2>1. PICK x, y : IsPlace(map, x, y) /\ v = CellAt(Stride(map), x, y)
    BY <1>3, EnteredIsOpen DEF OnDrawing
  <2>2. /\ <<x, y>> \in PlacesOf(DrawnFile)
        /\ IdAt[<<x, y>>] = CellAt(Stride(map), x, y)
    BY <2>1, PlacesOfCells
  <2> QED
    BY <1>1, <2>1, <2>2 DEF Tabled
<1> QED
  BY <1>1, <1>2, <1>3 DEF ReachedByEdges

\* As many nodes as there are places are all the nodes there can be.
LEMMA CoversAll ==
  ASSUME NEW G, NEW P, NEW at, IsFiniteSet(P), NEW T, T \subseteq P,
         \A v \in G : \E p \in T : at[p] = v, NEW D, D \subseteq G,
         Cardinality(D) >= Cardinality(P)
  PROVE  D = G
<1> DEFINE img == {at[p] : p \in T}
<1>1. IsFiniteSet(T) /\ Cardinality(T) <= Cardinality(P)
      /\ Cardinality(T) \in Nat /\ Cardinality(P) \in Nat
  BY FS_Subset, FS_CardinalityType
<1>2. G \subseteq img
  OBVIOUS
<1>3. IsFiniteSet(img) /\ Cardinality(img) <= Cardinality(T)
  <2>1. [p \in T |-> at[p]] \in Surjection(T, img)
    BY DEF Surjection
  <2> QED
    BY <1>1, <2>1, FS_Surjection
<1> HIDE DEF img
<1>4. /\ IsFiniteSet(G) /\ Cardinality(G) <= Cardinality(img)
      /\ Cardinality(G) \in Nat /\ Cardinality(img) \in Nat
  BY <1>2, <1>3, FS_Subset, FS_CardinalityType
<1>5. Cardinality(D) <= Cardinality(G) /\ Cardinality(D) \in Nat
  BY <1>4, FS_Subset, FS_CardinalityType
<1>6. Cardinality(D) = Cardinality(G)
  BY <1>1, <1>3, <1>4, <1>5
<1> QED
  BY <1>4, <1>6, FS_Subset

\* The reference on the drawing reaches what the search has reached.
LEMMA DrawnCovers ==
  ASSUME OnDrawing, AnswerInv, ReachedByEdges, NEW s, StartsAt(s),
         IsFiniteSet(Node), IsFiniteSet(Places), NEW v \in Generated
  PROVE  \E y \in Drawn!ShortestFrom(Here, s) :
           IdAt[y[1]] = v /\ y[2] \in Nat /\ y[2] <= node[v].g
<1> DEFINE n == Cardinality(Places)
           succ == DrawnMoves[Here]
<1>1. s \in Places
  BY DrawnFacts DEF StartsAt, Tabled, OnDrawing
<1>2. n \in Nat /\ n # 0
  BY <1>1, FS_CardinalityType, FS_EmptySet
<1>3. PICK r : Rounds(succ, s, r, n) /\ Drawn!ShortestFrom(Here, s) = r[n]
  BY <1>2, DrawnRounds
<1>4. <<s, 0>> \in DrawnWalks
  BY WalkedIsClosed DEF OnDrawing, StartsAt, DrawnWalks
<1>5. DrawnWalks \subseteq Tabled \X Nat /\ ClosedUnder(succ, DrawnWalks)
  BY DrawnIsClosed DEF StartsAt
<1>6. StandFor(succ, Tabled, IdAt)
  BY DrawnStandsFor
<1> HIDE DEF succ
<1>7. CoveredBy(r[n], IdAt) = Generated \/ Cardinality(CoveredBy(r[n], IdAt)) >= n
  <2>1. IdAt[s] = pi.start /\ Generated # {}
    BY DEF StartsAt
  <2> HIDE DEF n
  <2> QED
    BY <1>2, <1>3, <1>4, <1>5, <1>6, <2>1, RoundsCover
<1>8. CoveredBy(r[n], IdAt) = Generated
  <2> DEFINE D == CoveredBy(r[n], IdAt)
  <2>1. D \subseteq Generated
    BY DEF CoveredBy
  <2>2. Tabled \subseteq Places
    BY DrawnFacts DEF Tabled, OnDrawing
  <2>3. \A u \in Generated : \E p \in Tabled : IdAt[p] = u
    BY GeneratedIsPlace
  <2> HIDE DEF D
  <2>4. ASSUME Cardinality(D) >= n
        PROVE  D = Generated
    BY <2>1, <2>2, <2>3, <2>4, CoversAll
  <2> QED
    BY <1>7, <2>4 DEF D
<1> QED
  BY <1>3, <1>8 DEF CoveredBy

\* It has one cost per place.
LEMMA DrawnIsOne ==
  ASSUME NEW s \in Places, IsFiniteSet(Places),
         NEW x \in Drawn!ShortestFrom(Here, s), NEW y \in Drawn!ShortestFrom(Here, s),
         x[1] = y[1]
  PROVE  x[2] = y[2]
<1> DEFINE n == Cardinality(Places)
           succ == DrawnMoves[Here]
<1>1. n \in Nat /\ n # 0
  BY FS_CardinalityType, FS_EmptySet
<1>2. PICK r : Rounds(succ, s, r, n) /\ Drawn!ShortestFrom(Here, s) = r[n]
  BY <1>1, DrawnRounds
<1>3. CASE n = 1
  BY <1>2, <1>3 DEF Rounds
<1>4. CASE n # 1
  <2>1. PICK k \in 1 .. n - 1 : k + 1 = n
    <3>1. n - 1 \in 1 .. n - 1 /\ (n - 1) + 1 = n
      BY <1>1, <1>4
    <3> QED
      BY <3>1
  <2>2. r[n] = Reference!Cheapest(Reference!Reached(succ, r[k]))
    BY <1>2, <2>1 DEF Rounds, NextRound
  <2> QED
    BY <1>2, <2>2, CheapestIsOne
<1> QED
  BY <1>3, <1>4

-----------------------------------------------------------------------------
(* The points of an experiment.                                            *)

LEMMA IdOfRowAndColumn ==
  ASSUME NEW w \in Nat \ {0}, NEW h \in Nat \ {0},
         NEW x \in 0 .. w - 1, NEW y \in 0 .. h - 1
  PROVE  /\ Grid(w, h)!ToPaddedId(y * w + x) = CellAt(Grid(w, h)!Width, x, y)
         /\ Terrain(w, h)!ToPaddedId(y * w + x) = CellAt(Terrain(w, h)!Width, x, y)
<1> DEFINE k == y * w + x
<1>1. k \in 0 .. w * h - 1 /\ k % w = x /\ k \div w = y
  BY NumberOf
<1> HIDE DEF k
<1>2. /\ Grid(w, h)!ToPaddedId(k) = CellAt(Grid(w, h)!Width, x, y)
      /\ Terrain(w, h)!ToPaddedId(k) = CellAt(Terrain(w, h)!Width, x, y)
  BY <1>1, IdOfNumber
<1> QED
  BY <1>2 DEF k

\* The id that the two programs give a point, which is that of the place meant.
LEMMA IdOfWrapped ==
  ASSUME NEW w \in Nat \ {0}, NEW h \in Nat \ {0}, NEW x \in Nat, NEW y \in Nat,
         x % w \in 0 .. w - 1, y + x \div w \in 0 .. h - 1
  PROVE  /\ Grid(w, h)!ToPaddedId(y * w + x) = CellAt(Grid(w, h)!Width, x % w, y + x \div w)
         /\ Terrain(w, h)!ToPaddedId(y * w + x)
              = CellAt(Terrain(w, h)!Width, x % w, y + x \div w)
<1> DEFINE a == x % w
           b == x \div w
           k == (y + b) * w + a
<1>1. x = b * w + a /\ b \in Int /\ a \in Int
  BY Division
<1>2. (y + b) * w = y * w + b * w
  <2> HIDE DEF a, b
  <2> QED
    BY <1>1
<1>3. y * w + x = k
  <2>1. y * w \in Int /\ b * w \in Int
    BY <1>1
  <2> HIDE DEF a, b
  <2> DEFINE p == y * w
             q == b * w
  <2> HIDE DEF p, q
  <2>2. p \in Int /\ q \in Int /\ x = q + a /\ k = (p + q) + a
    BY <1>1, <1>2, <2>1 DEF p, q
  <2>3. p + x = k
    BY <1>1, <2>2
  <2> QED
    BY <2>3 DEF p
<1>4. a \in 0 .. w - 1 /\ y + b \in 0 .. h - 1
  OBVIOUS
<1> HIDE DEF a, b
<1>5. /\ Grid(w, h)!ToPaddedId(k) = CellAt(Grid(w, h)!Width, a, y + b)
      /\ Terrain(w, h)!ToPaddedId(k) = CellAt(Terrain(w, h)!Width, a, y + b)
  BY <1>4, IdOfRowAndColumn
<1> HIDE DEF k
<1> QED
  BY <1>3, <1>5 DEF a, b

LEMMA IdsOfExperiment ==
  ASSUME NEW m, IsMap(m), NEW e, IsWithin(m, e)
  PROVE  Ids(m, e) = <<CellAt(Stride(m), e.sx % m.width, e.sy + e.sx \div m.width),
                       CellAt(Stride(m), e.gx % m.width, e.gy + e.gx \div m.width)>>
<1> DEFINE w == m.width
           h == m.height
<1>1. w \in Nat \ {0} /\ h \in Nat \ {0}
  BY DEF IsMap
<1>2. /\ e.sx \in Nat /\ e.sy \in Nat /\ e.gx \in Nat /\ e.gy \in Nat
      /\ e.sx % w \in 0 .. w - 1 /\ e.sy + e.sx \div w \in 0 .. h - 1
      /\ e.gx % w \in 0 .. w - 1 /\ e.gy + e.gx \div w \in 0 .. h - 1
  BY DEF IsWithin, IsPlace
<1> HIDE DEF w, h
<1>3. /\ Grid(w, h)!ToPaddedId(e.sy * w + e.sx)
           = CellAt(Grid(w, h)!Width, e.sx % w, e.sy + e.sx \div w)
      /\ Terrain(w, h)!ToPaddedId(e.sy * w + e.sx)
           = CellAt(Terrain(w, h)!Width, e.sx % w, e.sy + e.sx \div w)
  BY <1>1, <1>2, IdOfWrapped, ZenonT(30)
<1>4. /\ Grid(w, h)!ToPaddedId(e.gy * w + e.gx)
           = CellAt(Grid(w, h)!Width, e.gx % w, e.gy + e.gx \div w)
      /\ Terrain(w, h)!ToPaddedId(e.gy * w + e.gx)
           = CellAt(Terrain(w, h)!Width, e.gx % w, e.gy + e.gx \div w)
  BY <1>1, <1>2, IdOfWrapped, ZenonT(30)
<1>5. /\ Grid(w, h)!ProblemInstance(<<e.sx, e.sy>>, <<e.gx, e.gy>>)
           = <<Grid(w, h)!ToPaddedId(e.sy * w + e.sx), Grid(w, h)!ToPaddedId(e.gy * w + e.gx)>>
      /\ Terrain(w, h)!ProblemInstance(<<e.sx, e.sy>>, <<e.gx, e.gy>>)
           = <<Terrain(w, h)!ToPaddedId(e.sy * w + e.sx),
               Terrain(w, h)!ToPaddedId(e.gy * w + e.gx)>>
  BY DEF Grid!ProblemInstance, Grid!GetPack, Grid!ToPackId,
         Terrain!ProblemInstance, Terrain!GetPack
<1> QED
  BY <1>3, <1>4, <1>5 DEF Ids, Stride, w, h

\* What the engine is asked for, as places.
AskedStart  == Point(experiments[calls].sx, experiments[calls].sy)
AskedTarget == Point(experiments[calls].gx, experiments[calls].gy)

LEMMA AskedPlaces ==
  ASSUME OnDrawing, Asked, calls > 0, QueryAsked
  PROVE  /\ StartsAt(AskedStart)
         /\ AskedTarget \in Tabled /\ IdAt[AskedTarget] = pi.target /\ pi.target \in Node
<1> DEFINE e == experiments[calls]
           s == AskedStart
           t == AskedTarget
<1>1. IsWithin(map, e) /\ <<pi.start, pi.target>> = Ids(map, e) /\ IsMap(map)
  BY DEF Asked, OnDrawing
<1>2. /\ s = <<e.sx % map.width, e.sy + e.sx \div map.width>>
      /\ t = <<e.gx % map.width, e.gy + e.gx \div map.width>>
  BY DEF AskedStart, AskedTarget, Point
<1>3. /\ IsPlace(map, s[1], s[2]) /\ IsPlace(map, t[1], t[2])
      /\ s = <<s[1], s[2]>> /\ t = <<t[1], t[2]>>
  BY <1>1, <1>2 DEF IsWithin
<1>4. Ids(map, e) = <<CellAt(Stride(map), s[1], s[2]), CellAt(Stride(map), t[1], t[2])>>
  <2> HIDE DEF e
  <2>1. Ids(map, e) = <<CellAt(Stride(map), e.sx % map.width, e.sy + e.sx \div map.width),
                        CellAt(Stride(map), e.gx % map.width, e.gy + e.gx \div map.width)>>
    BY <1>1, IdsOfExperiment
  <2> HIDE DEF s, t
  <2> QED
    BY <1>2, <2>1
<1>5. s \in PlacesOf(DrawnFile) /\ t \in PlacesOf(DrawnFile)
      /\ IdAt[s] = pi.start /\ IdAt[t] = pi.target
  <2> HIDE DEF s, t
  <2> QED
    BY <1>1, <1>3, <1>4, PlacesOfCells
<1>6. pi.start \in Node /\ pi.target \in Node
  <2>1. <<pi.start, pi.target>> \in (Node \cup {Null}) \X Node
    BY CallsAssumption DEF QueryAsked
  <2>2. pi.start # Null
    BY <1>1 DEF IsWithin
  <2> QED
    BY <2>1, <2>2
<1> QED
  BY <1>5, <1>6 DEF StartsAt, Tabled

\* The ids of places are within the table.
LEMMA BelowSize ==
  ASSUME NEW m, IsMap(m), NEW x, NEW y, IsPlace(m, x, y), NEW H \in Nat, H >= m.height + 6
  PROVE  CellAt(Stride(m), x, y) < Stride(m) * H
<1> DEFINE W == Stride(m)
<1>1. W \in Nat \ {0} /\ x \in 0 .. W - 1 /\ y \in Nat /\ y + 4 <= H
  BY StrideIsWide DEF IsPlace
<1> HIDE DEF W
<1>2. (y + 4) * W <= H * W
  BY <1>1, Scaled
<1>3. (y + 4) * W = (y + 3) * W + W /\ H * W = W * H
  BY <1>1
<1> DEFINE a == (y + 3) * W
<1>4. a \in Int /\ W * H \in Int
  BY <1>1
<1>5. a + W <= W * H
  BY <1>2, <1>3
<1> HIDE DEF a
<1>6. a + x < W * H
  BY <1>1, <1>4, <1>5
<1> QED
  BY <1>6 DEF CellAt, W, a

\* A search starts everywhere on terrains, and on open places of gridmaps.
LEMMA StartsWhereOpen ==
  ASSUME NEW m, IsMap(m), NEW x, NEW y, IsPlace(m, x, y)
  PROVE  CellAt(Stride(m), x, y) \in StartableOf(m)
           <=> (m.alg = "astar_wgm" \/ Worth(m, x, y) # 0)
<1> DEFINE id == CellAt(Stride(m), x, y)
           w == m.width
           h == m.height
<1>1. w \in Nat \ {0} /\ h \in Nat \ {0} /\ DOMAIN m.cells = CellIds(m)
  BY DEF IsMap
<1>2. id \in CellIds(m)
  BY DEF IsPlace, CellIds, IdsOf
<1>3. /\ Grid(w, h)!Height = h + 6 /\ Terrain(w, h)!Height = h + 6
      /\ h + 6 \in Nat /\ h + 6 >= m.height + 6
  BY <1>1 DEF Grid!Height, Grid!PADDED_ROWS, Terrain!Height, Terrain!PADDED_ROWS
<1>4. id < Stride(m) * (h + 6)
  BY <1>3, BelowSize
<1>5. /\ Grid(w, h)!Cells = IdsOf(Grid(w, h)!Width, w, h)
      /\ Terrain(w, h)!Cells = IdsOf(Terrain(w, h)!Width, w, h)
  BY <1>1, CellsOfMaps
<1>6. CASE m.alg = "astar_wgm"
  <2>1. Stride(m) = Terrain(w, h)!Width
    BY <1>6 DEF Stride
  <2>2. id \in Terrain(w, h)!Cells /\ id < Terrain(w, h)!Width * Terrain(w, h)!Height
    BY <1>2, <1>3, <1>4, <1>5, <2>1 DEF CellIds
  <2> HIDE DEF id
  <2>3. id \in StartableOf(m)
    BY <1>6, <2>2 DEF StartableOf, Terrain!StartNodes
  <2> QED
    BY <1>6, <2>3 DEF id
<1>7. CASE m.alg # "astar_wgm"
  <2>1. Stride(m) = Grid(w, h)!Width
    BY <1>7 DEF Stride
  <2>2. id \in Grid(w, h)!Cells /\ id < Grid(w, h)!Width * Grid(w, h)!Height
    BY <1>2, <1>3, <1>4, <1>5, <2>1 DEF CellIds
  <2>3. id \in Free(m) <=> Worth(m, x, y) # 0
    BY <1>1, <1>2 DEF Free, Worth
  <2> HIDE DEF id
  <2>4. id \in StartableOf(m) <=> id \in Free(m)
    BY <1>7, <2>2 DEF StartableOf, Grid!StartNodes
  <2> QED
    BY <1>7, <2>3, <2>4 DEF id
<1> QED
  BY <1>6, <1>7

-----------------------------------------------------------------------------
(* Answers on the drawing.                                                 *)

(* The engine as the program sets it up: the default traits, no weight,    *)
(* and the policies' rules for where a search may start.                   *)
EngineIsSet ==
  /\ AC = "any" /\ FC = "until_exhaustion" /\ Unweighted
  /\ \A m \in Maps : Startable[m] = StartableOf(m)

\* The drawings are finite, and paths of the map are no longer than size_t goes.
NumbersFit ==
  /\ IsFiniteSet(Places) /\ IsFiniteSet(Node)
  /\ SizeWrap \in Nat /\ Cardinality(Node) < SizeWrap

\* The engine has answered an experiment on a drawing.
OnAnswer ==
  /\ OnDrawing /\ ExactInv /\ Asked /\ Answered
  /\ EngineIsSet /\ NumbersFit

AskedCosts == DrawnCosts(experiments[calls])

LEMMA AnswerFacts ==
  ASSUME OnAnswer
  PROVE  /\ AnswerInv /\ OrderInv /\ Inv /\ ReachedByEdges /\ QueryAsked
         /\ StartsAt(AskedStart) /\ AskedStart \in PlacesOf(DrawnFile)
         /\ AskedStart \in Places
         /\ AskedTarget \in PlacesOf(DrawnFile) /\ IdAt[AskedTarget] = pi.target
         /\ pi.target \in Node /\ pi.start \in Node
         /\ par.w = 1 /\ map.alg = args.alg /\ DrawnFile \in MapFile
<1>1. /\ AnswerInv /\ OrderInv /\ Inv /\ ReachedByEdges /\ QueryAsked
  BY DEF OnAnswer, ExactInv, ConsistentInv, OrderInv
<1>2. /\ OnDrawing /\ Asked /\ calls > 0 /\ par \in Params /\ EngineIsSet
  BY DEF OnAnswer, Answered, Asked
<1>3. /\ StartsAt(AskedStart) /\ AskedTarget \in Tabled
      /\ IdAt[AskedTarget] = pi.target /\ pi.target \in Node
  BY <1>1, <1>2, AskedPlaces
<1>4. DrawnFile \in MapFile /\ PlacesOf(DrawnFile) \subseteq Places
  BY <1>2, DrawnFacts DEF OnDrawing
<1>5. map.alg = args.alg
  BY <1>2, <1>4, BuiltSizes DEF OnDrawing
<1>6. par.w = 1
  BY <1>2 DEF EngineIsSet, Unweighted
<1> QED
  BY <1>1, <1>3, <1>4, <1>5, <1>6 DEF StartsAt, Tabled

\* A search of a gridmap does not start in an obstacle.
LEMMA StartIsDrawn ==
  ASSUME OnAnswer
  PROVE  StartExists <=> (args.alg = "astar_wgm" \/ IsOpenAt(args, DrawnFile, AskedStart))
<1> DEFINE s == AskedStart
<1>1. /\ s \in PlacesOf(DrawnFile) /\ IdAt[s] = pi.start /\ pi.start \in Node
      /\ map.alg = args.alg /\ DrawnFile \in MapFile
  BY AnswerFacts DEF StartsAt
<1>2. OnDrawing /\ EngineIsSet
  BY DEF OnAnswer
<1>3. s = <<s[1], s[2]>> /\ IsPlace(map, s[1], s[2]) /\ pi.start = CellAt(Stride(map), s[1], s[2])
  <2> HIDE DEF s
  <2> QED
    BY <1>1, <1>2, PlaceDrawn
<1>4. StartExists <=> pi.start \in StartableOf(map)
  BY <1>1, <1>2, MapsAssumption DEF StartExists, EngineIsSet, OnDrawing
<1>5. IsOpenAt(args, DrawnFile, s) <=> Worth(map, s[1], s[2]) # 0
  <2> HIDE DEF s
  <2>1. IsOpenAt(args, DrawnFile, <<s[1], s[2]>>) <=> Worth(map, s[1], s[2]) # 0
    BY <1>1, <1>2, DrawnFacts, OpenDrawn DEF OnDrawing
  <2> QED
    BY <1>3, <2>1
<1>6. pi.start \in StartableOf(map) <=> (map.alg = "astar_wgm" \/ Worth(map, s[1], s[2]) # 0)
  <2> HIDE DEF s
  <2> QED
    BY <1>2, <1>3, StartsWhereOpen DEF OnDrawing
<1> QED
  BY <1>1, <1>4, <1>5, <1>6

\* The costs of the paths of the drawing that answer the experiment.
LEMMA CostsAsked ==
  ASSUME OnAnswer
  PROVE  AskedCosts =
           IF StartExists
           THEN {x[2] : x \in {y \in Drawn!ShortestFrom(Here, AskedStart) : y[1] = AskedTarget}}
           ELSE {}
<1>1. StartExists <=> (args.alg = "astar_wgm" \/ IsOpenAt(args, DrawnFile, AskedStart))
  BY StartIsDrawn
<1> QED
  BY <1>1 DEF AskedCosts, DrawnCosts, AskedStart, AskedTarget, DrawnFile

\* Without a cost there is no path, in the map and in the drawing.
LEMMA FailureIsDrawn ==
  ASSUME OnAnswer, sol.sum = CostMax
  PROVE  AskedCosts = {} /\ sol.path = <<>>
<1>1. Inv /\ NoneFound /\ Answered /\ FC = "until_exhaustion" /\ OnDrawing
  BY AnswerFacts DEF OnAnswer, ExactInv, EngineIsSet
<1>2. sol.s_node = Null /\ sol.path = <<>>
  BY <1>1 DEF NoneFound, Inv, SearchInv, IncumbentIsTarget
<1>3. CASE ~StartExists
  BY <1>2, <1>3, CostsAsked
<1>4. CASE StartExists
  <2>1. Separates(Generated, pi.start, pi.target)
    BY <1>1, <1>2, <1>4, FailureSeparates DEF FailureMeansUnreachable
  <2> DEFINE s == AskedStart
             X == {x \in Tabled \X Nat : IdAt[x[1]] \in Generated}
             succ == DrawnMoves[Here]
  <2>2. StartsAt(s) /\ s \in Places
    BY AnswerFacts
  <2>3. X \subseteq Tabled \X Nat /\ <<s, 0>> \in X
    BY <2>1, <2>2 DEF Separates, StartsAt
  <2>4. ASSUME NEW x \in X, NEW d \in DOMAIN succ[x[1]]
        PROVE  <<succ[x[1]][d].node, x[2] + succ[x[1]][d].cost>> \in X
    <3> DEFINE p == x[1]
               e(k) == Successors[map][IdAt[p]][k]
    <3>1. p \in Tabled /\ x[2] \in Nat /\ IdAt[p] \in Generated /\ IdAt[p] \in Node
      BY DEF Tabled
    <3>2. PICK k \in DOMAIN Successors[map][IdAt[p]] : Same(succ[p][d], e(k))
      BY <1>1, <3>1, EdgesDrawn
    <3>3. succ[p][d].node \in PlacesOf(DrawnFile)
      BY <1>1, <3>1, EdgesDrawn
    <3>4. e(k).node \in Node /\ e(k).cost \in Nat
      BY <1>1, <3>1, EdgeOfTable DEF OnDrawing
    <3>5. e(k).node \in Generated
      BY <2>1, <3>1 DEF Separates
    <3>6. IdAt[succ[p][d].node] = e(k).node /\ succ[p][d].cost = e(k).cost
      BY <3>2 DEF Same
    <3> QED
      BY <3>1, <3>3, <3>4, <3>5, <3>6 DEF Tabled
  <2>5. Drawn!ShortestFrom(Here, s) \subseteq X
    <3>1. ClosedUnder(succ, X)
      BY <2>4 DEF ClosedUnder
    <3> HIDE DEF X, succ, s
    <3>2. IsFiniteSet(Places)
      BY DEF OnAnswer, NumbersFit
    <3> QED
      BY <1>1, <2>2, <2>3, <3>1, <3>2, DrawnStays DEF succ
  <2>6. IdAt[AskedTarget] \notin Generated
    BY <2>1, AnswerFacts DEF Separates
  <2>7. ~\E y \in Drawn!ShortestFrom(Here, s) : y[1] = AskedTarget
    BY <2>5, <2>6
  <2> QED
    BY <1>2, <1>4, <2>7, CostsAsked
<1> QED
  BY <1>3, <1>4

-----------------------------------------------------------------------------
(* How near the answers are.                                               *)

\* No two moves from a place lead to the same cell.
LEMMA MovesDiffer ==
  ASSUME NEW m, IsMap(m), IsTabled(m)
  PROVE  OneCost(m)
<1> SUFFICES ASSUME NEW u \in Node, NEW j \in DOMAIN Successors[m][u],
                    NEW k \in DOMAIN Successors[m][u],
                    Successors[m][u][j].node = Successors[m][u][k].node
             PROVE  Successors[m][u][j].cost = Successors[m][u][k].cost
  BY DEF OneCost
<1>1. PICK x, y, d : /\ IsPlace(m, x, y) /\ u = CellAt(Stride(m), x, y)
                     /\ d \in MapMoves(m, x, y)
                     /\ Successors[m][u][j] = EdgeOfMove(m, x, y, d)
  BY EdgeIsMove
<1>2. PICK a, b, e : /\ IsPlace(m, a, b) /\ u = CellAt(Stride(m), a, b)
                     /\ e \in MapMoves(m, a, b)
                     /\ Successors[m][u][k] = EdgeOfMove(m, a, b, e)
  BY EdgeIsMove
<1>3. a = x /\ b = y
  <2>1. /\ u % Stride(m) = x /\ u \div Stride(m) = y + 3 /\ x \in Int /\ y \in Int
    BY <1>1, PlaceOfId
  <2>2. /\ u % Stride(m) = a /\ u \div Stride(m) = b + 3 /\ a \in Int /\ b \in Int
    BY <1>2, PlaceOfId
  <2> QED
    BY <2>1, <2>2
<1>4. d \in Steps8 /\ e \in Steps8 /\ Worth(m, x + d[1], y + d[2]) # 0
      /\ Worth(m, x + e[1], y + e[2]) # 0
  BY <1>1, <1>2, <1>3 DEF MapMoves, MayPass
<1>5. IsPlace(m, x + d[1], y + d[2]) /\ IsPlace(m, x + e[1], y + e[2])
  BY <1>4 DEF Worth
<1>6. CellAt(Stride(m), x + d[1], y + d[2]) = CellAt(Stride(m), x + e[1], y + e[2])
  BY <1>1, <1>2, <1>3 DEF EdgeOfMove
<1>7. d[1] = e[1] /\ d[2] = e[2]
  <2> DEFINE t == CellAt(Stride(m), x + d[1], y + d[2])
  <2>1. t % Stride(m) = x + d[1] /\ t \div Stride(m) = (y + d[2]) + 3
    BY <1>5, PlaceOfId, Zenon
  <2>2. t % Stride(m) = x + e[1] /\ t \div Stride(m) = (y + e[2]) + 3
    <3>1. /\ CellAt(Stride(m), x + e[1], y + e[2]) % Stride(m) = x + e[1]
          /\ CellAt(Stride(m), x + e[1], y + e[2]) \div Stride(m) = (y + e[2]) + 3
      BY <1>5, PlaceOfId, Zenon
    <3> QED
      BY <1>6, <3>1
  <2> HIDE DEF t
  <2>3. x \in Int /\ y \in Int /\ d[1] \in Int /\ d[2] \in Int /\ e[1] \in Int /\ e[2] \in Int
    BY <1>1, <1>4, StepFacts DEF IsPlace
  <2>4. x + d[1] = x + e[1] /\ (y + d[2]) + 3 = (y + e[2]) + 3
    BY <2>1, <2>2
  <2> DEFINE f == d[1]
             g == d[2]
             h == e[1]
             l == e[2]
  <2> HIDE DEF f, g, h, l
  <2>5. /\ x \in Int /\ y \in Int /\ f \in Int /\ g \in Int /\ h \in Int /\ l \in Int
        /\ x + f = x + h /\ (y + g) + 3 = (y + l) + 3
    BY <2>3, <2>4 DEF f, g, h, l
  <2>6. f = h /\ g = l
    BY <2>5
  <2> QED
    BY <2>6 DEF f, g, h, l
<1>8. d = e
  BY <1>4, <1>7, StepFacts
<1> QED
  BY <1>1, <1>2, <1>3, <1>8

\* What a move on a gridmap costs beyond what its end is estimated away.
LEMMA SlackOfMove ==
  ASSUME NEW m, IsMap(m), m.alg \in GridAlgs, HasFloor(m), NEW x, NEW y, IsPlace(m, x, y),
         NEW d \in MapMoves(m, x, y)
  PROVE  LET u == CellAt(Stride(m), x, y)
             v == CellAt(Stride(m), x + d[1], y + d[2])
             slack == CostOfMove(m, x, y, d) - Estimate(m, u, v)
         IN  /\ m.alg # "dijkstra" => slack = 0
             /\ m.alg = "dijkstra" => slack \in Cardinal .. Diagonal
             /\ CostOfMove(m, x, y, d) \in Cardinal .. Diagonal
<1> DEFINE u == CellAt(Stride(m), x, y)
           v == CellAt(Stride(m), x + d[1], y + d[2])
<1>1. d \in Steps8 /\ Worth(m, x + d[1], y + d[2]) # 0 /\ (m.alg = "astar4c" => d \in Straight)
  BY DEF MapMoves, MayPass
<1>2. IsPlace(m, x + d[1], y + d[2])
  BY <1>1 DEF Worth
<1>3. /\ u \in Int /\ u % Stride(m) = x /\ u \div Stride(m) = y + 3 /\ x \in Int /\ y \in Int
  BY PlaceOfId
<1>4. /\ v \in Int /\ v % Stride(m) = x + d[1] /\ v \div Stride(m) = (y + d[2]) + 3
  BY <1>2, PlaceOfId, Zenon
<1>5. /\ d[1] \in -1 .. 1 /\ d[2] \in -1 .. 1 /\ ~(d[1] = 0 /\ d[2] = 0)
      /\ d \in Straight <=> d[1] = 0 \/ d[2] = 0
  BY <1>1, StepFacts
<1>6. CostOfMove(m, x, y, d) = IF d \in Straight THEN Cardinal ELSE Diagonal
  BY DEF CostOfMove, GridAlgs
<1>7. Cardinal \in Nat /\ Diagonal \in Nat /\ Cardinal <= Diagonal
  BY CostAssumption
<1>8. Estimate(m, u, v) =
        IF m.alg = "dijkstra" THEN 0
        ELSE IF m.alg = "astar" THEN OctileOf(FarX(m, u, v), FarY(m, u, v))
        ELSE IF m.alg = "astar4c" THEN Cardinal * (FarX(m, u, v) + FarY(m, u, v))
        ELSE Floor(m) * OctileOf(FarX(m, u, v), FarY(m, u, v))
  <2> HIDE DEF u, v
  <2> QED
    BY <1>3, <1>4, EstimateIs
<1> DEFINE p == IF d[1] = 0 THEN 0 ELSE 1
           q == IF d[2] = 0 THEN 0 ELSE 1
<1>9. FarX(m, u, v) = p /\ FarY(m, u, v) = q
  <2>1. FarX(m, u, v) = Away(x, x + d[1])
    <3> HIDE DEF u, v
    <3> QED
      BY <1>3, <1>4 DEF FarX
  <2>2. FarY(m, u, v) = Away(y + 3, (y + d[2]) + 3)
    <3> HIDE DEF u, v
    <3> QED
      BY <1>3, <1>4 DEF FarY
  <2>3. Away(x, x + d[1]) = p
    BY <1>3, <1>5 DEF Away
  <2>4. Away(y + 3, (y + d[2]) + 3) = q
    BY <1>3, <1>5 DEF Away
  <2> QED
    BY <2>1, <2>2, <2>3, <2>4
<1>10. m.alg \in {"dijkstra", "astar", "astar4c"}
  BY DEF GridAlgs
<1>11. d \in Straight <=> p = 0 \/ q = 0
  BY <1>5
<1>12. p \in 0 .. 1 /\ q \in 0 .. 1 /\ ~(p = 0 /\ q = 0)
  BY <1>5
<1> HIDE DEF u, v, p, q
<1>13. CASE m.alg = "dijkstra"
  BY <1>6, <1>7, <1>8, <1>13 DEF u, v
<1>14. CASE m.alg = "astar"
  <2>1. OctileOf(p, q) = IF p = 1 /\ q = 1 THEN Diagonal ELSE Cardinal
    BY <1>7, <1>12 DEF OctileOf
  <2>2. Estimate(m, u, v) = CostOfMove(m, x, y, d)
    BY <1>6, <1>8, <1>9, <1>11, <1>12, <1>14, <2>1
  <2> QED
    BY <1>6, <1>7, <1>14, <2>2 DEF u, v
<1>15. CASE m.alg = "astar4c"
  <2>1. p + q = 1
    BY <1>1, <1>11, <1>12, <1>15
  <2>2. Estimate(m, u, v) = CostOfMove(m, x, y, d)
    BY <1>1, <1>6, <1>7, <1>8, <1>9, <1>15, <2>1
  <2> QED
    BY <1>6, <1>7, <1>15, <2>2 DEF u, v
<1> QED
  BY <1>10, <1>13, <1>14, <1>15

\* On a gridmap the heuristic is consistent from the start on.
LEMMA GridIsConsistent ==
  ASSUME OnAnswer, args.alg \in GridAlgs
  PROVE  Consistent /\ HasFloor(map)
<1>1. /\ IsMap(map) /\ map \in Maps /\ IsTabled(map) /\ Node \subseteq Int
      /\ map.alg \in GridAlgs /\ map.alg # "astar_wgm"
      /\ pi.start \in Node /\ pi.target \in Node /\ par.w = 1 /\ QueryAsked /\ calls > 0
  BY AnswerFacts DEF OnAnswer, OnDrawing, GridAlgs, Answered
<1>2. HasFloor(map)
  BY <1>1 DEF HasFloor
<1>3. pi.target \in ConsistentTargets[map]
  <2>1. pi.target \in Targets
    <3> DEFINE q == <<pi.start, pi.target>>
    <3>1. q \in Queries /\ q[2] = pi.target
      BY <1>1 DEF QueryAsked
    <3> HIDE DEF q
    <3> QED
      BY <3>1 DEF Targets
  <2> QED
    BY <1>1, <1>2, <2>1, MapIsConsistent
<1>4. ASSUME NEW k \in DOMAIN Successors[map][pi.start]
      PROVE  LowerBound[map][pi.start][pi.target]
               <= Successors[map][pi.start][k].cost
                    + LowerBound[map][Successors[map][pi.start][k].node][pi.target]
  <2> DEFINE u == pi.start
             t == pi.target
             e == Successors[map][u][k]
  <2>1. PICK x, y, d : /\ IsPlace(map, x, y) /\ u = CellAt(Stride(map), x, y)
                       /\ d \in MapMoves(map, x, y) /\ e = EdgeOfMove(map, x, y, d)
    BY <1>1, EdgeIsMove
  <2>2. Worth(map, x, y) # 0
    BY <1>1, <2>1 DEF MapMoves, MayPass
  <2>3. e.node \in Node /\ t \in Int
    BY <1>1, EdgeOfTable
  <2>4. /\ LowerBound[map][u][t] = Estimate(map, u, t)
        /\ LowerBound[map][e.node][t] = Estimate(map, e.node, t)
    BY <1>1, <2>3 DEF IsTabled
  <2>5. /\ e.node = CellAt(Stride(map), x + d[1], y + d[2])
        /\ e.cost = CostOfMove(map, x, y, d)
    BY <2>1 DEF EdgeOfMove
  <2> HIDE DEF e, u, t
  <2>6. Estimate(map, u, t) <= e.cost + Estimate(map, e.node, t)
    <3>1. Estimate(map, CellAt(Stride(map), x, y), t)
            <= CostOfMove(map, x, y, d)
                 + Estimate(map, CellAt(Stride(map), x + d[1], y + d[2]), t)
      BY <1>1, <1>2, <2>1, <2>2, <2>3, MoveIsConsistent
    <3> QED
      BY <2>1, <2>5, <3>1
  <2>7. LowerBound[map][u][t] <= e.cost + LowerBound[map][e.node][t]
    BY <2>4, <2>6
  <2> QED
    BY <2>7 DEF e, u, t
<1> QED
  BY <1>1, <1>2, <1>3, <1>4 DEF Consistent, ConsistentAt

\* The same of the edges in the tables of a gridmap.
LEMMA SlackOfEdge ==
  ASSUME NEW m \in Maps, IsMap(m), IsTabled(m), m.alg \in GridAlgs, Node \subseteq Int,
         NEW u \in Node, NEW k \in DOMAIN Successors[m][u]
  PROVE  LET e == Successors[m][u][k]
             slack == e.cost - LowerBound[m][u][e.node]
         IN  /\ e.node \in Node /\ e.cost \in Cardinal .. Diagonal /\ slack \in Int
             /\ m.alg # "dijkstra" => slack = 0
             /\ m.alg = "dijkstra" => slack \in Cardinal .. Diagonal
<1> DEFINE e == Successors[m][u][k]
<1>1. HasFloor(m)
  BY DEF HasFloor, GridAlgs
<1>2. PICK x, y, d : /\ IsPlace(m, x, y) /\ u = CellAt(Stride(m), x, y)
                     /\ d \in MapMoves(m, x, y) /\ e = EdgeOfMove(m, x, y, d)
  BY EdgeIsMove
<1>3. e.node \in Node /\ e.cost \in Nat
  BY EdgeOfTable
<1>4. LowerBound[m][u][e.node] = Estimate(m, u, e.node) /\ Estimate(m, u, e.node) \in Nat
  BY <1>1, <1>3, EstimateType DEF IsTabled
<1>5. /\ e.node = CellAt(Stride(m), x + d[1], y + d[2])
      /\ e.cost = CostOfMove(m, x, y, d)
  BY <1>2 DEF EdgeOfMove
<1> HIDE DEF e
<1>6. /\ m.alg # "dijkstra" => e.cost - Estimate(m, u, e.node) = 0
      /\ m.alg = "dijkstra" => e.cost - Estimate(m, u, e.node) \in Cardinal .. Diagonal
      /\ e.cost \in Cardinal .. Diagonal
  <2> DEFINE c == CostOfMove(m, x, y, d)
             v == CellAt(Stride(m), x + d[1], y + d[2])
             w == CellAt(Stride(m), x, y)
  <2>1. /\ m.alg # "dijkstra" => c - Estimate(m, w, v) = 0
        /\ m.alg = "dijkstra" => c - Estimate(m, w, v) \in Cardinal .. Diagonal
        /\ c \in Cardinal .. Diagonal
    BY <1>1, <1>2, SlackOfMove
  <2>2. c = e.cost /\ v = e.node /\ w = u
    BY <1>2, <1>5
  <2> HIDE DEF c, v, w
  <2> QED
    BY <2>1, <2>2
<1>7. e.cost - Estimate(m, u, e.node) \in Int
  BY <1>3, <1>4
<1> QED
  BY <1>3, <1>4, <1>6, <1>7 DEF e

\* A cost that is reported is that of a path of the drawing, or more.
LEMMA SuccessIsDrawn ==
  ASSUME OnAnswer, sol.sum # CostMax
  PROVE  /\ sol.sum \in Nat /\ pi.target \in Generated /\ node[pi.target].g = sol.sum
         /\ Found /\ StartExists /\ AskedCosts # {}
         /\ \A best \in AskedCosts :
              /\ best \in Nat /\ best <= sol.sum
              /\ <<pi.target, best>> \in Walked(map, pi.start)
<1> DEFINE s == AskedStart
           t == AskedTarget
           S == Drawn!ShortestFrom(Here, s)
<1>1. /\ AnswerInv /\ Inv /\ ReachedByEdges /\ StartsAt(s) /\ s \in Places
      /\ t \in PlacesOf(DrawnFile) /\ IdAt[t] = pi.target
      /\ OnDrawing /\ IsFiniteSet(Node) /\ IsFiniteSet(Places) /\ Answered
  BY AnswerFacts DEF OnAnswer, NumbersFit
<1>2. sol.s_node # Null /\ sol.sum \in Nat
  BY <1>1 DEF Inv, SearchInv, IncumbentIsTarget, TypeInv, TypeOK, Solution
<1>3. StartExists /\ Found
  BY <1>1, <1>2 DEF OnAnswer, ExactInv, NoneFound, Answered, Found
<1>4. pi.target \in Generated /\ node[pi.target].g = sol.sum
  <2>1. OneCost(map)
    BY <1>1, MovesDiffer DEF OnDrawing
  <2> QED
    BY <2>1 DEF OnAnswer, EngineIsSet, ExactInv, FirstStays
<1>5. ASSUME NEW y \in S
      PROVE  y \in Tabled \X Nat /\ <<IdAt[y[1]], y[2]>> \in Walked(map, pi.start)
  <2> HIDE DEF s, t
  <2> QED
    BY <1>1, DrawnIsWalked DEF DrawnWalks
<1>6. PICK z \in S : IdAt[z[1]] = pi.target /\ z[2] \in Nat /\ z[2] <= sol.sum
  <2> HIDE DEF s, t
  <2> QED
    BY <1>1, <1>4, DrawnCovers
<1>7. z[1] = t
  BY <1>1, <1>5, <1>6, IdsDiffer DEF Tabled
<1>8. AskedCosts = {x[2] : x \in {y \in S : y[1] = t}}
  BY <1>3, CostsAsked
<1>9. ASSUME NEW best \in AskedCosts
      PROVE  best = z[2] /\ <<pi.target, best>> \in Walked(map, pi.start)
  <2>1. PICK x \in S : x[1] = t /\ x[2] = best
    BY <1>8
  <2> HIDE DEF s
  <2> QED
    BY <1>1, <1>5, <1>7, <2>1, DrawnIsOne
<1> QED
  BY <1>2, <1>3, <1>4, <1>6, <1>7, <1>8, <1>9

\* How far the cost of a gridmap is from the least one.
LEMMA NearOnGrid ==
  ASSUME OnAnswer, args.alg \in GridAlgs, sol.sum # CostMax, NEW best \in AskedCosts
  PROVE  /\ args.alg \in {"astar", "astar4c"} => sol.sum = best
         /\ args.alg = "dijkstra" => sol.sum <= best + Diagonal - Cardinal
<1> DEFINE t == pi.target
           gap == Spread(Successors[map], LowerBound[map], t)
<1>1. /\ IsMap(map) /\ map \in Maps /\ IsTabled(map) /\ Node \subseteq Int
      /\ map.alg \in GridAlgs /\ map.alg = args.alg /\ t \in Node /\ Inv /\ IsFiniteSet(Node)
  BY AnswerFacts DEF OnAnswer, OnDrawing, NumbersFit
<1>2. /\ sol.sum \in Nat /\ t \in Generated /\ node[t].g = sol.sum /\ StartExists
      /\ best \in Nat /\ best <= sol.sum /\ <<t, best>> \in Walked(map, pi.start)
  BY SuccessIsDrawn
<1>3. Consistent /\ calls > 0
  BY GridIsConsistent DEF OnAnswer, Answered
<1>4. sol.sum <= best \/ sol.sum <= best + gap
  BY <1>2, <1>3 DEF OnAnswer, ExactInv, ConsistentInv, SumIsNear
<1>5. Cardinal \in Nat /\ Diagonal \in Nat /\ Cardinal <= Diagonal
  BY CostAssumption
<1>6. CASE t = pi.start
  <2>1. sol.sum = 0
    BY <1>1, <1>2, <1>3, <1>6 DEF Inv, SearchInv, StartIsRoot
  <2> QED
    BY <1>2, <1>5, <2>1
<1>7. CASE t # pi.start
  <2>1. Hangs(t)
    BY <1>2, <1>3, <1>7 DEF OnAnswer, ExactInv, ExactTree
  <2>2. PICK u \in Node : HangsBy(u, t)
    <3>1. node[t].parent \in Generated
      BY <2>1 DEF Hangs
    <3>2. node[t].parent \in Node
      BY <1>1, <3>1, CostsOfGenerated
    <3> QED
      BY <2>1, <3>2 DEF Hangs
  <2>3. PICK k \in DOMAIN Successors[map][u] : Successors[map][u][k].node = t
    BY <2>2 DEF HangsBy
  <2> DEFINE Slack(a, j) == Successors[map][a][j].cost - LowerBound[map][a][t]
  <2>4. PICK a \in Node, b \in Node :
          \E j \in DOMAIN Successors[map][a], h \in DOMAIN Successors[map][b] :
            /\ Successors[map][a][j].node = t /\ Successors[map][b][h].node = t
            /\ gap = Slack(a, j) - Slack(b, h)
    <3> HIDE DEF t
    <3> QED
      BY <1>1, <2>3, SpreadBounds
  <2>5. PICK j \in DOMAIN Successors[map][a], h \in DOMAIN Successors[map][b] :
          /\ Successors[map][a][j].node = t /\ Successors[map][b][h].node = t
          /\ gap = Slack(a, j) - Slack(b, h)
    BY <2>4
  <2>6. /\ Slack(a, j) \in Int
        /\ map.alg # "dijkstra" => Slack(a, j) = 0
        /\ map.alg = "dijkstra" => Slack(a, j) \in Cardinal .. Diagonal
    <3>1. Successors[map][a][j].node = t
      BY <2>5
    <3> HIDE DEF t
    <3> QED
      BY <1>1, <3>1, SlackOfEdge
  <2>7. /\ Slack(b, h) \in Int
        /\ map.alg # "dijkstra" => Slack(b, h) = 0
        /\ map.alg = "dijkstra" => Slack(b, h) \in Cardinal .. Diagonal
    <3>1. Successors[map][b][h].node = t
      BY <2>5
    <3> HIDE DEF t
    <3> QED
      BY <1>1, <3>1, SlackOfEdge
  <2>8. /\ gap \in Int
        /\ map.alg # "dijkstra" => gap = 0
        /\ map.alg = "dijkstra" => gap <= Diagonal - Cardinal
    <3> DEFINE p == Slack(a, j)
               q == Slack(b, h)
    <3>1. gap = p - q
      BY <2>5
    <3> HIDE DEF p, q, gap
    <3>2. /\ p \in Int /\ q \in Int
          /\ map.alg # "dijkstra" => p = 0 /\ q = 0
          /\ map.alg = "dijkstra" => p \in Cardinal .. Diagonal /\ q \in Cardinal .. Diagonal
      BY <2>6, <2>7 DEF p, q
    <3> QED
      BY <1>5, <3>1, <3>2
  <2> HIDE DEF gap
  <2>9. CASE map.alg = "dijkstra"
    BY <1>1, <1>2, <1>4, <1>5, <2>8, <2>9
  <2>10. CASE map.alg # "dijkstra"
    <3>1. sol.sum = best
      BY <1>2, <1>4, <2>8, <2>10
    <3> QED
      BY <1>1, <2>10, <3>1
  <2> QED
    BY <2>9, <2>10
<1> QED
  BY <1>6, <1>7

\* A path without a circle is no longer than there are nodes.
LEMMA ShortPath ==
  ASSUME NEW N, IsFiniteSet(N), NEW p \in Seq(N),
         \A j, k \in DOMAIN p : p[j] = p[k] => j = k
  PROVE  Len(p) <= Cardinality(N)
<1>1. p \in [1 .. Len(p) -> N] /\ Len(p) \in Nat /\ DOMAIN p = 1 .. Len(p)
  OBVIOUS
<1>2. p \in Injection(1 .. Len(p), N)
  BY <1>1 DEF Injection, IsInjective
<1>3. Cardinality(1 .. Len(p)) <= Cardinality(N)
  BY <1>2, FS_Injection
<1>4. Cardinality(1 .. Len(p)) = Len(p)
  <2> DEFINE n == Len(p)
  <2> HIDE DEF n
  <2>1. n \in Nat
    BY <1>1 DEF n
  <2>2. Cardinality(1 .. n) = IF 1 > n THEN 0 ELSE n - 1 + 1
    BY <2>1, FS_Interval
  <2>3. Cardinality(1 .. n) = n
    BY <2>1, <2>2
  <2> QED
    BY <2>3 DEF n
<1> QED
  BY <1>3, <1>4

\* Where a path goes from 0 to n in steps of a to b, k steps reach k * a .. k * b.
LEMMA StepsAddUp ==
  ASSUME NEW n \in Nat \ {0}, NEW a \in Nat, NEW b \in Nat, NEW f, f[1] = 0,
         \A k \in 1 .. n - 1 : \E c \in a .. b : f[k + 1] = f[k] + c
  PROVE  f[n] \in (n - 1) * a .. (n - 1) * b
<1> DEFINE H == {k \in 1 .. n : /\ f[k] \in Int
                                /\ (k - 1) * a <= f[k] /\ f[k] <= (k - 1) * b}
<1>1. 1 \in H
  OBVIOUS
<1>2. ASSUME NEW k \in 1 .. n - 1, k \in H
      PROVE  k + 1 \in H
  <2>1. PICK c \in a .. b : f[k + 1] = f[k] + c
    OBVIOUS
  <2> DEFINE x == f[k]
             u == (k - 1) * a
             v == (k - 1) * b
  <2>2. k * a = u + a /\ k * b = v + b /\ u \in Int /\ v \in Int
    OBVIOUS
  <2>3. x \in Int /\ u <= x /\ x <= v
    BY <1>2
  <2> HIDE DEF u, v, x
  <2>4. u + a <= x + c /\ x + c <= v + b /\ x + c \in Int
    BY <2>2, <2>3
  <2>5. k * a <= f[k + 1] /\ f[k + 1] <= k * b /\ f[k + 1] \in Int
    BY <2>1, <2>2, <2>4 DEF x
  <2>6. k + 1 \in 1 .. n /\ (k + 1) - 1 = k
    OBVIOUS
  <2> QED
    BY <2>5, <2>6
<1>3. 1 .. n \subseteq H
  <2> HIDE DEF H
  <2> QED
    BY <1>1, <1>2, UpToLast
<1>4. n \in H
  BY <1>3
<1> QED
  BY <1>4

\* The number of moves of the path, and how it is printed.
LEMMA LengthIsPrinted ==
  ASSUME OnAnswer, PathIsReal, Found
  PROVE  /\ PathLength = Len(sol.path) - 1 /\ Len(sol.path) \in Nat \ {0}
         /\ PathLength = 0 <=> AskedStart = AskedTarget
<1> DEFINE p == sol.path
           N == Cardinality(Node)
<1>1. /\ p \in Seq(Node) /\ p # <<>> /\ p[1] = pi.start /\ p[Len(p)] = pi.target
      /\ \A j, k \in DOMAIN p : p[j] = p[k] => j = k
  <2>1. p \in Seq(Node)
    BY AnswerFacts DEF Inv, TypeInv, TypeOK, Solution
  <2> QED
    BY <2>1 DEF PathIsReal, Reference!IsPath
<1>2. Len(p) \in Nat \ {0} /\ DOMAIN p = 1 .. Len(p)
  BY <1>1
<1>3. N \in Nat /\ SizeWrap \in Nat /\ N < SizeWrap /\ Len(p) <= N
  BY <1>1, ShortPath, FS_CardinalityType DEF OnAnswer, NumbersFit
<1>4. PathLength = Len(p) - 1
  <2> DEFINE l == Len(p) - 1
  <2>1. l \in 0 .. SizeWrap - 1 /\ SizeWrap \in Nat \ {0}
    BY <1>2, <1>3
  <2>2. l % SizeWrap = l
    <3> HIDE DEF l
    <3>1. (0 * SizeWrap + l) % SizeWrap = l
      BY <2>1, Quotient
    <3>2. 0 * SizeWrap + l = l
      BY <2>1
    <3> QED
      BY <3>1, <3>2
  <2> QED
    BY <2>2 DEF PathLength
<1>5. ASSUME PathLength = 0
      PROVE  AskedStart = AskedTarget
  <2>1. Len(p) = 1
    BY <1>2, <1>4, <1>5
  <2>2. pi.start = pi.target
    BY <1>1, <2>1
  <2> QED
    BY <2>2, AnswerFacts, IdsDiffer DEF StartsAt, OnAnswer
<1>6. ASSUME AskedStart = AskedTarget
      PROVE  PathLength = 0
  <2>1. pi.start = pi.target
    BY <1>6, AnswerFacts DEF StartsAt
  <2>2. 1 \in DOMAIN p /\ Len(p) \in DOMAIN p
    BY <1>2
  <2>3. Len(p) = 1
    BY <1>1, <2>1, <2>2
  <2> QED
    BY <1>4, <2>3
<1> QED
  BY <1>2, <1>4, <1>5, <1>6

\* The cost of a path on a gridmap is in keeping with its length.
LEMMA CostOfLength ==
  ASSUME OnAnswer, Found, args.alg \in GridAlgs
  PROVE  sol.sum \in (Len(sol.path) - 1) * Cardinal .. (Len(sol.path) - 1) * Diagonal
<1> DEFINE p == sol.path
           f == [k \in 1 .. Len(p) |-> node[p[k]].g]
<1>1. /\ IsMap(map) /\ map \in Maps /\ IsTabled(map) /\ Node \subseteq Int
      /\ map.alg \in GridAlgs /\ Inv
  BY AnswerFacts DEF OnAnswer, OnDrawing
<1>2. PathIsExact
  BY <1>1, GridIsConsistent, MovesDiffer, AnswerIsExact DEF OnAnswer, EngineIsSet
<1>3. p \in Seq(Node) /\ p # <<>>
  BY <1>1 DEF Inv, SearchInv, PathIsSupported, Found, TypeInv, TypeOK, Solution
<1>4. Len(p) \in Nat \ {0} /\ \A k \in 1 .. Len(p) : p[k] \in Node
  BY <1>3
<1>5. f[1] = 0 /\ f[Len(p)] = sol.sum
  BY <1>2, <1>4 DEF PathIsExact
<1>6. ASSUME NEW k \in 1 .. Len(p) - 1
      PROVE  \E c \in Cardinal .. Diagonal : f[k + 1] = f[k] + c
  <2>1. k \in 1 .. Len(p) /\ k + 1 \in 1 .. Len(p) /\ p[k] \in Node
    BY <1>4
  <2>2. HangsBy(p[k], p[k + 1])
    BY <1>2 DEF PathIsExact
  <2>3. PICK j \in DOMAIN Successors[map][p[k]] :
          /\ Successors[map][p[k]][j].node = p[k + 1]
          /\ node[p[k + 1]].g = node[p[k]].g + Successors[map][p[k]][j].cost
    BY <2>2 DEF HangsBy
  <2>4. Successors[map][p[k]][j].cost \in Cardinal .. Diagonal
    BY <1>1, <2>1, SlackOfEdge
  <2>5. f[k + 1] = node[p[k + 1]].g /\ f[k] = node[p[k]].g
    BY <2>1
  <2> HIDE DEF f, p
  <2> QED
    BY <2>3, <2>4, <2>5
<1>7. Cardinal \in Nat /\ Diagonal \in Nat
  BY CostAssumption
<1> DEFINE n == Len(p)
<1> HIDE DEF f, n
<1>8. f[n] \in (n - 1) * Cardinal .. (n - 1) * Diagonal
  <2>1. n \in Nat \ {0} /\ f[1] = 0
    BY <1>4, <1>5 DEF n
  <2>2. \A k \in 1 .. n - 1 : \E c \in Cardinal .. Diagonal : f[k + 1] = f[k] + c
    BY <1>6 DEF n
  <2> QED
    BY <1>7, <2>1, <2>2, StepsAddUp
<1> QED
  BY <1>5, <1>8 DEF n

\* A path of no nodes is printed with the length 2^64 - 1.
LEMMA NoPathIsPrinted ==
  ASSUME NumbersFit, sol.path = <<>>
  PROVE  PathLength = SizeWrap - 1
<1>1. SizeWrap \in Nat \ {0}
  BY FS_CardinalityType DEF NumbersFit
<1>2. Len(sol.path) - 1 = -1
  OBVIOUS
<1> DEFINE r == SizeWrap - 1
<1>3. r \in 0 .. SizeWrap - 1
  BY <1>1
<1> HIDE DEF r
<1>4. ((-1) * SizeWrap + r) % SizeWrap = r
  <2> DEFINE q == -1
  <2>1. q \in Int
    OBVIOUS
  <2> HIDE DEF q
  <2>2. (q * SizeWrap + r) % SizeWrap = r
    BY <1>1, <1>3, <2>1, Quotient
  <2> QED
    BY <2>2 DEF q
<1>5. (-1) * SizeWrap + r = -1
  BY <1>1 DEF r
<1> QED
  BY <1>2, <1>4, <1>5 DEF PathLength, r

\* A row that has just been printed is the answer that the engine has just given.
LEMMA RowIsAnswer ==
  ASSUME EngineInv, BuiltInv, RowInv, TablesFit, EngineIsSet, NumbersFit, JustPrinted, IsDrawn
  PROVE  /\ OnAnswer /\ PathIsReal
         /\ LastRow.plen = PathLength /\ LastRow.pcost = sol.sum
         /\ LastRow.scost = LastExperiment.distance
         /\ LastExperiment = experiments[calls]
<1>1. Len(rows) \in Nat \ {0}
  <2>1. PICK S : rows \in Seq(S)
    BY DEF EngineInv, IsSequence
  <2> QED
    BY <2>1 DEF JustPrinted
<1>2. calls = Len(rows) /\ calls > 0 /\ pc = "idle"
  BY <1>1 DEF JustPrinted
<1>3. IsBuilt
  <2>1. ~NotBuilt
    BY <1>2 DEF NotBuilt, Unused
  <2> QED
    BY <2>1 DEF EngineInv, JustPrinted
<1>4. BuiltOf(args, DrawnFile, map)
  BY DEF BuiltInv, JustPrinted, DrawnFile
<1>5. OnDrawing
  BY <1>3, <1>4 DEF OnDrawing, IsBuilt, TablesFit
<1>6. Asked
  BY DEF RowInv
<1>7. OnAnswer
  BY <1>2, <1>3, <1>5, <1>6 DEF OnAnswer, IsBuilt, Answered
<1>8. PathIsReal
  BY EngineIsRight
<1> QED
  BY <1>2, <1>7, <1>8 DEF RowInv, LastExperiment

LEMMA RowsAreRight ==
  ASSUME EngineInv, BuiltInv, RowInv, TablesFit, EngineIsSet, NumbersFit
  PROVE  RowsAreTrue
<1> SUFFICES ASSUME JustPrinted, IsDrawn
             PROVE  LET c == DrawnCosts(LastExperiment)
                        r == LastRow
                    IN  /\ (r.pcost = CostMax) <=> (c = {})
                        /\ r.pcost = CostMax => r.plen = SizeWrap - 1
                        /\ r.pcost # CostMax =>
                             \A best \in c :
                               /\ best <= r.pcost
                               /\ args.alg \in {"astar", "astar4c"} => r.pcost = best
                               /\ args.alg = "dijkstra" =>
                                    r.pcost <= best + Diagonal - Cardinal
                               /\ args.alg \in GridAlgs =>
                                    r.pcost \in r.plen * Cardinal .. r.plen * Diagonal
                               /\ (r.plen = 0) <=>
                                    (Point(LastExperiment.sx, LastExperiment.sy)
                                       = Point(LastExperiment.gx, LastExperiment.gy))
  BY Zenon DEF RowsAreTrue
<1>1. /\ OnAnswer /\ PathIsReal /\ LastRow.plen = PathLength /\ LastRow.pcost = sol.sum
      /\ DrawnCosts(LastExperiment) = AskedCosts
      /\ Point(LastExperiment.sx, LastExperiment.sy) = AskedStart
      /\ Point(LastExperiment.gx, LastExperiment.gy) = AskedTarget
  BY RowIsAnswer DEF AskedCosts, AskedStart, AskedTarget
<1>2. CASE sol.sum = CostMax
  <2>1. AskedCosts = {} /\ sol.path = <<>>
    BY <1>1, <1>2, FailureIsDrawn
  <2>2. PathLength = SizeWrap - 1
    BY <2>1, NoPathIsPrinted
  <2> QED
    BY <1>1, <1>2, <2>1, <2>2
<1>3. CASE sol.sum # CostMax
  <2>1. /\ AskedCosts # {} /\ Found
        /\ \A best \in AskedCosts : best <= sol.sum
    BY <1>1, <1>3, SuccessIsDrawn
  <2>2. /\ PathLength = Len(sol.path) - 1
        /\ PathLength = 0 <=> AskedStart = AskedTarget
    BY <1>1, <2>1, LengthIsPrinted
  <2>3. args.alg \in GridAlgs =>
          sol.sum \in PathLength * Cardinal .. PathLength * Diagonal
    BY <1>1, <2>1, <2>2, CostOfLength
  <2>4. ASSUME NEW best \in AskedCosts
        PROVE  /\ args.alg \in {"astar", "astar4c"} => sol.sum = best
               /\ args.alg = "dijkstra" => sol.sum <= best + Diagonal - Cardinal
    BY <1>1, <1>3, NearOnGrid DEF GridAlgs
  <2> QED
    BY <1>1, <1>3, <2>1, <2>2, <2>3, <2>4
<1> QED
  BY <1>2, <1>3

-----------------------------------------------------------------------------
(* Files in order.                                                         *)

\* rest is what follows the first b characters of the file.
Follows(rest, body, b) ==
  /\ rest \in Seq(STRING) /\ b \in 0 .. Len(body) /\ Len(rest) = Len(body) - b
  /\ \A k \in 1 .. Len(rest) : rest[k] = body[b + k]

\* The spaces before what follows are skipped, if there is one or none.
LEMMA OneSkipped ==
  ASSUME NEW body \in Seq(STRING), NEW b \in 0 .. Len(body) - 1, body[b + 1] # Newline,
         NEW rest,
         Follows(rest, body, b) \/ (b > 0 /\ body[b] = Newline /\ Follows(rest, body, b - 1))
  PROVE  Follows(SkipSpaces(rest), body, b)
<1> DEFINE solid == {k \in DOMAIN rest : rest[k] # Newline}
<1>1. Len(body) \in Nat /\ rest \in Seq(STRING) /\ Len(rest) \in Nat /\ DOMAIN rest = 1 .. Len(rest)
  BY DEF Follows
<1>2. CASE Follows(rest, body, b)
  <2>1. 1 \in solid
    BY <1>1, <1>2 DEF Follows
  <2>2. \A k \in solid : 1 <= k
    BY <1>1
  <2>3. Min(solid) = 1
    <3>1. \A k \in solid : k \in Nat
      BY <1>1
    <3> HIDE DEF solid
    <3> QED
      BY <2>1, <2>2, <3>1 DEF Min
  <2>4. SkipSpaces(rest) = SubSeq(rest, 1, Len(rest))
    BY <2>1, <2>3 DEF SkipSpaces
  <2>5. SubSeq(rest, 1, Len(rest)) = rest
    BY <1>1
  <2> QED
    BY <1>2, <2>4, <2>5
<1>3. CASE b > 0 /\ body[b] = Newline /\ Follows(rest, body, b - 1)
  <2>1. /\ Len(rest) = Len(body) - b + 1 /\ Len(rest) >= 2
        /\ \A k \in 1 .. Len(rest) : rest[k] = body[(b - 1) + k]
    BY <1>1, <1>3 DEF Follows
  <2>2. rest[1] = Newline /\ rest[2] # Newline
    <3>1. (b - 1) + 1 = b /\ (b - 1) + 2 = b + 1
      OBVIOUS
    <3>2. rest[1] = body[(b - 1) + 1] /\ rest[2] = body[(b - 1) + 2]
      BY <1>1, <2>1
    <3> QED
      BY <1>3, <3>1, <3>2
  <2>3. 2 \in solid /\ \A k \in solid : k \in Nat /\ 2 <= k
    BY <1>1, <2>1, <2>2
  <2>4. Min(solid) = 2
    <3> HIDE DEF solid
    <3> QED
      BY <2>3 DEF Min
  <2>5. SkipSpaces(rest) = SubSeq(rest, 2, Len(rest))
    BY <2>3, <2>4 DEF SkipSpaces
  <2> DEFINE t == SubSeq(rest, 2, Len(rest))
  <2>6. /\ t \in Seq(STRING) /\ Len(t) = Len(body) - b
        /\ \A k \in 1 .. Len(t) : t[k] = rest[k + 1]
    BY <1>1, <2>1
  <2>7. ASSUME NEW k \in 1 .. Len(t)
        PROVE  t[k] = body[b + k]
    <3>1. k + 1 \in 1 .. Len(rest) /\ (b - 1) + (k + 1) = b + k
      BY <1>1, <2>1, <2>6
    <3>2. rest[k + 1] = body[(b - 1) + (k + 1)]
      BY <2>1, <3>1, Zenon
    <3> QED
      BY <2>6, <3>1, <3>2
  <2> HIDE DEF t
  <2> QED
    BY <2>5, <2>6, <2>7 DEF Follows, t
<1> QED
  BY <1>2, <1>3

\* A row that is all there is read as it is.
LEMMA WholeRow ==
  ASSUME NEW body \in Seq(STRING), NEW w \in Nat \ {0}, NEW b \in Nat, b + w + 1 <= Len(body),
         body[b + 1] # Newline, NEW x,
         \/ Follows(x.rest, body, b)
         \/ b > 0 /\ body[b] = Newline /\ Follows(x.rest, body, b - 1)
  PROVE  /\ \A k \in 1 .. w : NextRow(x, w).buffer[k] = body[b + k]
         /\ Follows(NextRow(x, w).rest, body, b + w)
<1> DEFINE t == SkipSpaces(x.rest)
           l == Len(t)
<1>1. Len(body) \in Nat /\ b \in 0 .. Len(body) - 1
  OBVIOUS
<1>2. Follows(t, body, b)
  BY <1>1, OneSkipped
<1> HIDE DEF t
<1>3. t \in Seq(STRING) /\ l \in Nat /\ l = Len(body) - b /\ w < l
  BY <1>1, <1>2 DEF Follows
<1>4. ReadRow(x.rest, w) = SubSeq(t, 1, w)
  BY <1>3 DEF ReadRow, UpTo, t
<1>5. RestOf(x.rest, w) = SubSeq(t, w + 1, l)
  BY DEF RestOf, t
<1>6. ASSUME NEW k \in 1 .. w
      PROVE  NextRow(x, w).buffer[k] = body[b + k]
  <2>1. Len(SubSeq(t, 1, w)) = w /\ SubSeq(t, 1, w)[k] = t[k]
    BY <1>3
  <2>2. NextRow(x, w).buffer[k] = t[k]
    BY <1>4, <2>1 DEF NextRow
  <2>3. k \in 1 .. l
    BY <1>3
  <2> QED
    BY <1>2, <2>2, <2>3 DEF Follows
<1>7. Follows(NextRow(x, w).rest, body, b + w)
  <2> DEFINE q == SubSeq(t, w + 1, l)
  <2>1. NextRow(x, w).rest = q
    BY <1>5 DEF NextRow
  <2>2. /\ q \in Seq(STRING) /\ Len(q) = l - w /\ \A k \in 1 .. l - w : q[k] = t[w + k]
    BY <1>3
  <2>3. ASSUME NEW k \in 1 .. Len(q)
        PROVE  q[k] = body[(b + w) + k]
    <3>1. w + k \in 1 .. l /\ b + (w + k) = (b + w) + k
      <4>1. k \in 1 .. l - w
        BY <1>3, <2>2
      <4> HIDE DEF q, l
      <4> QED
        BY <1>3, <4>1
    <3>2. t[w + k] = body[b + (w + k)]
      BY <1>2, <3>1, Zenon DEF Follows
    <3> QED
      BY <2>2, <3>1, <3>2
  <2> HIDE DEF q
  <2> QED
    BY <1>3, <2>1, <2>2, <2>3 DEF Follows
<1> QED
  BY <1>6, <1>7

\* Characters in rows of w, each with a newline behind it.
InRows(body, w, h) ==
  /\ body \in Seq(STRING) /\ Len(body) = (w + 1) * h
  /\ \A k \in DOMAIN body : body[k] = Newline <=> k % (w + 1) = 0
  /\ \A k \in DOMAIN body : body[k] \in Blocker \cup Traversable \cup {Newline}

\* The rows are read one after the other.
LEMMA RowsInOrder ==
  ASSUME NEW body, NEW w \in Nat \ {0}, NEW h \in Nat, InRows(body, w, h), NEW junk, NEW r,
         RowsFrom(r, body, w, h, junk)
  PROVE  \A y \in 1 .. h : \A k \in 1 .. w : r[y].buffer[k] \in Blocker \cup Traversable
<1> DEFINE d == w + 1
           At(y, b) == \/ Follows(r[y].rest, body, b)
                       \/ b > 0 /\ body[b] = Newline /\ Follows(r[y].rest, body, b - 1)
           Has == {y \in Nat : At(y - 1, (y - 1) * d)}
<1>1. /\ body \in Seq(STRING) /\ Len(body) = d * h /\ Len(body) \in Nat /\ d \in Nat \ {0}
      /\ DOMAIN body = 1 .. Len(body)
  BY DEF InRows
<1>2. 1 \in Has
  <2>1. r[0].rest = body
    BY DEF RowsFrom, Unwritten
  <2>2. Follows(r[0].rest, body, 0)
    BY <1>1, <2>1 DEF Follows
  <2>3. 1 - 1 = 0 /\ 0 * d = 0
    BY <1>1
  <2> QED
    BY <2>2, <2>3
<1>3. ASSUME NEW y \in 1 .. h, y \in Has
      PROVE  /\ y + 1 \in Has
             /\ \A k \in 1 .. w : r[y].buffer[k] \in Blocker \cup Traversable
  <2> DEFINE b == (y - 1) * d
             x == r[y - 1]
  <2>1. b \in Nat /\ y * d = b + d /\ y * d <= h * d /\ (y + 1) - 1 = y /\ y + 1 \in Nat
    <3>1. y * d <= h * d
      <4>1. y \in Nat /\ y <= h
        OBVIOUS
      <4> QED
        BY <1>1, <4>1, Scaled
    <3> QED
      BY <1>1, <3>1
  <2>2. At(y - 1, b)
    BY <1>3
  <2>3. b + w + 1 <= Len(body)
    <3>1. h * d = d * h
      BY <1>1
    <3> HIDE DEF b
    <3> QED
      BY <1>1, <2>1, <3>1
  <2>4. ASSUME NEW k \in 1 .. w
        PROVE  b + k \in DOMAIN body /\ body[b + k] \in Blocker \cup Traversable
    <3>1. (b + k) % d = k
      <4>1. k \in 0 .. d - 1 /\ y - 1 \in Int
        OBVIOUS
      <4> DEFINE z == y - 1
      <4> HIDE DEF z, d
      <4>2. (z * d + k) % d = k
        BY <1>1, <4>1, Quotient DEF z
      <4> QED
        BY <4>2 DEF z
    <3>2. b + k \in DOMAIN body
      <4> HIDE DEF b
      <4> QED
        BY <1>1, <2>1, <2>3
    <3>3. k # 0
      OBVIOUS
    <3>4. body[b + k] # Newline
      BY <3>1, <3>2, <3>3 DEF InRows
    <3> QED
      BY <3>2, <3>4 DEF InRows
  <2>5. body[b + 1] # Newline
    BY <2>4, NewlineAssumption
  <2>6. r[y] = NextRow(x, w)
    BY DEF RowsFrom
  <2>7. /\ \A k \in 1 .. w : NextRow(x, w).buffer[k] = body[b + k]
        /\ Follows(NextRow(x, w).rest, body, b + w)
    <3> HIDE DEF b
    <3> QED
      BY <1>1, <2>1, <2>2, <2>3, <2>5, WholeRow
  <2>8. \A k \in 1 .. w : r[y].buffer[k] \in Blocker \cup Traversable
    BY <2>4, <2>6, <2>7
  <2>9. body[y * d] = Newline
    <3>1. y * d \in DOMAIN body
      <4>1. h * d = d * h /\ y * d > 0
        <5> HIDE DEF b
        <5> QED
          BY <1>1, <2>1
      <4> QED
        BY <1>1, <2>1, <4>1
    <3>2. (y * d) % d = 0
      <4>1. 0 \in 0 .. d - 1 /\ y \in Int
        OBVIOUS
      <4> HIDE DEF d
      <4>2. (y * d + 0) % d = 0
        BY <1>1, <4>1, Quotient
      <4> QED
        BY <1>1, <4>2
    <3> QED
      BY <3>1, <3>2 DEF InRows
  <2>10. At(y, y * d)
    <3>1. y * d - 1 = b + w /\ y * d > 0
      <4> HIDE DEF b
      <4> QED
        BY <1>1, <2>1
    <3>2. Follows(r[y].rest, body, y * d - 1)
      BY <2>6, <2>7, <3>1
    <3> QED
      BY <2>9, <3>1, <3>2
  <2> QED
    BY <2>1, <2>8, <2>10
<1>4. 1 .. h \subseteq Has
  <2>1. ASSUME NEW y \in 1 .. h - 1, y \in Has
        PROVE  y + 1 \in Has
    <3>1. y \in 1 .. h
      OBVIOUS
    <3> HIDE DEF Has
    <3> QED
      BY <1>3, <2>1, <3>1
  <2> HIDE DEF Has
  <2> QED
    BY <1>2, <2>1, UpToLast
<1> HIDE DEF Has
<1> QED
  BY <1>3, <1>4

\* Each of the rows has w tiles.
LEMMA TilesInOrder ==
  ASSUME NEW body, NEW w \in Nat \ {0}, NEW h \in Nat, InRows(body, w, h)
  PROVE  Len(Solid(body)) = w * h
<1> DEFINE d == w + 1
           l == Len(body)
<1>1. /\ body \in Seq(STRING) /\ l = d * h /\ l \in Nat /\ d \in Nat \ {0}
      /\ l + 1 \in Nat /\ l + 1 \in 1 .. (l + 1) /\ (l + 1) - 1 = l
      /\ DOMAIN body = 1 .. l /\ \A k \in 1 .. l : body[k] \in STRING
  BY DEF InRows
<1>2. PICK u : IsSolidUpTo(u, body, l) /\ Solid(body) = u[l]
  BY <1>1, SolidIs
<1>3. /\ u[0] = <<>>
      /\ \A n \in 1 .. l : u[n] = OneMore(u[n - 1], body[n])
      /\ \A n \in 0 .. l : u[n] \in Seq(STRING)
  BY <1>1, <1>2, SolidSteps
<1> HIDE DEF d, l
<1> DEFINE Counted(n) == Len(u[n]) = n - n \div d
           Has == {k \in Nat : Counted(k - 1)}
<1>4. 1 \in Has
  <2>1. 0 \div d = 0
    <3>1. 0 \in 0 .. d - 1 /\ 0 * d + 0 = 0
      BY <1>1
    <3> QED
      BY <1>1, <3>1, Quotient
  <2>2. Counted(0)
    BY <1>3, <2>1
  <2>3. 1 - 1 = 0
    OBVIOUS
  <2> QED
    BY <2>2, <2>3
<1>5. ASSUME NEW k \in 1 .. (l + 1) - 1, k \in Has
      PROVE  k + 1 \in Has
  <2> DEFINE n == k - 1
             q == n \div d
             r == n % d
  <2>1. k \in 1 .. l /\ (k + 1) - 1 = k /\ k + 1 \in Nat /\ n \in 0 .. l /\ k = n + 1
    BY <1>1
  <2>2. n = q * d + r /\ r \in 0 .. d - 1 /\ q \in Int
    <3>1. n \in Int
      BY <1>1
    <3> HIDE DEF n
    <3> QED
      BY <1>1, <3>1, Division
  <2>3. Len(u[n]) = n - q
    BY <1>5
  <2>4. u[k] = OneMore(u[n], body[k]) /\ u[n] \in Seq(STRING) /\ body[k] \in STRING
    BY <1>1, <1>3, <2>1
  <2>5. body[k] = Newline <=> k % d = 0
    <3>1. k \in DOMAIN body
      BY <1>1, <2>1
    <3> QED
      BY <3>1 DEF InRows, d
  <2> HIDE DEF n, q, r
  <2>6. CASE r + 1 < d
    <3>1. k = q * d + (r + 1) /\ r + 1 \in 0 .. d - 1 /\ r + 1 # 0
      BY <1>1, <2>1, <2>2, <2>6
    <3>2. k \div d = q /\ k % d = r + 1
      BY <1>1, <2>2, <3>1, Quotient
    <3>3. u[k] = Append(u[n], body[k])
      BY <2>4, <2>5, <3>1, <3>2 DEF OneMore
    <3>4. Len(u[k]) = Len(u[n]) + 1
      BY <2>4, <3>3
    <3>5. Counted(k)
      BY <2>1, <2>2, <2>3, <3>2, <3>4
    <3> QED
      BY <2>1, <3>5
  <2>7. CASE ~(r + 1 < d)
    <3>1. k = (q + 1) * d + 0 /\ 0 \in 0 .. d - 1 /\ q + 1 \in Int
      <4>1. r + 1 = d /\ (q + 1) * d = q * d + d
        BY <1>1, <2>2, <2>7
      <4> QED
        BY <1>1, <2>1, <2>2, <4>1
    <3>2. k \div d = q + 1 /\ k % d = 0
      BY <1>1, <3>1, Quotient
    <3>3. u[k] = u[n]
      BY <2>4, <2>5, <3>2 DEF OneMore
    <3>4. Len(u[k]) = n - q
      BY <2>3, <3>3, Zenon
    <3>5. Counted(k)
      BY <2>1, <2>2, <3>2, <3>4
    <3> QED
      BY <2>1, <3>5
  <2> QED
    BY <2>6, <2>7
<1>6. Counted(l)
  <2>1. l + 1 \in Has
    <3> HIDE DEF Has
    <3> QED
      BY <1>1, <1>4, <1>5, UpToLast
  <2> HIDE DEF Counted
  <2> QED
    BY <1>1, <2>1
<1>7. l \div d = h
  <2>1. l = h * d + 0 /\ 0 \in 0 .. d - 1
    BY <1>1
  <2> QED
    BY <1>1, <2>1, Quotient
<1>8. l - h = w * h
  <2>1. d * h = w * h + h
    BY DEF d
  <2>2. w * h \in Int
    OBVIOUS
  <2> QED
    BY <1>1, <2>1, <2>2
<1> QED
  BY <1>2, <1>6, <1>7, <1>8

\* What the readers find in a file in order.
LEMMA ReadInOrder ==
  ASSUME NEW f \in MapFile, IsInOrder(f)
  PROVE  /\ ReadHeader(f.head) /\ GridType(f.head) = "OCTILE"
         /\ Numeral[f.head[4]] = HeightOf(f) /\ Numeral[f.head[6]] = WidthOf(f)
         /\ WidthOf(f) \in Nat \ {0} /\ HeightOf(f) \in Nat \ {0}
         /\ InRows(f.body, WidthOf(f), HeightOf(f))
         /\ GmAccepts(f.head) /\ Len(Tiles(f)) = WidthOf(f) * HeightOf(f)
<1> DEFINE head == f.head
           fields == SubSeq(head, 3, Len(head))
<1>1. /\ head \in Seq(STRING) /\ f.body \in Seq(STRING)
      /\ DOMAIN f.body = 1 .. Len(f.body) /\ Len(f.body) \in Nat
  BY DEF MapFile
<1>2. /\ Len(head) = 7 /\ head[1] = "type" /\ head[2] = "octile"
      /\ head[3] = "height" /\ head[5] = "width"
      /\ GmAccepts(head)
  BY DEF IsInOrder, IsDrawing
<1>3. WidthOf(f) \in Nat \ {0} /\ HeightOf(f) \in Nat \ {0}
  BY <1>2, SizesOfGm
<1>4. InRows(f.body, WidthOf(f), HeightOf(f))
  <2>1. \A k \in DOMAIN f.body : f.body[k] \in Range(f.body)
    BY DEF Range
  <2> QED
    BY <1>1, <2>1 DEF IsInOrder, InRows
<1>5. Len(Tiles(f)) = WidthOf(f) * HeightOf(f)
  BY <1>3, <1>4, TilesInOrder DEF Tiles
<1> HIDE DEF head
<1>6. /\ WidthOf(f) = Atoi(head[6]) /\ HeightOf(f) = Atoi(head[4])
  BY <1>2, FieldsInPlace DEF WidthOf, HeightOf, head
<1>7. /\ head[4] \in DOMAIN Numeral /\ head[6] \in DOMAIN Numeral
      /\ Numeral[head[4]] = HeightOf(f) /\ Numeral[head[6]] = WidthOf(f)
  BY <1>3, <1>6 DEF Atoi
<1>8. GridType(head) = "OCTILE"
  BY <1>2 DEF GridType
<1>9. ReadHeader(head)
  <2>1. head # <<>> /\ head[7] = "map"
    <3>1. head # <<>>
      <4>1. Len(<<>>) # 7
        OBVIOUS
      <4> QED
        BY <1>2, <4>1, Zenon
    <3> QED
      BY <1>2, <3>1 DEF GmAccepts
  <2>2. AfterType(head) = fields
    BY <1>2, <2>1 DEF AfterType
  <2>3. /\ Len(fields) = 5
        /\ fields[1] = head[3] /\ fields[2] = head[4] /\ fields[3] = head[5]
        /\ fields[4] = head[6] /\ fields[5] = head[7]
    BY <1>1, <1>2
  <2> HIDE DEF fields
  <2> QED
    BY <1>2, <1>7, <1>8, <2>1, <2>2, <2>3 DEF ReadHeader
<1> QED
  BY <1>2, <1>3, <1>4, <1>5, <1>7, <1>8, <1>9 DEF head

\* A file in order that fits is read by gridmap's reader,
LEMMA GridInOrder ==
  ASSUME NEW f \in MapFile, IsInOrder(f), WidthOf(f) <= GridDimensionMax, NEW junk
  PROVE  ReadGrid(f, junk).ok
<1> DEFINE h == Numeral[f.head[4]]
           w == Numeral[f.head[6]]
           b == Buffers(f.body, w, h, junk)
           cells == [k \in 1 .. w * h |-> b[((k - 1) \div w) + 1][((k - 1) % w) + 1]]
<1>1. /\ ReadHeader(f.head) /\ GridType(f.head) = "OCTILE"
      /\ w \in Nat \ {0} /\ h \in Nat \ {0} /\ InRows(f.body, w, h)
  BY ReadInOrder
<1>2. ReadGrid(f, junk) = IF \A k \in DOMAIN cells : cells[k] \in Blocker \cup Traversable
                          THEN [ok |-> TRUE, width |-> w, height |-> h, cells |-> cells]
                          ELSE Rejected
  <2>1. w = WidthOf(f)
    BY ReadInOrder
  <2>2. ~TooWide(f.head)
    BY <1>1, <2>1, GridDimensionAssumption DEF TooWide
  <2> QED
    BY <1>1, <2>2 DEF ReadGrid
<1> HIDE DEF w, h
<1>3. PICK r : /\ RowsFrom(r, f.body, w, h, junk)
               /\ \A y \in 1 .. h : b[y] = r[y].buffer
  BY <1>1, BuffersAre
<1>4. \A y \in 1 .. h : \A k \in 1 .. w : b[y][k] \in Blocker \cup Traversable
  <2>1. \A y \in 1 .. h : \A k \in 1 .. w : r[y].buffer[k] \in Blocker \cup Traversable
    BY <1>1, <1>3, RowsInOrder
  <2> QED
    BY <1>3, <2>1
<1> HIDE DEF b
<1>5. ASSUME NEW k \in 1 .. w * h
      PROVE  cells[k] \in Blocker \cup Traversable
  <2>1. (k - 1) \div w \in 0 .. h - 1 /\ (k - 1) % w \in 0 .. w - 1
    <3>1. k - 1 \in 0 .. w * h - 1 /\ w * h \in Nat
      BY <1>1
    <3> QED
      BY <1>1, <3>1, PlaceOf
  <2> DEFINE y == ((k - 1) \div w) + 1
             x == ((k - 1) % w) + 1
  <2>2. y \in 1 .. h /\ x \in 1 .. w
    BY <1>1, <2>1
  <2>3. cells[k] = b[y][x]
    OBVIOUS
  <2> HIDE DEF x, y, cells
  <2> QED
    BY <1>4, <2>2, <2>3
<1>6. DOMAIN cells = 1 .. w * h
  OBVIOUS
<1> HIDE DEF cells
<1>7. ReadGrid(f, junk) = [ok |-> TRUE, width |-> w, height |-> h, cells |-> cells]
  BY <1>2, <1>5, <1>6
<1> QED
  BY <1>7

\* and by gm_parser, with a cost for each cell if each tile has one.
LEMMA TerrainInOrder ==
  ASSUME NEW f \in MapFile, IsInOrder(f), NEW costs,
         \A c \in Range(Tiles(f)) : CostOf(costs, c) # NaN
  PROVE  /\ GmParser(f).ok
         /\ Priced(MapOf("astar_wgm", GmParser(f), TerrainCells(GmParser(f), costs)))
<1> DEFINE w == WidthOf(f)
           h == HeightOf(f)
           tiles == Tiles(f)
           r == GmParser(f)
           m == MapOf("astar_wgm", r, TerrainCells(r, costs))
<1>1. /\ GmAccepts(f.head) /\ w \in Nat \ {0} /\ h \in Nat \ {0}
      /\ Len(tiles) = w * h
  BY ReadInOrder
<1>2. r = [ok |-> TRUE, width |-> w, height |-> h, cells |-> tiles]
  BY <1>1 DEF GmParser, WidthOf, HeightOf
<1>3. DOMAIN tiles = 1 .. w * h
  BY <1>1, TilesType
<1> HIDE DEF r, tiles, w, h
<1>4. r.ok /\ r.width = w /\ r.height = h /\ r.cells = tiles
  BY <1>2
<1>5. m.cells = [id \in Terrain(w, h)!Cells |->
                   CostOf(costs, tiles[CHOOSE k \in 1 .. w * h :
                                         Terrain(w, h)!ToPaddedId(k - 1) = id])]
  BY <1>3, <1>4 DEF MapOf, TerrainCells
<1>6. ASSUME NEW id \in Terrain(w, h)!Cells
      PROVE  m.cells[id] # NaN
  <2> DEFINE k == CHOOSE n \in 1 .. w * h : Terrain(w, h)!ToPaddedId(n - 1) = id
  <2>1. \E n \in 1 .. w * h : Terrain(w, h)!ToPaddedId(n - 1) = id
    <3>1. PICK c \in 0 .. w * h - 1 : id = Terrain(w, h)!ToPaddedId(c)
      BY DEF Terrain!Cells
    <3>2. w * h \in Nat
      BY <1>1
    <3>3. c + 1 \in 1 .. w * h /\ (c + 1) - 1 = c
      BY <3>2
    <3> QED
      BY <3>1, <3>3
  <2>2. k \in 1 .. w * h
    BY <2>1
  <2>3. m.cells[id] = CostOf(costs, tiles[k])
    BY <1>5
  <2> HIDE DEF k, m
  <2>4. tiles[k] \in Range(tiles)
    BY <1>3, <2>2 DEF Range
  <2> QED
    BY <2>3, <2>4 DEF tiles
<1>7. DOMAIN m.cells = Terrain(w, h)!Cells
  BY <1>5
<1> HIDE DEF m
<1>8. Priced(m)
  BY <1>6, <1>7 DEF Priced
<1> QED
  BY <1>4, <1>8 DEF m, r

-----------------------------------------------------------------------------
(* The exit status.                                                        *)

\* The last row is as --checkopt wants it.
Passed == args.checkopt => CheckOptimality(LastRow)

\* What has become of the program when it has exited.
Outcome ==
  \/ rows = <<>> /\ mapfile = Null /\ status \in {0, 1}
  \/ rows = <<>> /\ mapfile # Null /\ status \in {1, Aborted} /\ ~IsUsable
  \/ /\ rows # <<>> /\ mapfile # Null /\ pc = "idle" /\ calls = Len(rows)
     /\ \/ status = 0 /\ Len(rows) = Len(experiments) /\ Passed
        \/ status = 4 /\ args.checkopt /\ ~CheckOptimality(LastRow)

StatusInv ==
  /\ stage \in {"start", "load"} => mapfile = Null
  /\ stage \in {"build", "run"} => mapfile # Null /\ Len(experiments) # 0
  /\ stage = "run" /\ rows # <<>> => Passed
  /\ stage = "exit" => Outcome

\* A drawing that is usable is built.
LEMMA UsableIsBuilt ==
  ASSUME BuildGrid \/ BuildTerrain \/ BuildNothing, IsUsable
  PROVE  stage' = "run"
<1> DEFINE f == FileAt(mapfile)
<1>1. f \in MapFile /\ IsInOrder(f) /\ IsSearchable(args, f)
  BY FilesAreFiles DEF IsUsable
<1>2. CASE BuildGrid
  <2>1. PICK junk \in GarbageCells :
          LET r == ReadGrid(f, junk) IN
          IF r.ok
          THEN map' = MapOf(args.alg, r, GridCells(r)) /\ GoOn("run")
          ELSE Exit(Aborted) /\ UNCHANGED map
    BY <1>2 DEF BuildGrid
  <2>2. ReadGrid(f, junk).ok
    BY <1>1, <1>2, GridInOrder DEF IsUsable, BuildGrid
  <2> QED
    BY <2>1, <2>2 DEF GoOn
<1>3. CASE BuildTerrain
  <2> DEFINE r == GmParser(f)
             m == MapOf(args.alg, r, TerrainCells(r, args.costs))
  <2>1. /\ args.alg = "astar_wgm"
        /\ IF args.costs # Null /\ CostsAccepted(args.costs) /\ r.ok /\ Priced(m)
           THEN map' = m /\ GoOn("run")
           ELSE Exit(1) /\ UNCHANGED map
    BY <1>3 DEF BuildTerrain
  <2>2. /\ args.costs # Null /\ CostsAccepted(args.costs)
        /\ \A c \in Range(Tiles(f)) : CostOf(args.costs, c) # NaN
    BY <1>1, <2>1 DEF IsUsable, IsSearchable, GridAlgs
  <2>3. r.ok /\ Priced(m)
    BY <1>1, <2>1, <2>2, TerrainInOrder
  <2> HIDE DEF r, m
  <2> QED
    BY <2>1, <2>2, <2>3 DEF GoOn
<1>4. CASE BuildNothing
  BY <1>1, <1>4 DEF BuildNothing, IsSearchable
<1> QED
  BY <1>2, <1>3, <1>4

LEMMA StatusInvInit ==
  ASSUME ProgramInit
  PROVE  StatusInv
BY DEF ProgramInit, StatusInv

\* The map is built, or the program gives up.
LEMMA StatusOfBuild ==
  ASSUME EngineInv, StatusInv, BuildGrid \/ BuildTerrain \/ BuildNothing
  PROVE  StatusInv'
<1>1. stage = "build" /\ rows = <<>> /\ mapfile # Null /\ Len(experiments) # 0
  BY DEF BuildGrid, BuildTerrain, BuildNothing, StatusInv, EngineInv
<1>2. UNCHANGED <<args, mapfile, rows, experiments>>
  BY DEF BuildGrid, BuildTerrain, BuildNothing, Exit, GoOn, svars
<1>3. stage' = "run" \/ (stage' = "exit" /\ status' \in {1, Aborted})
  BY DEF BuildGrid, BuildTerrain, BuildNothing, Exit, GoOn
<1>4. IsUsable' <=> IsUsable
  <2>1. FileAt(mapfile)' = FileAt(mapfile)
    BY <1>2 DEF FileAt
  <2> QED
    BY <1>2, <2>1 DEF IsUsable
<1>5. CASE stage' = "run"
  BY <1>1, <1>2, <1>5 DEF StatusInv
<1>6. CASE stage' = "exit" /\ status' \in {1, Aborted}
  <2>1. ~IsUsable'
    BY <1>4, <1>6, UsableIsBuilt
  <2> QED
    BY <1>1, <1>2, <1>6, <2>1 DEF StatusInv, Outcome
<1> QED
  BY <1>3, <1>5, <1>6

\* The rows are printed, up to the first one that does not pass.
LEMMA StatusOfRows ==
  ASSUME EngineInv, RowInv, StatusInv, ProgramNext, stage = "run"
  PROVE  StatusInv'
<1>1. /\ UNCHANGED <<args, mapfile, experiments>> /\ stage' \in {"run", "exit"}
      /\ mapfile # Null /\ Len(experiments) # 0
      /\ rows # <<>> => Passed
  BY WhileRunning DEF StatusInv
<1>2. Len(rows) \in Nat /\ Len(<<>>) = 0 /\ Len(experiments) \in Nat
      /\ DOMAIN experiments = 1 .. Len(experiments)
  BY AppendedSequence DEF EngineInv
<1>3. CASE UNCHANGED <<rows, stage>>
  <2>1. Passed' <=> Passed
    BY <1>1, <1>3 DEF Passed, LastRow, CheckOptimality
  <2> QED
    BY <1>1, <1>3, <2>1 DEF StatusInv
<1>4. CASE PrintRow
  <2>1. /\ pc = "idle" /\ calls = Len(rows) + 1 /\ UNCHANGED vars
        /\ rows' = Append(rows, Row)
        /\ IF args.checkopt /\ ~CheckOptimality(Row)
           THEN stage' = "exit" /\ status' = 4
           ELSE UNCHANGED <<stage, status>>
    BY <1>4 DEF PrintRow, Running
  <2>2. Len(rows') = calls /\ LastRow' = Row /\ rows' # <<>>
    <3>1. Len(rows') = calls /\ rows'[calls] = Row
      BY <2>1, AppendedSequence DEF EngineInv
    <3> QED
      BY <1>2, <2>1, <3>1 DEF LastRow
  <2>3. CheckOptimality(LastRow)' <=> CheckOptimality(Row)
    BY <2>2 DEF CheckOptimality
  <2>4. CASE args.checkopt /\ ~CheckOptimality(Row)
    BY <1>1, <2>1, <2>2, <2>3, <2>4 DEF StatusInv, Outcome, vars
  <2>5. CASE ~(args.checkopt /\ ~CheckOptimality(Row))
    BY <1>1, <2>1, <2>2, <2>3, <2>5 DEF StatusInv, Passed
  <2> QED
    BY <2>4, <2>5
<1>5. CASE AllDone
  <2>1. /\ pc = "idle" /\ UNCHANGED vars /\ UNCHANGED rows /\ Len(rows) = Len(experiments)
        /\ stage' = "exit" /\ status' = 0
    BY <1>5 DEF AllDone, Running, Exit, Scenario!NumExperiments
  <2>2. calls = Len(rows)
    BY <1>2, <2>1 DEF RowInv, Asked
  <2>3. rows # <<>> /\ Passed
    BY <1>1, <1>2, <2>1
  <2>4. Passed' <=> Passed
    BY <1>1, <2>1 DEF Passed, LastRow, CheckOptimality
  <2> QED
    BY <1>1, <2>1, <2>2, <2>3, <2>4 DEF StatusInv, Outcome, vars
<1>6. BeginExperiment \/ Search => UNCHANGED <<rows, stage>>
  BY DEF BeginExperiment, Search, pvars
<1> QED
  BY <1>3, <1>4, <1>5, <1>6
  DEF ProgramNext, ParseArguments, ReadExperiment, LocateMap, BuildGrid, BuildTerrain,
      BuildNothing

LEMMA StatusInvStep ==
  ASSUME EngineInv, RowInv, StatusInv, [ProgramNext]_ProgramVars
  PROVE  StatusInv'
<1>1. CASE UNCHANGED ProgramVars
  <2>1. UNCHANGED <<vars, args, stage, mapfile, rows, status, experiments>>
    BY <1>1 DEF ProgramVars, svars, pvars
  <2>2. IsUsable' <=> IsUsable
    <3>1. FileAt(mapfile)' = FileAt(mapfile)
      BY <2>1 DEF FileAt
    <3> QED
      BY <2>1, <3>1 DEF IsUsable
  <2>3. CheckOptimality(LastRow)' <=> CheckOptimality(LastRow)
    BY <2>1 DEF LastRow, CheckOptimality
  <2>4. Passed' <=> Passed
    BY <2>1, <2>3 DEF Passed
  <2>5. Outcome' <=> Outcome
    BY <2>1, <2>2, <2>3, <2>4 DEF Outcome, vars
  <2> QED
    BY <2>1, <2>4, <2>5 DEF StatusInv
<1>2. CASE ParseArguments
  <2>1. /\ mapfile = Null /\ rows = <<>> /\ UNCHANGED <<mapfile, rows>>
        /\ stage' = "load" \/ (stage' = "exit" /\ status' \in {0, 1})
    BY <1>2 DEF ParseArguments, Exit, GoOn, StatusInv, EngineInv
  <2> QED
    BY <2>1 DEF StatusInv, Outcome
<1>3. CASE ReadExperiment
  BY <1>3 DEF ReadExperiment, pvars, StatusInv
<1>4. CASE LocateMap
  <2>1. stage = "load" /\ mapfile = Null /\ rows = <<>> /\ UNCHANGED experiments
    BY <1>4 DEF LocateMap, StatusInv, EngineInv, svars
  <2>2. \/ stage' = "exit" /\ status' \in {0, 1} /\ UNCHANGED <<mapfile, rows>>
        \/ /\ stage' = "build" /\ mapfile' # Null /\ UNCHANGED rows
           /\ Len(experiments) # 0
    BY <1>4 DEF LocateMap, Exit, Scenario!NumExperiments
  <2> QED
    BY <2>1, <2>2 DEF StatusInv, Outcome
<1>5. CASE BuildGrid \/ BuildTerrain \/ BuildNothing
  BY <1>5, StatusOfBuild
<1>6. CASE BeginExperiment \/ Search \/ PrintRow \/ AllDone
  BY <1>6, StatusOfRows DEF ProgramNext, BeginExperiment, Search, PrintRow, AllDone, Running
<1> QED
  BY <1>1, <1>2, <1>3, <1>4, <1>5, <1>6 DEF ProgramNext

LEMMA StatusIsRight ==
  ASSUME StatusInv, RowsAreTrue, Aborted \notin {0, 4}
  PROVE  StatusIsHonest
<1> DEFINE Off == IsDrawn /\ args.alg \in {"astar", "astar4c"} =>
                    \A best \in DrawnCosts(LastExperiment) :
                      best - LastRow.scost \notin -1 .. 1
           Near == IsDrawn /\ args.alg \in {"astar", "astar4c"} =>
                     \A best \in DrawnCosts(LastExperiment) :
                       best - LastRow.scost \in -1 .. 1
           Honest ==
             /\ rows = <<>> => status \in {0, 1, Aborted}
             /\ rows = <<>> /\ status = 0 => args.alg = "" \/ args.scen = Null \/ mapfile = Null
             /\ rows = <<>> /\ mapfile # Null => ~IsUsable
             /\ rows # <<>> => status \in {0, 4}
             /\ status = 0 /\ rows # <<>> => Len(rows) = Len(experiments)
             /\ status = 4 => args.checkopt /\ rows # <<>> /\ Off
             /\ status = 0 /\ args.checkopt /\ rows # <<>> => Near
<1>1. Honest => StatusIsHonest
  BY Zenon DEF StatusIsHonest
<1>2. SUFFICES ASSUME stage = "exit"
               PROVE  Honest
  BY <1>1 DEF StatusIsHonest
<1>3. Outcome
  BY <1>2 DEF StatusInv
<1>4. CASE rows = <<>>
  <2>1. status \in {0, 1, Aborted} /\ status # 4
    BY <1>3, <1>4 DEF Outcome
  <2>2. mapfile # Null => status # 0 /\ ~IsUsable
    BY <1>3, <1>4 DEF Outcome
  <2> QED
    BY <1>4, <2>1, <2>2, Zenon
<1>5. CASE rows # <<>>
  <2>1. JustPrinted
    BY <1>3, <1>5 DEF Outcome, JustPrinted
  <2>2. ASSUME IsDrawn, args.alg \in {"astar", "astar4c"}, NEW best \in DrawnCosts(LastExperiment)
        PROVE  LastRow.pcost # CostMax /\ LastRow.pcost = best
    <3> DEFINE c == DrawnCosts(LastExperiment)
               r == LastRow
    <3>1. /\ (r.pcost = CostMax) <=> (c = {})
          /\ r.pcost # CostMax =>
               \A b \in c : args.alg \in {"astar", "astar4c"} => r.pcost = b
      BY <2>1, <2>2, Zenon DEF RowsAreTrue
    <3> HIDE DEF r
    <3> QED
      BY <2>2, <3>1 DEF r
  <2>3. CASE status = 0 /\ Len(rows) = Len(experiments) /\ Passed
    <3>1. args.checkopt => Near
      BY <2>2, <2>3 DEF Passed, CheckOptimality
    <3>2. status # 4
      BY <2>3
    <3> QED
      BY <1>5, <2>3, <3>1, <3>2, Zenon
  <2>4. CASE status = 4 /\ args.checkopt /\ ~CheckOptimality(LastRow)
    <3>1. Off
      BY <2>2, <2>4 DEF CheckOptimality
    <3>2. status # 0
      BY <2>4
    <3> QED
      BY <1>5, <2>4, <3>1, <3>2, Zenon
  <2> QED
    BY <1>3, <1>5, <2>3, <2>4 DEF Outcome
<1> QED
  BY <1>4, <1>5

LEMMA BuiltInvariant ==
  ProgramSpec => []BuiltInv
<1>1. ProgramInit => BuiltInv
  BY BuiltInvInit
<1>2. BuiltInv /\ [ProgramNext]_ProgramVars => BuiltInv'
  BY BuiltInvStep
<1> QED
  BY <1>1, <1>2, PTL DEF ProgramSpec

LEMMA RowInvariant ==
  ASSUME TablesFit, FreshIds, "convert" \in IdOps
  PROVE  ProgramSpec /\ []WithinTables /\ []WithinMap => []RowInv
<1>1. ProgramInit => RowInv
  BY RowInvInit
<1>2. RowInv /\ EngineInv /\ WithinMap /\ WithinTables /\ [ProgramNext]_ProgramVars => RowInv'
  BY RowInvStep
<1> QED
  BY <1>1, <1>2, EngineInvariant, PTL DEF ProgramSpec

-----------------------------------------------------------------------------
(* Theorems.                                                               *)

(* The heuristics of the grids are consistent with the moves, on every map *)
(* that the program builds of a file, whatever its size, its tiles and the *)
(* costs of its terrains.                                                  *)
THEOREM HeuristicsAreConsistent ==
  ASSUME TablesFit, FreshIds, "convert" \in IdOps
  PROVE  ProgramSpec /\ []WithinTables => []HeuristicIsConsistent
<1>1. EngineInv => HeuristicIsConsistent
  BY EngineIsRight
<1> QED
  BY <1>1, EngineInvariant, PTL

(* The answers the program gets from the engine are paths of the map it    *)
(* has built, from start to target, without a circle.                      *)
THEOREM ProgramPathsAreReal ==
  ASSUME TablesFit, FreshIds, "convert" \in IdOps
  PROVE  ProgramSpec /\ []WithinTables => []PathIsReal
<1>1. EngineInv => PathIsReal
  BY EngineIsRight
<1> QED
  BY <1>1, EngineInvariant, PTL

(* The reported cost is not below that of a shortest path of the map, and  *)
(* not above it by more than the estimates are uneven next to the target.  *)
THEOREM ProgramSumsAreNear ==
  ASSUME TablesFit, FreshIds, "convert" \in IdOps
  PROVE  ProgramSpec /\ []WithinTables => []SumIsNearOptimal
<1>1. EngineInv => SumIsNearOptimal
  BY EngineIsRight
<1> QED
  BY <1>1, EngineInvariant, PTL

(* Cells are closed by shortest paths: on the maps of the program it loses *)
(* nothing that the default traits never reopen a node.                    *)
THEOREM ProgramClosesFinally ==
  ASSUME TablesFit, FreshIds, "convert" \in IdOps, AC = "any" \/ RP = "yes"
  PROVE  ProgramSpec /\ []WithinTables => []ClosedIsFinal
<1>1. EngineInv => ClosedIsFinal
  BY EngineIsRight
<1> QED
  BY <1>1, EngineInvariant, PTL

(* The lower bound of a search on a map of the program never falls, but    *)
(* for a search that starts in an obstacle.                                *)
THEOREM ProgramBoundsNeverFall ==
  ASSUME TablesFit, FreshIds, "convert" \in IdOps
  PROVE  ProgramSpec /\ []WithinTables => LowerBoundGrows
<1>1. EngineInv /\ WithinTables /\ [ProgramNext]_ProgramVars
        => [pc = "loop" /\ pc' = "succ" /\ sol.lb # CostMax /\ Consistent
              => sol.lb <= sol'.lb]_vars
  BY BoundIsKept
<1> QED
  BY <1>1, EngineInvariant, PTL DEF ProgramSpec, LowerBoundGrows

(* The cells of the map are the tiles of the file, whatever its size and   *)
(* the number of characters in its lines, for both readers.                *)
THEOREM ProgramCellsAreDrawn ==
  ProgramSpec => []CellsAreDrawn
<1>1. BuiltInv => CellsAreDrawn
  BY BuiltIsDrawn
<1> QED
  BY <1>1, BuiltInvariant, PTL

(* The rows that are printed are the answers of the drawing in the map     *)
(* file: a cost exactly if it has a path, that of a shortest one for A* on *)
(* a gridmap, not too far from it for the other searches, with a length in *)
(* keeping.  It holds for every map file, scenario, command line and       *)
(* garbage, as long as the points of the experiments are points of the map *)
(* and no path is longer than size_t counts.                               *)
THEOREM ProgramRowsAreTrue ==
  ASSUME TablesFit, FreshIds, "convert" \in IdOps, EngineIsSet, NumbersFit
  PROVE  ProgramSpec /\ []WithinTables /\ []WithinMap => []RowsAreTrue
<1>1. EngineInv /\ BuiltInv /\ RowInv => RowsAreTrue
  BY RowsAreRight
<1> QED
  BY <1>1, EngineInvariant, BuiltInvariant, RowInvariant, PTL

(* The exit status tells what has become of the drawing: one in order is   *)
(* searched, a run without rows has one of the reasons of the code, and    *)
(* with --checkopt the status is 4 exactly if the last row is off from     *)
(* what the scenario expects, provided that the status of an exception is  *)
(* neither 0 nor 4.                                                        *)
THEOREM ProgramStatusIsHonest ==
  ASSUME TablesFit, FreshIds, "convert" \in IdOps, EngineIsSet, NumbersFit,
         Aborted \notin {0, 4}
  PROVE  ProgramSpec /\ []WithinTables /\ []WithinMap => []StatusIsHonest
<1>1. ProgramInit => StatusInv
  BY StatusInvInit
<1>2. EngineInv /\ RowInv /\ StatusInv /\ [ProgramNext]_ProgramVars => StatusInv'
  BY StatusInvStep
<1>3. EngineInv /\ BuiltInv /\ RowInv => RowsAreTrue
  BY RowsAreRight
<1>4. StatusInv /\ RowsAreTrue => StatusIsHonest
  BY StatusIsRight
<1> QED
  BY <1>1, <1>2, <1>3, <1>4, EngineInvariant, BuiltInvariant, RowInvariant, PTL
  DEF ProgramSpec
=============================================================================
