------------------------------ MODULE GridTiles ------------------------------
(***************************************************************************)
(* How gridmap stores its cells, and the reads that fetch a cell together  *)
(* with its surroundings.  One bit is a cell: words of 8 bits, rows that   *)
(* are padded to 64, and 8 words behind the last row so that reads of more *)
(* than a word may run over it.                                            *)
(***************************************************************************)
EXTENDS Gridmap, Bitarray

\* init_db; fill(0) leaves out the words behind the last row, which hold
\* whatever the memory held.
data_elements == calc_array_size(1, Width * Height)
EmptyDb(junk) ==
  [k \in 0 .. data_elements + 7 |-> IF k < data_elements THEN {} ELSE junk]

dbwidth == Width \div BaseBits
dbwidth64 == Width \div 64

GetLabel(data, id) == Get(1, data, id)
SetLabel(data, id, label) == Set(1, data, id, label)

\* Other conversions of coordinates.
PaddedId(x, y) == y * Width + x
ToPaddedIdFromUnpadded(x, y) == PaddedId(x, y + PADDED_ROWS)
ToUnpaddedXY(pad) == <<ToPaddedXY(pad)[1], ToPaddedXY(pad)[2] - PADDED_ROWS>>
PackXY(pack) == <<pack % HeaderWidth, pack \div HeaderWidth>>
ToUnpaddedId(pad) ==
  pad - (pad \div Width) * PaddingPerRow - PADDED_ROWS * HeaderWidth

\* A read in each of the rows above, at and below a cell.
Rows(Row(_)) == [row \in -1 .. 1 |-> Row(row)]

\* Mutant: the word of the cell itself is read, and not the one before it.
GetNeighboursNoWest(data, id) ==
  Rows(LAMBDA row :
    Shr(Read(data, id \div BaseBits + row * dbwidth, 32), id % BaseBits)
      \cap Ones(8))

GetNeighbours(data, id) ==
  Rows(LAMBDA row :
    Shr(Read(data, id \div BaseBits + row * dbwidth - 1, 32),
        (id % BaseBits) + 7) \cap Ones(8))

PackNeighbours(tiles) ==
  (tiles[-1] \cap Ones(3))
    \cup Shl(tiles[0] \cap {0}, 3, 8) \cup Shl(tiles[0] \cap {2}, 2, 8)
    \cup Shl(tiles[1], 5, 8)

GetNeighbours32(data, id) ==
  Rows(LAMBDA row :
    Shr(Read(data, id \div BaseBits + row * dbwidth, 64), id % BaseBits)
      \cap Ones(32))

GetNeighboursUpper32(data, id) ==
  Rows(LAMBDA row :
    Shr(Read(data, id \div BaseBits - 4 + row * dbwidth, 64),
        (id % BaseBits) + 1) \cap Ones(32))

\* Index and row length count words of 64 bits.
GetNeighbours64(data, id) ==
  Rows(LAMBDA row :
    Read(data, 8 * (id \div 64 + row * dbwidth64), 64))

\* gridmap_slider::get_neighbours_64bit_le
SliderNeighbours64(data, id) ==
  Rows(LAMBDA row : Read(data, id \div BaseBits + row * dbwidth, 64))
=============================================================================
