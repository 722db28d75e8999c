------------------------------- MODULE Gridmap -------------------------------
(***************************************************************************)
(* warthog::domain::gridmap: a grid of traversable and blocked cells in    *)
(* one table, padded with blocked cells so that nobody checks bounds.  A   *)
(* map is the set of the padded ids of its traversable cells; pack ids     *)
(* number the cells of the file, padded ids the cells of the table.        *)
(***************************************************************************)
EXTENDS Integers

CONSTANTS
  HeaderWidth, HeaderHeight,  \* dimensions in the map file
  WordBits                    \* rows are padded to a multiple of it (64)

ASSUME HeaderAssumption ==
  {HeaderWidth, HeaderHeight, WordBits} \subseteq Nat \ {0}

PADDED_ROWS == 3

\* gridmap::init_db
Width ==
  IF (HeaderWidth + 1) % WordBits = 0 THEN HeaderWidth + 1
  ELSE (HeaderWidth \div WordBits + 1) * WordBits

Height == HeaderHeight + 2 * PADDED_ROWS
PaddingPerRow == Width - HeaderWidth

PackIds == 0 .. HeaderWidth * HeaderHeight - 1

ToPaddedId(pack) ==
  pack + PADDED_ROWS * Width + (pack \div HeaderWidth) * PaddingPerRow

\* to_unpadded_id_from_unpadded
ToPackId(x, y) == y * HeaderWidth + x

ToPaddedXY(pad) == <<pad % Width, pad \div Width>>

\* The padded ids of the cells of the file.
Cells == {ToPaddedId(k) : k \in PackIds}

(* get_neighbours: the traversable cells of the 3x3 square around id, as   *)
(* the set of their offsets <<dx, dy>>.  The bits are read next to those   *)
(* of id and of the two words one row away.                                *)
Neighbours(db, id) ==
  {d \in (-1 .. 1) \X (-1 .. 1) : id + d[2] * Width + d[1] \in db}
=============================================================================
