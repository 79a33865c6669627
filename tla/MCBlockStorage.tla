--------------------------- MODULE MCBlockStorage ---------------------------
(***************************************************************************)
(* Two or three sectors of two blocks and two ids: the blocks run out      *)
(* after a few saves, the deleted ones may or may not fill a sector, and   *)
(* the two records may lie in one sector or in two.                        *)
(***************************************************************************)
EXTENDS BlockStorage

CONSTANTS i1, i2, d1, d2

MCIds  == {i1, i2}
MCData == {d1, d2}
=============================================================================
