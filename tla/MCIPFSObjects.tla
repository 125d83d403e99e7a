--------------------------- MODULE MCIPFSObjects ---------------------------
(***************************************************************************)
(* Two requests at a time on one bucket with a name and a name below it;   *)
(* uploads of one byte and of two bytes, so that a shorter upload meets a  *)
(* longer object and the other way round; ranges with an offset and of the *)
(* last byte; deletions that empty a directory and then name it.           *)
(***************************************************************************)
EXTENDS IPFSObjects, TLC

CONSTANTS p1, p2, b1, dir, file

MCSymmetry == Permutations(Procs)
MCAncestors == (dir :> {}) @@ (file :> {dir})
MCPayloads == {<<1>>, <<1, 2>>}
MCRanges == {NoRange, <<1, 1>>, <<-1, 1>>}
MCObjectLists == {<<dir>>, <<file, dir>>}
=============================================================================
