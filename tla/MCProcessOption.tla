-------------------------- MODULE MCProcessOption --------------------------
(***************************************************************************)
(* Options with two variables, which the program may move to and fro, and  *)
(* a block for each of them and one more: whatever they hold, a move finds *)
(* the block that dump may need for a table.                               *)
(***************************************************************************)
EXTENDS ProcessOption, TLC

Symmetry == Permutations(Options) \cup Permutations(Blocks)

=============================================================================
