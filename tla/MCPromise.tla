------------------------------ MODULE MCPromise -----------------------------
(***************************************************************************)
(* Promise on a small instance: two futures in either order, or one future *)
(* with a handler of the program's before or behind it in a chain, with a  *)
(* watcher or without; two finally handlers, of which the first may throw; *)
(* a oneshot that fires twice, so that a future may be taken between.      *)
(***************************************************************************)
EXTENDS Promise
=============================================================================
