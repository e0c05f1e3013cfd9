-------------------------- MODULE MCQueuedCallback --------------------------
(***************************************************************************)
(* QueuedCallback on a small instance: the loop's thread, one thread that  *)
(* pushes by itself, and three consumers, so that one can sleep, one be    *)
(* woken and one take the value first.                                     *)
(***************************************************************************)
EXTENDS QueuedCallback

MCLimits == {0, 1}
=============================================================================
