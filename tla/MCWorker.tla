------------------------------ MODULE MCWorker ------------------------------
(***************************************************************************)
(* Worker with two threads of the program, which may join one thread at    *)
(* the same time, two thread_t variables to move it between, and two       *)
(* entries on one loop.                                                    *)
(***************************************************************************)
EXTENDS Worker

=============================================================================
