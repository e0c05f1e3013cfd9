------------------------------ MODULE MCRequest -----------------------------
(***************************************************************************)
(* Request on small instances: two requests, so that handlers of one act   *)
(* on the other, and calls of every sort of operation.                     *)
(***************************************************************************)
EXTENDS Request

(* One operation of every sort.                                            *)
EverySort == Operations

(* Calls whose results are found again through the request, and through    *)
(* the directory.                                                          *)
ReusedSorts == {FsReadlink, FsReaddir}
=============================================================================
