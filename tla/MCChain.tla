------------------------------- MODULE MCChain ------------------------------
(***************************************************************************)
(* Chain on small instances: one or two classes of exceptions, handlers    *)
(* of every kind, chains running up to three deep.                         *)
(***************************************************************************)
EXTENDS Chain
=============================================================================
