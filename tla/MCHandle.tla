------------------------------ MODULE MCHandle ------------------------------
(***************************************************************************)
(* Handle on small instances.  One handle of every kind for what concerns  *)
(* one handle; two handles of the kinds that differ most - detached by     *)
(* start(), active after init(), closed by a reset -, for handlers of one  *)
(* that construct, drop or close the other.                                *)
(***************************************************************************)
EXTENDS Handle, TLC

AllKinds == DOMAIN Traits
NoProcess == AllKinds \ {"process"}
PairKinds == {"timer", "async", "tcp"}
OnlyProcess == {"process"}
OnlyAsync == {"async"}

NoMisuse == {}
CloseAllocated == {"close_allocated"}
ClipMayOutlive == {"clip_outlives"}

HandleSymmetry == Permutations(Handles)
=============================================================================
