--------------------------- MODULE AbstractRequest --------------------------
(***************************************************************************)
(* What libuvcxx promises of a request (src/docs/lifecycle.md, "Request"): *)
(* a call that returned a promise is answered exactly once - resolved,     *)
(* rejected or cancelled -, then its finally handlers run, once, and then  *)
(* its context is gone.  A call that failed is not heard of again.         *)
(***************************************************************************)
CONSTANT Calls      \* calls of fs::open, write, queue_work, ...

VARIABLES stage     \* how far each call has come

Stages == {"unmade", "waiting", "answered", "finished", "released"}

Init == stage = [c \in Calls |-> "unmade"]

Step(c, from, to) ==
    /\ stage[c] = from
    /\ stage' = [stage EXCEPT ![c] = to]

Make(c)    == Step(c, "unmade", "waiting")
Fail(c)    == Step(c, "unmade", "released")
Answer(c)  == Step(c, "waiting", "answered")
Finish(c)  == Step(c, "answered", "finished")
Release(c) == Step(c, "finished", "released")

Next == \E c \in Calls :
    Make(c) \/ Fail(c) \/ Answer(c) \/ Finish(c) \/ Release(c)

SafeSpec == Init /\ [][Next]_stage

(* A loop that runs answers what it was asked, and finishes what it began. *)
Spec == SafeSpec /\ \A c \in Calls :
    WF_stage(Answer(c)) /\ WF_stage(Finish(c)) /\ WF_stage(Release(c))
=============================================================================
