---------------------------- MODULE AbstractHandle ---------------------------
(***************************************************************************)
(* What libuvcxx promises of a handle (src/docs/lifecycle.md, "Handle"):   *)
(* it is allocated, opened and closed, in this order and once each.  A     *)
(* close that libuv takes up resolves the close promise when it completes, *)
(* and then its finally handlers run and the context is released; a handle *)
(* that libuv never knew is discarded at once, its promise finalized only. *)
(* Closes complete one at a time: the handlers of one are over before the  *)
(* next is reported.                                                       *)
(*                                                                         *)
(* Suspend, Running and Detached of the document are one state here: in    *)
(* all of them libuv knows the handle and nobody has closed it.            *)
(***************************************************************************)
CONSTANT Handles

VARIABLE life       \* how far each handle has come

Lives == {"unmade", "allocated", "open", "closing", "closed", "released", "discarded"}

Init == life = [h \in Handles |-> "unmade"]

Step(h, from, to) ==
    /\ life[h] = from
    /\ life' = [life EXCEPT ![h] = to]

Allocate(h)   == Step(h, "unmade", "allocated")
Open(h)       == Step(h, "unmade", "open")
Initialize(h) == Step(h, "allocated", "open")
Discard(h)    == Step(h, "allocated", "discarded")
Close(h)      == Step(h, "open", "closing")
Complete(h)   == /\ \A g \in Handles : life[g] # "closed"
                 /\ Step(h, "closing", "closed")
Release(h)    == Step(h, "closed", "released")

Next == \E h \in Handles :
    \/ Allocate(h) \/ Open(h) \/ Initialize(h) \/ Discard(h)
    \/ Close(h) \/ Complete(h) \/ Release(h)

Spec == Init /\ [][Next]_life
=============================================================================
