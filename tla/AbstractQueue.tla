--------------------------- MODULE AbstractQueue ---------------------------
(***************************************************************************)
(* What uvcxx::queue promises, without mutex, condition variables or       *)
(* limits: one FIFO channel that is open until it is closed once and for   *)
(* all, whose accepted values are each handed to exactly one consumer in   *)
(* the order of acceptance, and which tells a consumer "no more" only when *)
(* it is closed and everything accepted has been handed out.               *)
(***************************************************************************)
EXTENDS Naturals, Sequences

CONSTANTS Consumers, Values

VARIABLES
    accepted,   \* the values push answered `true` for, in order
    delivered,  \* the values pop handed out, in order
    closed,     \* close() was called
    ended       \* the consumers that were told there is no more

aqVars == <<accepted, delivered, closed, ended>>

Init ==
    /\ accepted = <<>>
    /\ delivered = <<>>
    /\ closed = FALSE
    /\ ended = {}

Accept(v) ==
    /\ ~closed
    /\ accepted' = Append(accepted, v)
    /\ UNCHANGED <<delivered, closed, ended>>

Deliver ==
    /\ Len(delivered) < Len(accepted)
    /\ delivered' = Append(delivered, accepted[Len(delivered) + 1])
    /\ UNCHANGED <<accepted, closed, ended>>

Close ==
    /\ closed' = TRUE
    /\ UNCHANGED <<accepted, delivered, ended>>

Finish(c) ==
    /\ closed
    /\ delivered = accepted
    /\ ended' = ended \cup {c}
    /\ UNCHANGED <<accepted, delivered, closed>>

Next ==
    \/ \E v \in Values : Accept(v)
    \/ Deliver
    \/ Close
    \/ \E c \in Consumers : Finish(c)

SafeSpec == Init /\ [][Next]_aqVars

(* Nothing accepted stays in the channel for ever, and a closed channel    *)
(* lets every consumer go.                                                 *)
Spec ==
    /\ SafeSpec
    /\ WF_aqVars(Deliver)
    /\ \A c \in Consumers : WF_aqVars(Finish(c))
=============================================================================
