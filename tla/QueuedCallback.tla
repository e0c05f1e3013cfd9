--------------------------- MODULE QueuedCallback --------------------------
(***************************************************************************)
(* The queue a program gets from a callback (callback_t::get_queue, in     *)
(* src/include/uvcxx/utils/callback.h) to iterate on other threads while   *)
(* the loop's thread emits the events of a handle: the handle's closing,   *)
(* the two closures that get_queue registers, and the Queue itself, which  *)
(* the program may also push to, limit and close by hand.                  *)
(***************************************************************************)
EXTENDS Queue

CONSTANT Loop       \* the producer that is the loop's thread

ASSUME LoopAssumption == Loop \in Producers

VARIABLES
    handle,     \* "open", "closing", "finalizing": m_finalized is set, "closed"
    made,       \* get_queue was called
    fed,        \* the closure that pushes is in the call chain
    ender,      \* the closure that closes is in the finally chain
    byHand      \* history: the program closed the queue itself

qcVars == <<vars, handle, made, fed, ender, byHand>>

QCInit ==
    /\ Init
    /\ handle = "open"
    /\ made = FALSE /\ fed = FALSE /\ ender = FALSE
    /\ byHand = FALSE

-----------------------------------------------------------------------------
(* get_queue: call(push), then finally(close).  Once finalize has started, *)
(* the finally chain has run or is running without the new handler.        *)
GetQueue ==
    /\ ~made
    /\ made' = TRUE
    /\ fed' = TRUE
    /\ ender' = (handle \in {"open", "closing"})
    /\ UNCHANGED <<vars, handle, byHand>>

(* callback_emitter::emit on the loop's thread, as far as the closure that *)
(* pushes.  What push answers is dropped: a closed queue loses the event.  *)
Event(v) ==
    /\ handle = "open" /\ fed
    /\ Push(Loop, v)
    /\ UNCHANGED <<handle, made, fed, ender, byHand>>

(* close(), or close_handle thrown by a handler: no more events.           *)
CloseHandle ==
    /\ handle = "open"
    /\ handle' = "closing"
    /\ UNCHANGED <<vars, made, fed, ender, byHand>>

(* The close callback deletes the data_t, whose destructor finalizes the   *)
(* callback: the exchange of m_finalized, and the chain up to the queue's  *)
(* handler.                                                                *)
Finalize ==
    /\ handle = "closing"
    /\ handle' = "finalizing"
    /\ UNCHANGED <<vars, made, fed, ender, byHand>>

(* Mistake: the queue is told only when it is empty.                       *)
EnderRunsIfDrained ==
    /\ handle = "finalizing"
    /\ handle' = "closed"
    /\ IF ender /\ queue = <<>> THEN Close ELSE UNCHANGED vars
    /\ UNCHANGED <<made, fed, ender, byHand>>

(* The queue's handler runs, if the chain that is running has it.          *)
EnderRuns ==
    /\ handle = "finalizing"
    /\ handle' = "closed"
    /\ IF ender THEN Close ELSE UNCHANGED vars
    /\ UNCHANGED <<made, fed, ender, byHand>>

(* A finally handler registered before get_queue throws: finalize drops    *)
(* the exception and, with it, the rest of the chain.                      *)
FinallyThrows ==
    /\ handle = "finalizing"
    /\ handle' = "closed"
    /\ ender' = FALSE
    /\ UNCHANGED <<vars, made, fed, byHand>>

(* callback.call(nullptr), which stream_t::alloc does as well.             *)
ClearCall ==
    /\ fed
    /\ fed' = FALSE
    /\ UNCHANGED <<vars, handle, made, ender, byHand>>

(* Mistake: destroying the closures closes the queue.                      *)
ClearFinallyCloses ==
    /\ ender /\ handle \in {"open", "closing"}
    /\ ender' = FALSE
    /\ Close
    /\ UNCHANGED <<handle, made, fed, byHand>>

(* callback.finally(nullptr), which handlers of the close may call too, as *)
(* long as finalize has not taken the chain.                               *)
ClearFinally ==
    /\ ender /\ handle \in {"open", "closing"}
    /\ ender' = FALSE
    /\ UNCHANGED <<vars, handle, made, fed, byHand>>

(* What threads do with their copies of the queue.                         *)
CloseByHand ==
    /\ made
    /\ Close
    /\ byHand' = TRUE
    /\ UNCHANGED <<handle, made, fed, ender>>

ByThreads ==
    /\ made
    /\ \/ \E p \in Producers \ {Loop} : PushRefused(p) \/ \E v \in Values : Push(p, v)
       \/ \E c \in Consumers : Pop(c)
       \/ \E v \in Limits : Limit(v)
       \/ \E t \in Threads : SpuriousWakeup(t)
    /\ UNCHANGED <<handle, made, fed, ender, byHand>>

QCNext ==
    \/ GetQueue \/ ClearCall \/ ClearFinally
    \/ \E v \in Values : Event(v)
    \/ CloseHandle \/ Finalize \/ EnderRuns \/ FinallyThrows
    \/ CloseByHand
    \/ ByThreads

QCSafeSpec == QCInit /\ [][QCNext]_qcVars

Iterates(c) == made /\ Pop(c) /\ UNCHANGED <<handle, made, fed, ender, byHand>>

(* Consumers keep iterating, and the program keeps running the loop until  *)
(* a handle that is being closed is closed, which includes its finally     *)
(* handlers.  Nothing makes an event come, or a handle be closed.          *)
QCSpec ==
    /\ QCSafeSpec
    /\ \A c \in Consumers : WF_qcVars(Iterates(c))
    /\ WF_qcVars(Finalize) /\ WF_qcVars(EnderRuns \/ FinallyThrows)

-----------------------------------------------------------------------------
(* A consumer is sent home for a cause: as long as the handle may have     *)
(* events, its callback leaves the queue open, whatever the program does   *)
(* to the chains; only a close by hand ends the iteration before.          *)
EndedForCause == closed => byHand \/ (handle = "closed" /\ ender)

(* Closing the handle releases the threads that iterate its queue, after   *)
(* they got all its events, unless the closure that closes was cleared or  *)
(* a finally handler before it threw (get_queue, ~data_t, finalize).       *)
ReleasedWithHandle ==
    (handle # "open" /\ ender)
        ~> (~ender \/ \A c \in Consumers : thread[c] = "done")
=============================================================================
