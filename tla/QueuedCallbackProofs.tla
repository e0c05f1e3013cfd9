----------------------- MODULE QueuedCallbackProofs ------------------------
(***************************************************************************)
(* Theorems about QueuedCallback: seen from the queue, a callback is one   *)
(* more program that uses it, so what QueueProofs proves of every program  *)
(* holds of this one, the channel included; and the queue is closed for a  *)
(* cause, and with its handle.                                             *)
(***************************************************************************)
EXTENDS QueuedCallback, QueueProofs

-----------------------------------------------------------------------------
(* Every step of the composition is a step of the queue, or leaves it.     *)
LEMMA QCNextIsQueueStep ==
    ASSUME [QCNext]_qcVars
    PROVE  [Next]_vars
<1>1. CASE GetQueue
  BY <1>1 DEF GetQueue, vars
<1>2. CASE ClearCall
  BY <1>2 DEF ClearCall, vars
<1>3. CASE ClearFinally
  BY <1>3 DEF ClearFinally, vars
<1>4. ASSUME NEW v \in Values, Event(v)
      PROVE  [Next]_vars
  BY <1>4, LoopAssumption DEF Event, Next
<1>5. CASE CloseHandle
  BY <1>5 DEF CloseHandle, vars
<1>6. CASE Finalize
  BY <1>6 DEF Finalize, vars
<1>7. CASE EnderRuns
  <2>1. Close \/ UNCHANGED vars
    BY <1>7 DEF EnderRuns
  <2> QED
    BY <2>1 DEF Next
<1>8. CASE FinallyThrows
  BY <1>8 DEF FinallyThrows, vars
<1>9. CASE CloseByHand
  BY <1>9 DEF CloseByHand, Next
<1>10. CASE ByThreads
  BY <1>10 DEF ByThreads, Next
<1>11. CASE UNCHANGED qcVars
  BY <1>11 DEF qcVars
<1> QED
  BY <1>1, <1>2, <1>3, <1>4, <1>5, <1>6, <1>7, <1>8, <1>9, <1>10, <1>11 DEF QCNext

(* The composition implements the queue module, with the handle, the chains *)
(* and get_queue hidden.                                                   *)
THEOREM ComposedIsQueue == QCSafeSpec => SafeSpec
<1>1. QCInit => Init
  BY DEF QCInit
<1>2. [QCNext]_qcVars => [Next]_vars
  BY QCNextIsQueueStep
<1> QED
  BY <1>1, <1>2, PTL DEF QCSafeSpec, SafeSpec

(* Threads that iterate the queue of a callback see one channel, open      *)
(* until it is closed for good: each event goes to one of them, in order.  *)
THEOREM ComposedIsChannel == QCSafeSpec => ImplementsAbstractSafety
  BY ComposedIsQueue, RefinesAbstract, PTL

(* No event taken into the queue is lost, duplicated or reordered.         *)
THEOREM EventsAreConserved == QCSafeSpec => []Conservation
  BY ComposedIsQueue, ConservationHolds, PTL

(* However a callback's events, its end, a close by hand and the threads   *)
(* interleave, no consumer sleeps on a value or behind a closed queue.     *)
THEOREM ConsumersAreNotStranded == QCSafeSpec => []NobodyStranded
  BY ComposedIsQueue, NobodyIsStranded, PTL

(* The loop's thread, which emits the events, never blocks in the queue.   *)
THEOREM LoopNeverBlocks == QCSafeSpec => []ProducersNeverBlock
  BY ComposedIsQueue, ProducersNeverBlockHolds, PTL

-----------------------------------------------------------------------------
(* The end of the callback has reached the queue when the handle is        *)
(* closed, unless its closure was cleared or passed over.                  *)
ClosedWithHandle == handle = "closed" /\ ender => closed

(* EndedForCause needs that get_queue is what puts the closure there: a    *)
(* closed handle whose queue it closed is not given another one.           *)
Cause ==
    /\ EndedForCause
    /\ ClosedWithHandle
    /\ ender => made

LEMMA StepKeepsCause ==
    ASSUME Cause, [QCNext]_qcVars
    PROVE  Cause'
<1> USE DEF Cause, EndedForCause, ClosedWithHandle
<1>1. CASE GetQueue
  BY <1>1 DEF GetQueue, vars
<1>2. CASE ClearCall
  BY <1>2 DEF ClearCall, vars
<1>3. CASE ClearFinally
  BY <1>3 DEF ClearFinally, vars
<1>4. ASSUME NEW v \in Values, Event(v)
      PROVE  Cause'
  BY <1>4 DEF Event, Push, Enqueue
<1>5. CASE CloseHandle
  BY <1>5 DEF CloseHandle, vars
<1>6. CASE Finalize
  BY <1>6 DEF Finalize, vars
<1>7. CASE EnderRuns
  BY <1>7 DEF EnderRuns, Close, vars
<1>8. CASE FinallyThrows
  BY <1>8 DEF FinallyThrows, vars
<1>9. CASE CloseByHand
  BY <1>9 DEF CloseByHand, Close
<1>10. CASE ByThreads
  <2>1. closed' = closed
    BY <1>10 DEF ByThreads, PushRefused, Push, Enqueue, Pop, PopTakes, PopEnds,
                 PopWaits, Limit, SpuriousWakeup
  <2> QED
    BY <1>10, <2>1 DEF ByThreads
<1>11. CASE UNCHANGED qcVars
  BY <1>11 DEF qcVars, vars
<1> QED
  BY <1>1, <1>2, <1>3, <1>4, <1>5, <1>6, <1>7, <1>8, <1>9, <1>10, <1>11 DEF QCNext

LEMMA CauseHolds == QCSafeSpec => []Cause
<1>1. QCInit => Cause
  BY DEF QCInit, Init, EndedForCause, ClosedWithHandle, Cause
<1> QED
  BY <1>1, StepKeepsCause, PTL DEF QCSafeSpec

(* As long as the handle may have events its callback does not close the   *)
(* queue: an iteration that ends was ended by the handle or by hand.       *)
THEOREM EndedForCauseHolds == QCSafeSpec => []EndedForCause
<1>1. Cause => EndedForCause
  BY DEF Cause
<1> QED
  BY <1>1, CauseHolds, PTL

(* A closed handle has closed its queue, so that nobody waits there for    *)
(* events that can no longer come.                                         *)
THEOREM ClosedWithHandleHolds == QCSafeSpec => []ClosedWithHandle
<1>1. Cause => ClosedWithHandle
  BY DEF Cause
<1> QED
  BY <1>1, CauseHolds, PTL

(* A consumer that went home.                                              *)
LeavesForCause ==
    \A c \in Consumers : thread[c] = "done" =>
        /\ delivered = accepted
        /\ byHand \/ (handle = "closed" /\ ender)

(* A consumer's iteration ends when the handle was closed or the queue was *)
(* closed by hand, and only after every event was handed to somebody.      *)
THEOREM ConsumersLeaveForCause == QCSafeSpec => []LeavesForCause
<1>1. TypeOK /\ Conservation /\ EndIsFinal /\ EndedForCause => LeavesForCause
  <2> SUFFICES ASSUME TypeOK, Conservation, EndIsFinal, EndedForCause,
                      NEW c \in Consumers, thread[c] = "done"
               PROVE  delivered = accepted /\ (byHand \/ (handle = "closed" /\ ender))
    BY DEF LeavesForCause
  <2>1. closed /\ queue = <<>>
    BY DEF EndIsFinal
  <2>2. delivered \o <<>> = delivered
    BY ConcatEmptySeq DEF TypeOK
  <2> QED
    BY <2>1, <2>2 DEF Conservation, EndedForCause
<1> QED
  BY <1>1, ComposedIsQueue, TypeCorrect, ConservationHolds, EndIsFinalHolds,
     EndedForCauseHolds, PTL
=============================================================================
