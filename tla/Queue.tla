-------------------------------- MODULE Queue -------------------------------
(***************************************************************************)
(* uvcxx::queue_core (src/include/uvcxx/utils/queue.h): a std::queue under *)
(* one mutex with two condition variables, read through the iterator of    *)
(* uvcxx::queue (`for (auto &v : queue)`).                                 *)
(*                                                                         *)
(* An action is one critical section of m_mutex: from taking the lock (at  *)
(* the call, or when wait() returns) to releasing it (at the return, or    *)
(* inside wait()).  A thread is "ready" to make its next call, "waiting"   *)
(* in a condition variable, "woken" out of it and about to take the mutex  *)
(* again, or "done": a producer that was refused, a consumer whose         *)
(* iterator reached end().  A producer only ever waits in m_cond_writable, *)
(* a consumer only in m_cond_readable.                                     *)
(***************************************************************************)
EXTENDS Integers, Sequences, FiniteSets

CONSTANTS
    Producers,   \* threads that call push
    Consumers,   \* threads that iterate the queue
    Values,      \* the values pushed
    Limits,      \* the arguments limit() is called with
    MaxPush      \* bound of the model: the number of values accepted

ASSUME ThreadsAssumption ==
    /\ IsFiniteSet(Consumers)
    /\ Producers \cap Consumers = {}
ASSUME LimitsAssumption == Limits \subseteq Int
ASSUME MaxPushAssumption == MaxPush \in Nat

VARIABLES
    queue,       \* m_queue
    limit,       \* m_limit
    closed,      \* m_closed
    thread,      \* where each thread is
    accepted,    \* history: the values push answered `true` for
    delivered    \* history: the values pop handed out

vars == <<queue, limit, closed, thread, accepted, delivered>>

Threads == Producers \cup Consumers

-----------------------------------------------------------------------------
Init ==
    /\ queue = <<>>
    /\ limit = -1
    /\ closed = FALSE
    /\ thread = [t \in Threads |-> "ready"]
    /\ accepted = <<>>
    /\ delivered = <<>>

Readable == queue # <<>>

(* The second comparison of writable() is between an unsigned size and 0.  *)
Writable == limit <= 0 \/ Len(queue) < 0

Waiting(S) == {t \in S : thread[t] = "waiting"}
Woken(S)   == {t \in S : thread[t] = "woken"}

WakeAll(S, th) == [t \in Threads |->
    IF t \in S /\ th[t] = "waiting" THEN "woken" ELSE th[t]]

(* The thread functions notify_one on the condition variable of the        *)
(* threads S can lead to: one waiter leaves, whichever, if there is one.   *)
WakeOne(S, th) ==
    LET W == {t \in S : th[t] = "waiting"} IN
    IF W = {} THEN {th} ELSE {[th EXCEPT ![t] = "woken"] : t \in W}

-----------------------------------------------------------------------------
Running(t) == thread[t] \in {"ready", "woken"}

(* Plausible mistakes, each defined before the definition it would replace *)
(* and used nowhere else: PROJECT.json names the property that notices.    *)
(* This one notifies the condition variable of the writers after a push.   *)
EnqueueTellsWriters(p, v) ==
    /\ queue' = Append(queue, v)
    /\ accepted' = Append(accepted, v)
    /\ thread' \in WakeOne(Producers, [thread EXCEPT ![p] = "ready"])
    /\ UNCHANGED <<limit, closed, delivered>>

(* m_queue.push(v); m_cond_readable.notify_one().                          *)
Enqueue(p, v) ==
    /\ queue' = Append(queue, v)
    /\ accepted' = Append(accepted, v)
    /\ thread' \in WakeOne(Consumers, [thread EXCEPT ![p] = "ready"])
    /\ UNCHANGED <<limit, closed, delivered>>

(* A push on a closed queue is refused; one that was already waiting when  *)
(* the queue was closed goes through.                                      *)
PushRefused(p) ==
    /\ thread[p] = "ready"
    /\ closed
    /\ thread' = [thread EXCEPT ![p] = "done"]
    /\ UNCHANGED <<queue, limit, closed, accepted, delivered>>

(* push, its wait included: the loop around the wait tests writable() or   *)
(* m_closed.                                                               *)
Push(p, v) ==
    /\ Running(p)
    /\ thread[p] = "ready" => ~closed
    /\ Len(accepted) < MaxPush
    /\ IF Writable \/ closed
       THEN Enqueue(p, v)
       ELSE /\ thread' = [thread EXCEPT ![p] = "waiting"]
            /\ UNCHANGED <<queue, limit, closed, accepted, delivered>>

(* Mistake: the newest value goes.                                         *)
PopTakesNewest(c) ==
    /\ Running(c)
    /\ Readable
    /\ queue' = SubSeq(queue, 1, Len(queue) - 1)
    /\ delivered' = Append(delivered, queue[Len(queue)])
    /\ thread' = [thread EXCEPT ![c] = "ready"]
    /\ UNCHANGED <<limit, closed, accepted>>

(* pop, first branch of its loop: the front value is moved out, and a      *)
(* waiting producer is told.                                               *)
PopTakes(c) ==
    /\ Running(c)
    /\ Readable
    /\ queue' = Tail(queue)
    /\ delivered' = Append(delivered, Head(queue))
    /\ LET back == [thread EXCEPT ![c] = "ready"] IN
       thread' \in IF Writable THEN WakeOne(Producers, back) ELSE {back}
    /\ UNCHANGED <<limit, closed, accepted>>

(* pop, second branch: {false, _}, which ends the iteration.               *)
PopEnds(c) ==
    /\ Running(c)
    /\ ~Readable
    /\ closed
    /\ thread' = [thread EXCEPT ![c] = "done"]
    /\ UNCHANGED <<queue, limit, closed, accepted, delivered>>

(* pop, the wait.                                                          *)
PopWaits(c) ==
    /\ Running(c)
    /\ ~Readable
    /\ ~closed
    /\ thread' = [thread EXCEPT ![c] = "waiting"]
    /\ UNCHANGED <<queue, limit, closed, accepted, delivered>>

(* Mistake: close notifies one waiting consumer.                           *)
CloseTellsOne ==
    /\ closed' = TRUE
    /\ thread' \in WakeOne(Consumers, thread)
    /\ UNCHANGED <<queue, limit, accepted, delivered>>

(* close, by any thread, any number of times.                              *)
Close ==
    /\ closed' = TRUE
    /\ thread' = WakeAll(Threads, thread)
    /\ UNCHANGED <<queue, limit, accepted, delivered>>

(* Mistake, or what limit() was meant to do: v is stored.                  *)
LimitStores(v) ==
    /\ limit' = v
    /\ thread' = WakeAll(Producers, thread)
    /\ UNCHANGED <<queue, closed, accepted, delivered>>

(* limit(v) only notifies: no path of it stores v in m_limit.              *)
Limit(v) ==
    /\ thread' \in
         IF v <= 0 THEN {IF limit > 0 THEN WakeAll(Producers, thread) ELSE thread}
         ELSE IF limit <= 0 \/ v <= limit THEN {thread}
         ELSE IF v - limit = 1 THEN WakeOne(Producers, thread)
         ELSE {WakeAll(Producers, thread)}
    /\ UNCHANGED <<queue, limit, closed, accepted, delivered>>

(* std::condition_variable::wait may return without a notification.        *)
SpuriousWakeup(t) ==
    /\ thread[t] = "waiting"
    /\ thread' = [thread EXCEPT ![t] = "woken"]
    /\ UNCHANGED <<queue, limit, closed, accepted, delivered>>

Pop(c) == PopTakes(c) \/ PopEnds(c) \/ PopWaits(c)

Next ==
    \/ \E p \in Producers, v \in Values : Push(p, v)
    \/ \E p \in Producers : PushRefused(p)
    \/ \E c \in Consumers : Pop(c)
    \/ Close
    \/ \E v \in Limits : Limit(v)
    \/ \E t \in Threads : SpuriousWakeup(t)

SafeSpec == Init /\ [][Next]_vars

(* A consumer keeps iterating: a thread that is not waiting runs, and gets *)
(* the mutex in the end, since every critical section is finite.  Nothing  *)
(* makes a producer push, a program close or limit, or a wait return       *)
(* without a notification.                                                 *)
Spec == SafeSpec /\ \A c \in Consumers : WF_vars(Pop(c))

-----------------------------------------------------------------------------
TypeOK ==
    /\ queue \in Seq(Values)
    /\ limit \in Int
    /\ closed \in BOOLEAN
    /\ thread \in [Threads -> {"ready", "waiting", "woken", "done"}]
    /\ accepted \in Seq(Values)
    /\ delivered \in Seq(Values)

(* No value is lost, duplicated or reordered between push and pop, however *)
(* producers and consumers interleave (queue_core::push, queue_core::pop). *)
Conservation == accepted = delivered \o queue

(* notify_one once per push is enough: while some consumer sleeps in       *)
(* m_cond_readable, the consumers already woken are as many as the values  *)
(* left, so no value is stranded behind a sleeping consumer - even though  *)
(* a consumer that never waited may take the value another was woken for,  *)
(* and wakeups may be spurious.                                            *)
NoLostWakeup ==
    Waiting(Consumers) # {} => Len(queue) <= Cardinality(Woken(Consumers))

(* After close nobody is left asleep: close notifies everyone, and pop     *)
(* tests m_closed after taking the lock and before it waits.               *)
NoSleepAfterClose == closed => Waiting(Threads) = {}

(* No thread sleeps while there is something for it to do.                 *)
NobodyStranded == NoLostWakeup /\ NoSleepAfterClose

(* `for (auto &v : queue)` ends only on a closed and drained queue: a      *)
(* consumer that left has not left a value behind, now or later.           *)
EndIsFinal ==
    \A c \in Consumers : thread[c] = "done" => closed /\ queue = <<>>

(* No producer ever blocks: whatever limit() is asked, m_limit stays what  *)
(* it was and writable() stays true.  The event loop's thread, which       *)
(* pushes from a callback made by get_queue, depends on it.                *)
ProducersNeverBlock == Waiting(Producers) = {}

(* Nothing is accepted by a queue that is closed, not even from a producer *)
(* that was under way when it was closed.                                  *)
ClosedIsFinal == [][closed => closed' /\ UNCHANGED accepted]_vars

Abstract == INSTANCE AbstractQueue WITH
    ended <- {c \in Consumers : thread[c] = "done"}

(* The queue with its mutex, condition variables and limit implements the  *)
(* channel, including its promise to hand out everything accepted.         *)
ImplementsAbstract == Abstract!Spec

(* Its safety part, for runs and proofs without fairness.                  *)
ImplementsAbstractSafety == Abstract!SafeSpec
=============================================================================
