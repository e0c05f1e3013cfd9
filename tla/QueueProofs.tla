----------------------------- MODULE QueueProofs ----------------------------
(***************************************************************************)
(* Theorems about Queue, for any producers, any finite set of consumers,   *)
(* any values, limits and bound.  IInv is the inductive invariant: the     *)
(* safety invariants need each other and the fact that m_limit never       *)
(* leaves its initial value.                                               *)
(***************************************************************************)
EXTENDS Queue, TLAPS, SequenceTheorems, FiniteSetTheorems

LimitNeverSet == limit = -1

ProducersRun == \A p \in Producers : thread[p] \in {"ready", "done"}

IInv ==
    /\ TypeOK
    /\ LimitNeverSet
    /\ ProducersRun
    /\ NoSleepAfterClose
    /\ EndIsFinal
    /\ NoLostWakeup
    /\ Conservation

ThreadState == {"ready", "waiting", "woken", "done"}

-----------------------------------------------------------------------------
(* notify_one changes nothing when nobody waits, and otherwise moves one   *)
(* waiter of its condition variable to "woken".                            *)
LEMMA WakeOneEffect ==
    ASSUME NEW S \in SUBSET Threads, NEW th \in [Threads -> ThreadState],
           NEW th2 \in WakeOne(S, th)
    PROVE  /\ th2 \in [Threads -> ThreadState]
           /\ \/ th2 = th /\ \A t \in S : th[t] # "waiting"
              \/ \E t \in S : /\ th[t] = "waiting"
                            /\ th2[t] = "woken"
                            /\ \A u \in Threads : u # t => th2[u] = th[u]
<1> DEFINE W == {t \in S : th[t] = "waiting"}
<1>1. CASE W = {}
  BY <1>1 DEF WakeOne
<1>2. CASE W # {}
  <2>1. PICK t \in W : th2 = [th EXCEPT ![t] = "woken"]
    BY <1>2 DEF WakeOne
  <2> QED
    BY <2>1 DEF ThreadState
<1> QED
  BY <1>1, <1>2

(* The woken consumers are finitely many.                                  *)
LEMMA WokenFinite ==
    /\ IsFiniteSet(Woken(Consumers))
    /\ Cardinality(Woken(Consumers)) \in Nat
<1>1. Woken(Consumers) \in SUBSET Consumers
  BY DEF Woken
<1> QED
  BY <1>1, FS_Subset, FS_CardinalityType, ThreadsAssumption

(* Taking the head of the queue moves the boundary between the delivered   *)
(* and the queued values by one.                                           *)
LEMMA HeadMoves ==
    ASSUME NEW s \in Seq(Values), NEW q \in Seq(Values), q # <<>>
    PROVE  s \o q = Append(s, Head(q)) \o Tail(q)
<1>1. /\ Head(q) \in Values
      /\ Tail(q) \in Seq(Values)
      /\ <<Head(q)>> \in Seq(Values)
  BY HeadTailProperties
<1>2. q = <<Head(q)>> \o Tail(q)
  <2>1. /\ <<Head(q)>> \o Tail(q) \in Seq(Values)
        /\ Len(<<Head(q)>> \o Tail(q)) = 1 + Len(Tail(q))
        /\ \A i \in 1 .. 1 + Len(Tail(q)) : (<<Head(q)>> \o Tail(q))[i] =
              IF i <= 1 THEN <<Head(q)>>[i] ELSE Tail(q)[i - 1]
    BY <1>1, ConcatProperties
  <2>2. /\ Len(Tail(q)) = Len(q) - 1
        /\ Len(q) \in Nat
        /\ \A i \in 1 .. Len(Tail(q)) : Tail(q)[i] = q[i + 1]
    BY HeadTailProperties
  <2>3. ASSUME NEW i \in 1 .. Len(q)
        PROVE  q[i] = (<<Head(q)>> \o Tail(q))[i]
    BY <2>1, <2>2
  <2> QED
    BY <2>1, <2>2, <2>3, SeqEqual
<1>3. Append(s, Head(q)) = s \o <<Head(q)>>
  BY <1>1, AppendIsConcat
<1>4. (s \o <<Head(q)>>) \o Tail(q) = s \o (<<Head(q)>> \o Tail(q))
  BY <1>1, ConcatAssociative
<1> QED
  BY <1>2, <1>3, <1>4

-----------------------------------------------------------------------------
(* Every invariant holds of a queue just constructed.                      *)
LEMMA InitIInv == Init => IInv
<1> SUFFICES ASSUME Init PROVE IInv
  OBVIOUS
<1>1. TypeOK
  <2>1. queue \in Seq(Values) /\ accepted \in Seq(Values) /\ delivered \in Seq(Values)
    BY EmptySeq DEF Init
  <2>2. thread \in [Threads -> {"ready", "waiting", "woken", "done"}]
    BY DEF Init
  <2>3. limit \in Int
    BY DEF Init
  <2>4. closed \in BOOLEAN
    BY Zenon DEF Init
  <2> QED
    BY <2>1, <2>2, <2>3, <2>4 DEF TypeOK
<1>2. <<>> \in Seq(Values) /\ accepted = delivered \o queue
  BY ConcatEmptySeq DEF Init
<1>3. \A t \in Threads : thread[t] = "ready"
  BY DEF Init
<1>4. /\ Waiting(Producers) = {}
      /\ Waiting(Consumers) = {}
      /\ Waiting(Threads) = {}
  BY <1>3 DEF Waiting, Threads
<1>5. EndIsFinal /\ ProducersRun
  BY <1>3 DEF EndIsFinal, ProducersRun, Threads
<1> QED
  BY <1>1, <1>2, <1>4, <1>5 DEF Init, IInv, LimitNeverSet,
     NoSleepAfterClose, NoLostWakeup, Conservation

(* push of a value: it is appended and, if a consumer sleeps, one is woken. *)
LEMMA EnqueueKeepsIInv ==
    ASSUME IInv, NEW p \in Producers, NEW v \in Values, Push(p, v)
    PROVE  IInv'
<1>1. /\ TypeOK /\ LimitNeverSet /\ ProducersRun /\ NoSleepAfterClose
      /\ EndIsFinal /\ NoLostWakeup /\ Conservation
  BY DEF IInv
<1>2. /\ p \in Threads /\ p \notin Consumers /\ Consumers \in SUBSET Threads
  BY ThreadsAssumption DEF Threads
<1>3. thread[p] = "ready" /\ ~closed
  BY <1>1 DEF Push, Running, ProducersRun
<1>4. Enqueue(p, v)
  BY <1>1 DEF Push, Writable, LimitNeverSet
<1>5. thread \in [Threads -> ThreadState]
  BY <1>1 DEF TypeOK, ThreadState
<1>6. [thread EXCEPT ![p] = "ready"] = thread
  <2> DEFINE th == [thread EXCEPT ![p] = "ready"]
  <2>1. th \in [Threads -> ThreadState]
    BY <1>5 DEF ThreadState
  <2>2. \A t \in Threads : th[t] = thread[t]
    BY <1>2, <1>3, <1>5
  <2>3. QED
    BY <1>5, <2>1, <2>2, Zenon
<1>7. thread' \in WakeOne(Consumers, thread)
  BY <1>4, <1>6 DEF Enqueue
<1>8. /\ thread' \in [Threads -> ThreadState]
      /\ \/ thread' = thread /\ \A t \in Consumers : thread[t] # "waiting"
         \/ \E t \in Consumers : /\ thread[t] = "waiting"
                                /\ thread'[t] = "woken"
                                /\ \A u \in Threads : u # t => thread'[u] = thread[u]
  BY <1>2, <1>5, <1>7, WakeOneEffect
<1>9. /\ queue' = Append(queue, v) /\ accepted' = Append(accepted, v)
      /\ UNCHANGED <<delivered, limit, closed>>
  BY <1>4 DEF Enqueue
<1>10. /\ queue' \in Seq(Values) /\ accepted' \in Seq(Values)
       /\ Len(queue') = Len(queue) + 1 /\ Len(queue) \in Nat
  BY <1>1, <1>9, AppendProperties, LenProperties DEF TypeOK
<1>11. TypeOK' /\ LimitNeverSet'
  BY <1>1, <1>8, <1>9, <1>10 DEF TypeOK, LimitNeverSet, ThreadState
<1>12. Conservation'
  <2>1. /\ queue \in Seq(Values) /\ delivered \in Seq(Values)
        /\ <<v>> \in Seq(Values) /\ delivered \o queue \in Seq(Values)
    BY <1>1, ConcatProperties DEF TypeOK
  <2>2. Append(accepted, v) = (delivered \o queue) \o <<v>>
    BY <1>1, <2>1, AppendIsConcat DEF Conservation
  <2>3. (delivered \o queue) \o <<v>> = delivered \o (queue \o <<v>>)
    BY <2>1, ConcatAssociative
  <2>4. queue \o <<v>> = Append(queue, v)
    BY <2>1, AppendIsConcat
  <2> QED
    BY <1>9, <2>2, <2>3, <2>4 DEF Conservation
<1>13. ProducersRun'
  BY <1>1, <1>2, <1>5, <1>8, ThreadsAssumption DEF ProducersRun, Threads
<1>14. NoSleepAfterClose'
  BY <1>3, <1>9 DEF NoSleepAfterClose
<1>15. EndIsFinal'
  <2>1. ASSUME NEW c \in Consumers PROVE thread'[c] # "done"
    BY <1>1, <1>2, <1>3, <1>5, <1>8 DEF EndIsFinal
  <2> QED
    BY <2>1 DEF EndIsFinal
<1>16. NoLostWakeup'
  <2>1. CASE thread' = thread /\ \A t \in Consumers : thread[t] # "waiting"
    BY <2>1 DEF NoLostWakeup, Waiting
  <2>2. CASE \E t \in Consumers :
                /\ thread[t] = "waiting"
                /\ thread'[t] = "woken"
                /\ \A u \in Threads : u # t => thread'[u] = thread[u]
    <3>1. PICK t \in Consumers :
             /\ thread[t] = "waiting"
             /\ thread'[t] = "woken"
             /\ \A u \in Threads : u # t => thread'[u] = thread[u]
      BY <2>2
    <3>2. Woken(Consumers)' = Woken(Consumers) \cup {t} /\ t \notin Woken(Consumers)
      BY <1>2, <1>5, <3>1 DEF Woken
    <3>3. Cardinality(Woken(Consumers)') = Cardinality(Woken(Consumers)) + 1
      BY <3>2, WokenFinite, FS_AddElement
    <3>4. Len(queue) <= Cardinality(Woken(Consumers))
      BY <1>1, <3>1 DEF NoLostWakeup, Waiting
    <3> QED
      BY <1>10, <3>3, <3>4, WokenFinite DEF NoLostWakeup
  <2> QED
    BY <1>8, <2>1, <2>2
<1> QED
  BY <1>11, <1>12, <1>13, <1>14, <1>15, <1>16 DEF IInv

(* A step of one thread that leaves the queue as it is and wakes nobody:   *)
(* the refused push, and pop when there is nothing to take.                *)
LEMMA MoveKeepsIInv ==
    ASSUME IInv, NEW t \in Threads, NEW to \in ThreadState,
           thread[t] \in {"ready", "woken"},
           thread' = [thread EXCEPT ![t] = to],
           UNCHANGED <<queue, limit, closed, accepted, delivered>>,
           to = "done" => closed /\ (t \in Consumers => queue = <<>>),
           to = "waiting" => t \in Consumers /\ ~closed /\ queue = <<>>,
           to \in {"done", "waiting"}
    PROVE  IInv'
<1>1. /\ TypeOK /\ LimitNeverSet /\ ProducersRun /\ NoSleepAfterClose
      /\ EndIsFinal /\ NoLostWakeup /\ Conservation
  BY DEF IInv
<1>2. thread \in [Threads -> ThreadState] /\ thread' \in [Threads -> ThreadState]
  BY <1>1 DEF TypeOK, ThreadState
<1>3. TypeOK' /\ LimitNeverSet' /\ Conservation'
  BY <1>1, <1>2 DEF TypeOK, LimitNeverSet, Conservation, ThreadState
<1>4. ProducersRun'
  BY <1>1, <1>2, ThreadsAssumption DEF ProducersRun, Threads
<1>5. NoSleepAfterClose'
  BY <1>1, <1>2 DEF NoSleepAfterClose, Waiting
<1>6. EndIsFinal'
  BY <1>1, <1>2 DEF EndIsFinal, Threads
<1>7. NoLostWakeup'
  <2>1. CASE to = "waiting"
    <3>1. Cardinality(Woken(Consumers)') \in Nat
      <4>1. Woken(Consumers)' \in SUBSET Consumers
        BY DEF Woken
      <4> QED
        BY <4>1, FS_Subset, FS_CardinalityType, ThreadsAssumption
    <3>2. Len(queue') = 0
      BY <2>1
    <3> QED
      BY <3>1, <3>2 DEF NoLostWakeup
  <2>2. CASE to = "done"
    <3>1. Waiting(Consumers)' = {}
      BY <1>1, <1>2, <2>2 DEF NoSleepAfterClose, Waiting, Threads
    <3> QED
      BY <3>1 DEF NoLostWakeup
  <2> QED
    BY <2>1, <2>2
<1> QED
  BY <1>3, <1>4, <1>5, <1>6, <1>7 DEF IInv

(* pop of a value: the consumer that takes it may be one that was woken    *)
(* for it, or one that was not.                                            *)
LEMMA PopTakesKeepsIInv ==
    ASSUME IInv, NEW c \in Consumers, PopTakes(c)
    PROVE  IInv'
<1>1. /\ TypeOK /\ LimitNeverSet /\ ProducersRun /\ NoSleepAfterClose
      /\ EndIsFinal /\ NoLostWakeup /\ Conservation
  BY DEF IInv
<1>2. /\ c \in Threads /\ c \notin Producers
      /\ Consumers \in SUBSET Threads /\ Producers \in SUBSET Threads
  BY ThreadsAssumption DEF Threads
<1> DEFINE back == [thread EXCEPT ![c] = "ready"]
<1>3. thread \in [Threads -> ThreadState] /\ back \in [Threads -> ThreadState]
  BY <1>1 DEF TypeOK, ThreadState
<1>4. thread' = back
  <2>1. thread' \in WakeOne(Producers, back)
    BY <1>1 DEF PopTakes, Writable, LimitNeverSet
  <2>2. \A p \in Producers : back[p] # "waiting"
    BY <1>1, <1>2, <1>3 DEF ProducersRun
  <2> HIDE DEF back
  <2>3. \/ thread' = back /\ \A p \in Producers : back[p] # "waiting"
        \/ \E p \in Producers : /\ back[p] = "waiting"
                                /\ thread'[p] = "woken"
                                /\ \A u \in Threads : u # p => thread'[u] = back[u]
    BY <1>2, <1>3, <2>1, WakeOneEffect
  <2> QED
    BY <2>2, <2>3
<1>5. /\ queue # <<>> /\ queue' = Tail(queue)
      /\ delivered' = Append(delivered, Head(queue))
      /\ UNCHANGED <<limit, closed, accepted>>
      /\ thread[c] \in {"ready", "woken"}
  BY DEF PopTakes, Readable, Running
<1>6. /\ queue \in Seq(Values) /\ delivered \in Seq(Values)
      /\ Head(queue) \in Values /\ Tail(queue) \in Seq(Values)
      /\ Len(Tail(queue)) = Len(queue) - 1 /\ Len(queue) \in Nat
  BY <1>1, <1>5, HeadTailProperties, LenProperties DEF TypeOK
<1>7. TypeOK' /\ LimitNeverSet'
  <2>1. delivered' \in Seq(Values)
    BY <1>5, <1>6, AppendProperties
  <2> QED
    BY <1>1, <1>3, <1>4, <1>5, <1>6, <2>1 DEF TypeOK, LimitNeverSet, ThreadState
<1>8. Conservation'
  BY <1>1, <1>5, <1>6, HeadMoves DEF Conservation
<1>9. \A t \in Threads : thread'[t] = IF t = c THEN "ready" ELSE thread[t]
  BY <1>2, <1>3, <1>4
<1>10. ProducersRun'
  BY <1>1, <1>2, <1>9 DEF ProducersRun
<1>11. NoSleepAfterClose'
  BY <1>1, <1>5, <1>9 DEF NoSleepAfterClose, Waiting
<1>12. EndIsFinal'
  BY <1>1, <1>2, <1>5, <1>9 DEF EndIsFinal
<1>13. NoLostWakeup'
  <2>1. Waiting(Consumers)' = Waiting(Consumers)
    BY <1>2, <1>5, <1>9 DEF Waiting
  <2>2. Woken(Consumers)' = Woken(Consumers) \ {c}
    BY <1>2, <1>9 DEF Woken
  <2>3. /\ Cardinality(Woken(Consumers)) \in Nat
        /\ Cardinality(Woken(Consumers) \ {c}) =
              IF c \in Woken(Consumers) THEN Cardinality(Woken(Consumers)) - 1
              ELSE Cardinality(Woken(Consumers))
    BY WokenFinite, FS_RemoveElement
  <2>4. Cardinality(Woken(Consumers)') >= Cardinality(Woken(Consumers)) - 1
    BY <2>2, <2>3
  <2>5. Cardinality(Woken(Consumers)') \in Int
    BY <2>2, <2>3
  <2> QED
    BY <1>1, <1>5, <1>6, <2>1, <2>3, <2>4, <2>5 DEF NoLostWakeup
<1> QED
  BY <1>7, <1>8, <1>10, <1>11, <1>12, <1>13 DEF IInv

(* close wakes every sleeper, so that nobody is left to be stranded.       *)
LEMMA CloseKeepsIInv ==
    ASSUME IInv, Close
    PROVE  IInv'
<1>1. /\ TypeOK /\ LimitNeverSet /\ ProducersRun /\ NoSleepAfterClose
      /\ EndIsFinal /\ NoLostWakeup /\ Conservation
  BY DEF IInv
<1>2. /\ closed' = TRUE /\ UNCHANGED <<queue, limit, accepted, delivered>>
      /\ thread \in [Threads -> ThreadState]
      /\ thread' = [t \in Threads |-> IF t \in Threads /\ thread[t] = "waiting"
                                      THEN "woken" ELSE thread[t]]
  BY <1>1 DEF Close, WakeAll, TypeOK, ThreadState
<1>3. thread' \in [Threads -> ThreadState]
  BY <1>2 DEF ThreadState
<1>4. \A t \in Threads : /\ thread'[t] # "waiting"
                         /\ thread'[t] = "done" => thread[t] = "done"
                         /\ thread[t] # "waiting" => thread'[t] = thread[t]
  BY <1>2
<1>5. TypeOK'
  BY <1>1, <1>2, <1>3 DEF TypeOK, ThreadState
<1>6. LimitNeverSet' /\ Conservation'
  BY <1>1, <1>2 DEF LimitNeverSet, Conservation
<1>7. ProducersRun'
  BY <1>1, <1>4 DEF ProducersRun, Threads
<1>8. NoSleepAfterClose' /\ NoLostWakeup'
  BY <1>4 DEF NoSleepAfterClose, NoLostWakeup, Waiting, Threads
<1>9. EndIsFinal'
  BY <1>1, <1>2, <1>4 DEF EndIsFinal, Threads
<1> QED
  BY <1>5, <1>6, <1>7, <1>8, <1>9 DEF IInv

(* A spurious wakeup adds a consumer to the woken ones.                    *)
LEMMA SpuriousKeepsIInv ==
    ASSUME IInv, NEW t \in Threads, SpuriousWakeup(t)
    PROVE  IInv'
<1>1. /\ TypeOK /\ LimitNeverSet /\ ProducersRun /\ NoSleepAfterClose
      /\ EndIsFinal /\ NoLostWakeup /\ Conservation
  BY DEF IInv
<1>2. /\ thread[t] = "waiting" /\ thread' = [thread EXCEPT ![t] = "woken"]
      /\ UNCHANGED <<queue, limit, closed, accepted, delivered>>
      /\ thread \in [Threads -> ThreadState]
      /\ thread' \in [Threads -> ThreadState]
  BY <1>1 DEF SpuriousWakeup, TypeOK, ThreadState
<1>3. t \in Consumers
  BY <1>1, <1>2 DEF ProducersRun, Threads
<1>4. TypeOK' /\ LimitNeverSet' /\ Conservation'
  BY <1>1, <1>2 DEF TypeOK, LimitNeverSet, Conservation, ThreadState
<1>5. ProducersRun'
  BY <1>1, <1>2, <1>3, ThreadsAssumption DEF ProducersRun, Threads
<1>6. NoSleepAfterClose'
  BY <1>1, <1>2 DEF NoSleepAfterClose, Waiting
<1>7. EndIsFinal'
  BY <1>1, <1>2 DEF EndIsFinal, Threads
<1>8. NoLostWakeup'
  <2>1. /\ Woken(Consumers)' = Woken(Consumers) \cup {t}
        /\ t \notin Woken(Consumers)
    BY <1>2, <1>3 DEF Woken, Threads
  <2>2. /\ Cardinality(Woken(Consumers)') = Cardinality(Woken(Consumers)) + 1
        /\ Cardinality(Woken(Consumers)) \in Nat
    BY <2>1, WokenFinite, FS_AddElement
  <2>3. Len(queue) <= Cardinality(Woken(Consumers)) /\ Len(queue) \in Nat
    BY <1>1, <1>2, <1>3, LenProperties DEF NoLostWakeup, Waiting, TypeOK
  <2> QED
    BY <1>2, <2>2, <2>3 DEF NoLostWakeup
<1> QED
  BY <1>4, <1>5, <1>6, <1>7, <1>8 DEF IInv

(* limit() does nothing at all in a reachable state: m_limit is -1.        *)
LEMMA LimitIsANoOp ==
    ASSUME IInv, NEW v \in Limits, Limit(v)
    PROVE  UNCHANGED vars
<1>1. limit = -1 /\ v \in Int
  BY LimitsAssumption DEF IInv, LimitNeverSet
<1>2. thread' = thread
  <2>1. CASE v <= 0
    BY <1>1, <2>1 DEF Limit
  <2>2. CASE ~(v <= 0)
    BY <1>1, <2>2 DEF Limit
  <2> QED
    BY <2>1, <2>2
<1> QED
  BY <1>2 DEF Limit, vars

-----------------------------------------------------------------------------
(* Every step of the queue keeps the inductive invariant.                  *)
LEMMA NextKeepsIInv ==
    ASSUME IInv, [Next]_vars
    PROVE  IInv'
<1>1. CASE UNCHANGED vars
  BY <1>1 DEF IInv, vars, TypeOK, LimitNeverSet, ProducersRun, NoSleepAfterClose,
     EndIsFinal, NoLostWakeup, Conservation, Waiting, Woken
<1>2. ASSUME NEW p \in Producers, NEW v \in Values, Push(p, v) PROVE IInv'
  BY <1>2, EnqueueKeepsIInv
<1>3. ASSUME NEW p \in Producers, PushRefused(p) PROVE IInv'
  BY <1>3, MoveKeepsIInv, ThreadsAssumption DEF PushRefused, ThreadState, Threads
<1>4. ASSUME NEW c \in Consumers, Pop(c) PROVE IInv'
  <2>1. CASE PopTakes(c)
    BY <2>1, PopTakesKeepsIInv
  <2>2. CASE PopEnds(c)
    BY <2>2, MoveKeepsIInv DEF PopEnds, Readable, Running, ThreadState, Threads
  <2>3. CASE PopWaits(c)
    BY <2>3, MoveKeepsIInv DEF PopWaits, Readable, Running, ThreadState, Threads
  <2> QED
    BY <1>4, <2>1, <2>2, <2>3 DEF Pop
<1>5. CASE Close
  BY <1>5, CloseKeepsIInv
<1>6. ASSUME NEW v \in Limits, Limit(v) PROVE IInv'
  BY <1>1, <1>6, LimitIsANoOp
<1>7. ASSUME NEW t \in Threads, SpuriousWakeup(t) PROVE IInv'
  BY <1>7, SpuriousKeepsIInv
<1> QED
  BY <1>1, <1>2, <1>3, <1>4, <1>5, <1>6, <1>7 DEF Next

(* The inductive invariant holds of every execution of the queue.          *)
THEOREM IInvHolds == SafeSpec => []IInv
<1>1. Init => IInv
  BY InitIInv
<1>2. IInv /\ [Next]_vars => IInv'
  BY NextKeepsIInv
<1> QED
  BY <1>1, <1>2, PTL DEF SafeSpec

-----------------------------------------------------------------------------
(* The state of queue_core always has the types its members declare.       *)
THEOREM TypeCorrect == SafeSpec => []TypeOK
<1>1. IInv => TypeOK
  BY DEF IInv
<1> QED
  BY <1>1, IInvHolds, PTL

(* push and pop lose, duplicate and reorder nothing.                       *)
THEOREM ConservationHolds == SafeSpec => []Conservation
<1>1. IInv => Conservation
  BY DEF IInv
<1> QED
  BY <1>1, IInvHolds, PTL

(* notify_one per push and notify_all at close never strand a value behind *)
(* a sleeping consumer, nor a consumer behind a closed queue.              *)
THEOREM NobodyIsStranded == SafeSpec => []NobodyStranded
<1>1. IInv => NobodyStranded
  BY DEF IInv, NobodyStranded
<1> QED
  BY <1>1, IInvHolds, PTL

(* The iteration of a queue ends only once it is closed and drained.       *)
THEOREM EndIsFinalHolds == SafeSpec => []EndIsFinal
<1>1. IInv => EndIsFinal
  BY DEF IInv
<1> QED
  BY <1>1, IInvHolds, PTL

(* No call of limit() makes a push wait.                                   *)
THEOREM ProducersNeverBlockHolds == SafeSpec => []ProducersNeverBlock
<1>1. IInv => ProducersNeverBlock
  BY DEF IInv, ProducersRun, ProducersNeverBlock, Waiting
<1> QED
  BY <1>1, IInvHolds, PTL

(* A closed queue stays closed and accepts no value.                       *)
THEOREM ClosedIsFinalHolds == SafeSpec => ClosedIsFinal
<1>1. IInv /\ [Next]_vars => [closed => closed' /\ UNCHANGED accepted]_vars
  <2> SUFFICES ASSUME IInv, [Next]_vars, closed
               PROVE  closed' /\ UNCHANGED accepted
    OBVIOUS
  <2>1. ASSUME NEW p \in Producers, NEW v \in Values, Push(p, v)
        PROVE  FALSE
    BY <2>1 DEF Push, Running, IInv, ProducersRun
  <2>2. CASE UNCHANGED vars
    BY <2>2 DEF vars
  <2> QED
    BY <2>1, <2>2 DEF Next, PushRefused, Pop, PopTakes, PopEnds, PopWaits, Close,
       Limit, SpuriousWakeup
<1> QED
  BY <1>1, IInvHolds, PTL DEF SafeSpec, ClosedIsFinal

-----------------------------------------------------------------------------
Ended == {c \in Consumers : thread[c] = "done"}

(* Each step of the queue is a step of the abstract channel, or stutters:  *)
(* waiting, waking and the limit are invisible from outside.               *)
LEMMA StepRefines ==
    ASSUME IInv, IInv', [Next]_vars
    PROVE  [Abstract!Next]_(Abstract!aqVars)
<1>1. /\ TypeOK /\ ProducersRun /\ NoSleepAfterClose /\ EndIsFinal /\ Conservation
  BY DEF IInv
<1>2. thread \in [Threads -> ThreadState]
  BY <1>1 DEF TypeOK, ThreadState
<1>3. ASSUME NEW p \in Producers, NEW v \in Values, Push(p, v)
      PROVE  Abstract!Accept(v)
  <2>1. thread[p] = "ready" /\ ~closed /\ Enqueue(p, v)
    BY <1>3 DEF Push, Running, IInv, ProducersRun, Writable, LimitNeverSet
  <2>2. EndIsFinal'
    BY DEF IInv
  <2>3. Ended = {} /\ Ended' = {}
    BY <1>1, <2>1, <2>2 DEF Enqueue, EndIsFinal, Ended
  <2> QED
    BY <2>1, <2>3 DEF Enqueue, Abstract!Accept, Ended
<1>4. ASSUME NEW c \in Consumers, PopTakes(c)
      PROVE  Abstract!Deliver
  <2>1. /\ queue # <<>> /\ delivered' = Append(delivered, Head(queue))
        /\ UNCHANGED <<closed, accepted>>
    BY <1>4 DEF PopTakes, Readable
  <2>2. /\ queue \in Seq(Values) /\ delivered \in Seq(Values)
        /\ Len(queue) \in Nat \ {0} /\ Len(delivered) \in Nat
    BY <1>1, <2>1, EmptySeq, LenProperties DEF TypeOK
  <2>3. /\ Len(accepted) = Len(delivered) + Len(queue)
        /\ accepted[Len(delivered) + 1] = queue[1]
    BY <1>1, <2>2, ConcatProperties DEF Conservation
  <2>4. Head(queue) = queue[1]
    BY <2>2
  <2>5. EndIsFinal'
    BY DEF IInv
  <2>6. Ended = {} /\ Ended' = {}
    <3>1. \A d \in Consumers : thread[d] # "done"
      BY <1>1, <2>1 DEF EndIsFinal
    <3>2. \A d \in Consumers : thread'[d] # "done"
      <4>1. /\ Writable
            /\ thread' \in WakeOne(Producers, [thread EXCEPT ![c] = "ready"])
        BY <1>4 DEF PopTakes, Writable, IInv, LimitNeverSet
      <4>2. [thread EXCEPT ![c] = "ready"] \in [Threads -> ThreadState]
        BY <1>2 DEF ThreadState
      <4>3. \A d \in Consumers : [thread EXCEPT ![c] = "ready"][d] # "done"
        BY <1>2, <3>1 DEF Threads
      <4>4. \A p \in Producers : [thread EXCEPT ![c] = "ready"][p] # "waiting"
        BY <1>1, <1>2 DEF ProducersRun, Threads
      <4>5. WakeOne(Producers, [thread EXCEPT ![c] = "ready"])
               = {[thread EXCEPT ![c] = "ready"]}
        BY <4>4 DEF WakeOne
      <4> QED
        BY <4>1, <4>3, <4>5
    <3> QED
      BY <3>1, <3>2 DEF Ended
  <2> QED
    BY <2>1, <2>2, <2>3, <2>4, <2>6 DEF Abstract!Deliver, Ended
<1>5. ASSUME NEW c \in Consumers, PopEnds(c)
      PROVE  Abstract!Finish(c)
  <2>1. /\ closed /\ queue = <<>> /\ thread' = [thread EXCEPT ![c] = "done"]
        /\ UNCHANGED <<closed, accepted, delivered>>
    BY <1>5 DEF PopEnds, Readable
  <2>2. delivered = accepted
    BY <1>1, <2>1, ConcatEmptySeq DEF TypeOK, Conservation
  <2>3. Ended' = Ended \cup {c}
    BY <1>2, <2>1 DEF Ended, Threads
  <2> QED
    BY <2>1, <2>2, <2>3 DEF Abstract!Finish, Ended
<1>6. ASSUME Close PROVE Abstract!Close
  <2>1. closed' = TRUE /\ UNCHANGED <<accepted, delivered>>
    BY <1>6 DEF Close
  <2>2. \A c \in Consumers : thread'[c] = "done" <=> thread[c] = "done"
    BY <1>2, <1>6 DEF Close, WakeAll, Threads
  <2>3. Ended' = Ended
    BY <2>2 DEF Ended
  <2> QED
    BY <2>1, <2>3 DEF Abstract!Close, Ended
<1>7. ASSUME NEW t \in Threads, NEW to \in ThreadState,
             thread' = [thread EXCEPT ![t] = to],
             t \in Consumers => to # "done" /\ thread[t] # "done",
             UNCHANGED <<accepted, delivered, closed>>
      PROVE  UNCHANGED Abstract!aqVars
  <2>1. \A c \in Consumers : thread'[c] = "done" <=> thread[c] = "done"
    BY <1>2, <1>7 DEF Threads
  <2> QED
    BY <1>7, <2>1 DEF Abstract!aqVars
<1>8. ASSUME NEW p \in Producers, PushRefused(p) PROVE UNCHANGED Abstract!aqVars
  BY <1>7, <1>8, ThreadsAssumption DEF PushRefused, ThreadState, Threads
<1>9. ASSUME NEW c \in Consumers, PopWaits(c) PROVE UNCHANGED Abstract!aqVars
  BY <1>7, <1>9 DEF PopWaits, Running, ThreadState, Threads
<1>10. ASSUME NEW t \in Threads, SpuriousWakeup(t) PROVE UNCHANGED Abstract!aqVars
  BY <1>7, <1>10 DEF SpuriousWakeup, ThreadState
<1>11. ASSUME UNCHANGED vars PROVE UNCHANGED Abstract!aqVars
  BY <1>11 DEF vars, Abstract!aqVars
<1>12. ASSUME NEW v \in Limits, Limit(v) PROVE UNCHANGED Abstract!aqVars
  BY <1>11, <1>12, LimitIsANoOp
<1> QED
  BY <1>3, <1>4, <1>5, <1>6, <1>8, <1>9, <1>10, <1>11, <1>12
     DEF Next, Pop, Abstract!Next

(* The queue with its mutex, two condition variables and limit implements  *)
(* the FIFO channel of AbstractQueue (its safety part).                    *)
THEOREM RefinesAbstract == SafeSpec => ImplementsAbstractSafety
<1>1. Init => Abstract!Init
  BY DEF Init, Abstract!Init, Threads
<1>2. IInv /\ [Next]_vars => [Abstract!Next]_(Abstract!aqVars)
  BY NextKeepsIInv, StepRefines
<1> QED
  BY <1>1, <1>2, IInvHolds, PTL DEF SafeSpec, ImplementsAbstractSafety, Abstract!SafeSpec
=============================================================================
