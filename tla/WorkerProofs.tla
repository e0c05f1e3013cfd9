---------------------------- MODULE WorkerProofs ----------------------------
(***************************************************************************)
(* What holds of Worker for any agents, variables, threads and handles.    *)
(* Of the threads, the inductive invariant is TInv: what the variables and *)
(* the actors that wait say of each thread agrees with its record.  Every  *)
(* step of Worker is one of Thread's or leaves the threads alone.  Of the  *)
(* loop it is LInv, on top of TInv: refs covers the copies that entries    *)
(* hold, and the scope as long as an entry refers to it.                   *)
(***************************************************************************)
EXTENDS Worker, FiniteSetTheorems, TLAPS

Wait == [op : {"join", "destroy"}, by : Objects, of : Threads]

TypeInv ==
    /\ object \in [Objects -> Threads \cup {Unmade, Null}]
    /\ thread \in [Threads -> ThreadState]
    /\ doing \in [Actors -> {Idle} \cup Wait]

Via(a, o) == doing[a] # Idle /\ doing[a].by = o

(* Somebody waits: the thread was started, it was claimed for whoever      *)
(* waits, and a variable by which he joins still has it.                   *)
WaitInv ==
    \A t \in Threads, a \in Actors : Waits(a, t) =>
        /\ a # t
        /\ thread[t].joined /\ ~thread[t].joinedItself /\ ~thread[t].detached
        /\ thread[t].mem = "live"
        /\ thread[t].os \in {"running", "ended"}
        /\ \A b \in Actors : Waits(b, t) => a = b
        /\ Frees(a, t) \/ \E o \in Objects : Via(a, o) /\ Has(o, t)

RecordInv ==
    \A t \in Threads :
        /\ thread[t].mem = "none" <=> thread[t] = Unborn
        /\ thread[t].detached => thread[t].os = "none"
        /\ thread[t].os = "none" => thread[t].detached \/ thread[t] = Unborn
        /\ thread[t].os = "joined" => thread[t].joined
        /\ thread[t].joinedItself => thread[t].joined
        /\ thread[t].mem = "freed" =>
              \/ thread[t].detached
              \/ thread[t].joined /\ (thread[t].os = "joined" \/ thread[t].joinedItself)

TInv == TypeInv /\ WaitInv /\ RecordInv /\ JoinedForCause /\ OneOwner

-----------------------------------------------------------------------------
(* The steps of Thread, whatever the composition adds to them.             *)
ThreadNext ==
    \/ \E a \in Actors, o \in Objects, t \in Threads :
          Create(a, o, t) \/ CreateDetached(a, o, t)
    \/ \E a \in Actors, o, p \in Objects : Move(a, o, p)
    \/ \E a \in Actors, o \in Objects :
          \/ CreateNull(a, o) \/ DestroyNull(a, o) \/ DestroyAtOnce(a, o)
          \/ Destroy(a, o) \/ Join(a, o)
    \/ \E a \in Actors : Joined(a)
    \/ \E t \in Threads : EntryReturns(t)

LEMMA StepsOfThread ==
    ASSUME Next
    PROVE  ThreadNext \/ UNCHANGED threadVars
<1>1. Main \in Actors /\ Agents \subseteq Actors /\ Threads \subseteq Actors
  BY MainAssumption DEF Actors
<1>2. CASE \E o \in Objects, t \in Threads, how \in {"copy", "reference"} : Start(Main, o, t, how)
  BY <1>1, <1>2 DEF Start, ThreadNext
<1>3. CASE \E a \in Agents : WithCaptures(ThreadStep(a))
  BY <1>1, <1>3 DEF WithCaptures, ThreadStep, ThreadNext
<1>4. CASE \E a \in Agents : JoinReturns(a)
  BY <1>1, <1>4 DEF JoinReturns, WithCaptures, ThreadNext
<1>5. CASE \E t \in Threads : WithCaptures(JoinsItself(t))
  BY <1>1, <1>5 DEF WithCaptures, JoinsItself, ThreadNext
<1>6. CASE \E t \in Threads : Ends(t)
  BY <1>6 DEF Ends, ThreadNext
<1>7. CASE LoopStep \/ RunStep
  BY <1>7 DEF LoopStep, RunStep, threadVars
<1> QED
  BY <1>2, <1>3, <1>4, <1>5, <1>6, <1>7 DEF Next
-----------------------------------------------------------------------------
LEMMA FreesWaits == \A b \in Actors, x \in Threads : Frees(b, x) => Waits(b, x)
  BY DEF Frees

(* A new thread is nobody's but the variable's it is made for. *)
LEMMA CreateKeeps ==
    ASSUME TInv, NEW a \in Actors, NEW o \in Objects, NEW t \in Threads,
           Create(a, o, t)
    PROVE  TInv'
<1>1. \A b \in Actors : /\ \A x \in Threads : (Waits(b, x)' <=> Waits(b, x)) /\ (Frees(b, x)' <=> Frees(b, x))
                      /\ \A v \in Objects : Via(b, v)' <=> Via(b, v)
  BY DEF Create, Waits, Frees, Via
<1>2. \A v \in Objects, x \in Threads : Has(v, x)' <=> IF v = o THEN x = t ELSE Has(v, x)
  BY DEF TInv, TypeInv, Create, Has
<1>3. thread[t] = Unborn /\ thread'[t] = [Unborn EXCEPT !.mem = "live", !.os = "running"] /\ \A x \in Threads \ {t} : thread'[x] = thread[x]
  BY DEF TInv, TypeInv, Create
<1>4. \A x \in Threads : ~Has(o, x)
  BY MarksAssumption DEF Create, Has
<1>5. ~thread[t].joined /\ thread[t].mem = "none"
  BY <1>3 DEF Unborn
<1>6. thread'[t] = [mem |-> "live", joined |-> FALSE, detached |-> FALSE, os |-> "running", joinedItself |-> FALSE]
  BY <1>3 DEF Unborn
<1>7. \A x \in Threads \ {t} : (thread'[x] = Unborn) <=> (thread[x] = Unborn)
  BY <1>3
<1>8. thread'[t] # Unborn
  BY <1>6 DEF Unborn
<1>9. TypeInv'
  BY <1>6 DEF TInv, TypeInv, Create, ThreadState
<1>10. WaitInv'
  BY <1>1, <1>2, <1>3, <1>4, <1>5, SMTT(30) DEF TInv, WaitInv
<1>11. RecordInv'
  BY <1>3, <1>6, <1>7, <1>8, SMTT(30) DEF TInv, RecordInv
<1>12. JoinedForCause'
  BY <1>1, <1>3, <1>6, SMTT(30) DEF TInv, JoinedForCause
<1>13. OneOwner'
  BY <1>1, <1>2, <1>3, <1>4, <1>5, <1>6, SMTT(30) DEF TInv, OneOwner, WaitInv
<1> QED
  BY <1>9, <1>10, <1>11, <1>12, <1>13 DEF TInv

(* A new thread is nobody's but the variable's it is made for. *)
LEMMA CreateDetachedKeeps ==
    ASSUME TInv, NEW a \in Actors, NEW o \in Objects, NEW t \in Threads,
           CreateDetached(a, o, t)
    PROVE  TInv'
<1>1. \A b \in Actors : /\ \A x \in Threads : (Waits(b, x)' <=> Waits(b, x)) /\ (Frees(b, x)' <=> Frees(b, x))
                      /\ \A v \in Objects : Via(b, v)' <=> Via(b, v)
  BY DEF CreateDetached, Waits, Frees, Via
<1>2. \A v \in Objects, x \in Threads : Has(v, x)' <=> IF v = o THEN x = t ELSE Has(v, x)
  BY DEF TInv, TypeInv, CreateDetached, Has
<1>3. thread[t] = Unborn /\ thread'[t] = [Unborn EXCEPT !.mem = "live", !.detached = TRUE] /\ \A x \in Threads \ {t} : thread'[x] = thread[x]
  BY DEF TInv, TypeInv, CreateDetached
<1>4. \A x \in Threads : ~Has(o, x)
  BY MarksAssumption DEF CreateDetached, Has
<1>5. ~thread[t].joined /\ thread[t].mem = "none"
  BY <1>3 DEF Unborn
<1>6. thread'[t] = [mem |-> "live", joined |-> FALSE, detached |-> TRUE, os |-> "none", joinedItself |-> FALSE]
  BY <1>3 DEF Unborn
<1>7. \A x \in Threads \ {t} : (thread'[x] = Unborn) <=> (thread[x] = Unborn)
  BY <1>3
<1>8. thread'[t] # Unborn
  BY <1>6 DEF Unborn
<1>9. TypeInv'
  BY <1>6 DEF TInv, TypeInv, CreateDetached, ThreadState
<1>10. WaitInv'
  BY <1>1, <1>2, <1>3, <1>4, <1>5, SMTT(30) DEF TInv, WaitInv
<1>11. RecordInv'
  BY <1>3, <1>6, <1>7, <1>8, SMTT(30) DEF TInv, RecordInv
<1>12. JoinedForCause'
  BY <1>1, <1>3, <1>6, SMTT(30) DEF TInv, JoinedForCause
<1>13. OneOwner'
  BY <1>1, <1>2, <1>3, <1>4, <1>5, <1>6, SMTT(30) DEF TInv, OneOwner, WaitInv
<1> QED
  BY <1>9, <1>10, <1>11, <1>12, <1>13 DEF TInv

(* A move hands the one owner on; nobody waits by either variable. *)
LEMMA MoveKeeps ==
    ASSUME TInv, NEW a \in Actors, NEW o \in Objects, NEW p \in Objects,
           Move(a, o, p)
    PROVE  TInv'
<1>1. \A b \in Actors : /\ \A x \in Threads : (Waits(b, x)' <=> Waits(b, x)) /\ (Frees(b, x)' <=> Frees(b, x))
                      /\ \A v \in Objects : Via(b, v)' <=> Via(b, v)
  BY DEF Move, Waits, Frees, Via
<1>2. o # p /\ thread' = thread
  BY DEF Move
<1>3. /\ object'[p] = object[o] /\ object'[o] = (IF object[p] = Unmade THEN Null ELSE object[p])
     /\ \A v \in Objects \ {o, p} : object'[v] = object[v]
  BY DEF TInv, TypeInv, Move
<1>4. /\ \A x \in Threads : Has(p, x)' <=> Has(o, x)
      /\ \A x \in Threads : Has(o, x)' <=> Has(p, x)
      /\ \A x \in Threads, v \in Objects \ {o, p} : Has(v, x)' <=> Has(v, x)
  <2>1. \A x \in Threads : Has(p, x)' <=> Has(o, x)
    BY <1>3 DEF Has
  <2>2. \A x \in Threads : Has(o, x)' <=> Has(p, x)
    BY <1>3, MarksAssumption DEF Has
  <2>3. \A x \in Threads, v \in Objects \ {o, p} : Has(v, x)' <=> Has(v, x)
    BY <1>3 DEF Has
  <2> QED
    BY <2>1, <2>2, <2>3
<1>5. \A b \in Actors : ~Via(b, o) /\ ~Via(b, p)
  BY DEF Move, Quiet, Via
<1>6. TypeInv'
  BY DEF TInv, TypeInv, Move
<1>7. WaitInv'
  BY <1>1, <1>2, <1>4, <1>5, SMTT(30) DEF TInv, WaitInv
<1>8. RecordInv'
  BY <1>2 DEF TInv, RecordInv
<1>9. JoinedForCause'
  BY <1>1, <1>2 DEF TInv, JoinedForCause
<1>10. OneOwner'
  BY <1>1, <1>2, <1>4, SMTT(30) DEF TInv, OneOwner
<1> QED
  BY <1>6, <1>7, <1>8, <1>9, <1>10 DEF TInv

(* Variables without a thread. *)
LEMMA NullKeeps ==
    ASSUME TInv, NEW a \in Actors, NEW o \in Objects,
           CreateNull(a, o) \/ DestroyNull(a, o)
    PROVE  TInv'
<1>1. \A b \in Actors : /\ \A x \in Threads : (Waits(b, x)' <=> Waits(b, x)) /\ (Frees(b, x)' <=> Frees(b, x))
                      /\ \A v \in Objects : Via(b, v)' <=> Via(b, v)
  BY DEF CreateNull, DestroyNull, Waits, Frees, Via
<1>2. thread' = thread
  BY DEF CreateNull, DestroyNull
<1>3. \A v \in Objects, x \in Threads : Has(v, x)' <=> Has(v, x)
  BY MarksAssumption DEF TInv, TypeInv, CreateNull, DestroyNull, Has
<1>4. TypeInv'
  BY DEF TInv, TypeInv, CreateNull, DestroyNull
<1>5. WaitInv'
  BY <1>1, <1>2, <1>3, SMTT(30) DEF TInv, WaitInv
<1>6. RecordInv'
  BY <1>2 DEF TInv, RecordInv
<1>7. JoinedForCause'
  BY <1>1, <1>2 DEF TInv, JoinedForCause
<1>8. OneOwner'
  BY <1>1, <1>2, <1>3, SMTT(30) DEF TInv, OneOwner
<1> QED
  BY <1>4, <1>5, <1>6, <1>7, <1>8 DEF TInv

(* A destructor that does not wait: nobody else does, for he would do so by this variable, which is quiet. *)
LEMMA DestroyAtOnceKeeps ==
    ASSUME TInv, NEW a \in Actors, NEW o \in Objects,
           DestroyAtOnce(a, o)
    PROVE  TInv'
<1>1. \A b \in Actors : /\ \A x \in Threads : (Waits(b, x)' <=> Waits(b, x)) /\ (Frees(b, x)' <=> Frees(b, x))
                      /\ \A v \in Objects : Via(b, v)' <=> Via(b, v)
  BY DEF DestroyAtOnce, Waits, Frees, Via
<1>2. PICK t \in Threads : t = object[o]
  BY DEF DestroyAtOnce
<1>3. /\ Has(o, t) /\ (thread[t].detached \/ thread[t].joined)
     /\ \A b \in Actors : ~Via(b, o)
  BY <1>2 DEF DestroyAtOnce, Has, Quiet, Via
<1>4. \A v \in Objects, x \in Threads : Has(v, x)' <=> v # o /\ Has(v, x)
  BY MarksAssumption DEF TInv, TypeInv, DestroyAtOnce, Has
<1>5. thread' \in [Threads -> ThreadState] /\ (\A x \in Threads \ {t} : thread'[x] = thread[x])
     /\ thread'[t].mem = "freed" /\ thread'[t].joined = thread[t].joined /\ thread'[t].detached = thread[t].detached
     /\ thread'[t].os = thread[t].os /\ thread'[t].joinedItself = thread[t].joinedItself
  BY <1>2 DEF TInv, TypeInv, DestroyAtOnce, ThreadState
<1>6. \A b \in Actors : ~Waits(b, t)
  BY <1>3, SMTT(30) DEF TInv, WaitInv, OneOwner
<1>7. thread[t] # Unborn /\ thread'[t] # Unborn
  BY <1>3, <1>5 DEF Unborn
<1>8. TypeInv'
  BY <1>5 DEF TInv, TypeInv, DestroyAtOnce
<1>9. WaitInv'
  BY <1>1, <1>3, <1>4, <1>5, <1>6, SMTT(30) DEF TInv, WaitInv, OneOwner
<1>10. RecordInv'
  BY <1>3, <1>5, <1>6, <1>7, SMTT(30) DEF TInv, RecordInv, JoinedForCause
<1>11. JoinedForCause'
  BY <1>1, <1>5, SMTT(30) DEF TInv, JoinedForCause
<1>12. OneOwner'
  <2> SUFFICES ASSUME NEW x \in Threads
               PROVE  /\ thread'[x].mem = "live" <=>
                            (\E v \in Objects : Has(v, x)') \/ (\E b \in Actors : Frees(b, x)')
                      /\ \A v, w \in Objects : Has(v, x)' /\ Has(w, x)' => v = w
                      /\ \A v \in Objects, b \in Actors : ~(Has(v, x)' /\ Frees(b, x)')
    BY DEF OneOwner
  <2>1. CASE x = t
    BY <2>1, <1>1, <1>3, <1>4, <1>5, <1>6, FreesWaits DEF TInv, OneOwner
  <2>2. CASE x # t
    <3>1. ~Has(o, x)
      BY <2>2, <1>3 DEF Has
    <3>2. \A v \in Objects : Has(v, x)' <=> Has(v, x)
      BY <3>1, <1>4
    <3>3. \A b \in Actors : Frees(b, x)' <=> Frees(b, x)
      BY <2>2, <1>1
    <3>4. thread'[x].mem = thread[x].mem
      BY <2>2, <1>5
    <3> QED
      BY <3>2, <3>3, <3>4 DEF TInv, OneOwner
  <2> QED
    BY <2>1, <2>2
<1> QED
  BY <1>8, <1>9, <1>10, <1>11, <1>12 DEF TInv

(* A destructor that waits takes the ownership over. *)
LEMMA DestroyKeeps ==
    ASSUME TInv, NEW a \in Actors, NEW o \in Objects,
           Destroy(a, o)
    PROVE  TInv'
<1>1. PICK t \in Threads : t = object[o]
  BY DEF Destroy
<1>2. /\ a # t /\ Has(o, t) /\ ~thread[t].detached /\ ~thread[t].joined
     /\ \A b \in Actors : ~Via(b, o)
     /\ \A x \in Threads : ~Waits(a, x)
  BY <1>1 DEF Destroy, Acts, Has, Quiet, Via, Waits
<1>3. \A v \in Objects, x \in Threads : Has(v, x)' <=> v # o /\ Has(v, x)
  BY MarksAssumption DEF TInv, TypeInv, Destroy, Has
<1>4. thread' \in [Threads -> ThreadState] /\ (\A x \in Threads \ {t} : thread'[x] = thread[x])
     /\ thread'[t].mem = thread[t].mem /\ thread'[t].joined = TRUE /\ thread'[t].detached = thread[t].detached
     /\ thread'[t].os = thread[t].os /\ ~thread'[t].joinedItself
  <2>1. thread[t].joinedItself = FALSE
    BY <1>2 DEF TInv, TypeInv, RecordInv, ThreadState
  <2>2. thread' = [thread EXCEPT ![t].joined = TRUE, ![t].joinedItself = thread[t].joinedItself \/ a = t]
    BY <1>1 DEF Destroy, Claim
  <2>3. (thread[t].joinedItself \/ a = t) = FALSE
    BY <2>1, <1>2
  <2>4. thread' = [thread EXCEPT ![t].joined = TRUE, ![t].joinedItself = FALSE]
    BY <2>2, <2>3, Zenon
  <2> QED
    BY <2>4 DEF TInv, TypeInv, ThreadState
<1>5. /\ doing'[a] = Destroying(o, t) /\ \A b \in Actors \ {a} : doing'[b] = doing[b]
  BY <1>1 DEF TInv, TypeInv, Destroy, Claim
<1>6. Destroying(o, t) # Idle
  BY DEF Destroying, Idle
<1>7. \A x \in Threads : (Waits(a, x)' <=> x = t) /\ (Frees(a, x)' <=> x = t)
  BY <1>5, <1>6 DEF Waits, Frees, Destroying
<1>8. \A b \in Actors \ {a} : /\ \A x \in Threads : (Waits(b, x)' <=> Waits(b, x)) /\ (Frees(b, x)' <=> Frees(b, x))
                              /\ \A v \in Objects : Via(b, v)' <=> Via(b, v)
  BY <1>5 DEF Waits, Frees, Via
<1>9. /\ thread[t].mem = "live" /\ thread[t].os \in {"running", "ended"}
     /\ \A b \in Actors : ~Waits(b, t)
  BY <1>2, SMTT(30) DEF TInv, TypeInv, ThreadState, WaitInv, OneOwner, RecordInv, Unborn
<1>10. thread[t] # Unborn /\ thread'[t] # Unborn
  BY <1>9, <1>4 DEF Unborn
<1>11. TypeInv'
  BY <1>1, <1>4 DEF TInv, TypeInv, Destroy, Claim, Destroying, Wait
<1>12. WaitInv'
  <2> SUFFICES ASSUME NEW x \in Threads, NEW b \in Actors, Waits(b, x)'
               PROVE  /\ b # x
                      /\ thread'[x].joined /\ ~thread'[x].joinedItself /\ ~thread'[x].detached
                      /\ thread'[x].mem = "live"
                      /\ thread'[x].os \in {"running", "ended"}
                      /\ \A c \in Actors : Waits(c, x)' => b = c
                      /\ Frees(b, x)' \/ \E v \in Objects : Via(b, v)' /\ Has(v, x)'
    BY DEF WaitInv
  <2>1. CASE b = a
    <3>1. x = t /\ Frees(b, x)'
      BY <2>1, <1>7
    <3>2. \A c \in Actors : Waits(c, t)' => c = a
      BY <1>8, <1>9
    <3> QED
      BY <2>1, <3>1, <3>2, <1>2, <1>4, <1>9
  <2>2. CASE b # a
    <3>1. Waits(b, x) /\ x # t
      BY <2>2, <1>8, <1>9
    <3>2. thread'[x] = thread[x] /\ (\A c \in Actors : Waits(c, x)' => Waits(c, x))
      BY <3>1, <1>4, <1>7, <1>8
    <3>3. Frees(b, x)' \/ \E v \in Objects : Via(b, v)' /\ Has(v, x)'
      BY <3>1, <2>2, <1>2, <1>3, <1>8 DEF TInv, WaitInv
    <3> QED
      BY <3>1, <3>2, <3>3 DEF TInv, WaitInv
  <2> QED
    BY <2>1, <2>2
<1>13. RecordInv'
  BY <1>4, <1>9, <1>10, SMTT(30) DEF TInv, RecordInv
<1>14. JoinedForCause'
  BY <1>4, <1>7, <1>8, <1>2, SMTT(30) DEF TInv, JoinedForCause
<1>15. OneOwner'
  <2> SUFFICES ASSUME NEW x \in Threads
               PROVE  /\ thread'[x].mem = "live" <=>
                            (\E v \in Objects : Has(v, x)') \/ (\E b \in Actors : Frees(b, x)')
                      /\ \A v, w \in Objects : Has(v, x)' /\ Has(w, x)' => v = w
                      /\ \A v \in Objects, b \in Actors : ~(Has(v, x)' /\ Frees(b, x)')
    BY DEF OneOwner
  <2>1. CASE x = t
    BY <2>1, <1>2, <1>3, <1>4, <1>7, <1>8, <1>9 DEF TInv, OneOwner
  <2>2. CASE x # t
    <3>1. ~Has(o, x)
      BY <2>2, <1>2 DEF Has
    <3>2. \A v \in Objects : Has(v, x)' <=> Has(v, x)
      BY <3>1, <1>3
    <3>3. \A b \in Actors : Frees(b, x)' <=> Frees(b, x)
      BY <2>2, <1>2, <1>7, <1>8, FreesWaits
    <3>4. thread'[x].mem = thread[x].mem
      BY <2>2, <1>4
    <3> QED
      BY <3>2, <3>3, <3>4 DEF TInv, OneOwner
  <2> QED
    BY <2>1, <2>2
<1> QED
  BY <1>11, <1>12, <1>13, <1>14, <1>15 DEF TInv

(* The first join claims: for whoever calls it, or in vain when an entry joins itself. *)
LEMMA JoinKeeps ==
    ASSUME TInv, NEW a \in Actors, NEW o \in Objects,
           Join(a, o)
    PROVE  TInv'
<1>1. PICK t \in Threads : t = object[o]
  BY DEF Join
<1>2. /\ Has(o, t) /\ ~thread[t].detached /\ ~thread[t].joined /\ object' = object
     /\ \A x \in Threads : ~Waits(a, x)
  BY <1>1 DEF Join, Acts, Has, Waits
<1>3. \A v \in Objects, x \in Threads : Has(v, x)' <=> Has(v, x)
  BY <1>2 DEF Has
<1>4. thread' \in [Threads -> ThreadState] /\ (\A x \in Threads \ {t} : thread'[x] = thread[x])
     /\ thread'[t].mem = thread[t].mem /\ thread'[t].joined = TRUE /\ thread'[t].detached = thread[t].detached
     /\ thread'[t].os = thread[t].os /\ thread'[t].joinedItself = (thread[t].joinedItself \/ a = t)
  BY <1>1 DEF TInv, TypeInv, Join, Claim, ThreadState
<1>5. /\ doing'[a] = (IF a = t THEN doing[a] ELSE Joining(o, t))
     /\ \A b \in Actors \ {a} : doing'[b] = doing[b]
  BY <1>1 DEF TInv, TypeInv, Join, Claim
<1>6. Joining(o, t) # Idle
  BY DEF Joining, Idle
<1>7. a # t => /\ Via(a, o)'
              /\ \A x \in Threads : (Waits(a, x)' <=> x = t) /\ ~Frees(a, x)'
  BY <1>5, <1>6 DEF Waits, Frees, Joining, Via
<1>8. \A b \in Actors : b # a \/ a = t =>
          /\ \A x \in Threads : (Waits(b, x)' <=> Waits(b, x)) /\ (Frees(b, x)' <=> Frees(b, x))
          /\ \A v \in Objects : Via(b, v)' <=> Via(b, v)
  BY <1>5 DEF Waits, Frees, Via
<1>9. /\ thread[t].mem = "live" /\ thread[t].os \in {"running", "ended"}
     /\ ~thread[t].joinedItself
     /\ \A b \in Actors : ~Waits(b, t)
  BY <1>2, SMTT(30) DEF TInv, TypeInv, ThreadState, WaitInv, OneOwner, RecordInv, Unborn
<1>10. thread[t] # Unborn /\ thread'[t] # Unborn
  <2>1. thread[t].mem # Unborn.mem /\ thread'[t].mem # Unborn.mem
    BY <1>9, <1>4 DEF Unborn
  <2> QED
    BY <2>1
<1>11. TypeInv'
  BY <1>1, <1>4 DEF TInv, TypeInv, Join, Claim, Joining, Wait
<1>12. WaitInv'
  <2> SUFFICES ASSUME NEW x \in Threads, NEW b \in Actors, Waits(b, x)'
               PROVE  /\ b # x
                      /\ thread'[x].joined /\ ~thread'[x].joinedItself /\ ~thread'[x].detached
                      /\ thread'[x].mem = "live"
                      /\ thread'[x].os \in {"running", "ended"}
                      /\ \A c \in Actors : Waits(c, x)' => b = c
                      /\ Frees(b, x)' \/ \E v \in Objects : Via(b, v)' /\ Has(v, x)'
    BY DEF WaitInv
  <2>1. CASE b = a /\ a # t
    <3>1. x = t /\ Via(b, o)' /\ Has(o, x)'
      BY <2>1, <1>2, <1>3, <1>7
    <3>2. \A c \in Actors : Waits(c, t)' => c = a
      BY <1>8, <1>9
    <3>3. ~thread'[t].joinedItself
      BY <2>1, <1>4, <1>9
    <3> QED
      BY <2>1, <3>1, <3>2, <3>3, <1>2, <1>4, <1>9
  <2>2. CASE b # a \/ a = t
    <3>1. Waits(b, x) /\ x # t
      BY <2>2, <1>8, <1>9
    <3>2. thread'[x] = thread[x] /\ (\A c \in Actors : Waits(c, x)' => Waits(c, x))
      BY <3>1, <1>4, <1>7, <1>8
    <3>3. Frees(b, x)' \/ \E v \in Objects : Via(b, v)' /\ Has(v, x)'
      BY <3>1, <2>2, <1>2, <1>3, <1>8 DEF TInv, WaitInv
    <3> QED
      BY <3>1, <3>2, <3>3 DEF TInv, WaitInv
  <2> QED
    BY <2>1, <2>2
<1>13. RecordInv'
  BY <1>4, <1>9, <1>10, SMTT(30) DEF TInv, RecordInv
<1>14. JoinedForCause'
  <2> SUFFICES ASSUME NEW x \in Threads, thread'[x].joined
               PROVE  thread'[x].os = "joined" \/ thread'[x].joinedItself \/ \E b \in Actors : Waits(b, x)'
    BY DEF JoinedForCause
  <2>1. CASE x = t
    BY <2>1, <1>4, <1>7
  <2>2. CASE x # t
    BY <2>2, <1>2, <1>4, <1>8 DEF TInv, JoinedForCause
  <2> QED
    BY <2>1, <2>2
<1>15. OneOwner'
  BY <1>2, <1>3, <1>4, <1>7, <1>8, <1>9, FreesWaits, SMTT(30) DEF TInv, OneOwner
<1> QED
  BY <1>11, <1>12, <1>13, <1>14, <1>15 DEF TInv

(* uv_thread_join returns, to the only one who waits. *)
LEMMA JoinedKeeps ==
    ASSUME TInv, NEW a \in Actors,
           Joined(a)
    PROVE  TInv'
<1>1. PICK t \in Threads : t = doing[a].of /\ Waits(a, t)
  BY DEF TInv, TypeInv, Joined, Wait, Waits
<1>2. /\ thread[t].os = "ended" /\ object' = object /\ (Frees(a, t) <=> doing[a].op = "destroy")
  BY <1>1 DEF Joined, Frees
<1>3. \A v \in Objects, x \in Threads : Has(v, x)' <=> Has(v, x)
  BY <1>2 DEF Has
<1>4. thread' \in [Threads -> ThreadState] /\ (\A x \in Threads \ {t} : thread'[x] = thread[x])
     /\ thread'[t].mem = (IF Frees(a, t) THEN "freed" ELSE thread[t].mem) /\ thread'[t].joined = thread[t].joined /\ thread'[t].detached = thread[t].detached
     /\ thread'[t].os = "joined" /\ thread'[t].joinedItself = thread[t].joinedItself
  BY <1>1, <1>2 DEF TInv, TypeInv, Joined, ThreadState
<1>5. doing'[a] = Idle /\ \A b \in Actors \ {a} : doing'[b] = doing[b]
  BY DEF TInv, TypeInv, Joined
<1>6. \A x \in Threads : ~Waits(a, x)' /\ ~Frees(a, x)' /\ (Waits(a, x) => x = t)
  BY <1>1, <1>5 DEF Waits, Frees
<1>7. \A b \in Actors \ {a} : /\ \A x \in Threads : (Waits(b, x)' <=> Waits(b, x)) /\ (Frees(b, x)' <=> Frees(b, x))
                              /\ \A v \in Objects : Via(b, v)' <=> Via(b, v)
  BY <1>5 DEF Waits, Frees, Via
<1>8. \A b \in Actors : Waits(b, t) => a = b
  BY <1>1 DEF TInv, WaitInv
<1>9. /\ thread[t].mem = "live" /\ thread[t].joined /\ ~thread[t].detached
     /\ thread[t] # Unborn /\ thread'[t] # Unborn
  BY <1>1, <1>4 DEF TInv, WaitInv, Unborn
<1>10. \A b \in Actors, x \in Threads : Frees(b, x) => Waits(b, x)
  BY DEF Frees
<1>11. TypeInv'
  BY <1>4 DEF TInv, TypeInv, Joined
<1>12. WaitInv'
  BY <1>3, <1>4, <1>6, <1>7, <1>8, SMTT(30) DEF TInv, WaitInv
<1>13. RecordInv'
  <2> SUFFICES ASSUME NEW x \in Threads
               PROVE  /\ thread'[x].mem = "none" <=> thread'[x] = Unborn
                      /\ thread'[x].detached => thread'[x].os = "none"
                      /\ thread'[x].os = "none" => thread'[x].detached \/ thread'[x] = Unborn
                      /\ thread'[x].os = "joined" => thread'[x].joined
                      /\ thread'[x].joinedItself => thread'[x].joined
                      /\ thread'[x].mem = "freed" =>
                            \/ thread'[x].detached
                            \/ thread'[x].joined /\ (thread'[x].os = "joined" \/ thread'[x].joinedItself)
    BY DEF RecordInv
  <2>1. CASE x = t
    BY <2>1, <1>4, <1>9 DEF TInv, RecordInv
  <2>2. CASE x # t
    BY <2>2, <1>4 DEF TInv, RecordInv
  <2> QED
    BY <2>1, <2>2
<1>14. JoinedForCause'
  BY <1>4, <1>6, <1>7, SMTT(30) DEF TInv, JoinedForCause
<1>15. OneOwner'
  BY <1>3, <1>4, <1>6, <1>7, <1>8, <1>9, <1>10, SMTT(30) DEF TInv, OneOwner
<1> QED
  BY <1>11, <1>12, <1>13, <1>14, <1>15 DEF TInv

(* An entry returns. *)
LEMMA EntryReturnsKeeps ==
    ASSUME TInv, NEW t \in Threads,
           EntryReturns(t)
    PROVE  TInv'
<1>1. \A b \in Actors : /\ \A x \in Threads : (Waits(b, x)' <=> Waits(b, x)) /\ (Frees(b, x)' <=> Frees(b, x))
                      /\ \A v \in Objects : Via(b, v)' <=> Via(b, v)
  BY DEF EntryReturns, Waits, Frees, Via
<1>2. thread[t].os = "running" /\ object' = object
  BY DEF EntryReturns, Acts
<1>3. \A v \in Objects, x \in Threads : Has(v, x)' <=> Has(v, x)
  BY <1>2 DEF Has
<1>4. thread' \in [Threads -> ThreadState] /\ (\A x \in Threads \ {t} : thread'[x] = thread[x])
     /\ thread'[t].mem = thread[t].mem /\ thread'[t].joined = thread[t].joined /\ thread'[t].detached = thread[t].detached
     /\ thread'[t].os = "ended" /\ thread'[t].joinedItself = thread[t].joinedItself
  BY DEF TInv, TypeInv, EntryReturns, ThreadState
<1>5. thread[t] # Unborn /\ thread'[t] # Unborn
  BY <1>2, <1>4 DEF Unborn
<1>6. TypeInv'
  BY <1>4 DEF TInv, TypeInv, EntryReturns
<1>7. WaitInv'
  BY <1>1, <1>2, <1>3, <1>4, SMTT(30) DEF TInv, WaitInv
<1>8. RecordInv'
  BY <1>2, <1>4, <1>5, SMTT(30) DEF TInv, RecordInv
<1>9. JoinedForCause'
  BY <1>1, <1>2, <1>4, SMTT(30) DEF TInv, JoinedForCause
<1>10. OneOwner'
  BY <1>1, <1>3, <1>4, SMTT(30) DEF TInv, OneOwner
<1> QED
  BY <1>6, <1>7, <1>8, <1>9, <1>10 DEF TInv

-----------------------------------------------------------------------------
LEMMA InitTInv == ASSUME Init PROVE TInv
<1>1. /\ \A t \in Threads, a \in Actors : ~Waits(a, t) /\ ~Frees(a, t)
      /\ \A t \in Threads, o \in Objects : ~Has(o, t)
  BY MarksAssumption DEF Init, ThreadInit, Waits, Frees, Has
<1>2. \A t \in Threads : thread[t] = Unborn
  BY DEF Init, ThreadInit
<1>3. TypeInv
  BY DEF Init, ThreadInit, TypeInv, ThreadState, Unborn
<1> QED
  BY <1>1, <1>2, <1>3 DEF TInv, WaitInv, RecordInv, JoinedForCause, OneOwner, Unborn

LEMMA StutterKeeps == ASSUME TInv, UNCHANGED threadVars PROVE TInv'
<1>1. object' = object /\ thread' = thread /\ doing' = doing
  BY DEF threadVars
<1> QED
  BY <1>1 DEF TInv, TypeInv, WaitInv, RecordInv, JoinedForCause, OneOwner, Waits, Frees, Via, Has

LEMMA StepTInv ==
    ASSUME TInv, [Next]_vars
    PROVE  TInv'
<1>1. CASE UNCHANGED vars
  BY <1>1, StutterKeeps DEF vars, threadVars
<1>2. CASE UNCHANGED threadVars
  BY <1>2, StutterKeeps
<1>3. CASE ThreadNext
  BY <1>3, CreateKeeps, CreateDetachedKeeps, MoveKeeps, NullKeeps, DestroyAtOnceKeeps,
     DestroyKeeps, JoinKeeps, JoinedKeeps, EntryReturnsKeeps DEF ThreadNext
<1> QED
  BY <1>1, <1>2, <1>3, StepsOfThread

(* What threads, variables and those who join agree on.                    *)
THEOREM ThreadsInvariant == SafeSpec => []TInv
<1>1. Init => TInv
  BY InitTInv
<1>2. TInv /\ [Next]_vars => TInv'
  BY StepTInv
<1> QED
  BY <1>1, <1>2, PTL DEF SafeSpec

(* thread.h: libuv is asked at most once to join a thread, by nobody after *)
(* it was joined; a join that comes back at once does so because somebody  *)
(* waits for the thread, or has, or the entry joined itself.               *)
THEOREM JoinedOnceHolds == SafeSpec => []JoinedOnce
<1>1. TInv => JoinedOnce
  BY DEF TInv, WaitInv, JoinedOnce, WaitsAlone
<1> QED
  BY <1>1, ThreadsInvariant, PTL

(* thread.h: the destructor and concurrent joins never take a running      *)
(* entry's thread away, unless the entry joined itself.                    *)
THEOREM EntryKeepsItsThreadHolds == SafeSpec => []EntryKeepsItsThread
<1>1. TInv => EntryKeepsItsThread
  <2> SUFFICES ASSUME TInv, NEW t \in Threads, thread[t].os = "running"
               PROVE  thread[t].mem = "live" \/ thread[t].joinedItself
    BY DEF EntryKeepsItsThread
  <2>1. thread[t].mem \in {"none", "live", "freed"}
    BY DEF TInv, TypeInv, ThreadState
  <2>2. thread[t].mem # "none"
    BY DEF TInv, RecordInv, Unborn
  <2>3. thread[t].mem = "freed" => thread[t].joinedItself
    BY DEF TInv, RecordInv
  <2> QED
    BY <2>1, <2>2, <2>3
<1> QED
  BY <1>1, ThreadsInvariant, PTL

(* thread.h: moves and destructors neither lose nor share a thread.        *)
THEOREM OneOwnerHolds == SafeSpec => []OneOwner
<1>1. TInv => OneOwner
  BY DEF TInv
<1> QED
  BY <1>1, ThreadsInvariant, PTL

-----------------------------------------------------------------------------
(* The loop.  A loop_t is lost by its scope, or with the entry that has a  *)
(* copy; refs counts both, and the scope stays as long as an entry refers  *)
(* to it, so that no entry loses the loop it captured.                     *)
LoopType ==
    [refs : Nat, mem : {"live", "freed"}, uv : {"open", "closed"}, closed : BOOLEAN,
     answer : {"none", "ok", "busy"}, refused : BOOLEAN, fault : BOOLEAN]

GoodLoop(l) ==
    /\ l \in LoopType
    /\ l.mem = "live" <=> l.refs > 0
    /\ l.uv = "closed" => l.closed
    /\ l.mem = "freed" => l.closed
    /\ l.closed => l.uv = "closed" \/ l.refused
    /\ l.answer = "ok" => l.closed
    /\ ~l.fault

CopiesInv ==
    /\ captures \in [Threads -> Captures]
    /\ \A t \in Threads : captures[t] # "nothing" => thread[t].mem # "none"
    /\ IsFiniteSet(Copies)
    /\ loop.refs >= Cardinality(Copies)
    /\ (\E t \in Threads : captures[t] = "reference" /\ thread[t].mem # "freed")
          => loop.refs > Cardinality(Copies)

LInv == GoodLoop(loop) /\ CopiesInv

LEMMA CloseKeeps ==
    ASSUME NEW l, GoodLoop(l)
    PROVE  GoodLoop(UvLoopClose(l)) /\ UvLoopClose(l).refs = l.refs /\ UvLoopClose(l).closed
<1>1. CASE l.closed
  BY <1>1 DEF GoodLoop, LoopType, UvLoopClose
<1>2. CASE ~l.closed /\ ~Empty
  BY <1>2 DEF GoodLoop, LoopType, UvLoopClose
<1>3. CASE ~l.closed /\ Empty
  BY <1>3 DEF GoodLoop, LoopType, UvLoopClose
<1> QED
  BY <1>1, <1>2, <1>3

LEMMA LoseKeeps ==
    ASSUME NEW l, GoodLoop(l), l.refs > 0
    PROVE  GoodLoop(Lose(l)) /\ Lose(l).refs = l.refs - 1
<1>1. CASE l.refs > 1
  BY <1>1 DEF GoodLoop, LoopType, Lose
<1>2. CASE l.refs = 1
  <2> DEFINE m == UvLoopClose(l)
  <2>1. GoodLoop(m) /\ m.closed
    BY CloseKeeps
  <2>2. Lose(l) = [m EXCEPT !.refs = 0, !.mem = "freed", !.answer = l.answer]
    BY <1>2 DEF Lose
  <2> HIDE DEF m
  <2>3. l \in LoopType /\ m \in LoopType
    BY <2>1 DEF GoodLoop
  <2>4. Lose(l) = [refs |-> 0, mem |-> "freed", uv |-> m.uv, closed |-> m.closed,
                   answer |-> l.answer, refused |-> m.refused, fault |-> m.fault]
    BY <2>2, <2>3 DEF LoopType
  <2>5. Lose(l) \in LoopType
    BY <2>3, <2>4 DEF LoopType
  <2> QED
    BY <1>2, <2>1, <2>4, <2>5 DEF GoodLoop
<1> QED
  BY <1>1, <1>2 DEF GoodLoop, LoopType

(* A step on thread_t objects brings at most one thread to life, which     *)
(* captured nothing, or frees at most one.                                 *)
LEMMA OneThreadAtMost ==
    ASSUME TInv, NEW a \in Actors,
           \/ ThreadStep(a) \/ Joined(a)
           \/ \E o \in Objects : Join(a, o)
    PROVE  \/ \A x \in Threads : thread'[x].mem = thread[x].mem
           \/ \E t \in Threads :
                /\ thread[t].mem = "none" \/ thread'[t].mem = "freed"
                /\ \A x \in Threads \ {t} : thread'[x].mem = thread[x].mem
<1>1. thread \in [Threads -> ThreadState]
  BY DEF TInv, TypeInv
<1>2. CASE \E o \in Objects, t \in Threads : CreateDetached(a, o, t)
  <2>1. PICK o \in Objects, t \in Threads : CreateDetached(a, o, t)
    BY <1>2
  <2>2. thread[t].mem = "none" /\ \A x \in Threads \ {t} : thread'[x].mem = thread[x].mem
    BY <1>1, <2>1 DEF CreateDetached, Unborn
  <2> QED
    BY <2>2
<1>3. CASE \E o, p \in Objects : Move(a, o, p)
  BY <1>3 DEF Move
<1>4. CASE \E o \in Objects : CreateNull(a, o) \/ DestroyNull(a, o)
  BY <1>4 DEF CreateNull, DestroyNull
<1>5. CASE \E o \in Objects : DestroyAtOnce(a, o)
  <2>1. PICK o \in Objects : DestroyAtOnce(a, o)
    BY <1>5
  <2>2. /\ object[o] \in Threads /\ thread'[object[o]].mem = "freed"
        /\ \A x \in Threads \ {object[o]} : thread'[x].mem = thread[x].mem
    BY <1>1, <2>1 DEF DestroyAtOnce, ThreadState
  <2> QED
    BY <2>2
<1>6. CASE \E o \in Objects : Destroy(a, o) \/ Join(a, o)
  <2>1. PICK o \in Objects : Destroy(a, o) \/ Join(a, o)
    BY <1>6
  <2>2. \A x \in Threads : thread'[x].mem = thread[x].mem
    BY <1>1, <2>1 DEF Destroy, Join, Claim, ThreadState
  <2> QED
    BY <2>2
<1>7. CASE Joined(a)
  <2> DEFINE t == doing[a].of
  <2>1. t \in Threads
    BY <1>7 DEF TInv, TypeInv, Joined, Wait
  <2>2. /\ thread'[t].mem = thread[t].mem \/ thread'[t].mem = "freed"
        /\ \A x \in Threads \ {t} : thread'[x].mem = thread[x].mem
    BY <1>1, <1>7, <2>1 DEF Joined, ThreadState
  <2> QED
    BY <2>1, <2>2
<1> QED
  BY <1>2, <1>3, <1>4, <1>5, <1>6, <1>7 DEF ThreadStep

(* What the entries captured goes with them, one reference for each copy.  *)
LEMMA WithCapturesKeeps ==
    ASSUME LInv, loop' = LosesCaptures(loop), captures' = captures,
           \/ \A x \in Threads : thread'[x].mem = thread[x].mem
           \/ \E t \in Threads :
                /\ thread[t].mem = "none" \/ thread'[t].mem = "freed"
                /\ \A x \in Threads \ {t} : thread'[x].mem = thread[x].mem
    PROVE  LInv'
<1> USE DEF LInv
<1>0. loop.refs \in Nat
  BY DEF GoodLoop, LoopType
<1>1. CASE \A x \in Threads : thread'[x].mem = thread[x].mem
  <2>1. Copies' = Copies /\ loop' = loop
    BY <1>1 DEF Copies, LosesCaptures
  <2> QED
    BY <1>1, <2>1 DEF CopiesInv, GoodLoop
<1>2. ASSUME NEW t \in Threads, thread[t].mem = "none" \/ thread'[t].mem = "freed",
             \A x \in Threads \ {t} : thread'[x].mem = thread[x].mem
      PROVE  LInv'
  <2>1. CASE t \in Copies
    <3>1. thread'[t].mem = "freed"
      BY <1>2, <2>1 DEF Copies
    <3>2. Copies' = Copies \ {t}
      BY <1>2, <3>1 DEF Copies
    <3>3. /\ IsFiniteSet(Copies) /\ IsFiniteSet(Copies \ {t})
          /\ Cardinality(Copies \ {t}) = Cardinality(Copies) - 1
          /\ Cardinality(Copies) \in Nat /\ Cardinality(Copies) > 0
      <4>1. IsFiniteSet(Copies)
        BY DEF CopiesInv
      <4>2. IsFiniteSet(Copies \ {t}) /\ Cardinality(Copies \ {t}) = Cardinality(Copies) - 1
        BY <4>1, <2>1, FS_RemoveElement
      <4>3. Cardinality(Copies) \in Nat /\ Cardinality(Copies \ {t}) \in Nat
        BY <4>1, <4>2, FS_CardinalityType
      <4> QED
        BY <4>1, <4>2, <4>3
    <3>4. loop' = Lose(loop)
      BY <2>1, <3>1 DEF LosesCaptures
    <3>5. loop.refs > 0
      BY <1>0, <3>3 DEF CopiesInv
    <3>6. GoodLoop(loop') /\ loop'.refs = loop.refs - 1
      BY <3>4, <3>5, LoseKeeps
    <3>7. (\E x \in Threads : captures[x] = "reference" /\ thread'[x].mem # "freed")
             => \E x \in Threads : captures[x] = "reference" /\ thread[x].mem # "freed"
      BY <1>2, <3>1
    <3>8. \A x \in Threads : captures[x] # "nothing" => thread'[x].mem # "none"
      BY <1>2, <3>1 DEF CopiesInv
    <3>9. CopiesInv'
      BY <1>0, <3>2, <3>3, <3>6, <3>7, <3>8 DEF CopiesInv
    <3> QED
      BY <3>6, <3>9 DEF GoodLoop
  <2>2. CASE t \notin Copies
    <3>1. captures[t] = "nothing" \/ thread'[t].mem = "freed"
      BY <1>2 DEF CopiesInv
    <3>2. Copies' = Copies
      BY <1>2, <2>2, <3>1 DEF Copies
    <3>3. loop' = loop
      BY <1>2, <2>2 DEF LosesCaptures, Copies
    <3>4. (\E x \in Threads : captures[x] = "reference" /\ thread'[x].mem # "freed")
             => \E x \in Threads : captures[x] = "reference" /\ thread[x].mem # "freed"
      BY <1>2, <3>1
    <3>5. \A x \in Threads : captures[x] # "nothing" => thread'[x].mem # "none"
      BY <1>2, <3>1 DEF CopiesInv
    <3>6. CopiesInv'
      BY <3>2, <3>3, <3>4, <3>5 DEF CopiesInv
    <3> QED
      BY <3>3, <3>6 DEF GoodLoop
  <2> QED
    BY <2>1, <2>2
<1> QED
  BY <1>1, <1>2

(* A new entry captures nothing anybody else had, and its copy counts.     *)
LEMMA StartKeeps ==
    ASSUME TInv, LInv, NEW a \in Actors, NEW o \in Objects, NEW t \in Threads,
           NEW how \in {"copy", "reference"}, Start(a, o, t, how)
    PROVE  LInv'
<1> USE DEF LInv
<1>1. /\ thread \in [Threads -> ThreadState] /\ captures \in [Threads -> Captures]
      /\ loop.refs \in Nat /\ loop \in LoopType
  BY DEF TInv, TypeInv, CopiesInv, GoodLoop, LoopType
<1>2. /\ thread[t] = Unborn /\ thread'[t].mem = "live"
      /\ \A x \in Threads \ {t} : thread'[x] = thread[x]
      /\ captures'[t] = how /\ \A x \in Threads \ {t} : captures'[x] = captures[x]
      /\ captures' \in [Threads -> Captures]
  BY <1>1 DEF Start, Create, Unborn, Captures
<1>3. thread[t].mem = "none" /\ t \notin Copies
  BY <1>2 DEF Unborn, Copies
<1>4. IsFiniteSet(Copies) /\ Cardinality(Copies) \in Nat
  BY FS_CardinalityType DEF CopiesInv
<1>5. loop.refs > Cardinality(Copies)
  BY <1>1, <1>4 DEF Start, OwnRefs
<1>6. \A x \in Threads : captures'[x] # "nothing" => thread'[x].mem # "none"
  BY <1>2 DEF CopiesInv
<1>7. loop' = [loop EXCEPT !.refs = loop.refs + (IF how = "copy" THEN 1 ELSE 0)]
  BY DEF Start
<1>8. GoodLoop(loop')
  BY <1>1, <1>5, <1>4, <1>7 DEF GoodLoop, LoopType
<1>9. CASE how = "copy"
  <2>1. Copies' = Copies \cup {t}
    BY <1>2, <1>9 DEF Copies
  <2>2. IsFiniteSet(Copies') /\ Cardinality(Copies') = Cardinality(Copies) + 1
    BY <1>3, <1>4, <2>1, FS_AddElement
  <2>3. loop'.refs = loop.refs + 1
    BY <1>1, <1>7, <1>9 DEF LoopType
  <2> QED
    BY <1>1, <1>2, <1>4, <1>5, <1>6, <1>8, <2>2, <2>3 DEF CopiesInv, GoodLoop
<1>10. CASE how = "reference"
  <2>1. Copies' = Copies
    BY <1>2, <1>3, <1>10 DEF Copies
  <2>2. loop'.refs = loop.refs
    BY <1>1, <1>7, <1>10 DEF LoopType
  <2> QED
    BY <1>1, <1>2, <1>4, <1>5, <1>6, <1>8, <2>1, <2>2 DEF CopiesInv, GoodLoop
<1> QED
  BY <1>9, <1>10

(* The steps on the loop leave threads and captures alone.                 *)
LEMMA LoopStepKeeps ==
    ASSUME TInv, LInv, LoopStep \/ RunStep
    PROVE  LInv'
<1> USE DEF LInv
<1>1. thread' = thread /\ captures' = captures /\ Copies' = Copies
  BY DEF LoopStep, RunStep, Copies
<1>2. IsFiniteSet(Copies) /\ Cardinality(Copies) \in Nat /\ loop.refs \in Nat
  BY FS_CardinalityType DEF CopiesInv, GoodLoop, LoopType
<1>3. CASE OwnRefs > 0 /\ CopyLoop
  <2>1. loop' = [loop EXCEPT !.refs = @ + 1] /\ loop.refs > 0
    BY <1>2, <1>3 DEF CopyLoop, OwnRefs
  <2>2. GoodLoop(loop') /\ loop'.refs = loop.refs + 1
    BY <1>2, <2>1 DEF GoodLoop, LoopType
  <2> QED
    BY <1>1, <1>2, <2>2 DEF CopiesInv, GoodLoop
<1>4. CASE LeaveScope
  <2>1. loop' = Lose(loop) /\ loop.refs > Cardinality(Copies)
    BY <1>2, <1>4 DEF LeaveScope, DropLoop, OwnRefs
  <2>2. GoodLoop(loop') /\ loop'.refs = loop.refs - 1
    BY <1>2, <2>1, LoseKeeps
  <2>3. (\E t \in Threads : captures[t] = "reference" /\ thread[t].mem # "freed")
           => loop.refs - 1 > Cardinality(Copies)
    BY <1>2, <1>4, <2>1 DEF LeaveScope, OwnRefs
  <2> QED
    BY <1>1, <1>2, <2>1, <2>2, <2>3 DEF CopiesInv, GoodLoop
<1>5. CASE \E a \in {Main} \cup Threads : CloseLoop(a)
  <2>1. GoodLoop(loop') /\ loop'.refs = loop.refs
    BY <1>5, CloseKeeps DEF CloseLoop
  <2> QED
    BY <1>1, <2>1 DEF CopiesInv, GoodLoop
<1>6. CASE UNCHANGED loop
  BY <1>1, <1>6 DEF CopiesInv, GoodLoop
<1> QED
  BY <1>3, <1>4, <1>5, <1>6 DEF LoopStep, RunStep, Run, RunStops, RunReturns,
     OpenHandle, StartHandle, CloseHandle, HandleClosed

LEMMA InitLInv == ASSUME Init PROVE LInv
<1>1. Copies = {} /\ \A t \in Threads : captures[t] = "nothing"
  BY DEF Init, ThreadInit, Copies
<1>2. IsFiniteSet(Copies) /\ Cardinality(Copies) = 0
  BY <1>1, FS_EmptySet
<1>3. GoodLoop(loop) /\ loop.refs = 1
  BY DEF Init, LoopInit, GoodLoop, LoopType
<1> QED
  BY <1>1, <1>2, <1>3 DEF LInv, CopiesInv, Init, Captures

LEMMA StepLInv ==
    ASSUME TInv, LInv, [Next]_vars
    PROVE  LInv'
<1>0. Main \in Actors /\ Agents \subseteq Actors /\ Threads \subseteq Actors
  BY MainAssumption DEF Actors
<1>1. CASE UNCHANGED vars
  BY <1>1 DEF vars, LInv, CopiesInv, GoodLoop, Copies
<1>2. CASE \E o \in Objects, t \in Threads, how \in {"copy", "reference"} : Start(Main, o, t, how)
  BY <1>0, <1>2, StartKeeps
<1>3. CASE \E a \in Agents : WithCaptures(ThreadStep(a)) \/ JoinReturns(a)
  <2>1. PICK a \in Agents : WithCaptures(ThreadStep(a)) \/ JoinReturns(a)
    BY <1>3
  <2>2. (ThreadStep(a) \/ Joined(a)) /\ loop' = LosesCaptures(loop) /\ captures' = captures
    BY <2>1 DEF WithCaptures, JoinReturns
  <2> QED
    BY <1>0, <2>2, OneThreadAtMost, WithCapturesKeeps
<1>4. CASE \E t \in Threads : WithCaptures(JoinsItself(t))
  <2>1. PICK t \in Threads : WithCaptures(JoinsItself(t))
    BY <1>4
  <2>2. /\ \E o \in Objects : Join(t, o)
        /\ loop' = LosesCaptures(loop) /\ captures' = captures
    BY <2>1 DEF WithCaptures, JoinsItself
  <2> QED
    BY <1>0, <2>2, OneThreadAtMost, WithCapturesKeeps
<1>5. CASE \E t \in Threads : Ends(t)
  <2>1. PICK t \in Threads : Ends(t)
    BY <1>5
  <2>2. \A x \in Threads : thread'[x].mem = thread[x].mem
    BY <2>1 DEF Ends, EntryReturns, TInv, TypeInv, ThreadState
  <2>3. loop' = loop /\ captures' = captures /\ Copies' = Copies
    BY <2>1, <2>2 DEF Ends, Copies
  <2> QED
    BY <2>2, <2>3 DEF LInv, CopiesInv, GoodLoop
<1>6. CASE LoopStep \/ RunStep
  BY <1>6, LoopStepKeeps
<1> QED
  BY <1>1, <1>2, <1>3, <1>4, <1>5, <1>6 DEF Next

(* And what the loop and the entries that captured it agree on.            *)
THEOREM LoopInvariant == SafeSpec => [](TInv /\ LInv)
<1>1. Init => TInv /\ LInv
  BY InitTInv, InitLInv
<1>2. TInv /\ LInv /\ [Next]_vars => (TInv /\ LInv)'
  BY StepTInv, StepLInv
<1> QED
  BY <1>1, <1>2, PTL DEF SafeSpec

(* loop.h: uv_loop_close succeeds once at most, however many loop_t        *)
(* objects, copies in entries, close() and destructors there are.          *)
THEOREM LoopClosedOnceHolds == SafeSpec => []LoopClosedOnce
<1>1. LInv => LoopClosedOnce
  BY DEF LInv, GoodLoop, LoopClosedOnce
<1> QED
  BY <1>1, LoopInvariant, PTL

(* loop.h: a loop is freed, or said to be closed, only when it is closed,  *)
(* or a close was refused before.                                          *)
THEOREM CloseIsHonestHolds == SafeSpec => []CloseIsHonest
<1>1. LInv => CloseIsHonest
  BY DEF LInv, GoodLoop, CloseIsHonest
<1> QED
  BY <1>1, LoopInvariant, PTL

(* thread.h, loop.h: an entry that runs has the loop it captured, by copy  *)
(* or by reference, unless it called join on its own thread.               *)
THEOREM CapturesAreGoodHolds == SafeSpec => []CapturesAreGood
<1>1. TInv /\ LInv => CapturesAreGood
  <2> SUFFICES ASSUME TInv, LInv, NEW t \in Threads, thread[t].os = "running",
                      captures[t] # "nothing", ~thread[t].joinedItself
               PROVE  loop.mem = "live"
    BY DEF CapturesAreGood, TInv, TypeInv, ThreadState
  <2>1. thread[t].mem = "live"
    BY DEF TInv, TypeInv, ThreadState, RecordInv, Unborn
  <2>2. loop.refs \in Nat /\ IsFiniteSet(Copies) /\ Cardinality(Copies) \in Nat
    BY FS_CardinalityType DEF LInv, GoodLoop, LoopType, CopiesInv
  <2>3. loop.refs > 0
    <3>1. CASE captures[t] = "copy"
      <4>1. Copies # {}
        BY <2>1, <3>1 DEF Copies
      <4>2. Cardinality(Copies) # 0
        BY <2>2, <4>1, FS_EmptySet
      <4> QED
        BY <2>2, <4>2 DEF LInv, CopiesInv
    <3>2. CASE captures[t] = "reference"
      BY <2>1, <2>2, <3>2 DEF LInv, CopiesInv
    <3> QED
      BY <3>1, <3>2 DEF LInv, CopiesInv, Captures
  <2> QED
    BY <2>3 DEF LInv, GoodLoop
<1> QED
  BY <1>1, LoopInvariant, PTL

=============================================================================
