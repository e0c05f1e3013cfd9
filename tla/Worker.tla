------------------------------- MODULE Worker -------------------------------
(***************************************************************************)
(* A loop that runs on threads: the entry of a thread_t captures a loop_t, *)
(* by copy or by reference, and runs it.  The composition of Thread and    *)
(* Loop; what joins them is the entry.  A loop_t captured by copy goes     *)
(* when the inner::thread_t is deleted, on the thread that deletes it; one *)
(* captured by reference is only as good as the scope it stands in, where  *)
(* the thread_t, declared later, is destroyed first.                       *)
(***************************************************************************)
EXTENDS Thread, Loop

CONSTANT Main    \* the agent whose scopes hold the loop_t objects

ASSUME MainAssumption == Main \in Agents

VARIABLE captures    \* how the entry of each thread captures the loop

vars == <<object, thread, doing, loop, handle, runner, captures>>

Captures == {"nothing", "copy", "reference"}

Init ==
    /\ ThreadInit
    /\ LoopInit
    /\ captures = [t \in Threads |-> "nothing"]

(* The loop_t objects that belong to the program's scopes, not to entries. *)
Copies == {t \in Threads : captures[t] = "copy" /\ thread[t].mem = "live"}
OwnRefs == loop.refs - Cardinality(Copies)

(* Actors that have the loop at hand.                                      *)
Reaches(a) ==
    IF a = Main THEN OwnRefs > 0
    ELSE captures[a] # "nothing" /\ thread[a].mem = "live"

(* The members of a capture are destroyed with the entry.                  *)
LosesCaptures(l) ==
    IF \E t \in Copies : thread'[t].mem = "freed" THEN Lose(l) ELSE l

-----------------------------------------------------------------------------
(* Mistake: the copy an entry captures does not share the loop.            *)
StartUncounted(a, o, t, how) ==
    /\ Create(a, o, t)
    /\ OwnRefs > 0
    /\ captures' = [captures EXCEPT ![t] = how]
    /\ UNCHANGED loopVars

(* thread_t(entry) with an entry that captures the loop, to run it or not. *)
Start(a, o, t, how) ==
    /\ Create(a, o, t)
    /\ OwnRefs > 0
    /\ how = "copy" => loop.refs < MaxRefs
    /\ captures' = [captures EXCEPT ![t] = how]
    /\ loop' = [loop EXCEPT !.refs = @ + (IF how = "copy" THEN 1 ELSE 0)]
    /\ UNCHANGED <<handle, runner>>

(* A step on thread_t objects, with what it does to the captures.          *)
WithCaptures(Step) ==
    /\ Step
    /\ loop' = LosesCaptures(loop)
    /\ UNCHANGED <<handle, runner, captures>>

(* Entries that wait for each other would never end; here an entry may     *)
(* only join its own thread.                                               *)
ThreadStep(a) ==
    \/ \E o \in Objects, t \in Threads : CreateDetached(a, o, t)
    \/ \E o, p \in Objects : Move(a, o, p)
    \/ \E o \in Objects :
          \/ CreateNull(a, o) \/ DestroyNull(a, o)
          \/ DestroyAtOnce(a, o) \/ Destroy(a, o) \/ Join(a, o)

JoinsItself(t) == \E o \in Objects : object[o] = t /\ Join(t, o)

JoinReturns(a) == WithCaptures(Joined(a))

Ends(t) ==
    /\ runner # t
    /\ EntryReturns(t)
    /\ UNCHANGED <<loop, handle, runner, captures>>

(* The scope of a loop_t is left after those of the threads that refer to  *)
(* it, wherever their objects have been moved to, and not from inside the  *)
(* loop.                                                                   *)
LeaveScope ==
    /\ OwnRefs > 0 /\ runner # Main
    /\ OwnRefs = 1 =>
          \A t \in Threads : captures[t] = "reference" => thread[t].mem = "freed"
    /\ DropLoop

LoopStep ==
    /\ \/ OwnRefs > 0 /\ CopyLoop
       \/ LeaveScope
       \/ \E a \in {Main} \cup Threads :
             /\ Acts(a) /\ Reaches(a)
             /\ \/ CloseLoop(a) \/ Run(a) \/ RunStops(a)
                \/ \E h \in Handles :
                      OpenHandle(a, h) \/ StartHandle(a, h) \/ CloseHandle(a, h)
    /\ UNCHANGED <<object, thread, doing, captures>>

(* What libuv does by itself inside uv_run.                                *)
RunStep ==
    /\ \/ \E h \in Handles : HandleClosed(h)
       \/ \E a \in {Main} \cup Threads : RunReturns(a)
    /\ UNCHANGED <<object, thread, doing, captures>>

Next ==
    \/ \E o \in Objects, t \in Threads, how \in {"copy", "reference"} : Start(Main, o, t, how)
    \/ \E a \in Agents : WithCaptures(ThreadStep(a)) \/ JoinReturns(a)
    \/ \E t \in Threads : WithCaptures(JoinsItself(t))
    \/ \E t \in Threads : Ends(t)
    \/ LoopStep
    \/ RunStep

SafeSpec == Init /\ [][Next]_vars

(* An entry that keeps coming out of run() comes to its end, as entries    *)
(* do that run a loop and return; uv_thread_join returns when its thread   *)
(* has ended; libuv goes on with the loop.                                 *)
Spec ==
    /\ SafeSpec
    /\ \A t \in Threads : SF_vars(Ends(t))
    /\ \A a \in Agents : WF_vars(JoinReturns(a))
    /\ WF_vars(RunStep)

-----------------------------------------------------------------------------
ThreadState ==
    [mem : {"none", "live", "freed"}, joined : BOOLEAN, detached : BOOLEAN,
     os : {"none", "running", "ended", "joined"}, joinedItself : BOOLEAN]

(* The loop an entry captured is there as long as the entry runs: a copy   *)
(* by its own reference, a reference because ~thread_t waits for the entry *)
(* before the scope of the loop is left - but for a join of itself.        *)
CapturesAreGood ==
    \A t \in Threads : thread[t].os = "running" /\ captures[t] # "nothing" =>
        loop.mem = "live" \/ thread[t].joinedItself

(* join() and ~thread_t wait no longer than they must: they come back      *)
(* unless the entry runs a loop that still has handles.                    *)
JoinsReturn ==
    \A t \in Threads :
        (\E a \in Actors : Waits(a, t)) ~> (thread[t].os = "joined" \/ (runner = t /\ ~Empty))

=============================================================================
