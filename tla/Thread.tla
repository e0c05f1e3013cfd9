------------------------------- MODULE Thread -------------------------------
(***************************************************************************)
(* uv::thread_t (thread.h): an object that owns an inner::thread_t, which  *)
(* owns the entry function and on which the entry runs.  The destructor    *)
(* joins and deletes it; the move operations swap; join may be called any  *)
(* number of times.                                                        *)
(*                                                                         *)
(* An actor is one of the program's own threads, or the entry of a thread  *)
(* made here.  As C++ demands, nobody moves or destroys an object while    *)
(* another actor is inside a method of it; joins may be concurrent.        *)
(***************************************************************************)
CONSTANTS
    Agents,     \* threads of the program that were not made here
    Objects,    \* thread_t variables
    Threads     \* identities of the inner::thread_t objects

ASSUME ActorsAssumption == Agents \cap Threads = {}

VARIABLES
    object,     \* what each thread_t variable points to
    thread,     \* the record of each inner::thread_t
    doing       \* what each actor is waiting for

threadVars == <<object, thread, doing>>

Actors == Agents \cup Threads

Unmade == "unmade"    \* a variable not constructed yet, or destroyed
Null == "null"        \* m_thread is nullptr
Idle == [op |-> "idle"]

ASSUME MarksAssumption == Unmade \notin Threads /\ Null \notin Threads

(* In uv_thread_join of t, called by o.join(), or by the destructor of o.  *)
Joining(o, t) == [op |-> "join", by |-> o, of |-> t]
Destroying(o, t) == [op |-> "destroy", by |-> o, of |-> t]

Unborn ==
    [mem |-> "none",            \* the inner::thread_t: none, live, freed
     joined |-> FALSE,          \* m_joined
     detached |-> FALSE,        \* m_detached
     os |-> "none",             \* the thread: none, running, ended, joined
     joinedItself |-> FALSE]    \* history: its own entry called join

ThreadInit ==
    /\ object = [o \in Objects |-> Unmade]
    /\ thread = [t \in Threads |-> Unborn]
    /\ doing = [a \in Actors |-> Idle]

Acts(a) == doing[a] = Idle /\ (a \in Threads => thread[a].os = "running")

(* Nobody is inside a method of o.                                         *)
Quiet(o) == \A a \in Actors : doing[a] # Idle => doing[a].by # o

Waits(a, t) == doing[a] # Idle /\ doing[a].of = t

-----------------------------------------------------------------------------
(* thread_t(entry): the new thread may run before the constructor returns. *)
(* When uv_thread_create fails the constructor throws and nothing is left. *)
Create(a, o, t) ==
    /\ Acts(a) /\ object[o] = Unmade /\ Quiet(o) /\ thread[t] = Unborn
    /\ object' = [object EXCEPT ![o] = t]
    /\ thread' = [thread EXCEPT ![t] = [Unborn EXCEPT !.mem = "live", !.os = "running"]]
    /\ UNCHANGED doing

(* thread::self(), thread_t::detach(tid).                                  *)
CreateDetached(a, o, t) ==
    /\ Acts(a) /\ object[o] = Unmade /\ Quiet(o) /\ thread[t] = Unborn
    /\ object' = [object EXCEPT ![o] = t]
    /\ thread' = [thread EXCEPT ![t] = [Unborn EXCEPT !.mem = "live", !.detached = TRUE]]
    /\ UNCHANGED doing

(* thread_t(nullptr).                                                      *)
CreateNull(a, o) ==
    /\ Acts(a) /\ object[o] = Unmade /\ Quiet(o)
    /\ object' = [object EXCEPT ![o] = Null]
    /\ UNCHANGED <<thread, doing>>

(* Mistake: the moved-to object forgets what it had.                       *)
MoveOver(a, o, p) ==
    /\ Acts(a) /\ o # p /\ object[o] # Unmade
    /\ Quiet(o) /\ Quiet(p)
    /\ object' = [object EXCEPT ![p] = object[o], ![o] = Null]
    /\ UNCHANGED <<thread, doing>>

(* The move constructor (p is not made yet) and the move assignment.       *)
Move(a, o, p) ==
    /\ Acts(a) /\ o # p /\ object[o] # Unmade
    /\ Quiet(o) /\ Quiet(p)
    /\ object' = [object EXCEPT ![p] = object[o],
                                ![o] = IF object[p] = Unmade THEN Null ELSE object[p]]
    /\ UNCHANGED <<thread, doing>>

(* inner::thread_t::join, as far as the call of uv_thread_join; for a      *)
(* thread that joins itself that returns EDEADLK, and join throws.         *)
Claim(a, t, wait) ==
    /\ thread' = [thread EXCEPT ![t].joined = TRUE, ![t].joinedItself = @ \/ a = t]
    /\ doing' = IF a = t THEN doing ELSE [doing EXCEPT ![a] = wait]

(* Mistake: m_joined is not asked.                                         *)
JoinAgain(a, o) ==
    LET t == object[o] IN
    /\ Acts(a) /\ t \in Threads
    /\ ~thread[t].detached
    /\ Claim(a, t, Joining(o, t))
    /\ UNCHANGED object

(* thread_t::join.  A nullptr, a detached thread and one whose join was    *)
(* claimed before: 0 is returned at once and nothing changes.              *)
Join(a, o) ==
    LET t == object[o] IN
    /\ Acts(a) /\ t \in Threads
    /\ ~thread[t].detached /\ ~thread[t].joined
    /\ Claim(a, t, Joining(o, t))
    /\ UNCHANGED object

DestroyNull(a, o) ==
    /\ Acts(a) /\ object[o] = Null /\ Quiet(o)
    /\ object' = [object EXCEPT ![o] = Unmade]
    /\ UNCHANGED <<thread, doing>>

(* ~thread_t, when its join has nothing to wait for.                       *)
DestroyAtOnce(a, o) ==
    LET t == object[o] IN
    /\ Acts(a) /\ t \in Threads /\ Quiet(o)
    /\ thread[t].detached \/ thread[t].joined
    /\ object' = [object EXCEPT ![o] = Unmade]
    /\ thread' = [thread EXCEPT ![t].mem = "freed"]
    /\ UNCHANGED doing

(* ~thread_t, when it has to join.  A thread that destroys the last object *)
(* of itself has its destructor throw, which ends the program.             *)
Destroy(a, o) ==
    LET t == object[o] IN
    /\ Acts(a) /\ t \in Threads \ {a} /\ Quiet(o)
    /\ ~thread[t].detached /\ ~thread[t].joined
    /\ Claim(a, t, Destroying(o, t))
    /\ object' = [object EXCEPT ![o] = Unmade]

(* Mistake: the destructor deletes without having waited.                  *)
JoinedUnasked(a) ==
    /\ doing[a] # Idle
    /\ LET t == doing[a].of IN
       /\ doing[a].op = "destroy" \/ thread[t].os = "ended"
       /\ thread' = [thread EXCEPT ![t].os = IF @ = "ended" THEN "joined" ELSE @,
                        ![t].mem = IF doing[a].op = "destroy" THEN "freed" ELSE @]
    /\ doing' = [doing EXCEPT ![a] = Idle]
    /\ UNCHANGED object

(* uv_thread_join returns; the destructor goes on to delete.               *)
Joined(a) ==
    /\ doing[a] # Idle
    /\ LET t == doing[a].of IN
       /\ thread[t].os = "ended"
       /\ thread' = [thread EXCEPT ![t].os = "joined",
                        ![t].mem = IF doing[a].op = "destroy" THEN "freed" ELSE @]
    /\ doing' = [doing EXCEPT ![a] = Idle]
    /\ UNCHANGED object

(* Mistake: the thread is one that cannot be joined.                       *)
EntryVanishes(t) ==
    /\ Acts(t)
    /\ thread' = [thread EXCEPT ![t].os = "none"]
    /\ UNCHANGED <<object, doing>>

(* raw_entry: the entry returns, or throws, which is swallowed.            *)
EntryReturns(t) ==
    /\ Acts(t)
    /\ thread' = [thread EXCEPT ![t].os = "ended"]
    /\ UNCHANGED <<object, doing>>

-----------------------------------------------------------------------------
(* Nobody waits for a thread that another waits for, or that was joined.   *)
WaitsAlone ==
    \A t \in Threads, a \in Actors : Waits(a, t) =>
        /\ thread[t].os # "joined"
        /\ \A b \in Actors : Waits(b, t) => a = b

(* The entry function, its captures and its thread's record are there as   *)
(* long as it runs, unless it called join on itself: that sets m_joined    *)
(* and fails, so that the destructor does not wait.                        *)
EntryKeepsItsThread ==
    \A t \in Threads :
        thread[t].os = "running" => thread[t].mem = "live" \/ thread[t].joinedItself

(* Once m_joined is set somebody waits for the thread, or has: a join that *)
(* comes back at once has a reason to.                                     *)
JoinedForCause ==
    \A t \in Threads : thread[t].joined =>
        \/ thread[t].os = "joined"
        \/ thread[t].joinedItself
        \/ \E a \in Actors : Waits(a, t)

(* A thread is joined once at most, as libuv leaves a second join          *)
(* undefined, and nobody is told that it was joined without a cause.       *)
JoinedOnce == WaitsAlone /\ JoinedForCause

Has(o, t) == object[o] = t
Frees(a, t) == Waits(a, t) /\ doing[a].op = "destroy"

(* A thread has exactly one owner until it is freed, and none after that,  *)
(* however its objects are moved: one variable, or the destructor at work. *)
OneOwner ==
    \A t \in Threads :
        /\ thread[t].mem = "live" <=>
              (\E o \in Objects : Has(o, t)) \/ (\E a \in Actors : Frees(a, t))
        /\ \A o, p \in Objects : Has(o, t) /\ Has(p, t) => o = p
        /\ \A o \in Objects, a \in Actors : ~(Has(o, t) /\ Frees(a, t))

=============================================================================
