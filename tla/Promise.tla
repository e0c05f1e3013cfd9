------------------------------- MODULE Promise -------------------------------
(***************************************************************************)
(* uvcxx::promise (src/include/uvcxx/utils/promise.h) as its users see it: *)
(* the program registers handlers and takes futures that other threads     *)
(* wait for; the library answers, finalizes and lets go.  The library uses *)
(* a promise in two ways: a request answers once and drops it, and a       *)
(* oneshot signal (src/include/uvcxx/signal.h) answers, finalizes and      *)
(* clears the same promise whenever it fires.                              *)
(*                                                                         *)
(* A chain is the sequence of what was registered in it: "program" for a   *)
(* handler of the program's own, f for the closure of the future f.  Of    *)
(* the watchers it matters only whether there are any, of the finally      *)
(* handlers what became of each.  How handlers act on the chain that is    *)
(* running is the subject of Chain; here a chain runs in one step.         *)
(***************************************************************************)
EXTENDS Integers, Sequences, FiniteSets

CONSTANTS
    Futures,     \* the futures taken, one thread waiting for each
    MaxHandlers, \* bound of the model: handlers and futures in a chain
    MaxFinally,  \* bound of the model: finally handlers ever registered
    MaxAnswers   \* bound of the model: how often a oneshot fires

ASSUME FuturesAssumption == "program" \notin Futures
ASSUME BoundsAssumption ==
    MaxHandlers \in Nat /\ MaxFinally \in Nat /\ MaxAnswers \in Nat

VARIABLES
    usage,     \* "request" or "oneshot"
    phase,     \* what the library has done: "idle", "answered", "finalized", "gone"
    answers,   \* how many answers it gave
    then,      \* m_on_then
    except,    \* m_on_except
    watched,   \* m_on_watch is not empty
    finally,   \* the finally handlers registered so far, and their fates
    finalized, \* m_finalized
    held,      \* the program has a promise_t
    future,    \* the state that each future shares with its closures
    taken,     \* history: the answer each future was taken for, or Late
    mixed,     \* history: the program registered handlers of its own
    accepted   \* history: a watcher accepted the exception of this answer

chains == <<then, except, watched>>
history == <<taken, mixed, accepted>>
pVars == <<usage, phase, answers, chains, finally, finalized, held, future, history>>

Late == 0
Broken == [is |-> "broken", of |-> 0]
Pending(f) == future[f].is = "pending"

(* The first round of the promise is over: it was answered and finalized,  *)
(* or it lost its owners without an answer.                                *)
FirstRoundOver ==
    \/ answers > 1
    \/ answers = 1 /\ phase # "answered"
    \/ phase = "gone" /\ ~held

Init ==
    /\ usage \in {"request", "oneshot"}
    /\ phase = "idle"
    /\ answers = 0
    /\ then = <<>> /\ except = <<>> /\ watched = FALSE
    /\ finally = <<>>
    /\ finalized = FALSE
    /\ held = TRUE
    /\ future = [f \in Futures |-> [is |-> "untaken", of |-> 0]]
    /\ taken = [f \in Futures |-> Late]
    /\ mixed = FALSE
    /\ accepted = FALSE

-----------------------------------------------------------------------------
Has(s, m) == \E i \in DOMAIN s : s[i] = m

(* Where a run of the chain s may end: at a handler of the program's, at a *)
(* future that is satisfied already, which throws std::future_error, or    *)
(* behind the last.                                                        *)
Ends(s, fut) ==
    {n \in 1..(Len(s) + 1) :
        /\ \A k \in 1..(n - 1) : s[k] \in Futures => fut[s[k]].is = "pending"
        /\ n <= Len(s) => s[n] = "program" \/ fut[s[n]].is # "pending"}

(* set_value or set_exception of the futures that come before the end.     *)
Satisfied(s, n, fut, content) ==
    [f \in Futures |-> IF \E k \in 1..(n - 1) : s[k] = f THEN content ELSE fut[f]]

(* An exception of a handler, or of a future, in place of the answer's.    *)
Another == [is |-> "exception", of |-> 0]

(* Plausible mistakes stand before what they would replace and are used    *)
(* nowhere else: PROJECT.json names the property that notices.  This one   *)
(* stops at the first future that has heard of an exception.               *)
ExceptedOnce(fut, content) ==
    {Satisfied(except, IF except = <<>> THEN 1 ELSE 2, fut, content)}

(* The loop of promise_core::reject around m_on_except: what the futures   *)
(* may be afterwards.  A handler that accepts is the end of it; when one   *)
(* throws, the chain is run once more with what it threw.                  *)
Excepted(fut, content) ==
    LET Accepts(n) == n > Len(except) \/ except[n] = "program"
        Run(f, c, ends) == {Satisfied(except, n, f, c) : n \in ends}
        ends1 == Ends(except, fut)
        thrown == Run(fut, content, ends1 \cap DOMAIN except)
    IN Run(fut, content, {n \in ends1 : Accepts(n)})
       \cup UNION {Run(f, Another, Ends(except, f)) : f \in thrown}

(* promise_core::reject.  When a watcher returns true nobody else hears of *)
(* the exception; one that returns false or throws changes nothing.        *)
Rejected(fut, content) ==
    \/ /\ watched
       /\ future' = fut
       /\ accepted' = TRUE
    \/ /\ future' \in Excepted(fut, content)
       /\ accepted' = FALSE

(* Mistake: what a then handler throws goes no further.                    *)
ResolvedOnly(fut, content) ==
    /\ \E n \in Ends(then, fut) : future' = Satisfied(then, n, fut, content)
    /\ accepted' = FALSE

(* promise_core::resolve: an exception of the chain rejects.               *)
Resolved(fut, content) ==
    \E n \in Ends(then, fut) :
        LET f == Satisfied(then, n, fut, content) IN
        IF n > Len(then) THEN future' = f /\ accepted' = FALSE ELSE Rejected(f, Another)

(* The shared state of a future goes with the last closure that could      *)
(* satisfy it: std::future_errc::broken_promise.                           *)
Abandoned(fut, t, e) ==
    [f \in Futures |-> IF fut[f].is = "pending" /\ ~Has(t, f) /\ ~Has(e, f)
                       THEN Broken ELSE fut[f]]

-----------------------------------------------------------------------------
(* then(f), except(f), watch(f), finally(f): by the program, which may run *)
(* as a handler of this very promise.                                      *)
RegisterThen ==
    /\ held /\ Len(then) < MaxHandlers
    /\ then' = Append(then, "program")
    /\ mixed' = TRUE
    /\ UNCHANGED <<usage, phase, answers, except, watched, finally, finalized, held,
                   future, taken, accepted>>

RegisterExcept ==
    /\ held /\ Len(except) < MaxHandlers
    /\ except' = Append(except, "program")
    /\ mixed' = TRUE
    /\ UNCHANGED <<usage, phase, answers, then, watched, finally, finalized, held,
                   future, taken, accepted>>

(* One watcher stands for all of them: the first that accepts is heeded.   *)
RegisterWatch ==
    /\ held /\ ~watched
    /\ watched' = TRUE
    /\ mixed' = TRUE
    /\ UNCHANGED <<usage, phase, answers, then, except, finally, finalized, held,
                   future, taken, accepted>>

RegisterFinally ==
    /\ held /\ Len(finally) < MaxFinally
    /\ finally' = Append(finally, [is |-> "waits", inTime |-> ~FirstRoundOver])
    /\ UNCHANGED <<usage, phase, answers, chains, finalized, held, future, history>>

(* get_future: then(set_value).except(set_exception), and a thread waits.  *)
GetFuture(f) ==
    /\ held /\ future[f].is = "untaken"
    /\ Len(then) < MaxHandlers /\ Len(except) < MaxHandlers
    /\ then' = Append(then, f)
    /\ except' = Append(except, f)
    /\ future' = [future EXCEPT ![f].is = "pending"]
    /\ taken' = [taken EXCEPT ![f] = IF phase = "idle" THEN answers + 1 ELSE Late]
    /\ UNCHANGED <<usage, phase, answers, watched, finally, finalized, held, mixed,
                   accepted>>

(* then(nullptr), except(nullptr), watch(nullptr), finally(nullptr), by    *)
(* the program.                                                            *)
ClearThen ==
    /\ held /\ then # <<>>
    /\ then' = <<>>
    /\ future' = Abandoned(future, <<>>, except)
    /\ UNCHANGED <<usage, phase, answers, except, watched, finally, finalized, held,
                   history>>

ClearExcept ==
    /\ held /\ except # <<>>
    /\ except' = <<>>
    /\ future' = Abandoned(future, then, <<>>)
    /\ UNCHANGED <<usage, phase, answers, then, watched, finally, finalized, held,
                   history>>

ClearWatch ==
    /\ held /\ watched
    /\ watched' = FALSE
    /\ UNCHANGED <<usage, phase, answers, then, except, finally, finalized, held,
                   future, history>>

(* The closures of the finally handlers are destroyed: those that did not  *)
(* have their turn never will.                                             *)
Unrun(handlers, fate) ==
    [i \in DOMAIN handlers |-> IF handlers[i].is = "waits"
                               THEN [handlers[i] EXCEPT !.is = fate] ELSE handlers[i]]

ClearFinally ==
    /\ held
    /\ finally' = Unrun(finally, "cleared")
    /\ UNCHANGED <<usage, phase, answers, chains, finalized, held, future, history>>

-----------------------------------------------------------------------------
(* The library's side: it answers the promise, through promise_emitter or  *)
(* through promise_cast, whose wrapper may throw and thereby reject.       *)
Answer ==
    /\ phase = "idle"
    /\ answers < MaxAnswers
    /\ phase' = "answered"
    /\ answers' = answers + 1
    /\ UNCHANGED <<usage, chains, finally, finalized, held, taken, mixed>>

Resolve ==
    /\ Answer
    /\ Resolved(future, [is |-> "value", of |-> answers + 1])

Reject ==
    /\ Answer
    /\ Rejected(future, [is |-> "exception", of |-> answers + 1])

CastResolve == Resolve \/ Reject

(* A run of the finally chain up to the handler k, which throws, or to the *)
(* end: what is thrown is dropped, and the handlers behind k never run.    *)
FinallyRun(k) ==
    [i \in DOMAIN finally |->
        IF finally[i].is = "waits" /\ i <= k
        THEN [finally[i] EXCEPT !.is = IF i = k THEN "threw" ELSE "ran"]
        ELSE finally[i]]

(* finalize: the exchange of m_finalized lets the chain run once.          *)
FinallyRuns ==
    IF finalized THEN {finally}
    ELSE {FinallyRun(k) : k \in {Len(finally) + 1} \cup
                                {i \in DOMAIN finally : finally[i].is = "waits"}}

(* Mistake: finalize comes before the answer.                              *)
FinalizeFirst ==
    /\ phase = "idle"
    /\ finalized' = TRUE
    /\ finally' \in FinallyRuns
    /\ UNCHANGED <<usage, phase, answers, chains, held, future, history>>

Finalize ==
    /\ phase = "answered"
    /\ phase' = "finalized"
    /\ finalized' = TRUE
    /\ finally' \in FinallyRuns
    /\ UNCHANGED <<usage, answers, chains, held, future, history>>

(* signal_t::raw_oneshot_callback, its last line; the watchers stay.       *)
ClearAll ==
    /\ usage = "oneshot" /\ phase = "finalized"
    /\ phase' = "idle"
    /\ then' = <<>> /\ except' = <<>>
    /\ finally' = Unrun(finally, "gone")
    /\ future' = Abandoned(future, <<>>, <<>>)
    /\ accepted' = FALSE
    /\ UNCHANGED <<usage, answers, watched, finalized, held, taken, mixed>>

(* signal_t::start_oneshot gives the same promise again.                   *)
StartOneshot ==
    /\ usage = "oneshot" /\ phase = "idle" /\ ~held
    /\ held' = TRUE
    /\ UNCHANGED <<usage, phase, answers, chains, finally, finalized, future, history>>

(* ~promise_core, with the last of its owners: finalize, then the chains.  *)
CoreGoes ==
    /\ finalized' = TRUE
    /\ \E handlers \in FinallyRuns : finally' = Unrun(handlers, "gone")
    /\ then' = <<>> /\ except' = <<>> /\ watched' = FALSE
    /\ future' = Abandoned(future, <<>>, <<>>)

(* Mistake: the library keeps its reference.                               *)
LetGoLeaks ==
    /\ phase = IF usage = "request" THEN "finalized" ELSE "idle"
    /\ phase' = "gone"
    /\ UNCHANGED <<usage, answers, chains, finally, finalized, held, future, history>>

(* The library drops the promise: a request's context is deleted after the *)
(* answer, a signal's data_t when the signal is closed.                    *)
LetGo ==
    /\ phase = IF usage = "request" THEN "finalized" ELSE "idle"
    /\ phase' = "gone"
    /\ IF held THEN UNCHANGED <<chains, finally, finalized, future>> ELSE CoreGoes
    /\ accepted' = FALSE
    /\ UNCHANGED <<usage, answers, held, taken, mixed>>

(* So does the program, which keeps its futures.                           *)
DropPromise ==
    /\ held
    /\ held' = FALSE
    /\ IF phase = "gone" THEN CoreGoes ELSE UNCHANGED <<chains, finally, finalized, future>>
    /\ UNCHANGED <<usage, phase, answers, history>>

Next ==
    \/ RegisterThen \/ RegisterExcept \/ RegisterWatch \/ RegisterFinally
    \/ \E f \in Futures : GetFuture(f)
    \/ ClearThen \/ ClearExcept \/ ClearWatch \/ ClearFinally
    \/ Resolve \/ Reject \/ CastResolve \/ Finalize
    \/ ClearAll \/ StartOneshot
    \/ LetGo \/ DropPromise

SafeSpec == Init /\ [][Next]_pVars

(* A request that was accepted is answered, finalized and deleted (Request *)
(* has this as its own liveness property).  Nothing makes a signal come,   *)
(* or the program let go of anything.                                      *)
Spec ==
    /\ SafeSpec
    /\ WF_pVars(usage = "request" /\ (CastResolve \/ Finalize \/ LetGo))

-----------------------------------------------------------------------------
(* Whoever waits for a future waits for a closure that can still satisfy   *)
(* it, in whatever order handlers are registered and cleared, answers and  *)
(* throws come, and the two owners let go (get_future, ~promise_core).     *)
WaitsForSomebody == \A f \in Futures : Pending(f) => Has(then, f) \/ Has(except, f)

(* A future taken in time is ready once the promise is answered, whatever  *)
(* the program's then handlers do, if it is the first to hear of           *)
(* exceptions: only a watcher that accepts, or an except handler or        *)
(* another future registered before it, keeps it waiting (resolve, reject, *)
(* get_future).                                                            *)
AnsweredUnlessIntercepted ==
    \A f \in Futures :
        /\ phase \in {"answered", "finalized"}
        /\ taken[f] # Late
        /\ Has(then, f)
        /\ except # <<>> /\ except[1] = f
        /\ ~accepted
        => ~Pending(f)

(* No future is forgotten: neither by the closures nor by the answer.      *)
NoFutureForgotten == WaitsForSomebody /\ AnsweredUnlessIntercepted

(* A value, and the exception of an answer, is that of the firing a future *)
(* was taken for, never of a later one; what else it may get is another    *)
(* handler's exception.  Futures alone, as many as there are, all get      *)
(* their answer.                                                           *)
FuturesGetTheirAnswer ==
    \A f \in Futures :
        /\ future[f].is = "value" => future[f].of = taken[f]
        /\ future[f].is = "exception" =>
              future[f].of = taken[f] \/ (mixed /\ future[f] = Another)
        /\ ~mixed /\ phase \in {"answered", "finalized"} /\ taken[f] # Late
             /\ Has(then, f) /\ Has(except, f) => ~Pending(f)

(* Every finally handler registered before the first round of the promise  *)
(* is over runs when it ends, and none before, unless the program cleared  *)
(* it or one registered before it threw, which drops the rest of the chain *)
(* (finalize, raw_callback, raw_oneshot_callback, ~promise_core).  For a   *)
(* request that is its only round; of those registered for a later firing  *)
(* of a signal nothing is said: m_finalized is never reset.                *)
FinallyRunsBeforeRestart ==
    \A i \in DOMAIN finally :
        /\ finally[i].is \in {"ran", "threw"} => FirstRoundOver
        /\ finally[i].inTime /\ FirstRoundOver =>
              \/ finally[i].is \in {"ran", "threw", "cleared"}
              \/ \E j \in DOMAIN finally : j < i /\ finally[j].is = "threw"

(* What a future has got stays: it is satisfied once, though the except    *)
(* chain is run again after a throw and a oneshot fires again.             *)
FuturesSettleOnce ==
    [][\A f \in Futures : future[f].is \in {"value", "exception", "broken"} =>
           future'[f] = future[f]]_pVars

(* A thread that waits for the future of a request is released once the    *)
(* program has dropped the promise, whatever its handlers do.              *)
ReleasedOnceDropped ==
    \A f \in Futures :
        (usage = "request" /\ Pending(f) /\ ~held) ~> ~Pending(f)
=============================================================================
