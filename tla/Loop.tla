-------------------------------- MODULE Loop --------------------------------
(***************************************************************************)
(* uv::loop_t (loop.h): shared ownership of a uv_loop_t, a close that goes *)
(* to libuv only once, and a destructor that closes what was not closed.   *)
(* The handles of the loop are seen as libuv sees them (Handle has their   *)
(* lifecycle); one thread uses the loop at a time.                         *)
(***************************************************************************)
EXTENDS Naturals, FiniteSets

CONSTANTS
    Handles,    \* identities of the handles of the loop
    MaxRefs     \* bound: loop_t objects

VARIABLES
    loop,       \* the uv_loop_t, its data_t and its owners
    handle,     \* each handle: none, idle, active, closing, closed
    runner      \* the actor inside run()

loopVars == <<loop, handle, runner>>

Nobody == "nobody"

LoopInit ==
    /\ loop = [refs |-> 1, mem |-> "live", uv |-> "open",
               closed |-> FALSE,       \* data_t::m_closed
               answer |-> "none",      \* what the last close() returned
               refused |-> FALSE,      \* history: a close was refused
               fault |-> FALSE]
    /\ handle = [h \in Handles |-> "none"]
    /\ runner = Nobody

Known(h) == handle[h] \in {"idle", "active", "closing"}
Empty == \A h \in Handles : ~Known(h)

(* One thread at a time uses the loop, a libuv rule: whoever runs it, from *)
(* a handler of one of its handles; anybody else when it does not run.     *)
Uses(a) ==
    /\ loop.refs > 0 /\ loop.uv = "open"
    /\ runner = Nobody \/ (runner = a /\ ~Empty)

-----------------------------------------------------------------------------
(* Mistake: m_closed is not asked.                                         *)
UvLoopCloseAgain(l) ==
    IF ~Empty THEN [l EXCEPT !.closed = TRUE, !.answer = "busy", !.refused = TRUE]
    ELSE [l EXCEPT !.closed = TRUE, !.answer = "ok", !.uv = "closed",
                   !.fault = @ \/ l.uv # "open"]

(* Mistake: the status is not handed on.                                   *)
UvLoopCloseSilent(l) ==
    IF l.closed THEN [l EXCEPT !.answer = "ok"]
    ELSE IF ~Empty THEN [l EXCEPT !.closed = TRUE, !.answer = "ok"]
    ELSE [l EXCEPT !.closed = TRUE, !.answer = "ok", !.uv = "closed",
                   !.fault = @ \/ l.uv # "open"]

(* loop_with_data_t::close, through data_t::close_for: the first call asks *)
(* uv_loop_close, which refuses while it knows a handle.                   *)
UvLoopClose(l) ==
    IF l.closed THEN [l EXCEPT !.answer = "ok"]
    ELSE IF ~Empty THEN [l EXCEPT !.closed = TRUE, !.answer = "busy", !.refused = TRUE]
    ELSE [l EXCEPT !.closed = TRUE, !.answer = "ok", !.uv = "closed",
                   !.fault = @ \/ l.uv # "open"]

(* A loop_t goes; the last takes the loop along: ~loop_with_data_t closes  *)
(* and does not look at the answer.                                        *)
Lose(l) ==
    IF l.refs > 1 THEN [l EXCEPT !.refs = @ - 1]
    ELSE [UvLoopClose(l) EXCEPT !.refs = 0, !.mem = "freed", !.answer = l.answer]

CopyLoop ==
    /\ loop.refs \in 1 .. MaxRefs - 1
    /\ loop' = [loop EXCEPT !.refs = @ + 1]
    /\ UNCHANGED <<handle, runner>>

DropLoop ==
    /\ loop.refs > 0
    /\ loop' = Lose(loop)
    /\ UNCHANGED <<handle, runner>>

(* close(), outside run() or from a handler: see the rule at Uses.         *)
CloseLoop(a) ==
    /\ loop.refs > 0
    /\ runner = Nobody \/ (runner = a /\ ~Empty)
    /\ loop' = UvLoopClose(loop)
    /\ UNCHANGED <<handle, runner>>

OpenHandle(a, h) ==
    /\ Uses(a) /\ handle[h] = "none"
    /\ handle' = [handle EXCEPT ![h] = "idle"]
    /\ UNCHANGED <<loop, runner>>

StartHandle(a, h) ==
    /\ Uses(a) /\ handle[h] = "idle"
    /\ handle' = [handle EXCEPT ![h] = "active"]
    /\ UNCHANGED <<loop, runner>>

CloseHandle(a, h) ==
    /\ Uses(a) /\ handle[h] \in {"idle", "active"}
    /\ handle' = [handle EXCEPT ![h] = "closing"]
    /\ UNCHANGED <<loop, runner>>

Run(a) ==
    /\ loop.refs > 0 /\ loop.uv = "open" /\ runner = Nobody
    /\ runner' = a
    /\ UNCHANGED <<loop, handle>>

(* uv_run completes a close.                                               *)
HandleClosed(h) ==
    /\ runner # Nobody /\ handle[h] = "closing"
    /\ handle' = [handle EXCEPT ![h] = "closed"]
    /\ UNCHANGED <<loop, runner>>

(* uv_run returns: nothing keeps the loop alive.                           *)
RunReturns(a) ==
    /\ runner = a
    /\ \A h \in Handles : handle[h] \notin {"active", "closing"}
    /\ runner' = Nobody
    /\ UNCHANGED <<loop, handle>>

(* A handler called stop(); or run(UV_RUN_NOWAIT), run(UV_RUN_ONCE).       *)
RunStops(a) ==
    /\ runner = a /\ ~Empty
    /\ runner' = Nobody
    /\ UNCHANGED <<loop, handle>>

-----------------------------------------------------------------------------
(* libuv closes a loop once, however many owners, close() and destructors. *)
LoopClosedOnce == ~loop.fault

(* A loop that is gone is closed, and so is one of which close() said 0,   *)
(* unless libuv refused: a close refused once is not tried again, neither  *)
(* by close(), which says 0 from then on, nor by the destructor.           *)
CloseIsHonest ==
    loop.mem = "freed" \/ loop.answer = "ok" => loop.uv = "closed" \/ loop.refused

=============================================================================
