------------------------------- MODULE Handle -------------------------------
(***************************************************************************)
(* The lifecycle of the handles of src/include/uvcxx: who keeps the raw    *)
(* uv_xxx_t and the data_t behind raw->data alive, who closes the handle,  *)
(* and when both are released (handle.h, clip.h, callback2.h and the       *)
(* constructors and start methods of each kind of handle).                 *)
(*                                                                         *)
(* A handle is one record.  It is held by handle_t objects (each with a    *)
(* shared_ptr to the raw handle and a clip), by callback2 and promise2     *)
(* objects (a clip only), and by the data_t, which owns a shared_ptr to    *)
(* the raw handle and is owned by raw->data itself.  When the last clip    *)
(* goes, its `paper` closes the handle, unless it was detached.            *)
(*                                                                         *)
(* Everything runs on the thread of the loop.  `at` says whether the loop  *)
(* is inside a user's handler, and of which handle: there, the user may do *)
(* all that it may do outside.  A read of freed memory is recorded in the  *)
(* field `fault` by the name of the place that reads.                      *)
(***************************************************************************)
EXTENDS Naturals, Sequences, FiniteSets

CONSTANTS
    Handles,    \* identities of the handles
    Kinds,      \* the kinds they may be of
    MaxRefs,    \* bound: handle_t objects per handle
    MaxClips,   \* bound: callback2/promise2 objects per handle
    Misuse      \* what the program may do beyond the documented lifecycle

-----------------------------------------------------------------------------
(* What tells the kinds apart.  init: where _initialized_ is called.       *)
(* detaches: start calls _detach_.  clip: start returns a callback2 or a   *)
(* promise2.  stops: there is a stop.  watched: the handlers' emitter has  *)
(* handle_t::watch, so that they may throw close_handle.  once: the event  *)
(* happens once per start.  closes: the raw callback ends with close_for.  *)
Listener ==
    [init |-> "ctor", detaches |-> FALSE, clip |-> TRUE, stops |-> TRUE,
     watched |-> TRUE, once |-> FALSE, closes |-> FALSE]

Timer   == [Listener EXCEPT !.detaches = TRUE]
Idle    == Listener
Prepare == Listener
Check   == Listener
FsEvent == Listener
FsPoll  == Listener
Signal  == Listener
SignalOneshot == [Listener EXCEPT !.watched = FALSE, !.once = TRUE]
Tcp     == Listener
Pipe    == Listener
Tty     == Listener
Udp     == [Listener EXCEPT !.detaches = TRUE]
Poll    == [Listener EXCEPT !.init = "init", !.detaches = TRUE]
Async   == [Listener EXCEPT !.init = "init", !.stops = FALSE]
Process == [init |-> "never", detaches |-> TRUE, clip |-> FALSE, stops |-> FALSE,
            watched |-> FALSE, once |-> TRUE, closes |-> TRUE]

Traits ==
    [timer |-> Timer, idle |-> Idle, prepare |-> Prepare, check |-> Check,
     fs_event |-> FsEvent, fs_poll |-> FsPoll, signal |-> Signal,
     signal_oneshot |-> SignalOneshot, tcp |-> Tcp, pipe |-> Pipe, tty |-> Tty,
     udp |-> Udp, poll |-> Poll, async |-> Async, process |-> Process]

Misuses == {"close_allocated", "clip_outlives", "assign_closed", "reset_shutting"}

ASSUME KindsAssumption == Kinds \subseteq DOMAIN Traits
ASSUME BoundsAssumption == MaxRefs \in Nat \ {0} /\ MaxClips \in Nat
ASSUME MisuseAssumption == Misuse \subseteq Misuses

VARIABLES
    handle,   \* the record of each handle
    at        \* where the loop's thread is

vars == <<handle, at>>

User == [in |-> "user"]
InEvent(h) == [in |-> "event", of |-> h]
InClose(h) == [in |-> "close", of |-> h]

(* A handle nobody has constructed yet.                                    *)
Unmade(k) ==
    [kind |-> k,
     refs |-> 0,             \* handle_t objects of the program
     clips |-> 0,            \* callback2/promise2 objects of the program
     captured |-> FALSE,     \* a handler of the handle holds a handle_t of it
     paper |-> FALSE,        \* clip_core_t::m_paper is set
     data |-> "none",        \* the data_t behind raw->data: none, live, freed
     initialized |-> FALSE,  \* data_t::m_initialized
     closed |-> FALSE,       \* data_t::m_closed
     uv |-> "none",          \* libuv's view: none, idle, active, closing, closed
     log |-> <<>>,           \* what ran of the close promise
     detached |-> "no",      \* history: who detached it, user or library
     asked |-> FALSE,        \* history: the program asked for the close
     fault |-> {}]

Init ==
    /\ handle \in [Handles -> {Unmade(k) : k \in Kinds}]
    /\ at = User

Trait(s) == Traits[s.kind]

(* Plausible mistakes, each defined before the definition it would replace *)
(* and used nowhere else: PROJECT.json names the property that notices.    *)
(* This one is a data_t that refers to the raw handle without owning it.   *)
RawAliveWithoutData(s) == s.refs > 0 \/ s.captured

(* shared_raw_base_t: some handle_t, in the program or in a handler, or    *)
(* the data_t owns the raw handle.                                         *)
RawAlive(s) == s.refs > 0 \/ s.captured \/ s.data = "live"

(* clip_t: some handle_t, callback2 or promise2 owns the clip core.        *)
Clipped(s) == s.refs + s.clips > 0 \/ s.captured

Fault(s, place) == [s EXCEPT !.fault = @ \cup {place}]

-----------------------------------------------------------------------------
(* The library's steps on one handle, as functions of its record.          *)

(* Mistake: the emitters of the data_t outlive it.                         *)
DeleteDataAlone(s) == [s EXCEPT !.data = "freed"]

(* delete data_t, after raw->data was reset: its handlers go with it,      *)
(* unless a callback2 still owns them.                                     *)
DeleteData(s) == [s EXCEPT !.data = "freed", !.captured = @ /\ s.clips > 0]

(* uv_close: libuv asserts that it knows the handle and is not closing it. *)
UvClose(s) ==
    IF s.uv \in {"idle", "active"} THEN [s EXCEPT !.uv = "closing"]
    ELSE Fault(s, "uv_close")

RawNonInitializedClose(s) ==
    DeleteData([s EXCEPT !.log = Append(@, "finally")])

(* Mistakes: m_closed is set but not tested; it is set and the close is    *)
(* left to somebody else.                                                  *)
CloseForTwice(s) ==
    LET t == [s EXCEPT !.closed = TRUE] IN
    IF s.initialized THEN UvClose(t) ELSE RawNonInitializedClose(t)

CloseForMarks(s) ==
    IF s.closed THEN s
    ELSE LET t == [s EXCEPT !.closed = TRUE] IN
         IF s.initialized THEN t ELSE RawNonInitializedClose(t)

(* data_t::close_for: the first caller of all closes.                      *)
CloseFor(s) ==
    IF s.closed THEN s
    ELSE LET t == [s EXCEPT !.closed = TRUE] IN
         IF s.initialized THEN UvClose(t) ELSE RawNonInitializedClose(t)

Detach(s) == [s EXCEPT !.paper = FALSE]

(* handle_t::close_for, which goes on to the promise of the data_t.        *)
HandleCloseFor(s) ==
    LET t == Detach(CloseFor(s)) IN
    IF t.data = "live" THEN t ELSE Fault(t, "close")

(* attach_finalize's paper reads raw->data.                                *)
Paper(s, rawAlive) ==
    IF ~rawAlive THEN Fault(s, "paper")
    ELSE IF s.data = "live" THEN CloseFor(s) ELSE s

(* Mistake: every owner of the clip that goes hands in the paper.          *)
ClipGoesAtOnce(s, rawAlive) == IF ~s.paper THEN s ELSE Detach(Paper(s, rawAlive))

(* ~clip_core_t, when the last owner of the clip is gone; rawAlive tells   *)
(* whether the raw handle is still there at that moment.                   *)
ClipGoes(s, rawAlive) ==
    IF Clipped(s) \/ ~s.paper THEN s ELSE Detach(Paper(s, rawAlive))

(* The handler of handle_t::watch, for a close_handle thrown by a handler. *)
Watch(s) == IF s.data = "live" THEN CloseFor(s) ELSE Fault(s, "watch")

-----------------------------------------------------------------------------
(* The program may use a handle through a handle_t: its own, or the one a  *)
(* handler captured, inside that handler.                                  *)
Holds(h) ==
    \/ handle[h].refs > 0
    \/ handle[h].captured /\ at = InEvent(h)

Becomes(h, s) == handle' = [handle EXCEPT ![h] = s]

(* Mistake: the constructor forgets _attach_.                              *)
ConstructUnattached(h) ==
    /\ handle[h] = Unmade(handle[h].kind)
    /\ LET ctor == Trait(handle[h]).init = "ctor" IN
       Becomes(h, [handle[h] EXCEPT !.refs = 1, !.data = "live", !.initialized = ctor,
                                    !.uv = IF ctor THEN "idle" ELSE "none"])
    /\ UNCHANGED at

(* inherit_handle_t() and the constructor of the kind.                     *)
Construct(h) ==
    /\ handle[h] = Unmade(handle[h].kind)
    /\ LET ctor == Trait(handle[h]).init = "ctor" IN
       Becomes(h, [handle[h] EXCEPT !.refs = 1, !.paper = TRUE, !.data = "live",
                                    !.initialized = ctor,
                                    !.uv = IF ctor THEN "idle" ELSE "none"])
    /\ UNCHANGED at

CopyRef(h) ==
    /\ Holds(h)
    /\ handle[h].refs < MaxRefs
    /\ Becomes(h, [handle[h] EXCEPT !.refs = @ + 1])
    /\ UNCHANGED at

(* ~handle_t: the clip goes before the shared_ptr to the raw handle.       *)
DropRef(h) ==
    /\ handle[h].refs > 0
    /\ Becomes(h, ClipGoes([handle[h] EXCEPT !.refs = @ - 1], TRUE))
    /\ UNCHANGED at

(* handle_t::operator=, over an object that refers to h: here the          *)
(* shared_ptr to the raw handle goes first.  Where the clip is the last    *)
(* and still has its paper, that leaves the paper a raw handle that is     *)
(* gone: the close was asked for by close_handle (see ClipsAreSafe).       *)
Assign(h) ==
    /\ handle[h].refs > 0
    /\ LET s == [handle[h] EXCEPT !.refs = @ - 1] IN
       /\ RawAlive(s) \/ ~s.paper \/ "assign_closed" \in Misuse
       /\ Becomes(h, ClipGoes(s, RawAlive(s)))
    /\ UNCHANGED at

(* A handler of the handle captures a handle_t by value.                   *)
Capture(h) ==
    /\ Holds(h)
    /\ handle[h].data = "live"
    /\ Becomes(h, [handle[h] EXCEPT !.captured = TRUE])
    /\ UNCHANGED at

(* ~callback2, ~promise2: the clip goes, then the handlers if they are the *)
(* last to own them, with the handle_t captured there.                     *)
DropClip(h) ==
    /\ handle[h].clips > 0
    /\ LET s == [handle[h] EXCEPT !.clips = @ - 1]
           t == [s EXCEPT !.captured = @ /\ (s.data = "live" \/ s.clips > 0)]
       IN Becomes(h, ClipGoes(t, RawAlive(s)))
    /\ UNCHANGED at

(* The clip that start and init return: the program keeps it, or lets it   *)
(* go at the end of the expression, where its handle_t still is.           *)
Returned(s) ==
    {s} \cup {[s EXCEPT !.clips = @ + 1] : i \in {1} \cap 1 .. MaxClips - s.clips}

(* Mistake: init forgets _initialized_.                                    *)
InitHandleUnmarked(h) ==
    /\ Holds(h)
    /\ handle[h].data = "live" /\ ~handle[h].closed
    /\ Trait(handle[h]).init = "init" /\ handle[h].uv = "none"
    /\ Becomes(h, [handle[h] EXCEPT !.uv = "idle"])
    /\ UNCHANGED at

(* async_t::init and poll_t::init, once, from the Allocated state.  An     *)
(* async handle is active from then on.                                    *)
InitHandle(h) ==
    LET s == handle[h]
        t == [s EXCEPT !.initialized = TRUE] IN
    /\ Holds(h)
    /\ s.data = "live" /\ ~s.closed
    /\ Trait(s).init = "init" /\ s.uv = "none"
    /\ IF s.kind = "async"
       THEN \E r \in Returned([t EXCEPT !.uv = "active"]) : Becomes(h, r)
       ELSE Becomes(h, [t EXCEPT !.uv = "idle"])
    /\ UNCHANGED at

(* start, listen, read_start, recv_start, spawn: successful calls.         *)
Start(h) ==
    LET s == handle[h]
        t == [s EXCEPT !.uv = "active"]
        d == [Detach(t) EXCEPT !.detached = IF @ = "no" THEN "library" ELSE @] IN
    /\ Holds(h)
    /\ s.data = "live" /\ ~s.closed
    /\ s.kind # "async"
    /\ s.uv \in (IF s.kind = "process" THEN {"none"} ELSE {"idle", "active"})
    /\ \E r \in LET u == IF Trait(s).detaches THEN d ELSE t
                IN IF Trait(s).clip THEN Returned(u) ELSE {u} :
          Becomes(h, r)
    /\ UNCHANGED at

Stop(h) ==
    /\ Holds(h)
    /\ handle[h].data = "live" /\ ~handle[h].closed
    /\ Trait(handle[h]).stops
    /\ handle[h].uv = "active"
    /\ Becomes(h, [handle[h] EXCEPT !.uv = "idle"])
    /\ UNCHANGED at

(* detach() of the handle or of a callback2.                               *)
UserDetach(h) ==
    /\ Holds(h) \/ handle[h].clips > 0
    /\ handle[h].data = "live" /\ ~handle[h].closed
    /\ Becomes(h, [Detach(handle[h]) EXCEPT !.detached = "user"])
    /\ UNCHANGED at

(* close() and close(nullptr), any number of times until the data_t is     *)
(* gone, after which they throw EPERM.                                     *)
Close(h) ==
    /\ Holds(h)
    /\ handle[h].data = "live"
    /\ handle[h].initialized \/ "close_allocated" \in Misuse
    /\ Becomes(h, [HandleCloseFor(handle[h]) EXCEPT !.asked = TRUE])
    /\ UNCHANGED at

(* tcp_t::close_reset when uv_tcp_close_reset refuses, as it does while a  *)
(* shutdown is under way: m_closed is set, and the status is dropped.      *)
(* When it accepts, it is Close.                                           *)
CloseResetRefused(h) ==
    /\ "reset_shutting" \in Misuse
    /\ Holds(h)
    /\ handle[h].kind = "tcp"
    /\ handle[h].data = "live" /\ ~handle[h].closed
    /\ Becomes(h, [Detach(handle[h]) EXCEPT !.closed = TRUE, !.asked = TRUE])
    /\ UNCHANGED at

UserStep(h) ==
    \/ Construct(h) \/ CopyRef(h) \/ DropRef(h) \/ Assign(h) \/ Capture(h)
    \/ DropClip(h)
    \/ InitHandle(h) \/ Start(h) \/ Stop(h) \/ UserDetach(h)
    \/ Close(h) \/ CloseResetRefused(h)

-----------------------------------------------------------------------------
(* The loop.  libuv calls the raw callback of an active handle: it reads   *)
(* raw->data and emits to the handlers.                                    *)
Event(h) ==
    LET s == handle[h] IN
    /\ at = User
    /\ s.uv = "active"
    /\ at' = InEvent(h)
    /\ LET t == [s EXCEPT !.uv = IF Trait(s).once THEN "idle" ELSE @] IN
       Becomes(h, IF s.data = "live" THEN t ELSE Fault(t, "event"))

(* The handlers return, or throw what is not close_handle.  A process      *)
(* then closes itself through the data_t it read before the handlers ran.  *)
EventReturns(h) ==
    LET s == handle[h] IN
    /\ at = InEvent(h)
    /\ at' = User
    /\ Becomes(h, IF ~Trait(s).closes THEN s
                  ELSE [IF s.data = "live" THEN CloseFor(s) ELSE Fault(s, "exit")
                        EXCEPT !.asked = TRUE])

(* The handlers throw close_handle.  Handlers that are not watched only    *)
(* report it.  A program that keeps a callback2 for longer than the handle *)
(* must not do so (see ClipMayOutlive in the configurations).              *)
EventThrows(h) ==
    LET s == handle[h] IN
    /\ at = InEvent(h)
    /\ Trait(s).watched
    /\ s.clips = 0 \/ ~s.paper \/ "clip_outlives" \in Misuse
    /\ at' = User
    /\ Becomes(h, [Watch(s) EXCEPT !.asked = TRUE])

(* raw_close_callback, which libuv calls once when a close is complete:    *)
(* it resolves the promise, whose handlers run, ...                        *)
CloseCallback(h) ==
    /\ at = User
    /\ handle[h].uv = "closing"
    /\ at' = InClose(h)
    /\ Becomes(h, LET t == [handle[h] EXCEPT !.uv = "closed"] IN
                  IF t.data = "live" THEN [t EXCEPT !.log = Append(@, "then")]
                  ELSE Fault(t, "close_callback"))

(* Mistake: the promise is finalized here and by the data_t again.         *)
CloseCallbackFinalizesTwice(h) ==
    /\ at = InClose(h)
    /\ at' = User
    /\ Becomes(h, DeleteData([handle[h] EXCEPT !.log = @ \o <<"finally", "finally">>]))

(* ... and then finalizes it, resets raw->data and deletes the data_t.     *)
CloseCallbackReturns(h) ==
    /\ at = InClose(h)
    /\ at' = User
    /\ Becomes(h, DeleteData([handle[h] EXCEPT !.log = Append(@, "finally")]))

LoopStep(h) ==
    \/ Event(h) \/ EventReturns(h) \/ EventThrows(h)
    \/ CloseCallback(h) \/ CloseCallbackReturns(h)

Next == \E h \in Handles : UserStep(h) \/ LoopStep(h)

SafeSpec == Init /\ [][Next]_vars

(* The program keeps running its loop and its handlers return, so that a   *)
(* close that libuv has accepted is completed.  Nothing makes a program    *)
(* drop, start, stop or close a handle, nor an event occur.                *)
Spec ==
    /\ SafeSpec
    /\ \A h \in Handles :
          /\ SF_vars(CloseCallback(h))
          /\ WF_vars(CloseCallbackReturns(h))
          /\ WF_vars(EventReturns(h) \/ EventThrows(h))

-----------------------------------------------------------------------------
FaultSites == {"uv_close", "close", "paper", "watch", "event", "exit", "close_callback"}

HandleState ==
    [kind : Kinds, refs : 0 .. MaxRefs, clips : 0 .. MaxClips, captured : BOOLEAN,
     paper : BOOLEAN, data : {"none", "live", "freed"}, initialized : BOOLEAN,
     closed : BOOLEAN, uv : {"none", "idle", "active", "closing", "closed"},
     log : {<<>>, <<"then">>, <<"then", "finally">>, <<"finally">>},
     detached : {"no", "user", "library"}, asked : BOOLEAN, fault : SUBSET FaultSites]

(* Types; that of `log` says that the close promise is resolved at most    *)
(* once and finalized at most once, after it is resolved.                  *)
TypeOK ==
    /\ handle \in [Handles -> HandleState]
    /\ at \in {User} \cup {InEvent(h) : h \in Handles} \cup {InClose(h) : h \in Handles}

(* No handler, clip, close or raw callback reads a data_t or a raw handle  *)
(* that was freed, and uv_close gets only handles it may get.              *)
NoFault == \A h \in Handles : handle[h].fault = {}

(* As long as libuv knows a handle, the memory it was given is there, even *)
(* if the program dropped every object of the library.                     *)
RawOutlivesUv ==
    \A h \in Handles :
        handle[h].uv \in {"idle", "active", "closing"} => RawAlive(handle[h])

(* raw->data is released only when libuv has finished with the handle (or  *)
(* never knew it), and the close promise was finalized by then.            *)
DataOutlivesUv ==
    \A h \in Handles : handle[h].data = "freed" =>
        /\ handle[h].uv \in {"none", "closed"}
        /\ handle[h].log \in {<<"then", "finally">>, <<"finally">>}

(* What libuv was given outlives libuv's use of it.                        *)
MemoryOutlivesUv == RawOutlivesUv /\ DataOutlivesUv

(* m_closed is not set in vain: a handle libuv knows, once the library     *)
(* regards it as closed, was given to uv_close - or nobody would ever.     *)
ClosedReachesUv ==
    \A h \in Handles : handle[h].closed /\ handle[h].uv # "none" =>
        handle[h].uv \in {"closing", "closed"}

(* lifecycle.md: an attached handle nobody refers to is recycled.  A       *)
(* handle that start() detached on its own counts as detached here.        *)
AttachedIsRecycled ==
    \A h \in Handles :
        handle[h].data # "none" /\ ~Clipped(handle[h]) /\ handle[h].detached = "no"
            => handle[h].closed

(* lifecycle.md: a detached handle is not recycled; a handle in use is not *)
(* closed behind the program's back.  A close has one of two causes: the   *)
(* program asked, or the handle was attached and its last holder went.     *)
ClosedForCause ==
    [][\A h \in Handles : handle'[h].closed /\ ~handle[h].closed =>
          \/ handle'[h].asked
          \/ handle[h].detached = "no" /\ ~Clipped(handle'[h])]_vars

(* A close that began is completed: libuv reports it, and the data_t and,  *)
(* when nobody refers to it, the raw handle are released.                  *)
CloseCompletes ==
    \A h \in Handles : handle[h].closed ~> handle[h].data = "freed"

(* No leak: an attached handle that loses its last holder is released, raw *)
(* memory included; and so is a closed one that only its own handlers hold *)
(* any more, as the close breaks that cycle, unless one of them hands the  *)
(* handle out again before.                                                *)
UnreferencedIsReleased ==
    \A h \in Handles :
        (\/ handle[h].data # "none" /\ ~Clipped(handle[h]) /\ handle[h].detached = "no"
         \/ handle[h].closed /\ handle[h].refs + handle[h].clips = 0)
            ~> (~RawAlive(handle[h]) \/ handle[h].refs + handle[h].clips > 0)

(* lifecycle.md: object cannot be used after close: the library itself     *)
(* does not read what close() released.                                    *)
CloseKeepsItsPromise == \A h \in Handles : "close" \notin handle[h].fault

(* lifecycle.md: resources are recycled when the handle is no longer       *)
(* referenced, a callback2 that outlives it or an assignment over the      *)
(* last handle_t being no obstacle.                                        *)
ClipsAreSafe == \A h \in Handles : "paper" \notin handle[h].fault

(* How far the life of a handle has come: what libuv knows of it, what     *)
(* became of its data_t, and what its close promise has been told.         *)
Life(s) ==
    CASE s.data = "none" -> "unmade"
      [] s.data = "live" /\ s.uv = "none" /\ s.log = <<>> -> "allocated"
      [] s.data = "live" /\ s.uv \in {"idle", "active"} /\ s.log = <<>> -> "open"
      [] s.data = "live" /\ s.uv = "closing" /\ s.log = <<>> -> "closing"
      [] s.data = "live" /\ s.uv = "closed" /\ s.log = <<"then">> -> "closed"
      [] s.data = "freed" /\ s.uv = "closed" /\ s.log = <<"then", "finally">> -> "released"
      [] s.data = "freed" /\ s.uv = "none" /\ s.log = <<"finally">> -> "discarded"
      [] OTHER -> "lost"

Abstract == INSTANCE AbstractHandle WITH life <- [h \in Handles |-> Life(handle[h])]

(* lifecycle.md: every handle goes through its states in order, whatever   *)
(* the program does with it and with the others; the close promise is told *)
(* of it once each, and no two close callbacks overlap.                    *)
ImplementsLifecycle == Abstract!Spec

=============================================================================
