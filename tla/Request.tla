------------------------------- MODULE Request ------------------------------
(***************************************************************************)
(* Requests (src/include/uvcxx/req.h and one header for each type): a      *)
(* uv_req_t shared by the program's req_t objects and by the context that  *)
(* every call makes for it, put into req->data once libuv has accepted the *)
(* call, and taken out again by raw_callback, which answers the promise,   *)
(* releases what libuv allocated, runs the finally handlers and deletes    *)
(* the context.  The program may act between any two of these steps, as    *)
(* its handlers run there.                                                 *)
(*                                                                         *)
(* Calls are numbered; call c makes context c.  The directory that readdir *)
(* reads is one, and two readdirs are never under way on it at once.       *)
(***************************************************************************)
EXTENDS Operations, Integers, FiniteSets

CONSTANTS
    Reqs,        \* uv_req_t objects
    Ops,         \* the operations called, a subset of Operations
    MaxUsers,    \* bound of the model: req_t objects that share a uv_req_t
    MaxCalls,    \* bound of the model: calls made
    ReuseInHandler  \* a call's handlers use its fs request, or directory, again

ASSUME OpsAssumption == Ops \subseteq Operations
ASSUME CallsAssumption == MaxCalls \in Nat /\ MaxUsers \in Nat /\ 0 \notin Reqs
ASSUME ReuseAssumption == ReuseInHandler \in BOOLEAN

Calls == 1..MaxCalls
NoCall == 0

VARIABLES
    users,     \* how many req_t objects share each request
    data,      \* req->data: the context, or NoCall
    flight,    \* the calls libuv has not called back yet, by request
    cancelled, \* of these, those that uv_cancel was called for
    owns,      \* the call whose results the request owns (req->path, req->ptr)
    dirents,   \* dir->dirents: the call whose buffer, there or not, it points to
    context,   \* the context of each call
    dealing,   \* the call whose raw_callback is running, or NoCall
    released,  \* the calls whose results were released
    misfreed   \* calls whose memory was released while libuv was at work on it

vars == <<users, data, flight, cancelled, owns, dirents, context, dealing,
          released, misfreed>>

(* A context is "waiting" from the call on, its promise is "answered" and  *)
(* then "finished", when finalize has run; "released" is deleted.          *)
Stages == {"unmade", "waiting", "answered", "finished", "released"}
NoOp == [gives |-> "number", frees |-> "nothing", fails |-> FALSE, cancels |-> FALSE]

Init ==
    /\ users = [r \in Reqs |-> 0]
    /\ data = [r \in Reqs |-> NoCall]
    /\ flight = [r \in Reqs |-> {}]
    /\ cancelled = {}
    /\ owns = [r \in Reqs |-> NoCall]
    /\ dirents = NoCall
    /\ context = [c \in Calls |-> [stage |-> "unmade", req |-> 0, op |-> NoOp,
                                   answer |-> "none"]]
    /\ dealing = NoCall
    /\ released = {}
    /\ misfreed = {}

-----------------------------------------------------------------------------
Live(c) == context[c].stage \in {"waiting", "answered", "finished"}

(* Plausible mistakes stand before what they would replace and are used    *)
(* nowhere else: PROJECT.json names the property that notices.  This one   *)
(* leaves m_req out of the context.                                        *)
AliveByUsers(r) == users[r] > 0

(* The shared_ptr to the request: of the program, and m_req of a context.  *)
Alive(r) == users[r] > 0 \/ \E c \in Calls : Live(c) /\ context[c].req = r
Idle(r) == data[r] = NoCall

Fresh(c) == context[c].stage = "unmade" /\ \A d \in Calls : d < c => context[d].stage # "unmade"
FsOp(op) == op.frees = "request"

ReadsDir(op) == op.gives = "entries"

(* The directory is not being read, and was not in the handlers that run.  *)
DirectoryFree ==
    \A c \in Calls : ReadsDir(context[c].op) =>
        /\ context[c].stage # "waiting"
        /\ context[c].stage = "answered" => ReuseInHandler

(* The program calls an fs operation on the request whose handlers run.    *)
InOwnHandler(r) ==
    /\ dealing # NoCall
    /\ context[dealing].req = r /\ context[dealing].stage = "answered"
    /\ FsOp(context[dealing].op)

(* uv_fs_req_cleanup frees what the request owns: the results of the last  *)
(* operation libuv started with it, which for a readdir are the names in   *)
(* the buffer that the directory has now.                                  *)
Cleanup(r) ==
    LET freed == IF ReadsDir(context[owns[r]].op) THEN dirents ELSE owns[r] IN
    IF owns[r] = NoCall THEN UNCHANGED <<owns, released, misfreed>>
    ELSE /\ owns' = [owns EXCEPT ![r] = NoCall]
         /\ released' = released \cup {freed}
         /\ misfreed' = misfreed \cup ({freed} \cap UNION {flight[q] : q \in Reqs})

-----------------------------------------------------------------------------
(* inherit_req_t(): a new uv_req_t, with no data.                          *)
NewRequest(r) ==
    /\ ~Alive(r)
    /\ users' = [users EXCEPT ![r] = 1]
    /\ data' = [data EXCEPT ![r] = NoCall]
    /\ owns' = [owns EXCEPT ![r] = NoCall]
    /\ UNCHANGED <<flight, cancelled, context, dirents, dealing, released, misfreed>>

Copy(r) ==
    /\ users[r] \in 1..(MaxUsers - 1)
    /\ users' = [users EXCEPT ![r] = @ + 1]
    /\ UNCHANGED <<data, flight, cancelled, owns, context, dirents, dealing,
                    released, misfreed>>

(* The memory of a request, with what it owns, goes with the last of all.  *)
Drop(r) ==
    /\ users[r] > 0
    /\ users' = [users EXCEPT ![r] = @ - 1]
    /\ UNCHANGED <<data, flight, cancelled, owns, context, dirents, dealing,
                    released, misfreed>>

(* libuv accepts the call: the context is stored, and the request belongs  *)
(* to the operation from now on; the directory got the context's buffer.   *)
Accepted(r, c, op) ==
    /\ context' = [context EXCEPT ![c] = [stage |-> "waiting", req |-> r, op |-> op,
                                          answer |-> "none"]]
    /\ data' = [data EXCEPT ![r] = c]
    /\ flight' = [flight EXCEPT ![r] = @ \cup {c}]
    /\ owns' = IF FsOp(op) THEN [owns EXCEPT ![r] = c] ELSE owns
    /\ dirents' = IF ReadsDir(op) THEN c ELSE dirents
    /\ UNCHANGED <<users, cancelled, dealing, released, misfreed>>

(* Mistake: the constructor of data_t does not look at req->data.          *)
CallUnchecked(r, c, op) ==
    /\ Fresh(c)
    /\ users[r] > 0
    /\ InOwnHandler(r) /\ FsOp(op) => ReuseInHandler
    /\ ReadsDir(op) => DirectoryFree
    /\ Accepted(r, c, op)

(* fs::open(loop, req, ...) and its like: the constructor of data_t throws *)
(* if the request has data, before libuv is asked.                         *)
Call(r, c, op) ==
    /\ Fresh(c)
    /\ users[r] > 0
    /\ Idle(r)
    /\ InOwnHandler(r) /\ FsOp(op) => ReuseInHandler
    /\ ReadsDir(op) => DirectoryFree
    /\ Accepted(r, c, op)

(* The overloads without a request pass {}: a new request, which owns      *)
(* nothing yet and which only m_req of the context will share.             *)
CallAnonymous(r, c, op) ==
    /\ Fresh(c)
    /\ ~Alive(r)
    /\ owns[r] = NoCall
    /\ ReadsDir(op) => DirectoryFree
    /\ Accepted(r, c, op)

(* The libuv call fails: defer_delete takes the context away again.  By    *)
(* then uv_fs_* has reset the request, which forgets what it owned, and a  *)
(* readdir has pointed the directory to the buffer that goes away.         *)
CallFails(r, c, op) ==
    /\ Fresh(c)
    /\ users[r] > 0
    /\ Idle(r)
    /\ op.fails
    /\ InOwnHandler(r) /\ FsOp(op) => ReuseInHandler
    /\ ReadsDir(op) => DirectoryFree
    /\ context' = [context EXCEPT ![c].stage = "released"]
    /\ owns' = IF FsOp(op) THEN [owns EXCEPT ![r] = NoCall] ELSE owns
    /\ dirents' = IF ReadsDir(op) THEN c ELSE dirents
    /\ UNCHANGED <<users, data, flight, cancelled, dealing, released, misfreed>>

(* The overloads that end in nullptr run at once, and the program cleans   *)
(* the request up.  They do not look at req->data; nobody makes such a     *)
(* call while libuv is at work on the request.  The buffer of a readdir is *)
(* the program's then, and out of the model.                               *)
CallSync(r, c, op) ==
    /\ Fresh(c)
    /\ users[r] > 0
    /\ Idle(r)
    /\ FsOp(op) /\ ~ReadsDir(op)
    /\ InOwnHandler(r) => ReuseInHandler
    /\ context' = [context EXCEPT ![c].stage = "released"]
    /\ owns' = [owns EXCEPT ![r] = c]
    /\ UNCHANGED <<users, data, flight, cancelled, dirents, dealing,
                    released, misfreed>>

(* req_t::cancel: uv_cancel of an operation the pool has not begun, or an  *)
(* error that changes nothing.                                             *)
Cancel(r) ==
    /\ users[r] > 0
    /\ \E c \in flight[r] :
          /\ context[c].op.cancels
          /\ cancelled' = cancelled \cup {c}
    /\ UNCHANGED <<users, data, flight, owns, context, dirents, dealing,
                    released, misfreed>>

(* fs_t::cleanup, by the program, of a request libuv is not at work on.    *)
CleanupByHand(r) ==
    /\ users[r] > 0
    /\ Idle(r) /\ owns[r] # NoCall /\ ~InOwnHandler(r)
    /\ Cleanup(r)
    /\ UNCHANGED <<users, data, flight, cancelled, context, dirents, dealing>>

-----------------------------------------------------------------------------
(* Mistake: data->finalize comes before the answer.                        *)
RespondCleaned(r, c) ==
    /\ dealing = NoCall
    /\ c \in flight[r]
    /\ flight' = [flight EXCEPT ![r] = @ \ {c}]
    /\ data' = [data EXCEPT ![r] = NoCall]
    /\ dealing' = data[r]
    /\ context' = [context EXCEPT ![data[r]].stage = "answered",
                                  ![data[r]].answer = "resolved"]
    /\ owns' = [owns EXCEPT ![r] = NoCall]
    /\ UNCHANGED <<users, cancelled, dirents, released, misfreed>>

(* raw_callback up to the end of the handlers' run.  The context is the    *)
(* one found in req->data, not one that libuv carries for the call.        *)
Respond(r, c) ==
    /\ dealing = NoCall
    /\ c \in flight[r]
    /\ flight' = [flight EXCEPT ![r] = @ \ {c}]
    /\ cancelled' = cancelled \ {c}
    /\ IF Idle(r)
       THEN UNCHANGED <<data, context, dealing>>
       ELSE /\ data' = [data EXCEPT ![r] = NoCall]
            /\ dealing' = data[r]
            /\ \E a \in IF c \in cancelled THEN {"cancelled"} ELSE {"resolved", "rejected"} :
                  context' = [context EXCEPT ![data[r]].stage = "answered",
                                             ![data[r]].answer = a]
    /\ UNCHANGED <<users, owns, dirents, released, misfreed>>

(* Mistake: the promise is finalized while data->finalize is still to run. *)
FinishFirst ==
    /\ dealing # NoCall
    /\ context[dealing].stage = "answered"
    /\ context' = [context EXCEPT ![dealing].stage = "finished"]
    /\ UNCHANGED <<users, data, flight, cancelled, owns, dirents, dealing,
                    released, misfreed>>

(* data->finalize, then proxy.finalize, whose handlers run.                *)
Finish ==
    /\ dealing # NoCall
    /\ context[dealing].stage = "answered"
    /\ context' = [context EXCEPT ![dealing].stage = "finished"]
    /\ CASE context[dealing].op.frees = "request" -> Cleanup(context[dealing].req)
         [] context[dealing].op.frees = "result" ->
              released' = released \cup {dealing} /\ UNCHANGED <<owns, misfreed>>
         [] OTHER -> UNCHANGED <<owns, released, misfreed>>
    /\ UNCHANGED <<users, data, flight, cancelled, dirents, dealing>>

(* Mistake: raw_callback returns right after the answer.                   *)
ReleaseUnfinished ==
    /\ dealing # NoCall
    /\ context[dealing].stage = "answered"
    /\ context' = [context EXCEPT ![dealing].stage = "released"]
    /\ dealing' = NoCall
    /\ UNCHANGED <<users, data, flight, cancelled, owns, dirents, released, misfreed>>

(* Mistake: the context is kept for the next call.                         *)
ReleaseNothing ==
    /\ dealing # NoCall
    /\ context[dealing].stage = "finished"
    /\ dealing' = NoCall
    /\ UNCHANGED <<users, data, flight, cancelled, owns, context, dirents,
                    released, misfreed>>

(* delete_data, when raw_callback returns.                                 *)
Release ==
    /\ dealing # NoCall
    /\ context[dealing].stage = "finished"
    /\ context' = [context EXCEPT ![dealing].stage = "released"]
    /\ dealing' = NoCall
    /\ UNCHANGED <<users, data, flight, cancelled, owns, dirents, released, misfreed>>

Next ==
    \/ \E r \in Reqs : NewRequest(r) \/ Copy(r) \/ Drop(r) \/ Cancel(r) \/ CleanupByHand(r)
    \/ \E r \in Reqs, c \in Calls, op \in Ops :
          Call(r, c, op) \/ CallAnonymous(r, c, op) \/ CallFails(r, c, op)
                         \/ CallSync(r, c, op)
    \/ \E r \in Reqs, c \in Calls : Respond(r, c)
    \/ Finish
    \/ Release

SafeSpec == Init /\ [][Next]_vars

(* The loop runs until nothing is in flight, libuv calls back whatever it  *)
(* accepted however busy it is with other callbacks, and handlers return.  *)
Spec ==
    /\ SafeSpec
    /\ \A c \in Calls : SF_vars(\E r \in Reqs : Respond(r, c))
    /\ WF_vars(Finish \/ Release)
-----------------------------------------------------------------------------
(* The context that raw_callback finds in req->data is that of the call    *)
(* libuv is calling back for, and there is one if and only if libuv is at  *)
(* work on the request: no answer goes to the promise of another call, and *)
(* no call is made twice at once (data_t(), raw_callback, the callers).    *)
RightContext ==
    \A r \in Reqs : flight[r] = IF Idle(r) THEN {} ELSE {data[r]}

(* libuv never works on freed memory, whoever drops the request, at any    *)
(* time: the context keeps it (data_t::m_req).                             *)
RequestOutlivesUv == \A r \in Reqs : flight[r] # {} => Alive(r)

(* `uv_fs_req_cleanup` and `uv_freeaddrinfo` will be called before the     *)
(* `finally` of the promise (CHANGELOG.md:36): when the finally handlers   *)
(* run, and ever after, the results are released; nothing leaks.           *)
CleanupBeforeFinally ==
    \A c \in Calls :
        /\ context[c].stage \in {"finished", "released"}
        /\ context[c].answer # "none"
        /\ context[c].op.frees # "nothing"
        => c \in released

(* The handlers of an fs request that read what it gives them, through a   *)
(* pointer or a closure, read the results of their own call.               *)
HandlersCanRead ==
    /\ dealing # NoCall
    /\ context[dealing].stage = "answered"
    /\ context[dealing].answer = "resolved"
    /\ FsOp(context[dealing].op)
    => LET gives == context[dealing].op.gives IN
       /\ gives \in {"path", "ptr", "inside", "next", "entries"}
            => owns[context[dealing].req] = dealing
       /\ gives = "entries" => dirents = dealing

(* The memory of an operation is not released while libuv is at work on    *)
(* it, even when its request, or its directory, is used again in the       *)
(* handlers of the call before, as lifecycle.md allows for requests        *)
(* (fs::inner::callback_t::finalize, fs::readdir).                         *)
CleansNothingInUse == misfreed = {}

Abstract == INSTANCE AbstractRequest WITH stage <- [c \in Calls |-> context[c].stage]

(* Every call that returned a promise is answered once, finished once and  *)
(* released once, in this order, in the end (lifecycle.md, "Request").     *)
ImplementsRequest == Abstract!Spec

(* Its safety part, for runs and proofs without fairness.                  *)
ImplementsRequestSafety == Abstract!SafeSpec
=============================================================================
