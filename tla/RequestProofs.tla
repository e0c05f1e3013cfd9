---------------------------- MODULE RequestProofs ---------------------------
(***************************************************************************)
(* The safety properties of Request for any requests, operations and       *)
(* bounds, and that it implements AbstractRequest.  CInv says what         *)
(* req->data, the contexts and raw_callback agree on, and holds whatever   *)
(* the program calls; OInv says whose results a request owns, and needs    *)
(* that no handler uses its own fs request, or directory, again; MInv says *)
(* which calls a request may own results of, so that nothing is cleaned up *)
(* while libuv works on it.                                                *)
(***************************************************************************)
EXTENDS Request, TLAPS

Contexts == [stage : Stages, req : Reqs \cup {0}, op : Ops \cup {NoOp},
             answer : {"none", "resolved", "rejected", "cancelled"}]

(* Types, for the fields that the proofs speak of.                         *)
TypeOK ==
    /\ users \in [Reqs -> Nat]
    /\ data \in [Reqs -> Calls \cup {NoCall}]
    /\ flight \in [Reqs -> SUBSET Calls]
    /\ owns \in [Reqs -> Calls \cup {NoCall}]
    /\ dirents \in Calls \cup {NoCall}
    /\ context \in [Calls -> Contexts]
    /\ dealing \in Calls \cup {NoCall}

(* What is in req->data is what waits, and only for its own request.       *)
DataWaits ==
    /\ \A r \in Reqs : data[r] # NoCall =>
          context[data[r]].stage = "waiting" /\ context[data[r]].req = r
    /\ \A c \in Calls : context[c].stage = "waiting" =>
          context[c].req \in Reqs /\ data[context[c].req] = c

(* raw_callback deals with one context from its answer to its end.         *)
OneDeal ==
    /\ \A c \in Calls : context[c].stage \in {"answered", "finished"} =>
          c = dealing /\ context[c].req \in Reqs
    /\ dealing # NoCall => context[dealing].stage \in {"answered", "finished"}
    /\ \A c \in Calls : context[c].stage = "unmade" => context[c].answer = "none"

CInv == TypeOK /\ RightContext /\ DataWaits /\ OneDeal

(* Until its context is finished, an fs request owns the results of its    *)
(* call, and the directory has the buffer of its readdir.                  *)
Owned ==
    \A c \in Calls :
        context[c].stage \in {"waiting", "answered"} /\ FsOp(context[c].op) =>
            /\ owns[context[c].req] = c
            /\ ReadsDir(context[c].op) => dirents = c

OInv == CInv /\ Owned /\ CleanupBeforeFinally

-----------------------------------------------------------------------------
(* A call is not NoCall.                                                   *)
LEMMA CallsAreCalls == NoCall \notin Calls /\ Calls \subseteq Nat
  BY CallsAssumption DEF NoCall, Calls

(* What fs operations release is what the request owns.                    *)
LEMMA FsFrees == \A op \in FsOperations : op.frees = "request"
  BY DEF FsOperations, Fs, FsOpen, FsClose, FsRead, FsWrite, FsUnlink, FsMkdir,
     FsMkdtemp, FsMkstemp, FsRmdir, FsOpendir, FsClosedir, FsReaddir, FsScandir,
     FsStat, FsFstat, FsLstat, FsStatfs, FsRename, FsFsync, FsFdatasync,
     FsFtruncate, FsCopyfile, FsSendfile, FsAccess, FsChmod, FsFchmod, FsUtime,
     FsFutime, FsLutime, FsLink, FsSymlink, FsReadlink, FsRealpath, FsChown,
     FsFchown, FsLchown

(* Only fs operations read a directory.                                    *)
LEMMA ReadersAreFs == \A op \in Ops \cup {NoOp} : ReadsDir(op) => FsOp(op)
<1>1. \A op \in Operations \ FsOperations : op.gives # "entries"
  BY DEF Operations, QueueWork, Random, Getaddrinfo, Getnameinfo, OnHandle, Write,
     Write2, Shutdown, UdpSend, TcpConnect, PipeConnect2, PipeConnect
<1>2. NoOp.gives # "entries"
  BY DEF NoOp
<1> QED BY FsFrees, <1>1, <1>2, OpsAssumption DEF ReadsDir, FsOp

(* What Accepted, the common part of the calls that libuv accepts, keeps.  *)
LEMMA AcceptedKeepsCInv ==
    ASSUME CInv, NEW r \in Reqs, NEW c \in Calls, NEW op \in Ops,
           Fresh(c), Idle(r), Accepted(r, c, op)
    PROVE  CInv'
<1> USE CallsAreCalls DEF CInv, Idle, Fresh
<1>1. /\ context' = [context EXCEPT ![c] = [stage |-> "waiting", req |-> r, op |-> op,
                                            answer |-> "none"]]
      /\ data' = [data EXCEPT ![r] = c]
      /\ flight' = [flight EXCEPT ![r] = @ \cup {c}]
      /\ dealing' = dealing /\ users' = users
      /\ owns' \in [Reqs -> Calls \cup {NoCall}] /\ dirents' \in Calls \cup {NoCall}
  BY DEF Accepted, TypeOK
<1>2. TypeOK'
  BY <1>1 DEF TypeOK, Contexts, Stages
<1>3. RightContext'
  BY <1>1 DEF TypeOK, RightContext
<1>4. DataWaits'
  BY <1>1 DEF TypeOK, DataWaits, Contexts
<1>5. OneDeal'
  BY <1>1 DEF TypeOK, OneDeal, Contexts
<1> QED BY <1>2, <1>3, <1>4, <1>5

(* A request that nobody shares is at no work and of no context.           *)
LEMMA DeadIsIdle ==
    ASSUME CInv, NEW r \in Reqs, ~Alive(r)
    PROVE  Idle(r) /\ \A c \in Calls : Live(c) => context[c].req # r
  BY DEF CInv, TypeOK, DataWaits, Alive, Live, Idle

(* What libuv is at work on is in req->data, and waits.                    *)
LEMMA FlightIsData ==
    ASSUME CInv, NEW r \in Reqs, NEW c \in flight[r]
    PROVE  /\ ~Idle(r) /\ c = data[r] /\ flight[r] = {c}
           /\ context[c].stage = "waiting" /\ context[c].req = r
<1>1. flight[r] = IF Idle(r) THEN {} ELSE {data[r]}
  BY DEF CInv, RightContext
<1>2. ~Idle(r) /\ c = data[r] /\ flight[r] = {c}
  BY <1>1
<1> QED BY <1>2 DEF CInv, DataWaits, Idle

(* Steps that make or drop no context, nor put one into a request, keep    *)
(* the invariant.                                                          *)
LEMMA Elsewhere ==
    ASSUME CInv, UNCHANGED <<data, flight, context, dealing>>,
           (users \in [Reqs -> Nat])', (owns \in [Reqs -> Calls \cup {NoCall}])',
           (dirents \in Calls \cup {NoCall})'
    PROVE  CInv'
  BY DEF CInv, TypeOK, RightContext, Idle, DataWaits, OneDeal

LEMMA CleanupType ==
    ASSUME CInv, NEW r, Cleanup(r)
    PROVE  owns' \in [Reqs -> Calls \cup {NoCall}]
  BY CallsAreCalls DEF CInv, TypeOK, Cleanup

(* What req->data, contexts and raw_callback agree on, whatever is called. *)
THEOREM CInvHolds == SafeSpec => []CInv
<1>1. Init => CInv
  BY CallsAreCalls DEF Init, CInv, TypeOK, RightContext, Idle, DataWaits, OneDeal, Contexts, Stages
<1>2. CInv /\ [Next]_vars => CInv'
  <2> SUFFICES ASSUME CInv, [Next]_vars PROVE CInv'
    OBVIOUS
  <2> USE CallsAreCalls
  <2>1. ASSUME NEW r \in Reqs, NewRequest(r) PROVE CInv'
    <3>1. Idle(r)
      BY <2>1, DeadIsIdle DEF NewRequest
    <3>2. data' = data
      BY <2>1, <3>1 DEF NewRequest, Idle, CInv, TypeOK
    <3> QED BY <2>1, <3>2, Elsewhere DEF NewRequest, CInv, TypeOK
  <2>2. ASSUME NEW r \in Reqs, Copy(r) \/ Drop(r) \/ Cancel(r) PROVE CInv'
    <3>1. users' \in [Reqs -> Nat]
      BY <2>2 DEF Copy, Drop, Cancel, CInv, TypeOK
    <3> QED BY <2>2, <3>1, Elsewhere DEF Copy, Drop, Cancel, CInv, TypeOK
  <2>3. ASSUME NEW r \in Reqs, CleanupByHand(r) PROVE CInv'
    BY <2>3, CleanupType, Elsewhere DEF CleanupByHand, CInv, TypeOK
  <2>4. ASSUME NEW r \in Reqs, NEW c \in Calls, NEW op \in Ops, Call(r, c, op) PROVE CInv'
    BY <2>4, AcceptedKeepsCInv DEF Call
  <2>5. ASSUME NEW r \in Reqs, NEW c \in Calls, NEW op \in Ops, CallAnonymous(r, c, op)
        PROVE CInv'
    BY <2>5, DeadIsIdle, AcceptedKeepsCInv DEF CallAnonymous
  <2>6. ASSUME NEW r \in Reqs, NEW c \in Calls, NEW op \in Ops,
               CallFails(r, c, op) \/ CallSync(r, c, op)
        PROVE CInv'
    <3>1. /\ context' = [context EXCEPT ![c].stage = "released"]
          /\ context[c].stage = "unmade"
          /\ UNCHANGED <<users, data, flight, dealing>>
          /\ owns' \in [Reqs -> Calls \cup {NoCall}]
          /\ dirents' \in Calls \cup {NoCall}
      BY <2>6 DEF CallFails, CallSync, Fresh, CInv, TypeOK
    <3>2. context' \in [Calls -> Contexts]
      BY <3>1 DEF CInv, TypeOK, Contexts, Stages
    <3>3. /\ context'[c].stage = "released"
          /\ \A d \in Calls : d # c => context'[d] = context[d]
          /\ \A d \in Calls : /\ context'[d].req = context[d].req
                              /\ context'[d].answer = context[d].answer
      BY <3>1 DEF CInv, TypeOK, Contexts
    <3>4. TypeOK' /\ RightContext'
      BY <3>1, <3>2 DEF CInv, TypeOK, RightContext, Idle
    <3>5. DataWaits'
      BY <3>1, <3>3 DEF CInv, TypeOK, DataWaits
    <3>6. OneDeal'
      BY <3>1, <3>3 DEF CInv, TypeOK, OneDeal
    <3> QED BY <3>4, <3>5, <3>6 DEF CInv
  <2>7. ASSUME NEW r \in Reqs, NEW c \in Calls, Respond(r, c) PROVE CInv'
    <3>1. ~Idle(r) /\ c = data[r] /\ flight[r] = {c} /\ context[c].req = r
      BY <2>7, FlightIsData DEF Respond
    <3>2. PICK a \in {"cancelled", "resolved", "rejected"} :
             /\ context' = [context EXCEPT ![c].stage = "answered", ![c].answer = a]
             /\ data' = [data EXCEPT ![r] = NoCall]
             /\ flight' = [flight EXCEPT ![r] = @ \ {c}]
             /\ dealing' = c /\ dealing = NoCall
             /\ UNCHANGED <<users, owns, dirents>>
      BY <2>7, <3>1 DEF Respond
    <3>3. context' \in [Calls -> Contexts]
      BY <3>2 DEF CInv, TypeOK, Contexts, Stages
    <3>4. /\ context'[c].stage = "answered"
          /\ \A d \in Calls : d # c => context'[d] = context[d]
          /\ \A d \in Calls : context'[d].req = context[d].req
      BY <3>2 DEF CInv, TypeOK, Contexts
    <3>5. TypeOK' /\ RightContext'
      BY <3>1, <3>2, <3>3 DEF CInv, TypeOK, RightContext, Idle
    <3>6. DataWaits'
      BY <3>1, <3>2, <3>4 DEF CInv, TypeOK, DataWaits
    <3>7. OneDeal'
      BY <3>1, <3>2, <3>4 DEF CInv, TypeOK, OneDeal
    <3> QED BY <3>5, <3>6, <3>7 DEF CInv
  <2>8. CASE Finish
    <3>1. /\ context' = [context EXCEPT ![dealing].stage = "finished"]
          /\ dealing \in Calls /\ context[dealing].stage = "answered"
          /\ UNCHANGED <<users, data, flight, dirents, dealing>>
      BY <2>8 DEF Finish, CInv, TypeOK
    <3>2. owns' \in [Reqs -> Calls \cup {NoCall}]
      BY <2>8, CleanupType DEF Finish, CInv, TypeOK
    <3>3. context' \in [Calls -> Contexts]
      BY <3>1 DEF CInv, TypeOK, Contexts, Stages
    <3>4. /\ context'[dealing].stage = "finished"
          /\ \A d \in Calls : d # dealing => context'[d] = context[d]
          /\ \A d \in Calls : context'[d].req = context[d].req
      BY <3>1 DEF CInv, TypeOK, Contexts
    <3>5. TypeOK' /\ RightContext'
      BY <3>1, <3>2, <3>3 DEF CInv, TypeOK, RightContext, Idle
    <3>6. DataWaits'
      BY <3>1, <3>4 DEF CInv, TypeOK, DataWaits
    <3>7. OneDeal'
      BY <3>1, <3>4 DEF CInv, TypeOK, OneDeal
    <3> QED BY <3>5, <3>6, <3>7 DEF CInv
  <2>9. CASE Release
    <3>1. /\ context' = [context EXCEPT ![dealing].stage = "released"]
          /\ dealing \in Calls /\ context[dealing].stage = "finished"
          /\ dealing' = NoCall
          /\ UNCHANGED <<users, data, flight, dirents, owns>>
      BY <2>9 DEF Release, CInv, TypeOK
    <3>2. context' \in [Calls -> Contexts]
      BY <3>1 DEF CInv, TypeOK, Contexts, Stages
    <3>3. /\ context'[dealing].stage = "released"
          /\ \A d \in Calls : d # dealing => context'[d] = context[d]
      BY <3>1 DEF CInv, TypeOK, Contexts
    <3>4. TypeOK' /\ RightContext'
      BY <3>1, <3>2 DEF CInv, TypeOK, RightContext, Idle
    <3>5. DataWaits'
      BY <3>1, <3>3 DEF CInv, TypeOK, DataWaits
    <3>6. OneDeal'
      BY <3>1, <3>3 DEF CInv, TypeOK, OneDeal
    <3> QED BY <3>4, <3>5, <3>6 DEF CInv
  <2>10. CASE UNCHANGED vars
    BY <2>10, Elsewhere DEF vars, CInv, TypeOK
  <2> QED BY <2>1, <2>2, <2>3, <2>4, <2>5, <2>6, <2>7, <2>8, <2>9, <2>10 DEF Next
<1> QED BY <1>1, <1>2, PTL DEF SafeSpec

(* Types, for any requests, operations and bounds.                         *)
THEOREM TypeCorrect == SafeSpec => []TypeOK
<1>1. CInv => TypeOK
  BY DEF CInv
<1> QED BY <1>1, CInvHolds, PTL

(* raw_callback finds the context of the call it is called back for, and   *)
(* a request is used by one call at a time, whatever the handlers call.    *)
THEOREM RightContextHolds == SafeSpec => []RightContext
<1>1. CInv => RightContext
  BY DEF CInv
<1> QED BY <1>1, CInvHolds, PTL

(* The memory of a request that libuv works on is alive, whoever drops it. *)
THEOREM RequestOutlivesUvHolds == SafeSpec => []RequestOutlivesUv
<1>1. CInv => RequestOutlivesUv
  BY CallsAreCalls DEF CInv, TypeOK, RightContext, DataWaits, RequestOutlivesUv, Alive, Live, Idle
<1> QED BY <1>1, CInvHolds, PTL

-----------------------------------------------------------------------------
(* Steps that make no context wait or be answered, and take from no        *)
(* request what such a context wants, keep what is owned.                  *)
LEMMA OwnedElsewhere ==
    ASSUME CInv, Owned,
           \A c \in Calls : context'[c].stage \in {"waiting", "answered"} =>
              /\ context[c].stage \in {"waiting", "answered"}
              /\ context'[c].req = context[c].req /\ context'[c].op = context[c].op
              /\ FsOp(context[c].op) => owns'[context[c].req] = owns[context[c].req],
           dirents' = dirents
    PROVE  Owned'
<1> SUFFICES ASSUME NEW c \in Calls,
                    context'[c].stage \in {"waiting", "answered"}, FsOp(context'[c].op)
             PROVE  owns'[context'[c].req] = c /\ (ReadsDir(context'[c].op) => dirents' = c)
  BY DEF Owned, FsOp, ReadsDir
<1>1. /\ context[c].stage \in {"waiting", "answered"}
      /\ context'[c].req = context[c].req /\ context'[c].op = context[c].op
  OBVIOUS
<1>2. FsOp(context[c].op)
  BY <1>1 DEF FsOp
<1>3. owns[context[c].req] = c /\ (ReadsDir(context[c].op) => dirents = c)
  BY <1>1, <1>2 DEF Owned
<1> QED BY <1>1, <1>2, <1>3 DEF ReadsDir

(* Results that were released stay so, and a context that is done has none *)
(* to release but those it had when it was finished.                       *)
LEMMA CleanElsewhere ==
    ASSUME CleanupBeforeFinally, released \subseteq released',
           \A c \in Calls :
              context'[c].stage \in {"finished", "released"} /\ context'[c].answer # "none" =>
                 /\ context[c].stage \in {"finished", "released"}
                 /\ context'[c].op = context[c].op /\ context'[c].answer = context[c].answer
    PROVE  CleanupBeforeFinally'
  BY DEF CleanupBeforeFinally

(* The calls that libuv accepts.                                           *)
LEMMA AcceptedKeepsOInv ==
    ASSUME OInv, ~ReuseInHandler, NEW r \in Reqs, NEW c \in Calls, NEW op \in Ops,
           Fresh(c), Idle(r), Accepted(r, c, op),
           InOwnHandler(r) => ~FsOp(op), ReadsDir(op) => DirectoryFree
    PROVE  Owned' /\ CleanupBeforeFinally'
<1> USE CallsAreCalls DEF OInv, CInv
<1>1. /\ context' = [context EXCEPT ![c] = [stage |-> "waiting", req |-> r, op |-> op,
                                            answer |-> "none"]]
      /\ owns' = IF FsOp(op) THEN [owns EXCEPT ![r] = c] ELSE owns
      /\ dirents' = IF ReadsDir(op) THEN c ELSE dirents
      /\ released' = released
  BY DEF Accepted
<1>2. /\ context'[c] = [stage |-> "waiting", req |-> r, op |-> op, answer |-> "none"]
      /\ \A d \in Calls : d # c => context'[d] = context[d]
  BY <1>1 DEF TypeOK
<1>3. CleanupBeforeFinally'
  BY <1>1, <1>2, CleanElsewhere
<1>4. ReadsDir(op) => FsOp(op)
  BY ReadersAreFs
<1>5. ASSUME NEW d \in Calls, d # c, context[d].stage \in {"waiting", "answered"},
             FsOp(context[d].op), FsOp(op)
      PROVE  context[d].req # r
  <2>1. CASE context[d].stage = "waiting"
    BY <2>1 DEF DataWaits, Idle
  <2>2. CASE context[d].stage = "answered"
    BY <1>5, <2>2 DEF OneDeal, InOwnHandler
  <2> QED BY <1>5, <2>1, <2>2
<1>6. ASSUME NEW d \in Calls, d # c, context[d].stage \in {"waiting", "answered"},
             ReadsDir(op)
      PROVE  ~ReadsDir(context[d].op)
  BY <1>6 DEF DirectoryFree
<1>7. Owned'
  <2> SUFFICES ASSUME NEW d \in Calls,
                      context'[d].stage \in {"waiting", "answered"}, FsOp(context'[d].op)
               PROVE  /\ owns'[context'[d].req] = d
                      /\ ReadsDir(context'[d].op) => dirents' = d
    BY DEF Owned, FsOp, ReadsDir
  <2>1. CASE d = c
    BY <1>1, <1>2, <1>4, <2>1 DEF TypeOK, FsOp, ReadsDir
  <2>2. CASE d # c
    <3>1. context'[d] = context[d]
      BY <1>2, <2>2
    <3>2. FsOp(context[d].op) /\ context[d].stage \in {"waiting", "answered"}
      BY <3>1 DEF FsOp
    <3>3. owns[context[d].req] = d /\ (ReadsDir(context[d].op) => dirents = d)
      BY <3>2 DEF Owned
    <3>4. owns'[context[d].req] = d
      BY <1>1, <1>5, <2>2, <3>2, <3>3 DEF TypeOK
    <3>5. ReadsDir(context[d].op) => dirents' = d
      BY <1>1, <1>6, <2>2, <3>2, <3>3
    <3> QED BY <3>1, <3>4, <3>5 DEF ReadsDir
  <2> QED BY <2>1, <2>2
<1> QED BY <1>3, <1>7

(* The calls that fail: no context that waits, or whose handlers run, has  *)
(* the request they reset or the directory they point elsewhere.           *)
LEMMA FailedKeepsOInv ==
    ASSUME OInv, ~ReuseInHandler, NEW r \in Reqs, NEW c \in Calls, NEW op \in Ops,
           CallFails(r, c, op)
    PROVE  Owned' /\ CleanupBeforeFinally'
<1> USE CallsAreCalls DEF OInv, CInv
<1>1. /\ context' = [context EXCEPT ![c].stage = "released"]
      /\ context[c].stage = "unmade" /\ context[c].answer = "none"
      /\ owns' = IF FsOp(op) THEN [owns EXCEPT ![r] = NoCall] ELSE owns
      /\ dirents' = IF ReadsDir(op) THEN c ELSE dirents
      /\ released' = released
      /\ Idle(r) /\ (FsOp(op) => ~InOwnHandler(r)) /\ (ReadsDir(op) => DirectoryFree)
  BY DEF CallFails, Fresh, OneDeal
<1>2. /\ context'[c].stage = "released" /\ context'[c].answer = "none"
      /\ \A d \in Calls : d # c => context'[d] = context[d]
  BY <1>1 DEF TypeOK, Contexts
<1>3. CleanupBeforeFinally'
  BY <1>1, <1>2, CleanElsewhere
<1>4. ASSUME NEW d \in Calls, context'[d].stage \in {"waiting", "answered"},
             FsOp(context'[d].op)
      PROVE  /\ owns'[context'[d].req] = d
             /\ ReadsDir(context'[d].op) => dirents' = d
  <2>1. context'[d] = context[d]
    BY <1>2, <1>4
  <2>2. context[d].stage \in {"waiting", "answered"} /\ FsOp(context[d].op)
    BY <1>4, <2>1 DEF FsOp
  <2>3. owns[context[d].req] = d /\ (ReadsDir(context[d].op) => dirents = d)
    BY <2>2 DEF Owned
  <2>4. FsOp(op) => context[d].req # r
    <3>1. CASE context[d].stage = "waiting"
      BY <1>1, <3>1 DEF DataWaits, Idle
    <3>2. CASE context[d].stage = "answered"
      BY <1>1, <2>2, <3>2 DEF OneDeal, InOwnHandler
    <3> QED BY <2>2, <3>1, <3>2
  <2>5. owns'[context[d].req] = d
    <3>1. context[d].req \in Reqs
      BY <2>2 DEF DataWaits, OneDeal
    <3> QED BY <1>1, <2>3, <2>4, <3>1 DEF TypeOK
  <2>6. ReadsDir(context[d].op) => dirents' = d
    BY <1>1, <2>2, <2>3 DEF DirectoryFree
  <2> QED BY <2>1, <2>5, <2>6 DEF ReadsDir
<1>5. Owned'
  BY <1>4 DEF Owned, FsOp, ReadsDir
<1> QED BY <1>3, <1>5

(* The cleanup, or uv_freeaddrinfo, of the context that is dealt with.     *)
LEMMA FinishKeepsOInv ==
    ASSUME OInv, Finish
    PROVE  Owned' /\ CleanupBeforeFinally'
<1> USE CallsAreCalls DEF OInv, CInv
<1> DEFINE q == context[dealing].req
<1>1. /\ context' = [context EXCEPT ![dealing].stage = "finished"]
      /\ dealing \in Calls /\ context[dealing].stage = "answered" /\ q \in Reqs
      /\ dirents' = dirents
  BY DEF Finish, TypeOK, OneDeal
<1>2. /\ context'[dealing].stage = "finished"
      /\ \A d \in Calls : d # dealing => context'[d] = context[d]
      /\ \A d \in Calls : /\ context'[d].op = context[d].op
                          /\ context'[d].answer = context[d].answer
  BY <1>1 DEF TypeOK, Contexts
<1>3. FsOp(context[dealing].op) =>
        /\ owns[q] = dealing
        /\ owns' = [owns EXCEPT ![q] = NoCall]
        /\ released' = released \cup {dealing}
  <2> SUFFICES ASSUME FsOp(context[dealing].op)
               PROVE  /\ owns[q] = dealing
                      /\ owns' = [owns EXCEPT ![q] = NoCall]
                      /\ released' = released \cup {dealing}
    OBVIOUS
  <2>1. owns[q] = dealing /\ (ReadsDir(context[dealing].op) => dirents = dealing)
    BY <1>1 DEF Owned
  <2>2. Cleanup(q)
    BY DEF Finish, FsOp
  <2> QED BY <1>1, <2>1, <2>2 DEF Cleanup
<1>4. ~FsOp(context[dealing].op) =>
        /\ owns' = owns
        /\ released \subseteq released'
        /\ context[dealing].op.frees # "nothing" => dealing \in released'
  <2>1. context[dealing].op.frees \in {"result", "nothing", "request"}
    <3>1. \A op \in FsOperations : op.frees = "request"
      BY FsFrees
    <3>2. \A op \in Operations \ FsOperations : op.frees \in {"result", "nothing"}
      BY DEF Operations, QueueWork, Random, Getaddrinfo, Getnameinfo, OnHandle, Write,
         Write2, Shutdown, UdpSend, TcpConnect, PipeConnect2, PipeConnect
    <3>3. context[dealing].op \in Ops \cup {NoOp}
      BY <1>1 DEF TypeOK, Contexts
    <3> QED BY <3>1, <3>2, <3>3, OpsAssumption DEF NoOp
  <2> QED BY <2>1 DEF Finish, FsOp
<1>5. CleanupBeforeFinally'
  BY <1>2, <1>3, <1>4 DEF CleanupBeforeFinally, FsOp
<1>6. Owned'
  <2>1. ASSUME NEW d \in Calls, context'[d].stage \in {"waiting", "answered"}
        PROVE  /\ context'[d] = context[d]
               /\ FsOp(context[d].op) => owns'[context[d].req] = owns[context[d].req]
    <3>1. d # dealing /\ context'[d] = context[d]
      BY <1>2, <2>1
    <3>2. FsOp(context[d].op) => owns[context[d].req] = d
      BY <2>1, <3>1 DEF Owned
    <3>3. context[d].req \in Reqs
      BY <2>1, <3>1 DEF DataWaits, OneDeal
    <3> QED BY <1>3, <1>4, <3>1, <3>2, <3>3 DEF TypeOK
  <2> QED BY <1>1, <2>1, OwnedElsewhere
<1> QED BY <1>5, <1>6

(* The owner of the results, if no handler uses its own fs request again.  *)
THEOREM OInvHolds ==
    ASSUME ~ReuseInHandler
    PROVE  SafeSpec => []OInv
<1> USE CallsAreCalls
<1>1. Init => Owned /\ CleanupBeforeFinally
  BY DEF Init, Owned, CleanupBeforeFinally
<1>2. OInv /\ [Next]_vars => (Owned /\ CleanupBeforeFinally)'
  <2> SUFFICES ASSUME OInv, [Next]_vars PROVE Owned' /\ CleanupBeforeFinally'
    OBVIOUS
  <2> USE DEF OInv
  <2>1. ASSUME NEW r \in Reqs, NewRequest(r) PROVE Owned' /\ CleanupBeforeFinally'
    <3>1. \A c \in Calls : Live(c) => context[c].req # r
      BY <2>1, DeadIsIdle DEF NewRequest
    <3>2. context' = context /\ dirents' = dirents /\ released' = released
      BY <2>1 DEF NewRequest
    <3>3. \A q \in Reqs \cup {0} : q # r => owns'[q] = owns[q]
      BY <2>1, CallsAssumption DEF NewRequest, CInv, TypeOK
    <3>4. \A c \in Calls : context[c].req \in Reqs \cup {0}
      BY DEF CInv, TypeOK, Contexts
    <3> QED BY <3>1, <3>2, <3>3, <3>4, OwnedElsewhere, CleanElsewhere DEF Live
  <2>2. ASSUME NEW r \in Reqs, Copy(r) \/ Drop(r) \/ Cancel(r)
        PROVE  Owned' /\ CleanupBeforeFinally'
    <3>1. UNCHANGED <<context, dirents, released, owns>>
      BY <2>2 DEF Copy, Drop, Cancel
    <3> QED BY <3>1, OwnedElsewhere, CleanElsewhere
  <2>3. ASSUME NEW r \in Reqs, CleanupByHand(r) PROVE Owned' /\ CleanupBeforeFinally'
    <3>1. /\ UNCHANGED <<context, dirents>> /\ released \subseteq released'
          /\ owns' = [owns EXCEPT ![r] = NoCall]
      BY <2>3 DEF CleanupByHand, Cleanup
    <3>2. ASSUME NEW c \in Calls, context[c].stage \in {"waiting", "answered"},
                 FsOp(context[c].op)
          PROVE  context[c].req # r
      <4>1. CASE context[c].stage = "waiting"
        BY <2>3, <4>1 DEF CleanupByHand, CInv, DataWaits, Idle
      <4>2. CASE context[c].stage = "answered"
        BY <2>3, <3>2, <4>2 DEF CleanupByHand, CInv, OneDeal, InOwnHandler
      <4> QED BY <3>2, <4>1, <4>2
    <3>3. \A q \in Reqs \cup {0} : q # r => owns'[q] = owns[q]
      BY <3>1 DEF CInv, TypeOK
    <3>4. \A c \in Calls : context[c].req \in Reqs \cup {0}
      BY DEF CInv, TypeOK, Contexts
    <3> QED BY <3>1, <3>2, <3>3, <3>4, OwnedElsewhere, CleanElsewhere
  <2>4. ASSUME NEW r \in Reqs, NEW c \in Calls, NEW op \in Ops,
               Call(r, c, op) \/ CallAnonymous(r, c, op)
        PROVE  Owned' /\ CleanupBeforeFinally'
    <3>1. Fresh(c) /\ Accepted(r, c, op) /\ (ReadsDir(op) => DirectoryFree)
      BY <2>4 DEF Call, CallAnonymous
    <3>2. Idle(r)
      BY <2>4, DeadIsIdle DEF Call, CallAnonymous
    <3>3. InOwnHandler(r) => ~FsOp(op)
      <4>1. CASE Call(r, c, op)
        BY <4>1 DEF Call
      <4>2. CASE CallAnonymous(r, c, op)
        BY <4>2, DeadIsIdle DEF CallAnonymous, InOwnHandler, Live, CInv, TypeOK
      <4> QED BY <2>4, <4>1, <4>2
    <3> QED BY <3>1, <3>2, <3>3, AcceptedKeepsOInv
  <2>5. ASSUME NEW r \in Reqs, NEW c \in Calls, NEW op \in Ops, CallFails(r, c, op)
        PROVE  Owned' /\ CleanupBeforeFinally'
    BY <2>5, FailedKeepsOInv
  <2>6. ASSUME NEW r \in Reqs, NEW c \in Calls, NEW op \in Ops, CallSync(r, c, op)
        PROVE  Owned' /\ CleanupBeforeFinally'
    <3>1. /\ context' = [context EXCEPT ![c].stage = "released"]
          /\ context[c].stage = "unmade" /\ context[c].answer = "none"
          /\ owns' = [owns EXCEPT ![r] = c]
          /\ UNCHANGED <<dirents, released>>
          /\ Idle(r) /\ ~InOwnHandler(r)
      BY <2>6 DEF CallSync, Fresh, CInv, OneDeal
    <3>2. /\ context'[c].stage = "released" /\ context'[c].answer = "none"
          /\ \A d \in Calls : d # c => context'[d] = context[d]
      BY <3>1 DEF CInv, TypeOK, Contexts
    <3>3. ASSUME NEW d \in Calls, context[d].stage \in {"waiting", "answered"},
                 FsOp(context[d].op)
          PROVE  context[d].req # r
      <4>1. CASE context[d].stage = "waiting"
        BY <3>1, <4>1 DEF CInv, DataWaits, Idle
      <4>2. CASE context[d].stage = "answered"
        BY <3>1, <3>3, <4>2 DEF CInv, OneDeal, InOwnHandler
      <4> QED BY <3>3, <4>1, <4>2
    <3>4. \A d \in Calls : context[d].req \in Reqs \cup {0}
      BY DEF CInv, TypeOK, Contexts
    <3>5. \A q \in Reqs \cup {0} : q # r => owns'[q] = owns[q]
      BY <3>1 DEF CInv, TypeOK
    <3>6. Owned'
      BY <3>1, <3>2, <3>3, <3>4, <3>5, OwnedElsewhere
    <3>7. CleanupBeforeFinally'
      BY <3>1, <3>2, CleanElsewhere
    <3> QED BY <3>6, <3>7
  <2>7. ASSUME NEW r \in Reqs, NEW c \in Calls, Respond(r, c)
        PROVE  Owned' /\ CleanupBeforeFinally'
    <3>1. c \in flight[r] /\ UNCHANGED <<owns, dirents, released>>
      BY <2>7 DEF Respond
    <3>2. ~Idle(r) /\ c = data[r] /\ context[c].stage = "waiting"
      BY <3>1, FlightIsData
    <3>3. \E a \in {"cancelled", "resolved", "rejected"} :
             context' = [context EXCEPT ![c].stage = "answered", ![c].answer = a]
      BY <2>7, <3>2 DEF Respond
    <3>4. /\ context'[c].stage = "answered"
          /\ \A d \in Calls : d # c => context'[d] = context[d]
          /\ \A d \in Calls : context'[d].req = context[d].req /\ context'[d].op = context[d].op
      BY <3>3 DEF CInv, TypeOK, Contexts
    <3>5. Owned'
      BY <3>1, <3>2, <3>4, OwnedElsewhere
    <3>6. CleanupBeforeFinally'
      BY <3>1, <3>2, <3>4, CleanElsewhere
    <3> QED BY <3>5, <3>6
  <2>8. CASE Finish
    BY <2>8, FinishKeepsOInv
  <2>9. CASE Release
    <3>1. /\ context' = [context EXCEPT ![dealing].stage = "released"]
          /\ dealing \in Calls /\ context[dealing].stage = "finished"
          /\ UNCHANGED <<owns, dirents, released>>
      BY <2>9 DEF Release, CInv, TypeOK
    <3>2. /\ context'[dealing].stage = "released"
          /\ \A d \in Calls : d # dealing => context'[d] = context[d]
          /\ \A d \in Calls : /\ context'[d].op = context[d].op
                              /\ context'[d].answer = context[d].answer
      BY <3>1 DEF CInv, TypeOK, Contexts
    <3>3. Owned'
      BY <3>1, <3>2, OwnedElsewhere
    <3>4. CleanupBeforeFinally'
      BY <3>1, <3>2, CleanElsewhere
    <3> QED BY <3>3, <3>4
  <2>10. CASE UNCHANGED vars
    BY <2>10, OwnedElsewhere, CleanElsewhere DEF vars
  <2> QED BY <2>1, <2>2, <2>3, <2>4, <2>5, <2>6, <2>7, <2>8, <2>9, <2>10 DEF Next
<1>3. CInv /\ Owned /\ CleanupBeforeFinally => OInv
  BY DEF OInv
<1> QED BY <1>1, <1>2, <1>3, CInvHolds, PTL DEF SafeSpec

(* Unless a handler uses its own fs request again, the results of a call   *)
(* are released before its finally handlers run, and nothing leaks.        *)
THEOREM CleanupBeforeFinallyHolds ==
    ASSUME ~ReuseInHandler
    PROVE  SafeSpec => []CleanupBeforeFinally
<1>1. OInv => CleanupBeforeFinally
  BY DEF OInv
<1> QED BY <1>1, OInvHolds, PTL

(* And what the handlers are given to read is there while they run.        *)
THEOREM HandlersCanReadHolds ==
    ASSUME ~ReuseInHandler
    PROVE  SafeSpec => []HandlersCanRead
<1>1. OInv => HandlersCanRead
  <2> SUFFICES ASSUME OInv, dealing # NoCall, context[dealing].stage = "answered",
                      FsOp(context[dealing].op)
               PROVE  /\ owns[context[dealing].req] = dealing
                      /\ context[dealing].op.gives = "entries" => dirents = dealing
    BY DEF HandlersCanRead
  <2>1. dealing \in Calls
    BY DEF OInv, CInv, TypeOK
  <2> QED BY <2>1 DEF OInv, Owned, ReadsDir
<1> QED BY <1>1, OInvHolds, PTL

-----------------------------------------------------------------------------
(* What a request owns: the results of the call that it waits or is dealt  *)
(* with for, or those of a synchronous call, which nobody reads any more.  *)
OwnsItsOwn ==
    \A r \in Reqs : owns[r] # NoCall =>
        LET o == context[owns[r]] IN
        \/ o.stage \in {"waiting", "answered"} /\ o.req = r /\ FsOp(o.op)
        \/ o.stage = "released" /\ o.op = NoOp

UnmadeIsEmpty == \A c \in Calls : context[c].stage = "unmade" => context[c].op = NoOp

MInv == OInv /\ OwnsItsOwn /\ UnmadeIsEmpty /\ CleansNothingInUse

(* A step that gives no request anything to own, and takes what it owned   *)
(* from every request whose call it finishes.                              *)
LEMMA OwnsItsOwnElsewhere ==
    ASSUME CInv, OwnsItsOwn,
           \A r \in Reqs : owns'[r] # NoCall =>
              /\ owns'[r] = owns[r]
              /\ context'[owns[r]].req = context[owns[r]].req
              /\ context'[owns[r]].op = context[owns[r]].op
              /\ \/ context'[owns[r]].stage = context[owns[r]].stage
                 \/ context[owns[r]].stage = "waiting" /\ context'[owns[r]].stage = "answered"
    PROVE  OwnsItsOwn'
<1> SUFFICES ASSUME NEW r \in Reqs, owns'[r] # NoCall
             PROVE  LET o == context'[owns'[r]] IN
                    \/ o.stage \in {"waiting", "answered"} /\ o.req = r /\ FsOp(o.op)
                    \/ o.stage = "released" /\ o.op = NoOp
  BY DEF OwnsItsOwn, FsOp
<1> DEFINE o == context[owns[r]]
           p == context'[owns'[r]]
<1>1. /\ owns'[r] = owns[r] /\ p.req = o.req /\ p.op = o.op
      /\ p.stage = o.stage \/ (o.stage = "waiting" /\ p.stage = "answered")
  OBVIOUS
<1>2. \/ o.stage \in {"waiting", "answered"} /\ o.req = r /\ FsOp(o.op)
      \/ o.stage = "released" /\ o.op = NoOp
  BY <1>1 DEF OwnsItsOwn
<1> HIDE DEF o, p
<1>3. \/ p.stage \in {"waiting", "answered"} /\ p.req = r /\ FsOp(p.op)
      \/ p.stage = "released" /\ p.op = NoOp
  BY <1>1, <1>2 DEF FsOp
<1> QED BY <1>3 DEF p

(* What a call owns and libuv is not at work on can be released.           *)
LEMMA CleanupIsHarmless ==
    ASSUME CInv, CleansNothingInUse, NEW r \in Reqs, NEW c \in Calls, Cleanup(r),
           owns[r] = c, context[c].stage # "waiting",
           ReadsDir(context[c].op) => dirents = c
    PROVE  CleansNothingInUse' /\ owns' = [owns EXCEPT ![r] = NoCall]
<1>1. owns[r] # NoCall
  BY CallsAreCalls
<1>2. /\ owns' = [owns EXCEPT ![r] = NoCall]
      /\ misfreed' = misfreed \cup ({c} \cap UNION {flight[q] : q \in Reqs})
  BY <1>1 DEF Cleanup
<1>3. \A q \in Reqs : c \notin flight[q]
  BY FlightIsData
<1>4. {c} \cap UNION {flight[q] : q \in Reqs} = {}
  BY <1>3
<1> QED BY <1>2, <1>4 DEF CleansNothingInUse

(* The memory of an operation is not released while libuv is at work on    *)
(* it, unless a handler uses its own fs request, or directory, again: what *)
(* the run RequestReuse shows to fail is the only way to it.               *)
THEOREM CleansNothingInUseHolds ==
    ASSUME ~ReuseInHandler
    PROVE  SafeSpec => []CleansNothingInUse
<1> USE CallsAreCalls
<1>1. Init => OwnsItsOwn /\ UnmadeIsEmpty /\ CleansNothingInUse
  BY DEF Init, OwnsItsOwn, UnmadeIsEmpty, CleansNothingInUse
<1>2. MInv /\ [Next]_vars => (OwnsItsOwn /\ UnmadeIsEmpty /\ CleansNothingInUse)'
  <2> SUFFICES ASSUME MInv, [Next]_vars
               PROVE  (OwnsItsOwn /\ UnmadeIsEmpty /\ CleansNothingInUse)'
    OBVIOUS
  <2> DEFINE Kept == (OwnsItsOwn /\ UnmadeIsEmpty /\ CleansNothingInUse)'
  <2>0. /\ CInv /\ Owned /\ OwnsItsOwn /\ UnmadeIsEmpty /\ CleansNothingInUse
        /\ \A r \in Reqs : owns[r] \in Calls \cup {NoCall}
        /\ \A r \in Reqs, c \in Calls : context[c].stage = "unmade" => owns[r] # c
    BY DEF MInv, OInv, CInv, TypeOK, OwnsItsOwn
  <2>1. ASSUME NEW r \in Reqs, NewRequest(r) \/ Copy(r) \/ Drop(r) \/ Cancel(r) PROVE Kept
    <3>1. /\ UNCHANGED <<context, misfreed>>
          /\ owns' = owns \/ owns' = [owns EXCEPT ![r] = NoCall]
      BY <2>1 DEF NewRequest, Copy, Drop, Cancel
    <3>2. OwnsItsOwn'
      BY <2>0, <3>1, OwnsItsOwnElsewhere DEF CInv, TypeOK
    <3> QED BY <2>0, <3>1, <3>2 DEF UnmadeIsEmpty, CleansNothingInUse
  <2>2. ASSUME NEW r \in Reqs, CleanupByHand(r) PROVE Kept
    <3> DEFINE c == owns[r]
    <3>1. /\ UNCHANGED context /\ Cleanup(r) /\ Idle(r) /\ ~InOwnHandler(r) /\ c \in Calls
      BY <2>0, <2>2 DEF CleanupByHand
    <3>2. context[c].stage = "released" /\ context[c].op = NoOp
      <4>1. context[c].stage = "waiting" => context[c].req # r
        BY <2>0, <3>1 DEF CInv, DataWaits, Idle
      <4>2. context[c].stage = "answered" /\ context[c].req = r => ~FsOp(context[c].op)
        BY <2>0, <3>1 DEF CInv, OneDeal, InOwnHandler
      <4> QED BY <2>0, <3>1, <4>1, <4>2 DEF OwnsItsOwn
    <3>3. CleansNothingInUse' /\ owns' = [owns EXCEPT ![r] = NoCall]
      <4>1. ~ReadsDir(NoOp)
        BY DEF ReadsDir, NoOp
      <4> QED BY <2>0, <3>1, <3>2, <4>1, CleanupIsHarmless
    <3>4. OwnsItsOwn'
      BY <2>0, <3>1, <3>3, OwnsItsOwnElsewhere DEF CInv, TypeOK
    <3> QED BY <2>0, <3>1, <3>3, <3>4 DEF UnmadeIsEmpty
  <2>3. ASSUME NEW r \in Reqs, NEW c \in Calls, NEW op \in Ops,
               Call(r, c, op) \/ CallAnonymous(r, c, op)
        PROVE  Kept
    <3>1. context[c].stage = "unmade" /\ Accepted(r, c, op)
      BY <2>3 DEF Call, CallAnonymous, Fresh
    <3>2. /\ context' = [context EXCEPT ![c] = [stage |-> "waiting", req |-> r, op |-> op,
                                                answer |-> "none"]]
          /\ owns' = IF FsOp(op) THEN [owns EXCEPT ![r] = c] ELSE owns
          /\ misfreed' = misfreed
      BY <3>1 DEF Accepted
    <3>3. /\ context'[c] = [stage |-> "waiting", req |-> r, op |-> op, answer |-> "none"]
          /\ \A d \in Calls : d # c => context'[d] = context[d]
      BY <2>0, <3>2 DEF CInv, TypeOK
    <3>4. OwnsItsOwn'
      <4> SUFFICES ASSUME NEW q \in Reqs, owns'[q] # NoCall
                   PROVE  LET o == context'[owns'[q]] IN
                          \/ o.stage \in {"waiting", "answered"} /\ o.req = q /\ FsOp(o.op)
                          \/ o.stage = "released" /\ o.op = NoOp
        BY DEF OwnsItsOwn, FsOp
      <4>1. CASE q = r /\ FsOp(op)
        <5>1. owns'[q] = c
          BY <2>0, <3>2, <4>1 DEF CInv, TypeOK
        <5> QED BY <3>3, <4>1, <5>1 DEF FsOp
      <4>2. CASE ~(q = r /\ FsOp(op))
        <5>1. owns'[q] = owns[q] /\ owns[q] \in Calls /\ owns[q] # c
          BY <2>0, <3>1, <3>2, <4>2 DEF CInv, TypeOK
        <5>2. context'[owns'[q]] = context[owns[q]]
          BY <3>3, <5>1
        <5> QED BY <2>0, <5>1, <5>2 DEF OwnsItsOwn, FsOp
      <4> QED BY <4>1, <4>2
    <3> QED BY <2>0, <3>2, <3>3, <3>4 DEF UnmadeIsEmpty, CleansNothingInUse
  <2>4. ASSUME NEW r \in Reqs, NEW c \in Calls, NEW op \in Ops,
               CallFails(r, c, op) \/ CallSync(r, c, op)
        PROVE  Kept
    <3>1. /\ context' = [context EXCEPT ![c].stage = "released"]
          /\ context[c].stage = "unmade" /\ misfreed' = misfreed
          /\ owns' \in {owns, [owns EXCEPT ![r] = c], [owns EXCEPT ![r] = NoCall]}
      BY <2>4 DEF CallFails, CallSync, Fresh
    <3>2. /\ context'[c].stage = "released" /\ context'[c].op = NoOp
          /\ \A d \in Calls : d # c => context'[d] = context[d]
      BY <2>0, <3>1 DEF CInv, TypeOK, Contexts, UnmadeIsEmpty
    <3>3. OwnsItsOwn'
      <4> SUFFICES ASSUME NEW q \in Reqs, owns'[q] # NoCall
                   PROVE  LET o == context'[owns'[q]] IN
                          \/ o.stage \in {"waiting", "answered"} /\ o.req = q /\ FsOp(o.op)
                          \/ o.stage = "released" /\ o.op = NoOp
        BY DEF OwnsItsOwn, FsOp
      <4>1. owns'[q] = c \/ (owns'[q] = owns[q] /\ owns[q] # c /\ owns[q] \in Calls)
        BY <2>0, <3>1 DEF CInv, TypeOK
      <4>2. CASE owns'[q] = c
        BY <3>2, <4>2
      <4>3. CASE owns'[q] = owns[q] /\ owns[q] # c /\ owns[q] \in Calls
        <5>1. context'[owns'[q]] = context[owns[q]]
          BY <3>2, <4>3
        <5> QED BY <2>0, <4>3, <5>1 DEF OwnsItsOwn, FsOp
      <4> QED BY <4>1, <4>2, <4>3
    <3> QED BY <2>0, <3>1, <3>2, <3>3 DEF UnmadeIsEmpty, CleansNothingInUse
  <2>5. ASSUME NEW r \in Reqs, NEW c \in Calls, Respond(r, c) PROVE Kept
    <3>1. c \in flight[r] /\ UNCHANGED <<owns, misfreed>>
      BY <2>5 DEF Respond
    <3>2. ~Idle(r) /\ c = data[r] /\ context[c].stage = "waiting"
      BY <2>0, <3>1, FlightIsData
    <3>3. \E a \in {"cancelled", "resolved", "rejected"} :
             context' = [context EXCEPT ![c].stage = "answered", ![c].answer = a]
      BY <2>5, <3>2 DEF Respond
    <3>4. /\ context'[c].stage = "answered"
          /\ \A d \in Calls : d # c => context'[d] = context[d]
          /\ \A d \in Calls : context'[d].req = context[d].req /\ context'[d].op = context[d].op
      BY <2>0, <3>3 DEF CInv, TypeOK, Contexts
    <3>5. OwnsItsOwn'
      BY <2>0, <3>1, <3>2, <3>4, OwnsItsOwnElsewhere
    <3> QED BY <2>0, <3>1, <3>4, <3>5 DEF UnmadeIsEmpty, CleansNothingInUse
  <2>6. CASE Finish
    <3> DEFINE q == context[dealing].req
    <3>1. /\ context' = [context EXCEPT ![dealing].stage = "finished"]
          /\ dealing \in Calls /\ context[dealing].stage = "answered" /\ q \in Reqs
      BY <2>0, <2>6 DEF Finish, CInv, TypeOK, OneDeal
    <3>2. /\ context'[dealing].stage = "finished"
          /\ \A d \in Calls : d # dealing => context'[d] = context[d]
      BY <2>0, <3>1 DEF CInv, TypeOK, Contexts
    <3>3. CASE FsOp(context[dealing].op)
      <4>1. owns[q] = dealing /\ (ReadsDir(context[dealing].op) => dirents = dealing)
        BY <2>0, <3>1, <3>3 DEF Owned
      <4>2. Cleanup(q)
        BY <2>6, <3>3 DEF Finish, FsOp
      <4>3. CleansNothingInUse' /\ owns' = [owns EXCEPT ![q] = NoCall]
        BY <2>0, <3>1, <4>1, <4>2, CleanupIsHarmless
      <4>4. \A r \in Reqs : owns'[r] # NoCall => owns'[r] = owns[r] /\ owns[r] # dealing
        BY <2>0, <3>1, <4>3 DEF CInv, TypeOK, OwnsItsOwn
      <4>5. OwnsItsOwn'
        BY <2>0, <3>2, <4>4, OwnsItsOwnElsewhere
      <4> QED BY <2>0, <3>2, <4>3, <4>5 DEF UnmadeIsEmpty
    <3>4. CASE ~FsOp(context[dealing].op)
      <4>1. UNCHANGED <<owns, misfreed>>
        BY <2>6, <3>4 DEF Finish, FsOp
      <4>2. \A r \in Reqs : owns'[r] # NoCall => owns'[r] = owns[r] /\ owns[r] # dealing
        BY <2>0, <3>1, <3>4, <4>1 DEF OwnsItsOwn
      <4>3. OwnsItsOwn'
        BY <2>0, <3>2, <4>2, OwnsItsOwnElsewhere
      <4> QED BY <2>0, <3>2, <4>1, <4>3 DEF UnmadeIsEmpty, CleansNothingInUse
    <3> QED BY <3>3, <3>4
  <2>7. CASE Release
    <3>1. /\ context' = [context EXCEPT ![dealing].stage = "released"]
          /\ dealing \in Calls /\ context[dealing].stage = "finished"
          /\ UNCHANGED <<owns, misfreed>>
      BY <2>0, <2>7 DEF Release, CInv, TypeOK
    <3>2. /\ context'[dealing].stage = "released"
          /\ \A d \in Calls : d # dealing => context'[d] = context[d]
      BY <2>0, <3>1 DEF CInv, TypeOK, Contexts
    <3>3. \A r \in Reqs : owns[r] # dealing
      BY <2>0, <3>1 DEF OwnsItsOwn
    <3>4. OwnsItsOwn'
      BY <2>0, <3>1, <3>2, <3>3, OwnsItsOwnElsewhere
    <3> QED BY <2>0, <3>1, <3>2, <3>4 DEF UnmadeIsEmpty, CleansNothingInUse
  <2>8. CASE UNCHANGED vars
    BY <2>0, <2>8 DEF vars, OwnsItsOwn, UnmadeIsEmpty, CleansNothingInUse
  <2> QED BY <2>1, <2>2, <2>3, <2>4, <2>5, <2>6, <2>7, <2>8 DEF Next
<1>3. OInv /\ OwnsItsOwn /\ UnmadeIsEmpty /\ CleansNothingInUse => MInv
  BY DEF MInv
<1>4. MInv => CleansNothingInUse
  BY DEF MInv
<1> QED BY <1>1, <1>2, <1>3, <1>4, OInvHolds, PTL DEF SafeSpec

-----------------------------------------------------------------------------
(* What becomes of a context is what becomes of the abstract call: it is   *)
(* answered, finished and released once, in this order, whatever handlers  *)
(* call, drop or cancel meanwhile.                                         *)
THEOREM RefinesAbstract == SafeSpec => ImplementsRequestSafety
<1> DEFINE stage == [c \in Calls |-> context[c].stage]
<1> USE CallsAreCalls
<1>1. Init => Abstract!Init
  BY DEF Init, Abstract!Init
<1>2. CInv /\ [Next]_vars => [Abstract!Next]_stage
  <2> SUFFICES ASSUME CInv, [Next]_vars PROVE Abstract!Next \/ stage' = stage
    OBVIOUS
  <2>1. ASSUME NEW c \in Calls, NEW to, context'[c].stage = to,
               \A d \in Calls : d # c => context'[d].stage = context[d].stage
        PROVE  stage' = [stage EXCEPT ![c] = to]
    BY <2>1
  <2>2. ASSUME context' = context PROVE stage' = stage
    BY <2>2
  <2>3. ASSUME NEW r \in Reqs, NEW c \in Calls, NEW op \in Ops,
               Call(r, c, op) \/ CallAnonymous(r, c, op)
        PROVE  Abstract!Next
    <3>1. /\ context' = [context EXCEPT ![c] = [stage |-> "waiting", req |-> r, op |-> op,
                                                answer |-> "none"]]
          /\ context[c].stage = "unmade"
      BY <2>3 DEF Call, CallAnonymous, Accepted, Fresh
    <3>2. stage' = [stage EXCEPT ![c] = "waiting"] /\ stage[c] = "unmade"
      BY <3>1, <2>1 DEF CInv, TypeOK
    <3> QED BY <3>2 DEF Abstract!Next, Abstract!Make, Abstract!Step
  <2>4. ASSUME NEW r \in Reqs, NEW c \in Calls, NEW op \in Ops,
               CallFails(r, c, op) \/ CallSync(r, c, op)
        PROVE  Abstract!Next
    <3>1. /\ context' = [context EXCEPT ![c].stage = "released"]
          /\ context[c].stage = "unmade"
      BY <2>4 DEF CallFails, CallSync, Fresh
    <3>2. stage' = [stage EXCEPT ![c] = "released"] /\ stage[c] = "unmade"
      BY <3>1, <2>1 DEF CInv, TypeOK, Contexts
    <3> QED BY <3>2 DEF Abstract!Next, Abstract!Fail, Abstract!Step
  <2>5. ASSUME NEW r \in Reqs, NEW c \in Calls, Respond(r, c) PROVE Abstract!Next
    <3>1. c \in flight[r]
      BY <2>5 DEF Respond
    <3>2. ~Idle(r) /\ c = data[r] /\ context[c].stage = "waiting"
      BY <3>1, FlightIsData
    <3>3. \E a \in {"cancelled", "resolved", "rejected"} :
             context' = [context EXCEPT ![c].stage = "answered", ![c].answer = a]
      BY <2>5, <3>2 DEF Respond
    <3>4. stage' = [stage EXCEPT ![c] = "answered"] /\ stage[c] = "waiting"
      BY <3>2, <3>3, <2>1 DEF CInv, TypeOK, Contexts
    <3> QED BY <3>4 DEF Abstract!Next, Abstract!Answer, Abstract!Step
  <2>6. ASSUME Finish PROVE Abstract!Next
    <3>1. /\ context' = [context EXCEPT ![dealing].stage = "finished"]
          /\ dealing \in Calls /\ context[dealing].stage = "answered"
      BY <2>6 DEF Finish, CInv, TypeOK
    <3>2. stage' = [stage EXCEPT ![dealing] = "finished"] /\ stage[dealing] = "answered"
      BY <3>1, <2>1 DEF CInv, TypeOK, Contexts
    <3> QED BY <3>1, <3>2 DEF Abstract!Next, Abstract!Finish, Abstract!Step
  <2>7. ASSUME Release PROVE Abstract!Next
    <3>1. /\ context' = [context EXCEPT ![dealing].stage = "released"]
          /\ dealing \in Calls /\ context[dealing].stage = "finished"
      BY <2>7 DEF Release, CInv, TypeOK
    <3>2. stage' = [stage EXCEPT ![dealing] = "released"] /\ stage[dealing] = "finished"
      BY <3>1, <2>1 DEF CInv, TypeOK, Contexts
    <3> QED BY <3>1, <3>2 DEF Abstract!Next, Abstract!Release, Abstract!Step
  <2>8. ASSUME NEW r \in Reqs,
               NewRequest(r) \/ Copy(r) \/ Drop(r) \/ Cancel(r) \/ CleanupByHand(r)
        PROVE  stage' = stage
    <3>1. context' = context
      BY <2>8 DEF NewRequest, Copy, Drop, Cancel, CleanupByHand
    <3> QED BY <3>1, <2>2
  <2>9. CASE UNCHANGED vars
    BY <2>9, <2>2 DEF vars
  <2> QED BY <2>3, <2>4, <2>5, <2>6, <2>7, <2>8, <2>9 DEF Next
<1> QED BY <1>1, <1>2, CInvHolds, PTL DEF SafeSpec, ImplementsRequestSafety, Abstract!SafeSpec
=============================================================================
