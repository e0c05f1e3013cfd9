---------------------------- MODULE HandleProofs ----------------------------
(***************************************************************************)
(* Proofs about Handle, for any number of handles, of objects that refer   *)
(* to them, and for every kind of handle but process (whose exit breaks    *)
(* the invariant: MCProcessExit).                                          *)
(*                                                                         *)
(* An action touches one handle and the place where the loop is.  The      *)
(* invariant is therefore a predicate on one record and on whether the     *)
(* loop is inside its close callback; the lemmas show what the library's   *)
(* functions on a record do to it, then that each action is such a step,   *)
(* and one lemma carries the result to the other handles.                  *)
(*                                                                         *)
(* The last part reads the state of the life of a handle off its record    *)
(* and shows that each action is a step of AbstractHandle or none.         *)
(***************************************************************************)
EXTENDS Handle, TLAPS, SequenceTheorems

-----------------------------------------------------------------------------
(* The inductive invariant.                                                *)

(* Who holds a handle, and when it is closed instead.  The second and the  *)
(* third part say that the paper is there exactly as long as it is needed. *)
Ownership(s) ==
    /\ s.data = "none" => s = Unmade(s.kind)
    /\ s.data = "live" /\ ~s.closed /\ s.detached = "no" => s.paper /\ Clipped(s)
    /\ s.paper => s.detached = "no"
    /\ s.data = "freed" => s.closed

(* What libuv knows of it.                                                 *)
Known(s) ==
    /\ s.uv = "none" <=> s.initialized = FALSE
    /\ s.uv \in {"closing", "closed"} => s.closed
    /\ s.uv \in {"idle", "active", "closing"} => s.data = "live"
    /\ s.closed /\ s.data = "live" => s.initialized
    /\ s.data = "live" /\ s.kind = "tcp" => s.initialized

(* What ran of the close promise; closing says that the loop is inside the *)
(* close callback.                                                         *)
Told(s, closing) ==
    /\ s.data # "freed" /\ ~closing => s.log = <<>> /\ s.uv # "closed"
    /\ closing => s.data = "live" /\ s.uv = "closed" /\ s.log = <<"then">>
    /\ s.data = "freed" => s.log \in {<<"then", "finally">>, <<"finally">>}

Good(s, closing) ==
    /\ s \in HandleState
    /\ Ownership(s)
    /\ Known(s)
    /\ Told(s, closing)

(* The program lets no paper wait for a clip to go after the close.        *)
ClipsAsDocumented == {"clip_outlives", "assign_closed"} \cap Misuse = {}

(* Which freed memory may be read at all, and that each of the two reads   *)
(* takes a misuse of its own.                                              *)
Sound(s) ==
    /\ s.fault \subseteq {"close", "paper"}
    /\ "close_allocated" \notin Misuse => "close" \notin s.fault
    /\ ClipsAsDocumented =>
          "paper" \notin s.fault /\ (s.closed /\ s.paper => s.clips = 0)

Reached(s) == s.closed => s.uv \notin {"idle", "active"}

IInv ==
    /\ TypeOK
    /\ \A h \in Handles :
          /\ Good(handle[h], at = InClose(h))
          /\ at = InEvent(h) => handle[h].data = "live" /\ handle[h].initialized
          /\ Sound(handle[h])
          /\ "reset_shutting" \notin Misuse => Reached(handle[h])

-----------------------------------------------------------------------------
(* The close promise runs "then" and "finally" in this order.              *)
LEMMA LogGrows ==
    /\ Append(<<>>, "then") = <<"then">>
    /\ Append(<<>>, "finally") = <<"finally">>
    /\ Append(<<"then">>, "finally") = <<"then", "finally">>
  <1>1. Append(<<>>, "then") = <<"then">> /\ Append(<<>>, "finally") = <<"finally">>
    BY SMT
  <1>2. Append(<<"then">>, "finally") = <<"then", "finally">>
    <2> DEFINE S == {"then", "finally"}
    <2>1. <<"then">> \in Seq(S) /\ Len(<<"then">>) = 1 /\ <<"then">>[1] = "then"
      BY SMT
    <2>2. <<"then", "finally">> \in Seq(S) /\ Len(<<"then", "finally">>) = 2
          /\ <<"then", "finally">>[1] = "then" /\ <<"then", "finally">>[2] = "finally"
      BY SMT
    <2>3. Append(<<"then">>, "finally") \in Seq(S) /\ Len(Append(<<"then">>, "finally")) = 2
          /\ Append(<<"then">>, "finally")[1] = "then"
          /\ Append(<<"then">>, "finally")[2] = "finally"
      BY <2>1, SMT
    <2>4. \A i \in 1 .. Len(Append(<<"then">>, "finally")) :
             Append(<<"then">>, "finally")[i] = <<"then", "finally">>[i]
      <3> TAKE i \in 1 .. Len(Append(<<"then">>, "finally"))
      <3>1. i = 1 \/ i = 2
        BY <2>3
      <3> QED BY <3>1, <2>2, <2>3
    <2> HIDE DEF S
    <2> QED BY <2>2, <2>3, <2>4, SeqEqual
  <1> QED BY <1>1, <1>2

(* The loop is at one place, about one handle.                             *)
LEMMA PlacesDiffer ==
    ASSUME NEW g, NEW h
    PROVE  /\ User # InEvent(h) /\ User # InClose(h)
           /\ InEvent(g) # InClose(h)
           /\ InEvent(g) = InEvent(h) => g = h
           /\ InClose(g) = InClose(h) => g = h
  <1>1. User # InEvent(h)
    BY DEF User, InEvent
  <1>2. User # InClose(h)
    BY DEF User, InClose
  <1>3. InEvent(g) # InClose(h)
    <2>1. InEvent(g).in = "event" /\ InClose(h).in = "close"
      BY DEF InEvent, InClose
    <2> QED BY <2>1
  <1>4. InEvent(g) = InEvent(h) => g = h
    <2>1. InEvent(g).of = g /\ InEvent(h).of = h
      BY DEF InEvent
    <2> QED BY <2>1
  <1>5. InClose(g) = InClose(h) => g = h
    <2>1. InClose(g).of = g /\ InClose(h).of = h
      BY DEF InClose
    <2> QED BY <2>1
  <1> QED BY <1>1, <1>2, <1>3, <1>4, <1>5

(* The raw callback of a process is the only one that closes the handle.   *)
LEMMA OnlyProcessCloses ==
    ASSUME NEW s, s.kind \in DOMAIN Traits, s.kind # "process"
    PROVE  Trait(s).closes = FALSE
  <1>1. s.kind \in {"timer", "idle", "prepare", "check", "fs_event", "fs_poll", "signal",
                    "signal_oneshot", "tcp", "pipe", "tty", "udp", "poll", "async"}
    BY DEF Traits
  <1>2. /\ Listener.closes = FALSE /\ Timer.closes = FALSE /\ SignalOneshot.closes = FALSE
        /\ Udp.closes = FALSE /\ Poll.closes = FALSE /\ Async.closes = FALSE
    BY DEF Listener, Timer, SignalOneshot, Udp, Poll, Async
  <1>3. Traits[s.kind] \in {Listener, Timer, SignalOneshot, Udp, Poll, Async}
    BY <1>1 DEF Traits, Idle, Prepare, Check, FsEvent, FsPoll, Signal, Tcp, Pipe, Tty
  <1> QED BY <1>2, <1>3 DEF Trait

-----------------------------------------------------------------------------
(* What the library's functions do to a record.                            *)

(* The fields close_for leaves alone.                                      *)
SameHolders(s, t) ==
    /\ t.kind = s.kind /\ t.refs = s.refs /\ t.clips = s.clips
    /\ t.paper = s.paper /\ t.detached = s.detached /\ t.asked = s.asked
    /\ t.initialized = s.initialized /\ t.fault = s.fault
    /\ t.captured => s.captured

(* DeleteData releases a data_t whose promise has been told everything.    *)
LEMMA DeleteDataEffect ==
    ASSUME NEW s \in HandleState
    PROVE  /\ DeleteData(s) \in HandleState
           /\ SameHolders(s, DeleteData(s))
           /\ DeleteData(s).data = "freed"
           /\ DeleteData(s).closed = s.closed
           /\ DeleteData(s).uv = s.uv
           /\ DeleteData(s).log = s.log
  <1>1. (s.captured /\ s.clips > 0) \in BOOLEAN
    OBVIOUS
  <1>2. DeleteData(s) \in HandleState
    BY <1>1 DEF DeleteData, HandleState
  <1> QED BY <1>2 DEF DeleteData, HandleState, SameHolders

(* data_t::close_for on a live data_t closes the handle without a fault,   *)
(* and keeps the data_t exactly when libuv is to call back.                *)
LEMMA CloseForEffect ==
    ASSUME NEW s \in HandleState, NEW c \in BOOLEAN,
           s.data = "live", Known(s), Told(s, c)
    PROVE  LET t == CloseFor(s) IN
           /\ t \in HandleState /\ SameHolders(s, t)
           /\ t.closed = TRUE /\ Known(t) /\ Told(t, c)
           /\ t.data = IF s.initialized THEN "live" ELSE "freed"
           /\ Reached(s) => Reached(t)
  <1> DEFINE t == CloseFor(s)
             m == [s EXCEPT !.closed = TRUE]
  <1>1. CASE s.closed
    <2>1. t = s
      BY <1>1 DEF CloseFor
    <2>2. s.initialized
      BY <1>1 DEF Known
    <2>3. s.closed = TRUE
      BY <1>1 DEF HandleState
    <2> QED BY <2>1, <2>2, <2>3 DEF SameHolders
  <1>2. CASE ~s.closed /\ s.initialized
    <2>1. s.uv \in {"idle", "active"}
      BY <1>2 DEF Known, Told, HandleState
    <2>2. m \in HandleState /\ m.uv = s.uv
      BY DEF HandleState
    <2>3. t = [m EXCEPT !.uv = "closing"]
      BY <1>2, <2>1, <2>2 DEF CloseFor, UvClose
    <2>4. t \in HandleState /\ SameHolders(s, t) /\ t.closed = TRUE /\ t.data = s.data
          /\ t.uv = "closing" /\ t.log = s.log
      BY <2>3 DEF HandleState, SameHolders
    <2>5. ~c
      BY <1>2 DEF Told, Known
    <2>6. Known(t)
      BY <2>4, <1>2 DEF Known, SameHolders
    <2>7. Told(t, c)
      BY <2>4, <2>5 DEF Told
    <2> QED BY <2>4, <2>6, <2>7, <1>2 DEF Reached
  <1>3. CASE ~s.closed /\ ~s.initialized
    <2> DEFINE f == [m EXCEPT !.log = Append(@, "finally")]
    <2>1. ~c /\ s.log = <<>> /\ s.uv = "none"
      BY <1>3 DEF Told, Known, HandleState
    <2>2. m \in HandleState /\ SameHolders(s, m) /\ m.closed = TRUE /\ m.log = s.log
          /\ m.uv = s.uv
      BY DEF HandleState, SameHolders
    <2>3. f = [m EXCEPT !.log = <<"finally">>]
      BY <2>1, <2>2, LogGrows
    <2>4. t = DeleteData(f)
      BY <1>3, <2>2 DEF CloseFor, RawNonInitializedClose, SameHolders
    <2> HIDE DEF f, m, t
    <2>5. f \in HandleState /\ SameHolders(m, f) /\ f.closed = TRUE
          /\ f.log = <<"finally">> /\ f.uv = m.uv
      BY <2>2, <2>3 DEF HandleState, SameHolders
    <2>6. t \in HandleState /\ SameHolders(f, t) /\ t.data = "freed" /\ t.closed = TRUE
          /\ t.uv = "none" /\ t.log = <<"finally">>
      BY <2>1, <2>2, <2>5, <2>4, DeleteDataEffect
    <2>7. SameHolders(s, t)
      BY <2>2, <2>5, <2>6 DEF SameHolders
    <2>8. Known(t) /\ Told(t, c)
      BY <2>1, <2>6, <2>7, <1>3 DEF Known, Told, SameHolders, HandleState
    <2> QED BY <2>6, <2>7, <2>8, <1>3 DEF Reached, t
  <1> QED BY <1>1, <1>2, <1>3

LEMMA DetachEffect ==
    ASSUME NEW s \in HandleState
    PROVE  LET t == Detach(s) IN
           /\ t \in HandleState /\ t.paper = FALSE
           /\ t.kind = s.kind /\ t.refs = s.refs /\ t.clips = s.clips
           /\ t.captured = s.captured /\ t.data = s.data /\ t.initialized = s.initialized
           /\ t.closed = s.closed /\ t.uv = s.uv /\ t.log = s.log
           /\ t.detached = s.detached /\ t.asked = s.asked /\ t.fault = s.fault
BY DEF Detach, HandleState

LEMMA FaultEffect ==
    ASSUME NEW s \in HandleState, NEW place \in FaultSites
    PROVE  LET t == Fault(s, place) IN
           /\ t \in HandleState
           /\ t.kind = s.kind /\ t.refs = s.refs /\ t.clips = s.clips
           /\ t.captured = s.captured /\ t.paper = s.paper /\ t.data = s.data
           /\ t.initialized = s.initialized /\ t.closed = s.closed /\ t.uv = s.uv
           /\ t.log = s.log /\ t.detached = s.detached /\ t.asked = s.asked
           /\ t.fault = s.fault \cup {place}
BY DEF Fault, HandleState

(* A made handle that has just lost one of its holders, the clip's last or *)
(* not: ClipGoes restores the ownership part of the invariant, and closes  *)
(* the handle only if it was attached and nobody holds it any more.        *)
LEMMA ClipGoesEffect ==
    ASSUME NEW s \in HandleState, NEW c \in BOOLEAN, NEW rawAlive \in BOOLEAN,
           s.data \in {"live", "freed"},
           s.data = "live" => rawAlive,
           s.data = "live" /\ ~s.closed /\ s.detached = "no" => s.paper,
           s.paper => s.detached = "no",
           s.data = "freed" => s.closed,
           Known(s), Told(s, c)
    PROVE  LET t == ClipGoes(s, rawAlive) IN
           /\ Good(t, c)
           /\ t.closed /\ ~s.closed => s.detached = "no" /\ ~Clipped(t)
           /\ s.data = "live" /\ s.initialized => t.data = "live" /\ t.initialized
           /\ (ClipsAsDocumented /\ s.paper => rawAlive) /\ Sound(s) => Sound(t)
           /\ Reached(s) => Reached(t)
  <1> DEFINE p == Paper(s, rawAlive)
             t == ClipGoes(s, rawAlive)
  <1>1. CASE Clipped(s) \/ ~s.paper
    <2>1. t = s
      BY <1>1 DEF ClipGoes
    <2>2. Ownership(s)
      BY <1>1 DEF Ownership
    <2> QED BY <2>1, <2>2 DEF Good
  <1>2. CASE ~Clipped(s) /\ s.paper /\ s.data = "live"
    <2>1. t = Detach(p) /\ p = CloseFor(s)
      BY <1>2 DEF ClipGoes, Paper
    <2> HIDE DEF t, p
    <2>2. /\ p \in HandleState /\ SameHolders(s, p) /\ p.closed = TRUE /\ Known(p)
          /\ Told(p, c) /\ p.data = (IF s.initialized THEN "live" ELSE "freed")
          /\ Reached(s) => Reached(p)
      BY <1>2, <2>1, CloseForEffect
    <2>3. /\ t \in HandleState /\ t.paper = FALSE /\ t.kind = p.kind /\ t.refs = p.refs
          /\ t.clips = p.clips /\ t.captured = p.captured /\ t.data = p.data
          /\ t.initialized = p.initialized /\ t.closed = p.closed /\ t.uv = p.uv
          /\ t.log = p.log /\ t.detached = p.detached /\ t.fault = p.fault
      BY <2>1, <2>2, DetachEffect
    <2>4. Ownership(t) /\ Known(t) /\ Told(t, c)
      BY <2>2, <2>3 DEF Ownership, Known, Told
    <2>5. s.detached = "no" /\ ~Clipped(t)
      BY <1>2, <2>2, <2>3 DEF Clipped, SameHolders
    <2>6. s.initialized => t.data = "live" /\ t.initialized
      BY <2>2, <2>3 DEF SameHolders
    <2>7. Sound(s) => Sound(t)
      BY <2>2, <2>3 DEF Sound, SameHolders
    <2>8. Reached(s) => Reached(t)
      BY <2>2, <2>3 DEF Reached
    <2> QED BY <2>3, <2>4, <2>5, <2>6, <2>7, <2>8 DEF Good, t
  <1>3. CASE ~Clipped(s) /\ s.paper /\ s.data = "freed"
    <2>1. t = Detach(p)
      BY <1>3 DEF ClipGoes
    <2>2. p = (IF rawAlive THEN s ELSE Fault(s, "paper"))
      BY <1>3 DEF Paper
    <2> HIDE DEF t, p
    <2>3. /\ p \in HandleState /\ p.closed = s.closed /\ p.data = s.data
          /\ p.initialized = s.initialized /\ p.uv = s.uv /\ p.log = s.log
          /\ rawAlive => p = s
          /\ p.fault \subseteq s.fault \cup {"paper"}
      BY <2>2, FaultEffect DEF FaultSites
    <2>4. /\ t \in HandleState /\ t.paper = FALSE /\ t.closed = p.closed /\ t.data = p.data
          /\ t.initialized = p.initialized /\ t.uv = p.uv /\ t.log = p.log
          /\ t.fault = p.fault
      BY <2>1, <2>3, DetachEffect
    <2>5. Ownership(t) /\ Known(t) /\ Told(t, c)
      BY <1>3, <2>3, <2>4 DEF Ownership, Known, Told
    <2>6. (ClipsAsDocumented => rawAlive) /\ Sound(s) => Sound(t)
      BY <2>3, <2>4 DEF Sound
    <2>7. Reached(s) => Reached(t)
      BY <2>3, <2>4 DEF Reached
    <2> QED BY <1>3, <2>3, <2>4, <2>5, <2>6, <2>7 DEF Good, t
  <1> QED BY <1>1, <1>2, <1>3

-----------------------------------------------------------------------------
(* A step of one handle that keeps the invariant, closes with a cause, and *)
(* moves the loop to or from this handle only.                             *)
Cause(h) ==
    handle'[h].closed /\ ~handle[h].closed =>
        \/ handle'[h].asked
        \/ handle[h].detached = "no" /\ ~Clipped(handle'[h])

Moves(h) ==
    at' = at \/ (at \in {User, InEvent(h), InClose(h)} /\ at' \in {User, InEvent(h), InClose(h)})

Keeps(h) ==
    /\ Good(handle'[h], at' = InClose(h))
    /\ at' = InEvent(h) => handle'[h].data = "live" /\ handle'[h].initialized
    /\ Sound(handle'[h])
    /\ "reset_shutting" \notin Misuse => Reached(handle'[h])

LocalStep(h) ==
    /\ handle' = [handle EXCEPT ![h] = handle'[h]]
    /\ Moves(h)
    /\ Keeps(h)
    /\ Cause(h)

LEMMA LocalStepKeepsIInv ==
    ASSUME IInv, NEW h \in Handles, LocalStep(h)
    PROVE  IInv'
  <1>1. handle' \in [Handles -> HandleState]
    BY DEF IInv, TypeOK, LocalStep, Keeps, Good
  <1>2. at' \in {User} \cup {InEvent(g) : g \in Handles} \cup {InClose(g) : g \in Handles}
    BY DEF IInv, TypeOK, LocalStep, Moves
  <1>3. ASSUME NEW g \in Handles, g # h
        PROVE  /\ handle'[g] = handle[g]
               /\ (at' = InClose(g)) = (at = InClose(g))
               /\ at' = InEvent(g) => at = InEvent(g)
    <2>1. handle'[g] = handle[g]
      BY <1>3 DEF LocalStep, IInv, TypeOK
    <2>2. CASE at' = at
      BY <2>1, <2>2
    <2>3. CASE at \in {User, InEvent(h), InClose(h)} /\ at' \in {User, InEvent(h), InClose(h)}
      <3>1. /\ InClose(g) \notin {User, InEvent(h), InClose(h)}
            /\ InEvent(g) \notin {User, InEvent(h), InClose(h)}
        BY <1>3, PlacesDiffer
      <3> QED BY <2>1, <2>3, <3>1
    <2> QED BY <2>2, <2>3 DEF LocalStep, Moves
  <1>4. ASSUME NEW g \in Handles
        PROVE  /\ Good(handle'[g], at' = InClose(g))
               /\ at' = InEvent(g) => handle'[g].data = "live" /\ handle'[g].initialized
               /\ Sound(handle'[g])
               /\ "reset_shutting" \notin Misuse => Reached(handle'[g])
    <2>1. CASE g = h
      BY <2>1 DEF LocalStep, Keeps
    <2>2. CASE g # h
      BY <2>2, <1>3 DEF IInv
    <2> QED BY <2>1, <2>2
  <1> QED BY <1>1, <1>2, <1>4 DEF IInv, TypeOK

(* A handle that is held has been made.                                    *)
LEMMA HeldIsMade ==
    ASSUME NEW s \in HandleState, Ownership(s), Clipped(s)
    PROVE  s.data \in {"live", "freed"}
BY DEF HandleState, Ownership, Clipped, Unmade

(* What InitHandle and Start return keeps the invariant of a live handle.  *)
LEMMA ReturnedEffect ==
    ASSUME NEW s, NEW c \in BOOLEAN, Good(s, c), s.data = "live", ~s.closed,
           NEW r \in Returned(s)
    PROVE  /\ Good(r, c) /\ r.data = "live" /\ r.closed = FALSE
           /\ r.initialized = s.initialized /\ r.fault = s.fault
  <1>1. CASE r = s
    BY <1>1 DEF Good, HandleState
  <1>2. CASE r # s
    <2>1. r = [s EXCEPT !.clips = @ + 1] /\ s.clips + 1 \in 0 .. MaxClips
      BY <1>2, BoundsAssumption DEF Returned, Good, HandleState
    <2>2. /\ r \in HandleState /\ r.kind = s.kind /\ r.refs = s.refs
          /\ r.clips = s.clips + 1 /\ r.captured = s.captured /\ r.paper = s.paper
          /\ r.data = s.data /\ r.initialized = s.initialized /\ r.closed = s.closed
          /\ r.uv = s.uv /\ r.log = s.log /\ r.detached = s.detached /\ r.fault = s.fault
      BY <2>1 DEF Good, HandleState
    <2>3. Clipped(r)
      BY <2>1, <2>2, BoundsAssumption DEF Clipped, Good, HandleState
    <2>4. Ownership(r) /\ Known(r) /\ Told(r, c)
      BY <2>2, <2>3 DEF Good, Ownership, Known, Told
    <2> QED BY <2>2, <2>4 DEF Good, HandleState
  <1> QED BY <1>1, <1>2

-----------------------------------------------------------------------------
(* The actions of the program.                                             *)
LEMMA ConstructSteps ==
    ASSUME IInv, NEW h \in Handles, Construct(h)
    PROVE  LocalStep(h)
  <1> DEFINE s == handle[h]
             t == handle'[h]
             ctor == Trait(s).init = "ctor"
  <1>1. s \in HandleState /\ Told(s, at = InClose(h)) /\ (at = InEvent(h) => s.data = "live")
    BY DEF IInv, Good
  <1>2. /\ s.kind = s.kind /\ s.refs = 0 /\ s.clips = 0 /\ s.captured = FALSE
        /\ s.paper = FALSE /\ s.data = "none" /\ s.closed = FALSE /\ s.uv = "none"
        /\ s.log = <<>> /\ s.detached = "no" /\ s.fault = {}
    BY DEF Construct, Unmade
  <1>3. t = [s EXCEPT !.refs = 1, !.paper = TRUE, !.data = "live", !.initialized = ctor,
                      !.uv = IF ctor THEN "idle" ELSE "none"]
        /\ handle' = [handle EXCEPT ![h] = t] /\ at' = at
    BY DEF Construct, Becomes, IInv, TypeOK
  <1>4. 1 \in 0 .. MaxRefs
    BY BoundsAssumption
  <1>5. s.kind = "tcp" => ctor
    BY DEF Trait, Traits, Tcp, Listener
  <1> HIDE DEF ctor
  <1>6. ctor \in BOOLEAN
    BY DEF ctor
  <1>7. /\ t \in HandleState /\ t.kind = s.kind /\ t.refs = 1 /\ t.paper = TRUE
        /\ t.data = "live" /\ t.initialized = ctor /\ t.uv = (IF ctor THEN "idle" ELSE "none")
        /\ t.closed = s.closed /\ t.log = s.log /\ t.detached = s.detached
        /\ t.fault = s.fault /\ t.clips = s.clips
    BY <1>1, <1>3, <1>4, <1>6 DEF HandleState
  <1> HIDE DEF s, t
  <1>8. at # InClose(h) /\ at # InEvent(h)
    BY <1>1, <1>2 DEF Told
  <1>9. Good(t, FALSE)
    BY <1>2, <1>5, <1>6, <1>7 DEF Good, Ownership, Known, Told, Clipped
  <1>10. Sound(t) /\ Reached(t)
    BY <1>2, <1>7 DEF Sound, Reached
  <1> QED BY <1>2, <1>3, <1>7, <1>8, <1>9, <1>10 DEF LocalStep, Moves, Keeps, Cause, s, t

LEMMA CopyRefSteps ==
    ASSUME IInv, NEW h \in Handles, CopyRef(h)
    PROVE  LocalStep(h)
  <1> DEFINE s == handle[h]
             t == handle'[h]
  <1>1. Good(s, at = InClose(h)) /\ Sound(s)
        /\ ("reset_shutting" \notin Misuse => Reached(s))
        /\ (at = InEvent(h) => s.data = "live" /\ s.initialized)
    BY DEF IInv
  <1>2. /\ t = [s EXCEPT !.refs = @ + 1] /\ handle' = [handle EXCEPT ![h] = t] /\ at' = at
        /\ s.refs < MaxRefs /\ (s.refs > 0 \/ s.captured)
    BY DEF CopyRef, Holds, Becomes, IInv, TypeOK
  <1> HIDE DEF s, t
  <1>3. s.data \in {"live", "freed"}
    BY <1>1, <1>2, HeldIsMade, BoundsAssumption DEF Good, Clipped, HandleState
  <1>4. s.refs + 1 \in 0 .. MaxRefs
    BY <1>1, <1>2, BoundsAssumption DEF Good, HandleState
  <1>5. /\ t \in HandleState /\ t.kind = s.kind /\ t.refs = s.refs + 1
        /\ t.clips = s.clips /\ t.captured = s.captured /\ t.paper = s.paper
        /\ t.data = s.data /\ t.initialized = s.initialized /\ t.closed = s.closed
        /\ t.uv = s.uv /\ t.log = s.log /\ t.detached = s.detached /\ t.fault = s.fault
    BY <1>1, <1>2, <1>4 DEF Good, HandleState
  <1>6. Clipped(t)
    BY <1>1, <1>2, <1>5, BoundsAssumption DEF Clipped, Good, HandleState
  <1>7. Good(t, at = InClose(h))
    BY <1>1, <1>3, <1>5, <1>6 DEF Good, Ownership, Known, Told
  <1>8. Sound(t) /\ ("reset_shutting" \notin Misuse => Reached(t))
    BY <1>1, <1>5 DEF Sound, Reached
  <1> QED BY <1>1, <1>2, <1>5, <1>7, <1>8 DEF LocalStep, Moves, Keeps, Cause, s, t

(* DropRef and Assign: one handle_t less.                                  *)
LEMMA OneRefLess ==
    ASSUME IInv, NEW h \in Handles, NEW rawAlive \in BOOLEAN, handle[h].refs > 0,
           handle' = [handle EXCEPT ![h] =
                         ClipGoes([handle[h] EXCEPT !.refs = @ - 1], rawAlive)],
           at' = at,
           handle[h].data = "live" => rawAlive,
           ClipsAsDocumented => rawAlive \/ ~handle[h].paper
    PROVE  LocalStep(h)
  <1> DEFINE s == handle[h]
             d == [s EXCEPT !.refs = @ - 1]
             t == handle'[h]
  <1>1. Good(s, at = InClose(h)) /\ Sound(s)
        /\ ("reset_shutting" \notin Misuse => Reached(s))
        /\ (at = InEvent(h) => s.data = "live" /\ s.initialized)
    BY DEF IInv
  <1>2. t = ClipGoes(d, rawAlive) /\ handle' = [handle EXCEPT ![h] = t]
    BY DEF IInv, TypeOK
  <1> HIDE DEF t
  <1>3. s.data \in {"live", "freed"}
    BY <1>1, HeldIsMade, BoundsAssumption DEF Good, Clipped, HandleState
  <1>4. s.refs - 1 \in 0 .. MaxRefs
    BY <1>1, BoundsAssumption DEF Good, HandleState
  <1>5. /\ d \in HandleState /\ d.kind = s.kind /\ d.clips = s.clips
        /\ d.paper = s.paper /\ d.data = s.data /\ d.initialized = s.initialized
        /\ d.closed = s.closed /\ d.uv = s.uv /\ d.log = s.log
        /\ d.detached = s.detached /\ d.fault = s.fault
    BY <1>1, <1>4 DEF Good, HandleState
  <1> HIDE DEF d, s
  <1>6. Known(d) /\ Told(d, at = InClose(h))
    BY <1>1, <1>5 DEF Good, Known, Told
  <1>7. /\ d.data \in {"live", "freed"} /\ (d.data = "live" => rawAlive)
        /\ (d.data = "live" /\ ~d.closed /\ d.detached = "no" => d.paper)
        /\ (d.paper => d.detached = "no") /\ (d.data = "freed" => d.closed)
    BY <1>1, <1>3, <1>5 DEF Good, Ownership, s
  <1>8. /\ Good(t, at = InClose(h))
        /\ t.closed /\ ~d.closed => d.detached = "no" /\ ~Clipped(t)
        /\ d.data = "live" /\ d.initialized => t.data = "live" /\ t.initialized
        /\ (ClipsAsDocumented /\ d.paper => rawAlive) /\ Sound(d) => Sound(t)
        /\ Reached(d) => Reached(t)
    BY <1>2, <1>5, <1>6, <1>7, ClipGoesEffect
  <1>9. (Sound(s) => Sound(d)) /\ (Reached(s) => Reached(d))
    BY <1>5 DEF Sound, Reached
  <1>10. Sound(t)
    BY <1>1, <1>5, <1>8, <1>9 DEF s
  <1> QED BY <1>1, <1>2, <1>5, <1>8, <1>9, <1>10 DEF LocalStep, Moves, Keeps, Cause, s, t

LEMMA DropRefSteps ==
    ASSUME IInv, NEW h \in Handles, DropRef(h)
    PROVE  LocalStep(h)
BY OneRefLess DEF DropRef, Becomes

LEMMA AssignSteps ==
    ASSUME IInv, NEW h \in Handles, Assign(h)
    PROVE  LocalStep(h)
  <1> DEFINE d == [handle[h] EXCEPT !.refs = @ - 1]
  <1>1. RawAlive(d) \in BOOLEAN
    BY DEF RawAlive
  <1>2. d.data = handle[h].data /\ d.paper = handle[h].paper
    BY DEF IInv, Good, HandleState
  <1>3. handle[h].data = "live" => RawAlive(d)
    BY <1>2 DEF RawAlive
  <1>4. ClipsAsDocumented => RawAlive(d) \/ ~handle[h].paper
    BY <1>2 DEF Assign, ClipsAsDocumented
  <1>5. /\ handle[h].refs > 0 /\ at' = at
        /\ handle' = [handle EXCEPT ![h] = ClipGoes(d, RawAlive(d))]
    BY DEF Assign, Becomes
  <1> HIDE DEF d
  <1> QED BY <1>1, <1>3, <1>4, <1>5, OneRefLess DEF d

LEMMA CaptureSteps ==
    ASSUME IInv, NEW h \in Handles, Capture(h)
    PROVE  LocalStep(h)
  <1> DEFINE s == handle[h]
             t == handle'[h]
  <1>1. Good(s, at = InClose(h)) /\ Sound(s)
        /\ ("reset_shutting" \notin Misuse => Reached(s))
        /\ (at = InEvent(h) => s.data = "live" /\ s.initialized)
    BY DEF IInv
  <1>2. /\ t = [s EXCEPT !.captured = TRUE] /\ handle' = [handle EXCEPT ![h] = t]
        /\ at' = at /\ s.data = "live"
    BY DEF Capture, Becomes, IInv, TypeOK
  <1> HIDE DEF s, t
  <1>3. /\ t \in HandleState
        /\ t.kind = s.kind /\ t.refs = s.refs /\ t.clips = s.clips
        /\ t.captured = TRUE /\ t.paper = s.paper /\ t.data = s.data
        /\ t.initialized = s.initialized /\ t.closed = s.closed /\ t.uv = s.uv
        /\ t.log = s.log /\ t.detached = s.detached /\ t.asked = s.asked
        /\ t.fault = s.fault
    BY <1>1, <1>2 DEF Good, HandleState
  <1>4. Good(t, at = InClose(h))
    BY <1>1, <1>2, <1>3 DEF Good, Ownership, Known, Told, Clipped
  <1>5. Sound(t) /\ ("reset_shutting" \notin Misuse => Reached(t))
    BY <1>1, <1>3 DEF Sound, Reached
  <1> QED BY <1>1, <1>2, <1>3, <1>4, <1>5 DEF LocalStep, Moves, Keeps, Cause, s, t

LEMMA DropClipSteps ==
    ASSUME IInv, NEW h \in Handles, DropClip(h)
    PROVE  LocalStep(h)
  <1> DEFINE s == handle[h]
             t == handle'[h]
  <1>1. Good(s, at = InClose(h)) /\ Sound(s)
        /\ ("reset_shutting" \notin Misuse => Reached(s))
        /\ (at = InEvent(h) => s.data = "live" /\ s.initialized)
    BY DEF IInv
  <1> DEFINE l == [s EXCEPT !.clips = @ - 1]
             d == [l EXCEPT !.captured = @ /\ (l.data = "live" \/ l.clips > 0)]
  <1>2. /\ t = ClipGoes(d, RawAlive(l)) /\ handle' = [handle EXCEPT ![h] = t]
        /\ at' = at /\ s.clips > 0
    BY DEF DropClip, Becomes, IInv, TypeOK
  <1> HIDE DEF t
  <1>3. s.data \in {"live", "freed"}
    BY <1>1, <1>2, HeldIsMade, BoundsAssumption DEF Good, Clipped, HandleState
  <1>4. s.clips - 1 \in 0 .. MaxClips
    BY <1>1, <1>2, BoundsAssumption DEF Good, HandleState
  <1>5. l \in HandleState /\ l.data = s.data /\ l.captured = s.captured
    BY <1>1, <1>4 DEF Good, HandleState
  <1>6. (l.captured /\ (l.data = "live" \/ l.clips > 0)) \in BOOLEAN
    OBVIOUS
  <1>7. /\ d \in HandleState /\ d.kind = s.kind
        /\ d.paper = s.paper /\ d.data = s.data /\ d.initialized = s.initialized
        /\ d.closed = s.closed /\ d.uv = s.uv /\ d.log = s.log
        /\ d.detached = s.detached /\ d.fault = s.fault
    BY <1>1, <1>4, <1>5, <1>6 DEF Good, HandleState
  <1>8. RawAlive(l) \in BOOLEAN /\ (s.data = "live" => RawAlive(l))
    BY <1>5 DEF RawAlive
  <1> HIDE DEF d, l, s
  <1>9. Known(d) /\ Told(d, at = InClose(h))
    BY <1>1, <1>7 DEF Good, Known, Told
  <1>10. /\ d.data \in {"live", "freed"} /\ (d.data = "live" => RawAlive(l))
         /\ (d.data = "live" /\ ~d.closed /\ d.detached = "no" => d.paper)
         /\ (d.paper => d.detached = "no") /\ (d.data = "freed" => d.closed)
    BY <1>1, <1>3, <1>7, <1>8 DEF Good, Ownership
  <1>11. /\ Good(t, at = InClose(h))
         /\ t.closed /\ ~d.closed => d.detached = "no" /\ ~Clipped(t)
         /\ d.data = "live" /\ d.initialized => t.data = "live" /\ t.initialized
         /\ (ClipsAsDocumented /\ d.paper => RawAlive(l)) /\ Sound(d) => Sound(t)
         /\ Reached(d) => Reached(t)
    BY <1>2, <1>7, <1>8, <1>9, <1>10, ClipGoesEffect
  (* A sound handle whose data_t is gone has no paper while clips are left. *)
  <1>12. Sound(s) => Sound(d) /\ (ClipsAsDocumented /\ d.paper => RawAlive(l))
    <2>1. s.clips # 0
      BY <1>1, <1>2, BoundsAssumption DEF Good, HandleState
    <2> QED BY <2>1, <1>7, <1>10 DEF Sound
  <1>13. Reached(s) => Reached(d)
    BY <1>7 DEF Reached
  <1> QED BY <1>1, <1>2, <1>7, <1>11, <1>12, <1>13 DEF LocalStep, Moves, Keeps, Cause, s, t

LEMMA InitHandleSteps ==
    ASSUME IInv, NEW h \in Handles, InitHandle(h)
    PROVE  LocalStep(h)
  <1> DEFINE s == handle[h]
             t == handle'[h]
  <1>1. Good(s, at = InClose(h)) /\ Sound(s)
        /\ ("reset_shutting" \notin Misuse => Reached(s))
        /\ (at = InEvent(h) => s.data = "live" /\ s.initialized)
    BY DEF IInv
  <1>2. /\ handle' = [handle EXCEPT ![h] = t] /\ at' = at
        /\ s.data = "live" /\ ~s.closed /\ s.uv = "none"
    BY DEF InitHandle, Becomes, IInv, TypeOK
  <1> DEFINE i == [s EXCEPT !.initialized = TRUE]
             u(x) == [i EXCEPT !.uv = x]
  <1>3. t \in Returned(u("active")) \/ t = u("idle")
    BY DEF InitHandle, Becomes, IInv, TypeOK
  <1> HIDE DEF t, s
  <1>4. ASSUME NEW x \in {"idle", "active"}
        PROVE  /\ Good(u(x), at = InClose(h)) /\ u(x).data = "live" /\ u(x).closed = FALSE
               /\ u(x).initialized = TRUE /\ u(x).fault = s.fault
    <2>1. /\ u(x) \in HandleState /\ u(x).kind = s.kind /\ u(x).refs = s.refs
          /\ u(x).clips = s.clips /\ u(x).captured = s.captured /\ u(x).paper = s.paper
          /\ u(x).data = s.data /\ u(x).initialized = TRUE /\ u(x).closed = s.closed
          /\ u(x).uv = x /\ u(x).log = s.log /\ u(x).detached = s.detached
          /\ u(x).fault = s.fault
      BY <1>1 DEF Good, HandleState
    <2> HIDE DEF u
    <2>2. s.closed = FALSE
      BY <1>1, <1>2 DEF Good, HandleState
    <2>3. Ownership(u(x)) /\ Known(u(x)) /\ Told(u(x), at = InClose(h))
      BY <1>1, <1>2, <2>1 DEF Good, Ownership, Known, Told, Clipped
    <2> QED BY <1>2, <2>1, <2>2, <2>3 DEF Good
  <1>5. /\ Good(t, at = InClose(h)) /\ t.data = "live" /\ t.closed = FALSE
        /\ t.initialized = TRUE /\ t.fault = s.fault
    <2>1. CASE t = u("idle")
      BY <1>4, <2>1
    <2>2. CASE t \in Returned(u("active"))
      <3> HIDE DEF u
      <3> QED BY <1>4, <2>2, ReturnedEffect
    <2> QED BY <1>3, <2>1, <2>2
  <1>6. Sound(t) /\ ("reset_shutting" \notin Misuse => Reached(t))
    BY <1>1, <1>5 DEF Sound, Reached
  <1> QED BY <1>2, <1>5, <1>6 DEF LocalStep, Moves, Keeps, Cause, s, t

LEMMA StartSteps ==
    ASSUME IInv, NEW h \in Handles, Start(h), "process" \notin Kinds
    PROVE  LocalStep(h)
  <1> DEFINE s == handle[h]
             t == handle'[h]
  <1>1. Good(s, at = InClose(h)) /\ Sound(s)
        /\ ("reset_shutting" \notin Misuse => Reached(s))
        /\ (at = InEvent(h) => s.data = "live" /\ s.initialized)
    BY DEF IInv
  <1> DEFINE u == [s EXCEPT !.uv = "active"]
             d == [Detach(u) EXCEPT !.detached = IF @ = "no" THEN "library" ELSE @]
  <1>2. /\ handle' = [handle EXCEPT ![h] = t] /\ at' = at
        /\ s.data = "live" /\ ~s.closed /\ s.uv \in {"idle", "active"}
        /\ \E x \in {u, d} : t \in Returned(x) \/ t = x
    <2>1. s.kind # "process"
      BY <1>1 DEF Good, HandleState
    <2> QED BY <2>1 DEF Start, Becomes, IInv, TypeOK
  <1>3. s.initialized /\ s.closed = FALSE
    BY <1>1, <1>2 DEF Good, Known, HandleState
  <1> HIDE DEF s, t
  <1>4. /\ u \in HandleState
        /\ u.kind = s.kind /\ u.refs = s.refs /\ u.clips = s.clips
        /\ u.captured = s.captured /\ u.paper = s.paper /\ u.data = s.data
        /\ u.initialized = s.initialized /\ u.closed = s.closed
        /\ u.uv = "active" /\ u.log = s.log /\ u.detached = s.detached
        /\ u.asked = s.asked /\ u.fault = s.fault
    BY <1>1 DEF Good, HandleState
  <1> HIDE DEF u
  <1>5. Good(u, at = InClose(h))
    BY <1>1, <1>2, <1>3, <1>4 DEF Good, Ownership, Known, Told, Clipped
  <1>6. /\ d \in HandleState /\ d.kind = u.kind
        /\ d.paper = FALSE /\ d.data = u.data /\ d.initialized = u.initialized
        /\ d.closed = u.closed /\ d.uv = u.uv /\ d.log = u.log /\ d.fault = u.fault
        /\ d.detached = (IF u.detached = "no" THEN "library" ELSE u.detached)
    BY <1>4, DetachEffect DEF HandleState
  <1> HIDE DEF d
  <1>7. Good(d, at = InClose(h))
    BY <1>2, <1>4, <1>5, <1>6 DEF Good, Ownership, Known, Told
  <1>8. /\ Good(t, at = InClose(h)) /\ t.data = "live" /\ t.closed = FALSE
        /\ t.initialized = s.initialized /\ t.fault = s.fault
    <2>1. PICK x \in {u, d} : t \in Returned(x) \/ t = x
      BY <1>2
    <2>2. /\ Good(x, at = InClose(h)) /\ x.data = "live" /\ x.closed = FALSE
          /\ x.initialized = s.initialized /\ x.fault = s.fault
      BY <1>2, <1>3, <1>4, <1>5, <1>6, <1>7, <2>1
    <2> QED BY <2>1, <2>2, ReturnedEffect
  <1>9. Sound(t) /\ ("reset_shutting" \notin Misuse => Reached(t))
    BY <1>1, <1>8 DEF Sound, Reached
  <1> QED BY <1>2, <1>3, <1>8, <1>9 DEF LocalStep, Moves, Keeps, Cause, s, t

LEMMA StopSteps ==
    ASSUME IInv, NEW h \in Handles, Stop(h)
    PROVE  LocalStep(h)
  <1> DEFINE s == handle[h]
             t == handle'[h]
  <1>1. Good(s, at = InClose(h)) /\ Sound(s)
        /\ ("reset_shutting" \notin Misuse => Reached(s))
        /\ (at = InEvent(h) => s.data = "live" /\ s.initialized)
    BY DEF IInv
  <1>2. /\ t = [s EXCEPT !.uv = "idle"] /\ handle' = [handle EXCEPT ![h] = t]
        /\ at' = at /\ s.data = "live" /\ ~s.closed /\ s.uv = "active"
    BY DEF Stop, Becomes, IInv, TypeOK
  <1> HIDE DEF s, t
  <1>3. /\ t \in HandleState
        /\ t.kind = s.kind /\ t.refs = s.refs /\ t.clips = s.clips
        /\ t.captured = s.captured /\ t.paper = s.paper /\ t.data = s.data
        /\ t.initialized = s.initialized /\ t.closed = s.closed
        /\ t.uv = "idle" /\ t.log = s.log /\ t.detached = s.detached
        /\ t.asked = s.asked /\ t.fault = s.fault
    BY <1>1, <1>2 DEF Good, HandleState
  <1>4. Good(t, at = InClose(h))
    BY <1>1, <1>2, <1>3 DEF Good, Ownership, Known, Told, Clipped
  <1>5. Sound(t) /\ ("reset_shutting" \notin Misuse => Reached(t))
    BY <1>1, <1>2, <1>3 DEF Sound, Reached
  <1> QED BY <1>1, <1>2, <1>3, <1>4, <1>5 DEF LocalStep, Moves, Keeps, Cause, s, t

LEMMA UserDetachSteps ==
    ASSUME IInv, NEW h \in Handles, UserDetach(h)
    PROVE  LocalStep(h)
  <1> DEFINE s == handle[h]
             t == handle'[h]
  <1>1. Good(s, at = InClose(h)) /\ Sound(s)
        /\ ("reset_shutting" \notin Misuse => Reached(s))
        /\ (at = InEvent(h) => s.data = "live" /\ s.initialized)
    BY DEF IInv
  <1> DEFINE d == Detach(s)
  <1>2. /\ t = [d EXCEPT !.detached = "user"] /\ handle' = [handle EXCEPT ![h] = t]
        /\ at' = at /\ s.data = "live" /\ ~s.closed
    BY DEF UserDetach, Becomes, IInv, TypeOK
  <1> HIDE DEF s, t
  <1>3. /\ d \in HandleState
        /\ d.kind = s.kind /\ d.refs = s.refs /\ d.clips = s.clips
        /\ d.captured = s.captured /\ d.paper = FALSE /\ d.data = s.data
        /\ d.initialized = s.initialized /\ d.closed = s.closed /\ d.uv = s.uv
        /\ d.log = s.log /\ d.detached = s.detached /\ d.asked = s.asked
        /\ d.fault = s.fault
    BY <1>1, DetachEffect DEF Good
  <1> HIDE DEF d
  <1>4. /\ t \in HandleState
        /\ t.kind = d.kind /\ t.refs = d.refs /\ t.clips = d.clips
        /\ t.captured = d.captured /\ t.paper = d.paper /\ t.data = d.data
        /\ t.initialized = d.initialized /\ t.closed = d.closed /\ t.uv = d.uv
        /\ t.log = d.log /\ t.detached = "user" /\ t.asked = d.asked
        /\ t.fault = d.fault
    BY <1>2, <1>3 DEF HandleState
  <1>5. Good(t, at = InClose(h))
    BY <1>1, <1>2, <1>3, <1>4 DEF Good, Ownership, Known, Told
  <1>6. Sound(t) /\ ("reset_shutting" \notin Misuse => Reached(t))
    BY <1>1, <1>3, <1>4 DEF Sound, Reached
  <1> QED BY <1>1, <1>2, <1>3, <1>4, <1>5, <1>6 DEF LocalStep, Moves, Keeps, Cause, s, t

LEMMA CloseSteps ==
    ASSUME IInv, NEW h \in Handles, Close(h)
    PROVE  LocalStep(h)
  <1> DEFINE s == handle[h]
             t == handle'[h]
  <1>1. Good(s, at = InClose(h)) /\ Sound(s)
        /\ ("reset_shutting" \notin Misuse => Reached(s))
        /\ (at = InEvent(h) => s.data = "live" /\ s.initialized)
    BY DEF IInv
  <1> DEFINE e == CloseFor(s)
             d == Detach(e)
             f == HandleCloseFor(s)
  <1>2. /\ t = [f EXCEPT !.asked = TRUE] /\ handle' = [handle EXCEPT ![h] = t]
        /\ at' = at /\ s.data = "live" /\ (s.initialized \/ "close_allocated" \in Misuse)
    BY DEF Close, Becomes, IInv, TypeOK
  <1> HIDE DEF s, t
  <1>3. /\ e \in HandleState /\ SameHolders(s, e) /\ e.closed = TRUE /\ Known(e)
        /\ Told(e, at = InClose(h)) /\ e.data = (IF s.initialized THEN "live" ELSE "freed")
        /\ Reached(s) => Reached(e)
    BY <1>1, <1>2, CloseForEffect DEF Good
  <1> HIDE DEF e
  <1>4. /\ d \in HandleState
        /\ d.kind = e.kind /\ d.refs = e.refs /\ d.clips = e.clips
        /\ d.captured = e.captured /\ d.paper = FALSE /\ d.data = e.data
        /\ d.initialized = e.initialized /\ d.closed = e.closed /\ d.uv = e.uv
        /\ d.log = e.log /\ d.detached = e.detached /\ d.asked = e.asked
        /\ d.fault = e.fault
    BY <1>3, DetachEffect
  <1>5. f = (IF d.data = "live" THEN d ELSE Fault(d, "close"))
    BY DEF HandleCloseFor, e
  <1> HIDE DEF d, f
  <1>6. /\ f \in HandleState /\ f.paper = FALSE /\ f.data = d.data /\ f.kind = d.kind
        /\ f.initialized = d.initialized /\ f.closed = d.closed /\ f.uv = d.uv
        /\ f.log = d.log /\ f.fault \subseteq d.fault \cup {"close"}
        /\ s.initialized => f.fault = d.fault
    BY <1>3, <1>4, <1>5, FaultEffect DEF FaultSites
  <1>7. /\ t \in HandleState /\ t.asked = TRUE /\ t.paper = f.paper /\ t.data = f.data
        /\ t.kind = f.kind
        /\ t.initialized = f.initialized /\ t.closed = f.closed /\ t.uv = f.uv
        /\ t.log = f.log /\ t.fault = f.fault
    BY <1>2, <1>6 DEF HandleState
  <1>8. Good(t, at = InClose(h))
    <2>1. t.data \in {"live", "freed"}
      BY <1>3, <1>4, <1>6, <1>7
    <2> QED BY <2>1, <1>3, <1>4, <1>6, <1>7 DEF Good, Ownership, Known, Told
  <1>9. Sound(t)
    BY <1>1, <1>2, <1>3, <1>4, <1>6, <1>7 DEF Sound, SameHolders
  <1>10. "reset_shutting" \notin Misuse => Reached(t)
    BY <1>1, <1>3, <1>4, <1>6, <1>7 DEF Reached
  <1>11. s.initialized => t.data = "live" /\ t.initialized
    BY <1>3, <1>4, <1>6, <1>7 DEF SameHolders
  <1> QED BY <1>1, <1>2, <1>7, <1>8, <1>9, <1>10, <1>11 DEF LocalStep, Moves, Keeps, Cause, s, t

LEMMA CloseResetRefusedSteps ==
    ASSUME IInv, NEW h \in Handles, CloseResetRefused(h)
    PROVE  LocalStep(h)
  <1> DEFINE s == handle[h]
             t == handle'[h]
  <1>1. Good(s, at = InClose(h)) /\ Sound(s)
        /\ ("reset_shutting" \notin Misuse => Reached(s))
        /\ (at = InEvent(h) => s.data = "live" /\ s.initialized)
    BY DEF IInv
  <1> DEFINE d == Detach(s)
  <1>2. /\ t = [d EXCEPT !.closed = TRUE, !.asked = TRUE]
        /\ handle' = [handle EXCEPT ![h] = t] /\ at' = at
        /\ s.data = "live" /\ ~s.closed /\ s.kind = "tcp" /\ "reset_shutting" \in Misuse
    BY DEF CloseResetRefused, Becomes, IInv, TypeOK
  <1> HIDE DEF s, t
  <1>3. /\ d \in HandleState
        /\ d.kind = s.kind /\ d.refs = s.refs /\ d.clips = s.clips
        /\ d.captured = s.captured /\ d.paper = FALSE /\ d.data = s.data
        /\ d.initialized = s.initialized /\ d.closed = s.closed /\ d.uv = s.uv
        /\ d.log = s.log /\ d.detached = s.detached /\ d.asked = s.asked
        /\ d.fault = s.fault
    BY <1>1, DetachEffect DEF Good
  <1> HIDE DEF d
  <1>4. /\ t \in HandleState
        /\ t.kind = d.kind /\ t.refs = d.refs /\ t.clips = d.clips
        /\ t.captured = d.captured /\ t.paper = d.paper /\ t.data = d.data
        /\ t.initialized = d.initialized /\ t.closed = TRUE /\ t.uv = d.uv
        /\ t.log = d.log /\ t.detached = d.detached /\ t.asked = TRUE
        /\ t.fault = d.fault
    BY <1>2, <1>3 DEF HandleState
  <1>5. Good(t, at = InClose(h))
    BY <1>1, <1>2, <1>3, <1>4 DEF Good, Ownership, Known, Told
  <1>6. Sound(t)
    BY <1>1, <1>3, <1>4 DEF Sound
  <1> QED BY <1>1, <1>2, <1>3, <1>4, <1>5, <1>6 DEF LocalStep, Moves, Keeps, Cause, s, t

LEMMA UserStepSteps ==
    ASSUME IInv, NEW h \in Handles, UserStep(h), "process" \notin Kinds
    PROVE  LocalStep(h)
BY ConstructSteps, CopyRefSteps, DropRefSteps, AssignSteps, CaptureSteps, DropClipSteps,
   InitHandleSteps, StartSteps, StopSteps, UserDetachSteps, CloseSteps,
   CloseResetRefusedSteps DEF UserStep

-----------------------------------------------------------------------------
(* The steps of the loop.                                                  *)
LEMMA EventSteps ==
    ASSUME IInv, NEW h \in Handles, Event(h), "process" \notin Kinds
    PROVE  LocalStep(h)
  <1> DEFINE s == handle[h]
             t == handle'[h]
  <1>1. Good(s, at = InClose(h)) /\ Sound(s)
        /\ ("reset_shutting" \notin Misuse => Reached(s))
        /\ (at = InEvent(h) => s.data = "live" /\ s.initialized)
    BY DEF IInv
  <1> DEFINE u == [s EXCEPT !.uv = IF Trait(s).once THEN "idle" ELSE @]
  <1>2. /\ at = User /\ at' = InEvent(h) /\ s.uv = "active"
        /\ handle' = [handle EXCEPT ![h] = t]
        /\ t = (IF s.data = "live" THEN u ELSE Fault(u, "event"))
    BY DEF Event, Becomes, IInv, TypeOK
  <1> HIDE DEF s, t
  <1>3. s.data = "live" /\ s.initialized
    BY <1>1, <1>2 DEF Good, Known
  <1>4. at # InClose(h) /\ at' # InClose(h)
    BY <1>2, PlacesDiffer
  <1>5. /\ t \in HandleState /\ t.uv \in {"idle", "active"}
        /\ t.kind = s.kind /\ t.refs = s.refs /\ t.clips = s.clips
        /\ t.captured = s.captured /\ t.paper = s.paper /\ t.data = s.data
        /\ t.initialized = s.initialized /\ t.closed = s.closed /\ t.log = s.log
        /\ t.detached = s.detached /\ t.fault = s.fault
    BY <1>1, <1>2, <1>3 DEF Good, HandleState
  <1>6. Good(t, FALSE)
    BY <1>1, <1>3, <1>4, <1>5 DEF Good, Ownership, Known, Told, Clipped
  <1>7. Sound(t) /\ ("reset_shutting" \notin Misuse => Reached(t))
    BY <1>1, <1>2, <1>5 DEF Sound, Reached
  <1> QED BY <1>2, <1>3, <1>4, <1>5, <1>6, <1>7 DEF LocalStep, Moves, Keeps, Cause, s, t

LEMMA EventReturnsSteps ==
    ASSUME IInv, NEW h \in Handles, EventReturns(h), "process" \notin Kinds
    PROVE  LocalStep(h)
  <1> DEFINE s == handle[h]
             t == handle'[h]
  <1>1. Good(s, at = InClose(h)) /\ Sound(s)
        /\ ("reset_shutting" \notin Misuse => Reached(s))
        /\ (at = InEvent(h) => s.data = "live" /\ s.initialized)
    BY DEF IInv
  <1>2. Trait(s).closes = FALSE
    BY <1>1, KindsAssumption, OnlyProcessCloses DEF Good, HandleState
  <1>3. t = s /\ handle' = [handle EXCEPT ![h] = t] /\ at = InEvent(h) /\ at' = User
    BY <1>2 DEF EventReturns, Becomes, IInv, TypeOK
  <1>4. at # InClose(h) /\ at' # InClose(h) /\ at' # InEvent(h)
    BY <1>3, PlacesDiffer
  <1> HIDE DEF s, t
  <1> QED BY <1>1, <1>3, <1>4 DEF LocalStep, Moves, Keeps, Cause, s, t

LEMMA EventThrowsSteps ==
    ASSUME IInv, NEW h \in Handles, EventThrows(h)
    PROVE  LocalStep(h)
  <1> DEFINE s == handle[h]
             t == handle'[h]
  <1>1. Good(s, at = InClose(h)) /\ Sound(s)
        /\ ("reset_shutting" \notin Misuse => Reached(s))
        /\ (at = InEvent(h) => s.data = "live" /\ s.initialized)
    BY DEF IInv
  <1> DEFINE w == Watch(s)
  <1>2. /\ at = InEvent(h) /\ at' = User /\ handle' = [handle EXCEPT ![h] = t]
        /\ t = [w EXCEPT !.asked = TRUE]
        /\ ClipsAsDocumented => s.clips = 0 \/ ~s.paper
    BY DEF EventThrows, Becomes, IInv, TypeOK, ClipsAsDocumented
  <1>3. at # InClose(h) /\ at' # InClose(h) /\ at' # InEvent(h)
    BY <1>2, PlacesDiffer
  <1>4. w = CloseFor(s)
    BY <1>1, <1>2 DEF Watch
  <1> HIDE DEF s, t, w
  <1>5. /\ w \in HandleState /\ SameHolders(s, w) /\ w.closed = TRUE /\ Known(w)
        /\ Told(w, FALSE) /\ w.data = "live" /\ (Reached(s) => Reached(w))
    BY <1>1, <1>2, <1>3, <1>4, CloseForEffect DEF Good
  <1>6. /\ t \in HandleState
        /\ t.kind = w.kind /\ t.refs = w.refs /\ t.clips = w.clips
        /\ t.captured = w.captured /\ t.paper = w.paper /\ t.data = w.data
        /\ t.initialized = w.initialized /\ t.closed = w.closed /\ t.uv = w.uv
        /\ t.log = w.log /\ t.detached = w.detached /\ t.asked = TRUE
        /\ t.fault = w.fault
    BY <1>2, <1>5 DEF HandleState
  <1>7. s.paper => s.detached = "no"
    BY <1>1 DEF Good, Ownership
  <1>8. Good(t, FALSE)
    BY <1>5, <1>6, <1>7 DEF Good, Ownership, Known, Told, SameHolders
  <1>9. Sound(t) /\ ("reset_shutting" \notin Misuse => Reached(t))
    BY <1>1, <1>2, <1>5, <1>6 DEF Sound, Reached, SameHolders
  <1> QED BY <1>2, <1>3, <1>6, <1>8, <1>9 DEF LocalStep, Moves, Keeps, Cause, s, t

LEMMA CloseCallbackSteps ==
    ASSUME IInv, NEW h \in Handles, CloseCallback(h)
    PROVE  LocalStep(h)
  <1> DEFINE s == handle[h]
             t == handle'[h]
  <1>1. Good(s, at = InClose(h)) /\ Sound(s)
        /\ ("reset_shutting" \notin Misuse => Reached(s))
        /\ (at = InEvent(h) => s.data = "live" /\ s.initialized)
    BY DEF IInv
  <1> DEFINE u == [s EXCEPT !.uv = "closed"]
  <1>2. /\ at = User /\ at' = InClose(h) /\ s.uv = "closing"
        /\ handle' = [handle EXCEPT ![h] = t]
        /\ t = (IF u.data = "live" THEN [u EXCEPT !.log = Append(@, "then")]
               ELSE Fault(u, "close_callback"))
    BY DEF CloseCallback, Becomes, IInv, TypeOK
  <1>3. at # InClose(h) /\ at' # InEvent(h)
    BY <1>2, PlacesDiffer
  <1> HIDE DEF s, t
  <1>4. s.data = "live" /\ s.initialized /\ s.closed /\ s.log = <<>>
    BY <1>1, <1>2, <1>3 DEF Good, Known, Told
  <1>5. /\ u \in HandleState
        /\ u.kind = s.kind /\ u.refs = s.refs /\ u.clips = s.clips
        /\ u.captured = s.captured /\ u.paper = s.paper /\ u.data = s.data
        /\ u.initialized = s.initialized /\ u.closed = s.closed
        /\ u.uv = "closed" /\ u.log = s.log /\ u.detached = s.detached
        /\ u.asked = s.asked /\ u.fault = s.fault
    BY <1>1 DEF Good, HandleState
  <1> HIDE DEF u
  <1>6. t = [u EXCEPT !.log = <<"then">>]
    BY <1>2, <1>4, <1>5, LogGrows
  <1>7. /\ t \in HandleState
        /\ t.kind = u.kind /\ t.refs = u.refs /\ t.clips = u.clips
        /\ t.captured = u.captured /\ t.paper = u.paper /\ t.data = u.data
        /\ t.initialized = u.initialized /\ t.closed = u.closed /\ t.uv = u.uv
        /\ t.log = <<"then">> /\ t.detached = u.detached /\ t.asked = u.asked
        /\ t.fault = u.fault
    BY <1>5, <1>6 DEF HandleState
  <1>8. Good(t, TRUE)
    BY <1>1, <1>4, <1>5, <1>7 DEF Good, Ownership, Known, Told
  <1>9. Sound(t) /\ ("reset_shutting" \notin Misuse => Reached(t))
    BY <1>1, <1>5, <1>7 DEF Sound, Reached
  <1> QED BY <1>2, <1>3, <1>4, <1>5, <1>7, <1>8, <1>9 DEF LocalStep, Moves, Keeps, Cause, s, t

LEMMA CloseCallbackReturnsSteps ==
    ASSUME IInv, NEW h \in Handles, CloseCallbackReturns(h)
    PROVE  LocalStep(h)
  <1> DEFINE s == handle[h]
             t == handle'[h]
  <1>1. Good(s, at = InClose(h)) /\ Sound(s)
        /\ ("reset_shutting" \notin Misuse => Reached(s))
        /\ (at = InEvent(h) => s.data = "live" /\ s.initialized)
    BY DEF IInv
  <1> DEFINE f == [s EXCEPT !.log = Append(@, "finally")]
  <1>2. /\ at = InClose(h) /\ at' = User /\ handle' = [handle EXCEPT ![h] = t]
        /\ t = DeleteData(f)
    BY DEF CloseCallbackReturns, Becomes, IInv, TypeOK
  <1>3. at' # InClose(h) /\ at' # InEvent(h)
    BY <1>2, PlacesDiffer
  <1> HIDE DEF s, t
  <1>4. s.uv = "closed" /\ s.closed /\ s.log = <<"then">> /\ s.initialized
    BY <1>1, <1>2 DEF Good, Known, Told
  <1>5. f = [s EXCEPT !.log = <<"then", "finally">>]
    BY <1>4, LogGrows
  <1>6. /\ f \in HandleState
        /\ f.kind = s.kind /\ f.refs = s.refs /\ f.clips = s.clips
        /\ f.captured = s.captured /\ f.paper = s.paper /\ f.data = s.data
        /\ f.initialized = s.initialized /\ f.closed = s.closed /\ f.uv = s.uv
        /\ f.log = <<"then", "finally">> /\ f.detached = s.detached
        /\ f.asked = s.asked /\ f.fault = s.fault
    BY <1>1, <1>5 DEF Good, HandleState
  <1> HIDE DEF f
  <1>7. /\ t \in HandleState /\ SameHolders(f, t) /\ t.data = "freed"
        /\ t.closed = f.closed /\ t.uv = f.uv /\ t.log = f.log
    BY <1>2, <1>6, DeleteDataEffect
  <1>8. Good(t, FALSE)
    BY <1>1, <1>4, <1>6, <1>7 DEF Good, Ownership, Known, Told, SameHolders
  <1>9. Sound(t) /\ ("reset_shutting" \notin Misuse => Reached(t))
    BY <1>1, <1>4, <1>6, <1>7 DEF Sound, Reached, SameHolders
  <1> QED BY <1>2, <1>3, <1>4, <1>8, <1>9 DEF LocalStep, Moves, Keeps, Cause, s, t

LEMMA LoopStepSteps ==
    ASSUME IInv, NEW h \in Handles, LoopStep(h), "process" \notin Kinds
    PROVE  LocalStep(h)
BY EventSteps, EventReturnsSteps, EventThrowsSteps, CloseCallbackSteps,
   CloseCallbackReturnsSteps DEF LoopStep

-----------------------------------------------------------------------------
(* The invariant.                                                          *)
LEMMA InitIInv ==
    ASSUME Init
    PROVE  IInv
  <1>1. at = User
    BY DEF Init
  <1>2. ASSUME NEW h \in Handles
        PROVE  /\ Good(handle[h], at = InClose(h))
               /\ at # InEvent(h) /\ Sound(handle[h]) /\ Reached(handle[h])
    <2>1. PICK k \in Kinds : handle[h] = Unmade(k)
      BY DEF Init
    <2> DEFINE s == Unmade(k)
    <2>2. /\ s \in HandleState /\ s.kind = k /\ s.data = "none" /\ s.paper = FALSE
          /\ s.uv = "none" /\ s.initialized = FALSE /\ s.closed = FALSE /\ s.log = <<>>
          /\ s.fault = {}
      BY BoundsAssumption DEF Unmade, HandleState
    <2>3. at # InClose(h) /\ at # InEvent(h)
      BY <1>1, PlacesDiffer
    <2> HIDE DEF s
    <2>4. Ownership(s)
      <3>1. s = Unmade(s.kind)
        BY <2>2 DEF s
      <3> QED BY <3>1, <2>2 DEF Ownership
    <2>5. Known(s) /\ Told(s, FALSE) /\ Sound(s) /\ Reached(s)
      BY <2>2 DEF Known, Told, Sound, Reached
    <2> QED BY <2>1, <2>2, <2>3, <2>4, <2>5 DEF Good, s
  <1>3. handle \in [Handles -> HandleState]
    BY <1>2 DEF Init, Good
  <1> QED BY <1>1, <1>2, <1>3 DEF IInv, TypeOK

LEMMA NextSteps ==
    ASSUME IInv, Next, "process" \notin Kinds
    PROVE  \E h \in Handles : LocalStep(h)
BY UserStepSteps, LoopStepSteps DEF Next

LEMMA StutterKeepsIInv ==
    ASSUME IInv, UNCHANGED vars
    PROVE  IInv'
BY DEF IInv, vars, TypeOK

(* The invariant holds of every handle but a process, whatever the program *)
(* does, within the documented lifecycle or outside.                       *)
THEOREM IInvHolds ==
    ASSUME "process" \notin Kinds
    PROVE  SafeSpec => []IInv
  <1>1. Init => IInv
    BY InitIInv
  <1>2. IInv /\ [Next]_vars => IInv'
    BY NextSteps, LocalStepKeepsIInv, StutterKeepsIInv
  <1> QED BY <1>1, <1>2, PTL DEF SafeSpec

(* Types: among them, that a close promise is resolved at most once and    *)
(* finalized at most once, after it was resolved.                          *)
THEOREM TypeCorrect ==
    ASSUME "process" \notin Kinds
    PROVE  SafeSpec => []TypeOK
  <1>1. IInv => TypeOK
    BY DEF IInv
  <1> QED BY <1>1, IInvHolds, PTL

(* Whatever the program does, the library reads freed memory in at most    *)
(* two places: the clip's paper, and close() after it closed.  uv_close,   *)
(* events, close_handle and close callbacks never meet any.                *)
THEOREM OtherReadsAreSafe ==
    ASSUME "process" \notin Kinds
    PROVE  SafeSpec => [](\A h \in Handles : handle[h].fault \subseteq {"close", "paper"})
  <1>1. IInv => \A h \in Handles : handle[h].fault \subseteq {"close", "paper"}
    BY DEF IInv, Sound
  <1> QED BY <1>1, IInvHolds, PTL

(* close() reads what it released only of a handle closed before init:     *)
(* MCCloseAllocated shows the one way to it.                               *)
THEOREM CloseKeepsItsPromiseHolds ==
    ASSUME "process" \notin Kinds, "close_allocated" \notin Misuse
    PROVE  SafeSpec => []CloseKeepsItsPromise
  <1>1. IInv => CloseKeepsItsPromise
    BY DEF IInv, Sound, CloseKeepsItsPromise
  <1> QED BY <1>1, IInvHolds, PTL

(* The paper reads a raw handle that is gone only if the program keeps a   *)
(* callback2 beyond a close by close_handle, or assigns over the last      *)
(* handle_t after one: MCClipOutlives shows the first way.                 *)
THEOREM ClipsAreSafeHolds ==
    ASSUME "process" \notin Kinds, {"clip_outlives", "assign_closed"} \cap Misuse = {}
    PROVE  SafeSpec => []ClipsAreSafe
  <1>1. IInv => ClipsAreSafe
    BY DEF IInv, Sound, ClipsAsDocumented, ClipsAreSafe
  <1> QED BY <1>1, IInvHolds, PTL

(* Within the documented lifecycle, where only a refused close_reset is    *)
(* left of the misuses, the library reads no freed data_t or raw handle,   *)
(* and calls uv_close only where it may.                                   *)
THEOREM NoFaultHolds ==
    ASSUME "process" \notin Kinds, Misuse \subseteq {"reset_shutting"}
    PROVE  SafeSpec => []NoFault
  <1>1. "close_allocated" \notin Misuse /\ ClipsAsDocumented
    BY DEF ClipsAsDocumented
  <1>2. IInv => NoFault
    <2> SUFFICES ASSUME IInv, NEW h \in Handles PROVE handle[h].fault = {}
      BY DEF NoFault
    <2>1. /\ handle[h].fault \subseteq {"close", "paper"}
          /\ "close" \notin handle[h].fault /\ "paper" \notin handle[h].fault
      BY <1>1 DEF IInv, Sound
    <2> QED BY <2>1
  <1> QED BY <1>2, IInvHolds, PTL

(* Memory that libuv was given outlives libuv's use of it, and a data_t is *)
(* released only afterwards: even when the program misuses the library.    *)
THEOREM MemoryOutlivesUvHolds ==
    ASSUME "process" \notin Kinds
    PROVE  SafeSpec => []MemoryOutlivesUv
  <1>1. IInv => RawOutlivesUv
    BY DEF IInv, Good, Known, RawOutlivesUv, RawAlive
  <1>2. IInv => DataOutlivesUv
    BY DEF IInv, Good, Known, Told, HandleState, DataOutlivesUv
  <1>3. IInv => MemoryOutlivesUv
    BY <1>1, <1>2 DEF MemoryOutlivesUv
  <1> QED BY <1>3, IInvHolds, PTL

(* A handle that the library regards as closed was given to uv_close,      *)
(* unless a close_reset was refused.                                       *)
THEOREM ClosedReachesUvHolds ==
    ASSUME "process" \notin Kinds, "reset_shutting" \notin Misuse
    PROVE  SafeSpec => []ClosedReachesUv
  <1>1. IInv => ClosedReachesUv
    BY DEF IInv, Good, Reached, HandleState, ClosedReachesUv
  <1> QED BY <1>1, IInvHolds, PTL

(* An attached handle that nobody refers to is closed.                     *)
THEOREM AttachedIsRecycledHolds ==
    ASSUME "process" \notin Kinds
    PROVE  SafeSpec => []AttachedIsRecycled
  <1>1. IInv => AttachedIsRecycled
    BY DEF IInv, Good, Ownership, HandleState, AttachedIsRecycled
  <1> QED BY <1>1, IInvHolds, PTL

(* A handle is closed only because the program asked, or because it was    *)
(* attached and its last holder went.                                      *)
THEOREM ClosedForCauseHolds ==
    ASSUME "process" \notin Kinds
    PROVE  SafeSpec => ClosedForCause
  <1> DEFINE A == \A h \in Handles : handle'[h].closed /\ ~handle[h].closed =>
                     \/ handle'[h].asked
                     \/ handle[h].detached = "no" /\ ~Clipped(handle'[h])
  <1>1. IInv /\ [Next]_vars => [A]_vars
    <2> SUFFICES ASSUME IInv, Next PROVE A
      OBVIOUS
    <2>1. PICK h \in Handles : LocalStep(h)
      BY NextSteps
    <2>2. ASSUME NEW g \in Handles, g # h PROVE handle'[g] = handle[g]
      BY <2>1, <2>2 DEF LocalStep, IInv, TypeOK
    <2>3. Cause(h)
      BY <2>1 DEF LocalStep
    <2> QED BY <2>2, <2>3 DEF Cause
  <1> QED BY <1>1, IInvHolds, PTL DEF SafeSpec, ClosedForCause

-----------------------------------------------------------------------------
(* The states of a handle's life, and that its steps follow their order.   *)

(* What each state of the abstract handle says of the record.              *)
LEMMA LifeOf ==
    ASSUME NEW s, NEW c \in BOOLEAN, Good(s, c)
    PROVE  /\ s.data = "none" => Life(s) = "unmade"
           /\ s.data = "live" /\ s.uv = "none" => Life(s) = "allocated"
           /\ s.data = "live" /\ s.uv \in {"idle", "active"} => Life(s) = "open"
           /\ s.data = "live" /\ s.uv = "closing" => Life(s) = "closing"
           /\ s.data = "live" /\ s.uv = "closed" => Life(s) = "closed"
           /\ Life(s) = "closed" => c
  <1>1. s.data \in {"none", "live", "freed"}
        /\ s.uv \in {"none", "idle", "active", "closing", "closed"}
    BY DEF Good, HandleState
  <1>2. s.data = "live" /\ ~c => s.log = <<>> /\ s.uv # "closed"
    BY DEF Good, Told
  <1>3. c => s.data = "live" /\ s.uv = "closed" /\ s.log = <<"then">>
    BY DEF Good, Told
  <1> QED BY <1>1, <1>2, <1>3 DEF Life

(* Steps that do not change the state a handle is in.                      *)
SameLife(s, t) ==
    /\ t.data = s.data
    /\ t.log = s.log
    /\ t.uv = s.uv \/ {s.uv, t.uv} \subseteq {"idle", "active"}

(* What a close does: it begins, or there is nothing to wait for.          *)
Closes(s, t) ==
    /\ s.data = "live" /\ t.data = "live"
    /\ s.uv \in {"idle", "active"} /\ t.uv = "closing"

Discards(s, t) ==
    /\ s.data = "live" /\ s.uv = "none"
    /\ t.data = "freed" /\ t.uv = "none" /\ t.log = <<"finally">>

Ages(s, t) == SameLife(s, t) \/ Closes(s, t) \/ Discards(s, t)

LEMMA CloseForAges ==
    ASSUME NEW s \in HandleState, NEW c \in BOOLEAN,
           s.data = "live", Known(s), Told(s, c)
    PROVE  Ages(s, CloseFor(s))
  <1> DEFINE t == CloseFor(s)
             m == [s EXCEPT !.closed = TRUE]
  <1>1. CASE s.closed
    <2>1. t = s
      BY <1>1 DEF CloseFor
    <2> QED BY <2>1 DEF Ages, SameLife
  <1>2. CASE ~s.closed /\ s.initialized
    <2>1. s.uv \in {"idle", "active"}
      BY <1>2 DEF Known, HandleState
    <2>2. t = [m EXCEPT !.uv = "closing"]
      BY <1>2, <2>1 DEF CloseFor, UvClose, HandleState
    <2>3. t.data = "live" /\ t.uv = "closing"
      BY <2>2 DEF HandleState
    <2> QED BY <2>1, <2>3 DEF Ages, Closes
  <1>3. CASE ~s.closed /\ ~s.initialized
    <2> DEFINE f == [m EXCEPT !.log = Append(@, "finally")]
    <2>1. s.uv = "none" /\ s.log = <<>>
      BY <1>3 DEF Known, Told, HandleState
    <2>2. m \in HandleState /\ m.log = s.log /\ m.uv = s.uv /\ ~m.initialized
      BY <1>3 DEF HandleState
    <2>3. f = [m EXCEPT !.log = <<"finally">>]
      BY <2>1, <2>2, LogGrows
    <2>4. t = DeleteData(f)
      BY <1>3, <2>2 DEF CloseFor, RawNonInitializedClose
    <2> HIDE DEF f, m, t
    <2>5. f \in HandleState /\ f.log = <<"finally">> /\ f.uv = "none"
      BY <2>1, <2>2, <2>3 DEF HandleState
    <2>6. t.data = "freed" /\ t.uv = "none" /\ t.log = <<"finally">>
      BY <2>4, <2>5, DeleteDataEffect
    <2> QED BY <2>1, <2>6 DEF Ages, Discards, t
  <1> QED BY <1>1, <1>2, <1>3

(* The paper reads raw->data, and closes at most.                          *)
LEMMA ClipGoesAges ==
    ASSUME NEW s \in HandleState, NEW c \in BOOLEAN, NEW rawAlive \in BOOLEAN,
           Known(s), Told(s, c), s.data = "live" => rawAlive
    PROVE  Ages(s, ClipGoes(s, rawAlive))
  <1> DEFINE p == Paper(s, rawAlive)
             t == ClipGoes(s, rawAlive)
  <1>1. CASE Clipped(s) \/ ~s.paper
    <2>1. t = s
      BY <1>1 DEF ClipGoes
    <2> QED BY <2>1 DEF Ages, SameLife
  <1>2. CASE ~(Clipped(s) \/ ~s.paper)
    <2>1. t = Detach(p)
      BY <1>2 DEF ClipGoes
    <2>2. p \in HandleState /\ Ages(s, p)
      <3>1. CASE s.data = "live"
        <4>1. p = CloseFor(s)
          BY <3>1 DEF Paper
        <4> QED BY <3>1, <4>1, CloseForEffect, CloseForAges
      <3>2. CASE s.data # "live"
        <4>1. p = s \/ p = Fault(s, "paper")
          BY <3>2 DEF Paper
        <4> HIDE DEF p
        <4>2. p \in HandleState /\ p.data = s.data /\ p.uv = s.uv /\ p.log = s.log
          BY <4>1, FaultEffect DEF FaultSites
        <4> QED BY <4>2 DEF Ages, SameLife
      <3> QED BY <3>1, <3>2
    <2> HIDE DEF p, t
    <2>3. t.data = p.data /\ t.uv = p.uv /\ t.log = p.log
      BY <2>1, <2>2, DetachEffect
    <2> QED BY <2>2, <2>3 DEF Ages, SameLife, Closes, Discards, t
  <1> QED BY <1>1, <1>2

(* A step of one handle that leaves it where it is or closes it.           *)
AgingStep(h) ==
    /\ handle' = [handle EXCEPT ![h] = handle'[h]]
    /\ Ages(handle[h], handle'[h])

(* The loss of a holder.                                                   *)
LEMMA LossAges ==
    ASSUME IInv, NEW h \in Handles, NEW d, NEW rawAlive \in BOOLEAN,
           d \in HandleState,
           d.data = handle[h].data, d.uv = handle[h].uv, d.log = handle[h].log,
           d.closed = handle[h].closed, d.initialized = handle[h].initialized,
           d.kind = handle[h].kind,
           d.data = "live" => rawAlive,
           handle' = [handle EXCEPT ![h] = ClipGoes(d, rawAlive)]
    PROVE  AgingStep(h)
  <1> DEFINE s == handle[h]
             t == ClipGoes(d, rawAlive)
  <1>1. handle'[h] = t /\ handle' = [handle EXCEPT ![h] = handle'[h]]
    BY DEF IInv, TypeOK
  <1>2. Known(d) /\ Told(d, at = InClose(h))
    BY DEF IInv, Good, Known, Told
  <1>3. Ages(d, t)
    BY <1>2, ClipGoesAges
  <1> HIDE DEF t
  <1>4. Ages(s, t)
    BY <1>3 DEF Ages, SameLife, Closes, Discards
  <1> QED BY <1>1, <1>4 DEF AgingStep

LEMMA HolderStepsAge ==
    ASSUME IInv, NEW h \in Handles, DropRef(h) \/ Assign(h) \/ DropClip(h)
    PROVE  AgingStep(h)
  <1> DEFINE s == handle[h]
             r == [s EXCEPT !.refs = @ - 1]
             l == [s EXCEPT !.clips = @ - 1]
             d == [l EXCEPT !.captured = @ /\ (l.data = "live" \/ l.clips > 0)]
  <1>1. s \in HandleState
    BY DEF IInv, Good
  <1>2. ASSUME s.refs > 0
        PROVE  /\ r \in HandleState /\ r.data = s.data /\ r.uv = s.uv /\ r.log = s.log
               /\ r.closed = s.closed /\ r.initialized = s.initialized /\ r.kind = s.kind
    <2>1. s.refs - 1 \in 0 .. MaxRefs
      BY <1>1, <1>2, BoundsAssumption DEF HandleState
    <2> QED BY <1>1, <2>1 DEF HandleState
  <1>3. ASSUME s.clips > 0
        PROVE  /\ d \in HandleState /\ d.data = s.data /\ d.uv = s.uv /\ d.log = s.log
               /\ d.closed = s.closed /\ d.initialized = s.initialized /\ d.kind = s.kind
               /\ l.data = s.data
    <2>1. s.clips - 1 \in 0 .. MaxClips
      BY <1>1, <1>3, BoundsAssumption DEF HandleState
    <2>2. l \in HandleState /\ l.data = s.data
      BY <1>1, <2>1 DEF HandleState
    <2>3. (l.captured /\ (l.data = "live" \/ l.clips > 0)) \in BOOLEAN
      OBVIOUS
    <2> QED BY <1>1, <2>1, <2>2, <2>3 DEF HandleState
  <1>4. CASE DropRef(h)
    <2>1. s.refs > 0 /\ handle' = [handle EXCEPT ![h] = ClipGoes(r, TRUE)]
      BY <1>4 DEF DropRef, Becomes
    <2> HIDE DEF r
    <2> QED BY <1>2, <2>1, LossAges
  <1>5. CASE Assign(h)
    <2>1. s.refs > 0 /\ handle' = [handle EXCEPT ![h] = ClipGoes(r, RawAlive(r))]
      BY <1>5 DEF Assign, Becomes
    <2>2. RawAlive(r) \in BOOLEAN /\ (r.data = "live" => RawAlive(r))
      BY DEF RawAlive
    <2> HIDE DEF r
    <2> QED BY <1>2, <2>1, <2>2, LossAges
  <1>6. CASE DropClip(h)
    <2>1. s.clips > 0 /\ handle' = [handle EXCEPT ![h] = ClipGoes(d, RawAlive(l))]
      BY <1>6 DEF DropClip, Becomes
    <2>2. RawAlive(l) \in BOOLEAN /\ (l.data = "live" => RawAlive(l))
      BY DEF RawAlive
    <2> HIDE DEF d, l
    <2> QED BY <1>3, <2>1, <2>2, LossAges
  <1> QED BY <1>4, <1>5, <1>6

LEMMA CloseAges ==
    ASSUME IInv, NEW h \in Handles, Close(h)
    PROVE  AgingStep(h)
  <1> DEFINE s == handle[h]
             t == handle'[h]
             e == CloseFor(s)
             d == Detach(e)
             f == HandleCloseFor(s)
  <1>1. /\ t = [f EXCEPT !.asked = TRUE] /\ handle' = [handle EXCEPT ![h] = t]
        /\ s.data = "live"
    BY DEF Close, Becomes, IInv, TypeOK
  <1>2. s \in HandleState /\ Known(s) /\ Told(s, at = InClose(h))
    BY DEF IInv, Good
  <1>3. f = (IF d.data = "live" THEN d ELSE Fault(d, "close"))
    BY DEF HandleCloseFor
  <1> HIDE DEF s, t, f
  <1>4. e \in HandleState /\ Ages(s, e)
    BY <1>1, <1>2, CloseForEffect, CloseForAges
  <1> HIDE DEF e
  <1>5. d \in HandleState /\ d.data = e.data /\ d.uv = e.uv /\ d.log = e.log
    BY <1>4, DetachEffect
  <1> HIDE DEF d
  <1>6. f \in HandleState /\ f.data = d.data /\ f.uv = d.uv /\ f.log = d.log
    BY <1>3, <1>5, FaultEffect DEF FaultSites
  <1>7. t.data = f.data /\ t.uv = f.uv /\ t.log = f.log
    BY <1>1, <1>6 DEF HandleState
  <1>8. Ages(s, t)
    BY <1>4, <1>5, <1>6, <1>7 DEF Ages, SameLife, Closes, Discards
  <1> QED BY <1>1, <1>8 DEF AgingStep, s, t

(* Calls and events that change nothing that the abstract handle sees.     *)
LEMMA UseAges ==
    ASSUME IInv, NEW h \in Handles, "process" \notin Kinds,
           \/ CopyRef(h) \/ Capture(h) \/ Start(h) \/ Stop(h) \/ UserDetach(h)
           \/ CloseResetRefused(h) \/ Event(h)
    PROVE  AgingStep(h)
  <1> DEFINE s == handle[h]
             t == handle'[h]
  <1>1. s \in HandleState /\ s.kind # "process" /\ (s.uv = "active" => s.data = "live")
    BY DEF IInv, Good, HandleState, Known
  <1>2. handle' = [handle EXCEPT ![h] = t]
    BY DEF CopyRef, Capture, Start, Stop, UserDetach, CloseResetRefused, Event, Becomes,
           IInv, TypeOK
  <1>3. SameLife(s, t)
    <2>1. CASE CopyRef(h) \/ Capture(h)
      <3>1. t = [s EXCEPT !.refs = @ + 1] \/ t = [s EXCEPT !.captured = TRUE]
        BY <2>1 DEF CopyRef, Capture, Becomes, IInv, TypeOK
      <3> QED BY <1>1, <3>1 DEF HandleState, SameLife
    <2>2. CASE Start(h)
      <3> DEFINE u == [s EXCEPT !.uv = "active"]
                 d == [Detach(u) EXCEPT !.detached = IF @ = "no" THEN "library" ELSE @]
      <3>1. s.uv \in {"idle", "active"} /\ \E x \in {u, d} : t \in Returned(x) \/ t = x
        BY <1>1, <2>2 DEF Start, Becomes, IInv, TypeOK
      <3>2. PICK x \in {u, d} : t \in Returned(x) \/ t = x
        BY <3>1
      <3>3. u \in HandleState /\ u.data = s.data /\ u.log = s.log /\ u.uv = "active"
        BY <1>1 DEF HandleState
      <3> HIDE DEF u, t
      <3>4. d \in HandleState /\ d.data = s.data /\ d.log = s.log /\ d.uv = "active"
        BY <3>3, DetachEffect DEF HandleState
      <3> HIDE DEF d
      <3>5. x \in HandleState /\ x.data = s.data /\ x.log = s.log /\ x.uv = "active"
        BY <3>2, <3>3, <3>4
      <3>6. t.data = x.data /\ t.log = x.log /\ t.uv = x.uv
        <4>1. t = x \/ t = [x EXCEPT !.clips = @ + 1]
          BY <3>2 DEF Returned
        <4> QED BY <4>1, <3>5 DEF HandleState
      <3> QED BY <3>1, <3>5, <3>6 DEF SameLife
    <2>3. CASE Stop(h)
      <3>1. t = [s EXCEPT !.uv = "idle"] /\ s.uv = "active"
        BY <2>3 DEF Stop, Becomes, IInv, TypeOK
      <3> QED BY <1>1, <3>1 DEF HandleState, SameLife
    <2>4. CASE UserDetach(h) \/ CloseResetRefused(h)
      <3> DEFINE d == Detach(s)
      <3>1. \/ t = [d EXCEPT !.detached = "user"]
            \/ t = [d EXCEPT !.closed = TRUE, !.asked = TRUE]
        BY <2>4 DEF UserDetach, CloseResetRefused, Becomes, IInv, TypeOK
      <3>2. d \in HandleState /\ d.data = s.data /\ d.uv = s.uv /\ d.log = s.log
        BY <1>1, DetachEffect
      <3> HIDE DEF d, t
      <3> QED BY <3>1, <3>2 DEF HandleState, SameLife
    <2>5. CASE Event(h)
      <3> DEFINE u == [s EXCEPT !.uv = IF Trait(s).once THEN "idle" ELSE @]
      <3>1. s.uv = "active" /\ t = (IF s.data = "live" THEN u ELSE Fault(u, "event"))
        BY <2>5 DEF Event, Becomes, IInv, TypeOK
      <3>2. t = u
        BY <1>1, <3>1
      <3>3. u.data = s.data /\ u.log = s.log /\ u.uv \in {"idle", "active"}
        BY <1>1, <3>1 DEF HandleState
      <3> HIDE DEF u
      <3> QED BY <3>1, <3>2, <3>3 DEF SameLife
    <2> QED BY <2>1, <2>2, <2>3, <2>4, <2>5
  <1> QED BY <1>2, <1>3 DEF AgingStep, Ages

LEMMA EventEndAges ==
    ASSUME IInv, NEW h \in Handles, "process" \notin Kinds,
           EventReturns(h) \/ EventThrows(h)
    PROVE  AgingStep(h)
  <1> DEFINE s == handle[h]
             t == handle'[h]
             w == CloseFor(s)
  <1>1. /\ s \in HandleState /\ Known(s) /\ Told(s, at = InClose(h)) /\ s.data = "live"
        /\ s.kind \in DOMAIN Traits /\ s.kind # "process"
    BY KindsAssumption DEF IInv, Good, HandleState, EventReturns, EventThrows
  <1>2. handle' = [handle EXCEPT ![h] = t] /\ (t = s \/ t = [w EXCEPT !.asked = TRUE])
    BY <1>1, OnlyProcessCloses DEF EventReturns, EventThrows, Watch, Becomes, IInv, TypeOK
  <1> HIDE DEF s, t
  <1>3. w \in HandleState /\ Ages(s, w)
    BY <1>1, CloseForEffect, CloseForAges
  <1> HIDE DEF w
  <1>4. Ages(s, t)
    <2>1. CASE t = s
      BY <2>1 DEF Ages, SameLife
    <2>2. CASE t = [w EXCEPT !.asked = TRUE]
      <3>1. t.data = w.data /\ t.uv = w.uv /\ t.log = w.log
        BY <2>2, <1>3 DEF HandleState
      <3> QED BY <1>3, <3>1 DEF Ages, SameLife, Closes, Discards
    <2> QED BY <1>2, <2>1, <2>2
  <1> QED BY <1>2, <1>4 DEF AgingStep, s, t

(* The steps that move a handle on.                                        *)
LEMMA ConstructIsAbstract ==
    ASSUME IInv, IInv', NEW h \in Handles, Construct(h)
    PROVE  /\ handle' = [handle EXCEPT ![h] = handle'[h]]
           /\ Life(handle[h]) = "unmade"
           /\ Life(handle'[h]) \in {"allocated", "open"}
  <1>1. handle[h] = Unmade(handle[h].kind) /\ handle[h].data = "none"
    BY DEF Construct, Unmade
  <1>2. /\ handle' = [handle EXCEPT ![h] = handle'[h]]
        /\ \E ctor \in BOOLEAN :
              handle'[h] = [handle[h] EXCEPT !.refs = 1, !.paper = TRUE, !.data = "live",
                               !.initialized = ctor, !.uv = IF ctor THEN "idle" ELSE "none"]
    BY DEF Construct, Becomes, IInv, TypeOK
  <1>3. handle[h] \in HandleState
    BY DEF IInv, Good
  <1>4. handle'[h].data = "live" /\ handle'[h].uv \in {"none", "idle"}
    BY <1>2, <1>3 DEF HandleState
  <1>5. Life(handle[h]) = "unmade"
    BY <1>1 DEF Life
  <1>6. Life(handle'[h]) \in {"allocated", "open"}
    <2>1. Good(handle'[h], at' = InClose(h))
      BY DEF IInv
    <2> QED BY <1>4, <2>1, LifeOf
  <1> QED BY <1>2, <1>5, <1>6

LEMMA InitHandleIsAbstract ==
    ASSUME IInv, IInv', NEW h \in Handles, InitHandle(h)
    PROVE  /\ handle' = [handle EXCEPT ![h] = handle'[h]]
           /\ Life(handle[h]) = "allocated"
           /\ Life(handle'[h]) = "open"
  <1> DEFINE s == handle[h]
             t == handle'[h]
             i == [s EXCEPT !.initialized = TRUE]
             u(x) == [i EXCEPT !.uv = x]
  <1>1. Good(s, at = InClose(h)) /\ Good(t, at' = InClose(h)) /\ s \in HandleState
    BY DEF IInv, Good
  <1>2. /\ handle' = [handle EXCEPT ![h] = t] /\ s.data = "live" /\ s.uv = "none"
        /\ t \in Returned(u("active")) \/ t = u("idle")
    BY DEF InitHandle, Becomes, IInv, TypeOK
  <1> HIDE DEF s, t
  <1>3. ASSUME NEW x \in {"idle", "active"}
        PROVE  u(x) \in HandleState /\ u(x).data = "live" /\ u(x).uv = x
    BY <1>1, <1>2 DEF HandleState
  <1> HIDE DEF u
  <1>4. t.data = "live" /\ t.uv \in {"idle", "active"}
    <2>1. \E x \in {"idle", "active"} : t = u(x) \/ t = [u(x) EXCEPT !.clips = @ + 1]
      BY <1>2 DEF Returned
    <2> QED BY <2>1, <1>3 DEF HandleState
  <1>5. Life(s) = "allocated" /\ Life(t) = "open"
    BY <1>1, <1>2, <1>4, LifeOf
  <1> QED BY <1>2, <1>5 DEF s, t

LEMMA CloseCallbackIsAbstract ==
    ASSUME IInv, IInv', NEW h \in Handles, CloseCallback(h)
    PROVE  /\ handle' = [handle EXCEPT ![h] = handle'[h]]
           /\ Life(handle[h]) = "closing"
           /\ Life(handle'[h]) = "closed"
           /\ \A g \in Handles : Life(handle[g]) # "closed"
  <1> DEFINE s == handle[h]
             t == handle'[h]
             u == [s EXCEPT !.uv = "closed"]
  <1>1. Good(s, at = InClose(h)) /\ Good(t, at' = InClose(h)) /\ s \in HandleState
    BY DEF IInv, Good
  <1>2. /\ handle' = [handle EXCEPT ![h] = t] /\ s.uv = "closing"
        /\ t = (IF u.data = "live" THEN [u EXCEPT !.log = Append(@, "then")]
                ELSE Fault(u, "close_callback"))
    BY DEF CloseCallback, Becomes, IInv, TypeOK
  <1>3. \A g \in Handles : Life(handle[g]) # "closed"
    <2> SUFFICES ASSUME NEW g \in Handles PROVE Life(handle[g]) # "closed"
      OBVIOUS
    <2>1. at # InClose(g)
      BY PlacesDiffer DEF CloseCallback
    <2>2. Good(handle[g], at = InClose(g))
      BY DEF IInv
    <2> QED BY <2>1, <2>2, LifeOf
  <1> HIDE DEF s, t
  <1>4. s.data = "live"
    BY <1>1, <1>2 DEF Good, Known
  <1>5. u \in HandleState /\ u.data = "live" /\ u.uv = "closed"
    BY <1>1, <1>4 DEF HandleState
  <1>6. t.data = "live" /\ t.uv = "closed"
    BY <1>2, <1>5 DEF HandleState
  <1>7. Life(s) = "closing" /\ Life(t) = "closed"
    BY <1>1, <1>2, <1>4, <1>6, LifeOf
  <1> QED BY <1>2, <1>3, <1>7 DEF s, t

LEMMA CloseCallbackReturnsIsAbstract ==
    ASSUME IInv, NEW h \in Handles, CloseCallbackReturns(h)
    PROVE  /\ handle' = [handle EXCEPT ![h] = handle'[h]]
           /\ Life(handle[h]) = "closed"
           /\ Life(handle'[h]) = "released"
  <1> DEFINE s == handle[h]
             t == handle'[h]
             f == [s EXCEPT !.log = Append(@, "finally")]
  <1>1. Good(s, TRUE) /\ s \in HandleState
    BY DEF IInv, Good, CloseCallbackReturns
  <1>2. handle' = [handle EXCEPT ![h] = t] /\ t = DeleteData(f)
    BY DEF CloseCallbackReturns, Becomes, IInv, TypeOK
  <1> HIDE DEF s, t
  <1>3. s.data = "live" /\ s.uv = "closed" /\ s.log = <<"then">>
    BY <1>1 DEF Good, Told
  <1>4. f = [s EXCEPT !.log = <<"then", "finally">>]
    BY <1>3, LogGrows
  <1>5. f \in HandleState /\ f.uv = "closed" /\ f.log = <<"then", "finally">>
    BY <1>1, <1>3, <1>4 DEF HandleState
  <1> HIDE DEF f
  <1>6. t.data = "freed" /\ t.uv = "closed" /\ t.log = <<"then", "finally">>
    BY <1>2, <1>5, DeleteDataEffect
  <1>7. Life(s) = "closed" /\ Life(t) = "released"
    BY <1>3, <1>6 DEF Life
  <1> QED BY <1>2, <1>7 DEF s, t

LEMMA AgingIsAbstract ==
    ASSUME IInv, IInv', NEW h \in Handles, AgingStep(h)
    PROVE  \/ Life(handle'[h]) = Life(handle[h])
           \/ Life(handle[h]) = "open" /\ Life(handle'[h]) = "closing"
           \/ Life(handle[h]) = "allocated" /\ Life(handle'[h]) = "discarded"
  <1> DEFINE s == handle[h]
             t == handle'[h]
  <1>1. Good(s, at = InClose(h)) /\ Good(t, at' = InClose(h)) /\ Ages(s, t)
    BY DEF IInv, AgingStep
  <1> SUFFICES \/ Life(t) = Life(s)
               \/ Life(s) = "open" /\ Life(t) = "closing"
               \/ Life(s) = "allocated" /\ Life(t) = "discarded"
    OBVIOUS
  <1> HIDE DEF s, t
  <1>2. CASE SameLife(s, t)
    BY <1>2 DEF SameLife, Life
  <1>3. CASE Closes(s, t)
    BY <1>1, <1>3, LifeOf DEF Closes
  <1>4. CASE Discards(s, t)
    <2>1. Life(t) = "discarded"
      BY <1>4 DEF Discards, Life
    <2>2. Life(s) = "allocated"
      BY <1>1, <1>4, LifeOf DEF Discards
    <2> QED BY <2>1, <2>2
  <1> QED BY <1>1, <1>2, <1>3, <1>4 DEF Ages

(* Every handle goes through the states of lifecycle.md in order and once  *)
(* each, and close callbacks come one at a time, whatever the program does *)
(* with its handles, within the documented lifecycle or outside.           *)
THEOREM RefinesAbstract ==
    ASSUME "process" \notin Kinds
    PROVE  SafeSpec => ImplementsLifecycle
  <1> DEFINE life == [h \in Handles |-> Life(handle[h])]
  <1>1. Init => Abstract!Init
    <2> SUFFICES ASSUME Init, NEW h \in Handles PROVE Life(handle[h]) = "unmade"
      BY DEF Abstract!Init
    <2> QED BY DEF Init, Unmade, Life
  <1>2. IInv /\ IInv' /\ [Next]_vars => [Abstract!Next]_life
    <2> SUFFICES ASSUME IInv, IInv', [Next]_vars PROVE Abstract!Next \/ life' = life
      OBVIOUS
    <2>1. ASSUME NEW h \in Handles, handle' = [handle EXCEPT ![h] = handle'[h]]
          PROVE  life' = [life EXCEPT ![h] = Life(handle'[h])]
      BY <2>1 DEF IInv, TypeOK
    <2>2. ASSUME NEW h \in Handles, UserStep(h) \/ LoopStep(h)
          PROVE  Abstract!Next \/ life' = life
      <3>1. CASE Construct(h)
        <4>1. life' = [life EXCEPT ![h] = Life(handle'[h])] /\ life[h] = "unmade"
              /\ Life(handle'[h]) \in {"allocated", "open"}
          BY <3>1, <2>1, ConstructIsAbstract
        <4> HIDE DEF life
        <4>2. Abstract!Allocate(h) \/ Abstract!Open(h)
          BY <4>1 DEF Abstract!Allocate, Abstract!Open, Abstract!Step, life
        <4> QED BY <4>2 DEF Abstract!Next
      <3>2. CASE InitHandle(h)
        <4>1. life' = [life EXCEPT ![h] = "open"] /\ life[h] = "allocated"
          BY <3>2, <2>1, InitHandleIsAbstract
        <4>2. Abstract!Initialize(h)
          BY <4>1 DEF Abstract!Initialize, Abstract!Step
        <4> QED BY <4>2 DEF Abstract!Next
      <3>3. CASE CloseCallback(h)
        <4>1. /\ life' = [life EXCEPT ![h] = "closed"] /\ life[h] = "closing"
              /\ \A g \in Handles : life[g] # "closed"
          BY <3>3, <2>1, CloseCallbackIsAbstract
        <4>2. Abstract!Complete(h)
          BY <4>1 DEF Abstract!Complete, Abstract!Step
        <4> QED BY <4>2 DEF Abstract!Next
      <3>4. CASE CloseCallbackReturns(h)
        <4>1. life' = [life EXCEPT ![h] = "released"] /\ life[h] = "closed"
          BY <3>4, <2>1, CloseCallbackReturnsIsAbstract
        <4>2. Abstract!Release(h)
          BY <4>1 DEF Abstract!Release, Abstract!Step
        <4> QED BY <4>2 DEF Abstract!Next
      <3>5. CASE AgingStep(h)
        <4>1. life' = [life EXCEPT ![h] = Life(handle'[h])]
          BY <3>5, <2>1 DEF AgingStep
        <4>2. \/ Life(handle'[h]) = life[h]
              \/ life[h] = "open" /\ Life(handle'[h]) = "closing"
              \/ life[h] = "allocated" /\ Life(handle'[h]) = "discarded"
          BY <3>5, AgingIsAbstract
        <4>3. life' = life \/ Abstract!Close(h) \/ Abstract!Discard(h)
          BY <4>1, <4>2 DEF Abstract!Close, Abstract!Discard, Abstract!Step
        <4> QED BY <4>3 DEF Abstract!Next
      <3> QED BY <2>2, <3>1, <3>2, <3>3, <3>4, <3>5, HolderStepsAge, CloseAges, UseAges,
                 EventEndAges DEF UserStep, LoopStep
    <2>3. CASE UNCHANGED vars
      BY <2>3 DEF vars
    <2> QED BY <2>2, <2>3 DEF Next
  <1> QED BY <1>1, <1>2, IInvHolds, PTL DEF SafeSpec, ImplementsLifecycle, Abstract!Spec

=============================================================================
