-------------------------------- MODULE Chain -------------------------------
(***************************************************************************)
(* uvcxx::callback_core (src/include/uvcxx/utils/callback.h): four chains  *)
(* of handlers and what emit, raise and finalize do with them, while the   *)
(* handlers that run register and clear handlers, throw, and emit, raise   *)
(* and finalize again.                                                     *)
(*                                                                         *)
(* A chain of n handlers is n nested closures: the outermost calls the one *)
(* inside it, then its own handler, so handlers run in the order of        *)
(* registration and each closure is read again after the handlers of the   *)
(* closures inside it have returned.  A frame of the stack is a chain that *)
(* is running: `todo` are the handlers it still has to run, the first of   *)
(* them is running now, and `live` says that its closures still exist.     *)
(* Head(stack) is the innermost frame.                                     *)
(***************************************************************************)
EXTENDS Integers, Sequences, FiniteSets

CONSTANTS
    Classes,        \* classes of exceptions the handlers throw
    BadCall,        \* the class std::bad_function_call
    InitCaptures,   \* UVCXX_STD_INIT_CAPTURES: closures are moved, not copied
    ClearRunning,   \* a handler may clear the chain it is not the last of
    MaxOps,         \* bound of the model: calls the program makes
    MaxThrows,      \* bound of the model: exceptions thrown
    MaxDepth        \* bound of the model: chains running inside one another

ASSUME BuildAssumption == InitCaptures \in BOOLEAN /\ ClearRunning \in BOOLEAN
ASSUME ClassAssumption ==
    BadCall \notin Classes /\ Classes \cap {"plain", "bool", "void"} = {}
ASSUME BoundAssumption == MaxOps \in Nat /\ MaxThrows \in Nat /\ MaxDepth \in Nat

Slots == {"call", "watch", "except", "finally"}

(* What the wrapper around a handler makes of it.  "plain" handlers return *)
(* nothing; of those that see exceptions, "bool" ones answer themselves,   *)
(* "void" ones answer false whatever they do, and a handler for a class    *)
(* answers true, or false without running when the class is another.       *)
KindsOf == [call |-> {"plain"}, finally |-> {"plain"}, watch |-> {"bool"},
            except |-> {"bool", "void"} \cup Classes]

MaxRetry == 1

VARIABLES
    chain,       \* m_on_call, m_on_watch, m_on_except, m_on_finally
    finalized,   \* m_finalized
    destroyed,   \* the last shared_ptr to the core is gone
    stack,       \* the chains that are running
    freedRead,   \* a closure was read after it was freed
    thrown,      \* history: the exceptions, each with what became of it
    finalRuns,   \* history: the finally handlers that were started
    ops          \* calls made, and the next handler's identity

vars == <<chain, finalized, destroyed, stack, freedRead, thrown, finalRuns, ops>>

Init ==
    /\ chain = [s \in Slots |-> <<>>]
    /\ finalized = FALSE
    /\ destroyed = FALSE
    /\ stack = <<>>
    /\ freedRead = FALSE
    /\ thrown = <<>>
    /\ finalRuns = <<>>
    /\ ops = 0

-----------------------------------------------------------------------------
Top == Head(stack)
Below == Tail(stack)
Current == Head(Top.todo)

(* `tries` counts the exceptions the except handlers threw at this raise.  *)
Frame(slot, exc, tries) ==
    [slot |-> slot, todo |-> chain[slot], live |-> TRUE, exc |-> exc, tries |-> tries]

Fates == {"flying", "watched", "handled", "declined", "printed", "superseded",
          "swallowed"}

(* One more exception: `gen` is how often this raise was thrown over, `by` *)
(* the chain whose handler threw it or "raise", `at` the calls made before *)
(* it, `shown` whether the watchers were given it.                         *)
Exception(c, gen, by) ==
    [class |-> c, gen |-> gen, by |-> by, at |-> ops, shown |-> FALSE, fate |-> "flying"]
Thrown(c, gen, by) == Append(thrown, Exception(c, gen, by))

Settle(th, e, fate) == [th EXCEPT ![e].fate = fate]

(* Code of the program is running: its own, or the handler on top.  A      *)
(* handler for another class of exceptions does not run.                   *)
Declines ==
    /\ stack # <<>>
    /\ Top.slot = "except" /\ Current.kind \in Classes
    /\ thrown[Top.exc].class # Current.kind
Active == ~freedRead /\ ~destroyed /\ ~Declines
Calls == Active /\ ops < MaxOps

-----------------------------------------------------------------------------
(* Plausible mistakes stand before what they would replace and are used    *)
(* nowhere else: PROJECT.json names the property that notices.  This one   *)
(* prints nothing when there are no except handlers.                       *)
OfferExceptQuietly(below, e, tries, th) ==
    /\ thrown' = th
    /\ stack' = IF chain.except # <<>> THEN <<Frame("except", e, tries)>> \o below
                ELSE below

(* The loop of raise around m_on_except, entered, or entered again after   *)
(* `tries` throws, with the exception e.  Calling the chain when a handler *)
(* that threw had cleared it throws std::bad_function_call.                *)
OfferExcept(below, e, tries, th) ==
    IF chain.except # <<>>
    THEN /\ stack' = <<Frame("except", e, tries)>> \o below
         /\ thrown' = th
    ELSE /\ stack' = below
         /\ thrown' =
              IF tries = 0 THEN Settle(th, e, "printed")
              ELSE Settle(Append(Settle(th, e, "superseded"),
                                 Exception(BadCall, th[e].gen + 1, "except")),
                          Len(th) + 1, "printed")

(* Mistake: the watchers are only asked when there are no except handlers. *)
StartRaiseLate(below, e, th) ==
    IF chain.watch # <<>> /\ chain.except = <<>>
    THEN /\ stack' = <<Frame("watch", e, 0)>> \o below
         /\ thrown' = [th EXCEPT ![e].shown = TRUE]
    ELSE OfferExcept(below, e, 0, th)

(* raise, with the watchers first.                                         *)
StartRaise(below, e, th) ==
    IF chain.watch # <<>>
    THEN /\ stack' = <<Frame("watch", e, 0)>> \o below
         /\ thrown' = [th EXCEPT ![e].shown = TRUE]
    ELSE OfferExcept(below, e, 0, th)

(* Mistake: raise insists until a handler accepts.                         *)
ChainEndsAgain ==
    CASE Top.slot \in {"watch", "except"} -> OfferExcept(Below, Top.exc, 0, thrown)
      [] OTHER -> stack' = Below /\ UNCHANGED thrown

(* What becomes of the exception when its chain has nothing left to run.   *)
ChainEnds ==
    CASE Top.slot = "watch"  -> OfferExcept(Below, Top.exc, 0, thrown)
      [] Top.slot = "except" -> /\ stack' = Below
                                /\ thrown' = Settle(thrown, Top.exc, "declined")
      [] OTHER               -> stack' = Below /\ UNCHANGED thrown

(* pre(p); f(p) and pre(p) || f(p): the handler on top returned (false),   *)
(* and the closure around it is read for the next one.                     *)
Onwards ==
    /\ IF Len(Top.todo) = 1
       THEN ChainEnds /\ UNCHANGED <<freedRead, finalRuns>>
       ELSE /\ freedRead' = ~Top.live
            /\ stack' = <<[Top EXCEPT !.todo = Tail(@)]>> \o Below
            /\ finalRuns' = IF Top.slot = "finally"
                            THEN Append(finalRuns, Top.todo[2].id) ELSE finalRuns
            /\ UNCHANGED thrown
    /\ UNCHANGED <<chain, finalized, destroyed, ops>>

(* Mistake: m_finalized is not asked.                                      *)
FinalizationAgain ==
    IF chain.finally = <<>>
    THEN UNCHANGED <<stack, finalRuns>>
    ELSE /\ stack' = <<Frame("finally", 0, 0)>> \o stack
         /\ finalRuns' = Append(finalRuns, Head(chain.finally).id)

(* finalize: the exchange comes first, so only one caller runs the chain.  *)
Finalization ==
    IF finalized \/ chain.finally = <<>>
    THEN UNCHANGED <<stack, finalRuns>>
    ELSE /\ stack' = <<Frame("finally", 0, 0)>> \o stack
         /\ finalRuns' = Append(finalRuns, Head(chain.finally).id)

-----------------------------------------------------------------------------
(* Mistake: closures are copied in every build.                            *)
RegisterCopies(s, k) ==
    /\ Calls
    /\ chain' = [chain EXCEPT ![s] = Append(@, [id |-> ops, kind |-> k])]
    /\ stack' = [i \in DOMAIN stack |->
                   IF stack[i].slot = s THEN [stack[i] EXCEPT !.live = FALSE] ELSE stack[i]]
    /\ ops' = ops + 1
    /\ UNCHANGED <<finalized, destroyed, freedRead, thrown, finalRuns>>

(* call(f), watch(f), except(f), finally(f).  Without init captures the    *)
(* closures are copied into the new one and the old ones are destroyed.    *)
Register(s, k) ==
    /\ Calls
    /\ chain' = [chain EXCEPT ![s] = Append(@, [id |-> ops, kind |-> k])]
    /\ stack' = [i \in DOMAIN stack |->
                   IF stack[i].slot = s /\ ~InitCaptures
                   THEN [stack[i] EXCEPT !.live = FALSE] ELSE stack[i]]
    /\ ops' = ops + 1
    /\ UNCHANGED <<finalized, destroyed, freedRead, thrown, finalRuns>>

(* call(nullptr) and so on: the closures are destroyed.                    *)
Clear(s) ==
    /\ Calls
    /\ ClearRunning \/ \A i \in DOMAIN stack : stack[i].slot = s => Len(stack[i].todo) = 1
    /\ chain' = [chain EXCEPT ![s] = <<>>]
    /\ stack' = [i \in DOMAIN stack |->
                   IF stack[i].slot = s THEN [stack[i] EXCEPT !.live = FALSE] ELSE stack[i]]
    /\ ops' = ops + 1
    /\ UNCHANGED <<finalized, destroyed, freedRead, thrown, finalRuns>>

Emit ==
    /\ Calls
    /\ Len(stack) < MaxDepth
    /\ chain.call # <<>>
    /\ stack' = <<Frame("call", 0, 0)>> \o stack
    /\ ops' = ops + 1
    /\ UNCHANGED <<chain, finalized, destroyed, freedRead, thrown, finalRuns>>

(* raise(p), with an exception of the program's own.                       *)
Raise(c) ==
    /\ Calls
    /\ Len(stack) < MaxDepth
    /\ Len(thrown) < MaxThrows
    /\ StartRaise(stack, Len(thrown) + 1, Thrown(c, 0, "raise"))
    /\ ops' = ops + 1
    /\ UNCHANGED <<chain, finalized, destroyed, freedRead, finalRuns>>

(* callback_cast::emit: the wrapper that makes the event's values from the *)
(* arguments may throw, and then the event becomes an exception.           *)
CastEmit(c) == Emit \/ Raise(c)

Finalize ==
    /\ Calls
    /\ Len(stack) < MaxDepth
    /\ finalized' = TRUE
    /\ Finalization
    /\ ops' = ops + 1
    /\ UNCHANGED <<chain, destroyed, freedRead, thrown>>

(* ~callback_core, outside of all handlers.                                *)
Destroy ==
    /\ Active
    /\ stack = <<>>
    /\ destroyed' = TRUE
    /\ finalized' = TRUE
    /\ Finalization
    /\ UNCHANGED <<chain, freedRead, thrown, ops>>

-----------------------------------------------------------------------------
(* The handler on top returns nothing, or false.                           *)
Return ==
    /\ ~freedRead /\ stack # <<>>
    /\ Current.kind \in Classes => Declines
    /\ Onwards

(* Mistake: the answer of the watchers is not looked at.                   *)
AcceptUnheeded ==
    /\ ~freedRead /\ stack # <<>>
    /\ Current.kind \in {"bool"} \cup Classes
    /\ ~Declines
    /\ LET th == Settle(thrown, Top.exc,
                        IF Top.slot = "watch" THEN "watched" ELSE "handled") IN
       IF Top.slot = "watch" THEN OfferExcept(Below, Top.exc, 0, th)
       ELSE stack' = Below /\ thrown' = th
    /\ UNCHANGED <<chain, finalized, destroyed, freedRead, finalRuns, ops>>

(* It returns true, by itself or by its wrapper: the closures around it    *)
(* have nothing more to read.                                              *)
Accept ==
    /\ ~freedRead /\ stack # <<>>
    /\ Current.kind \in {"bool"} \cup Classes
    /\ ~Declines
    /\ stack' = Below
    /\ thrown' = Settle(thrown, Top.exc,
                        IF Top.slot = "watch" THEN "watched" ELSE "handled")
    /\ UNCHANGED <<chain, finalized, destroyed, freedRead, finalRuns, ops>>

(* Mistake: the throws of except handlers are not counted.                 *)
ThrowUncounted(c) ==
    /\ ~freedRead /\ stack # <<>>
    /\ ~Declines
    /\ Len(thrown) < MaxThrows
    /\ Top.slot = "except"
    /\ OfferExcept(Below, Len(thrown) + 1, Top.tries,
                   Settle(Thrown(c, thrown[Top.exc].gen + 1, "except"), Top.exc, "superseded"))
    /\ UNCHANGED <<chain, finalized, destroyed, freedRead, finalRuns, ops>>

(* It throws an exception of class c.  One from a watcher is printed, and  *)
(* the except handlers get the one being watched; one from an except       *)
(* handler takes the place of the one being handled, MAX_RETRY times; one  *)
(* from a finally handler goes no further.                                 *)
Throw(c) ==
    /\ ~freedRead /\ stack # <<>>
    /\ ~Declines
    /\ Len(thrown) < MaxThrows
    /\ LET new == Len(thrown) + 1
           again == thrown[Top.exc].gen + 1
           tries == Top.tries + 1 IN
       CASE Top.slot = "call" ->
              StartRaise(Below, new, Thrown(c, 0, Top.slot))
         [] Top.slot = "watch" ->
              OfferExcept(Below, Top.exc, 0, Settle(Thrown(c, 0, Top.slot), new, "printed"))
         [] Top.slot = "except" /\ tries <= MaxRetry ->
              OfferExcept(Below, new, tries,
                          Settle(Thrown(c, again, "except"), Top.exc, "superseded"))
         [] Top.slot = "except" /\ tries > MaxRetry ->
              /\ stack' = Below
              /\ thrown' = Settle(Settle(Thrown(c, again, "except"), new, "printed"),
                                  Top.exc, "superseded")
         [] OTHER ->
              /\ stack' = Below
              /\ thrown' = Settle(Thrown(c, 0, Top.slot), new, "swallowed")
    /\ UNCHANGED <<chain, finalized, destroyed, freedRead, finalRuns, ops>>

Next ==
    \/ \E s \in Slots : (\E k \in KindsOf[s] : Register(s, k)) \/ Clear(s)
    \/ Emit
    \/ \E c \in Classes : Raise(c) \/ CastEmit(c) \/ Throw(c)
    \/ Finalize
    \/ Destroy
    \/ Return
    \/ Accept

SafeSpec == Init /\ [][Next]_vars

(* A handler that runs ends: it returns, answers or throws.                *)
Ends == Return \/ Accept \/ \E c \in Classes : Throw(c)
Spec == SafeSpec /\ WF_vars(Ends)
-----------------------------------------------------------------------------
(* A handler may register others, clear the chain it is the last of, emit, *)
(* raise and finalize while its chain runs, and no closure is read after   *)
(* it was freed (callback_core::call, watch, except and finally).          *)
NoFreedClosure == ~freedRead

(* Whoever finalizes, from wherever, a finally handler is started at most  *)
(* once, and never before one registered earlier (callback_core::finalize, *)
(* the destructor included).                                               *)
FinallyOnce ==
    \A i, j \in DOMAIN finalRuns : i < j => finalRuns[i] < finalRuns[j]

Carried(e) == {i \in DOMAIN stack : stack[i].exc = e}

(* An exception is never lost between the chains: it is with exactly one   *)
(* of those that run, or it was watched, answered, printed, thrown over by *)
(* an except handler or dropped by finalize (callback_core::raise).        *)
NoExceptionLost ==
    \A e \in DOMAIN thrown :
        Cardinality(Carried(e)) = IF thrown[e].fate = "flying" THEN 1 ELSE 0

(* `Allow MAX_RETRY times throw exception while processing on_except`: no  *)
(* handler is given an exception that was thrown over more often.          *)
RetriesAreBounded ==
    \A e \in DOMAIN thrown : thrown[e].fate = "flying" => thrown[e].gen <= MaxRetry

(* What becomes of an exception is decided once.                           *)
FateIsFinal ==
    [][\A e \in DOMAIN thrown :
           thrown[e].fate # "flying" => thrown'[e].fate = thrown[e].fate]_vars

(* Once somebody watches, the watchers are given every exception that a    *)
(* call handler throws or that anybody raises, from a handler of whatever  *)
(* chain, before an except handler or the console is: a handle watches for *)
(* close_handle and must not miss one (handle_t::watch).  What an except   *)
(* handler throws is not among them: raise tries it on the except handlers *)
(* alone; watchers' exceptions are printed, finally handlers' dropped.     *)
Watched(e) == thrown[e].at > chain.watch[1].id
WatchersSeeEvents ==
    chain.watch # <<>> =>
        \A e \in DOMAIN thrown :
            thrown[e].by \in {"raise", "call"} /\ Watched(e) => thrown[e].shown

(* Whatever handlers do inside one another, emit, raise and finalize come  *)
(* back, if every handler does.                                            *)
ChainsEnd == []<>(stack = <<>> \/ freedRead)
=============================================================================
