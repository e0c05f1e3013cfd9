---------------------------- MODULE PromiseProofs ---------------------------
(***************************************************************************)
(* The safety properties of Promise for any futures and any bounds.  The   *)
(* first part says what a run of a chain does to the futures, whatever the *)
(* program's handlers do and however often the chain is run again.  PInv   *)
(* then says which futures are in the chains (Placed), that before the     *)
(* answer they all wait for it (Awaiting), that m_finalized tells whether  *)
(* the first round is over (Finals), and that no finally handler had its   *)
(* turn before (Unfinished).                                               *)
(***************************************************************************)
EXTENDS Promise, TLAPS, SequenceTheorems

Members == Futures \cup {"program"}
FutureStates ==
    [is : {"untaken", "pending", "value", "exception", "broken"}, of : Nat]
HandlerStates ==
    [is : {"waits", "ran", "threw", "cleared", "gone"}, inTime : BOOLEAN]

(* Types.                                                                  *)
TypeOK ==
    /\ usage \in {"request", "oneshot"}
    /\ phase \in {"idle", "answered", "finalized", "gone"}
    /\ answers \in Nat
    /\ then \in Seq(Members) /\ except \in Seq(Members) /\ watched \in BOOLEAN
    /\ finally \in Seq(HandlerStates)
    /\ finalized \in BOOLEAN /\ held \in BOOLEAN /\ mixed \in BOOLEAN
    /\ accepted \in BOOLEAN
    /\ future \in [Futures -> FutureStates]
    /\ taken \in [Futures -> Nat]

(* A chain has the closure of a future at most once, so that a run of it   *)
(* never meets a future that it satisfied itself.                          *)
OnceEach(s) == \A i, j \in DOMAIN s : s[i] = s[j] /\ s[i] \in Futures => i = j

Pure(s) == \A i \in DOMAIN s : s[i] \in Futures

Chained(f) == Has(then, f) \/ Has(except, f)

(* The closures in the chains are those of futures that were taken; there  *)
(* is no handler and no watcher of the program's unless it registered one; *)
(* and the chains go with the last owner.                                  *)
Placed ==
    /\ OnceEach(then) /\ OnceEach(except)
    /\ \A f \in Futures : Chained(f) => future[f].is # "untaken"
    /\ ~mixed => Pure(then) /\ Pure(except) /\ ~watched
    /\ phase = "gone" /\ ~held => then = <<>> /\ except = <<>>

(* Before an answer all that is in the chains waits for this answer.       *)
Awaiting ==
    phase = "idle" => \A f \in Futures : Chained(f) => Pending(f) /\ taken[f] = answers + 1

(* m_finalized is set when the first round ends, and stays.                *)
Finals ==
    /\ phase \in {"answered", "finalized"} => answers > 0
    /\ finalized <=> FirstRoundOver

Unfinished ==
    ~finalized => \A i \in DOMAIN finally : finally[i].is \in {"waits", "cleared"}

PInv ==
    /\ TypeOK /\ Placed /\ Awaiting /\ Finals /\ Unfinished
    /\ NoFutureForgotten /\ FuturesGetTheirAnswer /\ FinallyRunsBeforeRestart

-----------------------------------------------------------------------------
(* Runs of a chain.                                                        *)

(* What a run may do to a future: nothing, or satisfy one that waits and   *)
(* whose closure is in the chain s.                                        *)
Satisfies(s, fut, gut, contents) ==
    /\ gut \in [Futures -> FutureStates]
    /\ \A f \in Futures : gut[f] # fut[f] =>
          fut[f].is = "pending" /\ gut[f] \in contents /\ Has(s, f)

(* One run: the futures before its end, which are all waiting, get the     *)
(* content.                                                                *)
LEMMA RunSatisfies ==
    ASSUME NEW s \in Seq(Members), NEW fut \in [Futures -> FutureStates],
           NEW content \in FutureStates, NEW n \in Ends(s, fut)
    PROVE  /\ Satisfies(s, fut, Satisfied(s, n, fut, content), {content})
           /\ n > Len(s) => \A f \in Futures : Has(s, f) =>
                 Satisfied(s, n, fut, content)[f] = content
<1> DEFINE gut == Satisfied(s, n, fut, content)
<1>1. /\ n \in 1 .. (Len(s) + 1) /\ Len(s) \in Nat /\ DOMAIN s = 1 .. Len(s)
      /\ \A k \in 1 .. (n - 1) : s[k] \in Futures => fut[s[k]].is = "pending"
  BY LenProperties DEF Ends
<1>2. gut \in [Futures -> FutureStates]
  BY DEF Satisfied
<1>3. ASSUME NEW f \in Futures, gut[f] # fut[f]
      PROVE  fut[f].is = "pending" /\ gut[f] = content /\ Has(s, f)
  <2>1. PICK k \in 1 .. (n - 1) : s[k] = f
    BY <1>3 DEF Satisfied
  <2>2. gut[f] = content
    BY <1>3 DEF Satisfied
  <2>3. k \in DOMAIN s
    BY <1>1, <2>1
  <2> QED BY <1>1, <2>1, <2>2, <2>3 DEF Has
<1>4. ASSUME n > Len(s), NEW f \in Futures, Has(s, f)
      PROVE  gut[f] = content
  <2>1. PICK k \in DOMAIN s : s[k] = f
    BY <1>4 DEF Has
  <2>2. k \in 1 .. (n - 1)
    BY <1>1, <1>4, <2>1
  <2> QED BY <2>1, <2>2 DEF Satisfied
<1> QED BY <1>2, <1>3, <1>4 DEF Satisfies

(* The first of a chain, if it waits, gets the content.                    *)
LEMMA FirstIsSatisfied ==
    ASSUME NEW s \in Seq(Members), NEW fut \in [Futures -> FutureStates],
           NEW content \in FutureStates, NEW n \in Ends(s, fut),
           NEW f \in Futures, s # <<>>, s[1] = f, fut[f].is = "pending"
    PROVE  Satisfied(s, n, fut, content)[f] = content
<1>1. n \in 1 .. (Len(s) + 1) /\ Len(s) \in Nat /\ Len(s) # 0
      /\ (n <= Len(s) => s[n] = "program" \/ fut[s[n]].is # "pending")
  BY EmptySeq, LenProperties DEF Ends
<1>2. f # "program"
  BY FuturesAssumption
<1>3. n # 1
  BY <1>1, <1>2
<1>4. 1 \in 1 .. (n - 1)
  BY <1>1, <1>3
<1> QED BY <1>4 DEF Satisfied

(* Of futures alone, all waiting, a run comes to the end of the chain.     *)
LEMMA PureRunEnds ==
    ASSUME NEW s \in Seq(Members), NEW fut \in [Futures -> FutureStates],
           Pure(s), \A f \in Futures : Has(s, f) => fut[f].is = "pending",
           NEW n \in Ends(s, fut)
    PROVE  n = Len(s) + 1
<1>1. n \in 1 .. (Len(s) + 1) /\ Len(s) \in Nat /\ DOMAIN s = 1 .. Len(s)
      /\ (n <= Len(s) => s[n] = "program" \/ fut[s[n]].is # "pending")
  BY LenProperties DEF Ends
<1>2. ASSUME n <= Len(s) PROVE FALSE
  <2>1. n \in DOMAIN s
    BY <1>1, <1>2
  <2>2. s[n] \in Futures /\ Has(s, s[n])
    BY <2>1 DEF Pure, Has
  <2> QED BY <1>1, <1>2, <2>2, FuturesAssumption
<1> QED BY <1>1, <1>2

(* Two runs one after the other are as one, with the contents of both.     *)
LEMMA SatisfiesTwice ==
    ASSUME NEW s, NEW t, NEW u, NEW fut, NEW gut, NEW hut, NEW C, NEW D, NEW E,
           Satisfies(s, fut, gut, C), Satisfies(t, gut, hut, D),
           \A f \in Futures : Has(s, f) \/ Has(t, f) => Has(u, f),
           C \cup D \subseteq E, \A c \in C : c.is # "pending"
    PROVE  Satisfies(u, fut, hut, E)
<1>1. ASSUME NEW f \in Futures, hut[f] # fut[f]
      PROVE  fut[f].is = "pending" /\ hut[f] \in E /\ Has(u, f)
  <2>1. CASE gut[f] = fut[f]
    BY <1>1, <2>1 DEF Satisfies
  <2>2. CASE gut[f] # fut[f]
    <3>1. hut[f] = gut[f]
      BY <2>2 DEF Satisfies
    <3> QED BY <2>2, <3>1 DEF Satisfies
  <2> QED BY <2>1, <2>2
<1> QED BY <1>1 DEF Satisfies

(* The state of an answer, and the exception that may take its place.      *)
Answers(c) == {c, Another}
LEMMA AnotherIsState == Another \in FutureStates /\ Another.is = "exception"
  BY DEF Another, FutureStates

(* The loop of promise_core::reject: it satisfies futures of the except    *)
(* chain, the first of it in any case, and all of it if it is of futures   *)
(* alone.                                                                  *)
LEMMA ExceptedEffect ==
    ASSUME NEW fut \in [Futures -> FutureStates], except \in Seq(Members),
           NEW c \in FutureStates, c.is = "exception", NEW gut \in Excepted(fut, c)
    PROVE  /\ Satisfies(except, fut, gut, Answers(c))
           /\ \A f \in Futures : except # <<>> /\ except[1] = f => gut[f].is # "pending"
           /\ Pure(except) /\ (\A f \in Futures : Has(except, f) => fut[f].is = "pending")
                 => /\ Satisfies(except, fut, gut, {c})
                    /\ \A f \in Futures : Has(except, f) => gut[f] = c
<1> DEFINE Waits == \A f \in Futures : Has(except, f) => fut[f].is = "pending"
<1>1. CASE \E n \in Ends(except, fut) : gut = Satisfied(except, n, fut, c)
  <2>1. PICK n \in Ends(except, fut) : gut = Satisfied(except, n, fut, c)
    BY <1>1
  <2>2. /\ Satisfies(except, fut, gut, {c})
        /\ n > Len(except) => \A f \in Futures : Has(except, f) => gut[f] = c
    BY <2>1, RunSatisfies
  <2>3. Satisfies(except, fut, gut, Answers(c))
    BY <2>2 DEF Satisfies, Answers
  <2>4. ASSUME NEW f \in Futures, except # <<>>, except[1] = f
        PROVE  gut[f].is # "pending"
    <3>1. CASE fut[f].is = "pending"
      BY <2>1, <2>4, <3>1, FirstIsSatisfied
    <3>2. CASE fut[f].is # "pending"
      BY <2>2, <3>2 DEF Satisfies
    <3> QED BY <3>1, <3>2
  <2>5. ASSUME Pure(except), Waits
        PROVE  n > Len(except)
    <3>1. n = Len(except) + 1 /\ Len(except) \in Nat
      BY <2>5, PureRunEnds, LenProperties
    <3> QED BY <3>1
  <2> QED BY <2>2, <2>3, <2>4, <2>5
<1>2. CASE \E n \in Ends(except, fut) \cap DOMAIN except :
              \E m \in Ends(except, Satisfied(except, n, fut, c)) :
                  gut = Satisfied(except, m, Satisfied(except, n, fut, c), Another)
  <2>1. PICK n \in Ends(except, fut) : n \in DOMAIN except /\
              \E m \in Ends(except, Satisfied(except, n, fut, c)) :
                  gut = Satisfied(except, m, Satisfied(except, n, fut, c), Another)
    BY <1>2
  <2> DEFINE hut == Satisfied(except, n, fut, c)
  <2>2. PICK m \in Ends(except, hut) : gut = Satisfied(except, m, hut, Another)
    BY <2>1
  <2>3. Satisfies(except, fut, hut, {c})
    BY RunSatisfies
  <2>4. hut \in [Futures -> FutureStates]
    BY <2>3 DEF Satisfies
  <2> HIDE DEF hut
  <2>5. Satisfies(except, hut, gut, {Another})
    BY <2>2, <2>4, AnotherIsState, RunSatisfies
  <2>6. Satisfies(except, fut, gut, Answers(c))
    BY <2>3, <2>5, SatisfiesTwice DEF Answers
  <2>7. ASSUME NEW f \in Futures, except # <<>>, except[1] = f
        PROVE  gut[f].is # "pending"
    <3>1. CASE hut[f].is = "pending"
      <4>1. gut[f] = Another
        BY <2>2, <2>4, <2>7, <3>1, AnotherIsState, FirstIsSatisfied
      <4> QED BY <4>1, AnotherIsState
    <3>2. CASE hut[f].is # "pending"
      BY <2>5, <3>2 DEF Satisfies
    <3> QED BY <3>1, <3>2
  <2>8. ~(Pure(except) /\ Waits)
    <3>1. SUFFICES ASSUME Pure(except), Waits PROVE FALSE
      OBVIOUS
    <3>2. n = Len(except) + 1 /\ Len(except) \in Nat /\ DOMAIN except = 1 .. Len(except)
      BY <3>1, PureRunEnds, LenProperties
    <3> QED BY <2>1, <3>2
  <2> QED BY <2>6, <2>7, <2>8
<1>3. (\E n \in Ends(except, fut) : gut = Satisfied(except, n, fut, c))
      \/ \E n \in Ends(except, fut) \cap DOMAIN except :
              \E m \in Ends(except, Satisfied(except, n, fut, c)) :
                  gut = Satisfied(except, m, Satisfied(except, n, fut, c), Another)
  BY DEF Excepted
<1> QED BY <1>1, <1>2, <1>3

(* promise_core::reject: the same, unless a watcher accepts and nothing is *)
(* satisfied at all.                                                       *)
LEMMA RejectedEffect ==
    ASSUME NEW fut \in [Futures -> FutureStates], except \in Seq(Members),
           NEW c \in FutureStates, c.is = "exception", Rejected(fut, c)
    PROVE  /\ accepted' \in BOOLEAN /\ (accepted' => watched)
           /\ Satisfies(except, fut, future', Answers(c))
           /\ \A f \in Futures : ~accepted' /\ except # <<>> /\ except[1] = f
                 => future'[f].is # "pending"
           /\ ~accepted' /\ Pure(except)
              /\ (\A f \in Futures : Has(except, f) => fut[f].is = "pending")
                 => /\ Satisfies(except, fut, future', {c})
                    /\ \A f \in Futures : Has(except, f) => future'[f] = c
<1>1. CASE watched /\ future' = fut /\ accepted' = TRUE
  BY <1>1 DEF Satisfies
<1>2. CASE future' \in Excepted(fut, c) /\ accepted' = FALSE
  BY <1>2, ExceptedEffect
<1> QED BY <1>1, <1>2 DEF Rejected

(* promise_core::resolve: it satisfies futures of the then chain, and when *)
(* a handler or a future of it throws, those of the except chain as well.  *)
LEMMA ResolvedEffect ==
    ASSUME NEW fut \in [Futures -> FutureStates],
           then \in Seq(Members), except \in Seq(Members),
           NEW c \in FutureStates, c.is = "value", Resolved(fut, c)
    PROVE  /\ accepted' \in BOOLEAN /\ (accepted' => watched)
           /\ future' \in [Futures -> FutureStates]
           /\ \A f \in Futures : future'[f] # fut[f] =>
                 /\ fut[f].is = "pending" /\ Chained(f)
                 /\ future'[f] \in Answers(c)
           /\ \A f \in Futures : ~accepted' /\ Has(then, f) /\ except # <<>> /\ except[1] = f
                 => future'[f].is # "pending"
           /\ Pure(then) /\ (\A f \in Futures : Has(then, f) => fut[f].is = "pending")
                 => /\ Satisfies(then, fut, future', {c})
                    /\ \A f \in Futures : Has(then, f) => future'[f] = c
<1>1. PICK n \in Ends(then, fut) :
         IF n > Len(then) THEN future' = Satisfied(then, n, fut, c) /\ accepted' = FALSE
         ELSE Rejected(Satisfied(then, n, fut, c), Another)
  BY DEF Resolved
<1> DEFINE hut == Satisfied(then, n, fut, c)
<1>2. /\ Satisfies(then, fut, hut, {c})
      /\ n > Len(then) => \A f \in Futures : Has(then, f) => hut[f] = c
  BY RunSatisfies
<1>3. n > Len(then) => future' = hut /\ accepted' = FALSE
  BY <1>1
<1>4. ~(n > Len(then)) => Rejected(hut, Another)
  BY <1>1
<1> HIDE DEF hut
<1>5. CASE n > Len(then)
  BY <1>2, <1>3, <1>5 DEF Satisfies, Chained, Answers
<1>6. CASE ~(n > Len(then))
  <2>1. hut \in [Futures -> FutureStates]
    BY <1>2 DEF Satisfies
  <2>2. /\ accepted' \in BOOLEAN /\ (accepted' => watched)
        /\ Satisfies(except, hut, future', Answers(Another))
        /\ \A f \in Futures : ~accepted' /\ except # <<>> /\ except[1] = f
              => future'[f].is # "pending"
    BY <1>4, <1>6, <2>1, AnotherIsState, RejectedEffect
  <2>3. ASSUME Pure(then), \A f \in Futures : Has(then, f) => fut[f].is = "pending"
        PROVE  FALSE
    <3>1. n = Len(then) + 1 /\ Len(then) \in Nat
      BY <2>3, PureRunEnds, LenProperties
    <3> QED BY <1>6, <3>1
  <2>4. ASSUME NEW f \in Futures, future'[f] # fut[f]
        PROVE  fut[f].is = "pending" /\ Chained(f) /\ future'[f] \in Answers(c)
    <3>1. CASE hut[f] = fut[f]
      BY <2>2, <2>4, <3>1 DEF Satisfies, Chained, Answers
    <3>2. CASE hut[f] # fut[f]
      <4>1. hut[f] = c /\ fut[f].is = "pending" /\ Has(then, f)
        BY <1>2, <3>2 DEF Satisfies
      <4>2. future'[f] = hut[f]
        BY <2>2, <4>1 DEF Satisfies
      <4> QED BY <4>1, <4>2 DEF Chained, Answers
    <3> QED BY <3>1, <3>2
  <2> QED BY <2>2, <2>3, <2>4 DEF Satisfies
<1> QED BY <1>5, <1>6

(* A future that no chain has any more is broken; the others are as they   *)
(* were.                                                                   *)
LEMMA AbandonedEffect ==
    ASSUME NEW fut \in [Futures -> FutureStates], NEW t, NEW e
    PROVE  /\ Abandoned(fut, t, e) \in [Futures -> FutureStates]
           /\ \A f \in Futures :
                 /\ Abandoned(fut, t, e)[f] # fut[f] =>
                       fut[f].is = "pending" /\ Abandoned(fut, t, e)[f].is = "broken"
                 /\ Abandoned(fut, t, e)[f].is = "pending" =>
                       fut[f].is = "pending" /\ (Has(t, f) \/ Has(e, f))
                 /\ Has(t, f) \/ Has(e, f) => Abandoned(fut, t, e)[f] = fut[f]
<1>1. Broken \in FutureStates /\ Broken.is = "broken"
  BY DEF Broken, FutureStates
<1> QED BY <1>1 DEF Abandoned

-----------------------------------------------------------------------------
(* The finally handlers.                                                   *)
FinallyOK == Unfinished /\ FinallyRunsBeforeRestart

(* Whatever leaves them and m_finalized alone keeps what is known of them. *)
LEMMA FinallyStays ==
    ASSUME PInv, Finals', UNCHANGED <<finally, finalized>>
    PROVE  FinallyOK'
BY DEF PInv, Finals, FinallyOK, Unfinished, FinallyRunsBeforeRestart

(* Handlers that get another fate are still handlers.                      *)
LEMMA FatesType ==
    ASSUME NEW h \in Seq(HandlerStates), NEW g, DOMAIN g = DOMAIN h,
           g = [i \in DOMAIN h |-> g[i]],
           \A i \in DOMAIN h : g[i] \in HandlerStates
    PROVE  g \in Seq(HandlerStates)
<1> HIDE DEF HandlerStates
<1>1. Len(h) \in Nat /\ DOMAIN h = 1 .. Len(h)
  BY LenProperties
<1>2. g \in [1 .. Len(h) -> HandlerStates]
  BY <1>1
<1> QED BY <1>1, <1>2, SeqDef

LEMMA UnrunEffect ==
    ASSUME NEW h \in Seq(HandlerStates), NEW fate \in {"cleared", "gone"}
    PROVE  /\ Unrun(h, fate) \in Seq(HandlerStates)
           /\ DOMAIN Unrun(h, fate) = DOMAIN h
           /\ \A i \in DOMAIN h :
                 /\ Unrun(h, fate)[i].inTime = h[i].inTime
                 /\ Unrun(h, fate)[i].is = IF h[i].is = "waits" THEN fate ELSE h[i].is
<1> DEFINE g == Unrun(h, fate)
<1>1. DOMAIN g = DOMAIN h /\ g = [i \in DOMAIN h |-> g[i]]
  BY DEF Unrun
<1>2. ASSUME NEW i \in DOMAIN h
      PROVE  /\ g[i] \in HandlerStates /\ g[i].inTime = h[i].inTime
             /\ g[i].is = IF h[i].is = "waits" THEN fate ELSE h[i].is
  <2>1. h[i] \in HandlerStates
    BY ElementOfSeq, LenProperties
  <2>2. g[i] = IF h[i].is = "waits" THEN [h[i] EXCEPT !.is = fate] ELSE h[i]
    BY DEF Unrun
  <2> QED BY <2>1, <2>2 DEF HandlerStates
<1> QED BY <1>1, <1>2, FatesType

LEMMA FinallyRunEffect ==
    ASSUME finally \in Seq(HandlerStates), NEW k \in Nat
    PROVE  /\ FinallyRun(k) \in Seq(HandlerStates)
           /\ DOMAIN FinallyRun(k) = DOMAIN finally
           /\ \A i \in DOMAIN finally :
                 /\ FinallyRun(k)[i].inTime = finally[i].inTime
                 /\ FinallyRun(k)[i].is =
                       IF finally[i].is = "waits" /\ i <= k
                       THEN IF i = k THEN "threw" ELSE "ran" ELSE finally[i].is
<1> DEFINE g == FinallyRun(k)
<1>1. DOMAIN g = DOMAIN finally /\ g = [i \in DOMAIN finally |-> g[i]]
  BY DEF FinallyRun
<1>2. ASSUME NEW i \in DOMAIN finally
      PROVE  /\ g[i] \in HandlerStates /\ g[i].inTime = finally[i].inTime
             /\ g[i].is = IF finally[i].is = "waits" /\ i <= k
                          THEN IF i = k THEN "threw" ELSE "ran" ELSE finally[i].is
  <2>1. finally[i] \in HandlerStates
    BY ElementOfSeq, LenProperties
  <2>2. g[i] = IF finally[i].is = "waits" /\ i <= k
               THEN [finally[i] EXCEPT !.is = IF i = k THEN "threw" ELSE "ran"]
               ELSE finally[i]
    BY DEF FinallyRun
  <2> QED BY <2>1, <2>2 DEF HandlerStates
<1> QED BY <1>1, <1>2, FatesType

(* What holds of the handlers h once finalize has run.                     *)
Finished(h) ==
    \A i \in DOMAIN h :
        h[i].inTime => \/ h[i].is \in {"ran", "threw", "cleared"}
                       \/ \E j \in DOMAIN h : j < i /\ h[j].is = "threw"

LEMMA FinallyRunsEffect ==
    ASSUME PInv, NEW h \in FinallyRuns
    PROVE  h \in Seq(HandlerStates) /\ Finished(h)
<1>1. finally \in Seq(HandlerStates) /\ Len(finally) \in Nat /\ DOMAIN finally = 1 .. Len(finally)
  BY LenProperties DEF PInv, TypeOK
<1>2. CASE finalized
  <2>1. h = finally
    BY <1>2 DEF FinallyRuns
  <2> QED BY <1>1, <1>2, <2>1 DEF PInv, Finals, FinallyRunsBeforeRestart, Finished
<1>3. CASE ~finalized
  <2>1. PICK k \in {Len(finally) + 1} \cup {i \in DOMAIN finally : finally[i].is = "waits"} :
            h = FinallyRun(k)
    BY <1>3 DEF FinallyRuns
  <2>2. k \in Nat
    BY <1>1
  <2>3. /\ h \in Seq(HandlerStates) /\ DOMAIN h = DOMAIN finally
        /\ \A i \in DOMAIN finally :
              h[i].is = IF finally[i].is = "waits" /\ i <= k
                        THEN IF i = k THEN "threw" ELSE "ran" ELSE finally[i].is
    BY <1>1, <2>1, <2>2, FinallyRunEffect
  <2>4. ASSUME NEW i \in DOMAIN h
        PROVE  \/ h[i].is \in {"ran", "threw", "cleared"}
               \/ \E j \in DOMAIN h : j < i /\ h[j].is = "threw"
    <3>1. i \in DOMAIN finally /\ finally[i].is \in {"waits", "cleared"} /\ i \in Nat
      BY <1>1, <1>3, <2>3 DEF PInv, Unfinished
    <3>2. CASE i <= k \/ finally[i].is = "cleared"
      BY <2>3, <3>1, <3>2
    <3>3. CASE k < i
      <4>1. k \in DOMAIN finally /\ finally[k].is = "waits"
        BY <1>1, <3>1, <3>3
      <4>2. h[k].is = "threw"
        BY <2>2, <2>3, <4>1
      <4> QED BY <2>3, <3>3, <4>1, <4>2
    <3> QED BY <2>2, <3>1, <3>2, <3>3
  <2> QED BY <2>3, <2>4 DEF Finished
<1> QED BY <1>2, <1>3

(* finalize, and what may destroy the handlers after it.                   *)
LEMMA FinishedIsGood ==
    ASSUME NEW h \in Seq(HandlerStates), Finished(h), finalized', Finals',
           finally' = h \/ finally' = Unrun(h, "gone")
    PROVE  finally' \in Seq(HandlerStates) /\ FinallyOK'
<1>1. Unfinished' /\ FirstRoundOver'
  BY DEF Unfinished, Finals
<1>2. finally' \in Seq(HandlerStates) /\ Finished(finally')
  <2>1. CASE finally' = h
    BY <2>1
  <2>2. CASE finally' = Unrun(h, "gone")
    <3>1. /\ finally' \in Seq(HandlerStates) /\ DOMAIN finally' = DOMAIN h
          /\ \A i \in DOMAIN h :
                /\ finally'[i].inTime = h[i].inTime
                /\ finally'[i].is = IF h[i].is = "waits" THEN "gone" ELSE h[i].is
      BY <2>2, UnrunEffect
    <3>2. Finished(finally')
      BY <3>1 DEF Finished
    <3> QED BY <3>1, <3>2
  <2> QED BY <2>1, <2>2
<1>3. FinallyRunsBeforeRestart'
  BY <1>1, <1>2 DEF Finished, FinallyRunsBeforeRestart
<1> QED BY <1>1, <1>2, <1>3 DEF FinallyOK

(* Registration.  A closure at the end of a chain joins those that are     *)
(* there.                                                                  *)
LEMMA AppendEffect ==
    ASSUME NEW s \in Seq(Members), NEW m \in Members
    PROVE  LET t == Append(s, m) IN
           /\ t \in Seq(Members) /\ t # <<>>
           /\ \A x : Has(t, x) <=> Has(s, x) \/ x = m
           /\ t[1] = IF s = <<>> THEN m ELSE s[1]
           /\ OnceEach(s) /\ (m \in Futures => ~Has(s, m)) => OnceEach(t)
           /\ Pure(t) <=> Pure(s) /\ m \in Futures
<1> DEFINE t == Append(s, m)
<1>1. /\ t \in Seq(Members) /\ Len(s) \in Nat /\ DOMAIN s = 1 .. Len(s)
      /\ DOMAIN t = 1 .. (Len(s) + 1) /\ t[Len(s) + 1] = m
      /\ \A i \in 1 .. Len(s) : t[i] = s[i]
  BY AppendProperties, LenProperties
<1>2. t # <<>>
  BY <1>1
<1>3. \A i \in DOMAIN t : i \in DOMAIN s \/ i = Len(s) + 1
  BY <1>1
<1>4. DOMAIN s \subseteq DOMAIN t /\ Len(s) + 1 \in DOMAIN t
  BY <1>1
<1> HIDE DEF t
<1>5. \A x : Has(t, x) <=> Has(s, x) \/ x = m
  BY <1>1, <1>3, <1>4 DEF Has
<1>6. t[1] = IF s = <<>> THEN m ELSE s[1]
  <2>1. CASE s = <<>>
    BY <1>1, <2>1, EmptySeq
  <2>2. CASE s # <<>>
    <3>1. 1 \in 1 .. Len(s)
      BY <1>1, <2>2, EmptySeq
    <3> QED BY <1>1, <2>2, <3>1
  <2> QED BY <2>1, <2>2
<1>7. ASSUME OnceEach(s), m \in Futures => ~Has(s, m)
      PROVE  OnceEach(t)
  <2> SUFFICES ASSUME NEW i \in DOMAIN t, NEW j \in DOMAIN t, t[i] = t[j], t[i] \in Futures
               PROVE  i = j
    BY DEF OnceEach
  <2>1. CASE i \in DOMAIN s /\ j \in DOMAIN s
    BY <1>1, <1>7, <2>1 DEF OnceEach
  <2>2. CASE i = Len(s) + 1 /\ j \in DOMAIN s
    BY <1>1, <1>7, <2>2 DEF Has
  <2>3. CASE i \in DOMAIN s /\ j = Len(s) + 1
    BY <1>1, <1>7, <2>3 DEF Has
  <2> QED BY <1>3, <2>1, <2>2, <2>3
<1>8. Pure(t) <=> Pure(s) /\ m \in Futures
  BY <1>1, <1>3, <1>4 DEF Pure
<1> QED BY <1>1, <1>2, <1>5, <1>6, <1>7, <1>8 DEF t

(* An empty chain has nobody.                                              *)
LEMMA EmptyChain ==
    /\ <<>> \in Seq(Members) /\ OnceEach(<<>>) /\ Pure(<<>>)
    /\ \A x : ~Has(<<>>, x)
BY DEF OnceEach, Pure, Has

LEMMA RegisterThenKeeps == ASSUME PInv, RegisterThen PROVE PInv'
<1>1. /\ then' \in Seq(Members) /\ (OnceEach(then) => OnceEach(then'))
      /\ \A x : Has(then', x) <=> Has(then, x) \/ x = "program"
  <2>1. "program" \in Members /\ "program" \notin Futures /\ then \in Seq(Members)
    BY FuturesAssumption DEF Members, PInv, TypeOK
  <2> QED BY <2>1, AppendEffect DEF RegisterThen, chains, history
<1>2. \A f \in Futures : Has(then', f) <=> Has(then, f)
  BY <1>1, FuturesAssumption
<1>3. TypeOK' /\ Finals' /\ FinallyOK'
  <2>1. TypeOK' /\ Finals'
    BY <1>1 DEF RegisterThen, chains, history, PInv, TypeOK, Finals, FirstRoundOver
  <2> QED BY <2>1, FinallyStays DEF RegisterThen
<1>4. Placed'
  BY <1>1, <1>2 DEF RegisterThen, chains, history, PInv, Placed, Chained, TypeOK
<1>5. Awaiting' /\ NoFutureForgotten' /\ FuturesGetTheirAnswer'
  BY <1>2 DEF RegisterThen, chains, history, PInv, Awaiting, NoFutureForgotten, WaitsForSomebody,
              AnsweredUnlessIntercepted, FuturesGetTheirAnswer, Chained, Pending
<1> QED BY <1>3, <1>4, <1>5 DEF PInv, FinallyOK

LEMMA RegisterExceptKeeps == ASSUME PInv, RegisterExcept PROVE PInv'
<1>1. /\ except' \in Seq(Members) /\ (OnceEach(except) => OnceEach(except'))
      /\ \A x : Has(except', x) <=> Has(except, x) \/ x = "program"
      /\ except'[1] = IF except = <<>> THEN "program" ELSE except[1]
  <2>1. "program" \in Members /\ "program" \notin Futures /\ except \in Seq(Members)
    BY FuturesAssumption DEF Members, PInv, TypeOK
  <2> QED BY <2>1, AppendEffect DEF RegisterExcept, chains, history
<1>2. \A f \in Futures : (Has(except', f) <=> Has(except, f)) /\ f # "program"
  BY <1>1, FuturesAssumption
<1>3. TypeOK' /\ Finals' /\ FinallyOK'
  <2>1. TypeOK' /\ Finals'
    BY <1>1 DEF RegisterExcept, chains, history, PInv, TypeOK, Finals, FirstRoundOver
  <2> QED BY <2>1, FinallyStays DEF RegisterExcept
<1>4. Placed'
  BY <1>1, <1>2 DEF RegisterExcept, chains, history, PInv, Placed, Chained, TypeOK
<1>5. Awaiting' /\ FuturesGetTheirAnswer' /\ WaitsForSomebody'
  BY <1>2 DEF RegisterExcept, chains, history, PInv, Awaiting, NoFutureForgotten, WaitsForSomebody,
              FuturesGetTheirAnswer, Chained, Pending
<1>6. AnsweredUnlessIntercepted'
  BY <1>1, <1>2 DEF RegisterExcept, chains, history, PInv, NoFutureForgotten, AnsweredUnlessIntercepted,
                    Pending
<1> QED BY <1>3, <1>4, <1>5, <1>6 DEF PInv, NoFutureForgotten, FinallyOK

LEMMA RegisterWatchKeeps == ASSUME PInv, RegisterWatch PROVE PInv'
<1>1. TypeOK' /\ Finals' /\ FinallyOK'
  <2>1. TypeOK' /\ Finals'
    BY DEF RegisterWatch, chains, history, PInv, TypeOK, Finals, FirstRoundOver
  <2> QED BY <2>1, FinallyStays DEF RegisterWatch
<1>2. Placed' /\ Awaiting' /\ NoFutureForgotten' /\ FuturesGetTheirAnswer'
  BY DEF RegisterWatch, chains, history, PInv, Placed, Awaiting, NoFutureForgotten, WaitsForSomebody,
         AnsweredUnlessIntercepted, FuturesGetTheirAnswer, Chained, Pending
<1> QED BY <1>1, <1>2 DEF PInv, FinallyOK

LEMMA ClearWatchKeeps == ASSUME PInv, ClearWatch PROVE PInv'
<1>1. TypeOK' /\ Finals' /\ FinallyOK'
  <2>1. TypeOK' /\ Finals'
    BY DEF ClearWatch, chains, history, PInv, TypeOK, Finals, FirstRoundOver
  <2> QED BY <2>1, FinallyStays DEF ClearWatch
<1>2. Placed' /\ Awaiting' /\ NoFutureForgotten' /\ FuturesGetTheirAnswer'
  BY DEF ClearWatch, chains, history, PInv, Placed, Awaiting, NoFutureForgotten, WaitsForSomebody,
         AnsweredUnlessIntercepted, FuturesGetTheirAnswer, Chained, Pending
<1> QED BY <1>1, <1>2 DEF PInv, FinallyOK

LEMMA RegisterFinallyKeeps == ASSUME PInv, RegisterFinally PROVE PInv'
<1> DEFINE h == [is |-> "waits", inTime |-> ~FirstRoundOver]
<1>1. /\ finally' = Append(finally, h) /\ h \in HandlerStates
      /\ h.is = "waits" /\ (h.inTime <=> ~FirstRoundOver)
  BY DEF RegisterFinally, HandlerStates
<1> HIDE DEF h
<1>2. /\ finally' \in Seq(HandlerStates) /\ Len(finally) \in Nat
      /\ DOMAIN finally = 1 .. Len(finally)
      /\ DOMAIN finally' = 1 .. (Len(finally) + 1) /\ finally'[Len(finally) + 1] = h
      /\ \A i \in 1 .. Len(finally) : finally'[i] = finally[i]
  <2>1. finally \in Seq(HandlerStates)
    BY DEF PInv, TypeOK
  <2> HIDE DEF HandlerStates
  <2> QED BY <1>1, <2>1, AppendProperties, LenProperties
<1>3. TypeOK' /\ Finals'
  BY <1>2 DEF RegisterFinally, chains, history, PInv, TypeOK, Finals, FirstRoundOver
<1>4. FinallyOK'
  <2>1. (FirstRoundOver' <=> FirstRoundOver) /\ finalized' = finalized
    BY DEF RegisterFinally, FirstRoundOver
  <2>2. Unfinished'
    BY <1>1, <1>2, <2>1 DEF PInv, Unfinished
  <2>3. ASSUME NEW i \in DOMAIN finally'
        PROVE  /\ finally'[i].is \in {"ran", "threw"} => FirstRoundOver
               /\ finally'[i].inTime /\ FirstRoundOver =>
                     \/ finally'[i].is \in {"ran", "threw", "cleared"}
                     \/ \E j \in DOMAIN finally' : j < i /\ finally'[j].is = "threw"
    <3>1. CASE i = Len(finally) + 1
      BY <1>1, <1>2, <3>1
    <3>2. CASE i # Len(finally) + 1
      <4>1. i \in DOMAIN finally /\ finally'[i] = finally[i]
        BY <1>2, <3>2
      <4>2. \A j \in DOMAIN finally : j \in DOMAIN finally' /\ finally'[j] = finally[j]
        BY <1>2
      <4> QED BY <4>1, <4>2 DEF PInv, FinallyRunsBeforeRestart
    <3> QED BY <3>1, <3>2
  <2> QED BY <2>1, <2>2, <2>3 DEF FinallyOK, FinallyRunsBeforeRestart
<1>5. Placed' /\ Awaiting' /\ NoFutureForgotten' /\ FuturesGetTheirAnswer'
  BY DEF RegisterFinally, chains, history, PInv, Placed, Awaiting, NoFutureForgotten, WaitsForSomebody,
         AnsweredUnlessIntercepted, FuturesGetTheirAnswer, Chained, Pending
<1> QED BY <1>3, <1>4, <1>5 DEF PInv, FinallyOK

LEMMA ClearFinallyKeeps == ASSUME PInv, ClearFinally PROVE PInv'
<1>1. /\ finally' \in Seq(HandlerStates) /\ DOMAIN finally' = DOMAIN finally
      /\ \A i \in DOMAIN finally :
            /\ finally'[i].inTime = finally[i].inTime
            /\ finally'[i].is = IF finally[i].is = "waits" THEN "cleared" ELSE finally[i].is
  <2>1. finally \in Seq(HandlerStates)
    BY DEF PInv, TypeOK
  <2> QED BY <2>1, UnrunEffect DEF ClearFinally
<1>2. TypeOK' /\ Finals'
  BY <1>1 DEF ClearFinally, chains, history, PInv, TypeOK, Finals, FirstRoundOver
<1>3. FinallyOK'
  <2>1. (FirstRoundOver' <=> FirstRoundOver) /\ finalized' = finalized
    BY DEF ClearFinally, FirstRoundOver
  <2>2. Unfinished'
    BY <1>1, <2>1 DEF PInv, Unfinished
  <2> QED BY <1>1, <2>1, <2>2 DEF PInv, FinallyOK, FinallyRunsBeforeRestart
<1>4. Placed' /\ Awaiting' /\ NoFutureForgotten' /\ FuturesGetTheirAnswer'
  BY DEF ClearFinally, chains, history, PInv, Placed, Awaiting, NoFutureForgotten, WaitsForSomebody,
         AnsweredUnlessIntercepted, FuturesGetTheirAnswer, Chained, Pending
<1> QED BY <1>2, <1>3, <1>4 DEF PInv, FinallyOK

(* A future taken before the answer waits for it; one taken later waits    *)
(* for the end.                                                            *)
LEMMA GetFutureKeeps ==
    ASSUME PInv, NEW f \in Futures, GetFuture(f) PROVE PInv'
<1>1. f \in Members /\ f # "program" /\ then \in Seq(Members) /\ except \in Seq(Members)
  BY FuturesAssumption DEF Members, PInv, TypeOK
<1>2. ~Has(then, f) /\ ~Has(except, f)
  BY DEF PInv, Placed, Chained, GetFuture
<1>3. /\ then' \in Seq(Members) /\ (OnceEach(then) => OnceEach(then'))
      /\ \A x : Has(then', x) <=> Has(then, x) \/ x = f
      /\ Pure(then) => Pure(then')
  BY <1>1, <1>2, AppendEffect DEF GetFuture, chains, history
<1>4. /\ except' \in Seq(Members) /\ (OnceEach(except) => OnceEach(except'))
      /\ \A x : Has(except', x) <=> Has(except, x) \/ x = f
      /\ except'[1] = IF except = <<>> THEN f ELSE except[1]
      /\ Pure(except) => Pure(except')
  BY <1>1, <1>2, AppendEffect DEF GetFuture, chains, history
<1>5. /\ future' \in [Futures -> FutureStates]
      /\ future'[f].is = "pending"
      /\ \A g \in Futures : g # f => future'[g] = future[g] /\ taken'[g] = taken[g]
      /\ taken' \in [Futures -> Nat]
      /\ taken'[f] = IF phase = "idle" THEN answers + 1 ELSE Late
  <2>1. (IF phase = "idle" THEN answers + 1 ELSE Late) \in Nat
    BY DEF PInv, TypeOK, Late
  <2>2. /\ taken' \in [Futures -> Nat]
        /\ taken'[f] = IF phase = "idle" THEN answers + 1 ELSE Late
        /\ \A g \in Futures : g # f => taken'[g] = taken[g]
    BY <2>1 DEF GetFuture, chains, history, PInv, TypeOK
  <2>3. /\ future' \in [Futures -> FutureStates]
        /\ future'[f].is = "pending"
        /\ \A g \in Futures : g # f => future'[g] = future[g]
    BY DEF GetFuture, chains, history, PInv, TypeOK, FutureStates
  <2> QED BY <2>2, <2>3
<1>6. TypeOK' /\ Finals' /\ FinallyOK'
  <2>1. TypeOK' /\ Finals'
    BY <1>3, <1>4, <1>5 DEF GetFuture, chains, history, PInv, TypeOK, Finals, FirstRoundOver
  <2> QED BY <2>1, FinallyStays DEF GetFuture
<1>7. Placed'
  BY <1>3, <1>4, <1>5 DEF GetFuture, chains, history, PInv, Placed, Chained, TypeOK
<1>8. Awaiting' /\ WaitsForSomebody'
  BY <1>3, <1>4, <1>5 DEF GetFuture, chains, history, PInv, Awaiting, NoFutureForgotten, WaitsForSomebody,
                          Chained, Pending
<1>9. AnsweredUnlessIntercepted'
  <2> SUFFICES ASSUME NEW g \in Futures, phase \in {"answered", "finalized"},
                      taken'[g] # Late, Has(then', g), except'[1] = g, ~accepted
               PROVE  ~Pending(g)'
    BY DEF AnsweredUnlessIntercepted, GetFuture
  <2>1. g # f
    BY <1>5
  <2>2. taken[g] # Late /\ Has(then, g) /\ except # <<>> /\ except[1] = g
    BY <1>3, <1>4, <1>5, <2>1
  <2> QED BY <1>5, <2>1, <2>2 DEF PInv, NoFutureForgotten, AnsweredUnlessIntercepted, Pending
<1>10. FuturesGetTheirAnswer'
  BY <1>3, <1>4, <1>5 DEF GetFuture, chains, history, PInv, FuturesGetTheirAnswer, Pending
<1> QED BY <1>6, <1>7, <1>8, <1>9, <1>10 DEF PInv, NoFutureForgotten, FinallyOK

-----------------------------------------------------------------------------
(* Clearing.  Futures that lost their last closure are broken; what the    *)
(* others know and are in is as before.                                    *)
LEMMA ClearedKeeps ==
    ASSUME PInv, then' \in {then, <<>>}, except' \in {except, <<>>},
           watched' \in {watched, FALSE},
           future' = Abandoned(future, then', except'), UNCHANGED <<taken, mixed>>,
           (phase' = phase /\ accepted' = accepted) \/ phase' \in {"idle", "gone"}
    PROVE  /\ then' \in Seq(Members) /\ except' \in Seq(Members)
           /\ future' \in [Futures -> FutureStates]
           /\ OnceEach(then') /\ OnceEach(except')
           /\ \A f \in Futures : Chained(f)' => Chained(f) /\ future'[f] = future[f]
           /\ ~mixed' => Pure(then') /\ Pure(except') /\ ~watched'
           /\ NoFutureForgotten' /\ FuturesGetTheirAnswer'
<1>1. then' \in Seq(Members) /\ except' \in Seq(Members)
  BY EmptyChain DEF PInv, TypeOK
<1>2. /\ OnceEach(then') /\ OnceEach(except')
      /\ ~mixed' => Pure(then') /\ Pure(except') /\ ~watched'
  <2>1. OnceEach(then') /\ OnceEach(except') /\ (~mixed' => Pure(then') /\ Pure(except'))
    BY EmptyChain DEF PInv, Placed
  <2>2. watched' => watched
    OBVIOUS
  <2> QED BY <2>1, <2>2 DEF PInv, Placed
<1>3. \A f : (Has(then', f) => Has(then, f)) /\ (Has(except', f) => Has(except, f))
  BY EmptyChain
<1>4. /\ future' \in [Futures -> FutureStates]
      /\ \A f \in Futures :
            /\ future'[f] # future[f] => future[f].is = "pending" /\ future'[f].is = "broken"
            /\ future'[f].is = "pending" => future[f].is = "pending" /\ Chained(f)'
            /\ Chained(f)' => future'[f] = future[f]
  <2>1. future \in [Futures -> FutureStates]
    BY DEF PInv, TypeOK
  <2> QED BY <2>1, AbandonedEffect DEF Chained
<1>5. \A f \in Futures : Chained(f)' => Chained(f) /\ future'[f] = future[f]
  BY <1>3, <1>4 DEF Chained
<1>6. WaitsForSomebody'
  BY <1>4 DEF WaitsForSomebody, Pending, Chained
<1>7. AnsweredUnlessIntercepted'
  <2> SUFFICES ASSUME NEW f \in Futures, phase' \in {"answered", "finalized"},
                      taken[f] # Late, Has(then', f), except' # <<>>, except'[1] = f,
                      ~accepted'
               PROVE  ~Pending(f)'
    BY DEF AnsweredUnlessIntercepted
  <2>1. /\ phase \in {"answered", "finalized"} /\ Has(then, f) /\ except' = except
        /\ ~accepted
    BY <1>3
  <2>2. ~Pending(f)
    BY <2>1 DEF PInv, NoFutureForgotten, AnsweredUnlessIntercepted
  <2> QED BY <1>4, <2>2 DEF Pending
<1>8. FuturesGetTheirAnswer'
  <2> SUFFICES ASSUME NEW f \in Futures
               PROVE  /\ future'[f].is = "value" => future'[f].of = taken[f]
                      /\ future'[f].is = "exception" =>
                            future'[f].of = taken[f] \/ (mixed /\ future'[f] = Another)
                      /\ ~mixed /\ phase' \in {"answered", "finalized"} /\ taken[f] # Late
                           /\ Has(then', f) /\ Has(except', f) => ~Pending(f)'
    BY DEF FuturesGetTheirAnswer
  <2>1. CASE future'[f] = future[f]
    BY <1>3, <2>1 DEF PInv, FuturesGetTheirAnswer, Pending
  <2>2. CASE future'[f] # future[f]
    BY <1>4, <2>2 DEF Pending
  <2> QED BY <2>1, <2>2
<1> QED BY <1>1, <1>2, <1>4, <1>5, <1>6, <1>7, <1>8 DEF NoFutureForgotten

(* From there the rest of the invariant, for the actions that clear.       *)
LEMMA ClearedIsGood ==
    ASSUME PInv, then' \in {then, <<>>}, except' \in {except, <<>>},
           watched' \in {watched, FALSE},
           future' = Abandoned(future, then', except'), UNCHANGED <<usage, taken, mixed, answers>>,
           (phase' = phase /\ accepted' = accepted) \/ phase' \in {"idle", "gone"},
           phase' = "idle" /\ phase # "idle" => then' = <<>> /\ except' = <<>>,
           phase' = "gone" /\ ~held' => then' = <<>> /\ except' = <<>>
    PROVE  Placed' /\ Awaiting' /\ NoFutureForgotten' /\ FuturesGetTheirAnswer'
<1>1. /\ OnceEach(then') /\ OnceEach(except')
      /\ \A f \in Futures : Chained(f)' => Chained(f) /\ future'[f] = future[f]
      /\ ~mixed' => Pure(then') /\ Pure(except') /\ ~watched'
      /\ NoFutureForgotten' /\ FuturesGetTheirAnswer'
  BY ClearedKeeps
<1>2. Placed'
  BY <1>1 DEF PInv, Placed
<1>3. Awaiting'
  <2>1. CASE phase = "idle"
    BY <1>1, <2>1 DEF PInv, Awaiting, Pending
  <2>2. CASE phase # "idle"
    BY <2>2, EmptyChain DEF Awaiting, Chained
  <2> QED BY <2>1, <2>2
<1> QED BY <1>1, <1>2, <1>3

LEMMA ClearThenKeeps == ASSUME PInv, ClearThen PROVE PInv'
<1>1. Placed' /\ Awaiting' /\ NoFutureForgotten' /\ FuturesGetTheirAnswer'
  BY ClearedIsGood DEF ClearThen, chains, history, PInv, Placed
<1>2. then' \in Seq(Members) /\ except' \in Seq(Members)
      /\ future' \in [Futures -> FutureStates]
  BY ClearedKeeps DEF ClearThen, chains, history
<1>3. TypeOK' /\ Finals' /\ FinallyOK'
  <2>1. TypeOK' /\ Finals'
    BY <1>2 DEF ClearThen, chains, history, PInv, TypeOK, Finals, FirstRoundOver
  <2> QED BY <2>1, FinallyStays DEF ClearThen
<1> QED BY <1>1, <1>3 DEF PInv, FinallyOK

LEMMA ClearExceptKeeps == ASSUME PInv, ClearExcept PROVE PInv'
<1>1. Placed' /\ Awaiting' /\ NoFutureForgotten' /\ FuturesGetTheirAnswer'
  BY ClearedIsGood DEF ClearExcept, chains, history, PInv, Placed
<1>2. then' \in Seq(Members) /\ except' \in Seq(Members)
      /\ future' \in [Futures -> FutureStates]
  BY ClearedKeeps DEF ClearExcept, chains, history
<1>3. TypeOK' /\ Finals' /\ FinallyOK'
  <2>1. TypeOK' /\ Finals'
    BY <1>2 DEF ClearExcept, chains, history, PInv, TypeOK, Finals, FirstRoundOver
  <2> QED BY <2>1, FinallyStays DEF ClearExcept
<1> QED BY <1>1, <1>3 DEF PInv, FinallyOK

(* The end of a firing.                                                    *)
LEMMA ClearAllKeeps == ASSUME PInv, ClearAll PROVE PInv'
<1>1. Placed' /\ Awaiting' /\ NoFutureForgotten' /\ FuturesGetTheirAnswer'
  BY ClearedIsGood DEF ClearAll
<1>2. then' \in Seq(Members) /\ except' \in Seq(Members)
      /\ future' \in [Futures -> FutureStates]
  BY ClearedKeeps DEF ClearAll
<1>3. Finals' /\ finalized' /\ FirstRoundOver
  BY DEF ClearAll, PInv, TypeOK, Finals, FirstRoundOver
<1>4. finally' \in Seq(HandlerStates) /\ FinallyOK'
  <2>1. finally \in Seq(HandlerStates) /\ Finished(finally)
    BY <1>3 DEF PInv, TypeOK, FinallyRunsBeforeRestart, Finished
  <2> QED BY <1>3, <2>1, FinishedIsGood DEF ClearAll
<1>5. TypeOK'
  BY <1>2, <1>4 DEF ClearAll, PInv, TypeOK
<1> QED BY <1>1, <1>3, <1>4, <1>5 DEF PInv, FinallyOK

-----------------------------------------------------------------------------
(* The answer.                                                             *)
LEMMA AnswerKeeps ==
    ASSUME PInv, Answer, future' \in [Futures -> FutureStates],
           NEW c \in FutureStates, c.is \in {"value", "exception"}, c.of = answers + 1,
           \A f \in Futures : future'[f] # future[f] =>
               future[f].is = "pending" /\ Chained(f) /\ future'[f] \in Answers(c),
           accepted' \in BOOLEAN,
           \A f \in Futures : ~accepted' /\ Has(then, f) /\ except # <<>> /\ except[1] = f
               => future'[f].is # "pending",
           ~mixed => \A f \in Futures :
               /\ future'[f] # future[f] => future'[f] = c
               /\ Has(then, f) /\ Has(except, f) => future'[f].is # "pending"
    PROVE  PInv'
<1>1. TypeOK' /\ Finals' /\ FinallyOK'
  <2>1. TypeOK' /\ Finals'
    BY DEF Answer, chains, history, PInv, TypeOK, Finals, FirstRoundOver
  <2> QED BY <2>1, FinallyStays DEF Answer
<1>2. \A f \in Futures : future'[f].is = "pending" => future[f].is = "pending"
  BY AnotherIsState DEF Answers
<1>3. \A f \in Futures : future[f].is # "untaken" => future'[f].is # "untaken"
  BY AnotherIsState DEF Answers
<1>4. Placed' /\ Awaiting'
  BY <1>3 DEF Answer, chains, PInv, Placed, Awaiting, Chained
<1>5. WaitsForSomebody'
  BY <1>2 DEF Answer, chains, PInv, NoFutureForgotten, WaitsForSomebody, Pending
<1>6. AnsweredUnlessIntercepted'
  BY DEF Answer, chains, AnsweredUnlessIntercepted, Pending
<1>7. FuturesGetTheirAnswer'
  <2> SUFFICES ASSUME NEW f \in Futures
               PROVE  /\ future'[f].is = "value" => future'[f].of = taken[f]
                      /\ future'[f].is = "exception" =>
                            future'[f].of = taken[f] \/ (mixed /\ future'[f] = Another)
                      /\ ~mixed /\ Has(then, f) /\ Has(except, f) => ~Pending(f)'
    BY DEF Answer, chains, FuturesGetTheirAnswer
  <2>1. CASE future'[f] = future[f]
    BY <2>1 DEF PInv, FuturesGetTheirAnswer, Pending
  <2>2. CASE future'[f] # future[f]
    <3>1. taken[f] = answers + 1
      BY <2>2 DEF Answer, PInv, Awaiting
    <3>2. future'[f] = c \/ (mixed /\ future'[f] = Another)
      BY <2>2 DEF Answers
    <3> QED BY <3>1, <3>2, AnotherIsState DEF Pending
  <2> QED BY <2>1, <2>2
<1> QED BY <1>1, <1>4, <1>5, <1>6, <1>7 DEF PInv, NoFutureForgotten, FinallyOK

(* All that is in the chains waits when the answer comes.                  *)
LEMMA AllWait ==
    ASSUME PInv, Answer
    PROVE  \A f \in Futures : Has(then, f) \/ Has(except, f) => future[f].is = "pending"
BY DEF PInv, Answer, Awaiting, Chained, Pending

LEMMA ResolveKeeps == ASSUME PInv, Resolve PROVE PInv'
<1> DEFINE c == [is |-> "value", of |-> answers + 1]
<1>1. /\ future \in [Futures -> FutureStates] /\ c \in FutureStates /\ c.is = "value"
      /\ then \in Seq(Members) /\ except \in Seq(Members) /\ c.of = answers + 1
  BY DEF PInv, TypeOK, FutureStates
<1>2. Answer /\ Resolved(future, c)
  BY DEF Resolve
<1> HIDE DEF c
<1>3. /\ accepted' \in BOOLEAN
      /\ future' \in [Futures -> FutureStates]
      /\ \A f \in Futures : future'[f] # future[f] =>
            /\ future[f].is = "pending" /\ Chained(f)
            /\ future'[f] \in Answers(c)
      /\ \A f \in Futures : ~accepted' /\ Has(then, f) /\ except # <<>> /\ except[1] = f
            => future'[f].is # "pending"
      /\ Pure(then) /\ (\A f \in Futures : Has(then, f) => future[f].is = "pending")
            => /\ Satisfies(then, future, future', {c})
               /\ \A f \in Futures : Has(then, f) => future'[f] = c
  BY <1>1, <1>2, ResolvedEffect, ZenonT(60)
<1>4. ~mixed => \A f \in Futures :
               /\ future'[f] # future[f] => future'[f] = c
               /\ Has(then, f) /\ Has(except, f) => future'[f].is # "pending"
  BY <1>1, <1>2, <1>3, AllWait DEF PInv, Placed, Satisfies
<1> QED BY <1>1, <1>2, <1>3, <1>4, AnswerKeeps

LEMMA RejectKeeps == ASSUME PInv, Reject PROVE PInv'
<1> DEFINE c == [is |-> "exception", of |-> answers + 1]
<1>1. /\ future \in [Futures -> FutureStates] /\ c \in FutureStates /\ c.is = "exception"
      /\ except \in Seq(Members) /\ c.of = answers + 1
  BY DEF PInv, TypeOK, FutureStates
<1>2. Answer /\ Rejected(future, c)
  BY DEF Reject
<1> HIDE DEF c
<1>3. /\ accepted' \in BOOLEAN /\ (accepted' => watched)
      /\ Satisfies(except, future, future', Answers(c))
      /\ \A f \in Futures : ~accepted' /\ except # <<>> /\ except[1] = f
            => future'[f].is # "pending"
      /\ ~accepted' /\ Pure(except) /\ (\A f \in Futures : Has(except, f) => future[f].is = "pending")
            => /\ Satisfies(except, future, future', {c})
               /\ \A f \in Futures : Has(except, f) => future'[f] = c
  BY <1>1, <1>2, RejectedEffect
<1>4. ~mixed => \A f \in Futures :
               /\ future'[f] # future[f] => future'[f] = c
               /\ Has(then, f) /\ Has(except, f) => future'[f].is # "pending"
  BY <1>1, <1>2, <1>3, AllWait DEF PInv, Placed, Satisfies
<1>5. /\ future' \in [Futures -> FutureStates]
      /\ \A f \in Futures : future'[f] # future[f] =>
            future[f].is = "pending" /\ Chained(f) /\ future'[f] \in Answers(c)
  BY <1>3 DEF Satisfies, Chained
<1> QED BY <1>1, <1>2, <1>3, <1>4, <1>5, AnswerKeeps

-----------------------------------------------------------------------------
(* The end.                                                                *)
LEMMA FinalizeKeeps == ASSUME PInv, Finalize PROVE PInv'
<1>1. Finals' /\ finalized'
  BY DEF Finalize, PInv, TypeOK, Finals, FirstRoundOver
<1>2. finally' \in Seq(HandlerStates) /\ FinallyOK'
  BY <1>1, FinallyRunsEffect, FinishedIsGood DEF Finalize
<1>3. TypeOK'
  BY <1>2 DEF Finalize, chains, history, PInv, TypeOK
<1>4. Placed' /\ Awaiting' /\ NoFutureForgotten' /\ FuturesGetTheirAnswer'
  BY DEF Finalize, chains, history, PInv, Placed, Awaiting, NoFutureForgotten, WaitsForSomebody,
         AnsweredUnlessIntercepted, FuturesGetTheirAnswer, Chained, Pending
<1> QED BY <1>1, <1>2, <1>3, <1>4 DEF PInv, FinallyOK

LEMMA StartOneshotKeeps == ASSUME PInv, StartOneshot PROVE PInv'
<1>1. TypeOK' /\ Finals' /\ FinallyOK'
  <2>1. TypeOK' /\ Finals'
    BY DEF StartOneshot, chains, history, PInv, TypeOK, Finals, FirstRoundOver
  <2> QED BY <2>1, FinallyStays DEF StartOneshot
<1>2. Placed' /\ Awaiting' /\ NoFutureForgotten' /\ FuturesGetTheirAnswer'
  BY DEF StartOneshot, chains, history, PInv, Placed, Awaiting, NoFutureForgotten, WaitsForSomebody,
         AnsweredUnlessIntercepted, FuturesGetTheirAnswer, Chained, Pending
<1> QED BY <1>1, <1>2 DEF PInv, FinallyOK

(* The core goes with its last owner: what waits is broken, and what was   *)
(* to be run finally has been.                                             *)
LEMMA CoreGoesIsGood ==
    ASSUME PInv, CoreGoes, UNCHANGED <<usage, taken, mixed, answers>>, phase' = "gone", ~held'
    PROVE  /\ Placed' /\ Awaiting' /\ NoFutureForgotten' /\ FuturesGetTheirAnswer'
           /\ then' \in Seq(Members) /\ except' \in Seq(Members)
           /\ future' \in [Futures -> FutureStates]
           /\ Finals' /\ finally' \in Seq(HandlerStates) /\ FinallyOK'
<1>1. /\ then' = <<>> /\ except' = <<>> /\ watched' = FALSE
      /\ future' = Abandoned(future, then', except')
  BY DEF CoreGoes
<1>2. Finals' /\ finalized'
  BY DEF CoreGoes, Finals, FirstRoundOver
<1>3. finally' \in Seq(HandlerStates) /\ FinallyOK'
  <2>1. PICK h \in FinallyRuns : finally' = Unrun(h, "gone")
    BY DEF CoreGoes
  <2> QED BY <1>2, <2>1, FinallyRunsEffect, FinishedIsGood
<1> QED BY <1>1, <1>2, <1>3, ClearedIsGood, ClearedKeeps

LEMMA LetGoKeeps == ASSUME PInv, LetGo PROVE PInv'
<1>1. CASE held
  <2>1. TypeOK' /\ Finals' /\ FinallyOK'
    <3>1. TypeOK' /\ Finals'
      BY <1>1 DEF LetGo, chains, history, PInv, TypeOK, Finals, FirstRoundOver
    <3> QED BY <1>1, <3>1, FinallyStays DEF LetGo
  <2>2. Placed' /\ Awaiting' /\ NoFutureForgotten' /\ FuturesGetTheirAnswer'
    BY <1>1 DEF LetGo, chains, history, PInv, Placed, Awaiting, NoFutureForgotten,
           WaitsForSomebody, AnsweredUnlessIntercepted, FuturesGetTheirAnswer, Chained, Pending
  <2> QED BY <2>1, <2>2 DEF PInv, FinallyOK
<1>2. CASE ~held
  <2>1. /\ CoreGoes /\ UNCHANGED <<usage, answers, taken, mixed>> /\ phase' = "gone" /\ held' = FALSE
        /\ accepted' \in BOOLEAN
    BY <1>2 DEF LetGo, history, PInv, TypeOK
  <2>2. /\ Placed' /\ Awaiting' /\ NoFutureForgotten' /\ FuturesGetTheirAnswer'
        /\ then' \in Seq(Members) /\ except' \in Seq(Members)
        /\ future' \in [Futures -> FutureStates]
        /\ Finals' /\ finally' \in Seq(HandlerStates) /\ FinallyOK'
    BY <2>1, CoreGoesIsGood
  <2>3. TypeOK'
    BY <2>1, <2>2 DEF CoreGoes, PInv, TypeOK
  <2> QED BY <2>2, <2>3 DEF PInv, FinallyOK
<1> QED BY <1>1, <1>2

LEMMA DropPromiseKeeps == ASSUME PInv, DropPromise PROVE PInv'
<1>1. CASE phase # "gone"
  <2>1. TypeOK' /\ Finals' /\ FinallyOK'
    <3>1. TypeOK' /\ Finals'
      BY <1>1 DEF DropPromise, chains, history, PInv, TypeOK, Finals, FirstRoundOver
    <3> QED BY <1>1, <3>1, FinallyStays DEF DropPromise
  <2>2. Placed' /\ Awaiting' /\ NoFutureForgotten' /\ FuturesGetTheirAnswer'
    BY <1>1 DEF DropPromise, chains, history, PInv, Placed, Awaiting, NoFutureForgotten,
           WaitsForSomebody, AnsweredUnlessIntercepted, FuturesGetTheirAnswer, Chained, Pending
  <2> QED BY <2>1, <2>2 DEF PInv, FinallyOK
<1>2. CASE phase = "gone"
  <2>1. /\ CoreGoes /\ UNCHANGED <<usage, answers, taken, mixed>> /\ phase' = "gone" /\ held' = FALSE
        /\ accepted' \in BOOLEAN
    BY <1>2 DEF DropPromise, history, PInv, TypeOK
  <2>2. /\ Placed' /\ Awaiting' /\ NoFutureForgotten' /\ FuturesGetTheirAnswer'
        /\ then' \in Seq(Members) /\ except' \in Seq(Members)
        /\ future' \in [Futures -> FutureStates]
        /\ Finals' /\ finally' \in Seq(HandlerStates) /\ FinallyOK'
    BY <2>1, CoreGoesIsGood
  <2>3. TypeOK'
    BY <2>1, <2>2 DEF CoreGoes, PInv, TypeOK
  <2> QED BY <2>2, <2>3 DEF PInv, FinallyOK
<1> QED BY <1>1, <1>2

-----------------------------------------------------------------------------
LEMMA InitIsGood == Init => PInv
<1> SUFFICES ASSUME Init PROVE PInv
  OBVIOUS
<1>1. TypeOK
  <2>1. [is |-> "untaken", of |-> 0] \in FutureStates /\ Late \in Nat
    BY DEF FutureStates, Late
  <2>2. <<>> \in Seq(HandlerStates)
    BY EmptySeq
  <2> QED BY <2>1, <2>2, EmptyChain DEF Init, TypeOK
<1>2. Placed /\ Awaiting /\ Finals
  BY EmptyChain DEF Init, Placed, Awaiting, Chained, Finals, FirstRoundOver
<1>3. NoFutureForgotten /\ FuturesGetTheirAnswer /\ Unfinished /\ FinallyRunsBeforeRestart
  BY DEF Init, Unfinished, FinallyRunsBeforeRestart, NoFutureForgotten, WaitsForSomebody,
         AnsweredUnlessIntercepted, FuturesGetTheirAnswer, Pending
<1> QED BY <1>1, <1>2, <1>3 DEF PInv, FinallyOK

LEMMA StutterKeeps == ASSUME PInv, UNCHANGED pVars PROVE PInv'
<1>1. TypeOK' /\ Finals' /\ FinallyOK'
  <2>1. TypeOK' /\ Finals'
    BY DEF pVars, chains, history, PInv, TypeOK, Finals, FirstRoundOver
  <2> QED BY <2>1, FinallyStays DEF pVars, chains
<1>2. Placed' /\ Awaiting' /\ NoFutureForgotten' /\ FuturesGetTheirAnswer'
  BY DEF pVars, chains, history, PInv, Placed, Awaiting, NoFutureForgotten, WaitsForSomebody,
         AnsweredUnlessIntercepted, FuturesGetTheirAnswer, Chained, Pending
<1> QED BY <1>1, <1>2 DEF PInv, FinallyOK

LEMMA NextKeeps == PInv /\ [Next]_pVars => PInv'
<1> SUFFICES ASSUME PInv, [Next]_pVars PROVE PInv'
  OBVIOUS
<1>1. CASE \E f \in Futures : GetFuture(f)
  BY <1>1, GetFutureKeeps
<1>2. CASE CastResolve
  BY <1>2, ResolveKeeps, RejectKeeps DEF CastResolve
<1> QED BY <1>1, <1>2, RegisterThenKeeps, RegisterExceptKeeps, RegisterWatchKeeps,
           RegisterFinallyKeeps, ClearThenKeeps, ClearExceptKeeps, ClearWatchKeeps,
           ClearFinallyKeeps, ResolveKeeps, RejectKeeps, FinalizeKeeps,
           ClearAllKeeps, StartOneshotKeeps, LetGoKeeps, DropPromiseKeeps, StutterKeeps
        DEF Next

(* The invariant from which the properties follow.                         *)
THEOREM PInvHolds == SafeSpec => []PInv
  BY InitIsGood, NextKeeps, PTL DEF SafeSpec

(* Every variable of a promise has its type, and the futures their states. *)
THEOREM TypeCorrect == SafeSpec => []TypeOK
<1>1. PInv => TypeOK
  BY DEF PInv
<1> QED BY <1>1, PInvHolds, PTL

(* A future that waits has a closure that can satisfy it; and once the     *)
(* promise is answered it waits no longer, if it was taken in time, is the *)
(* first of the except chain and no watcher accepted the exception.        *)
THEOREM NoFutureForgottenHolds == SafeSpec => []NoFutureForgotten
<1>1. PInv => NoFutureForgotten
  BY DEF PInv
<1> QED BY <1>1, PInvHolds, PTL

(* Nobody waits for a promise that has lost both its owners.               *)
NobodyWaitsAtTheEnd == phase = "gone" /\ ~held => \A f \in Futures : ~Pending(f)

(* The futures that a promise did not satisfy are broken by the end of its *)
(* two owners, so that nobody waits for ever.                              *)
THEOREM NobodyWaitsAtTheEndHolds == SafeSpec => []NobodyWaitsAtTheEnd
<1>1. PInv => NobodyWaitsAtTheEnd
  BY EmptyChain DEF PInv, Placed, NoFutureForgotten, WaitsForSomebody, NobodyWaitsAtTheEnd
<1> QED BY <1>1, PInvHolds, PTL

(* Values and exceptions are those of the firing a future was taken for;   *)
(* futures alone all get theirs.                                           *)
THEOREM FuturesGetTheirAnswerHolds == SafeSpec => []FuturesGetTheirAnswer
<1>1. PInv => FuturesGetTheirAnswer
  BY DEF PInv
<1> QED BY <1>1, PInvHolds, PTL

(* A finally handler registered before the first round is over runs when   *)
(* it ends, unless it is cleared or one registered before it throws.       *)
THEOREM FinallyRunsBeforeRestartHolds == SafeSpec => []FinallyRunsBeforeRestart
<1>1. PInv => FinallyRunsBeforeRestart
  BY DEF PInv
<1> QED BY <1>1, PInvHolds, PTL

-----------------------------------------------------------------------------
(* Who touches the futures: get_future, answers, and what destroys         *)
(* closures.                                                               *)
LEMMA FutureMoves ==
    ASSUME PInv, [Next]_pVars, NEW f \in Futures, future'[f] # future[f]
    PROVE  future[f].is \in {"untaken", "pending"}
<1>1. /\ future \in [Futures -> FutureStates]
      /\ then \in Seq(Members) /\ except \in Seq(Members) /\ answers + 1 \in Nat
  BY DEF PInv, TypeOK
<1>2. ASSUME NEW g \in Futures, GetFuture(g) PROVE future[f].is = "untaken"
  BY <1>1, <1>2 DEF GetFuture, chains, history
<1>3. ASSUME NEW t, NEW e, future' = Abandoned(future, t, e) PROVE future[f].is = "pending"
  BY <1>1, <1>3, AbandonedEffect
<1>4. CASE Resolve
  <2>1. [is |-> "value", of |-> answers + 1] \in FutureStates
    BY <1>1 DEF FutureStates
  <2> QED BY <1>1, <1>4, <2>1, ResolvedEffect DEF Resolve
<1>5. CASE Reject
  <2>1. [is |-> "exception", of |-> answers + 1] \in FutureStates
    BY <1>1 DEF FutureStates
  <2> QED BY <1>1, <1>5, <2>1, RejectedEffect DEF Reject, Satisfies
<1>6. CASE ClearThen \/ ClearExcept \/ ClearAll
  BY <1>3, <1>6 DEF ClearThen, chains, history, ClearExcept, ClearAll
<1>7. CASE LetGo \/ DropPromise
  BY <1>3, <1>7 DEF LetGo, chains, history, DropPromise, CoreGoes
<1>8. CASE \/ RegisterThen \/ RegisterExcept \/ RegisterWatch \/ RegisterFinally
           \/ ClearWatch \/ ClearFinally \/ Finalize \/ StartOneshot \/ UNCHANGED pVars
  BY <1>8 DEF RegisterThen, RegisterExcept, RegisterWatch, RegisterFinally, ClearWatch,
              ClearFinally, Finalize, StartOneshot, pVars
<1> QED BY <1>2, <1>4, <1>5, <1>6, <1>7, <1>8 DEF Next, CastResolve

(* What a future has got stays, whatever comes after it.                   *)
THEOREM FuturesSettleOnceHolds == SafeSpec => FuturesSettleOnce
<1>1. PInv /\ [Next]_pVars =>
        [\A f \in Futures : future[f].is \in {"value", "exception", "broken"} =>
             future'[f] = future[f]]_pVars
  BY FutureMoves
<1> QED BY <1>1, PInvHolds, PTL DEF SafeSpec, FuturesSettleOnce
=============================================================================
