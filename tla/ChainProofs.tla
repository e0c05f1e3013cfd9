----------------------------- MODULE ChainProofs ----------------------------
(***************************************************************************)
(* The safety properties of Chain for any classes of exceptions and any    *)
(* bounds.  GInv says which exceptions the running chains carry (Carries), *)
(* that their closures exist (FrameOK), what the finally handlers started  *)
(* so far say about those still to start (FinallyInv), and that no         *)
(* exception is dated after the calls made so far (Dated).                 *)
(***************************************************************************)
EXTENDS Chain, TLAPS, SequenceTheorems, FiniteSetTheorems

Handlers == [id : Nat, kind : UNION {KindsOf[s] : s \in Slots}]
Frames == [slot : Slots, todo : Seq(Handlers), live : BOOLEAN, exc : Nat, tries : Nat]
Exceptions == [class : Classes \cup {BadCall}, gen : Nat, shown : BOOLEAN,
               by : Slots \cup {"raise"}, at : Nat, fate : Fates]

(* Types.                                                                  *)
TypeOK ==
    /\ chain \in [Slots -> Seq(Handlers)]
    /\ finalized \in BOOLEAN /\ destroyed \in BOOLEAN /\ freedRead \in BOOLEAN
    /\ stack \in Seq(Frames)
    /\ thrown \in Seq(Exceptions)
    /\ finalRuns \in Seq(Nat)
    /\ ops \in Nat

(* The build and the programs of which NoFreedClosure is true.             *)
Survives == InitCaptures /\ ~ClearRunning

(* Only handlers of the raising chains answer.                             *)
Raising == {"watch", "except"}
ChainsOK == \A s \in Slots \ Raising : \A j \in DOMAIN chain[s] : chain[s][j].kind = "plain"

(* A chain that runs has a handler to run, and whatever closure it will    *)
(* read exists.                                                            *)
FrameOK(f) ==
    /\ f.todo # <<>>
    /\ Survives /\ Len(f.todo) > 1 => f.live
    /\ f.slot \notin Raising => \A j \in DOMAIN f.todo : f.todo[j].kind = "plain"
FramesOK == \A i \in DOMAIN stack : FrameOK(stack[i])

(* The chains of st carry the flying exceptions of th, one each, except    *)
(* the exceptions of E, and none that was thrown over too often.           *)
Carries(st, th, E) ==
    /\ \A i \in DOMAIN st :
          IF st[i].slot \in Raising
          THEN /\ st[i].exc \in DOMAIN th \ E /\ th[st[i].exc].fate = "flying"
               /\ th[st[i].exc].gen <= st[i].tries /\ st[i].tries <= MaxRetry
               /\ st[i].slot = "watch" => st[i].tries = 0
          ELSE st[i].exc = 0
    /\ \A i, j \in DOMAIN st : st[i].exc = st[j].exc /\ st[i].exc # 0 => i = j
    /\ \A e \in DOMAIN th \ E : th[e].fate = "flying" => \E i \in DOMAIN st : st[i].exc = e

Rising(h) == \A i, j \in DOMAIN h : i < j => h[i].id < h[j].id

(* Handlers are numbered in the order of registration; there is one run of *)
(* the finally chain, and its next handler is the one that started last.   *)
FinallyInv ==
    /\ FinallyOnce
    /\ Rising(chain.finally)
    /\ \A i \in DOMAIN chain.finally : chain.finally[i].id < ops
    /\ ~finalized => finalRuns = <<>> /\ \A i \in DOMAIN stack : stack[i].slot # "finally"
    /\ \A i \in DOMAIN stack : stack[i].slot = "finally" =>
          /\ Rising(stack[i].todo)
          /\ finalRuns # <<>> /\ finalRuns[Len(finalRuns)] = stack[i].todo[1].id
    /\ \A i, j \in DOMAIN stack :
          stack[i].slot = "finally" /\ stack[j].slot = "finally" => i = j

Dated == \A e \in DOMAIN thrown : thrown[e].at <= ops

GInv ==
    /\ TypeOK /\ ChainsOK /\ FramesOK /\ Carries(stack, thrown, {}) /\ FinallyInv
    /\ Dated /\ WatchersSeeEvents /\ (Survives => NoFreedClosure)

-----------------------------------------------------------------------------
(* The stack.                                                              *)
LEMMA Pushed ==
    ASSUME NEW below \in Seq(Frames), NEW f \in Frames
    PROVE  LET st == <<f>> \o below IN
           /\ st \in Seq(Frames) /\ st # <<>>
           /\ DOMAIN st = 1..(Len(below) + 1) /\ DOMAIN below = 1..Len(below)
           /\ Len(below) \in Nat
           /\ st[1] = f
           /\ \A i \in 1..Len(below) : st[i + 1] = below[i]
           /\ \A i \in DOMAIN st : i # 1 => i - 1 \in DOMAIN below /\ st[i] = below[i - 1]
<1> DEFINE st == <<f>> \o below
<1>1. <<f>> \in Seq(Frames) /\ Len(<<f>>) = 1 /\ <<f>>[1] = f
  OBVIOUS
<1>2. Len(below) \in Nat /\ DOMAIN below = 1..Len(below)
  BY LenProperties
<1>3. /\ st \in Seq(Frames) /\ Len(st) = 1 + Len(below)
      /\ \A i \in 1..(1 + Len(below)) :
            st[i] = IF i <= 1 THEN <<f>>[i] ELSE below[i - 1]
  <2> HIDE DEF Frames
  <2> QED BY <1>1, ConcatProperties
<1>4. DOMAIN st = 1..(Len(below) + 1)
  <2>1. DOMAIN st = 1..Len(st)
    BY <1>3, LenProperties
  <2> QED BY <1>2, <1>3, <2>1
<1> HIDE DEF st, Frames
<1>5. st[1] = f
  BY <1>1, <1>2, <1>3
<1>6. \A i \in 1..Len(below) : st[i + 1] = below[i]
  BY <1>2, <1>3
<1>7. \A i \in DOMAIN st : i # 1 => i - 1 \in DOMAIN below /\ st[i] = below[i - 1]
  BY <1>2, <1>3, <1>4
<1>8. st # <<>>
  BY <1>2, <1>3
<1> QED BY <1>2, <1>3, <1>4, <1>5, <1>6, <1>7, <1>8 DEF st

LEMMA Popped ==
    ASSUME NEW st \in Seq(Frames), st # <<>>
    PROVE  /\ Tail(st) \in Seq(Frames) /\ Head(st) \in Frames /\ Head(st) = st[1]
           /\ Len(st) \in Nat \ {0}
           /\ DOMAIN st = 1..Len(st) /\ DOMAIN Tail(st) = 1..(Len(st) - 1)
           /\ \A i \in DOMAIN Tail(st) : Tail(st)[i] = st[i + 1] /\ i + 1 \in DOMAIN st
           /\ \A i \in DOMAIN st : i # 1 => i - 1 \in DOMAIN Tail(st) /\ Tail(st)[i - 1] = st[i]
<1> HIDE DEF Frames
<1>1. /\ Tail(st) \in Seq(Frames) /\ Head(st) \in Frames
      /\ Len(Tail(st)) = Len(st) - 1
      /\ \A i \in 1..Len(Tail(st)) : Tail(st)[i] = st[i + 1]
  BY HeadTailProperties
<1>2. Len(st) \in Nat \ {0} /\ DOMAIN st = 1..Len(st)
  BY LenProperties, EmptySeq
<1>3. DOMAIN Tail(st) = 1..Len(Tail(st))
  BY <1>1, LenProperties
<1>4. Head(st) = st[1]
  BY <1>2
<1> QED BY <1>1, <1>2, <1>3, <1>4

-----------------------------------------------------------------------------
(* The exceptions that chains carry.                                       *)
LEMMA CarriesPushed ==
    ASSUME NEW below \in Seq(Frames), NEW th \in Seq(Exceptions), NEW e \in DOMAIN th,
           NEW f \in Frames, Carries(below, th, {e}), th[e].fate = "flying",
           f.slot \in Raising, f.exc = e, th[e].gen <= f.tries, f.tries <= MaxRetry,
           f.slot = "watch" => f.tries = 0
    PROVE  Carries(<<f>> \o below, th, {})
<1> DEFINE st == <<f>> \o below
<1>1. /\ DOMAIN st = 1..(Len(below) + 1) /\ DOMAIN below = 1..Len(below)
      /\ Len(below) \in Nat /\ st[1] = f
      /\ \A i \in 1..Len(below) : st[i + 1] = below[i]
      /\ \A i \in DOMAIN st : i # 1 => i - 1 \in DOMAIN below /\ st[i] = below[i - 1]
  BY Pushed
<1> HIDE DEF st
<1>2. 0 \notin DOMAIN th
  BY LenProperties
<1>3. ASSUME NEW i \in DOMAIN st
      PROVE  IF st[i].slot \in Raising
             THEN /\ st[i].exc \in DOMAIN th /\ th[st[i].exc].fate = "flying"
                  /\ th[st[i].exc].gen <= st[i].tries /\ st[i].tries <= MaxRetry
                  /\ st[i].slot = "watch" => st[i].tries = 0
             ELSE st[i].exc = 0
  BY <1>1, <1>3 DEF Carries
<1>4. ASSUME NEW i \in DOMAIN st, i # 1 PROVE st[i].exc # e
  BY <1>1, <1>2, <1>4 DEF Carries
<1>5. ASSUME NEW i \in DOMAIN st, NEW j \in DOMAIN st, st[i].exc = st[j].exc, st[i].exc # 0
      PROVE  i = j
  <2>1. CASE i = 1 \/ j = 1
    BY <1>1, <1>4, <1>5, <2>1
  <2>2. CASE i # 1 /\ j # 1
    <3>1. i - 1 = j - 1
      BY <1>1, <1>5, <2>2 DEF Carries
    <3> QED BY <1>1, <3>1
  <2> QED BY <2>1, <2>2
<1>6. ASSUME NEW d \in DOMAIN th, th[d].fate = "flying" PROVE \E i \in DOMAIN st : st[i].exc = d
  <2>1. CASE d = e
    BY <1>1, <2>1
  <2>2. CASE d # e
    <3>1. PICK i \in DOMAIN below : below[i].exc = d
      BY <1>6, <2>2 DEF Carries
    <3>2. i + 1 \in DOMAIN st /\ st[i + 1].exc = d
      BY <1>1, <3>1
    <3> QED BY <3>2
  <2> QED BY <2>1, <2>2
<1>7. Carries(st, th, {})
  BY <1>3, <1>5, <1>6 DEF Carries
<1> QED BY <1>7 DEF st

LEMMA CarriesPushedOther ==
    ASSUME NEW below \in Seq(Frames), NEW th, NEW f \in Frames, Carries(below, th, {}),
           f.slot \notin Raising, f.exc = 0
    PROVE  Carries(<<f>> \o below, th, {})
<1> DEFINE st == <<f>> \o below
<1>1. /\ DOMAIN st = 1..(Len(below) + 1) /\ DOMAIN below = 1..Len(below)
      /\ Len(below) \in Nat /\ st[1] = f
      /\ \A i \in 1..Len(below) : st[i + 1] = below[i]
      /\ \A i \in DOMAIN st : i # 1 => i - 1 \in DOMAIN below /\ st[i] = below[i - 1]
  BY Pushed
<1> HIDE DEF st
<1>2. ASSUME NEW i \in DOMAIN st
      PROVE  IF st[i].slot \in Raising
             THEN /\ st[i].exc \in DOMAIN th /\ th[st[i].exc].fate = "flying"
                  /\ th[st[i].exc].gen <= st[i].tries /\ st[i].tries <= MaxRetry
                  /\ st[i].slot = "watch" => st[i].tries = 0
             ELSE st[i].exc = 0
  BY <1>1, <1>2 DEF Carries
<1>3. ASSUME NEW i \in DOMAIN st, NEW j \in DOMAIN st, st[i].exc = st[j].exc, st[i].exc # 0
      PROVE  i = j
  <2>1. i # 1 /\ j # 1
    BY <1>1, <1>3
  <2>2. i - 1 = j - 1
    BY <1>1, <1>3, <2>1 DEF Carries
  <2> QED BY <1>1, <2>2
<1>4. ASSUME NEW d \in DOMAIN th, th[d].fate = "flying" PROVE \E i \in DOMAIN st : st[i].exc = d
  <2>1. PICK i \in DOMAIN below : below[i].exc = d
    BY <1>4 DEF Carries
  <2>2. i + 1 \in DOMAIN st /\ st[i + 1].exc = d
    BY <1>1, <2>1
  <2> QED BY <2>2
<1>5. Carries(st, th, {})
  BY <1>2, <1>3, <1>4 DEF Carries
<1> QED BY <1>5 DEF st

(* The chain on top ends: nobody carries its exception any more.           *)
LEMMA CarriesPopped ==
    ASSUME NEW st \in Seq(Frames), st # <<>>, NEW th \in Seq(Exceptions), Carries(st, th, {})
    PROVE  LET f == Head(st) IN
           IF f.slot \in Raising
           THEN /\ Carries(Tail(st), th, {f.exc})
                /\ f.exc \in DOMAIN th /\ th[f.exc].fate = "flying"
                /\ th[f.exc].gen <= f.tries /\ f.tries <= MaxRetry
                /\ f.slot = "watch" => f.tries = 0
           ELSE Carries(Tail(st), th, {}) /\ f.exc = 0
<1> DEFINE tl == Tail(st)
<1>1. /\ Head(st) = st[1] /\ 1 \in DOMAIN st
      /\ \A i \in DOMAIN tl : tl[i] = st[i + 1] /\ i + 1 \in DOMAIN st /\ i \in Nat \ {0}
      /\ \A i \in DOMAIN st : i # 1 => i - 1 \in DOMAIN tl /\ tl[i - 1] = st[i]
  BY Popped
<1> HIDE DEF tl
<1>2. 0 \notin DOMAIN th
  BY LenProperties
<1> DEFINE E == IF Head(st).slot \in Raising THEN {Head(st).exc} ELSE {}
<1>3. ASSUME NEW i \in DOMAIN tl
      PROVE  IF tl[i].slot \in Raising
             THEN /\ tl[i].exc \in DOMAIN th \ E /\ th[tl[i].exc].fate = "flying"
                  /\ th[tl[i].exc].gen <= tl[i].tries /\ tl[i].tries <= MaxRetry
                  /\ tl[i].slot = "watch" => tl[i].tries = 0
             ELSE tl[i].exc = 0
  <2>1. i + 1 \in DOMAIN st /\ tl[i] = st[i + 1] /\ i + 1 # 1
    BY <1>1
  <2>2. st[i + 1].slot \in Raising => st[i + 1].exc # 0
    BY <1>2, <2>1 DEF Carries
  <2>3. st[i + 1].exc # 0 => st[i + 1].exc # st[1].exc
    BY <1>1, <2>1 DEF Carries
  <2> QED BY <1>1, <2>1, <2>2, <2>3 DEF Carries
<1>4. ASSUME NEW i \in DOMAIN tl, NEW j \in DOMAIN tl, tl[i].exc = tl[j].exc, tl[i].exc # 0
      PROVE  i = j
  <2>1. i + 1 = j + 1
    BY <1>1, <1>4 DEF Carries
  <2> QED BY <1>1, <2>1
<1>5. ASSUME NEW d \in DOMAIN th \ E, th[d].fate = "flying" PROVE \E i \in DOMAIN tl : tl[i].exc = d
  <2>1. PICK i \in DOMAIN st : st[i].exc = d
    BY <1>5 DEF Carries
  <2>2. i # 1
    BY <1>1, <1>2, <1>5, <2>1 DEF Carries
  <2>3. i - 1 \in DOMAIN tl /\ tl[i - 1].exc = d
    BY <1>1, <2>1, <2>2
  <2> QED BY <2>3
<1>6. Carries(tl, th, E)
  BY <1>3, <1>4, <1>5 DEF Carries
<1> QED BY <1>1, <1>6 DEF Carries, tl

(* What may change in the exceptions that are not carried.                 *)
LEMMA CarriesAlike ==
    ASSUME NEW st, NEW th, NEW th2, NEW E, NEW F, Carries(st, th, E),
           \A d \in DOMAIN th \ E :
              d \in DOMAIN th2 \ F /\ th2[d].fate = th[d].fate /\ th2[d].gen = th[d].gen,
           \A d \in DOMAIN th2 \ F : th2[d].fate = "flying" => d \in DOMAIN th \ E
    PROVE  Carries(st, th2, F)
<1>1. ASSUME NEW i \in DOMAIN st
      PROVE  IF st[i].slot \in Raising
             THEN /\ st[i].exc \in DOMAIN th2 \ F /\ th2[st[i].exc].fate = "flying"
                  /\ th2[st[i].exc].gen <= st[i].tries /\ st[i].tries <= MaxRetry
                  /\ st[i].slot = "watch" => st[i].tries = 0
             ELSE st[i].exc = 0
  BY DEF Carries
<1>2. ASSUME NEW d \in DOMAIN th2 \ F, th2[d].fate = "flying"
      PROVE  \E i \in DOMAIN st : st[i].exc = d
  BY <1>2 DEF Carries
<1>3. \A i, j \in DOMAIN st : st[i].exc = st[j].exc /\ st[i].exc # 0 => i = j
  BY DEF Carries
<1> QED BY <1>1, <1>2, <1>3 DEF Carries

-----------------------------------------------------------------------------
(* The history of exceptions.                                              *)
LEMMA Settled ==
    ASSUME NEW th \in Seq(Exceptions), NEW e \in DOMAIN th, NEW fate \in Fates
    PROVE  LET t == Settle(th, e, fate) IN
           /\ t \in Seq(Exceptions) /\ DOMAIN t = DOMAIN th /\ Len(t) = Len(th)
           /\ t[e].fate = fate /\ t[e].gen = th[e].gen /\ t[e].by = th[e].by
           /\ t[e].class = th[e].class /\ t[e].shown = th[e].shown /\ t[e].at = th[e].at
           /\ \A d \in DOMAIN th : d # e => t[d] = th[d]
<1> DEFINE x == [th[e] EXCEPT !.fate = fate]
<1>1. e \in 1..Len(th) /\ DOMAIN th = 1..Len(th)
  BY LenProperties
<1>2. th[e] \in Exceptions
  BY <1>1, ElementOfSeq
<1>3. /\ x \in Exceptions /\ x.fate = fate /\ x.gen = th[e].gen /\ x.by = th[e].by
      /\ x.class = th[e].class /\ x.shown = th[e].shown /\ x.at = th[e].at
  BY <1>2 DEF Exceptions
<1> HIDE DEF x, Exceptions
<1>4. /\ [th EXCEPT ![e] = x] \in Seq(Exceptions)
      /\ Len([th EXCEPT ![e] = x]) = Len(th)
      /\ \A j \in 1..Len(th) : [th EXCEPT ![e] = x][j] = IF j = e THEN x ELSE th[j]
  BY <1>1, <1>3, ExceptSeq
<1>5. Settle(th, e, fate) = [th EXCEPT ![e] = x]
  BY DEF Settle, x
<1> QED BY <1>1, <1>3, <1>4, <1>5, LenProperties

LEMMA Appended ==
    ASSUME NEW th \in Seq(Exceptions), NEW x \in Exceptions
    PROVE  LET t == Append(th, x) IN
           /\ t \in Seq(Exceptions) /\ DOMAIN t = DOMAIN th \cup {Len(th) + 1}
           /\ Len(t) = Len(th) + 1 /\ Len(th) + 1 \notin DOMAIN th
           /\ t[Len(th) + 1] = x
           /\ \A d \in DOMAIN th : t[d] = th[d]
<1> DEFINE t == Append(th, x)
<1> HIDE DEF Exceptions
<1>1. /\ t \in Seq(Exceptions) /\ Len(t) = Len(th) + 1
      /\ \A i \in 1..Len(th) : t[i] = th[i]
      /\ t[Len(th) + 1] = x
  BY AppendProperties
<1>2. /\ DOMAIN t = 1..Len(t) /\ DOMAIN th = 1..Len(th) /\ Len(th) \in Nat
  BY <1>1, LenProperties
<1>3. /\ DOMAIN t = DOMAIN th \cup {Len(th) + 1} /\ Len(th) + 1 \notin DOMAIN th
  BY <1>1, <1>2
<1> QED BY <1>1, <1>2, <1>3

(* What the watchers need not be given.                                    *)
Exempt(x) == x.by \notin {"raise", "call"}

(* th2 is th some time later: what was settled stays, and what is new is   *)
(* of now and the watchers, if there were any, have seen what they must.   *)
Later(th, th2) ==
    /\ DOMAIN th \subseteq DOMAIN th2
    /\ \A d \in DOMAIN th :
          /\ th[d].fate # "flying" => th2[d].fate = th[d].fate
          /\ th2[d].by = th[d].by /\ th2[d].at = th[d].at
          /\ th[d].shown => th2[d].shown
    /\ \A d \in DOMAIN th2 \ DOMAIN th :
          /\ th2[d].at = ops
          /\ chain.watch # <<>> => th2[d].shown \/ Exempt(th2[d])

LEMMA LaterIsTransitive ==
    ASSUME NEW t1, NEW t2, NEW t3, Later(t1, t2), Later(t2, t3)
    PROVE  Later(t1, t3)
<1>1. ASSUME NEW d \in DOMAIN t3 \ DOMAIN t1
      PROVE  /\ t3[d].at = ops
             /\ chain.watch # <<>> => t3[d].shown \/ Exempt(t3[d])
  <2>1. CASE d \in DOMAIN t2
    BY <1>1, <2>1 DEF Later, Exempt
  <2>2. CASE d \notin DOMAIN t2
    BY <1>1, <2>2 DEF Later
  <2> QED BY <2>1, <2>2
<1> QED BY <1>1 DEF Later

LEMMA SettledLater ==
    ASSUME NEW th \in Seq(Exceptions), NEW e \in DOMAIN th, NEW fate \in Fates,
           th[e].fate = "flying"
    PROVE  Later(th, Settle(th, e, fate))
  BY Settled DEF Later

LEMMA AppendedLater ==
    ASSUME NEW th \in Seq(Exceptions), NEW x \in Exceptions, Exempt(x), x.at = ops
    PROVE  Later(th, Append(th, x))
  BY Appended DEF Later

(* An exception that flies and that nobody carries is settled.             *)
LEMMA CarriesSettled ==
    ASSUME NEW st, NEW th \in Seq(Exceptions), NEW e \in DOMAIN th, NEW E,
           NEW fate \in Fates, fate # "flying", Carries(st, th, E), e \in E
    PROVE  Carries(st, Settle(th, e, fate), E \ {e})
<1> DEFINE t == Settle(th, e, fate)
<1>1. /\ DOMAIN t = DOMAIN th /\ t[e].fate = fate
      /\ \A d \in DOMAIN th : d # e => t[d] = th[d]
  BY Settled
<1> HIDE DEF t
<1>2. \A d \in DOMAIN th \ E :
         d \in DOMAIN t \ (E \ {e}) /\ t[d].fate = th[d].fate /\ t[d].gen = th[d].gen
  BY <1>1
<1>3. \A d \in DOMAIN t \ (E \ {e}) : t[d].fate = "flying" => d \in DOMAIN th \ E
  BY <1>1
<1>4. Carries(st, t, E \ {e})
  BY <1>2, <1>3, CarriesAlike
<1> QED BY <1>4 DEF t

(* An exception is thrown, and nobody carries it yet.                      *)
LEMMA CarriesAppended ==
    ASSUME NEW st, NEW th \in Seq(Exceptions), NEW x \in Exceptions, NEW E, Carries(st, th, E)
    PROVE  Carries(st, Append(th, x), E \cup {Len(th) + 1})
<1> DEFINE t == Append(th, x)  F == E \cup {Len(th) + 1}
<1>1. /\ DOMAIN t = DOMAIN th \cup {Len(th) + 1} /\ Len(th) + 1 \notin DOMAIN th
      /\ \A d \in DOMAIN th : t[d] = th[d]
  BY Appended
<1> HIDE DEF t
<1>2. \A d \in DOMAIN th \ E :
         d \in DOMAIN t \ F /\ t[d].fate = th[d].fate /\ t[d].gen = th[d].gen
  BY <1>1
<1>3. \A d \in DOMAIN t \ F : t[d].fate = "flying" => d \in DOMAIN th \ E
  BY <1>1
<1>4. Carries(st, t, F)
  BY <1>2, <1>3, CarriesAlike
<1> QED BY <1>4 DEF t

-----------------------------------------------------------------------------
(* raise and what leads to it: each moves the stack, and settles or hands  *)
(* on the exceptions.                                                      *)
LEMMA FrameType ==
    ASSUME TypeOK, NEW s \in Slots, NEW e \in Nat, NEW t \in Nat
    PROVE  Frame(s, e, t) \in Frames
  BY DEF TypeOK, Frame, Frames

(* The chains that run become those of `below`, or one that does not       *)
(* finalize is entered above them.                                         *)
Moves(below) ==
    \/ stack' = below
    \/ \E s \in Slots \ {"finally"}, e \in Nat, t \in Nat :
          chain[s] # <<>> /\ stack' = <<Frame(s, e, t)>> \o below

Outcome(below, th) ==
    /\ Moves(below)
    /\ thrown' \in Seq(Exceptions)
    /\ Carries(stack', thrown', {})
    /\ Later(th, thrown')

LEMMA OfferExceptOutcome ==
    ASSUME TypeOK, NEW below \in Seq(Frames), NEW th \in Seq(Exceptions), NEW e \in DOMAIN th,
           NEW tries \in Nat, Carries(below, th, {e}), th[e].fate = "flying",
           th[e].gen <= tries, tries <= MaxRetry, OfferExcept(below, e, tries, th)
    PROVE  Outcome(below, th)
<1>1. e \in Nat
  BY LenProperties
<1>2. CASE chain.except # <<>>
  <2>1. stack' = <<Frame("except", e, tries)>> \o below /\ thrown' = th
    BY <1>2 DEF OfferExcept
  <2>2. Moves(below)
    <3>1. "except" \in Slots \ {"finally"} /\ chain["except"] # <<>>
      BY <1>2 DEF Slots
    <3> QED BY <1>1, <2>1, <3>1 DEF Moves
  <2>3. Carries(stack', thrown', {})
    <3> DEFINE f == Frame("except", e, tries)
    <3>1. f \in Frames /\ f.slot = "except" /\ f.exc = e /\ f.tries = tries
      <4>1. "except" \in Slots
        BY DEF Slots
      <4>2. f \in Frames
        BY <1>1, <4>1, FrameType
      <4> QED BY <4>2 DEF Frame
    <3> HIDE DEF f
    <3>2. Carries(<<f>> \o below, th, {})
      BY <3>1, CarriesPushed DEF Raising
    <3> QED BY <2>1, <3>2 DEF f
  <2> QED BY <2>1, <2>2, <2>3 DEF Outcome, Later
<1>3. CASE chain.except = <<>> /\ tries = 0
  <2>1. stack' = below /\ thrown' = Settle(th, e, "printed")
    BY <1>3 DEF OfferExcept
  <2>2. Carries(below, thrown', {e} \ {e})
    BY <2>1, CarriesSettled DEF Fates
  <2>3. Carries(stack', thrown', {})
    <3>1. {e} \ {e} = {}
      OBVIOUS
    <3> QED BY <2>1, <2>2, <3>1
  <2>4. "printed" \in Fates
    BY DEF Fates
  <2> QED BY <2>1, <2>3, <2>4, Settled, SettledLater DEF Outcome, Moves
<1>4. CASE chain.except = <<>> /\ tries # 0
  <2> DEFINE t1 == Settle(th, e, "superseded")
             x  == Exception(BadCall, th[e].gen + 1, "except")
             t2 == Append(t1, x)
             n  == Len(th) + 1
  <2>1. stack' = below /\ thrown' = Settle(t2, n, "printed")
    BY <1>4 DEF OfferExcept
  <2>2. /\ t1 \in Seq(Exceptions) /\ Len(t1) = Len(th) /\ Carries(below, t1, {e} \ {e})
        /\ Later(th, t1)
    BY Settled, CarriesSettled, SettledLater DEF Fates
  <2>3. x \in Exceptions /\ Exempt(x) /\ x.fate = "flying" /\ x.at = ops
    <3>1. th[e].gen + 1 \in Nat
      <4>1. th[e] \in Exceptions
        BY LenProperties, ElementOfSeq
      <4> QED BY <4>1 DEF Exceptions
    <3> QED BY <3>1 DEF Exception, Exceptions, Exempt, Fates, Slots, TypeOK
  <2> HIDE DEF t1, x
  <2>4. /\ t2 \in Seq(Exceptions) /\ n \in DOMAIN t2 /\ t2[n] = x
        /\ Carries(below, t2, ({e} \ {e}) \cup {n}) /\ Later(t1, t2)
    BY <2>2, <2>3, Appended, CarriesAppended, AppendedLater
  <2> HIDE DEF t2, n
  <2>5. /\ Settle(t2, n, "printed") \in Seq(Exceptions)
        /\ Carries(below, Settle(t2, n, "printed"), (({e} \ {e}) \cup {n}) \ {n})
        /\ Later(t2, Settle(t2, n, "printed"))
    BY <2>3, <2>4, Settled, CarriesSettled, SettledLater DEF Fates
  <2>6. (({e} \ {e}) \cup {n}) \ {n} = {}
    OBVIOUS
  <2>7. Later(th, thrown')
    BY <2>1, <2>2, <2>4, <2>5, LaterIsTransitive
  <2> QED BY <2>1, <2>5, <2>6, <2>7 DEF Outcome, Moves
<1> QED BY <1>2, <1>3, <1>4

(* An exception that was just thrown is given to the watchers first.       *)
LEMMA StartRaiseOutcome ==
    ASSUME TypeOK, NEW below \in Seq(Frames), NEW x \in Exceptions, x.fate = "flying",
           x.gen = 0, x.at = ops, Carries(below, thrown, {}),
           StartRaise(below, Len(thrown) + 1, Append(thrown, x))
    PROVE  Outcome(below, thrown)
<1> DEFINE th == Append(thrown, x)  e == Len(thrown) + 1
<1>1. /\ th \in Seq(Exceptions) /\ e \in DOMAIN th /\ th[e] = x /\ DOMAIN th = DOMAIN thrown \cup {e}
      /\ e \notin DOMAIN thrown /\ \A d \in DOMAIN thrown : th[d] = thrown[d]
  BY Appended DEF TypeOK
<1>2. Carries(below, th, {e})
  <2>1. Carries(below, th, {} \cup {e})
    BY CarriesAppended DEF TypeOK
  <2> QED BY <2>1
<1> HIDE DEF th
<1>3. e \in Nat
  BY <1>1, LenProperties DEF TypeOK
<1> HIDE DEF e
<1>4. CASE chain.watch # <<>>
  <2> DEFINE y == [x EXCEPT !.shown = TRUE]  t2 == [th EXCEPT ![e] = y]
             f == Frame("watch", e, 0)
  <2>1. stack' = <<f>> \o below /\ thrown' = t2
    <3>1. thrown' = [th EXCEPT ![e].shown = TRUE]
      BY <1>4 DEF StartRaise, th, e
    <3> QED BY <1>1, <1>4, <3>1 DEF StartRaise, th, e
  <2>2. y \in Exceptions /\ y.shown /\ y.fate = "flying" /\ y.gen = 0 /\ y.at = ops
    BY DEF Exceptions
  <2> HIDE DEF y
  <2>3. /\ t2 \in Seq(Exceptions) /\ DOMAIN t2 = DOMAIN th /\ t2[e] = y
        /\ \A d \in DOMAIN th : d # e => t2[d] = th[d]
    <3> HIDE DEF Exceptions
    <3>1. DOMAIN th = 1..Len(th)
      BY <1>1, LenProperties
    <3> QED BY <1>1, <2>2, <3>1, ExceptSeq, LenProperties
  <2> HIDE DEF t2
  <2>4. Carries(below, t2, {e})
    <3>1. \A d \in DOMAIN th \ {e} :
             d \in DOMAIN t2 \ {e} /\ t2[d].fate = th[d].fate /\ t2[d].gen = th[d].gen
      BY <2>3
    <3>2. \A d \in DOMAIN t2 \ {e} : t2[d].fate = "flying" => d \in DOMAIN th \ {e}
      BY <2>3
    <3> QED BY <1>2, <3>1, <3>2, CarriesAlike
  <2>5. f \in Frames /\ f.slot = "watch" /\ f.exc = e /\ f.tries = 0
    <3>1. "watch" \in Slots /\ 0 \in Nat
      BY DEF Slots
    <3>2. f \in Frames
      BY <1>3, <3>1, FrameType
    <3> QED BY <3>2 DEF Frame
  <2>6. Carries(<<f>> \o below, t2, {})
    <3> HIDE DEF f
    <3> QED BY <1>1, <2>2, <2>3, <2>4, <2>5, CarriesPushed DEF Raising, MaxRetry
  <2>7. Later(thrown, t2)
    BY <1>1, <2>2, <2>3 DEF Later
  <2>8. Moves(below)
    <3>1. "watch" \in Slots \ {"finally"} /\ 0 \in Nat /\ chain["watch"] # <<>>
      BY <1>4 DEF Slots
    <3> QED BY <1>3, <2>1, <3>1 DEF Moves
  <2> QED BY <2>1, <2>3, <2>6, <2>7, <2>8 DEF Outcome
<1>5. CASE chain.watch = <<>>
  <2>1. OfferExcept(below, e, 0, th)
    BY <1>5 DEF StartRaise, th, e
  <2>2. Outcome(below, th)
    BY <1>1, <1>2, <2>1, OfferExceptOutcome DEF MaxRetry
  <2>3. Later(thrown, th)
    BY <1>1, <1>5 DEF Later
  <2> QED BY <2>2, <2>3, LaterIsTransitive DEF Outcome
<1> QED BY <1>4, <1>5

-----------------------------------------------------------------------------
(* What a move of the stack leaves true.                                   *)
New(f) ==
    \E s \in Slots \ {"finally"}, e \in Nat, t \in Nat : chain[s] # <<>> /\ f = Frame(s, e, t)

LEMMA MovedFrames ==
    ASSUME TypeOK, NEW below, below = stack \/ (stack # <<>> /\ below = Below), Moves(below)
    PROVE  /\ stack' \in Seq(Frames)
           /\ \E k \in Int : \A i \in DOMAIN stack' :
                 New(stack'[i]) \/ (i + k \in DOMAIN stack /\ stack'[i] = stack[i + k])
<1>1. /\ below \in Seq(Frames)
      /\ \E k \in Int : \A i \in DOMAIN below :
            i \in Nat /\ i + k \in DOMAIN stack /\ below[i] = stack[i + k]
  <2>1. CASE below = stack
    <3>1. \A i \in DOMAIN stack : i \in Nat /\ i + 0 = i
      BY LenProperties DEF TypeOK
    <3>2. 0 \in Int
      OBVIOUS
    <3> QED BY <2>1, <3>1, <3>2 DEF TypeOK
  <2>2. CASE stack # <<>> /\ below = Below
    <3>1. /\ below \in Seq(Frames) /\ DOMAIN below = 1..(Len(stack) - 1)
          /\ Len(stack) \in Nat
          /\ \A i \in DOMAIN below : i + 1 \in DOMAIN stack /\ below[i] = stack[i + 1]
      BY <2>2, Popped DEF TypeOK, Below
    <3>2. 1 \in Int /\ \A i \in DOMAIN below : i \in Nat
      BY <3>1
    <3> QED BY <3>1, <3>2
  <2> QED BY <2>1, <2>2
<1>2. CASE stack' = below
  BY <1>1, <1>2
<1>3. ASSUME NEW s \in Slots \ {"finally"}, NEW e \in Nat, NEW t \in Nat, chain[s] # <<>>,
             stack' = <<Frame(s, e, t)>> \o below
      PROVE  /\ stack' \in Seq(Frames)
             /\ \E k \in Int : \A i \in DOMAIN stack' :
                   New(stack'[i]) \/ (i + k \in DOMAIN stack /\ stack'[i] = stack[i + k])
  <2> DEFINE f == Frame(s, e, t)
  <2>1. f \in Frames /\ New(f)
    BY <1>3, FrameType DEF New
  <2> HIDE DEF f
  <2>2. /\ stack' \in Seq(Frames) /\ stack'[1] = f /\ DOMAIN stack' = 1..(Len(below) + 1)
        /\ \A i \in DOMAIN stack' : i # 1 => i - 1 \in DOMAIN below /\ stack'[i] = below[i - 1]
    <3>1. stack' = <<f>> \o below
      BY <1>3 DEF f
    <3> QED BY <1>1, <2>1, <3>1, Pushed
  <2>3. PICK k \in Int : \A i \in DOMAIN below :
           i \in Nat /\ i + k \in DOMAIN stack /\ below[i] = stack[i + k]
    BY <1>1
  <2>4. ASSUME NEW i \in DOMAIN stack', i # 1
        PROVE  i + (k - 1) \in DOMAIN stack /\ stack'[i] = stack[i + (k - 1)]
    <3>1. i - 1 \in DOMAIN below /\ stack'[i] = below[i - 1] /\ i \in Int
      BY <1>1, <2>2, <2>4, LenProperties
    <3>2. (i - 1) + k = i + (k - 1)
      BY <3>1
    <3> QED BY <2>3, <3>1, <3>2
  <2>5. \A i \in DOMAIN stack' :
           New(stack'[i]) \/ (i + (k - 1) \in DOMAIN stack /\ stack'[i] = stack[i + (k - 1)])
    <3> TAKE i \in DOMAIN stack'
    <3>1. CASE i = 1
      BY <2>1, <2>2, <3>1
    <3>2. CASE i # 1
      BY <2>4, <3>2
    <3> QED BY <3>1, <3>2
  <2>6. k - 1 \in Int
    OBVIOUS
  <2> QED BY <2>2, <2>5, <2>6
<1> QED BY <1>2, <1>3 DEF Moves

LEMMA MoveKeeps ==
    ASSUME TypeOK, ChainsOK, FramesOK, FinallyInv, NEW below,
           below = stack \/ (stack # <<>> /\ below = Below), Moves(below),
           UNCHANGED <<chain, finalized, finalRuns>>, ops' \in {ops, ops + 1}
    PROVE  stack' \in Seq(Frames) /\ FramesOK' /\ FinallyInv'
<1>1. stack' \in Seq(Frames)
  BY MovedFrames
<1>2. PICK k \in Int : \A i \in DOMAIN stack' :
         New(stack'[i]) \/ (i + k \in DOMAIN stack /\ stack'[i] = stack[i + k])
  BY MovedFrames
<1>3. ASSUME NEW f, New(f) PROVE FrameOK(f) /\ f.slot # "finally"
  BY <1>3 DEF New, Frame, FrameOK, ChainsOK
<1>4. \A i \in DOMAIN stack' : i \in Nat
  BY <1>1, LenProperties
<1>5. FramesOK'
  <2> SUFFICES ASSUME NEW i \in DOMAIN stack' PROVE FrameOK(stack'[i])
    BY DEF FramesOK, FrameOK, Survives
  <2>1. CASE New(stack'[i])
    BY <1>3, <2>1
  <2>2. CASE i + k \in DOMAIN stack /\ stack'[i] = stack[i + k]
    BY <2>2 DEF FramesOK
  <2> QED BY <1>2, <2>1, <2>2
<1>6. ASSUME NEW i \in DOMAIN stack', stack'[i].slot = "finally"
      PROVE  i + k \in DOMAIN stack /\ stack'[i] = stack[i + k]
  BY <1>2, <1>3, <1>6
<1>7. FinallyInv'
  <2>1. FinallyOnce' /\ Rising(chain.finally)'
    BY DEF FinallyInv, FinallyOnce, Rising
  <2>2. (\A i \in DOMAIN chain.finally : chain.finally[i].id < ops)'
    <3> SUFFICES ASSUME NEW i \in DOMAIN chain.finally PROVE chain.finally[i].id < ops'
      OBVIOUS
    <3>1. chain.finally[i].id < ops /\ ops \in Nat
      BY DEF FinallyInv, TypeOK
    <3>2. chain.finally \in Seq(Handlers)
      BY DEF TypeOK, Slots
    <3>3. chain.finally[i] \in Handlers
      BY <3>2, ElementOfSeq, LenProperties
    <3>4. chain.finally[i].id \in Nat
      BY <3>3 DEF Handlers
    <3> QED BY <3>1, <3>4
  <2>3. (~finalized => finalRuns = <<>> /\ \A i \in DOMAIN stack : stack[i].slot # "finally")'
    BY <1>6 DEF FinallyInv
  <2>4. (\A i \in DOMAIN stack : stack[i].slot = "finally" =>
          /\ Rising(stack[i].todo)
          /\ finalRuns # <<>> /\ finalRuns[Len(finalRuns)] = stack[i].todo[1].id)'
    <3> SUFFICES ASSUME NEW i \in DOMAIN stack', stack'[i].slot = "finally"
                 PROVE  /\ Rising(stack'[i].todo) /\ finalRuns # <<>>
                        /\ finalRuns[Len(finalRuns)] = stack'[i].todo[1].id
      BY DEF Rising
    <3> QED BY <1>6 DEF FinallyInv
  <2>5. (\A i, j \in DOMAIN stack :
          stack[i].slot = "finally" /\ stack[j].slot = "finally" => i = j)'
    <3> SUFFICES ASSUME NEW i \in DOMAIN stack', NEW j \in DOMAIN stack',
                        stack'[i].slot = "finally", stack'[j].slot = "finally"
                 PROVE  i = j
      OBVIOUS
    <3>1. i + k = j + k
      BY <1>6 DEF FinallyInv
    <3> QED BY <1>4, <3>1
  <2> QED BY <2>1, <2>2, <2>3, <2>4, <2>5 DEF FinallyInv
<1> QED BY <1>1, <1>5, <1>7

(* What the watchers have seen stays seen.                                 *)
LEMMA LaterKeeps ==
    ASSUME WatchersSeeEvents, Later(thrown, thrown'), UNCHANGED chain
    PROVE  WatchersSeeEvents'
<1> SUFFICES ASSUME chain.watch # <<>>, NEW e \in DOMAIN thrown',
                    thrown'[e].by \in {"raise", "call"}, Watched(e)'
             PROVE  thrown'[e].shown
  BY DEF WatchersSeeEvents
<1>1. CASE e \in DOMAIN thrown
  BY <1>1 DEF WatchersSeeEvents, Watched, Later
<1>2. CASE e \notin DOMAIN thrown
  BY <1>2 DEF Later, Exempt
<1> QED BY <1>1, <1>2

(* An exception, once decided, stays so.                                   *)
Decided == \A e \in DOMAIN thrown :
    thrown[e].fate # "flying" => thrown'[e].fate = thrown[e].fate

LEMMA DatedStays ==
    ASSUME GInv, thrown' = thrown, ops' \in {ops, ops + 1}
    PROVE  Dated'
<1> SUFFICES ASSUME NEW e \in DOMAIN thrown PROVE thrown[e].at <= ops'
  BY DEF Dated
<1>1. thrown[e] \in Exceptions
  BY ElementOfSeq, LenProperties DEF GInv, TypeOK
<1>2. thrown[e].at \in Nat /\ thrown[e].at <= ops /\ ops \in Nat
  BY <1>1 DEF Exceptions, GInv, TypeOK, Dated
<1> QED BY <1>2

(* Whatever raise does, from wherever it is called, keeps the invariant.   *)
LEMMA OutcomeKeeps ==
    ASSUME GInv, NEW below, below = stack \/ (stack # <<>> /\ below = Below),
           Outcome(below, thrown), UNCHANGED <<chain, finalized, destroyed, freedRead, finalRuns>>,
           ops' \in {ops, ops + 1}
    PROVE  GInv' /\ Decided
<1>1. /\ thrown' \in Seq(Exceptions) /\ Carries(stack', thrown', {})
      /\ Later(thrown, thrown') /\ Moves(below)
  BY DEF Outcome
<1>2. ops \in Nat /\ ops' \in {ops, ops + 1}
  BY DEF GInv, TypeOK
<1>3. stack' \in Seq(Frames) /\ FramesOK' /\ FinallyInv'
  BY <1>1, <1>2, MoveKeeps DEF GInv
<1>4. TypeOK'
  BY <1>1, <1>2, <1>3 DEF GInv, TypeOK
<1>5. WatchersSeeEvents' /\ Decided /\ ChainsOK'
  BY <1>1, LaterKeeps DEF GInv, Later, Decided, ChainsOK
<1>6. Carries(stack, thrown, {})' /\ (Survives => NoFreedClosure)'
  BY <1>1, <1>2 DEF GInv, NoFreedClosure, Survives, Carries
<1>7. Dated'
  <2> SUFFICES ASSUME NEW e \in DOMAIN thrown' PROVE thrown'[e].at <= ops'
    BY DEF Dated
  <2>1. CASE e \in DOMAIN thrown
    <3>1. thrown'[e].at = thrown[e].at /\ thrown[e].at <= ops
      BY <1>1, <2>1 DEF Later, GInv, Dated
    <3>2. thrown[e] \in Exceptions
      BY <2>1, ElementOfSeq, LenProperties DEF GInv, TypeOK
    <3> QED BY <1>2, <3>1, <3>2 DEF Exceptions
  <2>2. CASE e \notin DOMAIN thrown
    BY <1>1, <1>2, <2>2 DEF Later
  <2> QED BY <2>1, <2>2
<1> QED BY <1>3, <1>4, <1>5, <1>6, <1>7 DEF GInv

-----------------------------------------------------------------------------
(* The actions, one by one.                                                *)
LEMMA TopIsGood ==
    ASSUME GInv, stack # <<>>
    PROVE  /\ Top \in Frames /\ Top = stack[1] /\ FrameOK(Top) /\ Below \in Seq(Frames)
           /\ 1 \in DOMAIN stack
<1>1. /\ Below \in Seq(Frames) /\ Top \in Frames /\ Top = stack[1] /\ 1 \in DOMAIN stack
  BY Popped DEF GInv, TypeOK, Top, Below
<1> QED BY <1>1 DEF GInv, FramesOK

(* What the chain on top carries, and what those below do.                 *)
LEMMA TopCarries ==
    ASSUME GInv, stack # <<>>
    PROVE  IF Top.slot \in Raising
           THEN /\ Carries(Below, thrown, {Top.exc})
                /\ Top.exc \in DOMAIN thrown /\ thrown[Top.exc].fate = "flying"
                /\ thrown[Top.exc].gen <= Top.tries /\ Top.tries <= MaxRetry
                /\ Top.slot = "watch" => Top.tries = 0
           ELSE Carries(Below, thrown, {}) /\ Top.exc = 0
  BY CarriesPopped DEF GInv, TypeOK, Top, Below

(* The exception of the chain on top is settled and the chain is left.     *)
LEMMA SettleTop ==
    ASSUME GInv, stack # <<>>, Top.slot \in Raising, NEW fate \in Fates, fate # "flying",
           stack' = Below, thrown' = Settle(thrown, Top.exc, fate)
    PROVE  Outcome(Below, thrown)
<1>1. /\ Carries(Below, thrown, {Top.exc}) /\ thrown \in Seq(Exceptions)
      /\ Top.exc \in DOMAIN thrown /\ thrown[Top.exc].fate = "flying"
  BY TopCarries DEF GInv, TypeOK
<1>2. Carries(Below, thrown', {Top.exc} \ {Top.exc})
  BY <1>1, CarriesSettled
<1>3. {Top.exc} \ {Top.exc} = {}
  OBVIOUS
<1>4. Carries(stack', thrown', {})
  BY <1>2, <1>3
<1> QED BY <1>1, <1>4, Settled, SettledLater DEF Outcome, Moves

LEMMA ChainEndsOutcome ==
    ASSUME GInv, stack # <<>>, ChainEnds
    PROVE  Outcome(Below, thrown)
<1>1. CASE Top.slot = "watch"
  <2>1. OfferExcept(Below, Top.exc, 0, thrown)
    BY <1>1 DEF ChainEnds
  <2>2. /\ Carries(Below, thrown, {Top.exc}) /\ Top.exc \in DOMAIN thrown
        /\ thrown[Top.exc].fate = "flying" /\ thrown[Top.exc].gen <= 0
    BY <1>1, TopCarries DEF Raising
  <2>3. TypeOK /\ thrown \in Seq(Exceptions) /\ Below \in Seq(Frames) /\ 0 \in Nat /\ 0 <= MaxRetry
    BY TopIsGood DEF GInv, TypeOK, MaxRetry
  <2> QED BY <2>1, <2>2, <2>3, OfferExceptOutcome
<1>2. CASE Top.slot = "except"
  BY <1>2, SettleTop DEF ChainEnds, Raising, Fates
<1>3. CASE Top.slot \notin Raising
  <2>1. stack' = Below /\ thrown' = thrown
    BY <1>3 DEF ChainEnds, Raising
  <2>2. Carries(Below, thrown, {})
    BY <1>3, TopCarries
  <2> QED BY <2>1, <2>2 DEF Outcome, Moves, Later, GInv, TypeOK
<1> QED BY <1>1, <1>2, <1>3 DEF Raising

LEMMA AcceptKeeps == ASSUME GInv, Accept PROVE GInv' /\ Decided
<1>1. /\ stack # <<>> /\ stack' = Below
      /\ Current.kind \in {"bool"} \cup Classes
      /\ thrown' = Settle(thrown, Top.exc, IF Top.slot = "watch" THEN "watched" ELSE "handled")
      /\ UNCHANGED <<chain, finalized, destroyed, freedRead, finalRuns, ops>>
  BY DEF Accept
<1>2. Top.slot \in Raising
  <2>1. /\ Top \in Frames /\ Top.todo # <<>>
        /\ Top.slot \notin Raising => \A j \in DOMAIN Top.todo : Top.todo[j].kind = "plain"
    BY <1>1, TopIsGood DEF FrameOK
  <2>2. Top.todo \in Seq(Handlers)
    BY <2>1 DEF Frames
  <2>3. Current = Top.todo[1] /\ 1 \in DOMAIN Top.todo
    BY <2>1, <2>2, EmptySeq, LenProperties DEF Current
  <2>4. Current.kind # "plain"
    BY <1>1, ClassAssumption
  <2> QED BY <2>1, <2>3, <2>4
<1>3. Outcome(Below, thrown)
  <2>1. (IF Top.slot = "watch" THEN "watched" ELSE "handled") \in Fates \ {"flying"}
    BY DEF Fates
  <2> QED BY <1>1, <1>2, <2>1, SettleTop
<1> QED BY <1>1, <1>3, OutcomeKeeps

LEMMA ExceptionType ==
    ASSUME TypeOK, NEW c \in Classes, NEW gen \in Nat, NEW by \in Slots \cup {"raise"}
    PROVE  /\ Exception(c, gen, by) \in Exceptions
           /\ Exception(c, gen, by).fate = "flying" /\ Exception(c, gen, by).gen = gen
           /\ Exception(c, gen, by).by = by /\ Exception(c, gen, by).at = ops
  BY DEF Exception, Exceptions, Fates, TypeOK

LEMMA RaiseKeeps ==
    ASSUME GInv, NEW c \in Classes, Raise(c)
    PROVE  GInv' /\ Decided
<1> DEFINE x == Exception(c, 0, "raise")
<1>1. /\ StartRaise(stack, Len(thrown) + 1, Append(thrown, x))
      /\ ops' = ops + 1
      /\ UNCHANGED <<chain, finalized, destroyed, freedRead, finalRuns>>
  BY DEF Raise, Thrown
<1>2. x \in Exceptions /\ x.fate = "flying" /\ x.gen = 0 /\ x.at = ops
  BY ExceptionType DEF GInv
<1>3. TypeOK /\ stack \in Seq(Frames) /\ Carries(stack, thrown, {})
  BY DEF GInv, TypeOK
<1> HIDE DEF x
<1>4. Outcome(stack, thrown)
  BY <1>1, <1>2, <1>3, StartRaiseOutcome
<1> QED BY <1>1, <1>4, OutcomeKeeps

LEMMA EmitKeeps == ASSUME GInv, Emit PROVE GInv' /\ Decided
<1>1. /\ chain["call"] # <<>> /\ stack' = <<Frame("call", 0, 0)>> \o stack
      /\ ops' = ops + 1 /\ UNCHANGED <<chain, finalized, destroyed, freedRead, thrown, finalRuns>>
  BY DEF Emit
<1>2. Moves(stack)
  <2>1. "call" \in Slots \ {"finally"} /\ 0 \in Nat
    BY DEF Slots
  <2> QED BY <1>1, <2>1 DEF Moves
<1>3. Carries(stack', thrown', {})
  <2> DEFINE f == Frame("call", 0, 0)
  <2>1. "call" \in Slots /\ 0 \in Nat
    BY DEF Slots
  <2>2. f \in Frames
    BY <2>1, FrameType DEF GInv
  <2>3. f.slot \notin Raising /\ f.exc = 0
    BY DEF Frame, Raising
  <2>4. stack \in Seq(Frames) /\ Carries(stack, thrown, {})
    BY DEF GInv, TypeOK
  <2> HIDE DEF f
  <2>5. Carries(<<f>> \o stack, thrown, {})
    BY <2>2, <2>3, <2>4, CarriesPushedOther
  <2> QED BY <1>1, <2>5 DEF f
<1>4. Outcome(stack, thrown)
  BY <1>1, <1>2, <1>3 DEF Outcome, Later, GInv, TypeOK
<1> QED BY <1>1, <1>4, OutcomeKeeps

(* What the handler of the chain on top throws.                            *)
LEMMA ThrowOutcome ==
    ASSUME GInv, NEW c \in Classes, Throw(c)
    PROVE  Outcome(Below, thrown)
<1> DEFINE new == Len(thrown) + 1
           gen == thrown[Top.exc].gen + 1
           x(g) == Exception(c, g, Top.slot)
<1>1. stack # <<>>
  BY DEF Throw
<1>2. /\ TypeOK /\ thrown \in Seq(Exceptions) /\ Below \in Seq(Frames)
      /\ Top \in Frames /\ Top.slot \in Slots /\ Top.tries \in Nat
  BY <1>1, TopIsGood DEF GInv, TypeOK, Frames
<1>3. \A g \in Nat : Thrown(c, g, Top.slot) = Append(thrown, x(g))
  BY <1>1 DEF Thrown
<1>4. \A g \in Nat : /\ x(g) \in Exceptions /\ x(g).fate = "flying" /\ x(g).gen = g
                     /\ x(g).by = Top.slot /\ x(g).at = ops
  BY <1>2, ExceptionType
<1>5. \A g \in Nat : /\ Thrown(c, g, Top.slot) \in Seq(Exceptions)
                     /\ DOMAIN Thrown(c, g, Top.slot) = DOMAIN thrown \cup {new}
                     /\ new \notin DOMAIN thrown
                     /\ Thrown(c, g, Top.slot)[new] = x(g)
                     /\ \A d \in DOMAIN thrown : Thrown(c, g, Top.slot)[d] = thrown[d]
  <2> TAKE g \in Nat
  <2> HIDE DEF x
  <2>1. Thrown(c, g, Top.slot) = Append(thrown, x(g)) /\ x(g) \in Exceptions
    BY <1>3, <1>4
  <2> QED BY <1>2, <2>1, Appended
<1>6. CASE Top.slot = "call"
  <2>1. StartRaise(Below, new, Append(thrown, x(0)))
    BY <1>3, <1>6 DEF Throw
  <2>2. Carries(Below, thrown, {})
    BY <1>1, <1>6, TopCarries DEF Raising
  <2> HIDE DEF x
  <2> QED BY <1>2, <1>4, <2>1, <2>2, StartRaiseOutcome
<1>7. CASE Top.slot = "watch"
  <2> DEFINE t1 == Append(thrown, x(0))  t2 == Settle(t1, new, "printed")
  <2>1. OfferExcept(Below, Top.exc, 0, t2)
    BY <1>3, <1>7 DEF Throw
  <2>2. /\ Carries(Below, thrown, {Top.exc}) /\ Top.exc \in DOMAIN thrown
        /\ thrown[Top.exc].fate = "flying" /\ thrown[Top.exc].gen <= 0
    BY <1>1, <1>7, TopCarries DEF Raising
  <2>3. /\ t1 \in Seq(Exceptions) /\ DOMAIN t1 = DOMAIN thrown \cup {new}
        /\ new \notin DOMAIN thrown /\ t1[new] = x(0)
        /\ \A d \in DOMAIN thrown : t1[d] = thrown[d]
    <3>1. Thrown(c, 0, Top.slot) = t1
      BY <1>3
    <3> HIDE DEF x, t1, new
    <3> QED BY <1>5, <3>1
  <2>4. Exempt(x(0)) /\ x(0) \in Exceptions /\ x(0).fate = "flying" /\ x(0).at = ops
    BY <1>4, <1>7 DEF Exempt
  <2> HIDE DEF x
  <2>5. Carries(Below, t1, {Top.exc} \cup {new}) /\ Later(thrown, t1)
    BY <1>2, <2>2, <2>4, CarriesAppended, AppendedLater
  <2> HIDE DEF t1, new
  <2>6. /\ t2 \in Seq(Exceptions) /\ DOMAIN t2 = DOMAIN t1
        /\ \A d \in DOMAIN t1 : d # new => t2[d] = t1[d]
        /\ Later(t1, t2) /\ Carries(Below, t2, ({Top.exc} \cup {new}) \ {new})
    <3>1. new \in DOMAIN t1 /\ t1[new].fate = "flying"
      BY <2>3, <2>4
    <3> QED BY <2>3, <2>5, <3>1, Settled, SettledLater, CarriesSettled DEF Fates
  <2> HIDE DEF t2
  <2>7. ({Top.exc} \cup {new}) \ {new} = {Top.exc}
    BY <2>2, <2>3
  <2>8. Carries(Below, t2, {Top.exc})
    BY <2>6, <2>7
  <2>9. Top.exc \in DOMAIN t2 /\ t2[Top.exc] = thrown[Top.exc]
    BY <2>2, <2>3, <2>6
  <2>10. Outcome(Below, t2)
    BY <1>2, <2>1, <2>2, <2>6, <2>8, <2>9, OfferExceptOutcome DEF MaxRetry
  <2>11. Later(thrown, t2)
    BY <2>5, <2>6, LaterIsTransitive
  <2> QED BY <2>10, <2>11, LaterIsTransitive DEF Outcome
<1>8. CASE Top.slot = "except"
  <2> DEFINE t1 == Append(thrown, x(gen))  t2 == Settle(t1, Top.exc, "superseded")
  <2>1. /\ Carries(Below, thrown, {Top.exc}) /\ Top.exc \in DOMAIN thrown
        /\ thrown[Top.exc].fate = "flying"
        /\ thrown[Top.exc].gen <= Top.tries
    BY <1>1, <1>8, TopCarries DEF Raising
  <2>2. gen \in Nat /\ gen <= Top.tries + 1
    <3>1. thrown[Top.exc] \in Exceptions
      BY <1>2, <2>1, LenProperties, ElementOfSeq
    <3>2. thrown[Top.exc].gen \in Nat
      BY <3>1 DEF Exceptions
    <3> QED BY <1>2, <2>1, <3>2
  <2>3. \/ Top.tries + 1 <= MaxRetry /\ OfferExcept(Below, new, Top.tries + 1, t2)
        \/ /\ Top.tries + 1 > MaxRetry /\ stack' = Below
           /\ thrown' = Settle(Settle(t1, new, "printed"), Top.exc, "superseded")
    <3> HIDE DEF x
    <3>1. Thrown(c, gen, Top.slot) = t1
      BY <1>3, <2>2
    <3> HIDE DEF t1
    <3>2. CASE Top.tries + 1 <= MaxRetry
      <4>1. ~(Top.tries + 1 > MaxRetry)
        BY <1>2, <3>2 DEF MaxRetry
      <4>2. OfferExcept(Below, new, Top.tries + 1, Settle(Thrown(c, gen, Top.slot), Top.exc, "superseded"))
        BY <1>8, <3>2, <4>1 DEF Throw
      <4> QED BY <3>1, <3>2, <4>2
    <3>3. CASE Top.tries + 1 > MaxRetry
      <4>1. ~(Top.tries + 1 <= MaxRetry)
        BY <1>2, <3>3 DEF MaxRetry
      <4>2. /\ stack' = Below
            /\ thrown' = Settle(Settle(Thrown(c, gen, Top.slot), new, "printed"), Top.exc, "superseded")
        BY <1>8, <3>3, <4>1 DEF Throw
      <4> QED BY <3>1, <3>3, <4>2
    <3> QED BY <1>2, <3>2, <3>3 DEF MaxRetry
  <2>4. /\ t1 \in Seq(Exceptions) /\ DOMAIN t1 = DOMAIN thrown \cup {new}
        /\ new \notin DOMAIN thrown /\ t1[new] = x(gen)
        /\ \A d \in DOMAIN thrown : t1[d] = thrown[d]
    <3> HIDE DEF x, gen
    <3> QED BY <1>3, <1>5, <2>2
  <2>5. /\ Exempt(x(gen)) /\ x(gen) \in Exceptions /\ x(gen).fate = "flying"
        /\ x(gen).gen = gen /\ x(gen).at = ops
    <3>1. Exempt(x(gen))
      BY <1>8 DEF Exempt, Exception
    <3> HIDE DEF x, gen
    <3> QED BY <1>4, <2>2, <3>1
  <2> HIDE DEF x
  <2> DEFINE y == x(gen)
  <2>6. Carries(Below, t1, {Top.exc} \cup {new}) /\ Later(thrown, t1)
    <3> HIDE DEF gen
    <3> QED BY <1>2, <2>1, <2>5, CarriesAppended, AppendedLater
  <2>7. Top.exc \in DOMAIN t1 /\ t1[Top.exc].fate = "flying" /\ Top.exc # new
    BY <2>1, <2>4
  <2> HIDE DEF t1, new
  <2>8. CASE Top.tries + 1 <= MaxRetry
    <3>1. /\ t2 \in Seq(Exceptions) /\ DOMAIN t2 = DOMAIN t1
          /\ \A d \in DOMAIN t1 : d # Top.exc => t2[d] = t1[d]
          /\ Later(t1, t2) /\ Carries(Below, t2, ({Top.exc} \cup {new}) \ {Top.exc})
      BY <2>4, <2>6, <2>7, Settled, SettledLater, CarriesSettled DEF Fates
    <3>2. OfferExcept(Below, new, Top.tries + 1, t2)
      BY <1>2, <2>3, <2>8 DEF MaxRetry
    <3> HIDE DEF t2
    <3>3. ({Top.exc} \cup {new}) \ {Top.exc} = {new}
      BY <2>7
    <3>4. Carries(Below, t2, {new})
      BY <3>1, <3>3
    <3>5. new \in DOMAIN t2 /\ t2[new].fate = "flying" /\ t2[new].gen <= Top.tries + 1
      <4>1. new \in DOMAIN t2 /\ t2[new] = x(gen)
        BY <2>4, <2>7, <3>1
      <4> QED BY <2>2, <2>5, <4>1
    <3>6. Top.tries + 1 \in Nat
      BY <1>2
    <3>7. Outcome(Below, t2)
      BY <1>2, <2>8, <3>1, <3>2, <3>4, <3>5, <3>6, OfferExceptOutcome
    <3>8. Later(thrown, t2)
      BY <2>6, <3>1, LaterIsTransitive
    <3> QED BY <3>7, <3>8, LaterIsTransitive DEF Outcome
  <2>9. CASE Top.tries + 1 > MaxRetry
    <3> DEFINE t3 == Settle(t1, new, "printed")  t4 == Settle(t3, Top.exc, "superseded")
    <3>1. new \in DOMAIN t1 /\ t1[new].fate = "flying"
      BY <2>4, <2>5
    <3>2. /\ t3 \in Seq(Exceptions) /\ DOMAIN t3 = DOMAIN t1
          /\ \A d \in DOMAIN t1 : d # new => t3[d] = t1[d]
          /\ Later(t1, t3) /\ Carries(Below, t3, ({Top.exc} \cup {new}) \ {new})
      BY <2>4, <2>6, <3>1, Settled, SettledLater, CarriesSettled DEF Fates
    <3>3. stack' = Below /\ thrown' = t4
      BY <1>2, <2>3, <2>9 DEF MaxRetry
    <3> HIDE DEF t3
    <3>4. Top.exc \in DOMAIN t3 /\ t3[Top.exc].fate = "flying"
      BY <2>7, <3>2
    <3>5. ({Top.exc} \cup {new}) \ {new} = {Top.exc} /\ {Top.exc} \ {Top.exc} = {}
      BY <2>7
    <3>6. /\ t4 \in Seq(Exceptions) /\ Later(t3, t4)
          /\ Carries(Below, t4, {Top.exc} \ {Top.exc})
      <4>1. Carries(Below, t3, {Top.exc})
        BY <3>2, <3>5
      <4> QED BY <3>2, <3>4, <4>1, Settled, SettledLater, CarriesSettled DEF Fates
    <3> HIDE DEF t4
    <3>7. Later(thrown, t4)
      BY <2>6, <3>2, <3>6, LaterIsTransitive
    <3>8. Carries(stack', thrown', {})
      BY <3>3, <3>5, <3>6
    <3> QED BY <3>3, <3>6, <3>7, <3>8 DEF Outcome, Moves
  <2> QED BY <1>2, <2>8, <2>9 DEF MaxRetry
<1>9. CASE Top.slot = "finally"
  <2> DEFINE t1 == Append(thrown, x(0))  t2 == Settle(t1, new, "swallowed")
  <2>1. stack' = Below /\ thrown' = t2
    <3>1. stack' = Below /\ thrown' = Settle(Thrown(c, 0, Top.slot), new, "swallowed")
      BY <1>9 DEF Throw
    <3>2. Thrown(c, 0, Top.slot) = t1
      BY <1>3
    <3> QED BY <3>1, <3>2
  <2>2. Carries(Below, thrown, {})
    BY <1>1, <1>9, TopCarries DEF Raising
  <2>3. /\ t1 \in Seq(Exceptions) /\ DOMAIN t1 = DOMAIN thrown \cup {new}
        /\ new \notin DOMAIN thrown /\ t1[new] = x(0)
    BY <1>3, <1>5
  <2>4. Exempt(x(0)) /\ x(0) \in Exceptions /\ x(0).fate = "flying" /\ x(0).at = ops
    BY <1>4, <1>9 DEF Exempt
  <2> HIDE DEF x
  <2>5. Carries(Below, t1, {} \cup {new}) /\ Later(thrown, t1)
    BY <1>2, <2>2, <2>4, CarriesAppended, AppendedLater
  <2> HIDE DEF t1, new
  <2>6. ({} \cup {new}) \ {new} = {}
    OBVIOUS
  <2>7. t2 \in Seq(Exceptions) /\ Later(t1, t2) /\ Carries(Below, t2, ({} \cup {new}) \ {new})
    <3>1. new \in DOMAIN t1 /\ t1[new].fate = "flying"
      BY <2>3, <2>4
    <3> QED BY <2>3, <2>5, <3>1, Settled, SettledLater, CarriesSettled DEF Fates
  <2>8. Carries(stack', thrown', {})
    BY <2>1, <2>6, <2>7
  <2>9. Later(thrown, t2)
    BY <2>5, <2>7, LaterIsTransitive
  <2> QED BY <2>1, <2>7, <2>8, <2>9 DEF Outcome, Moves
<1> QED BY <1>2, <1>6, <1>7, <1>8, <1>9 DEF Slots

LEMMA ThrowKeeps ==
    ASSUME GInv, NEW c \in Classes, Throw(c)
    PROVE  GInv' /\ Decided
<1>1. /\ stack # <<>> /\ UNCHANGED <<chain, finalized, destroyed, freedRead, finalRuns, ops>>
  BY DEF Throw
<1>2. Outcome(Below, thrown)
  BY ThrowOutcome
<1> QED BY <1>1, <1>2, OutcomeKeeps

(* The chain on top goes on to its next handler.                           *)
LEMMA NextHandler ==
    ASSUME GInv, stack # <<>>, Len(Top.todo) # 1
    PROVE  LET f == [Top EXCEPT !.todo = Tail(@)] IN
           /\ f \in Frames /\ FrameOK(f) /\ f.todo = Tail(Top.todo)
           /\ f.slot = Top.slot /\ f.exc = Top.exc /\ f.tries = Top.tries
           /\ f.todo[1] = Top.todo[2] /\ Top.todo[2].id \in Nat
           /\ Survives => Top.live
           /\ Rising(Top.todo) => Rising(f.todo) /\ Top.todo[1].id < Top.todo[2].id
<1> DEFINE f == [Top EXCEPT !.todo = Tail(@)]
<1>1. Top \in Frames /\ FrameOK(Top)
  BY TopIsGood
<1>2. f \in Frames /\ f.todo = Tail(Top.todo) /\ f.slot = Top.slot /\ f.exc = Top.exc
      /\ f.tries = Top.tries /\ f.live = Top.live
  <2>1. Top.todo \in Seq(Handlers) /\ Top.todo # <<>>
    BY <1>1 DEF Frames, FrameOK
  <2>2. Tail(Top.todo) \in Seq(Handlers)
    BY <2>1, HeadTailProperties
  <2> HIDE DEF Handlers
  <2> QED BY <1>1, <2>2 DEF Frames
<1> HIDE DEF f
<1>3. Top.todo \in Seq(Handlers) /\ Top.todo # <<>>
  BY <1>1 DEF Frames, FrameOK
<1>4. /\ f.todo \in Seq(Handlers) /\ Len(f.todo) = Len(Top.todo) - 1
      /\ Len(Top.todo) \in Nat /\ Len(Top.todo) > 1
      /\ DOMAIN f.todo = 1..(Len(Top.todo) - 1) /\ DOMAIN Top.todo = 1..Len(Top.todo)
      /\ \A i \in DOMAIN f.todo : f.todo[i] = Top.todo[i + 1] /\ i + 1 \in DOMAIN Top.todo
  <2>1. /\ f.todo \in Seq(Handlers) /\ Len(f.todo) = Len(Top.todo) - 1
        /\ \A i \in 1..Len(f.todo) : f.todo[i] = Top.todo[i + 1]
    BY <1>2, <1>3, HeadTailProperties
  <2>2. Len(Top.todo) \in Nat \ {0} /\ DOMAIN Top.todo = 1..Len(Top.todo)
    BY <1>3, EmptySeq, LenProperties
  <2>3. DOMAIN f.todo = 1..(Len(Top.todo) - 1)
    BY <2>1, LenProperties
  <2>4. Len(Top.todo) > 1
    <3>1. \A m \in Nat \ {0} : m # 1 => m > 1
      OBVIOUS
    <3> QED BY <2>2, <3>1
  <2>5. \A i \in 1..(Len(Top.todo) - 1) :
           f.todo[i] = Top.todo[i + 1] /\ i + 1 \in DOMAIN Top.todo
    BY <2>1, <2>2
  <2> QED BY <2>1, <2>2, <2>3, <2>4, <2>5
<1>5. 1 \in DOMAIN f.todo /\ 2 \in DOMAIN Top.todo /\ 1 \in DOMAIN Top.todo
  BY <1>4
<1>6. f.todo[1] = Top.todo[2]
  BY <1>4, <1>5
<1>7. Top.todo[2].id \in Nat
  <2>1. Top.todo[2] \in Handlers
    BY <1>3, <1>4, <1>5, ElementOfSeq
  <2> QED BY <2>1 DEF Handlers
<1>8. FrameOK(f)
  <2>1. f.todo # <<>>
    BY <1>4, EmptySeq
  <2>2. Survives /\ Len(f.todo) > 1 => f.live
    BY <1>1, <1>2, <1>4 DEF FrameOK
  <2>3. f.slot \notin Raising => \A j \in DOMAIN f.todo : f.todo[j].kind = "plain"
    BY <1>1, <1>2, <1>4 DEF FrameOK
  <2> QED BY <2>1, <2>2, <2>3 DEF FrameOK
<1>9. Survives => Top.live
  BY <1>1, <1>4 DEF FrameOK
<1>10. ASSUME Rising(Top.todo) PROVE Rising(f.todo) /\ Top.todo[1].id < Top.todo[2].id
  <2>1. Top.todo[1].id < Top.todo[2].id
    BY <1>5, <1>10 DEF Rising
  <2>2. ASSUME NEW i \in DOMAIN f.todo, NEW j \in DOMAIN f.todo, i < j
        PROVE  f.todo[i].id < f.todo[j].id
    <3>1. i + 1 < j + 1 /\ i + 1 \in DOMAIN Top.todo /\ j + 1 \in DOMAIN Top.todo
      BY <1>4, <2>2
    <3>2. Top.todo[i + 1].id < Top.todo[j + 1].id
      BY <1>10, <3>1 DEF Rising
    <3> QED BY <1>4, <3>2
  <2> QED BY <2>1, <2>2 DEF Rising
<1>11. /\ f \in Frames /\ FrameOK(f) /\ f.todo = Tail(Top.todo)
       /\ f.slot = Top.slot /\ f.exc = Top.exc /\ f.tries = Top.tries
       /\ f.todo[1] = Top.todo[2] /\ Top.todo[2].id \in Nat
       /\ Survives => Top.live
       /\ Rising(Top.todo) => Rising(f.todo) /\ Top.todo[1].id < Top.todo[2].id
  BY <1>2, <1>6, <1>7, <1>8, <1>9, <1>10
<1> QED BY <1>11 DEF f

(* Finally handlers are started in the order of registration.              *)
LEMMA OnceMore ==
    ASSUME finalRuns \in Seq(Nat), FinallyOnce, NEW n \in Nat,
           finalRuns # <<>> => finalRuns[Len(finalRuns)] < n
    PROVE  LET r == Append(finalRuns, n) IN
           /\ r \in Seq(Nat) /\ r # <<>> /\ r[Len(r)] = n
           /\ \A i, j \in DOMAIN r : i < j => r[i] < r[j]
<1> DEFINE r == Append(finalRuns, n)
<1>1. /\ r \in Seq(Nat) /\ r # <<>> /\ Len(r) = Len(finalRuns) + 1
      /\ \A i \in 1..Len(finalRuns) : r[i] = finalRuns[i]
      /\ r[Len(finalRuns) + 1] = n
  BY AppendProperties
<1>2. /\ DOMAIN r = 1..(Len(finalRuns) + 1) /\ Len(finalRuns) \in Nat
      /\ DOMAIN finalRuns = 1..Len(finalRuns)
  BY <1>1, LenProperties
<1> HIDE DEF r
<1>3. ASSUME NEW i \in DOMAIN r, NEW j \in DOMAIN r, i < j PROVE r[i] < r[j]
  <2>1. i \in DOMAIN finalRuns /\ r[i] = finalRuns[i]
    BY <1>1, <1>2, <1>3
  <2>2. CASE j \in DOMAIN finalRuns
    <3>1. r[j] = finalRuns[j] /\ finalRuns[i] < finalRuns[j]
      BY <1>1, <1>2, <1>3, <2>1, <2>2 DEF FinallyOnce
    <3> QED BY <2>1, <3>1
  <2>3. CASE j \notin DOMAIN finalRuns
    <3>1. r[j] = n
      BY <1>1, <1>2, <2>3
    <3>2. finalRuns # <<>> /\ Len(finalRuns) \in DOMAIN finalRuns
      BY <1>2, <2>1, EmptySeq
    <3>3. finalRuns[i] \in Nat /\ finalRuns[Len(finalRuns)] \in Nat
      BY <1>2, <2>1, <3>2, ElementOfSeq
    <3>4. i = Len(finalRuns) \/ finalRuns[i] < finalRuns[Len(finalRuns)]
      BY <1>2, <2>1, <3>2 DEF FinallyOnce
    <3> QED BY <2>1, <3>1, <3>2, <3>3, <3>4
  <2> QED BY <2>2, <2>3
<1>4. r[Len(r)] = n
  BY <1>1
<1>5. r \in Seq(Nat) /\ r # <<>> /\ r[Len(r)] = n /\ \A i, j \in DOMAIN r : i < j => r[i] < r[j]
  BY <1>1, <1>3, <1>4
<1> QED BY <1>5 DEF r

LEMMA ReturnKeeps == ASSUME GInv, Return PROVE GInv' /\ Decided
<1>1. stack # <<>> /\ Onwards /\ UNCHANGED <<chain, finalized, destroyed, ops>>
  BY DEF Return, Onwards
<1>2. CASE Len(Top.todo) = 1
  <2>1. ChainEnds /\ UNCHANGED <<freedRead, finalRuns>>
    BY <1>1, <1>2 DEF Onwards
  <2> QED BY <1>1, <2>1, ChainEndsOutcome, OutcomeKeeps
<1>3. CASE Len(Top.todo) # 1
  <2> DEFINE f == [Top EXCEPT !.todo = Tail(@)]
  <2>1. /\ freedRead' = ~Top.live /\ stack' = <<f>> \o Below /\ thrown' = thrown
        /\ finalRuns' = IF Top.slot = "finally"
                        THEN Append(finalRuns, Top.todo[2].id) ELSE finalRuns
    BY <1>1, <1>3 DEF Onwards
  <2>2. /\ f \in Frames /\ FrameOK(f)
        /\ f.slot = Top.slot /\ f.exc = Top.exc /\ f.tries = Top.tries
        /\ f.todo[1] = Top.todo[2] /\ Top.todo[2].id \in Nat
        /\ Survives => Top.live
        /\ Rising(Top.todo) => Rising(f.todo) /\ Top.todo[1].id < Top.todo[2].id
    BY <1>1, <1>3, NextHandler
  <2> HIDE DEF f
  <2>3. /\ Top \in Frames /\ Top = stack[1] /\ Below \in Seq(Frames) /\ 1 \in DOMAIN stack
        /\ stack \in Seq(Frames)
    BY <1>1, TopIsGood DEF GInv, TypeOK
  <2>4. /\ stack' \in Seq(Frames) /\ stack'[1] = f /\ DOMAIN stack' = DOMAIN stack
        /\ \A i \in DOMAIN stack : i # 1 => stack'[i] = stack[i]
    <3>1. /\ stack' \in Seq(Frames) /\ stack'[1] = f /\ DOMAIN stack' = 1..(Len(Below) + 1)
          /\ DOMAIN Below = 1..Len(Below) /\ Len(Below) \in Nat
          /\ \A i \in DOMAIN stack' : i # 1 => stack'[i] = Below[i - 1]
      BY <2>1, <2>2, <2>3, Pushed
    <3>2. /\ DOMAIN Below = 1..(Len(stack) - 1) /\ DOMAIN stack = 1..Len(stack)
          /\ Len(stack) \in Nat \ {0}
          /\ \A i \in DOMAIN stack : i # 1 => Below[i - 1] = stack[i]
      BY <1>1, <2>3, Popped DEF Below
    <3>3. Len(Below) = Len(stack) - 1
      <4>1. Len(Below) = Len(stack) - 1
        BY <1>1, <2>3, HeadTailProperties DEF Below
      <4> QED BY <4>1
    <3>4. DOMAIN stack' = DOMAIN stack
      BY <3>1, <3>2, <3>3
    <3> QED BY <3>1, <3>2, <3>4
  <2>5. Carries(stack', thrown', {})
    <3>1. CASE Top.slot \in Raising
      <4>1. /\ Carries(Below, thrown, {Top.exc})
            /\ Top.exc \in DOMAIN thrown /\ thrown[Top.exc].fate = "flying"
            /\ thrown[Top.exc].gen <= Top.tries /\ Top.tries <= MaxRetry
            /\ Top.slot = "watch" => Top.tries = 0
        BY <1>1, <3>1, TopCarries
      <4>2. thrown \in Seq(Exceptions)
        BY DEF GInv, TypeOK
      <4>3. Carries(<<f>> \o Below, thrown, {})
        BY <2>2, <2>3, <3>1, <4>1, <4>2, CarriesPushed
      <4> QED BY <2>1, <4>3
    <3>2. CASE Top.slot \notin Raising
      <4>1. Carries(Below, thrown, {}) /\ Top.exc = 0
        BY <1>1, <3>2, TopCarries
      <4>2. Carries(<<f>> \o Below, thrown, {})
        BY <2>2, <2>3, <3>2, <4>1, CarriesPushedOther
      <4> QED BY <2>1, <4>2
    <3> QED BY <3>1, <3>2
  <2>6. FramesOK'
    <3> SUFFICES ASSUME NEW i \in DOMAIN stack' PROVE FrameOK(stack'[i])
      BY DEF FramesOK, FrameOK, Survives
    <3> QED BY <2>2, <2>4 DEF GInv, FramesOK
  <2>7. /\ finalRuns \in Seq(Nat) /\ FinallyOnce
        /\ Top.slot = "finally" =>
              /\ finalized /\ Rising(Top.todo) /\ finalRuns # <<>>
              /\ finalRuns[Len(finalRuns)] = Top.todo[1].id
              /\ \A i \in DOMAIN stack : i # 1 => stack[i].slot # "finally"
    BY <2>3 DEF GInv, TypeOK, FinallyInv
  <2>8. /\ finalRuns' \in Seq(Nat) /\ FinallyOnce'
        /\ Top.slot = "finally" => /\ finalRuns' # <<>>
                                   /\ finalRuns'[Len(finalRuns')] = f.todo[1].id
    <3>1. CASE Top.slot = "finally"
      <4>1. finalRuns # <<>> => finalRuns[Len(finalRuns)] < Top.todo[2].id
        BY <2>2, <2>7, <3>1
      <4>2. finalRuns' = Append(finalRuns, Top.todo[2].id)
        BY <2>1, <3>1
      <4>3. /\ finalRuns' \in Seq(Nat) /\ finalRuns' # <<>>
            /\ finalRuns'[Len(finalRuns')] = Top.todo[2].id
            /\ \A i, j \in DOMAIN finalRuns' : i < j => finalRuns'[i] < finalRuns'[j]
        BY <2>2, <2>7, <4>1, <4>2, OnceMore
      <4> QED BY <2>2, <4>3 DEF FinallyOnce
    <3>2. CASE Top.slot # "finally"
      BY <2>1, <2>7, <3>2 DEF FinallyOnce
    <3> QED BY <3>1, <3>2
  <2>9. FinallyInv'
    <3>1. (Rising(chain.finally) /\ \A i \in DOMAIN chain.finally : chain.finally[i].id < ops)'
      BY <1>1 DEF GInv, FinallyInv, Rising
    <3>2. (~finalized => finalRuns = <<>> /\ \A i \in DOMAIN stack : stack[i].slot # "finally")'
      <4> SUFFICES ASSUME ~finalized
                   PROVE  finalRuns' = <<>> /\ \A i \in DOMAIN stack' : stack'[i].slot # "finally"
        BY <1>1
      <4>1. Top.slot # "finally" /\ finalRuns = <<>>
            /\ \A i \in DOMAIN stack : stack[i].slot # "finally"
        BY <2>7 DEF GInv, FinallyInv
      <4> QED BY <2>1, <2>2, <2>4, <4>1
    <3>3. ASSUME NEW i \in DOMAIN stack', stack'[i].slot = "finally"
          PROVE  /\ Rising(stack'[i].todo) /\ finalRuns' # <<>>
                 /\ finalRuns'[Len(finalRuns')] = stack'[i].todo[1].id
      <4>1. CASE i = 1
        BY <2>2, <2>4, <2>7, <2>8, <3>3, <4>1
      <4>2. CASE i # 1
        <5>1. stack'[i] = stack[i] /\ Top.slot # "finally" /\ finalRuns' = finalRuns
          BY <2>1, <2>4, <2>7, <3>3, <4>2
        <5> QED BY <2>4, <3>3, <5>1 DEF GInv, FinallyInv
      <4> QED BY <4>1, <4>2
    <3>4. ASSUME NEW i \in DOMAIN stack', NEW j \in DOMAIN stack',
                 stack'[i].slot = "finally", stack'[j].slot = "finally"
          PROVE  i = j
      <4>1. stack[i].slot = "finally" /\ stack[j].slot = "finally"
        BY <2>2, <2>3, <2>4, <3>4
      <4> QED BY <2>4, <4>1 DEF GInv, FinallyInv
    <3>5. FinallyOnce'
      BY <2>8
    <3> QED BY <3>1, <3>2, <3>3, <3>4, <3>5 DEF FinallyInv, Rising
  <2>10. TypeOK'
    BY <1>1, <2>1, <2>4, <2>8 DEF GInv, TypeOK
  <2>11. WatchersSeeEvents' /\ Decided /\ ChainsOK' /\ Dated'
    BY <1>1, <2>1 DEF GInv, WatchersSeeEvents, Watched, Decided, ChainsOK, Dated
  <2>12. (Survives => NoFreedClosure)'
    BY <2>1, <2>2 DEF NoFreedClosure, Survives
  <2> QED BY <2>5, <2>6, <2>9, <2>10, <2>11, <2>12 DEF GInv
<1> QED BY <1>2, <1>3

(* finalize, by whoever calls it, and the destructor.                      *)
LEMMA FinalizationKeeps ==
    ASSUME GInv, finalized' = TRUE, Finalization, UNCHANGED <<chain, freedRead, thrown>>,
           destroyed' \in BOOLEAN, ops' \in {ops, ops + 1}
    PROVE  GInv' /\ Decided
<1>1. /\ stack \in Seq(Frames) /\ finalRuns \in Seq(Nat) /\ ops \in Nat
      /\ chain.finally \in Seq(Handlers) /\ chain["finally"] = chain.finally
  BY DEF GInv, TypeOK, Slots
<1>2. /\ FinallyOnce /\ Rising(chain.finally)
      /\ \A i \in DOMAIN chain.finally : chain.finally[i].id < ops'
  <2>1. \A i \in DOMAIN chain.finally : chain.finally[i].id \in Nat
    <3> TAKE i \in DOMAIN chain.finally
    <3>1. chain.finally[i] \in Handlers
      BY <1>1, ElementOfSeq, LenProperties
    <3> QED BY <3>1 DEF Handlers
  <2> QED BY <1>1, <2>1 DEF GInv, FinallyInv
<1>3. /\ WatchersSeeEvents' /\ Decided /\ ChainsOK' /\ (Survives => NoFreedClosure)'
      /\ Dated'
  <2>1. Dated'
    BY DatedStays
  <2> QED BY <2>1 DEF GInv, WatchersSeeEvents, Watched, Decided, ChainsOK, NoFreedClosure, Survives
<1>4. CASE finalized \/ chain.finally = <<>>
  <2>1. stack' = stack /\ finalRuns' = finalRuns
    BY <1>4 DEF Finalization
  <2>2. TypeOK'
    BY <1>1, <2>1 DEF GInv, TypeOK
  <2>3. FramesOK' /\ Carries(stack, thrown, {})' /\ Dated'
    BY <1>1, <1>3, <2>1 DEF GInv, FramesOK, FrameOK, Survives, Carries
  <2>4. finalRuns = <<>> => \A i \in DOMAIN stack : stack[i].slot # "finally"
    BY DEF GInv, FinallyInv
  <2>5. FinallyInv'
    <3>1. /\ \A i \in DOMAIN stack : stack[i].slot = "finally" =>
               /\ Rising(stack[i].todo)
               /\ finalRuns # <<>> /\ finalRuns[Len(finalRuns)] = stack[i].todo[1].id
          /\ \A i, j \in DOMAIN stack :
               stack[i].slot = "finally" /\ stack[j].slot = "finally" => i = j
      BY DEF GInv, FinallyInv
    <3> QED BY <1>2, <2>1, <3>1 DEF FinallyInv, FinallyOnce, Rising
  <2> QED BY <1>3, <2>2, <2>3, <2>5 DEF GInv
<1>5. CASE ~finalized /\ chain.finally # <<>>
  <2> DEFINE f == Frame("finally", 0, 0)  n == chain.finally[1].id
  <2>1. /\ stack' = <<f>> \o stack /\ finalRuns' = Append(finalRuns, n)
        /\ chain.finally[1] \in Handlers
    <3>1. Head(chain.finally) = chain.finally[1] /\ chain.finally[1] \in Handlers
      <4>1. Len(chain.finally) \in Nat \ {0}
        BY <1>1, <1>5, EmptySeq
      <4> QED BY <1>1, <4>1, ElementOfSeq
    <3> QED BY <1>5, <3>1 DEF Finalization
  <2>2. finalRuns = <<>> /\ \A i \in DOMAIN stack : stack[i].slot # "finally"
    BY <1>5 DEF GInv, FinallyInv
  <2>3. f \in Frames
    <3>1. "finally" \in Slots /\ 0 \in Nat
      BY DEF Slots
    <3> QED BY <3>1, FrameType DEF GInv
  <2>4. f.slot = "finally" /\ f.exc = 0 /\ f.todo = chain.finally /\ f.live
    BY <1>1 DEF Frame
  <2> HIDE DEF f
  <2>5. /\ stack' \in Seq(Frames) /\ stack'[1] = f
        /\ \A i \in DOMAIN stack' : i # 1 => i - 1 \in DOMAIN stack /\ stack'[i] = stack[i - 1]
    BY <1>1, <2>1, <2>3, Pushed
  <2>6. Carries(stack', thrown', {})
    <3>1. Carries(<<f>> \o stack, thrown, {})
      BY <1>1, <2>3, <2>4, CarriesPushedOther DEF GInv, Raising
    <3> QED BY <2>1, <3>1
  <2>7. FrameOK(f)
    <3>1. \A j \in DOMAIN chain.finally : chain.finally[j].kind = "plain"
      BY <1>1 DEF GInv, ChainsOK, Slots, Raising
    <3> QED BY <1>5, <2>4, <3>1 DEF FrameOK
  <2>8. FramesOK'
    <3> SUFFICES ASSUME NEW i \in DOMAIN stack' PROVE FrameOK(stack'[i])
      BY DEF FramesOK, FrameOK, Survives
    <3> QED BY <2>5, <2>7 DEF GInv, FramesOK
  <2>9. n \in Nat
    BY <2>1 DEF Handlers
  <2> HIDE DEF n
  <2>10. /\ finalRuns' \in Seq(Nat) /\ finalRuns' # <<>> /\ finalRuns'[Len(finalRuns')] = n
         /\ \A i, j \in DOMAIN finalRuns' : i < j => finalRuns'[i] < finalRuns'[j]
    BY <1>1, <1>2, <2>1, <2>2, <2>9, OnceMore
  <2>11. FinallyInv'
    <3>1. ASSUME NEW i \in DOMAIN stack', stack'[i].slot = "finally" PROVE i = 1
      BY <2>2, <2>5, <3>1
    <3>2. (\A i \in DOMAIN stack : stack[i].slot = "finally" =>
               /\ Rising(stack[i].todo)
               /\ finalRuns # <<>> /\ finalRuns[Len(finalRuns)] = stack[i].todo[1].id)'
      <4> SUFFICES ASSUME NEW i \in DOMAIN stack', stack'[i].slot = "finally"
                   PROVE  /\ Rising(stack'[i].todo) /\ finalRuns' # <<>>
                          /\ finalRuns'[Len(finalRuns')] = stack'[i].todo[1].id
        BY DEF Rising
      <4> QED BY <1>2, <2>4, <2>5, <2>10, <3>1 DEF n
    <3>3. (\A i, j \in DOMAIN stack :
             stack[i].slot = "finally" /\ stack[j].slot = "finally" => i = j)'
      BY <3>1
    <3> QED BY <1>2, <2>10, <3>2, <3>3 DEF FinallyInv, FinallyOnce, Rising
  <2>12. TypeOK'
    BY <1>1, <2>5, <2>10 DEF GInv, TypeOK
  <2>13. Dated'
    BY <1>3
  <2> QED BY <1>3, <2>6, <2>8, <2>11, <2>12, <2>13 DEF GInv
<1> QED BY <1>4, <1>5

(* Closures that are destroyed are marked, and nothing else changes in the *)
(* chains that run.                                                        *)
LEMMA Marked ==
    ASSUME GInv, NEW M, thrown' = thrown,
           stack' = [i \in DOMAIN stack |->
                       IF i \in M THEN [stack[i] EXCEPT !.live = FALSE] ELSE stack[i]],
           Survives => \A i \in DOMAIN stack : i \in M => Len(stack[i].todo) = 1
    PROVE  /\ stack' \in Seq(Frames) /\ FramesOK' /\ Carries(stack', thrown', {})
           /\ DOMAIN stack' = DOMAIN stack
           /\ \A i \in DOMAIN stack : /\ stack'[i].slot = stack[i].slot
                                      /\ stack'[i].todo = stack[i].todo
<1>1. stack \in Seq(Frames)
  BY DEF GInv, TypeOK
<1>2. Len(stack) \in Nat /\ DOMAIN stack = 1..Len(stack)
  BY <1>1, LenProperties
<1>3. ASSUME NEW i \in DOMAIN stack
      PROVE  /\ stack'[i] \in Frames
             /\ stack'[i].slot = stack[i].slot /\ stack'[i].todo = stack[i].todo
             /\ stack'[i].exc = stack[i].exc /\ stack'[i].tries = stack[i].tries
             /\ FrameOK(stack'[i])
  <2>1. stack[i] \in Frames /\ FrameOK(stack[i])
    BY <1>1, <1>2, ElementOfSeq DEF GInv, FramesOK
  <2>2. CASE i \in M
    <3>1. stack'[i] = [stack[i] EXCEPT !.live = FALSE]
      BY <2>2
    <3>2. /\ stack'[i] \in Frames
          /\ stack'[i].slot = stack[i].slot /\ stack'[i].todo = stack[i].todo
          /\ stack'[i].exc = stack[i].exc /\ stack'[i].tries = stack[i].tries
      <4> HIDE DEF Handlers
      <4> QED BY <2>1, <3>1 DEF Frames
    <3>3. Survives => Len(stack[i].todo) = 1
      BY <2>2
    <3>4. Survives => Len(stack'[i].todo) = 1
      BY <3>2, <3>3
    <3>5. /\ stack'[i].todo # <<>>
          /\ stack'[i].slot \notin Raising =>
                \A j \in DOMAIN stack'[i].todo : stack'[i].todo[j].kind = "plain"
      BY <2>1, <3>2 DEF FrameOK
    <3> DEFINE g == stack'[i]
    <3> HIDE DEF g
    <3>6. (Survives => Len(g.todo) = 1) /\ g.todo # <<>>
          /\ (g.slot \notin Raising => \A j \in DOMAIN g.todo : g.todo[j].kind = "plain")
      BY <3>4, <3>5 DEF g
    <3>7. Survives => ~(Len(g.todo) > 1)
      <4>1. ~(1 > 1)
        OBVIOUS
      <4> QED BY <3>6, <4>1, Zenon
    <3>8. FrameOK(g)
      BY <3>6, <3>7, Zenon DEF FrameOK
    <3> QED BY <3>2, <3>8 DEF g
  <2>3. CASE i \notin M
    BY <2>1, <2>3
  <2> QED BY <2>2, <2>3
<1>4. DOMAIN stack' = DOMAIN stack
  OBVIOUS
<1>5. stack' \in Seq(Frames)
  <2>1. stack' \in [1..Len(stack) -> Frames]
    <3> HIDE DEF Frames
    <3> QED BY <1>2, <1>3
  <2> HIDE DEF Frames
  <2> QED BY <1>2, <2>1
<1>6. FramesOK'
  <2> SUFFICES ASSUME NEW i \in DOMAIN stack' PROVE FrameOK(stack'[i])
    BY DEF FramesOK, FrameOK, Survives
  <2> QED BY <1>3, <1>4
<1>7. Carries(stack', thrown', {})
  <2>1. Carries(stack, thrown, {})
    BY DEF GInv
  <2> HIDE DEF Raising, MaxRetry
  <2> QED BY <1>3, <1>4, <2>1 DEF Carries
<1> QED BY <1>3, <1>4, <1>5, <1>6, <1>7

(* What registering and clearing leave true of the finally handlers, once  *)
(* it is known of their new chain.                                         *)
LEMMA ChangedChain ==
    ASSUME FinallyInv, UNCHANGED <<finalized, finalRuns>>, DOMAIN stack' = DOMAIN stack,
           \A i \in DOMAIN stack : /\ stack'[i].slot = stack[i].slot
                                   /\ stack'[i].todo = stack[i].todo,
           Rising(chain'.finally), \A i \in DOMAIN chain'.finally : chain'.finally[i].id < ops'
    PROVE  FinallyInv'
<1>1. FinallyOnce'
  BY DEF FinallyInv, FinallyOnce
<1>2. (~finalized => finalRuns = <<>> /\ \A i \in DOMAIN stack : stack[i].slot # "finally")'
  BY DEF FinallyInv
<1>3. ASSUME NEW i \in DOMAIN stack', stack'[i].slot = "finally"
      PROVE  /\ Rising(stack'[i].todo) /\ finalRuns' # <<>>
             /\ finalRuns'[Len(finalRuns')] = stack'[i].todo[1].id
  <2>1. i \in DOMAIN stack /\ stack[i].slot = "finally" /\ stack'[i].todo = stack[i].todo
    BY <1>3
  <2> QED BY <2>1 DEF FinallyInv
<1>4. ASSUME NEW i \in DOMAIN stack', NEW j \in DOMAIN stack',
             stack'[i].slot = "finally", stack'[j].slot = "finally"
      PROVE  i = j
  BY <1>4 DEF FinallyInv
<1> QED BY <1>1, <1>2, <1>3, <1>4 DEF FinallyInv, Rising

LEMMA RegisterKeeps ==
    ASSUME GInv, NEW s \in Slots, NEW k \in KindsOf[s], Register(s, k)
    PROVE  GInv' /\ Decided
<1> DEFINE h == [id |-> ops, kind |-> k]
           M == {i \in DOMAIN stack : stack[i].slot = s /\ ~InitCaptures}
<1>1. /\ chain' = [chain EXCEPT ![s] = Append(@, h)]
      /\ stack' = [i \in DOMAIN stack |->
                     IF i \in M THEN [stack[i] EXCEPT !.live = FALSE] ELSE stack[i]]
      /\ ops' = ops + 1
      /\ UNCHANGED <<finalized, destroyed, freedRead, thrown, finalRuns>>
  BY DEF Register
<1>2. h \in Handlers /\ h.id = ops /\ h.kind = k /\ ops \in Nat
  BY DEF Handlers, GInv, TypeOK
<1>3. Survives => \A i \in DOMAIN stack : i \in M => Len(stack[i].todo) = 1
  BY DEF Survives
<1> HIDE DEF M
<1>4. /\ stack' \in Seq(Frames) /\ FramesOK' /\ Carries(stack', thrown', {})
      /\ DOMAIN stack' = DOMAIN stack
      /\ \A i \in DOMAIN stack : /\ stack'[i].slot = stack[i].slot
                                 /\ stack'[i].todo = stack[i].todo
  BY <1>1, <1>3, Marked
<1> HIDE DEF h
<1>5. chain \in [Slots -> Seq(Handlers)]
  BY DEF GInv, TypeOK
<1>6. /\ chain[s] \in Seq(Handlers) /\ chain'[s] = Append(chain[s], h)
      /\ \A t \in Slots : t # s => chain'[t] = chain[t]
  BY <1>1, <1>5
<1>7. /\ chain'[s] \in Seq(Handlers)
      /\ Len(chain[s]) \in Nat /\ DOMAIN chain[s] = 1..Len(chain[s])
      /\ DOMAIN chain'[s] = 1..(Len(chain[s]) + 1)
      /\ \A i \in 1..Len(chain[s]) : chain'[s][i] = chain[s][i]
      /\ chain'[s][Len(chain[s]) + 1] = h
  <2> HIDE DEF Handlers
  <2>1. /\ chain'[s] \in Seq(Handlers) /\ Len(chain'[s]) = Len(chain[s]) + 1
        /\ \A i \in 1..Len(chain[s]) : chain'[s][i] = chain[s][i]
        /\ chain'[s][Len(chain[s]) + 1] = h
    BY <1>2, <1>6, AppendProperties
  <2> QED BY <1>6, <2>1, LenProperties
<1>8. TypeOK'
  <2>1. chain' \in [Slots -> Seq(Handlers)]
    <3> HIDE DEF Handlers
    <3> QED BY <1>1, <1>5, <1>7
  <2> QED BY <1>1, <1>2, <1>4, <2>1 DEF GInv, TypeOK
<1>9. ChainsOK'
  <2> SUFFICES ASSUME NEW t \in Slots \ Raising, NEW j \in DOMAIN chain'[t]
               PROVE  chain'[t][j].kind = "plain"
    BY DEF ChainsOK
  <2>1. CASE t = s
    <3>1. k = "plain"
      BY <2>1 DEF KindsOf, Raising, Slots
    <3>2. \A i \in DOMAIN chain[s] : chain[s][i].kind = "plain"
      BY <2>1 DEF GInv, ChainsOK
    <3> QED BY <1>2, <1>7, <2>1, <3>1, <3>2
  <2>2. CASE t # s
    BY <1>6, <2>2 DEF GInv, ChainsOK
  <2> QED BY <2>1, <2>2
<1>10. FinallyInv'
  <2>1. /\ Rising(chain.finally) /\ \A i \in DOMAIN chain.finally : chain.finally[i].id < ops
        /\ FinallyInv
    BY DEF GInv, FinallyInv
  <2>2. \A i \in DOMAIN chain["finally"] : chain["finally"][i].id \in Nat
    <3> TAKE i \in DOMAIN chain["finally"]
    <3>1. "finally" \in Slots
      BY DEF Slots
    <3>2. chain["finally"] \in Seq(Handlers)
      BY <1>5, <3>1
    <3>3. chain["finally"][i] \in Handlers
      BY <3>2, ElementOfSeq, LenProperties
    <3> QED BY <3>3 DEF Handlers
  <2>3. Rising(chain'["finally"]) /\ \A i \in DOMAIN chain'["finally"] : chain'["finally"][i].id < ops'
    <3>1. CASE s = "finally"
      <4>1. ASSUME NEW i \in DOMAIN chain'[s], i # Len(chain[s]) + 1
            PROVE  i \in DOMAIN chain[s] /\ chain'[s][i] = chain[s][i] /\ chain[s][i].id < ops
        BY <1>7, <2>1, <3>1, <4>1
      <4>2. \A i \in DOMAIN chain'[s] : chain'[s][i].id < ops'
        <5> TAKE i \in DOMAIN chain'[s]
        <5>1. CASE i = Len(chain[s]) + 1
          BY <1>1, <1>2, <1>7, <5>1
        <5>2. CASE i # Len(chain[s]) + 1
          <6>1. chain'[s][i].id < ops /\ chain'[s][i].id \in Nat
            BY <2>2, <3>1, <4>1, <5>2
          <6> QED BY <1>1, <1>2, <6>1
        <5> QED BY <5>1, <5>2
      <4>3. Rising(chain'[s])
        <5> SUFFICES ASSUME NEW i \in DOMAIN chain'[s], NEW j \in DOMAIN chain'[s], i < j
                     PROVE  chain'[s][i].id < chain'[s][j].id
          BY DEF Rising
        <5>1. i # Len(chain[s]) + 1
          BY <1>7
        <5>2. CASE j = Len(chain[s]) + 1
          BY <1>2, <1>7, <4>1, <5>1, <5>2
        <5>3. CASE j # Len(chain[s]) + 1
          <6>1. i \in DOMAIN chain[s] /\ j \in DOMAIN chain[s]
            BY <4>1, <5>1, <5>3
          <6>2. chain[s][i].id < chain[s][j].id
            BY <2>1, <3>1, <6>1 DEF Rising
          <6> QED BY <4>1, <5>1, <5>3, <6>2
        <5> QED BY <5>2, <5>3
      <4> QED BY <3>1, <4>2, <4>3
    <3>2. CASE s # "finally"
      <4>1. chain'["finally"] = chain["finally"]
        BY <1>6, <3>2 DEF Slots
      <4> QED BY <1>1, <1>2, <2>1, <2>2, <4>1 DEF Rising
    <3> QED BY <3>1, <3>2
  <2> QED BY <1>1, <1>4, <2>1, <2>3, ChangedChain
<1>11. Dated'
  BY <1>1, DatedStays
<1>12. WatchersSeeEvents'
  <2> SUFFICES ASSUME chain'["watch"] # <<>>, NEW e \in DOMAIN thrown,
                      thrown[e].by \in {"raise", "call"},
                      thrown[e].at > chain'["watch"][1].id
               PROVE  thrown[e].shown
    BY <1>1 DEF WatchersSeeEvents, Watched
  <2>1. chain["watch"] # <<>> /\ chain'["watch"][1].id = chain["watch"][1].id
    <3>1. CASE s = "watch" /\ chain["watch"] # <<>>
      <4>1. 1 \in 1..Len(chain[s])
        BY <1>6, <1>7, <3>1, EmptySeq
      <4> QED BY <1>7, <3>1, <4>1
    <3>2. CASE s = "watch" /\ chain["watch"] = <<>>
      <4>1. Len(chain[s]) = 0
        BY <3>2
      <4>2. chain'["watch"][1].id = ops
        BY <1>2, <1>7, <3>2, <4>1
      <4>3. thrown[e] \in Exceptions
        BY ElementOfSeq, LenProperties DEF GInv, TypeOK
      <4>4. thrown[e].at \in Nat /\ thrown[e].at <= ops /\ ops \in Nat
        BY <4>3 DEF Exceptions, GInv, TypeOK, Dated
      <4> QED BY <4>2, <4>4
    <3>3. CASE s # "watch"
      BY <1>6, <3>3 DEF Slots
    <3> QED BY <3>1, <3>2, <3>3
  <2> QED BY <2>1 DEF GInv, WatchersSeeEvents, Watched
<1>13. Decided /\ (Survives => NoFreedClosure)'
  BY <1>1 DEF GInv, Decided, NoFreedClosure, Survives
<1> QED BY <1>4, <1>8, <1>9, <1>10, <1>11, <1>12, <1>13 DEF GInv

LEMMA ClearKeeps ==
    ASSUME GInv, NEW s \in Slots, Clear(s)
    PROVE  GInv' /\ Decided
<1> DEFINE M == {i \in DOMAIN stack : stack[i].slot = s}
<1>1. /\ chain' = [chain EXCEPT ![s] = <<>>]
      /\ stack' = [i \in DOMAIN stack |->
                     IF i \in M THEN [stack[i] EXCEPT !.live = FALSE] ELSE stack[i]]
      /\ ops' = ops + 1
      /\ UNCHANGED <<finalized, destroyed, freedRead, thrown, finalRuns>>
  BY DEF Clear
<1>2. Survives => \A i \in DOMAIN stack : i \in M => Len(stack[i].todo) = 1
  BY DEF Survives, Clear
<1> HIDE DEF M
<1>3. /\ stack' \in Seq(Frames) /\ FramesOK' /\ Carries(stack', thrown', {})
      /\ DOMAIN stack' = DOMAIN stack
      /\ \A i \in DOMAIN stack : /\ stack'[i].slot = stack[i].slot
                                 /\ stack'[i].todo = stack[i].todo
  BY <1>1, <1>2, Marked
<1>4. chain \in [Slots -> Seq(Handlers)] /\ ops \in Nat
  BY DEF GInv, TypeOK
<1>5. /\ chain' \in [Slots -> Seq(Handlers)] /\ chain'[s] = <<>> /\ DOMAIN chain'[s] = {}
      /\ \A t \in Slots : t # s => chain'[t] = chain[t]
  <2> HIDE DEF Handlers
  <2> QED BY <1>1, <1>4
<1>6. TypeOK'
  BY <1>1, <1>3, <1>4, <1>5 DEF GInv, TypeOK
<1>7. ChainsOK'
  <2> SUFFICES ASSUME NEW t \in Slots \ Raising, NEW j \in DOMAIN chain'[t]
               PROVE  chain'[t][j].kind = "plain"
    BY DEF ChainsOK
  <2> QED BY <1>5 DEF GInv, ChainsOK
<1>8. FinallyInv'
  <2>1. /\ Rising(chain.finally) /\ \A i \in DOMAIN chain.finally : chain.finally[i].id < ops
        /\ FinallyInv
    BY DEF GInv, FinallyInv
  <2>2. \A i \in DOMAIN chain["finally"] : chain["finally"][i].id \in Nat
    <3> TAKE i \in DOMAIN chain["finally"]
    <3>1. "finally" \in Slots
      BY DEF Slots
    <3>2. chain["finally"] \in Seq(Handlers)
      BY <1>4, <3>1
    <3>3. chain["finally"][i] \in Handlers
      BY <3>2, ElementOfSeq, LenProperties
    <3> QED BY <3>3 DEF Handlers
  <2>3. Rising(chain'["finally"]) /\ \A i \in DOMAIN chain'["finally"] : chain'["finally"][i].id < ops'
    <3>1. CASE s = "finally"
      BY <1>5, <3>1 DEF Rising
    <3>2. CASE s # "finally"
      <4>1. chain'["finally"] = chain["finally"]
        BY <1>5, <3>2 DEF Slots
      <4> QED BY <1>1, <1>4, <2>1, <2>2, <4>1 DEF Rising
    <3> QED BY <3>1, <3>2
  <2> QED BY <1>1, <1>3, <2>1, <2>3, ChangedChain
<1>9. Dated'
  BY <1>1, DatedStays
<1>10. WatchersSeeEvents'
  <2>1. CASE s = "watch"
    BY <1>5, <2>1 DEF WatchersSeeEvents
  <2>2. CASE s # "watch"
    <3>1. chain'["watch"] = chain["watch"]
      BY <1>5, <2>2 DEF Slots
    <3> QED BY <1>1, <3>1 DEF GInv, WatchersSeeEvents, Watched
  <2> QED BY <2>1, <2>2
<1>11. Decided /\ (Survives => NoFreedClosure)'
  BY <1>1 DEF GInv, Decided, NoFreedClosure, Survives
<1> QED BY <1>3, <1>6, <1>7, <1>8, <1>9, <1>10, <1>11 DEF GInv

-----------------------------------------------------------------------------
LEMMA InitIsGood == Init => GInv
<1> SUFFICES ASSUME Init PROVE GInv
  OBVIOUS
<1>1. DOMAIN stack = {} /\ DOMAIN thrown = {} /\ DOMAIN finalRuns = {}
  BY DEF Init
<1>2. \A s \in Slots : chain[s] = <<>> /\ DOMAIN chain[s] = {}
  BY DEF Init
<1>3. DOMAIN chain.finally = {}
  BY <1>2 DEF Slots
<1>4. TypeOK
  <2> HIDE DEF Handlers, Frames, Exceptions
  <2> QED BY EmptySeq DEF Init, TypeOK
<1>5. ChainsOK /\ FramesOK /\ Carries(stack, thrown, {}) /\ Dated
  BY <1>1, <1>2 DEF Init, ChainsOK, FramesOK, Carries, Dated
<1>6. FinallyInv
  BY <1>1, <1>3 DEF Init, FinallyInv, FinallyOnce, Rising
<1>7. WatchersSeeEvents /\ (Survives => NoFreedClosure)
  BY <1>1 DEF Init, WatchersSeeEvents, NoFreedClosure
<1> QED BY <1>4, <1>5, <1>6, <1>7 DEF GInv

LEMMA NextKeeps == GInv /\ [Next]_vars => GInv' /\ Decided
<1> SUFFICES ASSUME GInv, [Next]_vars PROVE GInv' /\ Decided
  OBVIOUS
<1>1. ASSUME NEW s \in Slots, NEW k \in KindsOf[s], Register(s, k) PROVE GInv' /\ Decided
  BY <1>1, RegisterKeeps
<1>2. ASSUME NEW s \in Slots, Clear(s) PROVE GInv' /\ Decided
  BY <1>2, ClearKeeps
<1>3. CASE Emit
  BY <1>3, EmitKeeps
<1>4. ASSUME NEW c \in Classes, Raise(c) \/ CastEmit(c) PROVE GInv' /\ Decided
  BY <1>4, EmitKeeps, RaiseKeeps DEF CastEmit
<1>5. ASSUME NEW c \in Classes, Throw(c) PROVE GInv' /\ Decided
  BY <1>5, ThrowKeeps
<1>6. CASE Finalize
  BY <1>6, FinalizationKeeps DEF Finalize, GInv, TypeOK
<1>7. CASE Destroy
  BY <1>7, FinalizationKeeps DEF Destroy
<1>8. CASE Return
  BY <1>8, ReturnKeeps
<1>9. CASE Accept
  BY <1>9, AcceptKeeps
<1>10. CASE UNCHANGED vars
  <2>1. Decided
    BY <1>10 DEF vars, Decided
  <2>2. TypeOK' /\ ChainsOK' /\ FramesOK' /\ Carries(stack, thrown, {})'
    BY <1>10 DEF vars, GInv, TypeOK, ChainsOK, FramesOK, FrameOK, Survives, Carries
  <2>3. FinallyInv' /\ Dated' /\ WatchersSeeEvents' /\ (Survives => NoFreedClosure)'
    BY <1>10 DEF vars, GInv, FinallyInv, FinallyOnce, Rising, Dated, WatchersSeeEvents,
                 Watched, Survives, NoFreedClosure
  <2> QED BY <2>1, <2>2, <2>3 DEF GInv
<1> QED BY <1>1, <1>2, <1>3, <1>4, <1>5, <1>6, <1>7, <1>8, <1>9, <1>10 DEF Next

(* The invariant from which the properties follow.                         *)
THEOREM GInvHolds == SafeSpec => []GInv
<1>1. GInv /\ [Next]_vars => GInv'
  BY NextKeeps
<1> QED BY <1>1, InitIsGood, PTL DEF SafeSpec

(* Types, for any classes of exceptions and any bounds.                    *)
THEOREM TypeCorrect == SafeSpec => []TypeOK
<1>1. GInv => TypeOK
  BY DEF GInv
<1> QED BY <1>1, GInvHolds, PTL

(* With init captures, handlers may do what they like, except to clear the *)
(* chain they are not the last of: no freed closure is read.               *)
THEOREM NoFreedClosureHolds ==
    ASSUME InitCaptures, ~ClearRunning
    PROVE  SafeSpec => []NoFreedClosure
<1>1. GInv => NoFreedClosure
  BY DEF GInv, Survives
<1> QED BY <1>1, GInvHolds, PTL

(* In any build, whoever finalizes: a finally handler is started at most   *)
(* once, and in the order of registration.                                 *)
THEOREM FinallyOnceHolds == SafeSpec => []FinallyOnce
<1>1. GInv => FinallyOnce
  BY DEF GInv, FinallyInv
<1> QED BY <1>1, GInvHolds, PTL

(* Every exception is with exactly one of the chains that run, until its   *)
(* fate is decided.                                                        *)
THEOREM NoExceptionLostHolds == SafeSpec => []NoExceptionLost
<1>1. GInv => NoExceptionLost
  <2> SUFFICES ASSUME GInv, NEW e \in DOMAIN thrown
               PROVE  Cardinality(Carried(e)) = IF thrown[e].fate = "flying" THEN 1 ELSE 0
    BY DEF NoExceptionLost
  <2>1. e # 0 /\ Carries(stack, thrown, {})
    BY LenProperties DEF GInv, TypeOK
  <2>2. CASE thrown[e].fate = "flying"
    <3>1. PICK i \in DOMAIN stack : stack[i].exc = e
      BY <2>1, <2>2 DEF Carries
    <3>2. Carried(e) = {i}
      BY <2>1, <3>1 DEF Carries, Carried
    <3> QED BY <2>2, <3>2, FS_Singleton
  <2>3. CASE thrown[e].fate # "flying"
    <3>1. Carried(e) = {}
      BY <2>1, <2>3 DEF Carries, Carried
    <3> QED BY <2>3, <3>1, FS_EmptySet
  <2> QED BY <2>2, <2>3
<1> QED BY <1>1, GInvHolds, PTL

(* No handler is given an exception that was thrown over more than         *)
(* MAX_RETRY times.                                                        *)
THEOREM RetriesAreBoundedHolds == SafeSpec => []RetriesAreBounded
<1>1. GInv => RetriesAreBounded
  <2> SUFFICES ASSUME GInv, NEW e \in DOMAIN thrown, thrown[e].fate = "flying"
               PROVE  thrown[e].gen <= MaxRetry
    BY DEF RetriesAreBounded
  <2>1. e # 0 /\ Carries(stack, thrown, {})
    BY LenProperties DEF GInv, TypeOK
  <2>2. PICK i \in DOMAIN stack : stack[i].exc = e
    BY <2>1 DEF Carries
  <2>3. stack[i] \in Frames /\ thrown[e] \in Exceptions
    BY LenProperties, ElementOfSeq DEF GInv, TypeOK
  <2>4. thrown[e].gen <= stack[i].tries /\ stack[i].tries <= MaxRetry
    BY <2>1, <2>2 DEF Carries
  <2>5. thrown[e].gen \in Nat /\ stack[i].tries \in Nat
    BY <2>3 DEF Frames, Exceptions
  <2> QED BY <2>4, <2>5 DEF MaxRetry
<1> QED BY <1>1, GInvHolds, PTL

(* As long as somebody watches, the watchers are given whatever was raised *)
(* or thrown by a call handler since the first of them was registered,     *)
(* from whichever handlers, however nested.                                *)
THEOREM WatchersSeeEventsHolds == SafeSpec => []WatchersSeeEvents
<1>1. GInv => WatchersSeeEvents
  BY DEF GInv
<1> QED BY <1>1, GInvHolds, PTL

(* The fate of an exception is decided once.                               *)
THEOREM FateIsFinalHolds == SafeSpec => FateIsFinal
<1>1. GInv /\ [Next]_vars =>
        [\A e \in DOMAIN thrown :
            thrown[e].fate # "flying" => thrown'[e].fate = thrown[e].fate]_vars
  BY NextKeeps DEF Decided
<1> QED BY <1>1, GInvHolds, PTL DEF SafeSpec, FateIsFinal
=============================================================================
