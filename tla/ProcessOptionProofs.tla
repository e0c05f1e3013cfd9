------------------------ MODULE ProcessOptionProofs ------------------------
(***************************************************************************)
(* PointersHold and ReadsWhatWasGiven for any options, blocks, items and   *)
(* bounds.  The inductive invariant PInv says of each cell that its raw    *)
(* pointer and its value are what its history demands, and of two options  *)
(* that they never keep the same field at the same place.                  *)
(***************************************************************************)
EXTENDS ProcessOption, TLAPS

(* What m_cxx holds for a field is what was handed over for it to own, be  *)
(* the raw pointer led there or not; of a cell moved from, nothing.        *)
Content(c) ==
    /\ DOMAIN c.meant \subseteq DOMAIN c.val
    /\ \A j \in DOMAIN c.val :
          c.val[j] = IF j \in DOMAIN c.meant THEN c.meant[j] ELSE Ignore
    /\ c.val # <<>> => Len(c.val) \in DOMAIN c.meant

(* Where a pointer may lead: nowhere, into an option, or to a block.       *)
Places == {Null} \cup {In(o) : o \in Options} \cup {Heap(b) : b \in Blocks}

Cells ==
    [raw : Places \cup {Lent}, at : Places, val : Seq(Items \cup {Ignore}),
     given : {"never", "lent", "owned", "gone"},
     meant : UNION {[D -> Items] : D \in SUBSET Nat}]

GoodCell(c) ==
    /\ c \in Cells
    /\ c.given = "never" => c.raw = Null
    /\ c.given = "lent" => c.raw = Lent
    /\ c.given = "owned" => c.raw = c.at
    /\ Content(c)

(* o may keep a field there: it is no other option's.                      *)
Own(o, place) == place \in {Null, In(o)} \cup {Heap(b) : b \in Blocks}

PInv ==
    /\ cell \in [Options -> [Fields -> Cells]]
    /\ \A o \in Options, f \in Fields : GoodCell(cell[o][f]) /\ Own(o, cell[o][f].at)
    /\ \A o, p \in Options, f \in Fields :
          o # p /\ cell[o][f].at = cell[p][f].at => cell[o][f].at = Null

LEMMA PlacesDiffer ==
    /\ \A b \in Blocks : Heap(b) # Null /\ Heap(b) # Lent
    /\ \A o \in Options : In(o) # Null /\ In(o) # Lent
    /\ \A o \in Options, b \in Blocks : In(o) # Heap(b)
    /\ \A o, p \in Options : In(o) = In(p) => o = p
    /\ \A b, c \in Blocks : Heap(b) = Heap(c) => b = c
    /\ Null # Lent
<1>1. /\ Null.to = "null" /\ Lent.to = "user"
      /\ \A b \in Blocks : Heap(b).to = "heap" /\ Heap(b).of = b
      /\ \A o \in Options : In(o).to = "inside" /\ In(o).of = o
  BY DEF Null, Lent, Heap, In
<1> QED
  BY <1>1

(* A place m_cxx may take for a field is no other option's.                *)
LEMMA RoomIsOwn ==
    ASSUME PInv, NEW o \in Options, NEW f \in Fields, NEW place \in Room(o, f)
    PROVE  /\ place \in Places /\ Own(o, place)
           /\ \A p \in Options \ {o} : cell[p][f].at # place
<1>1. CASE place \in {Heap(b) : b \in Free(f)}
  BY <1>1 DEF Free, Own, Places
<1>2. CASE place = In(o)
  BY <1>2, PlacesDiffer DEF PInv, Own, Places
<1>3. CASE cell[o][f].at # Null /\ place = cell[o][f].at
  BY <1>3 DEF PInv, Cells
<1> QED
  BY <1>1, <1>2, <1>3 DEF Room

(* One option changes, and keeps every field where it did, where there is  *)
(* room, or nowhere.                                                       *)
LEMMA OneChanges ==
    ASSUME PInv, NEW o \in Options, NEW r \in [Fields -> Cells],
           cell' = [cell EXCEPT ![o] = r],
           \A f \in Fields :
              /\ GoodCell(r[f])
              /\ r[f].at \in Room(o, f) \cup {cell[o][f].at, In(o), Null}
    PROVE  PInv'
<1>1. cell' \in [Options -> [Fields -> Cells]] /\ cell'[o] = r
      /\ \A p \in Options \ {o} : cell'[p] = cell[p]
  BY DEF PInv
<1>2. \A f \in Fields : /\ Own(o, r[f].at)
                        /\ \A p \in Options \ {o} : cell[p][f].at = r[f].at => r[f].at = Null
  <2> SUFFICES ASSUME NEW f \in Fields
               PROVE  /\ Own(o, r[f].at)
                      /\ \A p \in Options \ {o} : cell[p][f].at = r[f].at => r[f].at = Null
    OBVIOUS
  <2>1. CASE r[f].at \in Room(o, f)
    BY <2>1, RoomIsOwn
  <2>2. CASE r[f].at = cell[o][f].at
    BY <2>2 DEF PInv
  <2>3. CASE r[f].at = In(o)
    BY <2>3, PlacesDiffer DEF PInv, Own
  <2>4. CASE r[f].at = Null
    BY <2>4 DEF Own
  <2> QED
    BY <2>1, <2>2, <2>3, <2>4
<1>3. \A p \in Options, f \in Fields : GoodCell(cell'[p][f]) /\ Own(p, cell'[p][f].at)
  BY <1>1, <1>2 DEF PInv
<1>4. \A p, q \in Options, f \in Fields :
          p # q /\ cell'[p][f].at = cell'[q][f].at => cell'[p][f].at = Null
  <2> SUFFICES ASSUME NEW p \in Options, NEW q \in Options, NEW f \in Fields,
                      p # q, cell'[p][f].at = cell'[q][f].at
               PROVE  cell'[p][f].at = Null
    OBVIOUS
  <2>1. CASE p = o
    BY <2>1, <1>1, <1>2
  <2>2. CASE q = o
    BY <2>2, <1>1, <1>2
  <2>3. CASE p # o /\ q # o
    BY <2>3, <1>1 DEF PInv
  <2> QED
    BY <2>1, <2>2, <2>3
<1> QED
  BY <1>1, <1>3, <1>4 DEF PInv, GoodCell, Content, Own

(* The same, when it is one field that changes.                            *)
LEMMA OneFieldChanges ==
    ASSUME PInv, NEW o \in Options, NEW f \in Fields, NEW c, GoodCell(c),
           c.at \in Room(o, f) \cup {cell[o][f].at},
           cell' = [cell EXCEPT ![o][f] = c]
    PROVE  PInv'
<1> DEFINE r == [cell[o] EXCEPT ![f] = c]
<1>1. r \in [Fields -> Cells] /\ cell' = [cell EXCEPT ![o] = r]
  BY DEF PInv, GoodCell
<1>2. \A g \in Fields : r[g] = IF g = f THEN c ELSE cell[o][g]
  BY DEF PInv
<1>3. \A g \in Fields : /\ GoodCell(r[g])
                        /\ r[g].at \in Room(o, g) \cup {cell[o][g].at, In(o), Null}
  BY <1>2 DEF PInv
<1> QED
  BY <1>1, <1>3, OneChanges
-----------------------------------------------------------------------------
LEMMA NoContent ==
    ASSUME NEW c, c.val = <<>>, c.meant = <<>>
    PROVE  Content(c)
  BY DEF Content

LEMMA UnmadeIsGood ==
    ASSUME NEW o \in Options, NEW f \in Fields
    PROVE  GoodCell(Unmade(o, f)) /\ Unmade(o, f).at \in {In(o), Null}
<1> DEFINE c == Unmade(o, f)
<1>1. /\ c.raw = Null /\ c.at \in {In(o), Null} /\ c.val = <<>>
      /\ c.given = "never" /\ c.meant = <<>>
  BY DEF Unmade, Nothing
<1>2. Null \in Places /\ In(o) \in Places
  BY DEF Places
<1>3. <<>> \in UNION {[D -> Items] : D \in SUBSET Nat}
  <2>1. <<>> \in [{} -> Items]
    OBVIOUS
  <2> QED
    BY <2>1
<1>4. c \in Cells
  BY <1>1, <1>2, <1>3 DEF Unmade, Nothing, Cells
<1>5. Content(c)
  BY <1>1, NoContent
<1> QED
  BY <1>1, <1>4, <1>5 DEF GoodCell

(* A loan changes the raw pointer only.                                    *)
LEMMA LentIsGood ==
    ASSUME NEW c, GoodCell(c)
    PROVE  LET d == [c EXCEPT !.raw = Lent, !.given = "lent"] IN
           GoodCell(d) /\ d.at = c.at
<1> DEFINE d == [c EXCEPT !.raw = Lent, !.given = "lent"]
<1>1. c \in Cells /\ Content(c)
  BY DEF GoodCell
<1>2. /\ d \in Cells /\ d.raw = Lent /\ d.given = "lent"
      /\ d.at = c.at /\ d.val = c.val /\ d.meant = c.meant
  BY <1>1 DEF Cells
<1> HIDE DEF d
<1>3. Content(d)
  BY <1>1, <1>2 DEF Content
<1>4. GoodCell(d) /\ d.at = c.at
  BY <1>2, <1>3 DEF GoodCell
<1> QED
  BY <1>4 DEF d

(* What is given to own, kept at a place.                                  *)
LEMMA GivenIsGood ==
    ASSUME NEW c \in Cells, NEW v \in Lists, NEW place \in Places
    PROVE  GoodCell(Given(Keep(c, v, place), v)) /\ Given(Keep(c, v, place), v).at = place
<1> DEFINE d == Given(Keep(c, v, place), v)
<1>1. /\ d.raw = place /\ d.at = place /\ d.val = v /\ d.given = "owned" /\ d.meant = v
  BY DEF Given, Keep, Cells
<1>2. v \in Seq(Items) /\ v \in Seq(Items \cup {Ignore})
  <2>1. CASE v = <<>>
    BY <2>1
  <2>2. CASE \E e \in Items : v = <<e>>
    BY <2>2
  <2> QED
    BY <2>1, <2>2 DEF Lists
<1>3. v \in UNION {[D -> Items] : D \in SUBSET Nat}
  <2>1. v \in [1 .. Len(v) -> Items] /\ 1 .. Len(v) \in SUBSET Nat
    BY <1>2
  <2> QED
    BY <2>1
<1>4. d \in Cells
  BY <1>2, <1>3 DEF Given, Keep, Cells
<1>5. Content(d)
  BY <1>1, <1>2 DEF Content
<1> QED
  BY <1>1, <1>4, <1>5 DEF GoodCell

(* One item more, at n, to a value w that has it there, has the rest as    *)
(* before, and nothing but ignored items in between.                       *)
LEMMA AddedIsGood ==
    ASSUME NEW c, GoodCell(c), NEW place \in Places, NEW n \in Nat \ {0}, NEW e \in Items,
           NEW w \in Seq(Items \cup {Ignore}),
           Len(w) = (IF n <= Len(c.val) THEN Len(c.val) ELSE n),
           \A j \in 1 .. Len(w) : w[j] = IF j = n THEN e
                                         ELSE IF j <= Len(c.val) THEN c.val[j] ELSE Ignore
    PROVE  GoodCell(Added(Keep(c, w, place), n, e)) /\ Added(Keep(c, w, place), n, e).at = place
<1> DEFINE d == Added(Keep(c, w, place), n, e)
<1>0. c \in Cells
  BY DEF GoodCell
<1>1. /\ d.raw = place /\ d.at = place /\ d.val = w
      /\ d.given = "owned"
      /\ d.meant = [j \in DOMAIN c.meant \cup {n} |-> IF j = n THEN e ELSE c.meant[j]]
  BY <1>0 DEF Added, Keep, Cells
<1>2. d.meant \in UNION {[D -> Items] : D \in SUBSET Nat}
  <2>1. PICK D \in SUBSET Nat : c.meant \in [D -> Items]
    BY <1>0 DEF Cells
  <2>2. d.meant \in [D \cup {n} -> Items] /\ D \cup {n} \in SUBSET Nat
    BY <2>1, <1>1
  <2> QED
    BY <2>2
<1>3. d \in Cells
  BY <1>0, <1>1, <1>2 DEF Added, Keep, Cells
<1>4. Content(d)
  <2>1. Content(c)
    BY DEF GoodCell
  <2>2. c.val \in Seq(Items \cup {Ignore}) /\ DOMAIN c.val = 1 .. Len(c.val) /\ DOMAIN w = 1 .. Len(w)
    BY <1>0 DEF Cells
  <2>3. DOMAIN d.meant = DOMAIN c.meant \cup {n}
    BY <1>1
  <2>4. n \in 1 .. Len(w) /\ 1 .. Len(c.val) \subseteq 1 .. Len(w)
    BY <2>2
  <2>5. DOMAIN d.meant \subseteq DOMAIN d.val
    BY <1>1, <2>1, <2>2, <2>3, <2>4 DEF Content
  <2>6. ASSUME NEW j \in 1 .. Len(w)
        PROVE  w[j] = IF j \in DOMAIN d.meant THEN d.meant[j] ELSE Ignore
    <3>1. CASE j = n
      BY <3>1, <1>1, <2>3
    <3>2. CASE j # n /\ j \in 1 .. Len(c.val)
      BY <3>2, <1>1, <2>1, <2>2, <2>3 DEF Content
    <3>3. CASE j # n /\ j \notin 1 .. Len(c.val)
      BY <3>3, <2>1, <2>2, <2>3 DEF Content
    <3> QED
      BY <3>1, <3>2, <3>3
  <2>7. Len(w) \in DOMAIN d.meant
    <3>1. CASE n <= Len(c.val)
      <4>1. c.val # <<>>
        BY <3>1, <2>2
      <4> QED
        BY <3>1, <4>1, <2>1, <2>3 DEF Content
    <3>2. CASE ~(n <= Len(c.val))
      BY <3>2, <2>3
    <3> QED
      BY <3>1, <3>2
  <2> QED
    BY <1>1, <2>2, <2>5, <2>6, <2>7 DEF Content
<1> QED
  BY <1>1, <1>3, <1>4 DEF GoodCell
-----------------------------------------------------------------------------
(* Both constructors: the cells of an option not made are as new.          *)
LEMMA ConstructKeeps ==
    ASSUME PInv, NEW o \in Options,
           ConstructLent(o) \/ \E name \in Items : ConstructOwned(o, name)
    PROVE  PInv'
<1>1. cell[o] \in [Fields -> Cells] /\ {"file", "args"} \subseteq Fields /\ <<>> \in Lists
  BY DEF PInv, Fields, Strings, Tables, Lists
<1>2. CASE ConstructLent(o)
  <2>1. PICK p \in Room(o, "args") :
            cell' = [cell EXCEPT ![o]["file"] = [@ EXCEPT !.raw = Lent, !.given = "lent"],
                                 ![o]["args"] = Given(Keep(@, <<>>, p), <<>>)]
    BY <1>2 DEF ConstructLent
  <2> DEFINE c == [cell[o]["file"] EXCEPT !.raw = Lent, !.given = "lent"]
             d == Given(Keep(cell[o]["args"], <<>>, p), <<>>)
             r == [cell[o] EXCEPT !["file"] = c, !["args"] = d]
  <2>2. GoodCell(c) /\ c.at = cell[o]["file"].at
    <3>1. GoodCell(cell[o]["file"])
      BY <1>1 DEF PInv
    <3> QED
      BY <3>1, LentIsGood
  <2>3. GoodCell(d) /\ d.at = p
    BY <1>1, GivenIsGood, RoomIsOwn
  <2>4. cell' = [cell EXCEPT ![o] = r]
    BY <2>1, <1>1 DEF PInv
  <2>5. r \in [Fields -> Cells] /\ \A f \in Fields :
            r[f] = IF f = "file" THEN c ELSE IF f = "args" THEN d ELSE cell[o][f]
    BY <1>1, <2>2, <2>3 DEF GoodCell
  <2>6. \A f \in Fields : /\ GoodCell(r[f])
                          /\ r[f].at \in Room(o, f) \cup {cell[o][f].at, In(o), Null}
    BY <2>2, <2>3, <2>5 DEF PInv
  <2> HIDE DEF r
  <2> QED
    BY <2>4, <2>5, <2>6, OneChanges
<1>3. CASE \E name \in Items : ConstructOwned(o, name)
  <2>1. PICK name \in Items, p \in Room(o, "args"), q \in Room(o, "file") :
            cell' = [cell EXCEPT ![o]["file"] = Given(Keep(@, <<name>>, q), <<name>>),
                                 ![o]["args"] = Given(Keep(@, <<>>, p), <<>>)]
    BY <1>3 DEF ConstructOwned
  <2> DEFINE c == Given(Keep(cell[o]["file"], <<name>>, q), <<name>>)
             d == Given(Keep(cell[o]["args"], <<>>, p), <<>>)
             r == [cell[o] EXCEPT !["file"] = c, !["args"] = d]
  <2>2. GoodCell(c) /\ c.at = q
    <3>1. <<name>> \in Lists /\ q \in Places
      BY <1>1, RoomIsOwn DEF Lists
    <3> QED
      BY <1>1, <3>1, GivenIsGood
  <2>3. GoodCell(d) /\ d.at = p
    BY <1>1, GivenIsGood, RoomIsOwn
  <2>4. cell' = [cell EXCEPT ![o] = r]
    BY <2>1, <1>1 DEF PInv
  <2>5. r \in [Fields -> Cells] /\ \A f \in Fields :
            r[f] = IF f = "file" THEN c ELSE IF f = "args" THEN d ELSE cell[o][f]
    BY <1>1, <2>2, <2>3 DEF GoodCell
  <2>6. \A f \in Fields : /\ GoodCell(r[f])
                          /\ r[f].at \in Room(o, f) \cup {cell[o][f].at, In(o), Null}
    BY <2>2, <2>3, <2>5 DEF PInv
  <2> HIDE DEF r
  <2> QED
    BY <2>4, <2>5, <2>6, OneChanges
<1> QED
  BY <1>2, <1>3

(* The setters of pointers and of values.                                  *)
LEMMA SetKeeps ==
    ASSUME PInv, NEW o \in Options, NEW f \in Fields,
           SetLent(o, f) \/ \E v \in Lists : SetOwned(o, f, v)
    PROVE  PInv'
<1>1. cell[o][f] \in Cells /\ GoodCell(cell[o][f])
  BY DEF PInv
<1>2. CASE SetLent(o, f)
  <2> DEFINE c == [cell[o][f] EXCEPT !.raw = Lent, !.given = "lent"]
  <2>1. GoodCell(c) /\ c.at = cell[o][f].at
    BY <1>1, LentIsGood
  <2>2. cell' = [cell EXCEPT ![o][f] = c]
    BY <1>2 DEF SetLent
  <2> QED
    BY <2>1, <2>2, OneFieldChanges
<1>3. CASE \E v \in Lists : SetOwned(o, f, v)
  <2>1. PICK v \in Lists, p \in Room(o, f) : cell' = [cell EXCEPT ![o][f] = Given(Keep(@, v, p), v)]
    BY <1>3 DEF SetOwned
  <2> DEFINE c == Given(Keep(cell[o][f], v, p), v)
  <2>2. GoodCell(c) /\ c.at = p
    BY <1>1, GivenIsGood, RoomIsOwn
  <2>3. cell' = [cell EXCEPT ![o][f] = c]
    BY <2>1
  <2> QED
    BY <2>2, <2>3, OneFieldChanges
<1> QED
  BY <1>2, <1>3

(* env(key, value)                                                         *)
LEMMA AddEnvKeeps ==
    ASSUME PInv, NEW o \in Options, NEW e \in Items, AddEnv(o, e)
    PROVE  PInv'
<1> DEFINE c == cell[o]["env"]
           n == Len(c.val) + 1
           w == Append(c.val, e)
<1>1. "env" \in Fields /\ GoodCell(c) /\ c.val \in Seq(Items \cup {Ignore})
  BY DEF PInv, Cells, Fields, Tables
<1>2. PICK p \in Room(o, "env") : cell' = [cell EXCEPT ![o]["env"] = Added(Keep(c, w, p), n, e)]
  BY DEF AddEnv
<1>3. /\ n \in Nat \ {0} /\ w \in Seq(Items \cup {Ignore})
      /\ Len(w) = (IF n <= Len(c.val) THEN Len(c.val) ELSE n)
      /\ \A j \in 1 .. Len(w) : w[j] = IF j = n THEN e
                                        ELSE IF j <= Len(c.val) THEN c.val[j] ELSE Ignore
  <2> HIDE DEF c
  <2>1. Len(c.val) \in Nat /\ Len(w) = Len(c.val) + 1 /\ w \in Seq(Items \cup {Ignore})
    BY <1>1
  <2>2. \A j \in 1 .. Len(c.val) + 1 : w[j] = IF j <= Len(c.val) THEN c.val[j] ELSE e
    BY <1>1
  <2> QED
    BY <2>1, <2>2
<1>4. p \in Places
  BY <1>1, RoomIsOwn
<1>5. GoodCell(Added(Keep(c, w, p), n, e)) /\ Added(Keep(c, w, p), n, e).at = p
  <2> HIDE DEF c, w, n
  <2> QED
    BY <1>1, <1>3, <1>4, AddedIsGood
<1> QED
  BY <1>1, <1>2, <1>5, OneFieldChanges

(* stdio(i, ...)                                                           *)
LEMMA SetSlotKeeps ==
    ASSUME PInv, NEW o \in Options, NEW i \in Nat, NEW e \in Items, SetSlot(o, i, e)
    PROVE  PInv'
<1> DEFINE c == cell[o]["stdio"]
           n == i + 1
           g == Grown(c.val, n)
           w == [g EXCEPT ![n] = e]
<1>1. "stdio" \in Fields /\ GoodCell(c) /\ c.val \in Seq(Items \cup {Ignore})
  BY DEF PInv, Cells, Fields
<1>2. PICK p \in Room(o, "stdio") : cell' = [cell EXCEPT ![o]["stdio"] = Added(Keep(c, w, p), n, e)]
  BY DEF SetSlot
<1> DEFINE m == IF n <= Len(c.val) THEN Len(c.val) ELSE n
<1>3. /\ m \in Nat /\ n \in 1 .. m /\ g \in [1 .. m -> Items \cup {Ignore}]
      /\ \A j \in 1 .. m : g[j] = IF j <= Len(c.val) THEN c.val[j] ELSE Ignore
  <2>1. CASE n <= Len(c.val)
    BY <1>1, <2>1 DEF Grown
  <2>2. CASE ~(n <= Len(c.val))
    BY <1>1, <2>2 DEF Grown
  <2> QED
    BY <2>1, <2>2
<1>4. w \in [1 .. m -> Items \cup {Ignore}] /\ \A j \in 1 .. m : w[j] = IF j = n THEN e ELSE g[j]
  BY <1>3
<1>5. /\ n \in Nat \ {0} /\ w \in Seq(Items \cup {Ignore}) /\ Len(w) = m
      /\ \A j \in 1 .. Len(w) : w[j] = IF j = n THEN e
                                        ELSE IF j <= Len(c.val) THEN c.val[j] ELSE Ignore
  <2> HIDE DEF w, g, m
  <2> QED
    BY <1>3, <1>4
<1>6. p \in Places
  BY <1>1, RoomIsOwn
<1>7. GoodCell(Added(Keep(c, w, p), n, e)) /\ Added(Keep(c, w, p), n, e).at = p
  <2>1. Len(w) = (IF n <= Len(c.val) THEN Len(c.val) ELSE n)
    BY <1>5
  <2> HIDE DEF c, w, n, m, g
  <2> QED
    BY <1>1, <1>5, <1>6, <2>1, AddedIsGood
<1> QED
  BY <1>1, <1>2, <1>7, OneFieldChanges

LEMMA DestroyKeeps ==
    ASSUME PInv, NEW o \in Options, Destroy(o)
    PROVE  PInv'
<1> DEFINE r == [f \in Fields |-> Unmade(o, f)]
<1>1. \A f \in Fields : GoodCell(r[f]) /\ r[f].at \in {In(o), Null}
  BY UnmadeIsGood
<1>2. r \in [Fields -> Cells]
  BY <1>1 DEF GoodCell
<1>3. cell' = [cell EXCEPT ![o] = r]
  BY DEF Destroy
<1> QED
  BY <1>1, <1>2, <1>3, OneChanges
(* A move: the old option keeps nothing, and the new one what the old kept,*)
(* in a place nobody else has.                                             *)
LEMMA MoveKeeps ==
    ASSUME PInv, NEW o \in Options, NEW p \in Options, Move(o, p)
    PROVE  PInv'
<1>1. PICK new \in [Tables -> Blocks] :
          /\ \A f \in Tables : new[f] \in Free(f)
          /\ cell' = [cell EXCEPT
                ![o] = [f \in Fields |-> Left(o, f)],
                ![p] = [f \in Fields |-> Landed(cell[o][f], Landing(o, p, f, new))]]
  BY DEF Move
<1>2. o # p
  BY DEF Move
<1>3. \A f \in Fields : GoodCell(Left(o, f)) /\ Left(o, f).at \in {In(o), Null}
  <2> SUFFICES ASSUME NEW f \in Fields
               PROVE  GoodCell(Left(o, f)) /\ Left(o, f).at \in {In(o), Null}
    OBVIOUS
  <2>1. cell[o][f] \in Cells /\ Nothing(o, f) \in {In(o), Null} /\ Nothing(o, f) \in Places
    BY DEF PInv, Nothing, Places
  <2>2. <<>> \in UNION {[D -> Items] : D \in SUBSET Nat}
    <3>1. <<>> \in [{} -> Items]
      OBVIOUS
    <3> QED
      BY <3>1
  <2>3. /\ Left(o, f).val = <<>> /\ Left(o, f).meant = <<>> /\ Left(o, f).given = "gone"
        /\ Left(o, f).at = Nothing(o, f) /\ Left(o, f) \in Cells
    <3> DEFINE c == cell[o][f]
               n == Nothing(o, f)
    <3>1. Left(o, f) = [c EXCEPT !.at = n, !.val = <<>>, !.given = "gone", !.meant = <<>>]
      BY DEF Left
    <3> HIDE DEF c, n
    <3>2. c \in Cells /\ n \in Places
      BY <2>1 DEF c, n
    <3>3. <<>> \in Seq(Items \cup {Ignore})
      OBVIOUS
    <3> QED
      BY <3>1, <3>2, <3>3, <2>2 DEF Cells, n
  <2>4. Content(Left(o, f))
    BY <2>3, NoContent
  <2> QED
    BY <2>1, <2>3, <2>4 DEF GoodCell
<1>4. ASSUME NEW f \in Fields
      PROVE  LET place == Landing(o, p, f, new) IN
             /\ place \in Places /\ Own(p, place)
             /\ \A q \in Options \ {o, p} : cell[q][f].at = place => place = Null
             /\ place # In(o)
  <2> DEFINE at == cell[o][f].at
             place == Landing(o, p, f, new)
  <2>1. at \in Places /\ Own(o, at)
    BY DEF PInv, Cells
  <2>2. CASE at = In(o)
    BY <2>2, <1>2, PlacesDiffer DEF Landing, Own, Places, PInv
  <2>3. CASE at = Null /\ f \in Tables
    <3>1. place = Heap(new[f]) /\ new[f] \in Free(f) /\ new[f] \in Blocks
      BY <2>3, <1>1, PlacesDiffer DEF Landing
    <3> QED
      BY <3>1, PlacesDiffer DEF Own, Places, Free
  <2>4. CASE at # In(o) /\ ~(at = Null /\ f \in Tables)
    <3>1. place = at
      BY <2>4 DEF Landing
    <3> QED
      BY <3>1, <2>1, <2>4 DEF Own, PInv
  <2> QED
    BY <2>2, <2>3, <2>4
<1>5. \A f \in Fields : LET c == Landed(cell[o][f], Landing(o, p, f, new)) IN
          GoodCell(c) /\ c.at = Landing(o, p, f, new)
  <2> SUFFICES ASSUME NEW f \in Fields
               PROVE  LET c == Landed(cell[o][f], Landing(o, p, f, new)) IN
                      GoodCell(c) /\ c.at = Landing(o, p, f, new)
    OBVIOUS
  <2> DEFINE place == Landing(o, p, f, new)
             c == Landed(cell[o][f], place)
  <2>1. cell[o][f] \in Cells /\ GoodCell(cell[o][f]) /\ place \in Places
    BY <1>4 DEF PInv
  <2> HIDE DEF place
  <2>2. /\ c.raw = place /\ c.at = place /\ c.val = cell[o][f].val /\ c.meant = cell[o][f].meant
        /\ c.given = "owned"
        /\ c \in Cells
    BY <2>1 DEF Landed, Cells
  <2>3. Content(c)
    BY <2>1, <2>2 DEF GoodCell, Content
  <2>4. GoodCell(c)
    BY <2>2, <2>3 DEF GoodCell
  <2> QED
    BY <2>2, <2>4 DEF place
<1> DEFINE l == [f \in Fields |-> Left(o, f)]
           d == [f \in Fields |-> Landed(cell[o][f], Landing(o, p, f, new))]
<1>6. l \in [Fields -> Cells] /\ d \in [Fields -> Cells]
  BY <1>3, <1>5 DEF GoodCell
<1>7. /\ cell' \in [Options -> [Fields -> Cells]] /\ cell'[o] = l /\ cell'[p] = d
      /\ \A q \in Options \ {o, p} : cell'[q] = cell[q]
  <2> HIDE DEF l, d
  <2>1. cell' = [cell EXCEPT ![o] = l, ![p] = d]
    BY <1>1 DEF l, d
  <2> QED
    BY <2>1, <1>2, <1>6 DEF PInv
<1>8. \A f \in Fields :
          /\ l[f].at \in {In(o), Null} /\ Own(o, l[f].at) /\ GoodCell(l[f])
          /\ Own(p, d[f].at) /\ GoodCell(d[f]) /\ d[f].at # In(o)
          /\ \A q \in Options \ {o, p} : cell[q][f].at = d[f].at => d[f].at = Null
  BY <1>3, <1>4, <1>5 DEF Own
<1> HIDE DEF l, d
<1>9. \A q \in Options, f \in Fields : GoodCell(cell'[q][f]) /\ Own(q, cell'[q][f].at)
  BY <1>7, <1>8 DEF PInv
<1>10. \A f \in Fields, q \in Options \ {o} : cell'[q][f].at = l[f].at => l[f].at = Null
  <2> SUFFICES ASSUME NEW f \in Fields, NEW q \in Options \ {o}, cell'[q][f].at = l[f].at
               PROVE  l[f].at = Null
    OBVIOUS
  <2>1. Own(q, cell'[q][f].at)
    BY <1>9
  <2> QED
    BY <2>1, <1>8, PlacesDiffer DEF Own
<1>11. \A q, z \in Options, f \in Fields :
          q # z /\ cell'[q][f].at = cell'[z][f].at => cell'[q][f].at = Null
  <2> SUFFICES ASSUME NEW q \in Options, NEW z \in Options, NEW f \in Fields,
                      q # z, cell'[q][f].at = cell'[z][f].at
               PROVE  cell'[q][f].at = Null
    OBVIOUS
  <2>1. CASE q = o \/ z = o
    BY <2>1, <1>7, <1>10
  <2>2. CASE (q = p /\ z \in Options \ {o, p}) \/ (z = p /\ q \in Options \ {o, p})
    BY <2>2, <1>7, <1>8
  <2>3. CASE q \in Options \ {o, p} /\ z \in Options \ {o, p}
    BY <2>3, <1>7 DEF PInv
  <2>4. \/ q = o \/ z = o
        \/ (q = p /\ z \in Options \ {o, p}) \/ (z = p /\ q \in Options \ {o, p})
        \/ q \in Options \ {o, p} /\ z \in Options \ {o, p}
    OBVIOUS
  <2> QED
    BY <2>1, <2>2, <2>3, <2>4
<1> QED
  BY <1>7, <1>9, <1>11 DEF PInv, GoodCell, Content, Own

-----------------------------------------------------------------------------
LEMMA InitPInv == ASSUME Init PROVE PInv
<1>1. \A o \in Options, f \in Fields : GoodCell(cell[o][f]) /\ cell[o][f].at \in {In(o), Null}
  BY UnmadeIsGood DEF Init
<1>2. cell \in [Options -> [Fields -> Cells]]
  <2>1. \A o \in Options, f \in Fields : Unmade(o, f) \in Cells
    BY UnmadeIsGood DEF GoodCell
  <2> QED
    BY <2>1 DEF Init
<1>3. \A o, p \in Options, f \in Fields :
          o # p /\ cell[o][f].at = cell[p][f].at => cell[o][f].at = Null
  BY <1>1, PlacesDiffer
<1> QED
  BY <1>1, <1>2, <1>3 DEF PInv, Own

LEMMA StepPInv ==
    ASSUME PInv, [Next]_vars
    PROVE  PInv'
<1>1. CASE UNCHANGED vars
  BY <1>1 DEF vars, PInv, GoodCell, Content, Own
<1>2. CASE \E o \in Options : ConstructLent(o) \/ Destroy(o)
  BY <1>2, ConstructKeeps, DestroyKeeps
<1>3. CASE \E o \in Options, e \in Items : ConstructOwned(o, e) \/ AddEnv(o, e)
  BY <1>3, ConstructKeeps, AddEnvKeeps
<1>4. CASE \E o \in Options, f \in Fields : SetLent(o, f)
  BY <1>4, SetKeeps
<1>5. CASE \E o \in Options, f \in Fields, v \in Lists : SetOwned(o, f, v)
  BY <1>5, SetKeeps
<1>6. CASE \E o \in Options, e \in Items, i \in 0 .. MaxItems - 1 : SetSlot(o, i, e)
  <2>1. 0 .. MaxItems - 1 \subseteq Nat
    BY BoundsAssumption
  <2> QED
    BY <1>6, <2>1, SetSlotKeeps
<1>7. CASE \E o, p \in Options : Move(o, p)
  BY <1>7, MoveKeeps
<1> QED
  BY <1>1, <1>2, <1>3, <1>4, <1>5, <1>6, <1>7 DEF Next

(* The places and their contents are right in every reachable state.       *)
THEOREM CellsInvariant == Spec => []PInv
<1>1. Init => PInv
  BY InitPInv
<1>2. PInv /\ [Next]_vars => PInv'
  BY StepPInv
<1> QED
  BY <1>1, <1>2, PTL DEF Spec

LEMMA MadeInvariant == Spec => [](made \subseteq Options)
<1>1. Init => made \subseteq Options
  BY DEF Init
<1>2. made \subseteq Options /\ [Next]_vars => (made \subseteq Options)'
  BY DEF Next, vars, ConstructLent, ConstructOwned, SetLent, SetOwned, AddEnv, SetSlot, Move, Destroy
<1> QED
  BY <1>1, <1>2, PTL DEF Spec

(* process.h: no raw pointer of an option leads to what another option has *)
(* or to what it had before, except those of the fields it was moved from. *)
THEOREM PointersHoldAlways == Spec => []PointersHold
<1>1. PInv /\ made \subseteq Options => PointersHold
  <2> SUFFICES ASSUME PInv, NEW o \in made, o \in Options,
                      NEW f \in Fields, cell[o][f].given # "gone"
               PROVE  LET c == cell[o][f] IN
                      /\ c.raw = CASE c.given = "never" -> Null
                                   [] c.given = "lent" -> Lent
                                   [] OTHER -> c.at
                      /\ \A p \in Options \ {o} :
                            c.raw \in {Null, Lent} \/ c.raw # cell[p][f].at
    BY DEF PointersHold
  <2> DEFINE c == cell[o][f]
  <2>1. /\ c.given \in {"never", "lent", "owned"} /\ GoodCell(c)
        /\ \A p \in Options \ {o} : c.at = cell[p][f].at => c.at = Null
    BY DEF PInv, Cells
  <2> HIDE DEF c
  <2>2. c.raw = CASE c.given = "never" -> Null
                  [] c.given = "lent" -> Lent
                  [] OTHER -> c.at
    BY <2>1 DEF GoodCell
  <2>3. c.raw \in {Null, Lent} \/ c.raw = c.at
    BY <2>1 DEF GoodCell
  <2> QED
    BY <2>1, <2>2, <2>3 DEF c
<1> QED
  BY <1>1, CellsInvariant, MadeInvariant, PTL

(* process.h: by whatever setters, over whatever loans and moves, a field  *)
(* that is neither unset nor lent nor moved from reads as all that was     *)
(* handed over for the option to own, and nothing else.                    *)
THEOREM ReadsWhatWasGivenAlways == Spec => []ReadsWhatWasGiven
<1>1. PInv /\ made \subseteq Options => ReadsWhatWasGiven
  BY DEF PInv, GoodCell, Content, ReadsWhatWasGiven
<1> QED
  BY <1>1, CellsInvariant, MadeInvariant, PTL

=============================================================================
