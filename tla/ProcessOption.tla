--------------------------- MODULE ProcessOption ---------------------------
(***************************************************************************)
(* uv::process_option_t (process.h): a uv_process_options_t, the raw       *)
(* structure uv_spawn reads, together with m_cxx, the strings and vectors  *)
(* that the raw pointers of a field lead to when the option owns it.       *)
(*                                                                         *)
(* A field is a cell: the raw pointer, and where the member of m_cxx keeps *)
(* its value.  args and env reach their strings by way of c_args and c_env;*)
(* a vector and the table made from it count as one place here, which may  *)
(* change whenever the vector does.  uid, gid and flags are plain numbers, *)
(* and stdio's count goes with its pointer.                                *)
(***************************************************************************)
EXTENDS Sequences, Naturals

CONSTANTS
    Options,    \* process_option_t variables
    Blocks,     \* heap blocks, of each field
    Items,      \* a string of args, an entry of env, a stdio container, a path
    Ignore,     \* the container { UV_IGNORE, fd -1 }
    MaxItems,   \* bound on the length of a list
    MaxCalls    \* bound on the calls the program makes

ASSUME BoundsAssumption == MaxItems \in Nat /\ MaxCalls \in Nat

VARIABLES
    cell,    \* the fields of each option
    made,    \* options that are constructed
    calls    \* calls made so far

vars == <<cell, made, calls>>

Strings == {"file", "cwd"}
Tables == {"args", "env"}
Fields == Strings \cup Tables \cup {"stdio"}

Null == [to |-> "null"]
Lent == [to |-> "user"]                   \* memory of the program
In(o) == [to |-> "inside", of |-> o]      \* a short string, within the option
Heap(b) == [to |-> "heap", of |-> b]

(* The empty member of m_cxx of field f of o.                              *)
Nothing(o, f) == IF f \in Strings THEN In(o) ELSE Null

Unmade(o, f) ==
    [raw |-> Null, at |-> Nothing(o, f), val |-> <<>>,
     given |-> "never",    \* history: never, lent, owned, gone
     meant |-> <<>>]       \* history: the items handed over for it to own

Init ==
    /\ cell = [o \in Options |-> [f \in Fields |-> Unmade(o, f)]]
    /\ made = {}
    /\ calls = 0

Free(f) == {b \in Blocks : \A o \in Options : cell[o][f].at # Heap(b)}

(* Where m_cxx may keep what it is given: a string inside itself if it is  *)
(* short; what is on the heap stays where it is if its capacity suffices.  *)
Room(o, f) ==
    {Heap(b) : b \in Free(f)}
        \cup (IF f \in Strings THEN {In(o)} ELSE {})
        \cup (IF cell[o][f].at = Null THEN {} ELSE {cell[o][f].at})

Call == calls < MaxCalls /\ calls' = calls + 1

-----------------------------------------------------------------------------
(* A member is set to v at its place, and dumped: raw points to it.        *)
Keep(c, v, place) == [c EXCEPT !.raw = place, !.at = place, !.val = v]

Given(c, v) == [c EXCEPT !.given = "owned", !.meant = v]

(* One more item, at i, of what the program hands over.  Whoever adds to   *)
(* what was lent gets what was owned before the loan, and that.            *)
Added(c, i, e) ==
    [c EXCEPT !.given = "owned",
              !.meant = [j \in DOMAIN c.meant \cup {i} |-> IF j = i THEN e ELSE c.meant[j]]]

(* The constructor from char pointer lends file; args is an empty table.   *)
ConstructLent(o) ==
    /\ Call /\ o \notin made
    /\ made' = made \cup {o}
    /\ \E p \in Room(o, "args") :
          cell' = [cell EXCEPT ![o]["file"] = [@ EXCEPT !.raw = Lent, !.given = "lent"],
                               ![o]["args"] = Given(Keep(@, <<>>, p), <<>>)]

(* process_option_t(std::string)                                           *)
ConstructOwned(o, name) ==
    /\ Call /\ o \notin made
    /\ made' = made \cup {o}
    /\ \E p \in Room(o, "args"), q \in Room(o, "file") :
          cell' = [cell EXCEPT ![o]["file"] = Given(Keep(@, <<name>>, q), <<name>>),
                               ![o]["args"] = Given(Keep(@, <<>>, p), <<>>)]

(* args, env, cwd and stdio of a pointer                                   *)
SetLent(o, f) ==
    /\ Call /\ o \in made /\ f # "file"
    /\ cell' = [cell EXCEPT ![o][f] = [@ EXCEPT !.raw = Lent, !.given = "lent"]]
    /\ UNCHANGED made

(* args, env, stdio of a vector, cwd of a string                           *)
SetOwned(o, f, v) ==
    /\ Call /\ o \in made /\ f # "file"
    /\ \E p \in Room(o, f) : cell' = [cell EXCEPT ![o][f] = Given(Keep(@, v, p), v)]
    /\ UNCHANGED made

(* env(key, value)                                                         *)
AddEnv(o, e) ==
    LET c == cell[o]["env"]  n == Len(c.val) + 1 IN
    /\ Call /\ o \in made /\ n <= MaxItems
    /\ \E p \in Room(o, "env") :
          cell' = [cell EXCEPT ![o]["env"] = Added(Keep(c, Append(c.val, e), p), n, e)]
    /\ UNCHANGED made

(* Mistake: the vector is cut.                                             *)
Resized(v, n) == [j \in 1 .. n |-> IF j <= Len(v) THEN v[j] ELSE Ignore]

(* m_cxx.stdio.resize, when it is too small                                *)
Grown(v, n) ==
    IF n <= Len(v) THEN v
    ELSE [j \in 1 .. n |-> IF j <= Len(v) THEN v[j] ELSE Ignore]

(* stdio(i, ...)                                                           *)
SetSlot(o, i, e) ==
    LET c == cell[o]["stdio"]  n == i + 1 IN
    /\ Call /\ o \in made
    /\ \E p \in Room(o, "stdio") :
          cell' = [cell EXCEPT ![o]["stdio"] =
                      Added(Keep(c, [Grown(c.val, n) EXCEPT ![n] = e], p), n, e)]
    /\ UNCHANGED made

(* A short string is moved into its new option, all else keeps its place;  *)
(* an env that was never set gets a table of its own.                      *)
Landing(o, p, f, new) ==
    LET at == cell[o][f].at IN
    IF at = In(o) THEN In(p)
    ELSE IF at = Null /\ f \in Tables THEN Heap(new[f])
    ELSE at

(* Mistake: the raw pointers are only copied.                              *)
LandedUndumped(c, place) == [c EXCEPT !.at = place, !.given = "owned"]

(* dump: every pointer leads to m_cxx, whatever it did before.  What was   *)
(* lent is forgotten for what had been handed over before the loan, and a  *)
(* field never set is set: to nothing, an empty environment among them.    *)
Landed(c, place) == [c EXCEPT !.raw = place, !.at = place, !.given = "owned"]

(* The moved-from option keeps its raw pointers.                           *)
Left(o, f) ==
    [cell[o][f] EXCEPT !.at = Nothing(o, f), !.val = <<>>, !.given = "gone", !.meant = <<>>]

(* The move assignment, and the move constructor, which calls it.  Nobody  *)
(* moves an option onto itself.                                            *)
Move(o, p) ==
    /\ Call /\ o \in made /\ o # p
    /\ made' = made \cup {p}
    /\ \E new \in [Tables -> Blocks] :
          /\ \A f \in Tables : new[f] \in Free(f)
          /\ cell' = [cell EXCEPT
                ![o] = [f \in Fields |-> Left(o, f)],
                ![p] = [f \in Fields |-> Landed(cell[o][f], Landing(o, p, f, new))]]

Destroy(o) ==
    /\ Call /\ o \in made
    /\ made' = made \ {o}
    /\ cell' = [cell EXCEPT ![o] = [f \in Fields |-> Unmade(o, f)]]

Lists == {<<>>} \cup {<<e>> : e \in Items}

Next ==
    \/ \E o \in Options : ConstructLent(o) \/ Destroy(o)
    \/ \E o \in Options, e \in Items : ConstructOwned(o, e) \/ AddEnv(o, e)
    \/ \E o \in Options, f \in Fields : SetLent(o, f)
    \/ \E o \in Options, f \in Fields, v \in Lists : SetOwned(o, f, v)
    \/ \E o \in Options, e \in Items, i \in 0 .. MaxItems - 1 : SetSlot(o, i, e)
    \/ \E o, p \in Options : Move(o, p)

Spec == Init /\ [][Next]_vars

-----------------------------------------------------------------------------
(* What uv_spawn reads is there: the raw pointers of an option lead to     *)
(* memory the program lent for that very field or to what this option has, *)
(* where it is by now; no other option has it, so that nothing done to     *)
(* another, its destruction included, reaches it.  Only the fields of an   *)
(* option that was moved from are not to be read, until they are set anew. *)
PointersHold ==
    \A o \in made, f \in Fields :
        LET c == cell[o][f] IN
        c.given # "gone" =>
            /\ c.raw = CASE c.given = "never" -> Null [] c.given = "lent" -> Lent [] OTHER -> c.at
            /\ \A p \in Options \ {o} : c.raw \in {Null, Lent} \/ c.raw # cell[p][f].at

(* What uv_spawn reads of a field, unless it is unset, lent or moved from, *)
(* is what was handed over for the option to own: the last whole value and *)
(* every item added since, at its place, by whatever setters, before or    *)
(* after loans and over whatever moves; slots of stdio in between are      *)
(* ignored.  After a move this is all there is to read: a loan that was to *)
(* take its place is gone, and a field that was unset reads as empty.      *)
ReadsWhatWasGiven ==
    \A o \in made, f \in Fields :
        LET c == cell[o][f] IN
        c.given = "owned" =>
            /\ c.raw = c.at
            /\ DOMAIN c.meant \subseteq DOMAIN c.val
            /\ \A j \in DOMAIN c.val :
                  c.val[j] = IF j \in DOMAIN c.meant THEN c.meant[j] ELSE Ignore
            /\ c.val # <<>> => Len(c.val) \in DOMAIN c.meant

=============================================================================
