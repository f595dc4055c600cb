--------------------------- MODULE CausalHistory ---------------------------
(***************************************************************************)
(* What a history of ledger events means: the causal graph (graph.py) and  *)
(* the effective state of every record (state.py).  All of it is derived,  *)
(* nothing is stored: an operator takes the history h as its argument.     *)
(*                                                                         *)
(* An event is a record with a field ev:                                   *)
(*   "record"    id, type, body       (sayf.record.created)                *)
(*   "relation"  id, type, source, target, case                            *)
(*               case is the feedback case its metadata names, or ""       *)
(*   "bound", "invalidated", "superseded"   relation                       *)
(*               the three activations of a relation                       *)
(*   "raw"       id                   (any unreserved event type)          *)
(*   "malformed" id   (a reserved event type, but its stream, its shape,   *)
(*               its version or its content hash is wrong)                 *)
(* An activation's event id is random; its place in the history names it.  *)
(* Within one ledger an id determines its immutable content, so a binding  *)
(* (id and content hash) is the id.                                        *)
(***************************************************************************)
EXTENDS Records, Naturals, Sequences, SequencesExt, FiniteSetsExt, TLC

Prefix(h, n) == SubSeq(h, 1, n)

Created(h, ev) == {i \in DOMAIN h : h[i].ev = ev}

(***************************************************************************)
(* The place at which a record or relation was created, 0 if it was not.   *)
(***************************************************************************)
PlaceOf(h, ev, id) ==
    IF \E i \in DOMAIN h : h[i].ev = ev /\ h[i].id = id
    THEN CHOOSE i \in DOMAIN h : h[i].ev = ev /\ h[i].id = id
    ELSE 0

RecordAt(h, id)   == PlaceOf(h, "record", id)
RelationAt(h, id) == PlaceOf(h, "relation", id)

HasRecord(h, id)   == RecordAt(h, id) # 0
HasRelation(h, id) == RelationAt(h, id) # 0

Record(h, id)   == h[RecordAt(h, id)]
Relation(h, id) == h[RelationAt(h, id)]

RecordIds(h) == {h[i].id : i \in Created(h, "record")}

IsOfType(h, id, type) == HasRecord(h, id) /\ Record(h, id).type = type

(***************************************************************************)
(* The graph projection accepts a history when its typed events are well   *)
(* formed, ids are unique and every relation connects records that exist   *)
(* before it.                                                              *)
(***************************************************************************)
GraphReplays(h) ==
    /\ Created(h, "malformed") = {}
    /\ \A i \in Created(h, "record") : PayloadContract(h[i].type, h[i].body)
    /\ \A ev \in {"record", "relation"} : \A i, j \in Created(h, ev) :
           h[i].id = h[j].id => i = j
    /\ \A i \in Created(h, "relation") :
           /\ RecordAt(h, h[i].source) \in 1 .. i - 1
           /\ RecordAt(h, h[i].target) \in 1 .. i - 1

-----------------------------------------------------------------------------
(***************************************************************************)
(* Activations (state.py).  Each kind qualifies one type of relation.      *)
(***************************************************************************)
RelationTypeFor == [bound       |-> "depends_on",
                    invalidated |-> "invalidates",
                    superseded  |-> "supersedes"]

Activations(h) == {i \in DOMAIN h : h[i].ev \in DOMAIN RelationTypeFor}

\* The relation that the activation at place i qualifies.
RelOf(h, i) == Relation(h, h[i].relation)

Activated(h, rel) == \E i \in Activations(h) : h[i].relation = rel

(***************************************************************************)
(* Supersession goes forward in one line: same type, to a later record,    *)
(* one successor per record and one predecessor, no branch from a record   *)
(* that is itself superseded.  earlier is the supersessions so far.        *)
(***************************************************************************)
\* Bug for the mutants: a superseded record may start another line.
SupersessionBranches(h, rel, earlier) ==
    /\ Record(h, rel.source).type = Record(h, rel.target).type
    /\ RecordAt(h, rel.source) > RecordAt(h, rel.target)
    /\ \A i \in earlier : RelOf(h, i).source # rel.source
    /\ \A i \in earlier : RelOf(h, i).target # rel.source

SupersessionAllowed(h, rel, earlier) ==
    /\ Record(h, rel.source).type = Record(h, rel.target).type
    /\ RecordAt(h, rel.source) > RecordAt(h, rel.target)
    /\ \A i \in earlier : /\ RelOf(h, i).target # rel.target
                          /\ RelOf(h, i).source # rel.source
                          /\ RelOf(h, i).target # rel.source

(***************************************************************************)
(* What a replay asks of the activation at place i.                        *)
(***************************************************************************)
ActivationReplays(h, i) ==
    LET rel == RelOf(h, i) IN
    /\ RelationAt(h, h[i].relation) \in 1 .. i - 1
    /\ rel.type = RelationTypeFor[h[i].ev]
    /\ \A j \in Activations(h) : j < i => h[j].relation # rel.id
    /\ rel.source # rel.target
    /\ h[i].ev = "superseded" =>
           SupersessionAllowed(h, rel, Created(Prefix(h, i - 1), "superseded"))

StateReplays(h) == /\ GraphReplays(h)
                   /\ \A i \in Activations(h) : ActivationReplays(h, i)

(***************************************************************************)
(* What a caller's snapshot is asked before it activates a relation.       *)
(***************************************************************************)
MayActivate(h, ev, rel) ==
    /\ HasRelation(h, rel)
    /\ Relation(h, rel).type = RelationTypeFor[ev]
    /\ ~Activated(h, rel)
    /\ Relation(h, rel).source # Relation(h, rel).target
    /\ ev = "superseded" =>
           SupersessionAllowed(h, Relation(h, rel), Created(h, "superseded"))

-----------------------------------------------------------------------------
(***************************************************************************)
(* Staleness.  A root is a record that was invalidated or superseded,      *)
(* named by the place of its first invalidation or of its supersession;    *)
(* what reaches it over bound dependencies is stale.                       *)
(***************************************************************************)
\* Bug for the mutants: invalidating the invalidator takes the root back.
IsRootRetractable(h, i) ==
    \/ h[i].ev = "superseded"
    \/ /\ h[i].ev = "invalidated"
       /\ \A j \in Created(h, "invalidated") : RelOf(h, j).target # RelOf(h, i).source

IsRoot(h, i) ==
    \/ h[i].ev = "superseded"
    \/ /\ h[i].ev = "invalidated"
       /\ \A j \in Created(h, "invalidated") :
              j < i => RelOf(h, j).target # RelOf(h, i).target

Roots(h) == {i \in DOMAIN h : IsRoot(h, i)}

(***************************************************************************)
(* Breadth-first search from one root.  A queue hands the records out in   *)
(* the order they were found, and each of them its dependents, oldest      *)
(* binding first: of the bindings that make a record not found yet depend  *)
(* on one that is, the next to be followed is the oldest one to the record *)
(* found first.  path[r] is the sequence of binding places that leads from *)
(* r to the root; found[r] is the number of records found before r.        *)
(***************************************************************************)
Unfollowed(h, s) ==
    {i \in Created(h, "bound") : /\ RelOf(h, i).target \in DOMAIN s.path
                                 /\ RelOf(h, i).source \notin DOMAIN s.path}

NoLater(h, s, i, j) ==
    LET at(k) == s.found[RelOf(h, k).target]
    IN  at(i) < at(j) \/ (at(i) = at(j) /\ i <= j)

With(f, x, y) == [z \in DOMAIN f \cup {x} |-> IF z = x THEN y ELSE f[z]]

\* Bug for the mutants: a path is written down from the root outwards.
VisitOutwards(h, s, i) ==
    LET rel == RelOf(h, i)
    IN  [path  |-> With(s.path, rel.source, s.path[rel.target] \o <<i>>),
         found |-> With(s.found, rel.source, Cardinality(DOMAIN s.path))]

Visit(h, s, i) ==
    LET rel == RelOf(h, i)
    IN  [path  |-> With(s.path, rel.source, <<i>> \o s.path[rel.target]),
         found |-> With(s.found, rel.source, Cardinality(DOMAIN s.path))]

Earliest(h, s) ==
    CHOOSE i \in Unfollowed(h, s) : \A j \in Unfollowed(h, s) : NoLater(h, s, i, j)

Expand(h, s) == IF Unfollowed(h, s) = {} THEN s ELSE Visit(h, s, Earliest(h, s))

RootOnly(root) == [path |-> [r \in {root} |-> <<>>], found |-> [r \in {root} |-> 0]]

SearchFrom(h, root) ==
    LET search[n \in Nat] == IF n = 0 THEN RootOnly(root) ELSE Expand(h, search[n - 1])
    IN  search

\* Bug for the mutants: only one dependent of a root is found.
PathsOneHop(h, root) == Expand(h, RootOnly(root)).path

\* Every binding finds one record at most.
Paths(h, root) == SearchFrom(h, root)[Cardinality(Created(h, "bound"))].path

(***************************************************************************)
(* The effective state of every record: the invalidations of it, its       *)
(* supersession (none or one) and one cause per root it is stale from.     *)
(* An effective_state_hash is a free term: the state itself.               *)
(***************************************************************************)
CausesFrom(h, i) ==
    LET root  == RelOf(h, i).target
        paths == Paths(h, root)
    IN  {[root |-> i, of |-> r, path |-> paths[r]] : r \in DOMAIN paths \ {root}}

States(h) ==
    LET causes    == UNION {CausesFrom(h, i) : i \in Roots(h)}
        by(ev, r) == {i \in Created(h, ev) : RelOf(h, i).target = r}
    IN  [r \in RecordIds(h) |-> [invalidations |-> by("invalidated", r),
                                 superseded    |-> by("superseded", r),
                                 causes        |-> {c \in causes : c.of = r}]]

Usable(state) == \A part \in {"invalidations", "superseded", "causes"} : state[part] = {}

-----------------------------------------------------------------------------
(***************************************************************************)
(* The reference definition of staleness, without a search: the records    *)
(* that reach the root over bound dependencies, the root itself excepted.  *)
(***************************************************************************)
DependsOn(h) == {<<RelOf(h, i).source, RelOf(h, i).target>> : i \in Created(h, "bound")}

\* Everything that leads to r over the pairs of R.
Reaching(R, r) ==
    LET reach[n \in Nat] ==
            IF n = 0 THEN {r}
            ELSE LET s == reach[n - 1] IN s \cup {e[1] : e \in {d \in R : d[2] \in s}}
    IN  reach[Cardinality(R)]

StaleFrom(h, root) == Reaching(DependsOn(h), root) \ {root}

=============================================================================
