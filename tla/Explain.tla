------------------------------ MODULE Explain ------------------------------
(***************************************************************************)
(* The questions a reader asks of a history: neighbours and provenance     *)
(* paths over the relations (graph.py), and why, impact and timeline over  *)
(* the explanation edges that M0.5 derives (feedback.py).  The path        *)
(* queries are breadth-first searches over simple paths with three bounds, *)
(* b.depth, b.results and b.expansions.  Past the first a path is not      *)
(* followed; past one of the others the query raises.                      *)
(*                                                                         *)
(* An answer is [refused |-> TRUE] or [refused |-> FALSE, paths |-> a      *)
(* sequence of paths]; a path is a sequence of steps, a step a record with *)
(* at least the fields from and to.                                        *)
(***************************************************************************)
EXTENDS Feedback

-----------------------------------------------------------------------------
(***************************************************************************)
(* Explanation edges.  An activation says why its record is in the state   *)
(* it is in; a typed record says what it was made from.  at is the place   *)
(* of the event the edge refers to.                                        *)
(***************************************************************************)
Edge(from, to, kind, at) == [from |-> from, to |-> to, kind |-> kind, at |-> at]

\* Bug for the mutants: a binding points at the record that depends.
StateEdgeToDependent(h, i) ==
    LET rel == RelOf(h, i) IN
    CASE h[i].ev = "bound"       -> Edge(rel.target, rel.source, "qualified_dependency", i)
      [] h[i].ev = "invalidated" -> Edge(rel.target, rel.source, "invalidation_cause", i)
      [] h[i].ev = "superseded"  -> Edge(rel.target, rel.source, "supersession_cause", i)

StateEdge(h, i) ==
    LET rel == RelOf(h, i) IN
    CASE h[i].ev = "bound"       -> Edge(rel.source, rel.target, "qualified_dependency", i)
      [] h[i].ev = "invalidated" -> Edge(rel.target, rel.source, "invalidation_cause", i)
      [] h[i].ev = "superseded"  -> Edge(rel.target, rel.source, "supersession_cause", i)

Each(kind, ids) == {<<kind, id>> : id \in ids}

\* Bug for the mutants: a decision only names its request.
BindingsOfRequestOnly(e) ==
    LET b == e.body IN
    CASE e.type = "GateDecision" -> Each("gate_evaluated_input", {b.request})
      [] e.type = "Release"      -> Each("release_subject", {b.subject})
                                        \cup Each("release_gate", {b.decision})
      [] OTHER -> {}

Bindings(e) ==
    LET b == e.body IN
    CASE e.type = "VerificationReceipt" ->
             Each("verification_subject", {b.subject})
                 \cup Each("verification_evidence", b.evidence)
      [] e.type = "GateRequest"         ->
             Each("gate_request_input", {b.subject, b.policy} \cup b.receipts)
      [] e.type = "GateDecision"        -> Each("gate_evaluated_input", DOMAIN b.inputs)
      [] e.type = "Release"             -> Each("release_subject", {b.subject})
                                               \cup Each("release_gate", {b.decision})
      [] e.type = "RuntimeObservation"  -> Each("runtime_release", {b.release})
                                               \cup Each("runtime_evidence", b.evidence)
      [] e.type = "FeedbackCase"        -> Each("feedback_observation", {b.observation})
                                               \cup Each("feedback_target", {b.target})
      [] OTHER                          -> {}

ExplainEdges(h) ==
    {StateEdge(h, i) : i \in Activations(h)}
        \cup UNION {{Edge(h[i].id, b[2], b[1], i) : b \in Bindings(h[i])} :
                       i \in Created(h, "record")}

-----------------------------------------------------------------------------
(***************************************************************************)
(* Both searches: a queue of paths, each extended by the steps behind it,  *)
(* the oldest first, but never by a record it has been to.  adjacent is    *)
(* the steps away from each record; a path that arrives at a record of     *)
(* until ends there, and only those count as results unless until is       *)
(* empty.  The steps behind one path are looked at in one step: nothing    *)
(* happens between them, and past either bound the query is lost.          *)
(***************************************************************************)
\* The code refuses bounds past 32, 1000 (100 for provenance paths) and 100000.
QueryBounds == [depth : Nat, results : Nat \ {0}, expansions : Nat \ {0}]

OldestOf(steps) == CHOOSE step \in steps : \A other \in steps : step.at <= other.at

InOrder(steps) ==
    LET left[n \in Nat] ==
            IF n = 0 THEN steps ELSE left[n - 1] \ {OldestOf(left[n - 1])}
    IN  [n \in 1 .. Cardinality(steps) |-> OldestOf(left[n - 1])]

EndOf(start, path) == IF path = <<>> THEN start ELSE path[Len(path)].to

On(start, path) == {start} \cup {path[n].to : n \in DOMAIN path}

\* The steps behind a path that are looked at, and those of them that go on.
Behind(adjacent, start, path, b) ==
    IF Len(path) >= b.depth THEN {} ELSE adjacent[EndOf(start, path)]

Fresh(adjacent, start, path, b) ==
    {step \in Behind(adjacent, start, path, b) : step.to \notin On(start, path)}

Continued(path, steps) ==
    LET next == InOrder(steps) IN [n \in DOMAIN next |-> Append(path, next[n])]

\* Bug for the mutants: a search that finds too much answers with what it has.
FollowTruncating(adjacent, start, until, b, s) ==
    LET path  == Head(s.queue)
        fresh == Fresh(adjacent, start, path, b)
        found == s.paths \o Continued(path, {e \in fresh : until = {} \/ e.to \in until})
    IN  [refused    |-> s.expansions > b.expansions,
         expansions |-> s.expansions + Cardinality(Behind(adjacent, start, path, b)),
         paths      |-> IF Len(found) > b.results THEN s.paths ELSE found,
         queue      |-> Tail(s.queue) \o Continued(path, {e \in fresh : e.to \notin until})]

Follow(adjacent, start, until, b, s) ==
    LET path     == Head(s.queue)
        fresh    == Fresh(adjacent, start, path, b)
        found    == s.paths \o Continued(path, {e \in fresh : until = {} \/ e.to \in until})
        expanded == s.expansions + Cardinality(Behind(adjacent, start, path, b))
    IN  [refused    |-> expanded > b.expansions \/ Len(found) > b.results,
         expansions |-> expanded,
         paths      |-> found,
         queue      |-> Tail(s.queue) \o Continued(path, {e \in fresh : e.to \notin until})]

Advance(adjacent, start, until, b, s) ==
    IF s.refused \/ s.queue = <<>> THEN s ELSE Follow(adjacent, start, until, b, s)

AtStart == [refused |-> FALSE, expansions |-> 0, paths |-> <<>>, queue |-> << <<>> >>]

\* Every path in the queue but the first got there by an expansion.
Search(adjacent, start, until, b) ==
    LET walk[n \in Nat] ==
            IF n = 0 THEN AtStart ELSE Advance(adjacent, start, until, b, walk[n - 1])
        end == walk[b.expansions + 1]
    IN  IF end.refused THEN [refused |-> TRUE] ELSE [refused |-> FALSE, paths |-> end.paths]

(***************************************************************************)
(* The reference definition of what a search finds, without a queue: the   *)
(* paths of up to depth steps that come to no record twice and do not go   *)
(* on from a record of until; those that are results, and the steps a      *)
(* search has to look at to know.                                          *)
(***************************************************************************)
SimplePaths(adjacent, start, until, depth) ==
    LET upTo[n \in Nat] ==
            IF n = 0 THEN {<<>>}
            ELSE LET shorter == upTo[n - 1]
                 IN  shorter \cup
                     UNION {{Append(p, step) : step \in {e \in adjacent[EndOf(start, p)] :
                                                            e.to \notin On(start, p)}} :
                               p \in {q \in shorter : EndOf(start, q) \notin until}}
    IN  upTo[depth]

Results(adjacent, start, until, depth) ==
    {p \in SimplePaths(adjacent, start, until, depth) \ {<<>>} :
        until = {} \/ EndOf(start, p) \in until}

Looks(adjacent, start, until, depth) ==
    UNION {{<<p, step>> : step \in adjacent[EndOf(start, p)]} :
              p \in {q \in SimplePaths(adjacent, start, until, depth) :
                        Len(q) < depth /\ EndOf(start, q) \notin until}}

(***************************************************************************)
(* why follows the explanation edges of a history, impact goes against     *)
(* them.                                                                   *)
(***************************************************************************)
Backwards(edge) == Edge(edge.to, edge.from, edge.kind, edge.at)

Mentioned(edges, r) == {r} \cup UNION {{e.from, e.to} : e \in edges}

Outgoing(edges, r) == [id \in Mentioned(edges, r) |-> {e \in edges : e.from = id}]

Incoming(edges, r) ==
    [id \in Mentioned(edges, r) |-> {Backwards(e) : e \in {f \in edges : f.to = id}}]

Why(edges, r, b) == Search(Outgoing(edges, r), r, {}, b)

Impact(edges, r, b) == Search(Incoming(edges, r), r, {}, b)

(***************************************************************************)
(* The relations at a record, in a direction, as steps to its neighbours.  *)
(* A relation from a record to itself is listed once under "both".         *)
(***************************************************************************)
Step(h, i, dir) ==
    IF dir = "outbound" THEN [from |-> h[i].source, to |-> h[i].target, dir |-> dir, at |-> i]
                        ELSE [from |-> h[i].target, to |-> h[i].source, dir |-> dir, at |-> i]

Neighbors(h, id, dir, types) ==
    LET rels == {i \in Created(h, "relation") : h[i].type \in types}
    IN  {Step(h, i, "outbound") :
            i \in {j \in rels : dir # "inbound" /\ h[j].source = id}}
        \cup {Step(h, i, "inbound") :
                i \in {j \in rels : /\ dir # "outbound" /\ h[j].target = id
                                    /\ ~(dir = "both" /\ h[j].source = id)}}

\* Bug for the mutants: a path may pass through its end and come back.
ProvenancePathsThrough(h, start, end, dir, types, b) ==
    LET all == Search([id \in RecordIds(h) |-> Neighbors(h, id, dir, types)], start, {}, b)
    IN  IF all.refused THEN all
        ELSE [all EXCEPT !.paths = SelectSeq(@, LAMBDA p : end \in On(start, p))]

ProvenancePaths(h, start, end, dir, types, b) ==
    IF start = end THEN [refused |-> FALSE, paths |-> << <<>> >>]
    ELSE Search([id \in RecordIds(h) |-> Neighbors(h, id, dir, types)], start, {end}, b)

-----------------------------------------------------------------------------
(***************************************************************************)
(* timeline: the events a record takes part in, with the role it has and   *)
(* the other records involved; more of them than limit raises.             *)
(***************************************************************************)
Entry(at, role, related) == [at |-> at, role |-> role, related |-> related]

\* Bug for the mutants: what others made from the record is left out.
EntriesOfOwn(h, edges, r) ==
    {Entry(RecordAt(h, r), "record_created", {})}
    \cup {Entry(e.at, "binds", {e.to}) : e \in {f \in edges : f.from = r}}

Entries(h, edges, r) ==
    {Entry(RecordAt(h, r), "record_created", {})}
    \cup {Entry(i, "relation_source", {h[i].target}) :
             i \in {j \in Created(h, "relation") : h[j].source = r}}
    \cup {Entry(i, "relation_target", {h[i].source}) :
             i \in {j \in Created(h, "relation") : h[j].target = r}}
    \cup {Entry(i, "state_source", {RelOf(h, i).target}) :
             i \in {j \in Activations(h) : RelOf(h, j).source = r}}
    \cup {Entry(i, "state_target", {RelOf(h, i).source}) :
             i \in {j \in Activations(h) : RelOf(h, j).target = r}}
    \cup {Entry(e.at, "binds", {e.to}) : e \in {f \in edges : f.from = r}}
    \cup {Entry(e.at, "bound_by", {e.from}) : e \in {f \in edges : f.to = r}}

Timeline(h, edges, r, limit) ==
    LET entries == Entries(h, edges, r)
        places  == {e.at : e \in entries}
    IN  IF Cardinality(places) > limit THEN [refused |-> TRUE]
        ELSE [refused |-> FALSE, entries |-> entries]

=============================================================================
