------------------------- MODULE ExplainProperties -------------------------
(***************************************************************************)
(* What must hold of the answers a reader gets about any history the       *)
(* repository writes.                                                      *)
(***************************************************************************)
EXTENDS RepositoryProperties, Explain

CONSTANT Bounds     \* scenario -> queries and provenance, the bounds under which
                    \*   its histories are asked why, impact and for provenance paths

ASSUME BoundsAssumption ==
    \A s \in DOMAIN Scenario :
        Bounds[s].queries \subseteq QueryBounds /\ Bounds[s].provenance \subseteq QueryBounds

Reached(paths) == {p[Len(p)].to : p \in paths}

(***************************************************************************)
(* The answer to a search is the one its bounds allow.  With too many      *)
(* results or too many steps to look at, the query is refused; otherwise   *)
(* every simple path of up to b.depth steps is given, alternate paths to   *)
(* one record included, and none is given twice.  Longer paths are left    *)
(* out without a word.                                                     *)
(***************************************************************************)
IsExact(reply, adjacent, start, until, b) ==
    LET results == Results(adjacent, start, until, b.depth)
    IN  IF \/ Cardinality(results) > b.results
           \/ Cardinality(Looks(adjacent, start, until, b.depth)) > b.expansions
        THEN reply.refused
        ELSE /\ ~reply.refused
             /\ Range(reply.paths) = results
             /\ Len(reply.paths) = Cardinality(results)

(***************************************************************************)
(* The tightest bounds under which a walk from a record is answered and    *)
(* nothing is left out: no simple path has as many steps as there are      *)
(* records.  (The code allows a depth of at most 32, 1000 results and      *)
(* 100000 expansions: where this takes more, the query is answered up to   *)
(* that depth or refused.)                                                 *)
(***************************************************************************)
AtLeastOne(n) == IF n = 0 THEN 1 ELSE n

Enough(adjacent, start) ==
    LET depth == Cardinality(DOMAIN adjacent)
    IN  [depth      |-> depth,
         results    |-> AtLeastOne(Cardinality(Results(adjacent, start, {}, depth))),
         expansions |-> AtLeastOne(Cardinality(Looks(adjacent, start, {}, depth)))]

WhyAll(edges, r) == Range(Why(edges, r, Enough(Outgoing(edges, r), r)).paths)

ImpactAll(edges, r) == Range(Impact(edges, r, Enough(Incoming(edges, r), r)).paths)

(***************************************************************************)
(* why and impact give every recorded simple path of up to the depth asked *)
(* for, whatever cycles the bindings form, or they fail; asked with bounds *)
(* that are wide enough, they give every one.                              *)
(***************************************************************************)
ExplanationIsExact ==
    LET edges == ExplainEdges(log) IN
    \A r \in RecordIds(log) :
        LET out == Outgoing(edges, r)
            in  == Incoming(edges, r)
        IN  /\ \A b \in {Enough(out, r)} \cup Bounds[scenario].queries :
                   IsExact(Why(edges, r, b), out, r, {}, b)
            /\ \A b \in {Enough(in, r)} \cup Bounds[scenario].queries :
                   IsExact(Impact(edges, r, b), in, r, {}, b)

-----------------------------------------------------------------------------
(***************************************************************************)
(* Effective state (state.py) and explanation (feedback.py) are derived    *)
(* from the same history by different searches; they agree.  The roots     *)
(* that why reaches over qualified dependencies alone are the roots the    *)
(* record is stale from, and why goes on to whatever took the root away,   *)
(* unless the path has been there already.                                 *)
(***************************************************************************)
LosesStanding(state) == state.invalidations \cup state.superseded

StalenessIsExplained ==
    LET states == States(log)
        edges  == ExplainEdges(log)
    IN  \A r \in RecordIds(log) :
            LET why     == WhyAll(edges, r)
                depends == {p \in why : \A n \in DOMAIN p : p[n].kind = "qualified_dependency"}
            IN  /\ {RelOf(log, cause.root).target : cause \in states[r].causes}
                       = {q \in Reached(depends) : LosesStanding(states[q]) # {}}
                /\ \A p \in depends : \A i \in LosesStanding(states[EndOf(r, p)]) :
                       RelOf(log, i).source \in On(r, p) \/ Append(p, StateEdge(log, i)) \in why

(***************************************************************************)
(* No hidden downstream impact: whatever lost its standing (a stale        *)
(* record, a decision or a release that is no longer fresh) lost it to a   *)
(* record whose impact lists it.                                           *)
(***************************************************************************)
ImpactIsCovered ==
    LET states    == States(log)
        edges     == ExplainEdges(log)
        lost      == {q \in RecordIds(log) : LosesStanding(states[q]) # {}}
        impact    == [q \in lost |-> Reached(ImpactAll(edges, q))]
        roots(r)  == {RelOf(log, cause.root).target : cause \in states[r].causes}
        stale     == {d \in Decisions : ~DecisionFresh(log, states, d)}
                         \cup {v \in Releases : ~ReleaseFresh(log, states, v)}
    IN  /\ \A r \in RecordIds(log) : \A q \in roots(r) : r \in impact[q]
        /\ stale \subseteq lost \cup UNION {impact[q] : q \in lost}

-----------------------------------------------------------------------------
(***************************************************************************)
(* An event that relates two records is on both their timelines, each      *)
(* naming the other.                                                       *)
(***************************************************************************)
TimelinesAgree ==
    LET edges == ExplainEdges(log)
        line(r) == Timeline(log, edges, r, Len(log)).entries
    IN  \A r \in RecordIds(log) : \A e \in line(r) : \A q \in e.related :
            \E f \in line(q) : f.at = e.at /\ r \in f.related

(***************************************************************************)
(* An event that invalidates or supersedes a record, or that makes a       *)
(* record stale, is on the timeline of that record or of a record its why  *)
(* leads to: no loss of standing comes out of nowhere.                     *)
(***************************************************************************)
LossesAreOnTimelines ==
    log # <<>> =>
        LET before == States(Front(log))
            after  == States(log)
            edges  == ExplainEdges(log)
        IN  \A r \in {q \in RecordIds(Front(log)) : Usable(before[q]) /\ ~Usable(after[q])} :
                \E q \in {r} \cup Reached(WhyAll(edges, r)) :
                    \E e \in Entries(log, edges, q) : e.at = Len(log)

-----------------------------------------------------------------------------
(***************************************************************************)
(* The provenance paths between two records are all the simple paths over  *)
(* the relations, in the direction asked for, of up to the depth asked     *)
(* for; or the query is refused because there are too many or it is too    *)
(* much work.                                                              *)
(***************************************************************************)
Directions == {"outbound", "inbound", "both"}

ProvenanceIsExact ==
    LET types == {log[i].type : i \in Created(log, "relation")} IN
    \A r, q \in RecordIds(log), dir \in Directions, b \in Bounds[scenario].provenance :
        LET next  == [id \in RecordIds(log) |-> Neighbors(log, id, dir, types)]
            reply == ProvenancePaths(log, r, q, dir, types, b)
        IN  IF r = q
            THEN reply = [refused |-> FALSE, paths |-> << <<>> >>]
            ELSE IsExact(reply, next, r, {q}, b)

-----------------------------------------------------------------------------
(***************************************************************************)
(* "Exceeding a bound fails rather than silently truncating" (README.md):  *)
(* a query that is answered gives every simple path there is.  The bound   *)
(* on the depth is no such bound, in either search.  (Stated is that one   *)
(* of the two keeps the promise, so that a violation is one of both.)      *)
(***************************************************************************)
IsExplicit(reply, adjacent, start, until) ==
    \/ reply.refused
    \/ Results(adjacent, start, until, Cardinality(DOMAIN adjacent)) \subseteq Range(reply.paths)

ExplanationIsExplicit ==
    LET edges == ExplainEdges(log) IN
    \A r \in RecordIds(log), b \in Bounds[scenario].queries :
        LET out == Outgoing(edges, r)
            in  == Incoming(edges, r)
        IN  /\ IsExplicit(Why(edges, r, b), out, r, {})
            /\ IsExplicit(Impact(edges, r, b), in, r, {})

ProvenanceIsExplicit ==
    LET types == {log[i].type : i \in Created(log, "relation")}
        next  == [id \in RecordIds(log) |-> Neighbors(log, id, "outbound", types)]
    IN  \A r \in RecordIds(log), b \in Bounds[scenario].provenance :
            \A q \in RecordIds(log) \ {r} :
                IsExplicit(ProvenancePaths(log, r, q, "outbound", types, b), next, r, {q})

BoundsAreExplicit == ExplanationIsExplicit \/ ProvenanceIsExplicit

=============================================================================
