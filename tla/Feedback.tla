------------------------------ MODULE Feedback ------------------------------
(***************************************************************************)
(* Releases, runtime observations and feedback cases (feedback.py).        *)
(***************************************************************************)
EXTENDS Gates

CONSTANT FeedbackRelationId   \* feedback case id -> the id rel_feedback_<sha256 of it>

(***************************************************************************)
(* The hash tells cases apart; a record's id is not empty.                 *)
(***************************************************************************)
ASSUME RelationIdAssumption ==
    /\ \A c, d \in DOMAIN FeedbackRelationId :
           FeedbackRelationId[c] = FeedbackRelationId[d] => c = d
    /\ "" \notin DOMAIN FeedbackRelationId

Records(h, type) == {i \in Created(h, "record") : h[i].type = type}

-----------------------------------------------------------------------------
(***************************************************************************)
(* A release names a subject with a fresh permit, over one history.        *)
(***************************************************************************)
ReleaseAuthorized(h, st, body) ==
    /\ IsOfType(h, body.subject, "ChangeSet")
    /\ IsOfType(h, body.decision, "GateDecision")
    /\ Body(h, body.decision).subject = body.subject
    /\ Body(h, body.decision).outcome = "permit"
    /\ DecisionFresh(h, st, body.decision)
    /\ Usable(st[body.subject])

RefUsed(h, ref) == \E i \in Records(h, "Release") : h[i].body.ref = ref

MayRelease(h, st, body) == ~RefUsed(h, body.ref) /\ ReleaseAuthorized(h, st, body)

ReleaseReplays(h, i) ==
    LET p == Prefix(h, i - 1)
    IN  ~RefUsed(p, h[i].body.ref) /\ ReleaseAuthorized(p, States(p), h[i].body)

(***************************************************************************)
(* The authority fingerprint covers the decision's outcome and freshness;  *)
(* at release time both were permit and fresh.                             *)
(***************************************************************************)
\* Bug for the mutants: the gate decision's later staleness is not noticed.
ReleaseFreshByItself(h, st, r) == Usable(st[r])

ReleaseFresh(h, st, r) == /\ Usable(st[r])
                          /\ Body(h, Body(h, r).decision).outcome = "permit"
                          /\ DecisionFresh(h, st, Body(h, r).decision)

-----------------------------------------------------------------------------
MayObserve(h, body) == /\ IsOfType(h, body.release, "Release")
                       /\ \A e \in body.evidence : HasRecord(h, e)

ObservationReplays(h, i) ==
    /\ BoundAs(h, i, h[i].body.release, "Release")
    /\ \A e \in h[i].body.evidence : BoundBefore(h, i, e)

MayOpenCase(h, body) == /\ IsOfType(h, body.observation, "RuntimeObservation")
                        /\ HasRecord(h, body.target)

CaseReplays(h, i) == /\ BoundAs(h, i, h[i].body.observation, "RuntimeObservation")
                     /\ BoundBefore(h, i, h[i].body.target)

-----------------------------------------------------------------------------
(***************************************************************************)
(* The invalidation that applies a case: a relation under an id derived    *)
(* from the case, from the case to its target, naming the case.            *)
(***************************************************************************)
FeedbackRelation(h, case) ==
    [ev |-> "relation", id |-> FeedbackRelationId[case], type |-> "invalidates",
     source |-> case, target |-> Body(h, case).target, case |-> case]

\* The case that manages a relation, "" if none does.
ManagedCase(h, rel) ==
    LET source == Relation(h, rel).source IN
    IF /\ Record(h, source).type = "FeedbackCase"
       /\ rel = FeedbackRelationId[source]
    THEN source ELSE ""

\* The relation under a case's id is the one the case proposes.
Compatible(h, case) ==
    /\ Body(h, case).effect = "invalidate_target"
    /\ Relation(h, FeedbackRelationId[case]) = FeedbackRelation(h, case)

(***************************************************************************)
(* New authority needs a usable case, observation and evidence.            *)
(***************************************************************************)
SourcesUsable(h, st, case) ==
    LET o == Body(h, case).observation
    IN  \A id \in {case, o} \cup Body(h, o).evidence : Usable(st[id])

(***************************************************************************)
(* How far a case is applied.                                              *)
(***************************************************************************)
ApplicationState(h, case) ==
    LET rel == FeedbackRelationId[case] IN
    IF ~HasRelation(h, rel) THEN "not_applied"
    ELSE IF \E i \in Created(h, "invalidated") : h[i].relation = rel
         THEN "applied" ELSE "pending_qualification"

(***************************************************************************)
(* A replay rejects an incompatible relation under a case's id and an      *)
(* invalidation whose case was not eligible just before it.                *)
(***************************************************************************)
CasesCompatible(h) ==
    \A i \in Records(h, "FeedbackCase") :
        HasRelation(h, FeedbackRelationId[h[i].id]) => Compatible(h, h[i].id)

QualificationsReplay(h) ==
    /\ CasesCompatible(h)
    /\ \A i \in Created(h, "invalidated") :
           LET case == ManagedCase(h, h[i].relation)
               p    == Prefix(h, i - 1)
           IN  case # "" => SourcesUsable(p, States(p), case)

M05Replays(h) ==
    /\ GatesReplay(h)
    /\ \A i \in Created(h, "record") :
           CASE h[i].type = "Release"            -> ReleaseReplays(h, i)
             [] h[i].type = "RuntimeObservation" -> ObservationReplays(h, i)
             [] h[i].type = "FeedbackCase"       -> CaseReplays(h, i)
             [] OTHER                            -> TRUE
    /\ QualificationsReplay(h)

=============================================================================
