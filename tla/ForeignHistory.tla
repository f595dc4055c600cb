--------------------------- MODULE ForeignHistory ---------------------------
(***************************************************************************)
(* A ledger that is not only written through the repository.  The plain    *)
(* store (storage.py) appends any event with a new id, also one of a       *)
(* reserved type: an older version, an import or a privileged tool may     *)
(* have done so.  The replay of the views then has to tell what a typed    *)
(* call could have written from what it could not.                         *)
(*                                                                         *)
(* Typed calls are atomic here (CallsAreAtomic of Repository).             *)
(***************************************************************************)
EXTENDS Operations

CONSTANTS Setup,        \* the calls made before the run starts
          Menu,         \* the typed calls
          Foreign(_),   \* the events others may write on a history
          MaxForeign    \* bound: how many of them

VARIABLES log,      \* the ledger
          foreign   \* how many of its events came through the plain store

vars == <<log, foreign>>

(***************************************************************************)
(* The setup is not empty; each of its calls was accepted on a ledger that *)
(* could be read.                                                          *)
(***************************************************************************)
ASSUME SetupAssumption ==
    LET h == After(Setup) IN
    /\ h \in Seq({h[i] : i \in DOMAIN h}) /\ h # <<>>
    /\ DOMAIN Setup = 1 .. Len(h)
    /\ \A n \in DOMAIN Setup :
           LET p == Prefix(h, n - 1) IN
           /\ Setup[n].op \in TypedOperations
           /\ CasesCompatible(p) /\ Accepts(p, States(p), Setup[n])
           /\ h[n] = EventOf(p, States(p), Setup[n])

ASSUME MenuAssumption == \A k \in Menu : k.op \in TypedOperations

Init == log = After(Setup) /\ foreign = 0

(***************************************************************************)
(* A typed call; the two appends of apply_feedback.                        *)
(***************************************************************************)
Typed(k) == /\ Accepts(log, States(log), k)
            /\ LET e == EventOf(log, States(log), k)
               IN  IdIsNew(log, e) /\ log' = Append(log, e)
            /\ UNCHANGED foreign

\* The case may be applied: it is one, proposes an effect and rests on usable records.
MayApply(h, case) == /\ IsOfType(h, case, "FeedbackCase")
                     /\ Body(h, case).effect = "invalidate_target"
                     /\ SourcesUsable(h, States(h), case)

Propose(case) == /\ MayApply(log, case)
                 /\ ApplicationState(log, case) = "not_applied"
                 /\ IdIsNew(log, FeedbackRelation(log, case))
                 /\ log' = Append(log, FeedbackRelation(log, case))
                 /\ UNCHANGED foreign

Qualification(case) == [ev |-> "invalidated", relation |-> FeedbackRelationId[case]]

Qualify(case) == /\ MayApply(log, case)
                 /\ MayActivate(log, "invalidated", FeedbackRelationId[case])
                 /\ log' = Append(log, Qualification(case))
                 /\ UNCHANGED foreign

(***************************************************************************)
(* An event through the plain store.  What is not of an event's shape is   *)
(* "malformed"; a body that no contract looks at is left out.              *)
(***************************************************************************)
IsEvent(e) ==
    /\ e.ev \in {"record", "relation", "raw", "malformed"} \cup DOMAIN RelationTypeFor
    /\ e.ev = "record" => /\ e = RecordEvent(e.id, e.type, e.body)
                          /\ e.type \notin SemanticTypes => e.body = <<>>
    /\ e.ev \in DOMAIN RelationTypeFor => e = [ev |-> e.ev, relation |-> e.relation]

Write == /\ foreign < MaxForeign
         /\ \E e \in Foreign(log) : IsEvent(e) /\ IdIsNew(log, e) /\ log' = Append(log, e)
         /\ foreign' = foreign + 1

(***************************************************************************)
(* No call accepts a history that the views refuse, and no later event can *)
(* make them accept it: such a history is left alone.                      *)
(***************************************************************************)
Next == /\ M05Replays(log)
        /\ \/ \E k \in Menu : Typed(k)
           \/ \E case \in DOMAIN FeedbackRelationId : Propose(case) \/ Qualify(case)
           \/ Write

Spec == Init /\ [][Next]_vars

-----------------------------------------------------------------------------
(***************************************************************************)
(* The calls that could have written a record or an activation.            *)
(***************************************************************************)
CallsFor(e) ==
    IF e.ev = "record"
    THEN IF e.type = "GateDecision"
         THEN {[op |-> "evaluate_gate", id |-> e.id, request |-> e.body.request]}
         ELSE IF e.type \in SemanticTypes
         THEN {[op |-> o, id |-> e.id, body |-> e.body] :
                  o \in {p \in DOMAIN TypeWritten : TypeWritten[p] = e.type}}
         ELSE {[op |-> "create_record", id |-> e.id, type |-> e.type]}
    ELSE {[op |-> o, relation |-> e.relation] :
             o \in {p \in DOMAIN ActivationOf : ActivationOf[p] = e.ev}}

\* A relation under a case's id is the one apply_feedback proposes; others are free.
EarnedRelation(h, e) ==
    /\ HasRecord(h, e.source) /\ HasRecord(h, e.target) /\ ~HasRelation(h, e.id)
    /\ \A i \in Records(h, "FeedbackCase") :
           FeedbackRelationId[h[i].id] = e.id =>
               h[i].body.effect = "invalidate_target" /\ e = FeedbackRelation(h, h[i].id)

\* The one event a call accepts and the views refuse: a case whose relation id is taken.
OpensOccupied(h, e) ==
    e.ev = "record" /\ e.type = "FeedbackCase" /\ HasRelation(h, FeedbackRelationId[e.id])

(***************************************************************************)
(* The event is one that a call, made when the ledger was h, would have    *)
(* accepted and written.                                                   *)
(***************************************************************************)
Earned(h, e) ==
    CASE e.ev = "raw"       -> TRUE
      [] e.ev = "malformed" -> FALSE
      [] e.ev = "relation"  -> EarnedRelation(h, e)
      [] OTHER ->
             \/ \E k \in CallsFor(e) : /\ Accepts(h, States(h), k)
                                       /\ EventOf(h, States(h), k) = e
             \/ \E i \in Records(h, "FeedbackCase") :
                    /\ e = Qualification(h[i].id)
                    /\ MayApply(h, h[i].id)
                    /\ MayActivate(h, "invalidated", e.relation)

(***************************************************************************)
(* The views accept a ledger exactly when each of its events was earned at *)
(* its place, whoever wrote it: a permit no evaluation gave, a release of  *)
(* a permit gone stale, a second decision, an invalidation of an           *)
(* ineligible case or a body no builder makes is refused, and nothing else *)
(* is but a case whose relation id is taken.  As only accepted ledgers     *)
(* grow, the last event is the one to ask about.                           *)
(***************************************************************************)
ReplayAcceptsExactlyTheEarned ==
    LET before == Prefix(log, Len(log) - 1)
    IN  M05Replays(log) <=> Earned(before, Last(log)) /\ ~OpensOccupied(before, Last(log))

=============================================================================
