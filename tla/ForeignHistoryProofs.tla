----------------------- MODULE ForeignHistoryProofs -----------------------
(***************************************************************************)
(* The replay of the views accepts exactly what a call could have written, *)
(* for every setup, menu and set of foreign events.  One direction is that *)
(* of HistoryProofs: what is earned fits, and what fits replays.  The      *)
(* other goes through the contracts backwards: from what a replay asks of  *)
(* an event to the call that would have been accepted.                     *)
(***************************************************************************)
EXTENDS ForeignHistory, HistoryProofs

(***************************************************************************)
(* What a replay found in the grown history was there before the event.    *)
(***************************************************************************)
LEMMA BoundWas ==
    ASSUME NEW p, NEW H, Grows(p, H), Unique(H), NEW id
    PROVE  /\ RecordAt(H, id) \in 1 .. Len(p) => HasRecord(p, id)
           /\ RelationAt(H, id) \in 1 .. Len(p) => HasRelation(p, id)
<1>1. "record" \in Kinds /\ "relation" \in Kinds
  BY DEF Kinds
<1>2. Len(p) \in Nat
  BY LogFacts DEF Grows
<1>3. ASSUME RecordAt(H, id) \in 1 .. Len(p)
      PROVE  HasRecord(p, id)
  <2>1. PlaceOf(p, "record", id) = RecordAt(H, id)
    BY <1>1, <1>3, PlaceWas DEF RecordAt
  <2> QED  BY <1>2, <1>3, <2>1 DEF HasRecord, RecordAt
<1>4. ASSUME RelationAt(H, id) \in 1 .. Len(p)
      PROVE  HasRelation(p, id)
  <2>1. PlaceOf(p, "relation", id) = RelationAt(H, id)
    BY <1>1, <1>4, PlaceWas DEF RelationAt
  <2> QED  BY <1>2, <1>4, <2>1 DEF HasRelation, RelationAt
<1> QED  BY <1>3, <1>4

(***************************************************************************)
(* The history, the event after it, and the history with the event.        *)
(***************************************************************************)
LEMMA AfterEvent ==
    ASSUME NEW p, Written(p), NEW e, GraphReplays(Append(p, e))
    PROVE  /\ IsLog(p) /\ Unique(p) /\ Len(p) \in Nat /\ DOMAIN p = 1 .. Len(p)
           /\ Grows(p, Append(p, e)) /\ Unique(Append(p, e)) /\ IsLog(Append(p, e))
           /\ Len(Append(p, e)) = Len(p) + 1 /\ DOMAIN Append(p, e) = 1 .. Len(p) + 1
           /\ Append(p, e)[Len(p) + 1] = e
           /\ \A i \in 1 .. Len(p) : Append(p, e)[i] = p[i]
           /\ Prefix(Append(p, e), Len(p)) = p
<1> DEFINE H == Append(p, e)
<1>1. IsLog(p) /\ Unique(p) /\ Len(p) \in Nat /\ DOMAIN p = 1 .. Len(p)
  BY WrittenUnique, LogFacts DEF Written
<1>2. /\ IsLog(H) /\ Len(H) = Len(p) + 1 /\ H[Len(p) + 1] = e
      /\ \A i \in 1 .. Len(p) : H[i] = p[i]
  BY <1>1, AppendFacts
<1>3. Grows(p, H)
  BY <1>1, AppendGrows
<1>4. DOMAIN H = 1 .. Len(p) + 1
  BY <1>2, LogFacts
<1>5. Len(p) \in 0 .. Len(p)
  BY <1>1
<1>6. Prefix(H, Len(p)) = Prefix(p, Len(p)) /\ Prefix(p, Len(p)) = p
  BY <1>1, <1>3, <1>5, PrefixOfGrown, PrefixFull
<1>7. Unique(H)
  BY DEF GraphReplays, Unique, Kinds
<1> QED  BY <1>1, <1>2, <1>3, <1>4, <1>6, <1>7

LEMMA NewWas ==
    ASSUME NEW p, NEW H, Grows(p, H), Unique(H), NEW n \in DOMAIN H, n = Len(p) + 1
    PROVE  /\ H[n].ev = "record" => ~HasRecord(p, H[n].id)
           /\ H[n].ev = "relation" => ~HasRelation(p, H[n].id)
<1>1. Len(p) \in Nat /\ IsLog(p) /\ IsLog(H)
  BY LogFacts DEF Grows
<1>2. ASSUME H[n].ev = "record", HasRecord(p, H[n].id)
      PROVE  FALSE
  <2>1. RecordAt(H, H[n].id) \in 1 .. Len(p)
    BY <1>2, RecordStays
  <2>2. n \in Created(H, "record")
    BY <1>2 DEF Created
  <2>3. RecordAt(H, H[n].id) = n
    BY <1>1, <2>2, RecordAtPlace
  <2> QED  BY <1>1, <2>1, <2>3
<1>3. ASSUME H[n].ev = "relation", HasRelation(p, H[n].id)
      PROVE  FALSE
  <2>1. RelationAt(H, H[n].id) \in 1 .. Len(p)
    BY <1>3, RelationStays
  <2>2. n \in Created(H, "relation") /\ "relation" \in Kinds
    BY <1>3 DEF Created, Kinds
  <2>3. RelationAt(H, H[n].id) = n
    BY <1>1, <2>2, PlaceIs DEF RelationAt
  <2> QED  BY <1>1, <2>1, <2>3
<1> QED  BY <1>2, <1>3

-----------------------------------------------------------------------------
(***************************************************************************)
(* A record that the views accept is one that a call would have written.   *)
(***************************************************************************)
LEMMA PlainRecordEarned ==
    ASSUME NEW p, NEW e, IsEvent(e), e.ev = "record", e.type \notin SemanticTypes,
           NewId(p, e.id), PayloadContract(e.type, e.body)
    PROVE  Earned(p, e)
<1> DEFINE k == [op |-> "create_record", id |-> e.id, type |-> e.type]
<1>1. k.op = "create_record" /\ k.id = e.id /\ k.type = e.type
  OBVIOUS
<1>2. CallsFor(e) = {k}
  BY DEF CallsFor, SemanticTypes
<1> HIDE DEF k
<1>3. e.type \notin ReservedTypes
  BY DEF ReservedTypes, PayloadContract
<1>4. k.op \notin DOMAIN TypeWritten /\ k.op \notin DOMAIN ActivationOf
  BY <1>1 DEF TypeWritten, ActivationOf
<1>5. Allowed(p, States(p), k)
  BY <1>1 DEF Allowed
<1>6. Accepts(p, States(p), k)
  BY <1>1, <1>3, <1>4, <1>5 DEF Accepts
<1>7. EventOf(p, States(p), k) = RecordEvent(e.id, e.type, <<>>)
  BY <1>1, <1>4 DEF EventOf
<1>8. e = RecordEvent(e.id, e.type, <<>>)
  BY DEF IsEvent
<1> QED  BY <1>2, <1>6, <1>7, <1>8 DEF Earned

(***************************************************************************)
(* Semantic types but decisions: the operation that writes the type.       *)
(***************************************************************************)
LEMMA SemanticRecordEarned ==
    ASSUME NEW p, NEW e, IsEvent(e), e.ev = "record",
           e.type \in SemanticTypes \ {"GateDecision"}, RecordFits(p, e)
    PROVE  Earned(p, e)
<1>1. \E o \in DOMAIN TypeWritten \ {"evaluate_gate"} : TypeWritten[o] = e.type
  <2>1. DOMAIN TypeWritten = {"record_verification", "register_policy_snapshot", "request_gate",
                              "evaluate_gate", "register_release", "record_runtime_observation",
                              "open_feedback_case"}
    BY DEF TypeWritten
  <2> QED  BY <2>1 DEF SemanticTypes, TypeWritten
<1>2. PICK o \in DOMAIN TypeWritten \ {"evaluate_gate"} : TypeWritten[o] = e.type
  BY <1>1
<1> DEFINE k == [op |-> o, id |-> e.id, body |-> e.body]
<1>3. k \in CallsFor(e)
  BY <1>2 DEF CallsFor
<1>4. k.op = o /\ k.id = e.id /\ k.body = e.body
  OBVIOUS
<1> HIDE DEF k
<1>5. /\ o \in {"record_verification", "register_policy_snapshot", "request_gate",
                "register_release", "record_runtime_observation", "open_feedback_case"}
      /\ o = "record_verification"        => e.type = "VerificationReceipt"
      /\ o = "request_gate"               => e.type = "GateRequest"
      /\ o = "register_release"           => e.type = "Release"
      /\ o = "record_runtime_observation" => e.type = "RuntimeObservation"
      /\ o = "open_feedback_case"         => e.type = "FeedbackCase"
  BY <1>2 DEF TypeWritten
<1>6. /\ NewId(p, e.id) /\ PayloadContract(e.type, e.body)
      /\ o = "record_verification"        => MayRecordReceipt(p, k.body)
      /\ o = "request_gate"               => MayRequest(p, k.body)
      /\ o = "register_release"           => MayRelease(p, States(p), k.body)
      /\ o = "record_runtime_observation" => MayObserve(p, k.body)
      /\ o = "open_feedback_case"         => MayOpenCase(p, k.body)
  BY <1>4, <1>5 DEF RecordFits
<1>7. Allowed(p, States(p), k)
  BY <1>4, <1>5, <1>6 DEF Allowed
<1>8. BodyOf(p, States(p), k) = e.body
  BY <1>4, <1>5 DEF BodyOf
<1>9. Accepts(p, States(p), k)
  BY <1>2, <1>4, <1>5, <1>6, <1>7, <1>8 DEF Accepts
<1>10. EventOf(p, States(p), k) = e
  <2>1. k.op \in DOMAIN TypeWritten /\ k.op \notin DOMAIN ActivationOf
        /\ k.op \notin {"create_record", "create_relation"}
    BY <1>2, <1>4, <1>5 DEF ActivationOf
  <2>2. EventOf(p, States(p), k) = RecordEvent(k.id, TypeWritten[k.op], BodyOf(p, States(p), k))
    BY <2>1 DEF EventOf
  <2>3. e = RecordEvent(e.id, e.type, e.body)
    BY DEF IsEvent
  <2> QED  BY <1>2, <1>4, <1>8, <2>2, <2>3
<1>11. e.ev \notin {"raw", "malformed", "relation"}
  OBVIOUS
<1> QED  BY <1>3, <1>9, <1>10, <1>11 DEF Earned

LEMMA DecisionEarned ==
    ASSUME NEW p, NEW e, IsEvent(e), e.ev = "record", e.type = "GateDecision", RecordFits(p, e)
    PROVE  Earned(p, e)
<1> DEFINE k == [op |-> "evaluate_gate", id |-> e.id, request |-> e.body.request]
<1>1. k \in CallsFor(e)
  BY DEF CallsFor
<1>2. k.op = "evaluate_gate" /\ k.id = e.id /\ k.request = e.body.request
  OBVIOUS
<1> HIDE DEF k
<1>3. /\ NewId(p, e.id) /\ PayloadContract("GateDecision", e.body)
      /\ MayEvaluate(p, k.request) /\ e.body = Evaluate(p, States(p), k.request)
  BY <1>2 DEF RecordFits
<1>4. BodyOf(p, States(p), k) = e.body
  BY <1>2, <1>3 DEF BodyOf
<1>5. /\ k.op \in DOMAIN TypeWritten /\ TypeWritten[k.op] = "GateDecision"
      /\ k.op \notin DOMAIN ActivationOf
  BY <1>2 DEF TypeWritten, ActivationOf
<1>6. Allowed(p, States(p), k)
  BY <1>2, <1>3 DEF Allowed
<1>7. Accepts(p, States(p), k)
  BY <1>2, <1>3, <1>4, <1>5, <1>6 DEF Accepts
<1>8. EventOf(p, States(p), k) = e
  <2>1. EventOf(p, States(p), k) = RecordEvent(k.id, "GateDecision", BodyOf(p, States(p), k))
    BY <1>2, <1>5 DEF EventOf
  <2> QED  BY <1>2, <1>4, <2>1 DEF IsEvent
<1>9. e.ev \notin {"raw", "malformed", "relation"}
  OBVIOUS
<1> QED  BY <1>1, <1>7, <1>8, <1>9 DEF Earned

(***************************************************************************)
(* An activation, by its operation; an invalidation that a case manages,   *)
(* by apply_feedback.                                                      *)
(***************************************************************************)
LEMMA ActivationEarned ==
    ASSUME NEW p, Written(p), CasesCompatible(p), NEW e, IsEvent(e),
           e.ev \in DOMAIN RelationTypeFor, Fits(p, e)
    PROVE  Earned(p, e)
<1>1. e.ev \in {"bound", "invalidated", "superseded"}
  BY DEF RelationTypeFor
<1>2. e.ev \notin {"raw", "malformed", "relation", "record"}
  BY <1>1
<1>3. MayActivate(p, e.ev, e.relation) /\ HasRelation(p, e.relation)
  BY <1>1 DEF Fits, MayActivate
<1>4. e = [ev |-> e.ev, relation |-> e.relation]
  BY DEF IsEvent
<1>5. PICK o \in {"bind_dependency", "invalidate", "supersede"} : ActivationOf[o] = e.ev
  BY <1>1 DEF ActivationOf
<1> DEFINE k == [op |-> o, relation |-> e.relation]
<1>6. k.op = o /\ k.relation = e.relation
  OBVIOUS
<1>7. k \in CallsFor(e)
  <2>1. o \in DOMAIN ActivationOf
    BY DEF ActivationOf
  <2> QED  BY <1>2, <1>5, <2>1 DEF CallsFor
<1> HIDE DEF k
<1>8. CASE e.ev = "invalidated" => ManagedCase(p, e.relation) = ""
  <2>1. o = "invalidate" <=> e.ev = "invalidated"
    BY <1>5 DEF ActivationOf
  <2>2. o = "invalidate" => NotManaged(p, k.relation) /\ MayActivate(p, "invalidated", k.relation)
    BY <1>3, <1>6, <1>8, <2>1 DEF NotManaged
  <2>3. o \in {"bind_dependency", "supersede"} => MayActivate(p, ActivationOf[k.op], k.relation)
    BY <1>3, <1>5, <1>6
  <2>4. Allowed(p, States(p), k)
    BY <1>6, <2>2, <2>3 DEF Allowed
  <2>5. k.op \notin DOMAIN TypeWritten /\ k.op \notin {"create_record", "create_relation"}
        /\ k.op \in DOMAIN ActivationOf
    BY <1>6 DEF TypeWritten, ActivationOf
  <2>6. Accepts(p, States(p), k)
    BY <2>4, <2>5 DEF Accepts
  <2>7. EventOf(p, States(p), k) = [ev |-> ActivationOf[k.op], relation |-> k.relation]
    BY <2>5 DEF EventOf
  <2> QED  BY <1>2, <1>4, <1>5, <1>6, <1>7, <2>6, <2>7 DEF Earned
<1>9. CASE e.ev = "invalidated" /\ ManagedCase(p, e.relation) # ""
  <2> DEFINE case == ManagedCase(p, e.relation)
  <2>1. /\ Record(p, case).type = "FeedbackCase" /\ e.relation = FeedbackRelationId[case]
        /\ case = Relation(p, e.relation).source
    BY <1>9 DEF ManagedCase
  <2>2. HasRecord(p, case)
    BY <1>3, <2>1, EndsOf
  <2>3. SourcesUsable(p, States(p), case)
    BY <1>9 DEF Fits, InvalidationFits
  <2> HIDE DEF case
  <2>4. IsOfType(p, case, "FeedbackCase")
    BY <2>1, <2>2 DEF IsOfType
  <2>5. RecordAt(p, case) \in Records(p, "FeedbackCase") /\ p[RecordAt(p, case)].id = case
    BY <2>4, CaseTarget DEF Record
  <2>6. Body(p, case).effect = "invalidate_target"
    BY <1>3, <2>1, <2>5 DEF CasesCompatible, Compatible
  <2>7. MayApply(p, case)
    BY <2>3, <2>4, <2>6 DEF MayApply
  <2>8. e = Qualification(case)
    BY <1>4, <1>9, <2>1 DEF Qualification
  <2> QED  BY <1>2, <1>3, <1>9, <2>5, <2>7, <2>8 DEF Earned
<1> QED  BY <1>8, <1>9

-----------------------------------------------------------------------------
(***************************************************************************)
(* An event that is accepted after p fits p.                               *)
(***************************************************************************)
LEMMA ReplayedRecordFits ==
    ASSUME NEW p, Written(p), NEW e, e.ev = "record", M05Replays(Append(p, e))
    PROVE  RecordFits(p, e)
<1> DEFINE H == Append(p, e)
           n == Len(p) + 1
<1>1. /\ GatesReplay(H) /\ GraphReplays(H)
      /\ \A i \in Created(H, "record") :
             /\ H[i].type = "Release"            => ReleaseReplays(H, i)
             /\ H[i].type = "RuntimeObservation" => ObservationReplays(H, i)
             /\ H[i].type = "FeedbackCase"       => CaseReplays(H, i)
  BY DEF M05Replays, GatesReplay, StateReplays
<1>2. /\ Unique(p) /\ Len(p) \in Nat /\ DOMAIN p = 1 .. Len(p)
      /\ Grows(p, H) /\ Unique(H) /\ IsLog(H) /\ DOMAIN H = 1 .. n /\ H[n] = e
      /\ \A i \in 1 .. Len(p) : H[i] = p[i]
      /\ Prefix(H, n - 1) = p
  <2>1. /\ Unique(p) /\ Len(p) \in Nat /\ DOMAIN p = 1 .. Len(p)
        /\ Grows(p, H) /\ Unique(H) /\ IsLog(H) /\ DOMAIN H = 1 .. n /\ H[n] = e
        /\ \A i \in 1 .. Len(p) : H[i] = p[i]
        /\ Prefix(H, Len(p)) = p
    BY <1>1, AfterEvent
  <2>2. n - 1 = Len(p)
    BY <2>1
  <2> QED  BY <2>1, <2>2
<1> HIDE DEF H
<1>3. n \in DOMAIN H /\ n \in Created(H, "record") /\ n - 1 = Len(p)
  BY <1>2 DEF Created
<1>4. ~HasRecord(p, e.id)
  BY <1>2, <1>3, NewWas
<1> HIDE DEF n
<1>5. \A id : BoundBefore(H, n, id) => HasRecord(p, id) /\ Body(H, id) = Body(p, id)
  BY <1>2, <1>3, BoundWas, RecordStays DEF BoundBefore
<1>6. \A id, type : BoundAs(H, n, id, type) => IsOfType(p, id, type)
  <2>1. \A id : HasRecord(p, id) => Record(H, id) = Record(p, id)
    BY <1>2, RecordStays
  <2> QED  BY <1>5, <2>1 DEF BoundAs, IsOfType
<1>7. \A id, type : BoundAs(H, n, id, type) => BoundBefore(H, n, id)
  BY DEF BoundAs
<1>8. PayloadContract(e.type, e.body)
  BY <1>1, <1>2, <1>3 DEF GraphReplays
<1>9. e.type = "VerificationReceipt" => MayRecordReceipt(p, e.body)
  <2>1. e.type = "VerificationReceipt" => ReceiptReplays(H, n)
    BY <1>1, <1>2, <1>3 DEF GatesReplay
  <2> QED  BY <1>2, <1>5, <2>1 DEF ReceiptReplays, MayRecordReceipt
<1>10. e.type = "GateRequest" => MayRequest(p, e.body)
  <2>1. e.type = "GateRequest" => RequestReplays(H, n)
    BY <1>1, <1>2, <1>3 DEF GatesReplay
  <2> QED  BY <1>2, <1>5, <1>6, <1>7, <2>1 DEF RequestReplays, MayRequest
<1>11. ASSUME e.type = "GateDecision"
       PROVE  MayEvaluate(p, e.body.request) /\ e.body = Evaluate(p, States(p), e.body.request)
  <2> DEFINE q == e.body.request
  <2>1. DecisionReplays(H, n)
    BY <1>1, <1>2, <1>3, <1>11 DEF GatesReplay
  <2>2. /\ \A j \in DecisionsOn(H, q) : j >= n
        /\ IsOfType(p, q, "GateRequest") /\ RequestReplays(p, RecordAt(p, q))
        /\ e.body = Evaluate(p, States(p), q)
    BY <1>2, <2>1 DEF DecisionReplays
  <2>3. ASSUME NEW j \in DecisionsOn(p, q)
        PROVE  FALSE
    <3>1. j \in 1 .. Len(p) /\ H[j] = p[j]
      BY <1>2 DEF DecisionsOn, Created
    <3>2. j \in DOMAIN H
      BY <1>2, <1>3, <3>1
    <3>3. j \in DecisionsOn(H, q)
      BY <3>1, <3>2 DEF DecisionsOn, Created
    <3>4. j >= n
      BY <2>2, <3>3
    <3> QED  BY <1>2, <1>3, <3>1, <3>4
  <2> QED  BY <2>2, <2>3 DEF MayEvaluate
<1>12. e.type = "Release" => MayRelease(p, States(p), e.body)
  BY <1>1, <1>2, <1>3 DEF ReleaseReplays, MayRelease
<1>13. e.type = "RuntimeObservation" => MayObserve(p, e.body)
  BY <1>1, <1>2, <1>3, <1>5, <1>6 DEF ObservationReplays, MayObserve
<1>14. e.type = "FeedbackCase" => MayOpenCase(p, e.body)
  BY <1>1, <1>2, <1>3, <1>5, <1>6 DEF CaseReplays, MayOpenCase
<1> QED  BY <1>4, <1>8, <1>9, <1>10, <1>11, <1>12, <1>13, <1>14 DEF RecordFits, NewId

LEMMA ReplayedActivationFits ==
    ASSUME NEW p, Written(p), NEW e, e.ev \in {"bound", "invalidated", "superseded"},
           M05Replays(Append(p, e))
    PROVE  Fits(p, e)
<1> DEFINE H == Append(p, e)
           n == Len(p) + 1
           rel == Relation(p, e.relation)
<1>1. GraphReplays(H) /\ (\A i \in Activations(H) : ActivationReplays(H, i))
      /\ QualificationsReplay(H)
  BY DEF M05Replays, GatesReplay, StateReplays
<1>2. /\ Unique(p) /\ IsLog(p) /\ Len(p) \in Nat /\ DOMAIN p = 1 .. Len(p)
      /\ Grows(p, H) /\ Unique(H) /\ IsLog(H) /\ DOMAIN H = 1 .. n /\ H[n] = e
      /\ \A i \in 1 .. Len(p) : H[i] = p[i]
      /\ Prefix(H, Len(p)) = p
  BY <1>1, AfterEvent
<1> HIDE DEF H
<1>3. n \in DOMAIN H /\ n - 1 = Len(p)
  BY <1>2
<1> HIDE DEF n
<1>4. n \in Activations(H)
  BY <1>2, <1>3 DEF Activations, RelationTypeFor
<1>5. ActivationReplays(H, n)
  BY <1>1, <1>4
<1>6. HasRelation(p, e.relation)
  BY <1>2, <1>3, <1>5, BoundWas DEF ActivationReplays
<1>7. RelOf(H, n) = rel /\ rel.id = e.relation
  BY <1>2, <1>6, RelationStays, RelationFacts DEF RelOf
<1>8. HasRecord(p, rel.source) /\ HasRecord(p, rel.target)
  BY <1>6, EndsOf
<1>9. /\ rel.type = RelationTypeFor[e.ev] /\ rel.source # rel.target
      /\ \A j \in Activations(H) : j < n => H[j].relation # e.relation
      /\ e.ev = "superseded" => SupersessionAllowed(H, rel, Created(p, "superseded"))
  BY <1>2, <1>3, <1>5, <1>7 DEF ActivationReplays
<1>10. ~Activated(p, e.relation)
  <2>1. ASSUME NEW j \in Activations(p), p[j].relation = e.relation
        PROVE  FALSE
    <3>1. j \in 1 .. Len(p) /\ H[j] = p[j]
      BY <1>2 DEF Activations
    <3>2. j \in DOMAIN H /\ j < n
      BY <1>2, <1>3, <3>1
    <3>3. j \in Activations(H)
      BY <3>1, <3>2 DEF Activations
    <3> QED  BY <1>9, <2>1, <3>1, <3>2, <3>3
  <2> QED  BY <2>1 DEF Activated
<1>11. ASSUME e.ev = "superseded"
       PROVE  SupersessionAllowed(p, rel, Created(p, "superseded"))
  <2>1. /\ Record(H, rel.source) = Record(p, rel.source)
        /\ Record(H, rel.target) = Record(p, rel.target)
        /\ RecordAt(H, rel.source) = RecordAt(p, rel.source)
        /\ RecordAt(H, rel.target) = RecordAt(p, rel.target)
    BY <1>2, <1>8, RecordStays
  <2>2. \A k \in Created(p, "superseded") : RelOf(H, k) = RelOf(p, k)
    <3>1. \A k \in Created(p, "superseded") : k \in Activations(p)
      BY DEF Created, Activations, RelationTypeFor
    <3> QED  BY <1>2, <3>1, RelOfStays
  <2> HIDE DEF rel
  <2> QED  BY <1>9, <1>11, <2>1, <2>2 DEF SupersessionAllowed
<1>12. MayActivate(p, e.ev, e.relation)
  BY <1>6, <1>9, <1>10, <1>11 DEF MayActivate
<1>13. ASSUME e.ev = "invalidated"
       PROVE  InvalidationFits(p, e)
  <2>1. n \in Created(H, "invalidated")
    BY <1>2, <1>3, <1>13 DEF Created
  <2>2. ManagedCase(H, e.relation) # "" => SourcesUsable(p, States(p), ManagedCase(H, e.relation))
    BY <1>1, <1>2, <1>3, <2>1 DEF QualificationsReplay
  <2>3. ManagedCase(H, e.relation) = ManagedCase(p, e.relation)
    BY <1>2, <1>6, ManagedStays
  <2> QED  BY <2>2, <2>3 DEF InvalidationFits
<1> QED  BY <1>12, <1>13 DEF Fits

(***************************************************************************)
(* A relation, also one under the id of a case.                            *)
(***************************************************************************)
LEMMA ReplayedRelationEarned ==
    ASSUME NEW p, Written(p), NEW e, e.ev = "relation", M05Replays(Append(p, e))
    PROVE  EarnedRelation(p, e)
<1> DEFINE H == Append(p, e)
           n == Len(p) + 1
<1>1. GraphReplays(H) /\ CasesCompatible(H)
  BY DEF M05Replays, GatesReplay, StateReplays, QualificationsReplay
<1>2. /\ Unique(p) /\ IsLog(p) /\ Len(p) \in Nat /\ DOMAIN p = 1 .. Len(p)
      /\ Grows(p, H) /\ Unique(H) /\ IsLog(H) /\ DOMAIN H = 1 .. n /\ H[n] = e
      /\ \A i \in 1 .. Len(p) : H[i] = p[i]
  BY <1>1, AfterEvent
<1> HIDE DEF H
<1>3. n \in DOMAIN H /\ n - 1 = Len(p)
  BY <1>2
<1>4. ~HasRelation(p, e.id)
  BY <1>2, <1>3, NewWas
<1> HIDE DEF n
<1>5. n \in Created(H, "relation")
  BY <1>2, <1>3 DEF Created
<1>6. HasRecord(p, e.source) /\ HasRecord(p, e.target)
  BY <1>1, <1>2, <1>3, <1>5, BoundWas DEF GraphReplays
<1>7. RelationAt(H, e.id) = n
  BY <1>2, <1>5, PlaceIs DEF RelationAt, Kinds
<1>8. HasRelation(H, e.id) /\ Relation(H, e.id) = e
  BY <1>2, <1>3, <1>7 DEF HasRelation, Relation
<1>9. ASSUME NEW i \in Records(p, "FeedbackCase"), FeedbackRelationId[p[i].id] = e.id
      PROVE  p[i].body.effect = "invalidate_target" /\ e = FeedbackRelation(p, p[i].id)
  <2>1. i \in Created(p, "record") /\ i \in 1 .. Len(p) /\ p[i].type = "FeedbackCase"
    BY <1>2 DEF Records, Created
  <2>2. HasRecord(p, p[i].id) /\ Record(p, p[i].id) = p[i]
    BY <1>2, <2>1, RecordAtPlace
  <2>3. Body(p, p[i].id) = p[i].body
    BY <2>2 DEF Body
  <2>4. Body(H, p[i].id) = p[i].body
    BY <1>2, <2>2, <2>3, RecordStays
  <2>5. i \in Records(H, "FeedbackCase") /\ H[i] = p[i]
    <3>1. i \in DOMAIN H /\ H[i] = p[i]
      BY <1>2, <1>3, <2>1
    <3> QED  BY <2>1, <3>1 DEF Records, Created
  <2>6. Compatible(H, p[i].id)
    BY <1>1, <1>8, <1>9, <2>5 DEF CasesCompatible
  <2> QED  BY <1>8, <1>9, <2>3, <2>4, <2>6 DEF Compatible, FeedbackRelation
<1> QED  BY <1>4, <1>6, <1>9 DEF EarnedRelation

(***************************************************************************)
(* A relation is never older than the case it leads from.                  *)
(***************************************************************************)
LEMMA ReplayedIsNotOccupied ==
    ASSUME NEW p, Written(p), NEW e, M05Replays(Append(p, e))
    PROVE  ~OpensOccupied(p, e)
<1> SUFFICES ASSUME OpensOccupied(p, e)
             PROVE  FALSE
  OBVIOUS
<1> DEFINE H == Append(p, e)
           n == Len(p) + 1
           rel == FeedbackRelationId[e.id]
<1>1. GraphReplays(H) /\ CasesCompatible(H)
  BY DEF M05Replays, GatesReplay, StateReplays, QualificationsReplay
<1>2. /\ Unique(p) /\ IsLog(p) /\ Len(p) \in Nat /\ DOMAIN p = 1 .. Len(p)
      /\ Grows(p, H) /\ Unique(H) /\ IsLog(H) /\ DOMAIN H = 1 .. n /\ H[n] = e
  BY <1>1, AfterEvent
<1> HIDE DEF H
<1>3. n \in DOMAIN H /\ n - 1 = Len(p)
  BY <1>2
<1>4. e.ev = "record" /\ e.type = "FeedbackCase" /\ HasRelation(p, rel)
  BY DEF OpensOccupied
<1>5. n \in Records(H, "FeedbackCase") /\ n \in Created(H, "record")
  BY <1>2, <1>3, <1>4 DEF Records, Created
<1>6. RecordAt(H, e.id) = n
  BY <1>2, <1>5, RecordAtPlace
<1> HIDE DEF n
<1>7. HasRelation(H, rel) /\ Relation(H, rel) = Relation(p, rel)
  BY <1>2, <1>4, RelationStays
<1>8. Relation(p, rel).source = e.id
  <2>1. Compatible(H, e.id)
    BY <1>1, <1>2, <1>5, <1>7 DEF CasesCompatible
  <2>2. Relation(H, rel) = FeedbackRelation(H, e.id)
    BY <2>1 DEF Compatible
  <2> HIDE DEF rel
  <2> QED  BY <1>7, <2>2 DEF FeedbackRelation
<1>9. HasRecord(p, e.id)
  BY <1>4, <1>8, EndsOf
<1>10. RecordAt(H, e.id) \in 1 .. Len(p)
  BY <1>2, <1>9, RecordStays
<1> QED  BY <1>2, <1>3, <1>6, <1>10

(***************************************************************************)
(* Whatever the views accept after p was earned.                           *)
(***************************************************************************)
LEMMA ReplayedIsEarned ==
    ASSUME NEW p, Written(p), CasesCompatible(p), NEW e, IsEvent(e), M05Replays(Append(p, e))
    PROVE  Earned(p, e)
<1>1. e.ev \in {"record", "relation", "raw", "malformed", "bound", "invalidated", "superseded"}
  BY DEF IsEvent, RelationTypeFor
<1>2. e.ev # "malformed"
  <2> DEFINE H == Append(p, e)
             n == Len(p) + 1
  <2>1. GraphReplays(H)
    BY DEF M05Replays, GatesReplay, StateReplays
  <2>2. n \in DOMAIN H /\ H[n] = e
    BY <2>1, AfterEvent
  <2>3. Created(H, "malformed") = {}
    BY <2>1 DEF GraphReplays
  <2> HIDE DEF H, n
  <2> QED  BY <2>2, <2>3 DEF Created
<1>3. CASE e.ev = "raw"
  BY <1>3 DEF Earned
<1>4. CASE e.ev = "relation"
  <2>1. EarnedRelation(p, e)
    BY <1>4, ReplayedRelationEarned
  <2> QED  BY <1>4, <2>1 DEF Earned
<1>5. CASE e.ev = "record"
  <2>1. RecordFits(p, e)
    BY <1>5, ReplayedRecordFits
  <2>2. CASE e.type \notin SemanticTypes
    BY <1>5, <2>1, <2>2, PlainRecordEarned DEF RecordFits
  <2>3. CASE e.type = "GateDecision"
    BY <1>5, <2>1, <2>3, DecisionEarned
  <2>4. CASE e.type \in SemanticTypes \ {"GateDecision"}
    BY <1>5, <2>1, <2>4, SemanticRecordEarned
  <2> QED  BY <2>2, <2>3, <2>4
<1>6. CASE e.ev \in {"bound", "invalidated", "superseded"}
  <2>1. Fits(p, e)
    BY <1>6, ReplayedActivationFits
  <2>2. e.ev \in DOMAIN RelationTypeFor
    BY <1>6 DEF RelationTypeFor
  <2> QED  BY <2>1, <2>2, ActivationEarned
<1> QED  BY <1>1, <1>2, <1>3, <1>4, <1>5, <1>6

-----------------------------------------------------------------------------
(***************************************************************************)
(* What was earned fits, and the history that it leads to is accepted.     *)
(***************************************************************************)
LEMMA EarnedFits ==
    ASSUME NEW p, Written(p), CasesCompatible(p), NEW e, IsEvent(e), Earned(p, e)
    PROVE  Fits(p, e) /\ (e.ev = "relation" => EarnedRelation(p, e))
<1>1. e.ev \in {"record", "relation", "raw", "malformed", "bound", "invalidated", "superseded"}
  BY DEF IsEvent, RelationTypeFor
<1>2. e.ev # "malformed"
  BY DEF Earned
<1>3. CASE e.ev = "raw"
  BY <1>3 DEF Fits
<1>4. CASE e.ev = "relation"
  <2>1. EarnedRelation(p, e)
    BY <1>4 DEF Earned
  <2> QED  BY <1>4, <2>1 DEF Fits, RelationFits, EarnedRelation
<1>5. CASE e.ev \in {"record", "bound", "invalidated", "superseded"}
  <2>1. \/ \E k \in CallsFor(e) : Accepts(p, States(p), k) /\ EventOf(p, States(p), k) = e
        \/ \E i \in Records(p, "FeedbackCase") :
               /\ e = Qualification(p[i].id)
               /\ MayApply(p, p[i].id)
               /\ MayActivate(p, "invalidated", e.relation)
    BY <1>5 DEF Earned
  <2>2. ASSUME NEW k \in CallsFor(e), Accepts(p, States(p), k), EventOf(p, States(p), k) = e
        PROVE  Fits(p, e)
    <3>1. k.op \in TypedOperations
      BY <2>2 DEF CallsFor, TypedOperations, TypeWritten
    <3> QED  BY <2>2, <3>1, AcceptedFits
  <2>3. ASSUME NEW i \in Records(p, "FeedbackCase"), e = Qualification(p[i].id),
               MayApply(p, p[i].id), MayActivate(p, "invalidated", e.relation)
        PROVE  Fits(p, e)
    <3>1. e.relation = FeedbackRelationId[p[i].id]
      BY <2>3 DEF Qualification
    <3>2. /\ IsOfType(p, p[i].id, "FeedbackCase") /\ SourcesUsable(p, States(p), p[i].id)
      BY <2>3 DEF MayApply
    <3>3. MayActivate(p, "invalidated", FeedbackRelationId[p[i].id])
      BY <2>3, <3>1
    <3>4. Fits(p, [ev |-> "invalidated", relation |-> FeedbackRelationId[p[i].id]])
      BY <3>2, <3>3, QualificationFits
    <3> QED  BY <2>3, <3>4 DEF Qualification
  <2> QED  BY <1>5, <2>1, <2>2, <2>3
<1> QED  BY <1>1, <1>2, <1>3, <1>4, <1>5

LEMMA CompatibleGrows ==
    ASSUME NEW p, Written(p), CasesCompatible(p), NEW e, Fits(p, e), ~OpensOccupied(p, e),
           e.ev = "relation" => EarnedRelation(p, e)
    PROVE  CasesCompatible(Append(p, e))
<1> DEFINE H == Append(p, e)
           n == Len(p) + 1
<1>1. Written(H)
  BY WrittenGrows
<1>2. /\ IsLog(p) /\ Len(p) \in Nat /\ DOMAIN p = 1 .. Len(p) /\ Unique(p)
      /\ Grows(p, H) /\ Unique(H) /\ IsLog(H) /\ DOMAIN H = 1 .. n /\ H[n] = e
      /\ \A i \in 1 .. Len(p) : H[i] = p[i]
  <2>1. GraphReplays(H)
    BY <1>1, GraphOfWritten
  <2> QED  BY <2>1, AfterEvent
<1> HIDE DEF H
<1>3. n \in DOMAIN H /\ \A i \in DOMAIN H : i = n \/ i \in 1 .. Len(p)
  BY <1>2
<1> HIDE DEF n
<1> SUFFICES ASSUME NEW i \in Records(H, "FeedbackCase"),
                    HasRelation(H, FeedbackRelationId[H[i].id])
             PROVE  Compatible(H, H[i].id)
  BY DEF H, CasesCompatible
<1> DEFINE case == H[i].id
           rel  == FeedbackRelationId[case]
           r    == RelationAt(H, rel)
<1>4. /\ i \in DOMAIN H /\ i \in Created(H, "record") /\ H[i].ev = "record"
      /\ H[i].type = "FeedbackCase"
  BY DEF Records, Created
<1>5. /\ r \in DOMAIN H /\ r \in Created(H, "relation") /\ H[r].ev = "relation"
      /\ H[r] = Relation(H, rel) /\ H[r].id = rel
  <2>1. /\ RelationAt(H, rel) \in Created(H, "relation") /\ Relation(H, rel).id = rel
    BY <1>2, RelationFacts
  <2> QED  BY <2>1 DEF Created, Relation
<1>6. r \in 1 .. Len(p) => HasRelation(p, rel) /\ Relation(p, rel) = Relation(H, rel)
  <2>1. ASSUME r \in 1 .. Len(p)
        PROVE  HasRelation(p, rel)
    BY <1>2, <2>1, BoundWas
  <2> QED  BY <1>2, <2>1, RelationStays
<1>7. i # n
  <2> SUFFICES ASSUME i = n
               PROVE  FALSE
    OBVIOUS
  <2>1. e.ev = "record" /\ e.type = "FeedbackCase" /\ case = e.id
    BY <1>2, <1>4
  <2>2. r \in 1 .. Len(p)
    BY <1>2, <1>3, <1>5, <2>1
  <2> QED  BY <1>6, <2>1, <2>2 DEF OpensOccupied
<1>8. i \in 1 .. Len(p) /\ H[i] = p[i] /\ i \in Records(p, "FeedbackCase") /\ p[i].id = case
  BY <1>2, <1>3, <1>4, <1>7 DEF Records, Created
<1>9. HasRecord(p, case) /\ Body(H, case) = Body(p, case) /\ Body(p, case) = p[i].body
  <2>1. i \in Created(p, "record")
    BY <1>8 DEF Records
  <2>2. HasRecord(p, p[i].id) /\ Record(p, p[i].id) = p[i]
    BY <1>2, <2>1, RecordAtPlace
  <2> QED  BY <1>2, <1>8, <2>2, RecordStays DEF Body
<1>10. FeedbackRelation(H, case) = FeedbackRelation(p, case)
  BY <1>9 DEF FeedbackRelation
<1>11. CASE r \in 1 .. Len(p)
  <2>1. HasRelation(p, FeedbackRelationId[p[i].id])
    BY <1>6, <1>8, <1>11
  <2>2. Compatible(p, p[i].id)
    BY <1>8, <2>1 DEF CasesCompatible
  <2>3. Compatible(p, case)
    BY <1>8, <2>2
  <2> QED  BY <1>6, <1>9, <1>10, <1>11, <2>3 DEF Compatible
<1>12. CASE r = n
  <2>1. e.ev = "relation" /\ e.id = rel /\ Relation(H, rel) = e
    BY <1>2, <1>5, <1>12
  <2>2. p[i].body.effect = "invalidate_target" /\ e = FeedbackRelation(p, p[i].id)
    BY <1>8, <2>1 DEF EarnedRelation
  <2> QED  BY <1>8, <1>9, <1>10, <2>1, <2>2 DEF Compatible
<1> QED  BY <1>3, <1>5, <1>11, <1>12

LEMMA EarnedReplays ==
    ASSUME NEW p, Written(p), CasesCompatible(p), NEW e, IsEvent(e),
           Earned(p, e), ~OpensOccupied(p, e)
    PROVE  /\ Written(Append(p, e)) /\ CasesCompatible(Append(p, e))
           /\ M05Replays(Append(p, e))
<1>1. Fits(p, e) /\ (e.ev = "relation" => EarnedRelation(p, e))
  BY EarnedFits
<1>2. Written(Append(p, e)) /\ CasesCompatible(Append(p, e))
  BY <1>1, WrittenGrows, CompatibleGrows
<1> QED  BY <1>2, WrittenReplays

-----------------------------------------------------------------------------
(***************************************************************************)
(* The inductive invariant: all events but the last one were earned, and   *)
(* the last one has an event's shape.                                      *)
(***************************************************************************)
EarnedSoFar(h) ==
    /\ IsLog(h) /\ Len(h) # 0
    /\ Written(Prefix(h, Len(h) - 1)) /\ CasesCompatible(Prefix(h, Len(h) - 1))
    /\ IsEvent(Last(h))

LEMMA LastOf ==
    ASSUME NEW h, IsLog(h), Len(h) # 0
    PROVE  h = Append(Prefix(h, Len(h) - 1), Last(h))
<1> DEFINE p == Prefix(h, Len(h) - 1)
           H == Append(p, Last(h))
<1>1. Len(h) \in Nat /\ Len(h) - 1 \in 0 .. Len(h) /\ Last(h) = h[Len(h)]
  BY LogFacts DEF Last
<1>2. IsLog(p) /\ Len(p) = Len(h) - 1 /\ \A i \in 1 .. Len(h) - 1 : p[i] = h[i]
  BY <1>1, PrefixFacts
<1> HIDE DEF p
<1>3. /\ IsLog(H) /\ Len(H) = Len(p) + 1 /\ H[Len(p) + 1] = Last(h)
      /\ \A i \in 1 .. Len(p) : H[i] = p[i]
  BY <1>2, AppendFacts
<1> HIDE DEF H
<1>4. Len(H) = Len(h)
  BY <1>1, <1>2, <1>3
<1>5. \A i \in 1 .. Len(h) : i = Len(h) \/ i \in 1 .. Len(h) - 1
  BY <1>1
<1>6. Len(p) + 1 = Len(h)
  BY <1>1, <1>2
<1>7. \A i \in 1 .. Len(h) : H[i] = h[i]
  BY <1>1, <1>2, <1>3, <1>5, <1>6
<1>8. H = h
  BY <1>3, <1>4, <1>7, SameLog
<1> QED  BY <1>8 DEF H, p

LEMMA InvariantIsEnough ==
    ASSUME EarnedSoFar(log)
    PROVE  /\ ReplayAcceptsExactlyTheEarned
           /\ M05Replays(log) => Written(log) /\ CasesCompatible(log)
<1> DEFINE p == Prefix(log, Len(log) - 1)
           e == Last(log)
<1>1. Written(p) /\ CasesCompatible(p) /\ IsEvent(e)
  BY DEF EarnedSoFar
<1>2. log = Append(p, e)
  BY LastOf DEF EarnedSoFar
<1> HIDE DEF p, e
<1>3. M05Replays(log) => Earned(p, e) /\ ~OpensOccupied(p, e)
  BY <1>1, <1>2, ReplayedIsEarned, ReplayedIsNotOccupied
<1>4. Earned(p, e) /\ ~OpensOccupied(p, e)
          => Written(log) /\ CasesCompatible(log) /\ M05Replays(log)
  BY <1>1, <1>2, EarnedReplays
<1> QED  BY <1>3, <1>4 DEF ReplayAcceptsExactlyTheEarned, p, e

(***************************************************************************)
(* The typed calls build events.                                           *)
(***************************************************************************)
LEMMA CallsBuildEvents ==
    ASSUME NEW h, NEW st, NEW k, k.op \in TypedOperations
    PROVE  IsEvent(EventOf(h, st, k))
<1> DEFINE e == EventOf(h, st, k)
<1>1. /\ DOMAIN TypeWritten = {"record_verification", "register_policy_snapshot", "request_gate",
                              "evaluate_gate", "register_release", "record_runtime_observation",
                              "open_feedback_case"}
      /\ DOMAIN ActivationOf = {"bind_dependency", "invalidate", "supersede"}
      /\ DOMAIN RelationTypeFor = {"bound", "invalidated", "superseded"}
  BY DEF TypeWritten, ActivationOf, RelationTypeFor
<1>2. CASE k.op = "create_record"
  <2>1. e = [ev |-> "record", id |-> k.id, type |-> k.type, body |-> <<>>]
    BY <1>1, <1>2 DEF EventOf, RecordEvent
  <2> HIDE DEF e
  <2>2. /\ e.ev = "record" /\ e.id = k.id /\ e.type = k.type /\ e.body = <<>>
    BY <2>1
  <2>3. e = RecordEvent(e.id, e.type, e.body)
    BY <2>1, <2>2 DEF RecordEvent
  <2>4. IsEvent(e)
    BY <1>1, <2>2, <2>3 DEF IsEvent
  <2> QED  BY <2>4 DEF e
<1>3. CASE k.op = "create_relation"
  <2>1. k.op \notin DOMAIN TypeWritten /\ k.op \notin DOMAIN ActivationOf
    BY <1>1, <1>3
  <2>2. e = [ev |-> "relation", id |-> k.id, type |-> k.type,
             source |-> k.source, target |-> k.target, case |-> ""]
    BY <1>3, <2>1 DEF EventOf
  <2> HIDE DEF e
  <2>3. e.ev = "relation"
    BY <2>2
  <2>4. IsEvent(e)
    BY <1>1, <2>3 DEF IsEvent
  <2> QED  BY <2>4 DEF e
<1>4. CASE k.op \in DOMAIN TypeWritten
  <2> DEFINE b == BodyOf(h, st, k)
             t == TypeWritten[k.op]
  <2>1. k.op # "create_record" /\ t \in SemanticTypes
    BY <1>1, <1>4 DEF TypeWritten, SemanticTypes
  <2>a. k.op # "create_relation" /\ k.op \notin DOMAIN ActivationOf
    BY <1>1, <1>4
  <2>2. e = [ev |-> "record", id |-> k.id, type |-> t, body |-> b]
    BY <1>4, <2>1, <2>a DEF EventOf, RecordEvent
  <2> HIDE DEF e, b, t
  <2>3. /\ e.ev = "record" /\ e.id = k.id /\ e.type = t /\ e.body = b
    BY <2>2
  <2>4. e = RecordEvent(e.id, e.type, e.body)
    BY <2>2, <2>3 DEF RecordEvent
  <2>5. IsEvent(e)
    BY <1>1, <2>1, <2>3, <2>4 DEF IsEvent
  <2> QED  BY <2>5 DEF e
<1>5. CASE k.op \in DOMAIN ActivationOf
  <2>1. k.op \notin DOMAIN TypeWritten /\ k.op \notin {"create_record", "create_relation"}
    BY <1>1, <1>5
  <2>2. e = [ev |-> ActivationOf[k.op], relation |-> k.relation]
    BY <1>5, <2>1 DEF EventOf
  <2>3. ActivationOf[k.op] \in {"bound", "invalidated", "superseded"}
    BY <1>1, <1>5 DEF ActivationOf
  <2> HIDE DEF e
  <2>4. e.ev = ActivationOf[k.op] /\ e.relation = k.relation
    BY <2>2
  <2>5. IsEvent(e)
    BY <1>1, <2>2, <2>3, <2>4 DEF IsEvent
  <2> QED  BY <2>5 DEF e
<1> QED  BY <1>2, <1>3, <1>4, <1>5 DEF TypedOperations

LEMMA InitIsEarned == Init => EarnedSoFar(log)
<1> SUFFICES ASSUME Init
             PROVE  EarnedSoFar(log)
  OBVIOUS
<1> DEFINE n == Len(log)
           p == Prefix(log, n - 1)
<1>1. log = After(Setup)
  BY DEF Init
<1>2. /\ IsLog(log) /\ log # <<>> /\ DOMAIN Setup = 1 .. n
      /\ \A i \in DOMAIN Setup :
             LET q == Prefix(log, i - 1) IN
             /\ Setup[i].op \in TypedOperations
             /\ CasesCompatible(q) /\ Accepts(q, States(q), Setup[i])
             /\ log[i] = EventOf(q, States(q), Setup[i])
  BY <1>1, SetupAssumption DEF IsLog
<1>3. n \in Nat /\ DOMAIN log = 1 .. n /\ n # 0
  <2>1. n \in Nat /\ DOMAIN log = 1 .. n
    BY <1>2, LogFacts
  <2>2. n = 0 => log = <<>>
    BY <1>2, EmptySeq DEF IsLog
  <2> QED  BY <1>2, <2>1, <2>2
<1>4. Written(log)
  <2>1. ASSUME NEW i \in DOMAIN log
        PROVE  Fits(Prefix(log, i - 1), log[i])
    <3> DEFINE q == Prefix(log, i - 1)
    <3>1. /\ Setup[i].op \in TypedOperations /\ Accepts(q, States(q), Setup[i])
          /\ log[i] = EventOf(q, States(q), Setup[i])
      BY <1>2, <1>3
    <3> HIDE DEF q
    <3>2. Fits(q, log[i])
      BY <3>1, AcceptedFits
    <3> QED  BY <3>2 DEF q
  <2> QED  BY <1>2, <2>1 DEF Written
<1>5. n \in DOMAIN Setup /\ n - 1 \in 0 .. n
  BY <1>2, <1>3
<1>6. Written(p)
  BY <1>4, <1>5, WrittenPrefix
<1>7. /\ CasesCompatible(p) /\ Setup[n].op \in TypedOperations
      /\ log[n] = EventOf(p, States(p), Setup[n])
  BY <1>2, <1>5
<1> HIDE DEF p
<1>8. IsEvent(log[n])
  BY <1>7, CallsBuildEvents
<1> QED  BY <1>2, <1>3, <1>6, <1>7, <1>8 DEF EarnedSoFar, p, Last

LEMMA NextIsEarned == EarnedSoFar(log) /\ [Next]_vars => EarnedSoFar(log)'
<1> SUFFICES ASSUME EarnedSoFar(log), [Next]_vars
             PROVE  EarnedSoFar(log')
  BY DEF EarnedSoFar
<1>1. CASE UNCHANGED vars
  BY <1>1 DEF vars
<1>2. CASE Next
  <2>1. M05Replays(log) /\ Written(log) /\ CasesCompatible(log)
    BY <1>2, InvariantIsEnough DEF Next
  <2>2. \E e : IsEvent(e) /\ log' = Append(log, e)
    <3>1. ASSUME NEW k \in Menu, Typed(k)
          PROVE  \E e : IsEvent(e) /\ log' = Append(log, e)
      BY <3>1, MenuAssumption, CallsBuildEvents DEF Typed
    <3>2. ASSUME NEW case, Propose(case)
          PROVE  \E e : IsEvent(e) /\ log' = Append(log, e)
      <4>1. FeedbackRelation(log, case).ev = "relation"
        BY DEF FeedbackRelation
      <4>2. IsEvent(FeedbackRelation(log, case))
        BY <4>1 DEF IsEvent, RelationTypeFor
      <4> QED  BY <3>2, <4>2 DEF Propose
    <3>3. ASSUME NEW case, Qualify(case)
          PROVE  \E e : IsEvent(e) /\ log' = Append(log, e)
      <4>1. IsEvent(Qualification(case))
        BY DEF IsEvent, RelationTypeFor, Qualification
      <4> QED  BY <3>3, <4>1 DEF Qualify
    <3>4. ASSUME Write
          PROVE  \E e : IsEvent(e) /\ log' = Append(log, e)
      BY <3>4 DEF Write
    <3> QED  BY <1>2, <3>1, <3>2, <3>3, <3>4 DEF Next
  <2>3. PICK e : IsEvent(e) /\ log' = Append(log, e)
    BY <2>2
  <2>4. IsLog(log) /\ Len(log) \in Nat
    BY <2>1, LogFacts DEF Written
  <2>5. /\ IsLog(log') /\ Len(log') = Len(log) + 1 /\ log'[Len(log) + 1] = e
    BY <2>3, <2>4, AppendFacts
  <2>6. Prefix(log', Len(log') - 1) = log
    <3>1. Grows(log, log') /\ Len(log) \in 0 .. Len(log) /\ Len(log') - 1 = Len(log)
      BY <2>3, <2>4, <2>5, AppendGrows
    <3> QED  BY <2>4, <3>1, PrefixOfGrown, PrefixFull
  <2>7. Len(log') # 0 /\ Last(log') = e
    BY <2>4, <2>5 DEF Last
  <2> QED  BY <2>1, <2>3, <2>5, <2>6, <2>7 DEF EarnedSoFar
<1> QED  BY <1>1, <1>2

(***************************************************************************)
(* In every ledger that calls and foreign writers can make, whatever they  *)
(* write: the replay of gates.py and feedback.py accepts it exactly when   *)
(* every event is one that a call would have accepted at its place.        *)
(***************************************************************************)
THEOREM SpecReplayAcceptsExactlyTheEarned == Spec => []ReplayAcceptsExactlyTheEarned
<1>1. Init => EarnedSoFar(log)
  BY InitIsEarned
<1>2. EarnedSoFar(log) /\ [Next]_vars => EarnedSoFar(log)'
  BY NextIsEarned
<1>3. EarnedSoFar(log) => ReplayAcceptsExactlyTheEarned
  BY InvariantIsEnough
<1> QED  BY <1>1, <1>2, <1>3, PTL DEF Spec

=============================================================================
