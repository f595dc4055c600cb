----------------------------- MODULE Operations -----------------------------
(***************************************************************************)
(* The typed operations of CausalRepository (causal.py) as functions of    *)
(* the snapshot they are called on: whether a call is accepted, and which  *)
(* event it builds.  A call is a record with a field op, the name of the   *)
(* operation, and the operation's arguments.                               *)
(***************************************************************************)
EXTENDS Feedback

RecordEvent(id, type, body) ==
    [ev |-> "record", id |-> id, type |-> type, body |-> body]

ActivationOf == [bind_dependency |-> "bound",
                 invalidate      |-> "invalidated",
                 supersede       |-> "superseded"]

NewId(h, id) == ~HasRecord(h, id)

\* The ledger takes no second event under an id; activations get random ones.
IdIsNew(h, e) ==
    "id" \in DOMAIN e => \A i \in DOMAIN h : "id" \in DOMAIN h[i] => h[i].id # e.id

\* Types that create_record refuses: they have an operation of their own, or none yet.
ReservedTypes == SemanticTypes \cup UnwrittenTypes

\* The operation that writes each type of semantic record.
TypeWritten == [record_verification        |-> "VerificationReceipt",
                register_policy_snapshot   |-> "PolicySnapshot",
                request_gate               |-> "GateRequest",
                evaluate_gate              |-> "GateDecision",
                register_release           |-> "Release",
                record_runtime_observation |-> "RuntimeObservation",
                open_feedback_case         |-> "FeedbackCase"]

\* The operations whose event is built from one snapshot.
TypedOperations == {"create_record", "create_relation"}
                       \cup DOMAIN TypeWritten \cup DOMAIN ActivationOf

(***************************************************************************)
(* Does the graph, state, gate or feedback view of snapshot h (with states *)
(* st) allow the call?                                                     *)
(***************************************************************************)
\* Bug for the mutants: invalidate also qualifies a managed relation.
AcceptsManaged(h, rel) == TRUE

NotManaged(h, rel) == ManagedCase(h, rel) = ""

Allowed(h, st, k) ==
    CASE k.op = "record_verification"        -> MayRecordReceipt(h, k.body)
      [] k.op = "request_gate"               -> MayRequest(h, k.body)
      [] k.op = "evaluate_gate"              -> MayEvaluate(h, k.request)
      [] k.op = "register_release"           -> MayRelease(h, st, k.body)
      [] k.op = "record_runtime_observation" -> MayObserve(h, k.body)
      [] k.op = "open_feedback_case"         -> MayOpenCase(h, k.body)
      [] k.op = "create_relation"            -> /\ HasRecord(h, k.source)
                                                /\ HasRecord(h, k.target)
                                                /\ ~HasRelation(h, k.id)
      [] k.op = "invalidate"                 -> /\ MayActivate(h, "invalidated", k.relation)
                                                /\ NotManaged(h, k.relation)
      [] k.op \in {"bind_dependency", "supersede"} ->
             MayActivate(h, ActivationOf[k.op], k.relation)
      [] OTHER                               -> TRUE

(***************************************************************************)
(* The body of the semantic record and the event the call builds.          *)
(***************************************************************************)
BodyOf(h, st, k) == IF k.op = "evaluate_gate" THEN Evaluate(h, st, k.request) ELSE k.body

EventOf(h, st, k) ==
    CASE k.op = "create_record"         -> RecordEvent(k.id, k.type, <<>>)
      [] k.op \in DOMAIN TypeWritten    ->
             RecordEvent(k.id, TypeWritten[k.op], BodyOf(h, st, k))
      [] k.op = "create_relation"       ->
             [ev |-> "relation", id |-> k.id, type |-> k.type,
              source |-> k.source, target |-> k.target, case |-> ""]
      [] k.op \in DOMAIN ActivationOf   ->
             [ev |-> ActivationOf[k.op], relation |-> k.relation]

(***************************************************************************)
(* The call is accepted: the views allow it, its record has a new id, a    *)
(* type the operation may write and a body that keeps its contract.        *)
(***************************************************************************)
Accepts(h, st, k) ==
    /\ Allowed(h, st, k)
    /\ k.op = "create_record" => k.type \notin ReservedTypes
    /\ k.op \in DOMAIN TypeWritten => PayloadContract(TypeWritten[k.op], BodyOf(h, st, k))
    /\ k.op \in {"create_record"} \cup DOMAIN TypeWritten => NewId(h, k.id)

(***************************************************************************)
(* The history one client alone leaves with a sequence of calls.           *)
(***************************************************************************)
Perform(h, k) == Append(h, EventOf(h, States(h), k))

After(calls) == FoldLeft(Perform, <<>>, calls)

=============================================================================
