------------------------------- MODULE Gates -------------------------------
(***************************************************************************)
(* Verification receipts, policies, gate requests and gate decisions       *)
(* (gates.py).                                                             *)
(***************************************************************************)
EXTENDS CausalHistory

Body(h, id) == Record(h, id).body

\* The binding's target exists before the record at place i, with this type.
BoundBefore(h, i, id) == RecordAt(h, id) \in 1 .. i - 1
BoundAs(h, i, id, type) == BoundBefore(h, i, id) /\ Record(h, id).type = type

(***************************************************************************)
(* What a replay asks of a receipt and of a request at place i.            *)
(***************************************************************************)
ReceiptReplays(h, i) ==
    \A id \in {h[i].body.subject} \cup h[i].body.evidence : BoundBefore(h, i, id)

RequestReplays(h, i) ==
    LET b == h[i].body IN
    /\ BoundAs(h, i, b.subject, "ChangeSet")
    /\ BoundAs(h, i, b.policy, "PolicySnapshot")
    /\ \A r \in b.receipts : /\ BoundAs(h, i, r, "VerificationReceipt")
                             /\ Body(h, r).subject = b.subject

(***************************************************************************)
(* What the builders ask of the caller's snapshot.                         *)
(***************************************************************************)
MayRecordReceipt(h, body) ==
    \A id \in {body.subject} \cup body.evidence : HasRecord(h, id)

MayRequest(h, body) ==
    /\ IsOfType(h, body.subject, "ChangeSet")
    /\ IsOfType(h, body.policy, "PolicySnapshot")
    /\ \A r \in body.receipts : /\ IsOfType(h, r, "VerificationReceipt")
                                /\ Body(h, r).subject = body.subject

-----------------------------------------------------------------------------
(***************************************************************************)
(* The records an evaluation of a request looks at.                        *)
(***************************************************************************)
\* Bug for the mutants: the evidence behind the receipts is not an input.
InputsWithoutEvidence(h, request) ==
    LET b == Body(h, request) IN {request, b.subject, b.policy} \cup b.receipts

Inputs(h, request) ==
    LET b == Body(h, request)
    IN  {request, b.subject, b.policy} \cup b.receipts
            \cup UNION {Body(h, r).evidence : r \in b.receipts}

(***************************************************************************)
(* The passing, usable receipts of a request that count for a contract.    *)
(***************************************************************************)
Eligible(h, st, request, contract) ==
    {r \in Body(h, request).receipts :
        /\ Body(h, r).contract = contract
        /\ Body(h, r).result = "pass"
        /\ Usable(st[r])
        /\ \A e \in Body(h, r).evidence : Usable(st[e])}

(***************************************************************************)
(* Why a request is blocked; nothing to say means permit.                  *)
(***************************************************************************)
Reasons(h, st, request) ==
    LET b    == Body(h, request)
        need == Body(h, b.policy).requirements
    IN  {<<"input_not_usable", i>> : i \in {j \in Inputs(h, request) : ~Usable(st[j])}}
        \cup {<<"receipt_not_pass", r>> : r \in {q \in b.receipts : Body(h, q).result # "pass"}}
        \cup {<<"requirement_unsatisfied", c>> :
                 c \in {d \in DOMAIN need :
                           Cardinality(Eligible(h, st, request, d)) < need[d]}}

(***************************************************************************)
(* The decision body a request evaluates to over history h with states st. *)
(***************************************************************************)
Evaluate(h, st, request) ==
    LET reasons == Reasons(h, st, request)
    IN  [request |-> request,
         subject |-> Body(h, request).subject,
         inputs  |-> [i \in Inputs(h, request) |-> st[i]],
         reasons |-> reasons,
         outcome |-> IF reasons = {} THEN "permit" ELSE "block"]

DecisionsOn(h, request) ==
    {i \in Created(h, "record") : h[i].type = "GateDecision" /\ h[i].body.request = request}

MayEvaluate(h, request) ==
    /\ IsOfType(h, request, "GateRequest")
    /\ DecisionsOn(h, request) = {}
    /\ RequestReplays(h, RecordAt(h, request))

(***************************************************************************)
(* A replay re-evaluates the request over the history before the decision. *)
(***************************************************************************)
\* Bug for the mutants: a stored decision is only compared with its request.
DecisionReplaysByShape(h, i) ==
    LET b == h[i].body IN
    /\ \A j \in DecisionsOn(h, b.request) : j >= i
    /\ BoundAs(h, i, b.request, "GateRequest")
    /\ b.subject = Body(h, b.request).subject

DecisionReplays(h, i) ==
    LET p == Prefix(h, i - 1)
        b == h[i].body
    IN  /\ \A j \in DecisionsOn(h, b.request) : j >= i
        /\ IsOfType(p, b.request, "GateRequest")
        /\ RequestReplays(p, RecordAt(p, b.request))
        /\ b = Evaluate(p, States(p), b.request)

GatesReplay(h) ==
    /\ StateReplays(h)
    /\ \A i \in Created(h, "record") :
           CASE h[i].type = "VerificationReceipt" -> ReceiptReplays(h, i)
             [] h[i].type = "GateRequest"         -> RequestReplays(h, i)
             [] h[i].type = "GateDecision"        -> DecisionReplays(h, i)
             [] OTHER                             -> TRUE

(***************************************************************************)
(* A decision is fresh while it is usable itself and no input's effective  *)
(* state moved since the evaluation.                                       *)
(***************************************************************************)
DecisionFresh(h, st, d) ==
    /\ Usable(st[d])
    /\ \A i \in DOMAIN Body(h, d).inputs : st[i] = Body(h, d).inputs[i]

=============================================================================
