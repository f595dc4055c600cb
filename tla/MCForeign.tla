----------------------------- MODULE MCForeign -----------------------------
(***************************************************************************)
(* A chain up to an open feedback case and a second, unanswered request;   *)
(* the evidence of either may be invalidated while others write events,    *)
(* honest ones and ones that no call would have made.                      *)
(***************************************************************************)
EXTENDS ForeignHistory

Make(id, type) == [op |-> "create_record", id |-> id, type |-> type]
Relate(id, type, source, target) ==
    [op |-> "create_relation", id |-> id, type |-> type, source |-> source, target |-> target]
Does(op, id, body) == [op |-> op, id |-> id, body |-> body]

Passed(evidence) == [subject |-> "cs", contract |-> "tests", result |-> "pass", claim |-> TRUE,
                     evidence |-> evidence]
Asked(receipts)  == [subject |-> "cs", policy |-> "p", receipts |-> receipts]
Released(ref, decision)     == [ref |-> ref, subject |-> "cs", decision |-> decision]
Judged(class, effect)       == [observation |-> "o", target |-> "cs", class |-> class,
                                effect |-> effect]

ForeignSetup ==
    << Make("cs", "ChangeSet"), Make("proof", "Evidence"), Make("trace", "Evidence"),
       Make("n", "Claim"),
       Does("record_verification", "r", Passed({"proof"})),
       Does("register_policy_snapshot", "p", [requirements |-> "tests" :> 1]),
       Does("request_gate", "q", Asked({"r"})),
       Does("request_gate", "q2", Asked({"r"})),
       [op |-> "evaluate_gate", id |-> "g", request |-> "q"],
       Does("register_release", "v1", Released("1.0", "g")),
       Does("record_runtime_observation", "o", [release |-> "v1", evidence |-> {"trace"}]),
       Does("open_feedback_case", "f", Judged("falsifies", "invalidate_target")),
       Relate("np", "invalidates", "n", "proof"), Relate("nt", "invalidates", "n", "trace") >>

ForeignMenu == {[op |-> "invalidate", relation |-> "np"], [op |-> "invalidate", relation |-> "nt"]}

Honest(h, request) == Evaluate(h, States(h), request)

Decisions(h) ==
    LET permit == [Honest(h, "q2") EXCEPT !.outcome = "permit", !.reasons = {}]
    IN  {RecordEvent("g2", "GateDecision", b) :
            b \in {Honest(h, "q2"), permit, Honest(h, "q"),
                   [permit EXCEPT !.inputs = [i \in {"q2", "cs", "p"} |-> @[i]]],
                   [Honest(h, "q2") EXCEPT !.outcome = "block"]}}

OtherRecords ==
    {RecordEvent("v2", "Release", b) :
        b \in {Released("1.0", "g"), Released("1.1", "g"), Released("1.1", "g2"),
               [Released("1.1", "g") EXCEPT !.subject = "n"]}}
    \cup {RecordEvent("r2", "VerificationReceipt", b) :
        b \in {Passed({}), Passed({"proof"}), Passed({"r3"}),
               [Passed({"proof"}) EXCEPT !.claim = FALSE],
               [Passed({"proof"}) EXCEPT !.result = "partial"],
               [Passed({"proof"}) EXCEPT !.result = "fail"]}}
    \cup {RecordEvent("p2", "PolicySnapshot", [requirements |-> need]) :
        need \in {"tests" :> 0, "tests" :> 2, [c \in {} |-> 1]}}
    \cup {RecordEvent("q3", "GateRequest", b) :
        b \in {Asked({"r2"}), [Asked({}) EXCEPT !.policy = "p2"],
               [Asked({"r"}) EXCEPT !.subject = "n"], [Asked({}) EXCEPT !.subject = "n"]}}
    \cup {RecordEvent("o2", "RuntimeObservation", [release |-> v, evidence |-> {e}]) :
        v \in {"v1", "v2", "g"}, e \in {"trace", "r3"}}
    \cup {RecordEvent("f2", "FeedbackCase", b) :
        b \in {Judged("anomaly", "invalidate_target"), Judged("anomaly", "none"),
               [Judged("violates", "invalidate_target") EXCEPT !.observation = "n"]}}
    \cup {RecordEvent("x", "RiskAssessment", <<>>), RecordEvent("x", "Claim", <<>>)}

Relations ==
    {[ev |-> "relation", id |-> "rel_f", type |-> t, source |-> s, target |-> "cs", case |-> c] :
        t \in {"invalidates", "depends_on"}, s \in {"f", "n"}, c \in {"f", ""}}
    \cup {[ev |-> "relation", id |-> "y", type |-> "depends_on",
           source |-> s, target |-> "cs", case |-> ""] : s \in {"cs", "v2", "v1"}}
    \cup {[ev |-> "relation", id |-> "rel_f2", type |-> "invalidates",
           source |-> "n", target |-> "cs", case |-> ""]}

Activating == {[ev |-> "invalidated", relation |-> r] : r \in {"np", "nt", "rel_f", "z"}}
              \cup {[ev |-> "bound", relation |-> r] : r \in {"nt", "y"}}
              \cup {[ev |-> "superseded", relation |-> "y"]}

ForeignEvents(h) == Decisions(h) \cup OtherRecords \cup Relations \cup Activating
                    \cup {[ev |-> "malformed", id |-> "w"], [ev |-> "raw", id |-> "w"]}

FeedbackCases == "f" :> "rel_f" @@ "f2" :> "rel_f2"

=============================================================================
