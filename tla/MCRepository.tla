---------------------------- MODULE MCRepository ----------------------------
(***************************************************************************)
(* Small instances of the repository.  Every scenario starts from a ledger *)
(* that a few sequential calls left (its setup) and lets the clients race  *)
(* over the calls of its menu.                                             *)
(***************************************************************************)
EXTENDS RepositoryProperties

Make(id, type) == [op |-> "create_record", id |-> id, type |-> type]
Relate(id, type, source, target) ==
    [op |-> "create_relation", id |-> id, type |-> type, source |-> source, target |-> target]
Bind(rel)       == [op |-> "bind_dependency", relation |-> rel]
Invalidate(rel) == [op |-> "invalidate", relation |-> rel]
Supersede(rel)  == [op |-> "supersede", relation |-> rel]
Raw(id)         == [op |-> "raw", id |-> id]
Evaluation(id, request) == [op |-> "evaluate_gate", id |-> id, request |-> request]
Release(id, ref, subject, decision) ==
    [op |-> "register_release", id |-> id,
     body |-> [ref |-> ref, subject |-> subject, decision |-> decision]]
Apply(case)     == [op |-> "apply_feedback", case |-> case]

Scene(setup, menu, failures) == [setup |-> setup, menu |-> menu, maxFaults |-> failures]

NoCases == [c \in {} |-> ""]

Clients == Permutations(Client)

-----------------------------------------------------------------------------
(***************************************************************************)
(* The whole chain from a receipt to the application of feedback, one call *)
(* after the other or raced: n invalidates the evidence at any point, and  *)
(* a plain record wants the receipt's id.                                  *)
(***************************************************************************)
ChainSetup ==
    << Make("cs", "ChangeSet"), Make("proof", "Evidence"), Make("n", "Claim"),
       Relate("np", "invalidates", "n", "proof"),
       [op |-> "register_policy_snapshot", id |-> "p",
        body |-> [requirements |-> "tests" :> 1]] >>

ChainMenu ==
    { [op |-> "record_verification", id |-> "r",
       body |-> [subject |-> "cs", contract |-> "tests", result |-> "pass", claim |-> TRUE,
                 evidence |-> {"proof"}]],
      Make("r", "Claim"), Make("g", "GateDecision"),
      [op |-> "request_gate", id |-> "q",
       body |-> [subject |-> "cs", policy |-> "p", receipts |-> {"r"}]],
      Evaluation("g", "q"), Release("v1", "1.0", "cs", "g"),
      [op |-> "record_runtime_observation", id |-> "o",
       body |-> [release |-> "v1", evidence |-> {"proof"}]],
      [op |-> "open_feedback_case", id |-> "f",
       body |-> [observation |-> "o", target |-> "cs", class |-> "falsifies",
                  effect |-> "invalidate_target"]],
      Apply("f"), Invalidate("np") }

FeedbackCases == "f" :> "rel_f"

-----------------------------------------------------------------------------
(***************************************************************************)
(* Effective states.  Four claims that may depend on each other in a cycle  *)
(* (a on b, b on c, c on a) and over a short cut (a on c); n invalidates c *)
(* and m invalidates n; c2 and c3 both want to supersede c, c3 wants to    *)
(* supersede c2, and c wants to supersede c2.                              *)
(***************************************************************************)
StateSetup ==
    << Make("a", "Claim"), Make("b", "Claim"), Make("c", "Claim"),
       Make("c2", "Claim"), Make("c3", "Claim"), Make("n", "Claim"), Make("m", "Claim"),
       Relate("ab", "depends_on", "a", "b"), Relate("bc", "depends_on", "b", "c"),
       Relate("ca", "depends_on", "c", "a"), Relate("ac", "depends_on", "a", "c"),
       Relate("nc", "invalidates", "n", "c"), Relate("mn", "invalidates", "m", "n"),
       Relate("s2", "supersedes", "c2", "c"), Relate("s3", "supersedes", "c3", "c"),
       Relate("s32", "supersedes", "c3", "c2"), Relate("sb", "supersedes", "c", "c2"),
       Bind("ab") >>

CycleMenu == {Bind(r) : r \in {"bc", "ca", "ac"}}
             \cup {Invalidate(r) : r \in {"nc", "mn"}} \cup {Supersede("s2")}

LinesMenu == {Bind("ca"), Invalidate("nc"), Invalidate("mn")}
             \cup {Supersede(r) : r \in {"s2", "s3", "s32", "sb"}}

-----------------------------------------------------------------------------
(***************************************************************************)
(* Gates.  A change set with one passing receipt whose evidence depends on *)
(* a base; a request for it.  Two clients evaluate the request while n     *)
(* invalidates the base, m invalidates n, and the decision g1 itself may   *)
(* be invalidated.                                                         *)
(***************************************************************************)
GateSetup ==
    << Make("cs", "ChangeSet"), Make("base", "Claim"), Make("proof", "Evidence"),
       Make("n", "Claim"), Make("m", "Claim"),
       [op |-> "record_verification", id |-> "r",
        body |-> [subject |-> "cs", contract |-> "tests", result |-> "pass", claim |-> TRUE,
                  evidence |-> {"proof"}]],
       [op |-> "register_policy_snapshot", id |-> "p",
        body |-> [requirements |-> "tests" :> 1]],
       [op |-> "request_gate", id |-> "q",
        body |-> [subject |-> "cs", policy |-> "p", receipts |-> {"r"}]],
       Relate("pb", "depends_on", "proof", "base"), Relate("cb", "depends_on", "cs", "base"),
       Relate("nb", "invalidates", "n", "base"), Relate("mn", "invalidates", "m", "n") >>

GateMenu == {Evaluation("g1", "q"), Evaluation("g2", "q"),
             Bind("pb"), Invalidate("nb"), Invalidate("mn"),
             Relate("ng", "invalidates", "n", "g1"), Invalidate("ng")}

-----------------------------------------------------------------------------
(***************************************************************************)
(* Releases.  The gate's request is permitted by g; two releases want the  *)
(* same ref, a third another one, while the evidence loses its base.       *)
(***************************************************************************)
ReleaseSetup == GateSetup \o << Evaluation("g", "q") >>

ReleaseMenu == {Release("v1", "1.0", "cs", "g"), Release("v2", "1.0", "cs", "g"),
                Release("v3", "1.1", "cs", "g"),
                Bind("pb"), Invalidate("nb"), Invalidate("mn")}

-----------------------------------------------------------------------------
(***************************************************************************)
(* Feedback.  A release was observed and a case wants its change set       *)
(* invalidated; clients apply the case, others move the head (raw events), *)
(* invalidate the evidence the observation rests on, or try to qualify the *)
(* relation of the case themselves.                                        *)
(***************************************************************************)
FeedbackSetup ==
    ReleaseSetup \o
    << Release("v1", "1.0", "cs", "g"), Make("trace", "Evidence"),
       [op |-> "record_runtime_observation", id |-> "o",
        body |-> [release |-> "v1", evidence |-> {"trace"}]],
       [op |-> "open_feedback_case", id |-> "f",
        body |-> [observation |-> "o", target |-> "cs", class |-> "falsifies",
                  effect |-> "invalidate_target"]],
       Relate("nt", "invalidates", "n", "trace") >>

FeedbackMenu == {Apply("f"), Invalidate("nt"), Invalidate("rel_f"),
                 Raw("x1"), Raw("x2")}

RetryMenu == {Apply("f"), Invalidate("nt")}

(***************************************************************************)
(* A permitted release, as short as it gets.                               *)
(***************************************************************************)
Released ==
    << Make("cs", "ChangeSet"), Make("proof", "Evidence"),
       [op |-> "record_verification", id |-> "r",
        body |-> [subject |-> "cs", contract |-> "tests", result |-> "pass", claim |-> TRUE,
                  evidence |-> {"proof"}]],
       [op |-> "register_policy_snapshot", id |-> "p",
        body |-> [requirements |-> "tests" :> 1]],
       [op |-> "request_gate", id |-> "q",
        body |-> [subject |-> "cs", policy |-> "p", receipts |-> {"r"}]],
       Evaluation("g", "q"), Release("v1", "1.0", "cs", "g") >>

(***************************************************************************)
(* The id derived from a case may be taken: by a relation made before the  *)
(* case or after it, or by an event of another kind.                       *)
(***************************************************************************)
OccupiedSetup ==
    Released \o
    << Make("n", "Claim"), Make("trace", "Evidence"),
       [op |-> "record_runtime_observation", id |-> "o",
        body |-> [release |-> "v1", evidence |-> {"trace"}]] >>

OpenCase == [op |-> "open_feedback_case", id |-> "f",
             body |-> [observation |-> "o", target |-> "cs", class |-> "falsifies",
                  effect |-> "invalidate_target"]]

OccupiedMenu == {OpenCase, Apply("f"), Invalidate("rel_f"), Raw("x1"),
                 Relate("rel_f", "invalidates", "n", "cs"),
                 Relate("rel_f", "invalidates", "f", "cs")}

IdTakenSetup == OccupiedSetup \o << OpenCase >>

IdTakenMenu == {Make("rel_f", "Claim"), Apply("f"), Raw("x1")}

(***************************************************************************)
(* Two cases on two observations, each wanting the evidence of the other   *)
(* invalidated.                                                            *)
(***************************************************************************)
DuelSetup ==
    Released \o
    << Make("trace", "Evidence"), Make("trace2", "Evidence"),
       [op |-> "record_runtime_observation", id |-> "o",
        body |-> [release |-> "v1", evidence |-> {"trace"}]],
       [op |-> "record_runtime_observation", id |-> "o2",
        body |-> [release |-> "v1", evidence |-> {"trace2"}]],
       [op |-> "open_feedback_case", id |-> "f",
        body |-> [observation |-> "o", target |-> "trace2", class |-> "falsifies",
                  effect |-> "invalidate_target"]],
       [op |-> "open_feedback_case", id |-> "f2",
        body |-> [observation |-> "o2", target |-> "trace", class |-> "falsifies",
                  effect |-> "invalidate_target"]] >>

DuelMenu == {Apply("f"), Apply("f2")}

DuelCases == "f" :> "rel_f" @@ "f2" :> "rel_f2"

-----------------------------------------------------------------------------
(***************************************************************************)
(* The scenarios of each run.                                              *)
(***************************************************************************)
CaseScenarios == "chain"    :> Scene(ChainSetup, ChainMenu, 0)
              @@ "gate"     :> Scene(GateSetup, GateMenu, 0)
              @@ "release"  :> Scene(ReleaseSetup, ReleaseMenu, 0)
              @@ "feedback" :> Scene(FeedbackSetup, FeedbackMenu, 1)
              @@ "occupied" :> Scene(OccupiedSetup, OccupiedMenu, 0)

PromiseScenarios == "duel"     :> Scene(DuelSetup, DuelMenu, 1)
                 @@ "occupied" :> Scene(OccupiedSetup, OccupiedMenu \ {Raw("x1")}, 0)

LiveScenarios == "retry" :> Scene(FeedbackSetup, RetryMenu, 2)

IdTakenScenario == "id taken" :> Scene(IdTakenSetup, IdTakenMenu, 0)

JournalScenario == "journal" :> Scene(FeedbackSetup, {Apply("f")}, 1)
=============================================================================
