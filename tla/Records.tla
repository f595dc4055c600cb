------------------------------ MODULE Records ------------------------------
(***************************************************************************)
(* The contracts of typed records (records.py): what a body must look like *)
(* by itself, whoever writes the record and whatever the ledger holds.     *)
(* The same models check the drafts of the builders and the events of a    *)
(* replay.  Fields that neither these contracts nor any derived view look  *)
(* at (names, environments, rationales) are left out; bindings that must   *)
(* be unique by record id are sets.                                        *)
(*                                                                         *)
(*   VerificationReceipt  subject, contract, result, claim (is there one?),*)
(*                        evidence (a set)                                 *)
(*   PolicySnapshot       requirements: contract -> minimum of passes      *)
(*   GateRequest          subject, policy, receipts (a set)                *)
(*   GateDecision         request, subject, inputs: id -> effective state, *)
(*                        reasons (a set), outcome                         *)
(*   Release              ref, subject, decision                           *)
(*   RuntimeObservation   release, evidence (a set)                        *)
(*   FeedbackCase         observation, target, class, effect               *)
(***************************************************************************)
EXTENDS Naturals, FiniteSets

SemanticTypes == {"VerificationReceipt", "PolicySnapshot", "GateRequest", "GateDecision",
                  "Release", "RuntimeObservation", "FeedbackCase"}

\* Types whose contract is not written yet: nobody may create one.
UnwrittenTypes == {"RiskAssessment"}

(***************************************************************************)
(* A pass says what it verified; a fail or an inconclusive result claims   *)
(* nothing; a partial one may.                                             *)
(***************************************************************************)
ReceiptContract(body) ==
    /\ body.evidence # {}
    /\ body.result = "pass" => body.claim
    /\ body.result \in {"fail", "inconclusive"} => ~body.claim

PolicyContract(body) == /\ DOMAIN body.requirements # {}
                        /\ \A c \in DOMAIN body.requirements : body.requirements[c] >= 1

DecisionContract(body) == /\ Cardinality(DOMAIN body.inputs) >= 3
                          /\ body.outcome = "permit" <=> body.reasons = {}

\* Only a verdict against the target may invalidate it.
CaseContract(body) == body.effect = "invalidate_target" =>
                          body.class \in {"falsifies", "contradicts", "violates"}

PayloadContract(type, body) ==
    /\ type \notin UnwrittenTypes
    /\ CASE type = "VerificationReceipt" -> ReceiptContract(body)
         [] type = "PolicySnapshot"      -> PolicyContract(body)
         [] type = "GateDecision"        -> DecisionContract(body)
         [] type = "FeedbackCase"        -> CaseContract(body)
         [] OTHER                        -> TRUE

=============================================================================
