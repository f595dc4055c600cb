------------------------- MODULE FeedbackCaseProofs -------------------------
(***************************************************************************)
(* Theorems about the promise of apply_feedback, for any number of callers *)
(* and any number of calls.                                                *)
(***************************************************************************)
EXTENDS FeedbackCase, TLAPS

(***************************************************************************)
(* The states, the callers and their answers keep their types.             *)
(***************************************************************************)
THEOREM TypeCorrect == Spec => []TypeOK
<1>1. Init => TypeOK
  BY DEF Init, TypeOK, Answers
<1>2. ASSUME TypeOK, [Next]_vars PROVE TypeOK'
  <2> USE <1>2 DEF TypeOK, Answers
  <2>1. CASE Evolve
    BY <2>1 DEF Evolve, Open, Occupy, LoseEligibility, Propose, Apply
  <2>2. ASSUME NEW c \in Caller, Call(c) PROVE TypeOK'
    BY <2>2 DEF Call
  <2>3. ASSUME NEW c \in Caller, Return(c) PROVE TypeOK'
    BY <2>3 DEF Return
  <2>4. ASSUME NEW c \in Caller, Forget(c) PROVE TypeOK'
    BY <2>4 DEF Forget
  <2>5. CASE UNCHANGED vars
    BY <2>5 DEF vars
  <2>6. QED
    BY <1>2, <2>1, <2>2, <2>3, <2>4, <2>5 DEF Next
<1>3. QED
  BY <1>1, <1>2, PTL DEF Spec

(***************************************************************************)
(* What apply_feedback answered stays true for ever: an applied case stays *)
(* applied, a case somebody was refused is never applied.  No step that    *)
(* changes the case can take an answer's ground away.                      *)
(***************************************************************************)
LEMMA CaseKeepsAnswers ==
    ASSUME TypeOK, Evolve,
           NEW a \in Answers, Justified(a)
    PROVE  Justified(a)'
  BY DEF TypeOK, Answers, Justified, Evolve, Open, Occupy, LoseEligibility, Propose, Apply

(***************************************************************************)
(* An answer of the abstract case stays true: applied stays applied, and a *)
(* case refused as ineligible is never applied (apply_feedback).           *)
(***************************************************************************)
THEOREM AnswersHold == Spec => []AnswersLast
<1>1. Init => AnswersLast
  BY DEF Init, AnswersLast, Justified
<1>2. ASSUME TypeOK, AnswersLast, [Next]_vars PROVE AnswersLast'
  <2>1. CASE Evolve
    <3>1. answer' = answer
      BY <2>1 DEF Evolve, Open, Occupy, LoseEligibility, Propose, Apply
    <3>2. ASSUME NEW c \in Caller PROVE Justified(answer[c])'
      <4>1. answer[c] \in Answers /\ Justified(answer[c])
        BY <1>2 DEF TypeOK, AnswersLast
      <4>2. PICK a \in Answers : a = answer[c]
        BY <4>1
      <4>3. Justified(a)'
        BY <1>2, <2>1, <4>1, <4>2, CaseKeepsAnswers
      <4>4. QED
        BY <3>1, <4>2, <4>3 DEF Justified
    <3>3. QED
      BY <3>2 DEF AnswersLast
  <2>2. ASSUME NEW c \in Caller, Call(c) PROVE AnswersLast'
    BY <1>2, <2>2 DEF Call, TypeOK, AnswersLast, Justified
  <2>3. ASSUME NEW c \in Caller, Return(c) PROVE AnswersLast'
    BY <1>2, <2>3 DEF Return, TypeOK, AnswersLast, Justified
  <2>4. ASSUME NEW c \in Caller, Forget(c) PROVE AnswersLast'
    BY <1>2, <2>4 DEF Forget, TypeOK, AnswersLast, Justified
  <2>5. CASE UNCHANGED vars
    BY <1>2, <2>5 DEF vars, AnswersLast, Justified
  <2>6. QED
    BY <1>2, <2>1, <2>2, <2>3, <2>4, <2>5 DEF Next
<1>3. QED
  BY <1>1, <1>2, TypeCorrect, PTL DEF Spec

=============================================================================
