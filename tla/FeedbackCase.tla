---------------------------- MODULE FeedbackCase ----------------------------
(***************************************************************************)
(* What apply_feedback promises about one feedback case, without ledger,   *)
(* snapshots or retries: the case goes from open over proposed to applied, *)
(* is applied only while it is eligible, is never eligible again once it   *)
(* is not, and a caller that gets an answer gets a lasting one.  A case    *)
(* whose relation id somebody took for other content is in conflict: it is *)
(* never applied and nobody is told anything about it.                     *)
(* The refinement is Application in RepositoryProperties.                  *)
(***************************************************************************)
CONSTANT Caller

VARIABLES state,      \* FeedbackApplicationState, "not_open" before the case exists
          eligible,   \* may the case be given authority?
          calling,    \* the callers that are applying the case
          answer      \* what each caller was told, "none" if nothing

vars == <<state, eligible, calling, answer>>

Answers == {"none", "applied", "ineligible"}

TypeOK == /\ state \in {"not_open", "not_applied", "pending_qualification", "applied",
                        "conflict"}
          /\ eligible \in BOOLEAN
          /\ calling \subseteq Caller
          /\ answer \in [Caller -> Answers]

\* The ledger may hold the relation already, but nobody has applied the case.
Init == /\ state \in {"not_open", "not_applied", "pending_qualification", "conflict"}
        /\ eligible \in BOOLEAN
        /\ calling = {}
        /\ answer = [c \in Caller |-> "none"]

Open == /\ state = "not_open"
        /\ state' \in {"not_applied", "conflict"}
        /\ eligible' \in BOOLEAN
        /\ UNCHANGED <<calling, answer>>

\* The case, its observation or some evidence is invalidated.
LoseEligibility == /\ state # "not_open"
                   /\ UNCHANGED <<state, calling, answer>>
                   /\ eligible
                   /\ eligible' = FALSE

Call(c) == /\ c \notin calling
           /\ calling' = calling \cup {c}
           /\ answer' = [answer EXCEPT ![c] = "none"]
           /\ UNCHANGED <<state, eligible>>

\* The id derived from the case is taken for something else.
Occupy == /\ state = "not_applied"
          /\ state' = "conflict"
          /\ UNCHANGED <<eligible, calling, answer>>

\* The relation is proposed, by a caller or by a plain create_relation of the same
\* content: without it nothing is applied, and it has no effect itself.
Propose == /\ state = "not_applied"
           /\ state' = "pending_qualification"
           /\ UNCHANGED <<eligible, calling, answer>>

\* The relation is qualified.  The target may be what the case rests on.
Apply == /\ calling # {}
         /\ state = "pending_qualification"
         /\ eligible
         /\ state' = "applied"
         /\ eligible' \in BOOLEAN
         /\ UNCHANGED <<calling, answer>>

(***************************************************************************)
(* A call ends: with an answer, or with none (it gave up, failed or died). *)
(***************************************************************************)
Justified(a) == /\ a = "applied" => state = "applied"
                /\ a = "ineligible" => state \notin {"not_open", "applied"} /\ ~eligible

Return(c) == /\ c \in calling
             /\ calling' = calling \ {c}
             /\ \E a \in {b \in Answers : Justified(b)} :
                    /\ state = "conflict" => a = "none"
                    /\ answer' = [answer EXCEPT ![c] = a]
             /\ UNCHANGED <<state, eligible>>

\* The caller turns to something else.
Forget(c) == /\ c \notin calling
             /\ answer' = [answer EXCEPT ![c] = "none"]
             /\ UNCHANGED <<state, eligible, calling>>

Evolve == Open \/ Occupy \/ LoseEligibility \/ Propose \/ Apply

Next == \/ Evolve
        \/ \E c \in Caller : Call(c) \/ Return(c) \/ Forget(c)

Spec == Init /\ [][Next]_vars

(***************************************************************************)
(* An answer of apply_feedback stays true: an applied case stays applied,  *)
(* and a case that somebody was refused is never applied by anybody.       *)
(***************************************************************************)
AnswersLast == \A c \in Caller : Justified(answer[c])

=============================================================================
