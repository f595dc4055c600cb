----------------------------- MODULE Repository -----------------------------
(***************************************************************************)
(* CausalRepository (causal.py): the typed operations, called by clients   *)
(* that run at the same time against one ledger.  A call reads a snapshot, *)
(* validates and builds its event on it, and appends the event if the head *)
(* has not moved (the Ledger module shows that this append is atomic).     *)
(* apply_feedback is a loop of such appends.                               *)
(*                                                                         *)
(* A call is a record with a field op, the name of the operation, and the  *)
(* operation's arguments; what it accepts and builds is in Operations.     *)
(***************************************************************************)
EXTENDS Operations

CONSTANTS Client,      \* processes and threads that use the repository
          Scenario     \* name -> setup, the calls one client made before it starts;
                       \*   menu, the calls the clients may make; maxFaults, the
                       \*   bound on accesses that the database fails, or that
                       \*   die and leave a journal

VARIABLES log,      \* the ledger
          pc,       \* where each client is in its call
          call,     \* what it called
          pending,  \* the event it built
          at,       \* the length of the history it built it on
          loop,     \* apply_feedback: iterations, and what happened since the call
          answer,   \* what the last apply_feedback returned
          faults,   \* accesses that failed, or left a journal, so far
          hot,      \* is there a journal that a death inside COMMIT left?
          scenario  \* what this behaviour started with

vars == <<log, pc, call, pending, at, loop, answer, faults, hot, scenario>>

(***************************************************************************)
(* The ledger a behaviour starts with is one that accepted calls wrote,    *)
(* one event each; the menu holds calls of the operations.                 *)
(***************************************************************************)
ASSUME SetupAssumption ==
    \A name \in DOMAIN Scenario :
        LET setup == Scenario[name].setup
            h     == After(setup)
        IN  /\ h \in Seq({h[i] : i \in DOMAIN h})
            /\ DOMAIN setup = 1 .. Len(h)
            /\ \A n \in DOMAIN setup :
                   LET p == Prefix(h, n - 1) IN
                   /\ setup[n].op \in TypedOperations
                   /\ Accepts(p, States(p), setup[n])
                   /\ h[n] = EventOf(p, States(p), setup[n])

ASSUME MenuAssumption ==
    \A name \in DOMAIN Scenario :
        /\ \A k \in Scenario[name].menu : k.op \in TypedOperations \cup {"apply_feedback", "raw"}
        /\ Scenario[name].maxFaults \in Nat

NoEvent == [ev |-> "none"]
NoCall  == [op |-> "none"]
NewLoop == [tries |-> 0, begun |-> 0, own |-> 0, faults |-> 0]

Menu      == Scenario[scenario].menu
MaxFaults == Scenario[scenario].maxFaults

Init == /\ scenario \in DOMAIN Scenario
        /\ log = After(Scenario[scenario].setup)
        /\ pc = [c \in Client |-> "idle"]
        /\ call = [c \in Client |-> NoCall]
        /\ pending = [c \in Client |-> NoEvent]
        /\ at = [c \in Client |-> 0]
        /\ loop = [c \in Client |-> NewLoop]
        /\ answer = [c \in Client |-> "none"]
        /\ faults = 0
        /\ hot = FALSE

-----------------------------------------------------------------------------
(***************************************************************************)
(* The client is out of its call, with this answer.                        *)
(***************************************************************************)
Answer(c, a) == /\ pc' = [pc EXCEPT ![c] = "idle"]
                /\ call' = [call EXCEPT ![c] = IF a \in {"applied", "ineligible"} THEN @ ELSE NoCall]
                /\ pending' = [pending EXCEPT ![c] = NoEvent]
                /\ at' = [at EXCEPT ![c] = 0]
                /\ loop' = [loop EXCEPT ![c] = NewLoop]
                /\ answer' = [answer EXCEPT ![c] = a]

Goto(c, l) == pc' = [pc EXCEPT ![c] = l]

\* The client has read the ledger and built e on it.
Build(c, e, l) == /\ pending' = [pending EXCEPT ![c] = e]
                  /\ at' = [at EXCEPT ![c] = Len(log)]
                  /\ Goto(c, l)

(***************************************************************************)
(* Every snapshot replays the whole ledger and raises if it cannot.  Of    *)
(* the things that can make it unable only one is in reach of the calls    *)
(* themselves (OnlyOccupationPoisons): an incompatible relation has the id *)
(* derived from a feedback case.  Snapshots open the file with mode=ro:    *)
(* they cannot roll back a journal, and raise while there is one.          *)
(***************************************************************************)
\* Bug for the mutants: snapshots are taken without a replay of the feedback view.
ReadableAlways == TRUE

Readable == CasesCompatible(log)

Reads(c, l) == pc[c] = l /\ ~hot /\ Readable

(***************************************************************************)
(* Any operation but apply_feedback: snapshot, validation and building.    *)
(***************************************************************************)
Call(c, k) == /\ pc[c] = "idle"
              /\ k.op \notin {"apply_feedback", "raw"}
              /\ ~hot /\ Readable
              /\ LET st == States(log) IN
                     /\ Accepts(log, st, k)
                     /\ Build(c, EventOf(log, st, k), "append")
              /\ call' = [call EXCEPT ![c] = k]
              /\ loop' = [loop EXCEPT ![c] = NewLoop]
              /\ answer' = [answer EXCEPT ![c] = "none"]
              /\ UNCHANGED <<log, faults, hot, scenario>>

(***************************************************************************)
(* append_if_ledger_head: the head is still the snapshot's and no event    *)
(* has the new event's id.  The check of the ledger before the append is a *)
(* read-only one too.                                                      *)
(***************************************************************************)
\* Bug for the mutants: a typed event is appended wherever the head is.
HeadIgnored(c) == TRUE

HeadIsAt(c) == Len(log) = at[c]

Appendable(c) == HeadIsAt(c) /\ IdIsNew(log, pending[c])

AppendEvent(c) == /\ pc[c] = "append"
                  /\ ~hot /\ Appendable(c)
                  /\ log' = Append(log, pending[c])
                  /\ Answer(c, "none")
                  /\ UNCHANGED <<faults, hot, scenario>>

RefuseAppend(c) == /\ pc[c] = "append"
                   /\ ~hot /\ ~Appendable(c)
                   /\ Answer(c, "none")
                   /\ UNCHANGED <<log, faults, hot, scenario>>

(***************************************************************************)
(* An unreserved event appended through the plain store: no semantics, but *)
(* the head moves.                                                         *)
(***************************************************************************)
RawAppend(c, k) == /\ pc[c] = "idle"
                   /\ k.op = "raw"
                   /\ ~hot /\ IdIsNew(log, [ev |-> "raw", id |-> k.id])
                   /\ log' = Append(log, [ev |-> "raw", id |-> k.id])
                   /\ UNCHANGED <<pc, call, pending, at, loop, answer, faults, hot, scenario>>

-----------------------------------------------------------------------------
(***************************************************************************)
(* apply_feedback.  Each iteration looks at the case on a snapshot of its  *)
(* own; creating the relation and qualifying it each read another one.     *)
(***************************************************************************)
\* Bugs for the mutants: one iteration less; one more.
TriesLess == 3
TriesMore == 5

Tries == 4

Case(c) == call[c].case

ApplyFeedback(c, k) == /\ pc[c] = "idle"
                       /\ k.op = "apply_feedback"
                       /\ call' = [call EXCEPT ![c] = k]
                       /\ loop' = [loop EXCEPT ![c] = [NewLoop EXCEPT !.begun = Len(log)]]
                       /\ answer' = [answer EXCEPT ![c] = "none"]
                       /\ Goto(c, "fb_loop")
                       /\ UNCHANGED <<log, pending, at, faults, hot, scenario>>

CaseApplied(c)  == ApplicationState(log, Case(c)) = "applied"
CaseEligible(c) == SourcesUsable(log, States(log), Case(c))

(***************************************************************************)
(* The top of the loop: after four iterations the call gives up; an        *)
(* applied case is reported; an unknown or ineligible one raises; anything *)
(* else goes on with the append that is missing.                           *)
(***************************************************************************)
Iterating(c) == Reads(c, "fb_loop") /\ loop[c].tries < Tries

FbGiveUp(c) == /\ pc[c] = "fb_loop"
               /\ loop[c].tries = Tries
               /\ Answer(c, "gave_up")
               /\ UNCHANGED <<log, faults, hot, scenario>>

FbAlready(c) == /\ Iterating(c)
                /\ IsOfType(log, Case(c), "FeedbackCase")
                /\ CaseApplied(c)
                /\ Answer(c, "applied")
                /\ UNCHANGED <<log, faults, hot, scenario>>

Applicable(c) == /\ IsOfType(log, Case(c), "FeedbackCase")
                 /\ CaseEligible(c)
                 /\ Body(log, Case(c)).effect = "invalidate_target"

\* Bug for the mutants: an ineligible case is polled until it is eligible.
FbRaiseWaits(c) == /\ Iterating(c)
                   /\ ~IsOfType(log, Case(c), "FeedbackCase")
                   /\ Answer(c, "unknown")
                   /\ UNCHANGED <<log, faults, hot, scenario>>

FbRaise(c) ==
    /\ Iterating(c)
    /\ \/ /\ ~IsOfType(log, Case(c), "FeedbackCase")
          /\ Answer(c, "unknown")
       \/ /\ IsOfType(log, Case(c), "FeedbackCase")
          /\ ~CaseApplied(c)
          /\ ~Applicable(c)
          /\ Answer(c, "ineligible")
    /\ UNCHANGED <<log, faults, hot, scenario>>

\* Bug for the mutants: a relation that is there already is created again.
FbIterateAfresh(c) == /\ Iterating(c)
                      /\ Applicable(c)
                      /\ ~CaseApplied(c)
                      /\ Goto(c, "fb_create")
                      /\ loop' = [loop EXCEPT ![c].tries = @ + 1]
                      /\ UNCHANGED <<log, call, pending, at, answer, faults, hot, scenario>>

FbIterate(c) == /\ Iterating(c)
                /\ Applicable(c)
                /\ ~CaseApplied(c)
                /\ Goto(c, IF ApplicationState(log, Case(c)) = "not_applied"
                           THEN "fb_create" ELSE "fb_qualify")
                /\ loop' = [loop EXCEPT ![c].tries = @ + 1]
                /\ UNCHANGED <<log, call, pending, at, answer, faults, hot, scenario>>

(***************************************************************************)
(* create_relation on its own snapshot; a relation that is there by now is *)
(* an error the loop catches.                                              *)
(***************************************************************************)
FbCreate(c) ==
    /\ Reads(c, "fb_create")
    /\ IF HasRelation(log, FeedbackRelationId[Case(c)])
       THEN Goto(c, "fb_recheck") /\ UNCHANGED <<pending, at>>
       ELSE Build(c, FeedbackRelation(log, Case(c)), "fb_append_relation")
    /\ UNCHANGED <<log, call, loop, answer, faults, hot, scenario>>

(***************************************************************************)
(* _qualify_feedback_invalidation on its own snapshot: state, eligibility  *)
(* and the relation are all checked on the history the head is bound to.   *)
(***************************************************************************)
FbQualifyLate(c) == /\ Reads(c, "fb_qualify")
                    /\ CaseApplied(c)
                    /\ Goto(c, "fb_recheck")
                    /\ UNCHANGED <<log, call, pending, at, loop, answer, faults, hot, scenario>>

FbQualifyRaise(c) == /\ Reads(c, "fb_qualify")
                     /\ ~CaseApplied(c)
                     /\ ~CaseEligible(c)
                     /\ Answer(c, "ineligible")
                     /\ UNCHANGED <<log, faults, hot, scenario>>

\* Bug for the mutants: eligibility was only checked at the top of the loop.
MayQualifyUnchecked(c) == MayActivate(log, "invalidated", FeedbackRelationId[Case(c)])

MayQualify(c) == /\ CaseEligible(c)
                 /\ MayActivate(log, "invalidated", FeedbackRelationId[Case(c)])

FbQualify(c) == /\ Reads(c, "fb_qualify")
                /\ ~CaseApplied(c)
                /\ MayQualify(c)
                /\ Build(c, [ev |-> "invalidated",
                             relation |-> FeedbackRelationId[Case(c)]], "fb_append_state")
                /\ UNCHANGED <<log, call, loop, answer, faults, hot, scenario>>

(***************************************************************************)
(* The two appends of the loop.                                            *)
(***************************************************************************)
AfterAppend == [fb_append_relation |-> "fb_loop", fb_append_state |-> "fb_confirm"]

FbAppend(c) == /\ pc[c] \in DOMAIN AfterAppend
               /\ ~hot /\ Appendable(c)
               /\ log' = Append(log, pending[c])
               /\ loop' = [loop EXCEPT ![c].own = @ + 1]
               /\ pending' = [pending EXCEPT ![c] = NoEvent]
               /\ at' = [at EXCEPT ![c] = 0]
               /\ Goto(c, AfterAppend[pc[c]])
               /\ UNCHANGED <<call, answer, faults, hot, scenario>>

FbRefuse(c) == /\ pc[c] \in DOMAIN AfterAppend
               /\ ~hot /\ ~Appendable(c)
               /\ pending' = [pending EXCEPT ![c] = NoEvent]
               /\ at' = [at EXCEPT ![c] = 0]
               /\ Goto(c, "fb_recheck")
               /\ UNCHANGED <<log, call, loop, answer, faults, hot, scenario>>

(***************************************************************************)
(* After a caught error the latest state decides: somebody else may have   *)
(* applied the case meanwhile, otherwise the loop goes on.                 *)
(***************************************************************************)
\* Bug for the mutants: somebody else's relation is taken for applied.
OthersApplied(c) == HasRelation(log, FeedbackRelationId[Case(c)])

AppliedMeanwhile(c) == CaseApplied(c)

FbRecheck(c) ==
    /\ Reads(c, "fb_recheck")
    /\ \/ AppliedMeanwhile(c) /\ Answer(c, "applied")
       \/ /\ ~AppliedMeanwhile(c)
          /\ Goto(c, "fb_loop")
          /\ UNCHANGED <<call, pending, at, loop, answer>>
    /\ UNCHANGED <<log, faults, hot, scenario>>

\* After its own qualification the call returns the state it reads.
FbConfirm(c) == /\ Reads(c, "fb_confirm")
                /\ Answer(c, ApplicationState(log, Case(c)))
                /\ UNCHANGED <<log, faults, hot, scenario>>

(***************************************************************************)
(* A snapshot of the call raises.  What create_relation raises is caught,  *)
(* but the look at the latest state raises again.                          *)
(***************************************************************************)
FbUnreadable(c) ==
    /\ ~hot /\ ~Readable
    /\ \/ /\ \/ pc[c] = "fb_loop" /\ loop[c].tries < Tries
             \/ pc[c] \in {"fb_qualify", "fb_recheck", "fb_confirm"}
          /\ Answer(c, "none")
       \/ /\ pc[c] = "fb_create"
          /\ Goto(c, "fb_recheck")
          /\ UNCHANGED <<call, pending, at, loop, answer>>
    /\ UNCHANGED <<log, faults, hot, scenario>>

-----------------------------------------------------------------------------
(***************************************************************************)
(* A read or an append fails: nothing is committed.  The loop of           *)
(* apply_feedback catches what its two writing calls raise; everywhere     *)
(* else the error leaves the call.                                         *)
(***************************************************************************)
Caught == {"fb_create", "fb_qualify"} \cup DOMAIN AfterAppend

AccessFails(c) ==
    /\ \/ /\ pc[c] \notin Caught \cup {"idle"}
          /\ pc[c] = "fb_loop" => loop[c].tries < Tries
          /\ Answer(c, "none")
       \/ /\ pc[c] \in Caught
          /\ loop' = [loop EXCEPT ![c].faults = @ + 1]
          /\ pending' = [pending EXCEPT ![c] = NoEvent]
          /\ at' = [at EXCEPT ![c] = 0]
          /\ Goto(c, "fb_recheck")
          /\ UNCHANGED <<call, answer>>
    /\ UNCHANGED <<log, hot, scenario>>

\* It fails now and then (busy, disk).
DatabaseError(c) == /\ faults < MaxFaults
                    /\ faults' = faults + 1
                    /\ AccessFails(c)

\* It fails as long as there is a journal.
JournalError(c) == hot /\ AccessFails(c) /\ UNCHANGED faults

(***************************************************************************)
(* The client's process dies, in whatever state its call left the ledger.  *)
(* If it dies inside COMMIT, once its journal is on disk and before it is  *)
(* removed, nothing is committed and the journal stays.                    *)
(***************************************************************************)
LeaveJournal == /\ ~hot /\ faults < MaxFaults
                /\ hot' = TRUE
                /\ faults' = faults + 1

InCommit(c) == pc[c] \in {"append"} \cup DOMAIN AfterAppend /\ Appendable(c)

Crash(c) == /\ pc[c] # "idle"
            /\ Answer(c, "none")
            /\ \/ UNCHANGED <<faults, hot>>
               \/ InCommit(c) /\ LeaveJournal
            /\ UNCHANGED <<log, scenario>>

RawCrash(c, k) == /\ pc[c] = "idle"
                  /\ k.op = "raw"
                  /\ IdIsNew(log, [ev |-> "raw", id |-> k.id])
                  /\ LeaveJournal
                  /\ UNCHANGED <<log, pc, call, pending, at, loop, answer, scenario>>

(***************************************************************************)
(* Somebody opens the file for writing: another program, or an append that *)
(* had checked the ledger before the death.  Nothing in Sayf has to.       *)
(***************************************************************************)
RollBack == /\ hot
            /\ hot' = FALSE
            /\ UNCHANGED <<log, pc, call, pending, at, loop, answer, faults, scenario>>

Proceed(c) == \/ AppendEvent(c) \/ RefuseAppend(c)
              \/ FbGiveUp(c) \/ FbAlready(c) \/ FbRaise(c) \/ FbIterate(c) \/ FbCreate(c)
              \/ FbQualifyLate(c) \/ FbQualifyRaise(c) \/ FbQualify(c)
              \/ FbAppend(c) \/ FbRefuse(c) \/ FbRecheck(c) \/ FbConfirm(c)
              \/ FbUnreadable(c) \/ JournalError(c)

Next == \E c \in Client :
            \/ \E k \in Menu : Call(c, k) \/ RawAppend(c, k) \/ ApplyFeedback(c, k)
            \/ Proceed(c)
            \/ DatabaseError(c)
            \/ Crash(c)
            \/ \E k \in Menu : RawCrash(c, k)
            \/ RollBack

Spec == Init /\ [][Next]_vars

(***************************************************************************)
(* A call that runs keeps running: its thread is scheduled again.          *)
(***************************************************************************)
FairSpec == Spec /\ \A c \in Client : WF_vars(Proceed(c))

Dies(c) == Crash(c) \/ \E k \in Menu : RawCrash(c, k)

(***************************************************************************)
(* Callers go on applying cases; their processes stop dying some time      *)
(* (a call that raises looks like one that dies, but is a step of its).    *)
(***************************************************************************)
RetrySpec == /\ FairSpec
             /\ \A c \in Client : WF_vars(\E k \in Menu : ApplyFeedback(c, k))
             /\ <>[][\A c \in Client : Dies(c) => Proceed(c)]_vars

=============================================================================
