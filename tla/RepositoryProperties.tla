----------------------- MODULE RepositoryProperties -----------------------
(***************************************************************************)
(* What must hold of the repository and of the histories it writes.        *)
(***************************************************************************)
EXTENDS Repository

st == States(log)

Decisions == {log[i].id : i \in Records(log, "GateDecision")}
Releases  == {log[i].id : i \in Records(log, "Release")}

(***************************************************************************)
(* Types of the variables.                                                 *)
(***************************************************************************)
TypeOK ==
    /\ \A i \in DOMAIN log : log[i].ev \in {"record", "relation", "raw", "bound",
                                            "invalidated", "superseded"}
    /\ pc \in [Client -> {"idle", "append", "fb_loop", "fb_create", "fb_append_relation",
                          "fb_qualify", "fb_append_state", "fb_recheck", "fb_confirm"}]
    /\ call \in [Client -> Menu \cup {NoCall}]
    /\ \A c \in Client : at[c] \in 0 .. Len(log)
    /\ \A c \in Client : pending[c] # NoEvent <=> pc[c] \in {"append"} \cup DOMAIN AfterAppend
    /\ \A c \in Client : loop[c].tries \in 0 .. 4 /\ loop[c].own \in 0 .. 2
    /\ answer \in [Client -> {"none", "applied", "gave_up", "ineligible", "unknown"}]
    /\ faults \in 0 .. MaxFaults /\ hot \in BOOLEAN /\ scenario \in DOMAIN Scenario

(***************************************************************************)
(* A typed call takes effect as if it ran alone at the moment of its       *)
(* commit: the ledger it lands on would accept the same call and build the *)
(* same event.                                                             *)
(***************************************************************************)
CallsAreAtomic ==
    [][\A c \in Client : pc[c] = "append" /\ log' # log /\ pc'[c] = "idle" =>
           /\ Accepts(log, st, call[c])
           /\ log' = Perform(log, call[c])]_vars

-----------------------------------------------------------------------------
(***************************************************************************)
(* However calls interleave, they leave a history that the projections     *)
(* (graph, state, gate, M0.5) replay: what the builders accept on a        *)
(* snapshot, the validators accept in the ledger.  The one exception is a  *)
(* plain relation that takes the id derived from a feedback case.  Ledgers *)
(* are looked at between calls; as a call may die at any point, every      *)
(* ledger is one between calls.                                            *)
(***************************************************************************)
OnlyOccupationPoisons ==
    (\A c \in Client : pc[c] = "idle") /\ Readable => M05Replays(log)

(***************************************************************************)
(* A ledger with such a relation stays closed: nothing is appended to it   *)
(* but raw events, by no call that had begun before either.                *)
(***************************************************************************)
OccupiedIsClosed ==
    [][~CasesCompatible(log) =>
           /\ ~CasesCompatible(log')
           /\ \A i \in DOMAIN log' \ DOMAIN log : log'[i].ev = "raw"]_log

(***************************************************************************)
(* "feedback application did not converge after concurrent ledger changes" *)
(* (causal.py): the ledger did change under the call.  It need not have:   *)
(* an event of another kind with the id of the relation is enough.         *)
(***************************************************************************)
GivesUpAfterChanges ==
    [][\A c \in Client : pc[c] = "fb_loop" /\ answer'[c] = "gave_up" =>
           Len(log) > loop[c].begun + loop[c].own]_vars

-----------------------------------------------------------------------------
(***************************************************************************)
(* Revisions form lines: in every set of records connected by              *)
(* supersessions exactly one is current.                                   *)
(***************************************************************************)
Lineage(r) ==
    LET next == {<<RelOf(log, i).source, RelOf(log, i).target>> :
                     i \in Created(log, "superseded")}
    IN  Reaching(next \cup {<<e[2], e[1]>> : e \in next}, r)

OneCurrentRevision ==
    LET now == st IN
    \A r \in RecordIds(log) :
        Cardinality({q \in Lineage(r) : now[q].superseded = {}}) = 1

(***************************************************************************)
(* The search finds exactly the records that reach a root over bound       *)
(* dependencies, whatever cycles the bindings form, and a root is never    *)
(* stale because of itself.                                                *)
(***************************************************************************)
StalenessIsReachability ==
    LET now == st IN
    \A r \in RecordIds(log) :
        {cause.root : cause \in now[r].causes}
            = {i \in Roots(log) : r \in StaleFrom(log, RelOf(log, i).target)}

(***************************************************************************)
(* The path given for a cause leads from the record to the root, binding   *)
(* by binding, and no other path is shorter.                               *)
(***************************************************************************)
LeadsTo(r, path, root) ==
    /\ path # <<>>
    /\ RelOf(log, path[1]).source = r
    /\ RelOf(log, Last(path)).target = root
    /\ \A k \in 1 .. Len(path) - 1 :
           RelOf(log, path[k]).target = RelOf(log, path[k + 1]).source

CausePathsAreShortest ==
    LET now == st IN
    \A r \in RecordIds(log) : \A cause \in now[r].causes :
        LET root == RelOf(log, cause.root).target
        IN  /\ LeadsTo(r, cause.path, root)
            /\ \A n \in 1 .. Len(cause.path) - 1 :
                   ~\E p \in [1 .. n -> Created(log, "bound")] : LeadsTo(r, p, root)

(***************************************************************************)
(* A record that may no longer be used never becomes usable again.         *)
(***************************************************************************)
UnusableForever ==
    [][LET now  == st
           then == States(log')
       IN  \A r \in RecordIds(log) : ~Usable(now[r]) => ~Usable(then[r])]_log

(***************************************************************************)
(* A permit that still counts as fresh is still earned: evaluating its     *)
(* request on today's ledger would find nothing against it.                *)
(***************************************************************************)
FreshPermitIsEarned ==
    LET now == st IN
    \A d \in Decisions :
        DecisionFresh(log, now, d) /\ Body(log, d).outcome = "permit" =>
            Reasons(log, now, Body(log, d).request) = {}

(***************************************************************************)
(* A release that still counts as fresh has a usable subject and a permit  *)
(* that today's ledger would grant again.                                  *)
(***************************************************************************)
FreshReleaseIsEarned ==
    LET now == st IN
    \A r \in Releases :
        ReleaseFresh(log, now, r) =>
            /\ Usable(now[Body(log, r).subject])
            /\ Reasons(log, now, Body(log, Body(log, r).decision).request) = {}

(***************************************************************************)
(* A decision, or the authority of a release, that went stale never        *)
(* becomes fresh again: none is fresh that was stale one event earlier.    *)
(* It would be if an input's effective state could return to what it was:  *)
(* new bindings may change the path of a cause, but never back.            *)
(***************************************************************************)
StaleIn(h) ==
    LET now       == States(h)
        ids(type) == {h[i].id : i \in Records(h, type)}
    IN  {d \in ids("GateDecision") : ~DecisionFresh(h, now, d)}
            \cup {v \in ids("Release") : ~ReleaseFresh(h, now, v)}

StaleForever == log # <<>> => StaleIn(Front(log)) \subseteq StaleIn(log)

(***************************************************************************)
(* apply_feedback gives up only after at least three appends of others, or *)
(* failures of the database, got in its way during the call.               *)
(***************************************************************************)
GivesUpOnlyWhenRaced ==
    [][\A c \in Client : pc[c] = "fb_loop" /\ answer'[c] = "gave_up" =>
           Len(log) - loop[c].begun - loop[c].own + loop[c].faults >= 3]_vars

-----------------------------------------------------------------------------
(***************************************************************************)
(* The abstract view of one case.  A case is eligible while its sources    *)
(* are usable and its effect is one that can be applied.                   *)
(***************************************************************************)
Applying(c, case) == call[c].op = "apply_feedback" /\ Case(c) = case

IsOpen(case) == IsOfType(log, case, "FeedbackCase")

InConflict(case) == HasRelation(log, FeedbackRelationId[case]) /\ ~Compatible(log, case)

Application(case) == INSTANCE FeedbackCase WITH
    Caller   <- Client,
    state    <- IF ~IsOpen(case) THEN "not_open"
                ELSE IF InConflict(case) THEN "conflict" ELSE ApplicationState(log, case),
    eligible <- /\ IsOpen(case)
                /\ Body(log, case).effect = "invalidate_target"
                /\ SourcesUsable(log, st, case),
    calling  <- {c \in Client : pc[c] # "idle" /\ Applying(c, case)},
    answer   <- [c \in Client |-> IF Applying(c, case) THEN answer[c] ELSE "none"]

(***************************************************************************)
(* The two appends of apply_feedback, its retries and its races implement  *)
(* the promise about every case: Application(case)!Spec for all of them,   *)
(* with the quantifier inside.                                             *)
(***************************************************************************)
CaseIds == DOMAIN FeedbackRelationId

ImplementsFeedbackCase ==
    /\ \A case \in CaseIds : Application(case)!Init
    /\ [][\A case \in CaseIds : \/ UNCHANGED Application(case)!vars
                                \/ Application(case)!Next]_vars

(***************************************************************************)
(* Of two cases that each target something the other rests on, only one is *)
(* ever applied, although nothing but the head relates their appends.  (A  *)
(* ledger that cannot be read shows no case as applied.)                   *)
(***************************************************************************)
Sources(case) == LET o == Body(log, case).observation
                 IN  {case, o} \cup Body(log, o).evidence

RivalsExclude ==
    Readable =>
        \A f, g \in {case \in DOMAIN FeedbackRelationId : IsOpen(case)} :
            /\ f # g
            /\ Body(log, f).target \in Sources(g)
            /\ Body(log, g).target \in Sources(f)
            => ~(ApplicationState(log, f) = "applied" /\ ApplicationState(log, g) = "applied")

(***************************************************************************)
(* A caller that keeps applying a case gets it settled, whatever failed or *)
(* died before with only one of the two appends made: in the end the case  *)
(* is applied or it is no longer eligible.  One thing it needs from        *)
(* outside: if a death inside COMMIT leaves a journal, something other     *)
(* than the calls that follow has to roll it back.                         *)
(***************************************************************************)
Settled(case) == ApplicationState(log, case) = "applied" \/ ~SourcesUsable(log, st, case)

JournalsAreRolledBack == hot ~> ~hot

CasesSettle ==
    JournalsAreRolledBack => \A case \in DOMAIN FeedbackRelationId : <>Settled(case)

(***************************************************************************)
(* "Apply one feedback invalidation with crash-safe and concurrency-safe   *)
(* retries" (causal.py): a caller that keeps applying a case gets it       *)
(* settled, wherever a process died.  It does not after a death inside     *)
(* COMMIT: every retry opens the ledger read-only and raises.              *)
(***************************************************************************)
RetriesSettle == \A case \in DOMAIN FeedbackRelationId : <>Settled(case)

(***************************************************************************)
(* Every call ends: apply_feedback is a bounded loop.                      *)
(***************************************************************************)
CallsEnd == \A c \in Client : pc[c] # "idle" ~> pc[c] = "idle"

=============================================================================
