------------------------------- MODULE Ledger -------------------------------
(***************************************************************************)
(* The SQLite ledger and the clients that append to it.  A typed call      *)
(* reads a verified snapshot, validates its event against it, and appends  *)
(* under BEGIN IMMEDIATE only if the head is still the snapshot's head     *)
(* (semantic_append.py).  A raw call appends without a snapshot            *)
(* (storage.py).  Any call may meet a busy or failing database, and its    *)
(* process may die between any two steps.                                  *)
(*                                                                         *)
(* SHA-256 is a free constructor: two heads are equal only when the chains *)
(* under them are.  So a head hash is the chain it commits to.             *)
(***************************************************************************)
EXTENDS Naturals, Sequences

CONSTANTS Client,             \* processes and threads that call the store
          Event,              \* records with the fields id and typed
          Admissible(_, _),   \* the typed validation a snapshot is put to
          NoClient,           \* the write lock is free
          NoEvent,            \* the client has no event in hand
          MaxLog,             \* bound: length of the ledger
          MaxRestores         \* bound: how often an old copy is put back

ASSUME NoClientAssumption == NoClient \notin Client
ASSUME NoEventAssumption  == NoEvent \notin Event
ASSUME BoundsAssumption   == MaxLog \in Nat /\ MaxRestores \in Nat

VARIABLES log,       \* the committed rows of the events table
          writer,    \* who holds SQLite's write lock
          pc,        \* where each client is in its call
          draft,     \* the event each client is appending
          seen,      \* the history a typed call validated against
          acked,     \* events whose append returned to its caller
          restores   \* how often the file was replaced so far

vars == <<log, writer, pc, draft, seen, acked, restores>>

\* The abstract log of the refinement is the ledger's committed rows.
A == INSTANCE AppendLog WITH Event <- Event, Admissible <- Admissible, log <- log

IdsIn(h) == {h[i].id : i \in DOMAIN h}

(***************************************************************************)
(* The hash of the last row, None for an empty ledger: each row's hash     *)
(* covers its content, its sequence and the hash of the row before it.     *)
(***************************************************************************)
HeadHash(h) == IF h = <<>> THEN [none |-> TRUE] ELSE [sha256 |-> h]

Init == /\ log = <<>>
        /\ writer = NoClient
        /\ pc = [c \in Client |-> "idle"]
        /\ draft = [c \in Client |-> NoEvent]
        /\ seen = [c \in Client |-> <<>>]
        /\ acked = {}
        /\ restores = 0

(***************************************************************************)
(* The client is out of its call: whatever transaction it had is gone.     *)
(***************************************************************************)
Leave(c) == /\ pc' = [pc EXCEPT ![c] = "idle"]
            /\ draft' = [draft EXCEPT ![c] = NoEvent]
            /\ seen' = [seen EXCEPT ![c] = <<>>]
            /\ writer' = IF writer = c THEN NoClient ELSE writer

Enter(c, e, h) == /\ pc[c] = "idle"
                  /\ pc' = [pc EXCEPT ![c] = "ready"]
                  /\ draft' = [draft EXCEPT ![c] = e]
                  /\ seen' = [seen EXCEPT ![c] = h]
                  /\ UNCHANGED <<log, writer, acked, restores>>

(***************************************************************************)
(* A typed call: one read transaction yields the snapshot, validation runs *)
(* on it.  An inadmissible event raises and changes nothing.               *)
(***************************************************************************)
Snapshot(c, e) == /\ e.typed
                  /\ Admissible(log, e)
                  /\ Enter(c, e, log)

RawCall(c, e) == ~e.typed /\ Enter(c, e, <<>>)

(***************************************************************************)
(* BEGIN IMMEDIATE takes the one write lock.                               *)
(***************************************************************************)
\* Bug for the mutants: BEGIN DEFERRED, which takes no lock.
BeginDeferred(c) == /\ pc[c] = "ready"
                    /\ writer' = c
                    /\ pc' = [pc EXCEPT ![c] = "locked"]
                    /\ UNCHANGED <<log, draft, seen, acked, restores>>

Begin(c) == /\ pc[c] = "ready"
            /\ writer = NoClient
            /\ writer' = c
            /\ pc' = [pc EXCEPT ![c] = "locked"]
            /\ UNCHANGED <<log, draft, seen, acked, restores>>

\* Bug for the mutants: only the number of rows is compared.
CountUnchanged(c) == Len(log) = Len(seen[c])

HeadUnchanged(c) == /\ Len(log) = Len(seen[c])
                    /\ HeadHash(log) = HeadHash(seen[c])

(***************************************************************************)
(* Inside the transaction the client compares the head (typed calls only)  *)
(* and looks for its event id before it inserts the row.                   *)
(***************************************************************************)
\* Bug for the mutants: the head is not compared.
MayInsertAnyHead(c) == draft[c].id \notin IdsIn(log)

MayInsert(c) == /\ draft[c].typed => HeadUnchanged(c)
                /\ draft[c].id \notin IdsIn(log)

Insert(c) == /\ pc[c] = "locked"
             /\ MayInsert(c)
             /\ pc' = [pc EXCEPT ![c] = "inserted"]
             /\ UNCHANGED <<log, writer, draft, seen, acked, restores>>

Reject(c) == /\ pc[c] = "locked"
             /\ ~MayInsert(c)
             /\ Leave(c)
             /\ UNCHANGED <<log, acked, restores>>

\* Bugs for the mutants: the row replaces the last one; COMMIT is forgotten.
CommitOverLast(c) == /\ pc[c] = "inserted"
                     /\ log' = Append(SubSeq(log, 1, Len(log) - 1), draft[c])
                     /\ writer' = NoClient
                     /\ pc' = [pc EXCEPT ![c] = "committed"]
                     /\ UNCHANGED <<draft, seen, acked, restores>>
CommitForgotten(c) == /\ pc[c] = "inserted"
                      /\ writer' = NoClient
                      /\ pc' = [pc EXCEPT ![c] = "committed"]
                      /\ UNCHANGED <<log, draft, seen, acked, restores>>

Commit(c) == /\ pc[c] = "inserted"
             /\ Len(log) < MaxLog
             /\ log' = Append(log, draft[c])
             /\ writer' = NoClient
             /\ pc' = [pc EXCEPT ![c] = "committed"]
             /\ UNCHANGED <<draft, seen, acked, restores>>

\* Bug for the mutants: the draft is cleared before it is returned.
ReturnCleared(c) == /\ pc[c] = "committed"
                    /\ Leave(c)
                    /\ acked' = acked \cup {draft'[c]}
                    /\ UNCHANGED <<log, restores>>

Return(c) == /\ pc[c] = "committed"
             /\ acked' = acked \cup {draft[c]}
             /\ Leave(c)
             /\ UNCHANGED <<log, restores>>

(***************************************************************************)
(* sqlite3.Error at BEGIN, INSERT or COMMIT: the busy timeout ran out, a   *)
(* reader kept COMMIT from its exclusive lock, the disk refused.  The      *)
(* transaction is rolled back and the caller gets an error.                *)
(***************************************************************************)
\* Bug for the mutants: a client waits for the lock without a timeout.
DatabaseErrorNoTimeout(c) == /\ pc[c] \in {"locked", "inserted"}
                             /\ Leave(c)
                             /\ UNCHANGED <<log, acked, restores>>

DatabaseError(c) == /\ pc[c] \in {"ready", "locked", "inserted"}
                    /\ Leave(c)
                    /\ UNCHANGED <<log, acked, restores>>

(***************************************************************************)
(* The process dies.  SQLite drops its lock and an uncommitted row; after  *)
(* COMMIT the row stays and only the answer is lost.  Inside COMMIT it may *)
(* leave a journal that fails every check of the ledger before a BEGIN     *)
(* until somebody rolls it back: to a client here that is a DatabaseError  *)
(* when it is ready, and those come as often as they like.                 *)
(***************************************************************************)
Crash(c) == /\ pc[c] # "idle"
            /\ Leave(c)
            /\ UNCHANGED <<log, acked, restores>>

(***************************************************************************)
(* External: an earlier copy of the database file is put back (or the file *)
(* is deleted and initialised again) while no write transaction is open.   *)
(***************************************************************************)
Restore == /\ restores < MaxRestores
           /\ writer = NoClient
           /\ \E n \in 0 .. Len(log) : log' = SubSeq(log, 1, n)
           /\ restores' = restores + 1
           /\ UNCHANGED <<writer, pc, draft, seen, acked>>

Next == \/ \E c \in Client, e \in Event : Snapshot(c, e) \/ RawCall(c, e)
        \/ \E c \in Client : \/ Begin(c) \/ Insert(c) \/ Reject(c) \/ Commit(c)
                             \/ Return(c) \/ DatabaseError(c) \/ Crash(c)
        \/ Restore

Spec == Init /\ [][Next]_vars

(***************************************************************************)
(* A client that is running its call goes on with it: the thread keeps     *)
(* being scheduled, and a lock that stays taken ends in the busy timeout.  *)
(***************************************************************************)
Proceed(c) == \/ Begin(c) \/ Insert(c) \/ Reject(c)
              \/ Commit(c) \/ Return(c) \/ DatabaseError(c)

FairSpec == Spec /\ \A c \in Client : WF_vars(Proceed(c))

-----------------------------------------------------------------------------
(***************************************************************************)
(* Types of the variables.                                                 *)
(***************************************************************************)
TypeOK == /\ log \in Seq(Event)
          /\ writer \in Client \cup {NoClient}
          /\ pc \in [Client -> {"idle", "ready", "locked", "inserted", "committed"}]
          /\ draft \in [Client -> Event \cup {NoEvent}]
          /\ seen \in [Client -> Seq(Event)]
          /\ acked \subseteq Event
          /\ restores \in Nat

(***************************************************************************)
(* Every row of the ledger was admissible for exactly the rows below it    *)
(* when it was committed, and no id occurs twice: a replay of the ledger   *)
(* that validates row by row never fails on what these clients wrote,      *)
(* whatever raced, crashed or was put back from a copy in between.         *)
(***************************************************************************)
HistoryReplays ==
    \A i \in DOMAIN log : A!MayFollow(SubSeq(log, 1, i - 1), log[i])

(***************************************************************************)
(* While a typed row waits for COMMIT the ledger is still the history the  *)
(* caller validated: nothing slips in between the check and the write.     *)
(***************************************************************************)
SnapshotStillExact ==
    \A c \in Client : pc[c] = "inserted" /\ draft[c].typed => seen[c] = log

(***************************************************************************)
(* An append that returned to its caller is in the ledger, as long as      *)
(* nobody puts an older copy of the file back.                             *)
(***************************************************************************)
AcknowledgedIsDurable ==
    restores = 0 => acked \subseteq {log[i] : i \in DOMAIN log}

(***************************************************************************)
(* Rows are only ever added, one at a time, by the client that holds the   *)
(* write lock; nothing but a restore of the file takes a row away.         *)
(***************************************************************************)
AppendOnly ==
    [][restores' = restores /\ log' # log =>
         /\ Len(log') = Len(log) + 1
         /\ SubSeq(log', 1, Len(log)) = log
         /\ writer # NoClient /\ log'[Len(log')] = draft[writer]]_vars

(***************************************************************************)
(* Optimistic appends by many clients look atomic: the ledger implements   *)
(* the abstract log, where validation and append are one step.             *)
(***************************************************************************)
ImplementsAppendLog == A!Spec

(***************************************************************************)
(* A call never hangs: it returns, fails or its process dies.              *)
(***************************************************************************)
CallsEnd == \A c \in Client : pc[c] # "idle" ~> pc[c] = "idle"

=============================================================================
