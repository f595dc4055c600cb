----------------------------- MODULE LedgerInit -----------------------------
(***************************************************************************)
(* Creating the ledger (storage.py, initialize).  Processes serialise on a *)
(* sidecar database; the owner publishes a pending marker, reserves the    *)
(* target path, writes the schema in one transaction and revokes the       *)
(* marker.  Processes die, calls to the file system fail, and the host may *)
(* lose power.                                                             *)
(*                                                                         *)
(* On POSIX a change of a directory is durable once the directory was      *)
(* fsynced.  On Windows there is no such call: the marker is put there and *)
(* taken away by write-through moves, which are on disk when they return   *)
(* (a tombstone it is moved to is never read, and left out), and flushing  *)
(* a file flushes its name.  So each of the two names, the marker and the  *)
(* ledger, is kept as the processes see it and as the disk has it.  The    *)
(* directory itself is there and durable before the run.                   *)
(***************************************************************************)
EXTENDS Naturals, FiniteSets

CONSTANTS Client,       \* processes that call initialize
          NoClient,     \* the sidecar lock is free
          MaxCrashes,   \* bound: power losses
          MaxFaults,    \* bound: failing calls and dying processes
          MaxForeign    \* bound: what others do to the ledger's path

ASSUME NoClientAssumption == NoClient \notin Client

VARIABLES seen,      \* names the processes see in the directory
          disk,      \* names the directory has on disk
          content,   \* of the ledger file: "blank", "ledger", "foreign", "damaged"
          ours,      \* the file was reserved by initialize
          guard,     \* who holds the sidecar's exclusive lock
          pc,        \* where each call is
          pending,   \* the call found a marker when it started
          made,      \* the call created the marker itself
          ready,     \* some call reported success
          windows,   \* the platform, the same all the time
          crashes, faults, foreign

file == <<content, ours>>
world == <<windows, crashes, faults, foreign>>
vars == <<seen, disk, content, ours, guard, pc, pending, made, ready, world>>

Names == {"marker", "ledger"}

Init == /\ seen = {} /\ disk = {}
        /\ content = "blank" /\ ours = FALSE
        /\ guard = NoClient
        /\ pc = [c \in Client |-> "idle"]
        /\ pending = [c \in Client |-> FALSE]
        /\ made = [c \in Client |-> FALSE]
        /\ ready = FALSE
        /\ windows \in BOOLEAN
        /\ crashes = 0 /\ faults = 0 /\ foreign = 0

Goto(c, l) == pc' = [pc EXCEPT ![c] = l]

\* The call is over; the sidecar connection is closed.
Leave(c) == /\ Goto(c, "idle")
            /\ guard' = IF guard = c THEN NoClient ELSE guard
            /\ pending' = [pending EXCEPT ![c] = FALSE]
            /\ made' = [made EXCEPT ![c] = FALSE]

FsyncDirectory == disk' = IF windows THEN disk ELSE seen

-----------------------------------------------------------------------------
(***************************************************************************)
(* BEGIN EXCLUSIVE on the sidecar.                                         *)
(***************************************************************************)
\* Bug for the mutants: initializers are not serialised.
GuardShared(c) == /\ pc[c] = "idle"
                  /\ Goto(c, "inspect")
                  /\ UNCHANGED <<seen, disk, file, guard, pending, made, ready, world>>

Guard(c) == /\ pc[c] = "idle"
            /\ guard = NoClient
            /\ guard' = c
            /\ Goto(c, "inspect")
            /\ UNCHANGED <<seen, disk, file, pending, made, ready, world>>

Inspect(c) == /\ pc[c] = "inspect"
              /\ pending' = [pending EXCEPT ![c] = "marker" \in seen]
              /\ Goto(c, "absence")
              /\ UNCHANGED <<seen, disk, file, guard, made, ready, world>>

(***************************************************************************)
(* A ledger without a marker: the absence of the marker is made durable,   *)
(* for it may have been unlinked without an fsync.                         *)
(***************************************************************************)
\* Bug for the mutants: a missing marker is taken for granted.
AbsenceAssumed(c) == /\ pc[c] = "absence"
                     /\ Goto(c, "target")
                     /\ UNCHANGED <<seen, disk, file, guard, pending, made, ready, world>>

Absence(c) ==
    /\ pc[c] = "absence"
    /\ IF "ledger" \in seen /\ ~pending[c]
       THEN /\ FsyncDirectory
            /\ IF "marker" \in seen
               THEN Leave(c)
               ELSE Goto(c, "target") /\ UNCHANGED <<guard, pending, made>>
       ELSE Goto(c, "target") /\ UNCHANGED <<disk, guard, pending, made>>
    /\ UNCHANGED <<seen, file, ready, world>>

(***************************************************************************)
(* What is at the path decides: a valid ledger is kept (and a marker left  *)
(* over is revoked), anything else there is recovered only under a marker, *)
(* nothing there is created.                                               *)
(***************************************************************************)
\* Bug for the mutants: an invalid target is never recovered.
TargetNeverRecovered(c) ==
    /\ pc[c] = "target"
    /\ \/ /\ "ledger" \notin seen
          /\ Goto(c, "ensure") /\ UNCHANGED <<guard, pending, made, ready>>
       \/ /\ "ledger" \in seen /\ content = "ledger"
          /\ IF pending[c] THEN Goto(c, "clear") /\ UNCHANGED <<guard, pending, made, ready>>
             ELSE Leave(c) /\ ready' = TRUE
       \/ /\ "ledger" \in seen /\ content # "ledger"
          /\ Leave(c) /\ UNCHANGED ready
    /\ UNCHANGED <<seen, disk, file, world>>

Target(c) ==
    /\ pc[c] = "target"
    /\ \/ /\ "ledger" \notin seen
          /\ Goto(c, "ensure") /\ UNCHANGED <<guard, pending, made, ready>>
       \/ /\ "ledger" \in seen /\ content = "ledger"
          /\ IF pending[c] THEN Goto(c, "clear") /\ UNCHANGED <<guard, pending, made, ready>>
             ELSE Leave(c) /\ ready' = TRUE
       \/ /\ "ledger" \in seen /\ content # "ledger"
          /\ IF pending[c] THEN Goto(c, "ensure_recovery") /\ UNCHANGED <<guard, pending, made>>
             ELSE Leave(c)
          /\ UNCHANGED ready
    /\ UNCHANGED <<seen, disk, file, world>>

(***************************************************************************)
(* The marker: a complete staging file is moved to its place, then the     *)
(* directory is fsynced.  A marker that exists is only fsynced, or moved   *)
(* over on Windows.                                                        *)
(***************************************************************************)
Publish(c) == /\ pc[c] \in {"ensure", "ensure_recovery"}
              /\ made' = [made EXCEPT ![c] = "marker" \notin seen]
              /\ seen' = seen \cup {"marker"}
              /\ disk' = IF windows THEN disk \cup {"marker"} ELSE disk
              /\ Goto(c, IF pc[c] = "ensure" THEN "sync" ELSE "sync_recovery")
              /\ UNCHANGED <<file, guard, pending, ready, world>>

\* Bug for the mutants: the marker is published without an fsync.
PublishSyncForgotten(c) ==
    /\ pc[c] \in {"sync", "sync_recovery"}
    /\ Goto(c, IF pc[c] = "sync" THEN "reserve" ELSE "recover")
    /\ UNCHANGED <<seen, disk, file, guard, pending, made, ready, world>>

PublishSync(c) ==
    /\ pc[c] \in {"sync", "sync_recovery"}
    /\ FsyncDirectory
    /\ Goto(c, IF pc[c] = "sync" THEN "reserve" ELSE "recover")
    /\ UNCHANGED <<seen, file, guard, pending, made, ready, world>>

(***************************************************************************)
(* The path is reserved by exclusive creation; somebody else's file there  *)
(* is an error, and the marker goes if this call made it.                  *)
(***************************************************************************)
Reserve(c) ==
    /\ pc[c] = "reserve"
    /\ \/ /\ "ledger" \notin seen
          /\ seen' = seen \cup {"ledger"}
          /\ content' = "blank" /\ ours' = TRUE
          /\ Goto(c, "schema")
          /\ UNCHANGED <<guard, pending, made>>
       \/ /\ "ledger" \in seen
          /\ IF made[c] THEN Goto(c, "withdraw") /\ UNCHANGED <<guard, pending, made>>
             ELSE Leave(c)
          /\ UNCHANGED <<seen, file>>
    /\ UNCHANGED <<disk, ready, world>>

\* An interrupted initialization left a file without schema objects.
Recover(c) == /\ pc[c] = "recover"
              /\ IF content = "blank"
                 THEN Goto(c, "schema") /\ UNCHANGED <<guard, pending, made>>
                 ELSE Leave(c)
              /\ UNCHANGED <<seen, disk, file, ready, world>>

(***************************************************************************)
(* One transaction creates the whole schema, if the file still has none.   *)
(* SQLite syncs the file, and the directory for its journal.               *)
(***************************************************************************)
Schema(c) == /\ pc[c] = "schema"
             /\ IF content = "blank"
                THEN /\ content' = "ledger"
                     /\ disk' = IF windows THEN disk \cup {"ledger"} ELSE disk
                     /\ Goto(c, "clear")
                     /\ UNCHANGED <<guard, pending, made>>
                ELSE Leave(c) /\ UNCHANGED <<disk, content>>
             /\ UNCHANGED <<seen, ours, ready, world>>

(***************************************************************************)
(* The marker is revoked before success is reported: unlink, then fsync;   *)
(* or a move on Windows.                                                   *)
(***************************************************************************)
\* Bug for the mutants: an unlink on Windows too.
UnlinkPlain(c) == /\ pc[c] \in {"clear", "withdraw"}
                  /\ seen' = seen \ {"marker"}
                  /\ Goto(c, IF pc[c] = "clear" THEN "revoke" ELSE "withdrawn")
                  /\ UNCHANGED <<disk, file, guard, pending, made, ready, world>>

Unlink(c) == /\ pc[c] \in {"clear", "withdraw"}
             /\ seen' = seen \ {"marker"}
             /\ disk' = IF windows THEN disk \ {"marker"} ELSE disk
             /\ Goto(c, IF pc[c] = "clear" THEN "revoke" ELSE "withdrawn")
             /\ UNCHANGED <<file, guard, pending, made, ready, world>>

Revoke(c) == /\ pc[c] \in {"revoke", "withdrawn"}
             /\ FsyncDirectory
             /\ ready' = (ready \/ pc[c] = "revoke")
             /\ Leave(c)
             /\ UNCHANGED <<seen, file, world>>

-----------------------------------------------------------------------------
(***************************************************************************)
(* A call to the file system or SQLite fails: the call raises, what it did *)
(* before stays.  A failing reservation first withdraws its own marker.    *)
(***************************************************************************)
Fault(c) == /\ pc[c] # "idle"
            /\ faults < MaxFaults
            /\ faults' = faults + 1
            /\ IF pc[c] = "reserve" /\ made[c]
               THEN Goto(c, "withdraw") /\ UNCHANGED <<guard, pending, made>>
               ELSE Leave(c)
            /\ UNCHANGED <<seen, disk, file, ready, windows, crashes, foreign>>

\* The process dies; what it did to the file system is still there.
ProcessCrash(c) == /\ pc[c] # "idle"
                   /\ faults < MaxFaults
                   /\ faults' = faults + 1
                   /\ Leave(c)
                   /\ UNCHANGED <<seen, disk, file, ready, windows, crashes, foreign>>

(***************************************************************************)
(* The host loses power.  Of each name whose last change was not fsynced   *)
(* either the old or the new state is found again.                         *)
(***************************************************************************)
PowerLoss ==
    /\ crashes < MaxCrashes
    /\ crashes' = crashes + 1
    /\ \E kept \in SUBSET Names : /\ seen \cap disk \subseteq kept
                                  /\ kept \subseteq seen \cup disk
                                  /\ seen' = kept /\ disk' = kept
    /\ pc' = [c \in Client |-> "idle"]
    /\ guard' = NoClient
    /\ pending' = [c \in Client |-> FALSE]
    /\ made' = [c \in Client |-> FALSE]
    /\ UNCHANGED <<file, ready, windows, faults, foreign>>

(***************************************************************************)
(* External: another program puts a database at the path, or writes its    *)
(* tables into the empty one; a ledger in use is truncated or damaged.     *)
(***************************************************************************)
Foreign ==
    /\ foreign < MaxForeign
    /\ foreign' = foreign + 1
    /\ \/ /\ "ledger" \notin seen
          /\ seen' = seen \cup {"ledger"}
          /\ disk' = disk \cup {"ledger"}
          /\ content' \in {"blank", "foreign"}
          /\ ours' = FALSE
       \/ /\ "ledger" \in seen /\ content = "blank"
          /\ content' = "foreign"
          /\ UNCHANGED <<seen, disk, ours>>
       \/ /\ "ledger" \in seen /\ ready
          /\ content' \in {"blank", "damaged"}
          /\ UNCHANGED <<seen, disk, ours>>
    /\ UNCHANGED <<guard, pc, pending, made, ready, windows, crashes, faults>>

Proceed(c) == \/ Inspect(c) \/ Absence(c) \/ Target(c) \/ Publish(c) \/ PublishSync(c)
              \/ Reserve(c) \/ Recover(c) \/ Schema(c) \/ Unlink(c) \/ Revoke(c)

Next == \/ \E c \in Client : Guard(c) \/ Proceed(c) \/ Fault(c) \/ ProcessCrash(c)
        \/ PowerLoss \/ Foreign

Spec == Init /\ [][Next]_vars

(***************************************************************************)
(* Somebody calls initialize as long as nothing holds the lock (every      *)
(* command does, and a failed one is retried); a call that runs goes on.   *)
(***************************************************************************)
FairSpec == /\ Spec
            /\ WF_vars(\E c \in Client : Guard(c))
            /\ \A c \in Client : WF_vars(Proceed(c))

-----------------------------------------------------------------------------
(***************************************************************************)
(* Types of the variables; a call past the lock holds it.                  *)
(***************************************************************************)
TypeOK == /\ seen \subseteq Names /\ disk \subseteq Names
          /\ content \in {"blank", "ledger", "foreign", "damaged"}
          /\ ours \in BOOLEAN /\ ready \in BOOLEAN /\ windows \in BOOLEAN
          /\ guard \in Client \cup {NoClient}
          /\ pc \in [Client -> {"idle", "inspect", "absence", "target", "ensure", "sync",
                                "ensure_recovery", "sync_recovery", "reserve", "recover",
                                "schema", "clear", "revoke", "withdraw", "withdrawn"}]
          /\ pending \in [Client -> BOOLEAN] /\ made \in [Client -> BOOLEAN]
          /\ \A c \in Client : pc[c] # "idle" => guard = c

(***************************************************************************)
(* A path reserved without a schema is always recoverable: whatever stops  *)
(* now, a process or the host, the marker is found again with it.          *)
(***************************************************************************)
ReservationIsRecoverable ==
    ours /\ content = "blank" /\ ~ready /\ "ledger" \in seen \cup disk =>
        "marker" \in seen \cap disk

(***************************************************************************)
(* When initialize has reported success, no loss of power takes the ledger *)
(* away or brings the authority to recreate it back.                       *)
(***************************************************************************)
SuccessIsDurable ==
    ready => "ledger" \in seen \cap disk /\ "marker" \notin seen \cup disk

(***************************************************************************)
(* A schema is never written over a ledger that was in use, even if it is  *)
(* found truncated to nothing, nor over somebody else's database.          *)
(***************************************************************************)
NothingReinitialized ==
    [][content' = "ledger" /\ content # "ledger" => ~ready /\ content = "blank"]_vars

(***************************************************************************)
(* As long as only Sayf touches the path, and losses of power and failures *)
(* end, the ledger is eventually usable, from every state a crash leaves.  *)
(***************************************************************************)
EventuallyReady == <>((ready /\ content = "ledger") \/ foreign > 0)

=============================================================================
