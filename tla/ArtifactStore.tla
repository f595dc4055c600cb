---------------------------- MODULE ArtifactStore ----------------------------
(***************************************************************************)
(* The content-addressed artifact store (artifacts.py) on POSIX, and the   *)
(* registration of its objects in the ledger (register_artifact_file).     *)
(* A digest names a path root/sha256/<shard>/<digest>.  Clients create the *)
(* directories and publish objects at the same time; processes die and     *)
(* the host may lose power between any two steps.                          *)
(*                                                                         *)
(* A directory entry is durable once its directory was fsynced.  Each      *)
(* entry is kept as the processes see it and as the disk has it; an entry  *)
(* whose directory did not survive is gone as well.  A staging file is     *)
(* complete and fsynced before it is published, so it is not modelled.     *)
(***************************************************************************)
EXTENDS Naturals, Sequences, FiniteSets

CONSTANTS Client,      \* processes that register artifacts
          NoClient,    \* nobody
          Digest,      \* digests of the contents they register
          Shard,       \* digest -> its shard directory
          MaxCrashes,  \* bound: power losses
          MaxFaults,   \* bound: failing calls, dying processes
          MaxRot       \* bound: objects that change on disk

ASSUME NoClientAssumption == NoClient \notin Client

VARIABLES seen,        \* entries the processes see
          disk,        \* entries on disk
          bad,         \* digests whose object no longer has its content
          maker,       \* digest -> the client whose object is at its path
          pc, put,     \* where each call is, the digest it stores
          todo,        \* directories the call still has to create, outermost first
          registered,  \* digests with an Artifact record in the ledger
          crashes, faults, rot

bounds == <<crashes, faults, rot>>
vars == <<seen, disk, bad, maker, pc, put, todo, registered, bounds>>

Top == "sha256"

\* Names of directories are shorter than digests, and a shard has two letters.
ASSUME NamesAssumption ==
    /\ {"root", Top} \cap Digest = {}
    /\ \A d \in Digest : Shard[d] \notin Digest \cup {"root", Top}

Directories == {Top} \cup {Shard[d] : d \in Digest}
Entries == Directories \cup Digest

\* The directory an entry is in; "root" is there before the run.
ParentOf == [e \in Entries |-> IF e = Top THEN "root"
                               ELSE IF e \in Digest THEN Shard[e] ELSE Top]

EntriesOf(dir) == {e \in Entries : ParentOf[e] = dir}

\* The entries on the way to the object of d.
Path(d) == {Top, Shard[d], d}

Init == /\ seen = {} /\ disk = {} /\ bad = {}
        /\ maker = [d \in Digest |-> NoClient]
        /\ pc = [c \in Client |-> "idle"]
        /\ put \in [Client -> Digest]   \* anything: a call sets it
        /\ todo = [c \in Client |-> <<>>]
        /\ registered = {}
        /\ crashes = 0 /\ faults = 0 /\ rot = 0

Goto(c, l) == pc' = [pc EXCEPT ![c] = l]

Leave(c) == Goto(c, "idle") /\ todo' = [todo EXCEPT ![c] = <<>>]

\* What the disk has once these directories are fsynced.
Synced(dirs) == disk \cup (seen \cap UNION {EntriesOf(dir) : dir \in dirs})

-----------------------------------------------------------------------------
(***************************************************************************)
(* put_file stages the content and looks, from the shard upwards, for the  *)
(* first directory that exists.                                            *)
(***************************************************************************)
\* Bug for the mutants: the missing directories are not put in reverse.
MissingUnreversed(d) == IF Shard[d] \in seen THEN <<>>
                        ELSE IF Top \in seen THEN <<Shard[d]>> ELSE <<Shard[d], Top>>

Missing(d) == IF Shard[d] \in seen THEN <<>>
              ELSE IF Top \in seen THEN <<Shard[d]>> ELSE <<Top, Shard[d]>>

Put(c, d) == /\ pc[c] = "idle"
             /\ put' = [put EXCEPT ![c] = d]
             /\ todo' = [todo EXCEPT ![c] = Missing(d)]
             /\ Goto(c, "anchor")
             /\ UNCHANGED <<seen, disk, bad, maker, registered, bounds>>

(***************************************************************************)
(* That directory may just have been created by somebody else: it and its  *)
(* parent are fsynced first.                                               *)
(***************************************************************************)
Anchor(c) ==
    LET existing == IF todo[c] = <<>> THEN Shard[put[c]] ELSE ParentOf[Head(todo[c])]
    IN  /\ pc[c] = "anchor"
        /\ disk' = Synced({existing} \cup {ParentOf[e] : e \in {existing} \cap Entries})
        /\ Goto(c, "mkdir")
        /\ UNCHANGED <<seen, bad, maker, put, todo, registered, bounds>>

(***************************************************************************)
(* The missing directories, outermost first; each, and its parent, is      *)
(* fsynced before the next.  One that exists by now is welcome.            *)
(***************************************************************************)
Mkdir(c) == /\ pc[c] = "mkdir"
            /\ IF todo[c] = <<>> THEN Goto(c, "look") /\ UNCHANGED seen
               ELSE seen' = seen \cup {Head(todo[c])} /\ Goto(c, "sync")
            /\ UNCHANGED <<disk, bad, maker, put, todo, registered, bounds>>

Sync(c) == /\ pc[c] = "sync"
           /\ disk' = Synced({Head(todo[c]), ParentOf[Head(todo[c])]})
           /\ todo' = [todo EXCEPT ![c] = Tail(@)]
           /\ Goto(c, "mkdir")
           /\ UNCHANGED <<seen, bad, maker, put, registered, bounds>>

(***************************************************************************)
(* An object at the path is reused if it verifies and never replaced if it *)
(* does not; otherwise the staged one is linked there, which fails if      *)
(* another publisher was faster.                                           *)
(***************************************************************************)
Look(c) == /\ pc[c] = "look"
           /\ Goto(c, IF put[c] \in seen THEN "reuse" ELSE "link")
           /\ UNCHANGED <<seen, disk, bad, maker, put, todo, registered, bounds>>

\* Bug for the mutants: os.replace instead of os.link.
LinkOver(c) == /\ pc[c] = "link"
               /\ seen' = seen \cup {put[c]}
               /\ maker' = [maker EXCEPT ![put[c]] = c]
               /\ bad' = bad \ {put[c]}
               /\ Goto(c, "publish")
               /\ UNCHANGED <<disk, put, todo, registered, bounds>>

Link(c) == /\ pc[c] = "link"
           /\ IF put[c] \in seen
              THEN Goto(c, "reuse") /\ UNCHANGED <<seen, maker, bad>>
              ELSE /\ seen' = seen \cup {put[c]}
                   /\ maker' = [maker EXCEPT ![put[c]] = c]
                   /\ bad' = bad \ {put[c]}
                   /\ Goto(c, "publish")
           /\ UNCHANGED <<disk, put, todo, registered, bounds>>

\* The shard is fsynced, then the published object is read back.
Publish(c) == /\ pc[c] = "publish"
              /\ disk' = Synced({Shard[put[c]]})
              /\ Goto(c, "verify")
              /\ UNCHANGED <<seen, bad, maker, put, todo, registered, bounds>>

Verify(c) == /\ pc[c] = "verify"
             /\ IF put[c] \in bad THEN Leave(c) ELSE Goto(c, "record") /\ UNCHANGED todo
             /\ UNCHANGED <<seen, disk, bad, maker, put, registered, bounds>>

Reuse(c) == /\ pc[c] = "reuse"
            /\ IF put[c] \in bad THEN Leave(c) ELSE Goto(c, "resync") /\ UNCHANGED todo
            /\ UNCHANGED <<seen, disk, bad, maker, put, registered, bounds>>

(***************************************************************************)
(* The publisher of a reused object may not have fsynced the shard yet, so *)
(* the one that reuses it does.                                            *)
(***************************************************************************)
\* Bug for the mutants: the publisher is trusted to do so.
ResyncTrusting(c) == /\ pc[c] = "resync"
                     /\ Goto(c, "record")
                     /\ UNCHANGED <<seen, disk, bad, maker, put, todo, registered, bounds>>

Resync(c) == /\ pc[c] = "resync"
             /\ disk' = Synced({Shard[put[c]]})
             /\ Goto(c, "record")
             /\ UNCHANGED <<seen, bad, maker, put, todo, registered, bounds>>

(***************************************************************************)
(* The Artifact record is appended to the ledger (the Repository module    *)
(* models that call); or it is refused and the object stays without one.   *)
(***************************************************************************)
Register(c) == /\ pc[c] = "record"
               /\ registered' \in {registered, registered \cup {put[c]}}
               /\ Leave(c)
               /\ UNCHANGED <<seen, disk, bad, maker, put, bounds>>

-----------------------------------------------------------------------------
\* A call to the file system fails, or the process dies.
Fault(c) == /\ pc[c] # "idle"
            /\ faults < MaxFaults
            /\ faults' = faults + 1
            /\ Leave(c)
            /\ UNCHANGED <<seen, disk, bad, maker, put, registered, crashes, rot>>

(***************************************************************************)
(* The host loses power: entries that were not fsynced may be lost, and    *)
(* with a directory everything in it.                                      *)
(***************************************************************************)
Reachable(kept) ==
    LET below(dirs) == {e \in kept : ParentOf[e] \in dirs}
    IN  below({"root"}) \cup below(below({"root"})) \cup below(below(below({"root"})))

PowerLoss ==
    /\ crashes < MaxCrashes
    /\ crashes' = crashes + 1
    /\ \E kept \in SUBSET seen :
           /\ disk \subseteq kept
           /\ seen' = Reachable(kept)
    /\ disk' = seen'
    /\ bad' = bad \cap seen'
    /\ pc' = [c \in Client |-> "idle"]
    /\ todo' = [c \in Client |-> <<>>]
    /\ UNCHANGED <<maker, put, registered, faults, rot>>

\* External: the bytes of an object change.
Rot == /\ rot < MaxRot
       /\ rot' = rot + 1
       /\ \E d \in seen \cap Digest : bad' = bad \cup {d}
       /\ UNCHANGED <<seen, disk, maker, pc, put, todo, registered, crashes, faults>>

Proceed(c) == \/ Anchor(c) \/ Mkdir(c) \/ Sync(c) \/ Look(c) \/ Link(c) \/ Publish(c)
              \/ Verify(c) \/ Reuse(c) \/ Resync(c) \/ Register(c)

Next == \/ \E c \in Client : (\E d \in Digest : Put(c, d)) \/ Proceed(c) \/ Fault(c)
        \/ PowerLoss \/ Rot

Spec == Init /\ [][Next]_vars

-----------------------------------------------------------------------------
(***************************************************************************)
(* Types of the variables.                                                 *)
(***************************************************************************)
TypeOK == /\ seen \subseteq Entries /\ disk \subseteq seen
          /\ bad \subseteq seen \cap Digest /\ registered \subseteq Digest
          /\ maker \in [Digest -> Client \cup {NoClient}]
          /\ \A e \in seen : ParentOf[e] \in seen \cup {"root"}
          /\ put \in [Client -> Digest] /\ todo \in [Client -> Seq(Directories)]
          /\ pc \in [Client -> {"idle", "anchor", "mkdir", "sync", "look", "link", "publish",
                                "verify", "reuse", "resync", "record"}]

(***************************************************************************)
(* The bytes come before the record: an object the ledger names is on disk *)
(* with every directory above it, so no loss of power takes it away.       *)
(***************************************************************************)
RegisteredIsDurable == \A d \in registered : Path(d) \subseteq disk

(***************************************************************************)
(* The object at a digest's path is never replaced by another one, valid   *)
(* or not; only a loss of power takes one away.                            *)
(***************************************************************************)
NeverReplaced ==
    [][\A d \in seen \cap Digest :
           crashes' = crashes =>
               d \in seen' /\ maker'[d] = maker[d] /\ (d \in bad => d \in bad')]_vars

=============================================================================
