------------------------- MODULE ArtifactStoreProofs -------------------------
(***************************************************************************)
(* Theorems about the artifact store, for any number of processes, of      *)
(* contents and shards, and of losses of power, failures and bit rot.      *)
(***************************************************************************)
EXTENDS ArtifactStore, TLAPS

\* Every entry was made in a directory that is durable already.
ParentsOnDisk == \A e \in seen : ParentOf[e] \in disk \cup {"root"}

(***************************************************************************)
(* What a call has established where it is: the directories it no longer   *)
(* has to create were there when it looked, and are durable once it has    *)
(* fsynced the first of them; the object is there, and durable before it   *)
(* is read back or registered.                                             *)
(***************************************************************************)
CallInv(c) ==
    LET d == put[c]
    IN  /\ todo[c] \in {<<>>, <<Shard[d]>>, <<Top, Shard[d]>>}
        /\ pc[c] = "anchor" =>
               /\ todo[c] = <<>> => Shard[d] \in seen
               /\ todo[c] = <<Shard[d]>> => Top \in seen
        /\ pc[c] \in {"mkdir", "sync"} =>
               /\ todo[c] = <<>> => {Top, Shard[d]} \subseteq disk
               /\ todo[c] = <<Shard[d]>> => Top \in disk
        /\ pc[c] = "sync" => todo[c] # <<>> /\ Head(todo[c]) \in seen
        /\ pc[c] \in {"look", "link", "publish", "verify", "reuse", "resync", "record"} =>
               {Top, Shard[d]} \subseteq disk
        /\ pc[c] \in {"publish", "reuse", "resync"} => d \in seen
        /\ pc[c] \in {"verify", "record"} => d \in disk

\* The inductive invariant.
IInv == /\ TypeOK /\ ParentsOnDisk /\ RegisteredIsDurable
        /\ \A c \in Client : CallInv(c)
        /\ crashes \in Nat

-----------------------------------------------------------------------------
(***************************************************************************)
(* The tree of directories.                                                *)
(***************************************************************************)
LEMMA Parents ==
    /\ Top \in Entries /\ ParentOf[Top] = "root"
    /\ \A d \in Digest : /\ Shard[d] \in Entries /\ ParentOf[Shard[d]] = Top
                         /\ d \in Entries /\ ParentOf[d] = Shard[d]
                         /\ Shard[d] # "root" /\ d # "root"
    /\ "root" \notin Entries
    /\ \A e \in Entries : e = Top \/ ParentOf[e] = Top \/ ParentOf[ParentOf[e]] = Top
BY NamesAssumption DEF Entries, Directories, ParentOf, Top

(***************************************************************************)
(* The lists of directories a call works on.                               *)
(***************************************************************************)
LEMMA Lists ==
    \A d \in Digest : {<<>>, <<Shard[d]>>, <<Top, Shard[d]>>} \subseteq Seq(Directories)
<1> TAKE d \in Digest
<1>1. Top \in Directories /\ Shard[d] \in Directories
    BY DEF Directories
<1>2. QED
    BY <1>1

(***************************************************************************)
(* An fsync of directories makes entries durable and loses none.           *)
(***************************************************************************)
LEMMA SyncedEntries ==
    ASSUME NEW dirs, seen \subseteq Entries, disk \subseteq seen
    PROVE  /\ disk \subseteq Synced(dirs) /\ Synced(dirs) \subseteq seen
           /\ \A e \in seen : ParentOf[e] \in dirs => e \in Synced(dirs)
BY DEF Synced, EntriesOf

(***************************************************************************)
(* What every step but a loss of power keeps of a call that does not move. *)
(***************************************************************************)
LEMMA StillThere ==
    ASSUME NEW c \in Client, CallInv(c), seen \subseteq seen', disk \subseteq disk',
           pc'[c] = pc[c], put'[c] = put[c], todo'[c] = todo[c]
    PROVE  CallInv(c)'
BY DEF CallInv

LEMMA OverInv ==
    ASSUME NEW c \in Client, pc'[c] = "idle", todo'[c] = <<>>
    PROVE  CallInv(c)'
BY DEF CallInv

\* What the calls rely on together.
StoreInv == TypeOK /\ ParentsOnDisk /\ RegisteredIsDurable

(***************************************************************************)
(* A step of one call that takes nothing away.                             *)
(***************************************************************************)
LEMMA OneCallSuffices ==
    ASSUME IInv, NEW c \in Client, seen \subseteq seen', disk \subseteq disk',
           \A d \in Client \ {c} : pc'[d] = pc[d] /\ put'[d] = put[d] /\ todo'[d] = todo[d],
           CallInv(c)'
    PROVE  \A d \in Client : CallInv(d)'
<1> TAKE d \in Client
<1>1. CASE d = c
    BY <1>1
<1>2. CASE d # c
    BY <1>2, StillThere DEF IInv
<1>3. QED
    BY <1>1, <1>2

-----------------------------------------------------------------------------
(***************************************************************************)
(* The invariant is inductive: one step per action, and under it the       *)
(* parts it can disturb.                                                   *)
(***************************************************************************)
LEMMA CallsInductive ==
    ASSUME IInv, NEW c \in Client, (\E d \in Digest : Put(c, d)) \/ Proceed(c) \/ Fault(c)
    PROVE  IInv'
<1> DEFINE Frame == /\ seen \subseteq seen' /\ disk \subseteq disk'
                    /\ \A d \in Client \ {c} : /\ pc'[d] = pc[d] /\ put'[d] = put[d]
                                               /\ todo'[d] = todo[d]
           Good == StoreInv' /\ crashes' \in Nat /\ Frame /\ CallInv(c)'
<1>a. SUFFICES Good
    BY OneCallSuffices DEF IInv, StoreInv
<1>1. ASSUME NEW d \in Digest, Put(c, d) PROVE Good
  <2> USE <1>1 DEF Put, Missing, Goto, Leave, bounds
  <2>1. Frame
    BY SyncedEntries, Parents DEF IInv, TypeOK
  <2>2. StoreInv'
    <3>1. TypeOK'
      BY SyncedEntries, Parents, Lists DEF IInv, TypeOK, CallInv, ParentsOnDisk
    <3>2. ParentsOnDisk'
      BY SyncedEntries, Parents DEF IInv, TypeOK, CallInv, ParentsOnDisk
    <3>3. RegisteredIsDurable'
      BY SyncedEntries DEF IInv, TypeOK, CallInv, RegisteredIsDurable, Path
    <3>4. QED
      BY <3>1, <3>2, <3>3 DEF StoreInv
  <2>3. CallInv(c)'
    BY SyncedEntries, Parents DEF IInv, TypeOK, CallInv, ParentsOnDisk
  <2>4. QED
    BY <2>1, <2>2, <2>3 DEF IInv
<1>2. CASE Anchor(c)
  <2> USE <1>2 DEF Anchor, Goto, Leave, bounds
  <2>1. Frame
    BY SyncedEntries, Parents DEF IInv, TypeOK
  <2>2. StoreInv'
    <3>1. TypeOK'
      BY SyncedEntries, Parents, Lists DEF IInv, TypeOK, CallInv, ParentsOnDisk
    <3>2. ParentsOnDisk'
      BY SyncedEntries, Parents DEF IInv, TypeOK, CallInv, ParentsOnDisk
    <3>3. RegisteredIsDurable'
      BY SyncedEntries DEF IInv, TypeOK, CallInv, RegisteredIsDurable, Path
    <3>4. QED
      BY <3>1, <3>2, <3>3 DEF StoreInv
  <2>3. CallInv(c)'
    <3>1. /\ put[c] \in Digest /\ put'[c] = put[c] /\ todo'[c] = todo[c] /\ pc'[c] = "mkdir"
          /\ disk \subseteq disk'
      BY SyncedEntries DEF IInv, TypeOK
    <3>2. todo[c] \in {<<>>, <<Shard[put[c]]>>, <<Top, Shard[put[c]]>>}
      BY DEF IInv, CallInv
    <3>3. ASSUME todo[c] = <<>> PROVE {Top, Shard[put[c]]} \subseteq disk'
      <4>1. Shard[put[c]] \in seen
        BY <3>3 DEF IInv, CallInv
      <4>2. Top \in disk
        BY <3>1, <4>1, Parents DEF IInv, ParentsOnDisk
      <4> DEFINE dirs == {Shard[put[c]]} \cup {ParentOf[e] : e \in {Shard[put[c]]} \cap Entries}
      <4>3. disk' = Synced(dirs) /\ Top \in dirs
        BY <3>1, <3>3, Parents
      <4>4. ParentOf[Shard[put[c]]] = Top /\ seen \subseteq Entries /\ disk \subseteq seen
        BY <3>1, Parents DEF IInv, TypeOK
      <4> HIDE DEF dirs
      <4>5. Shard[put[c]] \in disk'
        BY <4>1, <4>3, <4>4, SyncedEntries
      <4>6. QED
        BY <3>1, <4>2, <4>5
    <3>4. todo[c] = <<Shard[put[c]]>> => Top \in disk'
      BY <3>1, SyncedEntries, Parents DEF IInv, TypeOK, CallInv
    <3>5. QED
      BY <3>1, <3>2, <3>3, <3>4 DEF CallInv
  <2>4. QED
    BY <2>1, <2>2, <2>3 DEF IInv
<1>3. CASE Mkdir(c)
  <2> USE <1>3 DEF Mkdir, Goto, Leave, bounds
  <2>1. Frame
    BY SyncedEntries, Parents DEF IInv, TypeOK
  <2>2. StoreInv'
    <3>0. todo[c] # <<>> => /\ Head(todo[c]) \in Entries
                             /\ ParentOf[Head(todo[c])] \in disk \cup {"root"}
      <4>1. put[c] \in Digest
        BY DEF IInv, TypeOK
      <4>2. CASE todo[c] = <<>>
        BY <4>2
      <4>3. CASE todo[c] = <<Shard[put[c]]>>
        BY <4>1, <4>3, Parents DEF IInv, CallInv
      <4>4. CASE todo[c] = <<Top, Shard[put[c]]>>
        BY <4>4, Parents
      <4>5. QED
        BY <4>2, <4>3, <4>4 DEF IInv, CallInv
    <3>1. TypeOK'
      BY <3>0 DEF IInv, TypeOK
    <3>2. ParentsOnDisk'
      BY SyncedEntries, Parents DEF IInv, TypeOK, CallInv, ParentsOnDisk
    <3>3. RegisteredIsDurable'
      BY SyncedEntries DEF IInv, TypeOK, CallInv, RegisteredIsDurable, Path
    <3>4. QED
      BY <3>1, <3>2, <3>3 DEF StoreInv
  <2>3. CallInv(c)'
    BY SyncedEntries, Parents DEF IInv, TypeOK, CallInv, ParentsOnDisk
  <2>4. QED
    BY <2>1, <2>2, <2>3 DEF IInv
<1>4. CASE Sync(c)
  <2> USE <1>4 DEF Sync, Goto, Leave, bounds
  <2>1. Frame
    BY SyncedEntries, Parents DEF IInv, TypeOK
  <2>2. StoreInv'
    <3>1. TypeOK'
      BY SyncedEntries, Parents, Lists DEF IInv, TypeOK, CallInv, ParentsOnDisk
    <3>2. ParentsOnDisk'
      BY SyncedEntries, Parents DEF IInv, TypeOK, CallInv, ParentsOnDisk
    <3>3. RegisteredIsDurable'
      BY SyncedEntries DEF IInv, TypeOK, CallInv, RegisteredIsDurable, Path
    <3>4. QED
      BY <3>1, <3>2, <3>3 DEF StoreInv
  <2>3. CallInv(c)'
    <3>1. put[c] \in Digest /\ put'[c] = put[c] /\ todo'[c] = Tail(todo[c]) /\ pc'[c] = "mkdir"
      BY DEF IInv, TypeOK
    <3>2. todo[c] = <<Shard[put[c]]>> \/ todo[c] = <<Top, Shard[put[c]]>>
      BY DEF IInv, CallInv
    <3>3. disk \subseteq disk' /\ Head(todo[c]) \in disk'
      BY SyncedEntries DEF IInv, TypeOK, CallInv
    <3>4. CASE todo[c] = <<Shard[put[c]]>>
      <4>1. todo'[c] = <<>> /\ Head(todo[c]) = Shard[put[c]] /\ Top \in disk
        BY <3>1, <3>4 DEF IInv, CallInv
      <4>2. QED
        BY <3>1, <3>3, <4>1 DEF CallInv
    <3>5. CASE todo[c] = <<Top, Shard[put[c]]>>
      <4>1. todo'[c] = <<Shard[put[c]]>> /\ todo'[c] # <<>> /\ Head(todo[c]) = Top
        BY <3>1, <3>5
      <4>2. QED
        BY <3>1, <3>3, <4>1 DEF CallInv
    <3>6. QED
      BY <3>2, <3>4, <3>5
  <2>4. QED
    BY <2>1, <2>2, <2>3 DEF IInv
<1>5. CASE Look(c)
  <2> USE <1>5 DEF Look, Goto, Leave, bounds
  <2>1. Frame
    BY SyncedEntries, Parents DEF IInv, TypeOK
  <2>2. StoreInv'
    <3>1. TypeOK'
      BY SyncedEntries, Parents, Lists DEF IInv, TypeOK, CallInv, ParentsOnDisk
    <3>2. ParentsOnDisk'
      BY SyncedEntries, Parents DEF IInv, TypeOK, CallInv, ParentsOnDisk
    <3>3. RegisteredIsDurable'
      BY SyncedEntries DEF IInv, TypeOK, CallInv, RegisteredIsDurable, Path
    <3>4. QED
      BY <3>1, <3>2, <3>3 DEF StoreInv
  <2>3. CallInv(c)'
    BY SyncedEntries, Parents DEF IInv, TypeOK, CallInv, ParentsOnDisk
  <2>4. QED
    BY <2>1, <2>2, <2>3 DEF IInv
<1>6. CASE Link(c)
  <2> USE <1>6 DEF Link, Goto, Leave, bounds
  <2>1. Frame
    BY SyncedEntries, Parents DEF IInv, TypeOK
  <2>2. StoreInv'
    <3>0. (put[c] \in seen) => TypeOK'
      BY DEF IInv, TypeOK
    <3>1. ASSUME put[c] \notin seen PROVE TypeOK'
      <4>0. put[c] \in Digest /\ Shard[put[c]] \in seen
        BY DEF IInv, TypeOK, CallInv
      <4>1. put[c] \in Entries /\ ParentOf[put[c]] \in seen
        BY <4>0, Parents
      <4>2. /\ seen' = seen \cup {put[c]} /\ maker' = [maker EXCEPT ![put[c]] = c]
            /\ bad' = bad \ {put[c]} /\ pc' = [pc EXCEPT ![c] = "publish"]
            /\ UNCHANGED <<disk, put, todo, registered>>
        BY <3>1
      <4>3. QED
        BY <4>0, <4>1, <4>2 DEF IInv, TypeOK
    <3>2. ParentsOnDisk'
      BY SyncedEntries, Parents DEF IInv, TypeOK, CallInv, ParentsOnDisk
    <3>3. RegisteredIsDurable'
      BY SyncedEntries DEF IInv, TypeOK, CallInv, RegisteredIsDurable, Path
    <3>4. QED
      BY <3>0, <3>1, <3>2, <3>3 DEF StoreInv
  <2>3. CallInv(c)'
    BY SyncedEntries, Parents DEF IInv, TypeOK, CallInv, ParentsOnDisk
  <2>4. QED
    BY <2>1, <2>2, <2>3 DEF IInv
<1>7. CASE Publish(c)
  <2> USE <1>7 DEF Publish, Goto, Leave, bounds
  <2>1. Frame
    BY SyncedEntries, Parents DEF IInv, TypeOK
  <2>2. StoreInv'
    <3>1. TypeOK'
      BY SyncedEntries, Parents, Lists DEF IInv, TypeOK, CallInv, ParentsOnDisk
    <3>2. ParentsOnDisk'
      BY SyncedEntries, Parents DEF IInv, TypeOK, CallInv, ParentsOnDisk
    <3>3. RegisteredIsDurable'
      BY SyncedEntries DEF IInv, TypeOK, CallInv, RegisteredIsDurable, Path
    <3>4. QED
      BY <3>1, <3>2, <3>3 DEF StoreInv
  <2>3. CallInv(c)'
    BY SyncedEntries, Parents DEF IInv, TypeOK, CallInv, ParentsOnDisk
  <2>4. QED
    BY <2>1, <2>2, <2>3 DEF IInv
<1>8. CASE Verify(c)
  <2> USE <1>8 DEF Verify, Goto, Leave, bounds
  <2>1. Frame
    BY SyncedEntries, Parents DEF IInv, TypeOK
  <2>2. StoreInv'
    <3>0. (put[c] \in bad) => TypeOK'
      BY Lists DEF IInv, TypeOK
    <3>1. (put[c] \notin bad) => TypeOK'
      BY DEF IInv, TypeOK
    <3>2. ParentsOnDisk'
      BY SyncedEntries, Parents DEF IInv, TypeOK, CallInv, ParentsOnDisk
    <3>3. RegisteredIsDurable'
      BY SyncedEntries DEF IInv, TypeOK, CallInv, RegisteredIsDurable, Path
    <3>4. QED
      BY <3>0, <3>1, <3>2, <3>3 DEF StoreInv
  <2>3. CallInv(c)'
    BY SyncedEntries, Parents DEF IInv, TypeOK, CallInv, ParentsOnDisk
  <2>4. QED
    BY <2>1, <2>2, <2>3 DEF IInv
<1>9. CASE Reuse(c)
  <2> USE <1>9 DEF Reuse, Goto, Leave, bounds
  <2>1. Frame
    BY SyncedEntries, Parents DEF IInv, TypeOK
  <2>2. StoreInv'
    <3>0. (put[c] \in bad) => TypeOK'
      BY Lists DEF IInv, TypeOK
    <3>1. (put[c] \notin bad) => TypeOK'
      BY DEF IInv, TypeOK
    <3>2. ParentsOnDisk'
      BY SyncedEntries, Parents DEF IInv, TypeOK, CallInv, ParentsOnDisk
    <3>3. RegisteredIsDurable'
      BY SyncedEntries DEF IInv, TypeOK, CallInv, RegisteredIsDurable, Path
    <3>4. QED
      BY <3>0, <3>1, <3>2, <3>3 DEF StoreInv
  <2>3. CallInv(c)'
    BY SyncedEntries, Parents DEF IInv, TypeOK, CallInv, ParentsOnDisk
  <2>4. QED
    BY <2>1, <2>2, <2>3 DEF IInv
<1>10. CASE Resync(c)
  <2> USE <1>10 DEF Resync, Goto, Leave, bounds
  <2>1. Frame
    BY SyncedEntries, Parents DEF IInv, TypeOK
  <2>2. StoreInv'
    <3>1. TypeOK'
      BY SyncedEntries, Parents, Lists DEF IInv, TypeOK, CallInv, ParentsOnDisk
    <3>2. ParentsOnDisk'
      BY SyncedEntries, Parents DEF IInv, TypeOK, CallInv, ParentsOnDisk
    <3>3. RegisteredIsDurable'
      BY SyncedEntries DEF IInv, TypeOK, CallInv, RegisteredIsDurable, Path
    <3>4. QED
      BY <3>1, <3>2, <3>3 DEF StoreInv
  <2>3. CallInv(c)'
    BY SyncedEntries, Parents DEF IInv, TypeOK, CallInv, ParentsOnDisk
  <2>4. QED
    BY <2>1, <2>2, <2>3 DEF IInv
<1>11. CASE Register(c)
  <2> USE <1>11 DEF Register, Goto, Leave, bounds
  <2>1. Frame
    BY SyncedEntries, Parents DEF IInv, TypeOK
  <2>2. StoreInv'
    <3>1. TypeOK'
      BY SyncedEntries, Parents, Lists DEF IInv, TypeOK, CallInv, ParentsOnDisk
    <3>2. ParentsOnDisk'
      BY SyncedEntries, Parents DEF IInv, TypeOK, CallInv, ParentsOnDisk
    <3>3. RegisteredIsDurable'
      BY SyncedEntries DEF IInv, TypeOK, CallInv, RegisteredIsDurable, Path
    <3>4. QED
      BY <3>1, <3>2, <3>3 DEF StoreInv
  <2>3. CallInv(c)'
    BY SyncedEntries, Parents DEF IInv, TypeOK, CallInv, ParentsOnDisk
  <2>4. QED
    BY <2>1, <2>2, <2>3 DEF IInv
<1>12. CASE Fault(c)
  <2> USE <1>12 DEF Fault, Goto, Leave, bounds
  <2>1. Frame
    BY SyncedEntries, Parents DEF IInv, TypeOK
  <2>2. StoreInv'
    <3>1. TypeOK'
      BY SyncedEntries, Parents, Lists DEF IInv, TypeOK, CallInv, ParentsOnDisk
    <3>2. ParentsOnDisk'
      BY SyncedEntries, Parents DEF IInv, TypeOK, CallInv, ParentsOnDisk
    <3>3. RegisteredIsDurable'
      BY SyncedEntries DEF IInv, TypeOK, CallInv, RegisteredIsDurable, Path
    <3>4. QED
      BY <3>1, <3>2, <3>3 DEF StoreInv
  <2>3. CallInv(c)'
    BY SyncedEntries, Parents DEF IInv, TypeOK, CallInv, ParentsOnDisk
  <2>4. QED
    BY <2>1, <2>2, <2>3 DEF IInv
<1>13. QED
    BY <1>1, <1>2, <1>3, <1>4, <1>5, <1>6, <1>7, <1>8, <1>9, <1>10, <1>11, <1>12 DEF Proceed

(***************************************************************************)
(* A loss of power keeps what was on disk, for the directories above it    *)
(* are on disk too.                                                        *)
(***************************************************************************)
LEMMA ReachableKeeps ==
    ASSUME TypeOK, ParentsOnDisk, NEW kept \in SUBSET seen, disk \subseteq kept
    PROVE  /\ Reachable(kept) \subseteq kept /\ disk \subseteq Reachable(kept)
           /\ \A e \in Reachable(kept) : ParentOf[e] \in Reachable(kept) \cup {"root"}
<1> DEFINE below(dirs) == {e \in kept : ParentOf[e] \in dirs}
           one == below({"root"})
           two == below(one)
           three == below(two)
<1>1. Reachable(kept) = one \cup two \cup three
    BY DEF Reachable
<1>2. \A e \in disk : e \in one \/ (ParentOf[e] \in disk /\ e \in kept)
    BY DEF TypeOK, ParentsOnDisk
<1>3. \A e \in disk : e = Top \/ ParentOf[e] = Top \/ ParentOf[ParentOf[e]] = Top
    BY Parents DEF TypeOK
<1>4. Top \in disk => Top \in one
    BY Parents
<1>5. \A e \in disk : ParentOf[e] = Top => e \in one \cup two
    BY <1>2, <1>4
<1>6. \A e \in disk : ParentOf[ParentOf[e]] = Top => e \in one \cup two \cup three
  <2> TAKE e \in disk
  <2>1. CASE e \in one
    BY <2>1
  <2>2. CASE ParentOf[e] \in disk /\ e \in kept
    <3>1. ParentOf[ParentOf[e]] = Top => ParentOf[e] \in one \cup two
      BY <1>5, <2>2
    <3>2. QED
      BY <2>2, <3>1
  <2>3. QED
    BY <1>2, <2>1, <2>2
<1>7. disk \subseteq one \cup two \cup three
    BY <1>3, <1>4, <1>5, <1>6
<1>8. QED
    BY <1>1, <1>7

LEMMA Inductive == IInv /\ [Next]_vars => IInv'
<1> SUFFICES ASSUME IInv, [Next]_vars PROVE IInv'
    OBVIOUS
<1>1. ASSUME NEW c \in Client, (\E d \in Digest : Put(c, d)) \/ Proceed(c) \/ Fault(c)
      PROVE  IInv'
    BY <1>1, CallsInductive
<1>2. CASE PowerLoss
  <2>1. PICK kept \in SUBSET seen : disk \subseteq kept /\ seen' = Reachable(kept)
    BY <1>2 DEF PowerLoss
  <2>2. disk' = seen' /\ disk \subseteq disk' /\ seen' \subseteq seen
    BY <1>2, <2>1, ReachableKeeps DEF IInv, PowerLoss
  <2>3. \A e \in seen' : ParentOf[e] \in disk' \cup {"root"}
    BY <2>1, <2>2, ReachableKeeps DEF IInv
  <2>4. TypeOK'
    BY <1>2, <2>2, <2>3 DEF PowerLoss, IInv, TypeOK
  <2>5. RegisteredIsDurable'
    BY <1>2, <2>2 DEF PowerLoss, IInv, RegisteredIsDurable
  <2>6. \A c \in Client : CallInv(c)'
    BY <1>2, OverInv DEF PowerLoss
  <2>7. QED
    BY <1>2, <2>3, <2>4, <2>5, <2>6 DEF PowerLoss, IInv, ParentsOnDisk
<1>3. CASE Rot
    BY <1>3 DEF Rot, IInv, TypeOK, ParentsOnDisk, RegisteredIsDurable, CallInv
<1>4. CASE UNCHANGED vars
    BY <1>4 DEF vars, bounds, IInv, TypeOK, ParentsOnDisk, RegisteredIsDurable, CallInv
<1>5. QED
    BY <1>1, <1>2, <1>3, <1>4 DEF Next

LEMMA InitIInv == Init => IInv
BY NamesAssumption DEF Init, IInv, TypeOK, ParentsOnDisk, RegisteredIsDurable, CallInv

LEMMA Invariant == Spec => []IInv
BY InitIInv, Inductive, PTL DEF Spec

-----------------------------------------------------------------------------
(***************************************************************************)
(* The artifact store: the variables keep their types; what is on disk the *)
(* processes see, and every entry they see has the directory it is in.     *)
(***************************************************************************)
THEOREM SpecTypeOK == Spec => []TypeOK
<1>1. IInv => TypeOK
    BY DEF IInv
<1>2. QED
    BY Invariant, <1>1, PTL

(***************************************************************************)
(* register_artifact_file: an object the ledger names is on disk with all  *)
(* its directories, whoever created them and whatever was lost since.      *)
(***************************************************************************)
THEOREM SpecRegisteredIsDurable == Spec => []RegisteredIsDurable
<1>1. IInv => RegisteredIsDurable
    BY DEF IInv
<1>2. QED
    BY Invariant, <1>1, PTL

(***************************************************************************)
(* The artifact store: no publisher replaces the object at a digest's      *)
(* path, nor repairs one that no longer verifies.                          *)
(***************************************************************************)
THEOREM SpecNeverReplaced == Spec => NeverReplaced
<1> DEFINE Kept == \A d \in seen \cap Digest :
                       crashes' = crashes =>
                           d \in seen' /\ maker'[d] = maker[d] /\ (d \in bad => d \in bad')
<1>1. IInv /\ [Next]_vars => [Kept]_vars
  <2> SUFFICES ASSUME IInv, Next PROVE Kept
    OBVIOUS
  <2>1. ASSUME NEW c \in Client, Link(c) PROVE Kept
    BY <2>1 DEF Link, IInv, TypeOK
  <2>2. CASE PowerLoss
    BY <2>2 DEF PowerLoss, IInv
  <2>3. ASSUME NEW c \in Client, ~Link(c),
               (\E d \in Digest : Put(c, d)) \/ Proceed(c) \/ Fault(c)
        PROVE  Kept
    BY <2>3 DEF Put, Proceed, Fault, Anchor, Mkdir, Sync, Look, Publish, Verify, Reuse, Resync,
                Register
  <2>4. CASE Rot
    BY <2>4 DEF Rot
  <2>5. QED
    BY <2>1, <2>2, <2>3, <2>4 DEF Next, Proceed
<1>2. QED
    BY Invariant, <1>1, PTL DEF Spec, NeverReplaced
=============================================================================
