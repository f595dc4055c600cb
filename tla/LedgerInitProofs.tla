-------------------------- MODULE LedgerInitProofs --------------------------
(***************************************************************************)
(* Theorems about creating the ledger, for any number of processes and of  *)
(* losses of power, failures and foreign writes, on either platform.       *)
(***************************************************************************)
EXTENDS LedgerInit, TLAPS

(***************************************************************************)
(* How the two views of the directory differ.  A name on disk that the     *)
(* processes do not see is a marker whose unlink was not fsynced; on       *)
(* Windows there is no such marker, and a ledger with a schema was flushed *)
(* with its name.                                                          *)
(***************************************************************************)
DirectoryInv ==
    /\ "ledger" \in disk => "ledger" \in seen
    /\ windows => /\ "marker" \in seen <=> "marker" \in disk
                  /\ content = "ledger" /\ "ledger" \in seen => "ledger" \in disk

\* A call that creates or recovers runs only before the first success.
ReadyInv == ready => \A c \in Client : pc[c] \in {"idle", "inspect", "absence", "target"}

(***************************************************************************)
(* What a call has established where it is.  Only the owner of the lock    *)
(* moves the marker, so what it found of it stays true.                    *)
(***************************************************************************)
CallInv(c) ==
    /\ pc[c] \in {"absence", "target"} => (pending[c] <=> "marker" \in seen)
    /\ pc[c] = "target" /\ ~pending[c] /\ "ledger" \in seen /\ content = "ledger"
         => "ledger" \in disk /\ "marker" \notin seen \cup disk
    /\ pc[c] \in {"ensure", "sync", "reserve", "withdraw", "withdrawn"}
         => ("ledger" \in seen => ~ours)
    /\ pc[c] \in {"ensure_recovery", "sync_recovery", "recover", "schema", "clear", "revoke"}
         => "ledger" \in seen
    /\ pc[c] \in {"sync", "ensure_recovery", "sync_recovery"} => "marker" \in seen
    /\ pc[c] \in {"reserve", "recover", "schema"} => "marker" \in seen \cap disk
    /\ pc[c] \in {"clear", "revoke"} => content = "ledger"
    /\ pc[c] = "revoke" => "marker" \notin seen

\* The inductive invariant.
IInv == /\ TypeOK /\ DirectoryInv /\ ReadyInv
        /\ ReservationIsRecoverable /\ SuccessIsDurable
        /\ \A c \in Client : CallInv(c)

-----------------------------------------------------------------------------
(***************************************************************************)
(* The lock serialises the calls: while one runs, the others are idle.     *)
(***************************************************************************)
LEMMA OthersIdle ==
    ASSUME TypeOK, NEW c \in Client, NEW d \in Client, pc[c] # "idle", d # c
    PROVE  pc[d] = "idle"
BY DEF TypeOK

(***************************************************************************)
(* The variables a call keeps for itself, and the lock.                    *)
(***************************************************************************)
Places == {"idle", "inspect", "absence", "target", "ensure", "sync", "ensure_recovery",
           "sync_recovery", "reserve", "recover", "schema", "clear", "revoke",
           "withdraw", "withdrawn"}

CallTypes == /\ guard \in Client \cup {NoClient}
             /\ pc \in [Client -> Places]
             /\ pending \in [Client -> BOOLEAN] /\ made \in [Client -> BOOLEAN]
             /\ \A c \in Client : pc[c] # "idle" => guard = c

FileTypes == /\ seen \subseteq Names /\ disk \subseteq Names
             /\ content \in {"blank", "ledger", "foreign", "damaged"}
             /\ ours \in BOOLEAN /\ ready \in BOOLEAN /\ windows \in BOOLEAN

\* A call that ends gives up only its own lock.
LEMMA LeaveKeepsTypes ==
    ASSUME CallTypes, NEW c \in Client, pc[c] # "idle", Leave(c)
    PROVE  CallTypes'
BY DEF CallTypes, Leave, Goto, Places

\* A call that goes on keeps the lock it holds.
LEMMA GotoKeepsTypes ==
    ASSUME CallTypes, NEW c \in Client, pc[c] # "idle", NEW l \in Places, Goto(c, l),
           UNCHANGED <<guard, pending, made>>
    PROVE  CallTypes'
BY DEF CallTypes, Goto, Places

(***************************************************************************)
(* Types of the variables are kept, and a call past the lock holds it:     *)
(* BEGIN EXCLUSIVE is taken only when the sidecar is free, and the calls   *)
(* that end give up only their own lock.                                   *)
(***************************************************************************)
LEMMA TypeInductive == TypeOK /\ [Next]_vars => TypeOK'
<1> SUFFICES ASSUME TypeOK, [Next]_vars PROVE CallTypes' /\ FileTypes'
    BY DEF TypeOK, CallTypes, FileTypes, Places
<1>a. CallTypes /\ FileTypes
    BY DEF TypeOK, CallTypes, FileTypes, Places
<1>b. {"inspect", "absence", "target", "ensure", "sync", "ensure_recovery", "sync_recovery",
       "reserve", "recover", "schema", "clear", "revoke", "withdraw", "withdrawn"} \subseteq Places
    BY DEF Places
<1>1. ASSUME NEW c \in Client, Guard(c) PROVE CallTypes' /\ FileTypes'
    BY <1>1, <1>a, NoClientAssumption
    DEF Guard, CallTypes, FileTypes, Places, Names, Goto, file, world
<1>2. ASSUME NEW c \in Client, Inspect(c) PROVE CallTypes' /\ FileTypes'
    BY <1>2, <1>a, NoClientAssumption
    DEF Inspect, CallTypes, FileTypes, Places, Names, Goto, file, world
<1>3. ASSUME NEW c \in Client, Publish(c) PROVE CallTypes' /\ FileTypes'
    BY <1>3, <1>a, NoClientAssumption
    DEF Publish, CallTypes, FileTypes, Places, Names, Goto, file, world
<1>4. ASSUME NEW c \in Client, Absence(c) PROVE CallTypes' /\ FileTypes'
  <2>1. pc[c] # "idle" /\ FileTypes'
    BY <1>4, <1>a DEF Absence, FileTypes, Names, FsyncDirectory, file, world
  <2>2. Leave(c) \/ (\E l \in Places : Goto(c, l) /\ UNCHANGED <<guard, pending, made>>)
    BY <1>4, <1>b DEF Absence
  <2>3. QED
    BY <1>a, <2>1, <2>2, LeaveKeepsTypes, GotoKeepsTypes
<1>5. ASSUME NEW c \in Client, Target(c) PROVE CallTypes' /\ FileTypes'
  <2>1. pc[c] # "idle" /\ FileTypes'
    BY <1>5, <1>a DEF Target, FileTypes, Names, FsyncDirectory, file, world
  <2>2. Leave(c) \/ (\E l \in Places : Goto(c, l) /\ UNCHANGED <<guard, pending, made>>)
    BY <1>5, <1>b DEF Target
  <2>3. QED
    BY <1>a, <2>1, <2>2, LeaveKeepsTypes, GotoKeepsTypes
<1>6. ASSUME NEW c \in Client, PublishSync(c) PROVE CallTypes' /\ FileTypes'
  <2>1. pc[c] # "idle" /\ FileTypes'
    BY <1>6, <1>a DEF PublishSync, FileTypes, Names, FsyncDirectory, file, world
  <2>2. Leave(c) \/ (\E l \in Places : Goto(c, l) /\ UNCHANGED <<guard, pending, made>>)
    BY <1>6, <1>b DEF PublishSync
  <2>3. QED
    BY <1>a, <2>1, <2>2, LeaveKeepsTypes, GotoKeepsTypes
<1>7. ASSUME NEW c \in Client, Reserve(c) PROVE CallTypes' /\ FileTypes'
  <2>1. pc[c] # "idle" /\ FileTypes'
    BY <1>7, <1>a DEF Reserve, FileTypes, Names, FsyncDirectory, file, world
  <2>2. Leave(c) \/ (\E l \in Places : Goto(c, l) /\ UNCHANGED <<guard, pending, made>>)
    BY <1>7, <1>b DEF Reserve
  <2>3. QED
    BY <1>a, <2>1, <2>2, LeaveKeepsTypes, GotoKeepsTypes
<1>8. ASSUME NEW c \in Client, Recover(c) PROVE CallTypes' /\ FileTypes'
  <2>1. pc[c] # "idle" /\ FileTypes'
    BY <1>8, <1>a DEF Recover, FileTypes, Names, FsyncDirectory, file, world
  <2>2. Leave(c) \/ (\E l \in Places : Goto(c, l) /\ UNCHANGED <<guard, pending, made>>)
    BY <1>8, <1>b DEF Recover
  <2>3. QED
    BY <1>a, <2>1, <2>2, LeaveKeepsTypes, GotoKeepsTypes
<1>9. ASSUME NEW c \in Client, Schema(c) PROVE CallTypes' /\ FileTypes'
  <2>1. pc[c] # "idle" /\ FileTypes'
    BY <1>9, <1>a DEF Schema, FileTypes, Names, FsyncDirectory, file, world
  <2>2. Leave(c) \/ (\E l \in Places : Goto(c, l) /\ UNCHANGED <<guard, pending, made>>)
    BY <1>9, <1>b DEF Schema
  <2>3. QED
    BY <1>a, <2>1, <2>2, LeaveKeepsTypes, GotoKeepsTypes
<1>10. ASSUME NEW c \in Client, Unlink(c) PROVE CallTypes' /\ FileTypes'
  <2>1. pc[c] # "idle" /\ FileTypes'
    BY <1>10, <1>a DEF Unlink, FileTypes, Names, FsyncDirectory, file, world
  <2>2. Leave(c) \/ (\E l \in Places : Goto(c, l) /\ UNCHANGED <<guard, pending, made>>)
    BY <1>10, <1>b DEF Unlink
  <2>3. QED
    BY <1>a, <2>1, <2>2, LeaveKeepsTypes, GotoKeepsTypes
<1>11. ASSUME NEW c \in Client, Revoke(c) PROVE CallTypes' /\ FileTypes'
  <2>1. pc[c] # "idle" /\ FileTypes'
    BY <1>11, <1>a DEF Revoke, FileTypes, Names, FsyncDirectory, file, world
  <2>2. Leave(c) \/ (\E l \in Places : Goto(c, l) /\ UNCHANGED <<guard, pending, made>>)
    BY <1>11, <1>b DEF Revoke
  <2>3. QED
    BY <1>a, <2>1, <2>2, LeaveKeepsTypes, GotoKeepsTypes
<1>12. ASSUME NEW c \in Client, Fault(c) PROVE CallTypes' /\ FileTypes'
  <2>1. pc[c] # "idle" /\ FileTypes'
    BY <1>12, <1>a DEF Fault, FileTypes, Names, FsyncDirectory, file, world
  <2>2. Leave(c) \/ (\E l \in Places : Goto(c, l) /\ UNCHANGED <<guard, pending, made>>)
    BY <1>12, <1>b DEF Fault
  <2>3. QED
    BY <1>a, <2>1, <2>2, LeaveKeepsTypes, GotoKeepsTypes
<1>13. ASSUME NEW c \in Client, ProcessCrash(c) PROVE CallTypes' /\ FileTypes'
  <2>1. pc[c] # "idle" /\ FileTypes'
    BY <1>13, <1>a DEF ProcessCrash, FileTypes, Names, FsyncDirectory, file, world
  <2>2. Leave(c) \/ (\E l \in Places : Goto(c, l) /\ UNCHANGED <<guard, pending, made>>)
    BY <1>13, <1>b DEF ProcessCrash
  <2>3. QED
    BY <1>a, <2>1, <2>2, LeaveKeepsTypes, GotoKeepsTypes
<1>14. CASE PowerLoss
    BY <1>14, <1>a DEF PowerLoss, CallTypes, FileTypes, Names, Places, file
<1>15. CASE Foreign
    BY <1>15, <1>a DEF Foreign, CallTypes, FileTypes, Names
<1>16. CASE UNCHANGED vars
    BY <1>16, <1>a DEF vars, CallTypes, FileTypes, file, world
<1>17. QED
    BY <1>1, <1>2, <1>3, <1>4, <1>5, <1>6, <1>7, <1>8, <1>9, <1>10, <1>11, <1>12, <1>13, <1>14, <1>15, <1>16 DEF Next, Proceed

-----------------------------------------------------------------------------
\* What the calls may rely on elsewhere, apart from the types.
SharedInv == /\ DirectoryInv /\ ReadyInv
             /\ ReservationIsRecoverable /\ SuccessIsDurable

\* A step of one call: the others are idle and rely on nothing.
LEMMA OneCallSuffices ==
    ASSUME IInv, TypeOK', NEW c \in Client, pc[c] # "idle",
           NEW l \in Places, pc' = [pc EXCEPT ![c] = l], CallInv(c)'
    PROVE  \A d \in Client : CallInv(d)'
<1> TAKE d \in Client
<1>1. CASE d = c
    BY <1>1
<1>2. CASE d # c
  <2>1. pc'[d] = "idle"
    BY <1>2, OthersIdle DEF IInv, TypeOK
  <2>2. QED
    BY <2>1 DEF CallInv
<1>3. QED
    BY <1>1, <1>2

\* A call that is over relies on nothing.
LEMMA IdleCallInv ==
    ASSUME IInv, TypeOK', NEW c \in Client, pc[c] # "idle", Leave(c)
    PROVE  \A d \in Client : CallInv(d)'
<1>1. pc' = [pc EXCEPT ![c] = "idle"] /\ "idle" \in Places
    BY DEF Leave, Goto, Places
<1>2. pc'[c] = "idle"
    BY <1>1 DEF IInv, TypeOK
<1>3. CallInv(c)'
    BY <1>2 DEF CallInv
<1>4. QED
    BY <1>1, <1>3, OneCallSuffices

LEMMA Inductive == IInv /\ [Next]_vars => IInv'
<1> SUFFICES ASSUME IInv, [Next]_vars PROVE SharedInv' /\ \A d \in Client : CallInv(d)'
    BY TypeInductive DEF IInv, SharedInv
<1>a. TypeOK' /\ TypeOK
    BY TypeInductive DEF IInv
<1>b. SharedInv /\ \A d \in Client : CallInv(d)
    BY DEF IInv, SharedInv
<1>1. ASSUME NEW c \in Client, Inspect(c) PROVE SharedInv' /\ \A d \in Client : CallInv(d)'
  <2> USE <1>1, <1>a, <1>b DEF Inspect, Goto, Leave, FsyncDirectory, file, world
  <2>1. DirectoryInv'
    BY DEF SharedInv, DirectoryInv, CallInv
  <2>2. ReadyInv'
    BY DEF SharedInv, ReadyInv, TypeOK, CallInv, SuccessIsDurable
  <2>3. ReservationIsRecoverable'
    BY DEF SharedInv, ReservationIsRecoverable, DirectoryInv, CallInv
  <2>4. SuccessIsDurable'
    BY DEF SharedInv, ReadyInv, SuccessIsDurable, DirectoryInv, CallInv, TypeOK
  <2>5. \A d \in Client : CallInv(d)'
    <3>1. PICK l \in Places : pc' = [pc EXCEPT ![c] = l] /\ l = "absence"
      BY DEF Places
    <3>2. pc'[c] = l /\ pc[c] # "idle"
      BY <3>1 DEF TypeOK
    <3>3. pending'[c] = ("marker" \in seen')
      BY DEF TypeOK
    <3>4. CallInv(c)'
      BY <3>1, <3>2, <3>3 DEF CallInv
    <3>5. QED
      BY <3>1, <3>2, <3>4, OneCallSuffices
  <2>6. QED
    BY <2>1, <2>2, <2>3, <2>4, <2>5 DEF SharedInv
<1>2. ASSUME NEW c \in Client, Absence(c) PROVE SharedInv' /\ \A d \in Client : CallInv(d)'
  <2> USE <1>2, <1>a, <1>b DEF Absence, Goto, Leave, FsyncDirectory, file, world
  <2>1. DirectoryInv'
    BY DEF SharedInv, DirectoryInv, CallInv
  <2>2. ReadyInv'
    BY DEF SharedInv, ReadyInv, TypeOK, CallInv, SuccessIsDurable
  <2>3. ReservationIsRecoverable'
    BY DEF SharedInv, ReservationIsRecoverable, DirectoryInv, CallInv
  <2>4. SuccessIsDurable'
    BY DEF SharedInv, ReadyInv, SuccessIsDurable, DirectoryInv, CallInv, TypeOK
  <2>5. \A d \in Client : CallInv(d)'
    <3>1. CASE Leave(c)
      BY <3>1, IdleCallInv
    <3>2. CASE Goto(c, "target") /\ UNCHANGED pending
      <4>1. pc' = [pc EXCEPT ![c] = "target"] /\ "target" \in Places /\ pc'[c] = "target"
        BY <3>2 DEF Places, TypeOK
      <4>2. CallInv(c)'
        BY <3>2, <4>1 DEF CallInv, TypeOK, SharedInv, DirectoryInv
      <4>3. QED
        BY <4>1, <4>2, OneCallSuffices
    <3>3. QED
      BY <3>1, <3>2
  <2>6. QED
    BY <2>1, <2>2, <2>3, <2>4, <2>5 DEF SharedInv
<1>3. ASSUME NEW c \in Client, Target(c) PROVE SharedInv' /\ \A d \in Client : CallInv(d)'
  <2> USE <1>3, <1>a, <1>b DEF Target, Goto, Leave, FsyncDirectory, file, world
  <2>1. DirectoryInv'
    BY DEF SharedInv, DirectoryInv, CallInv
  <2>2. ReadyInv'
    <3>1. CASE Leave(c)
      <4>1. \A d \in Client : pc'[d] = "idle"
        BY <3>1, OthersIdle DEF TypeOK
      <4>2. QED
        BY <4>1 DEF ReadyInv
    <3>2. CASE ~Leave(c)
      <4>1. ~ready
        BY <3>2 DEF SharedInv, SuccessIsDurable, CallInv
      <4>2. QED
        BY <3>2, <4>1 DEF ReadyInv
    <3>3. QED
      BY <3>1, <3>2
  <2>3. ReservationIsRecoverable'
    BY DEF SharedInv, ReservationIsRecoverable, DirectoryInv, CallInv
  <2>4. SuccessIsDurable'
    BY DEF SharedInv, ReadyInv, SuccessIsDurable, DirectoryInv, CallInv, TypeOK
  <2>5. \A d \in Client : CallInv(d)'
    BY OneCallSuffices, IdleCallInv DEF CallInv, TypeOK, Places
  <2>6. QED
    BY <2>1, <2>2, <2>3, <2>4, <2>5 DEF SharedInv
<1>4. ASSUME NEW c \in Client, Publish(c) PROVE SharedInv' /\ \A d \in Client : CallInv(d)'
  <2> USE <1>4, <1>a, <1>b DEF Publish, Goto, Leave, FsyncDirectory, file, world
  <2>1. DirectoryInv'
    BY DEF SharedInv, DirectoryInv, CallInv
  <2>2. ReadyInv'
    BY DEF SharedInv, ReadyInv, TypeOK, CallInv, SuccessIsDurable
  <2>3. ReservationIsRecoverable'
    BY DEF SharedInv, ReservationIsRecoverable, DirectoryInv, CallInv
  <2>4. SuccessIsDurable'
    BY DEF SharedInv, ReadyInv, SuccessIsDurable, DirectoryInv, CallInv, TypeOK
  <2>5. \A d \in Client : CallInv(d)'
    <3>1. PICK l \in Places : pc' = [pc EXCEPT ![c] = l] /\ l = IF pc[c] = "ensure" THEN "sync" ELSE "sync_recovery"
      BY DEF Places
    <3>2. pc'[c] = l /\ pc[c] # "idle"
      BY <3>1 DEF TypeOK
    <3>3. CallInv(c)'
      BY <3>1, <3>2 DEF CallInv, TypeOK, SharedInv, DirectoryInv
    <3>4. QED
      BY <3>1, <3>2, <3>3, OneCallSuffices
  <2>6. QED
    BY <2>1, <2>2, <2>3, <2>4, <2>5 DEF SharedInv
<1>5. ASSUME NEW c \in Client, PublishSync(c) PROVE SharedInv' /\ \A d \in Client : CallInv(d)'
  <2> USE <1>5, <1>a, <1>b DEF PublishSync, Goto, Leave, FsyncDirectory, file, world
  <2>1. DirectoryInv'
    BY DEF SharedInv, DirectoryInv, CallInv
  <2>2. ReadyInv'
    BY DEF SharedInv, ReadyInv, TypeOK, CallInv, SuccessIsDurable
  <2>3. ReservationIsRecoverable'
    BY DEF SharedInv, ReservationIsRecoverable, DirectoryInv, CallInv
  <2>4. SuccessIsDurable'
    BY DEF SharedInv, ReadyInv, SuccessIsDurable, DirectoryInv, CallInv, TypeOK
  <2>5. \A d \in Client : CallInv(d)'
    <3>1. PICK l \in Places : pc' = [pc EXCEPT ![c] = l] /\ l = IF pc[c] = "sync" THEN "reserve" ELSE "recover"
      BY DEF Places
    <3>2. pc'[c] = l /\ pc[c] # "idle"
      BY <3>1 DEF TypeOK
    <3>3. CallInv(c)'
      BY <3>1, <3>2 DEF CallInv, TypeOK, SharedInv, DirectoryInv
    <3>4. QED
      BY <3>1, <3>2, <3>3, OneCallSuffices
  <2>6. QED
    BY <2>1, <2>2, <2>3, <2>4, <2>5 DEF SharedInv
<1>6. ASSUME NEW c \in Client, Reserve(c) PROVE SharedInv' /\ \A d \in Client : CallInv(d)'
  <2> USE <1>6, <1>a, <1>b DEF Reserve, Goto, Leave, FsyncDirectory, file, world
  <2>1. DirectoryInv'
    BY DEF SharedInv, DirectoryInv, CallInv
  <2>2. ReadyInv'
    BY DEF SharedInv, ReadyInv, TypeOK, CallInv, SuccessIsDurable
  <2>3. ReservationIsRecoverable'
    BY DEF SharedInv, ReservationIsRecoverable, DirectoryInv, CallInv
  <2>4. SuccessIsDurable'
    BY DEF SharedInv, ReadyInv, SuccessIsDurable, DirectoryInv, CallInv, TypeOK
  <2>5. \A d \in Client : CallInv(d)'
    BY OneCallSuffices, IdleCallInv DEF CallInv, TypeOK, Places
  <2>6. QED
    BY <2>1, <2>2, <2>3, <2>4, <2>5 DEF SharedInv
<1>7. ASSUME NEW c \in Client, Recover(c) PROVE SharedInv' /\ \A d \in Client : CallInv(d)'
  <2> USE <1>7, <1>a, <1>b DEF Recover, Goto, Leave, FsyncDirectory, file, world
  <2>1. DirectoryInv'
    BY DEF SharedInv, DirectoryInv, CallInv
  <2>2. ReadyInv'
    BY DEF SharedInv, ReadyInv, TypeOK, CallInv, SuccessIsDurable
  <2>3. ReservationIsRecoverable'
    BY DEF SharedInv, ReservationIsRecoverable, DirectoryInv, CallInv
  <2>4. SuccessIsDurable'
    BY DEF SharedInv, ReadyInv, SuccessIsDurable, DirectoryInv, CallInv, TypeOK
  <2>5. \A d \in Client : CallInv(d)'
    BY OneCallSuffices, IdleCallInv DEF CallInv, TypeOK, Places
  <2>6. QED
    BY <2>1, <2>2, <2>3, <2>4, <2>5 DEF SharedInv
<1>8. ASSUME NEW c \in Client, Schema(c) PROVE SharedInv' /\ \A d \in Client : CallInv(d)'
  <2> USE <1>8, <1>a, <1>b DEF Schema, Goto, Leave, FsyncDirectory, file, world
  <2>1. DirectoryInv'
    BY DEF SharedInv, DirectoryInv, CallInv
  <2>2. ReadyInv'
    BY DEF SharedInv, ReadyInv, TypeOK, CallInv, SuccessIsDurable
  <2>3. ReservationIsRecoverable'
    BY DEF SharedInv, ReservationIsRecoverable, DirectoryInv, CallInv
  <2>4. SuccessIsDurable'
    BY DEF SharedInv, ReadyInv, SuccessIsDurable, DirectoryInv, CallInv, TypeOK
  <2>5. \A d \in Client : CallInv(d)'
    BY OneCallSuffices, IdleCallInv DEF CallInv, TypeOK, Places
  <2>6. QED
    BY <2>1, <2>2, <2>3, <2>4, <2>5 DEF SharedInv
<1>9. ASSUME NEW c \in Client, Unlink(c) PROVE SharedInv' /\ \A d \in Client : CallInv(d)'
  <2> USE <1>9, <1>a, <1>b DEF Unlink, Goto, Leave, FsyncDirectory, file, world
  <2>1. DirectoryInv'
    BY DEF SharedInv, DirectoryInv, CallInv
  <2>2. ReadyInv'
    BY DEF SharedInv, ReadyInv, TypeOK, CallInv, SuccessIsDurable
  <2>3. ReservationIsRecoverable'
    BY DEF SharedInv, ReservationIsRecoverable, DirectoryInv, CallInv
  <2>4. SuccessIsDurable'
    BY DEF SharedInv, ReadyInv, SuccessIsDurable, DirectoryInv, CallInv, TypeOK
  <2>5. \A d \in Client : CallInv(d)'
    <3>1. PICK l \in Places : pc' = [pc EXCEPT ![c] = l] /\ l = IF pc[c] = "clear" THEN "revoke" ELSE "withdrawn"
      BY DEF Places
    <3>2. pc'[c] = l /\ pc[c] # "idle"
      BY <3>1 DEF TypeOK
    <3>3. CallInv(c)'
      BY <3>1, <3>2 DEF CallInv, TypeOK, SharedInv, DirectoryInv
    <3>4. QED
      BY <3>1, <3>2, <3>3, OneCallSuffices
  <2>6. QED
    BY <2>1, <2>2, <2>3, <2>4, <2>5 DEF SharedInv
<1>10. ASSUME NEW c \in Client, Revoke(c) PROVE SharedInv' /\ \A d \in Client : CallInv(d)'
  <2> USE <1>10, <1>a, <1>b DEF Revoke, Goto, Leave, FsyncDirectory, file, world
  <2>1. DirectoryInv'
    BY DEF SharedInv, DirectoryInv, CallInv
  <2>2. ReadyInv'
    BY DEF SharedInv, ReadyInv, TypeOK, CallInv, SuccessIsDurable
  <2>3. ReservationIsRecoverable'
    BY DEF SharedInv, ReservationIsRecoverable, DirectoryInv, CallInv
  <2>4. SuccessIsDurable'
    BY DEF SharedInv, ReadyInv, SuccessIsDurable, DirectoryInv, CallInv, TypeOK
  <2>5. \A d \in Client : CallInv(d)'
    BY OneCallSuffices, IdleCallInv DEF CallInv, TypeOK, Places
  <2>6. QED
    BY <2>1, <2>2, <2>3, <2>4, <2>5 DEF SharedInv
<1>11. ASSUME NEW c \in Client, Fault(c) PROVE SharedInv' /\ \A d \in Client : CallInv(d)'
  <2> USE <1>11, <1>a, <1>b DEF Fault, Goto, Leave, FsyncDirectory, file, world
  <2>1. DirectoryInv'
    BY DEF SharedInv, DirectoryInv, CallInv
  <2>2. ReadyInv'
    BY DEF SharedInv, ReadyInv, TypeOK, CallInv, SuccessIsDurable
  <2>3. ReservationIsRecoverable'
    BY DEF SharedInv, ReservationIsRecoverable, DirectoryInv, CallInv
  <2>4. SuccessIsDurable'
    BY DEF SharedInv, ReadyInv, SuccessIsDurable, DirectoryInv, CallInv, TypeOK
  <2>5. \A d \in Client : CallInv(d)'
    BY OneCallSuffices, IdleCallInv DEF CallInv, TypeOK, Places
  <2>6. QED
    BY <2>1, <2>2, <2>3, <2>4, <2>5 DEF SharedInv
<1>12. ASSUME NEW c \in Client, ProcessCrash(c) PROVE SharedInv' /\ \A d \in Client : CallInv(d)'
  <2> USE <1>12, <1>a, <1>b DEF ProcessCrash, Goto, Leave, FsyncDirectory, file, world
  <2>1. DirectoryInv'
    BY DEF SharedInv, DirectoryInv, CallInv
  <2>2. ReadyInv'
    BY DEF SharedInv, ReadyInv, TypeOK, CallInv, SuccessIsDurable
  <2>3. ReservationIsRecoverable'
    BY DEF SharedInv, ReservationIsRecoverable, DirectoryInv, CallInv
  <2>4. SuccessIsDurable'
    BY DEF SharedInv, ReadyInv, SuccessIsDurable, DirectoryInv, CallInv, TypeOK
  <2>5. \A d \in Client : CallInv(d)'
    BY OneCallSuffices, IdleCallInv DEF CallInv, TypeOK, Places
  <2>6. QED
    BY <2>1, <2>2, <2>3, <2>4, <2>5 DEF SharedInv
<1>13. ASSUME NEW c \in Client, Guard(c) PROVE SharedInv' /\ \A d \in Client : CallInv(d)'
  <2>1. \A d \in Client : pc'[d] \in {"idle", "inspect"}
    BY <1>13, <1>a, NoClientAssumption DEF Guard, Goto, TypeOK
  <2>2. UNCHANGED <<seen, disk, content, ours, ready, windows>>
    BY <1>13 DEF Guard, file, world
  <2>3. SharedInv'
    BY <2>1, <2>2, <1>b DEF SharedInv, DirectoryInv, ReadyInv, ReservationIsRecoverable,
                            SuccessIsDurable
  <2>4. QED
    BY <2>1, <2>3 DEF CallInv
<1>14. CASE PowerLoss
  <2>1. \A d \in Client : pc'[d] = "idle"
    BY <1>14 DEF PowerLoss
  <2>2. PICK kept : /\ seen \cap disk \subseteq kept /\ kept \subseteq seen \cup disk
                    /\ seen' = kept /\ disk' = kept
    BY <1>14 DEF PowerLoss
  <2>3. UNCHANGED <<content, ours, ready, windows>>
    BY <1>14 DEF PowerLoss, file
  <2>4. SharedInv'
    BY <2>1, <2>2, <2>3, <1>b DEF SharedInv, DirectoryInv, ReadyInv, ReservationIsRecoverable,
                                  SuccessIsDurable
  <2>5. QED
    BY <2>1, <2>4 DEF CallInv
<1>15. CASE Foreign
  <2> USE <1>15, <1>a, <1>b DEF Foreign
  <2>1. DirectoryInv'
    BY DEF SharedInv, DirectoryInv
  <2>2. ReadyInv'
    BY DEF SharedInv, ReadyInv
  <2>3. ReservationIsRecoverable'
    BY DEF SharedInv, ReservationIsRecoverable, DirectoryInv
  <2>4. SuccessIsDurable'
    BY DEF SharedInv, SuccessIsDurable
  <2>5. ASSUME NEW d \in Client PROVE CallInv(d)'
    <3>1. ready => pc[d] \in {"idle", "inspect", "absence", "target"}
      BY DEF SharedInv, ReadyInv
    <3>2. CallInv(d)
      OBVIOUS
    <3>3. QED
      BY <3>1, <3>2 DEF CallInv
  <2>6. QED
    BY <2>1, <2>2, <2>3, <2>4, <2>5 DEF SharedInv
<1>16. CASE UNCHANGED vars
    BY <1>16, <1>b DEF vars, file, world, SharedInv, DirectoryInv, ReadyInv,
                       ReservationIsRecoverable, SuccessIsDurable, CallInv
<1>17. QED
    BY <1>1, <1>2, <1>3, <1>4, <1>5, <1>6, <1>7, <1>8, <1>9, <1>10, <1>11, <1>12, <1>13, <1>14, <1>15, <1>16 DEF Next, Proceed

(***************************************************************************)
(* Nothing is there at the start, and no call runs.                        *)
(***************************************************************************)
LEMMA InitIInv == Init => IInv
<1> SUFFICES ASSUME Init PROVE IInv
    OBVIOUS
<1>1. TypeOK
    BY DEF Init, TypeOK, Names
<1>2. \A c \in Client : CallInv(c)
    BY DEF Init, CallInv
<1>3. QED
    BY <1>1, <1>2 DEF Init, IInv, DirectoryInv, ReadyInv, ReservationIsRecoverable,
                      SuccessIsDurable

LEMMA Invariant == Spec => []IInv
BY InitIInv, Inductive, PTL DEF Spec

-----------------------------------------------------------------------------
(***************************************************************************)
(* initialize: the lock is exclusive, and the variables keep their types.  *)
(***************************************************************************)
THEOREM SpecTypeOK == Spec => []TypeOK
<1>1. IInv => TypeOK
    BY DEF IInv
<1>2. QED
    BY Invariant, <1>1, PTL

(***************************************************************************)
(* initialize: whatever stops, and whenever, a path that was reserved and  *)
(* has no schema yet is found again together with its marker.              *)
(***************************************************************************)
THEOREM SpecReservationIsRecoverable == Spec => []ReservationIsRecoverable
<1>1. IInv => ReservationIsRecoverable
    BY DEF IInv
<1>2. QED
    BY Invariant, <1>1, PTL

(***************************************************************************)
(* initialize: after success was reported the ledger is on disk and the    *)
(* marker is not, on either platform, so that no loss of power brings the  *)
(* authority to recreate the ledger back.                                  *)
(***************************************************************************)
THEOREM SpecSuccessIsDurable == Spec => []SuccessIsDurable
<1>1. IInv => SuccessIsDurable
    BY DEF IInv
<1>2. QED
    BY Invariant, <1>1, PTL

(***************************************************************************)
(* initialize: the schema is written only into an empty file and never     *)
(* after a first success, also not into a ledger found truncated: a call   *)
(* about to write it would have found the marker.                          *)
(***************************************************************************)
THEOREM SpecNothingReinitialized == Spec => NothingReinitialized
<1>1. IInv /\ [Next]_vars
        => [content' = "ledger" /\ content # "ledger" => ~ready /\ content = "blank"]_vars
  <2> SUFFICES ASSUME IInv, Next, content' = "ledger", content # "ledger"
               PROVE  ~ready /\ content = "blank"
    BY DEF vars, file
  <2>1. PICK c \in Client : Schema(c)
    BY DEF Next, Proceed, Guard, Inspect, Absence, Target, Publish, PublishSync, Reserve,
           Recover, Unlink, Revoke, Fault, ProcessCrash, PowerLoss, Foreign, file
  <2>2. QED
    BY <2>1 DEF Schema, IInv, ReadyInv, file
<1>2. QED
    BY Invariant, <1>1, PTL DEF Spec, NothingReinitialized
=============================================================================
