---------------------------- MODULE LedgerProofs ----------------------------
(***************************************************************************)
(* Theorems about Ledger, for any number of clients, any set of events and *)
(* any admissibility predicate.                                            *)
(***************************************************************************)
EXTENDS Ledger, SequenceTheorems, TLAPS

(***************************************************************************)
(* Whoever is inside a write transaction holds the write lock.             *)
(***************************************************************************)
LockHeld == \A c \in Client : pc[c] \in {"locked", "inserted"} => writer = c

(***************************************************************************)
(* A client in a call has an event, and a typed one was admissible for the *)
(* snapshot it read.                                                       *)
(***************************************************************************)
DraftValidated ==
    \A c \in Client : pc[c] # "idle" =>
        /\ draft[c] \in Event
        /\ draft[c].typed => Admissible(seen[c], draft[c])

(***************************************************************************)
(* A row that waits for COMMIT has a new id and was checked against the    *)
(* ledger as it is now.                                                    *)
(***************************************************************************)
InsertedIsCurrent ==
    \A c \in Client : pc[c] = "inserted" =>
        /\ draft[c].id \notin IdsIn(log)
        /\ draft[c].typed => seen[c] = log

IInv == TypeOK /\ LockHeld /\ DraftValidated /\ InsertedIsCurrent

(***************************************************************************)
(* Equal heads are heads of equal histories (storage.py chains each row's  *)
(* hash to the row before it).                                             *)
(***************************************************************************)
LEMMA HeadDeterminesHistory ==
    ASSUME NEW g \in Seq(Event), NEW h \in Seq(Event), HeadHash(g) = HeadHash(h)
    PROVE  g = h
<1>1. CASE g = <<>> /\ h = <<>>
  BY <1>1
<1>2. CASE g # <<>> /\ h # <<>>
  <2>1. [sha256 |-> g] = [sha256 |-> h]
    BY <1>2 DEF HeadHash
  <2>2. [sha256 |-> g].sha256 = [sha256 |-> h].sha256
    BY <2>1
  <2> QED BY <2>2
<1>3. [none |-> TRUE] # [sha256 |-> g] /\ [none |-> TRUE] # [sha256 |-> h]
  <2>1. ASSUME NEW x PROVE DOMAIN [none |-> TRUE] # DOMAIN [sha256 |-> x]
    OBVIOUS
  <2> QED BY <2>1
<1> QED BY <1>1, <1>2, <1>3 DEF HeadHash

(***************************************************************************)
(* The invariant holds initially.                                          *)
(***************************************************************************)
LEMMA InitInv == Init => IInv
BY NoEventAssumption
   DEF Init, IInv, TypeOK, LockHeld, DraftValidated, InsertedIsCurrent

(***************************************************************************)
(* Leaving a call, by an answer, an error or a crash, keeps the invariant. *)
(***************************************************************************)
LEMMA LeaveInv ==
    ASSUME IInv, NEW c \in Client, Leave(c), UNCHANGED <<log, restores>>,
           acked' \subseteq Event
    PROVE  IInv'
<1>1. TypeOK'
  BY EmptySeq DEF IInv, TypeOK, Leave
<1>2. LockHeld'
  BY DEF IInv, TypeOK, LockHeld, Leave
<1>3. DraftValidated'
  BY DEF IInv, TypeOK, DraftValidated, Leave
<1>4. InsertedIsCurrent'
  BY DEF IInv, TypeOK, InsertedIsCurrent, Leave, IdsIn
<1> QED BY <1>1, <1>2, <1>3, <1>4 DEF IInv

(***************************************************************************)
(* Entering a call keeps the invariant.                                    *)
(***************************************************************************)
LEMMA EnterInv ==
    ASSUME IInv, NEW c \in Client, NEW e \in Event, NEW h \in Seq(Event),
           e.typed => Admissible(h, e), Enter(c, e, h)
    PROVE  IInv'
<1> USE DEF IInv, TypeOK, Enter
<1>1. TypeOK'
  OBVIOUS
<1>2. LockHeld'
  BY DEF LockHeld
<1>3. DraftValidated'
  BY DEF DraftValidated
<1>4. InsertedIsCurrent'
  BY DEF InsertedIsCurrent, IdsIn
<1> QED BY <1>1, <1>2, <1>3, <1>4

(***************************************************************************)
(* Every step keeps the invariant.                                         *)
(***************************************************************************)
LEMMA NextInv == IInv /\ [Next]_vars => IInv'
<1> SUFFICES ASSUME IInv, [Next]_vars PROVE IInv'
  OBVIOUS
<1>1. ASSUME NEW c \in Client, NEW e \in Event, Snapshot(c, e) PROVE IInv'
  BY <1>1, EnterInv DEF Snapshot, IInv, TypeOK
<1>2. ASSUME NEW c \in Client, NEW e \in Event, RawCall(c, e) PROVE IInv'
  BY <1>2, EnterInv, EmptySeq DEF RawCall
<1>3. ASSUME NEW c \in Client, Begin(c) PROVE IInv'
  <2>1. TypeOK'
    BY <1>3 DEF IInv, TypeOK, Begin
  <2>2. LockHeld'
    BY <1>3, NoClientAssumption DEF IInv, TypeOK, LockHeld, Begin
  <2>3. DraftValidated'
    BY <1>3 DEF IInv, TypeOK, DraftValidated, Begin
  <2>4. InsertedIsCurrent'
    BY <1>3 DEF IInv, TypeOK, InsertedIsCurrent, Begin, IdsIn
  <2> QED BY <2>1, <2>2, <2>3, <2>4 DEF IInv
<1>4. ASSUME NEW c \in Client, Insert(c) PROVE IInv'
  <2>1. TypeOK'
    BY <1>4 DEF IInv, TypeOK, Insert
  <2>2. LockHeld'
    BY <1>4 DEF IInv, TypeOK, LockHeld, Insert
  <2>3. DraftValidated'
    BY <1>4 DEF IInv, TypeOK, DraftValidated, Insert
  <2>4. draft[c].typed => seen[c] = log
    BY <1>4, HeadDeterminesHistory DEF Insert, MayInsert, HeadUnchanged, IInv, TypeOK
  <2>5. InsertedIsCurrent'
    BY <1>4, <2>4 DEF IInv, TypeOK, InsertedIsCurrent, Insert, MayInsert, IdsIn
  <2> QED BY <2>1, <2>2, <2>3, <2>5 DEF IInv
<1>5. ASSUME NEW c \in Client, Reject(c) PROVE IInv'
  BY <1>5, LeaveInv DEF Reject, IInv, TypeOK
<1>6. ASSUME NEW c \in Client, Commit(c) PROVE IInv'
  <2>1. draft[c] \in Event /\ writer = c
    BY <1>6 DEF Commit, IInv, DraftValidated, LockHeld
  <2>2. TypeOK'
    BY <1>6, <2>1, AppendProperties DEF IInv, TypeOK, Commit
  <2>3. \A d \in Client : pc'[d] \notin {"locked", "inserted"}
    BY <1>6, <2>1 DEF IInv, TypeOK, LockHeld, Commit
  <2>4. LockHeld' /\ InsertedIsCurrent'
    BY <2>3 DEF LockHeld, InsertedIsCurrent
  <2>5. DraftValidated'
    BY <1>6 DEF IInv, TypeOK, DraftValidated, Commit
  <2> QED BY <2>2, <2>4, <2>5 DEF IInv
<1>7. ASSUME NEW c \in Client, Return(c) PROVE IInv'
  BY <1>7, LeaveInv DEF Return, IInv, TypeOK, DraftValidated
<1>8. ASSUME NEW c \in Client, DatabaseError(c) PROVE IInv'
  BY <1>8, LeaveInv DEF DatabaseError, IInv, TypeOK
<1>9. ASSUME NEW c \in Client, Crash(c) PROVE IInv'
  BY <1>9, LeaveInv DEF Crash, IInv, TypeOK
<1>10. CASE Restore
  <2>1. PICK n \in 0 .. Len(log) : log' = SubSeq(log, 1, n)
    BY <1>10 DEF Restore
  <2>2. TypeOK'
    BY <1>10, <2>1, SubSeqProperties DEF Restore, IInv, TypeOK
  <2>3. \A d \in Client : pc[d] \notin {"locked", "inserted"}
    BY <1>10, NoClientAssumption DEF Restore, IInv, LockHeld
  <2>4. LockHeld' /\ DraftValidated' /\ InsertedIsCurrent'
    BY <1>10, <2>3 DEF Restore, IInv, LockHeld, DraftValidated, InsertedIsCurrent
  <2> QED BY <2>2, <2>4 DEF IInv
<1>11. CASE UNCHANGED vars
  BY <1>11 DEF vars, IInv, TypeOK, LockHeld, DraftValidated, InsertedIsCurrent, IdsIn
<1> QED
  BY <1>1, <1>2, <1>3, <1>4, <1>5, <1>6, <1>7, <1>8, <1>9, <1>10, <1>11 DEF Next

(***************************************************************************)
(* The inductive invariant holds in every reachable state.                 *)
(***************************************************************************)
THEOREM Invariance == Spec => []IInv
BY InitInv, NextInv, PTL DEF Spec

(***************************************************************************)
(* Type correctness of the ledger and its clients (storage.py append,      *)
(* semantic_append.py).                                                    *)
(***************************************************************************)
THEOREM TypeCorrect == Spec => []TypeOK
<1>1. IInv => TypeOK
  BY DEF IInv
<1> QED BY <1>1, Invariance, PTL

(***************************************************************************)
(* Between the head check and COMMIT of append_if_ledger_head nothing      *)
(* enters the ledger: the validated snapshot is still the whole history.   *)
(***************************************************************************)
THEOREM SnapshotExact == Spec => []SnapshotStillExact
<1>1. IInv => SnapshotStillExact
  BY DEF IInv, InsertedIsCurrent, SnapshotStillExact
<1> QED BY <1>1, Invariance, PTL

-----------------------------------------------------------------------------
(***************************************************************************)
(* The row about to be committed may follow the ledger as it is.           *)
(***************************************************************************)
LEMMA CommitIsAdd ==
    ASSUME IInv, NEW c \in Client, Commit(c)
    PROVE  draft[c] \in Event /\ A!Add(draft[c])
<1>1. draft[c] \in Event /\ A!MayFollow(log, draft[c])
  BY DEF IInv, Commit, DraftValidated, InsertedIsCurrent, A!MayFollow, A!IdsIn, IdsIn
<1> QED BY <1>1 DEF Commit, A!Add

(***************************************************************************)
(* Every step of the ledger is a step of the abstract log or leaves the    *)
(* log alone.                                                              *)
(***************************************************************************)
LEMMA StepSimulation == IInv /\ [Next]_vars => [A!Next]_log
<1> SUFFICES ASSUME IInv, [Next]_vars PROVE A!Next \/ UNCHANGED log
  OBVIOUS
<1>1. ASSUME NEW c \in Client, Commit(c) PROVE A!Next
  BY <1>1, CommitIsAdd DEF A!Next
<1>2. CASE Restore
  BY <1>2 DEF Restore, A!Next, A!Restore
<1>3. ASSUME NEW c \in Client, NEW e \in Event, Snapshot(c, e) \/ RawCall(c, e)
      PROVE  UNCHANGED log
  BY <1>3 DEF Snapshot, RawCall, Enter
<1>4. ASSUME NEW c \in Client,
             \/ Begin(c) \/ Insert(c) \/ Reject(c)
             \/ Return(c) \/ DatabaseError(c) \/ Crash(c)
      PROVE  UNCHANGED log
  BY <1>4 DEF Begin, Insert, Reject, Return, DatabaseError, Crash
<1>5. CASE UNCHANGED vars
  BY <1>5 DEF vars
<1> QED BY <1>1, <1>2, <1>3, <1>4, <1>5 DEF Next

(***************************************************************************)
(* The ledger implements the abstract log: validation on a snapshot and    *)
(* the conditional append are together one atomic, validated append.       *)
(***************************************************************************)
THEOREM Refinement == Spec => ImplementsAppendLog
<1>1. Init => A!Init
  BY DEF Init, A!Init
<1> QED BY <1>1, StepSimulation, Invariance, PTL DEF Spec, A!Spec, ImplementsAppendLog

-----------------------------------------------------------------------------
(***************************************************************************)
(* A prefix of a prefix, and a prefix of a longer sequence.                *)
(***************************************************************************)
LEMMA PrefixOfPrefix ==
    ASSUME NEW s \in Seq(Event), NEW n \in 0 .. Len(s), NEW i \in 1 .. n
    PROVE  /\ SubSeq(SubSeq(s, 1, n), 1, i - 1) = SubSeq(s, 1, i - 1)
           /\ SubSeq(s, 1, n)[i] = s[i]
OBVIOUS

LEMMA PrefixOfAppend ==
    ASSUME NEW s \in Seq(Event), NEW e \in Event, NEW i \in 1 .. Len(s) + 1
    PROVE  SubSeq(Append(s, e), 1, i - 1) = SubSeq(s, 1, i - 1)
OBVIOUS

LEMMA WholeIsPrefix ==
    ASSUME NEW s \in Seq(Event)
    PROVE  SubSeq(s, 1, Len(s)) = s
OBVIOUS

(***************************************************************************)
(* Every ledger these clients produce replays: each row was admissible for *)
(* exactly the rows below it, and ids are unique.  HistoryReplays is       *)
(* inductive once IInv tells that the row to commit may follow the ledger. *)
(***************************************************************************)
THEOREM Replayable == Spec => []HistoryReplays
<1>1. Init => HistoryReplays
  BY DEF Init, HistoryReplays
<1>2. IInv /\ HistoryReplays /\ [Next]_vars => HistoryReplays'
  <2> SUFFICES ASSUME IInv, HistoryReplays, [Next]_vars
               PROVE  HistoryReplays'
    OBVIOUS
  <2>0. log \in Seq(Event)
    BY DEF IInv, TypeOK
  <2>1. ASSUME NEW c \in Client, Commit(c) PROVE HistoryReplays'
    <3> DEFINE e == draft[c]
    <3>1. e \in Event /\ A!MayFollow(log, e) /\ log' = Append(log, e)
      BY <2>1, CommitIsAdd DEF A!Add
    <3> HIDE DEF e
    <3> SUFFICES ASSUME NEW i \in 1 .. Len(log) + 1
                 PROVE  A!MayFollow(SubSeq(log', 1, i - 1), log'[i])
      BY <2>0, <3>1, AppendProperties DEF HistoryReplays
    <3>2. SubSeq(log', 1, i - 1) = SubSeq(log, 1, i - 1)
      BY <2>0, <3>1, PrefixOfAppend
    <3>3. CASE i = Len(log) + 1
      <4>1. SubSeq(log, 1, i - 1) = log
        BY <2>0, <3>3, WholeIsPrefix
      <4>2. log'[i] = e
        BY <2>0, <3>1, <3>3, AppendProperties
      <4> QED BY <3>1, <3>2, <4>1, <4>2
    <3>4. CASE i # Len(log) + 1
      <4>1. i \in DOMAIN log /\ log'[i] = log[i]
        BY <2>0, <3>1, <3>4, AppendProperties
      <4>2. A!MayFollow(SubSeq(log, 1, i - 1), log[i])
        BY <4>1 DEF HistoryReplays
      <4> QED BY <3>2, <4>1, <4>2
    <3> QED BY <3>3, <3>4
  <2>2. CASE \E n \in 0 .. Len(log) : log' = SubSeq(log, 1, n)
    <3>1. PICK n \in 0 .. Len(log) : log' = SubSeq(log, 1, n)
      BY <2>2
    <3>2. Len(log') = n /\ DOMAIN log' = 1 .. n /\ DOMAIN log = 1 .. Len(log)
      BY <2>0, <3>1
    <3> SUFFICES ASSUME NEW i \in 1 .. n
                 PROVE  A!MayFollow(SubSeq(log', 1, i - 1), log'[i])
      BY <3>2 DEF HistoryReplays
    <3>3. SubSeq(log', 1, i - 1) = SubSeq(log, 1, i - 1) /\ log'[i] = log[i]
      BY <2>0, <3>1, PrefixOfPrefix
    <3>4. A!MayFollow(SubSeq(log, 1, i - 1), log[i])
      BY <3>2 DEF HistoryReplays
    <3> QED BY <3>3, <3>4
  <2>3. CASE UNCHANGED log
    BY <2>3 DEF HistoryReplays
  <2>4. \/ \E c \in Client : Commit(c)
        \/ \E n \in 0 .. Len(log) : log' = SubSeq(log, 1, n)
        \/ UNCHANGED log
    BY DEF Next, vars, Snapshot, RawCall, Enter, Begin, Insert, Reject, Return,
           DatabaseError, Crash, Restore
  <2> QED BY <2>1, <2>2, <2>3, <2>4
<1> QED BY <1>1, <1>2, Invariance, PTL DEF Spec

-----------------------------------------------------------------------------
Rows == {log[i] : i \in DOMAIN log}

(***************************************************************************)
(* What makes AcknowledgedIsDurable inductive: a call past its COMMIT, too, *)
(* has its row in the ledger, answered or not.                             *)
(***************************************************************************)
CommittedIsDurable ==
    restores = 0 => \A c \in Client : pc[c] = "committed" => draft[c] \in Rows

(***************************************************************************)
(* An append that was answered stays in the ledger through every later     *)
(* append, error and crash, until an older copy of the file comes back.    *)
(***************************************************************************)
THEOREM AcknowledgedDurable == Spec => []AcknowledgedIsDurable
<1> DEFINE J == AcknowledgedIsDurable /\ CommittedIsDurable
<1>1. Init => J
  BY DEF Init, AcknowledgedIsDurable, CommittedIsDurable
<1>2. IInv /\ J /\ [Next]_vars => J'
  <2> SUFFICES ASSUME IInv, J, [Next]_vars PROVE J'
    OBVIOUS
  <2>0. TypeOK
    BY DEF IInv
  <2>a. ASSUME UNCHANGED <<log, acked, restores>>,
               \A d \in Client : pc'[d] = "committed" =>
                   pc[d] = "committed" /\ draft'[d] = draft[d]
        PROVE  J'
    <3>1. Rows' = Rows
      BY <2>a DEF Rows
    <3> QED BY <2>a, <3>1 DEF AcknowledgedIsDurable, CommittedIsDurable
  <2>1. ASSUME NEW c \in Client, NEW e \in Event, Snapshot(c, e) \/ RawCall(c, e)
        PROVE  J'
    <3>1. \E h : Enter(c, e, h)
      BY <2>1 DEF Snapshot, RawCall
    <3> HIDE DEF J
    <3> QED BY <2>0, <2>a, <3>1 DEF TypeOK, Enter
  <2>2. ASSUME NEW c \in Client, Begin(c) \/ Insert(c) PROVE J'
    <3> HIDE DEF J
    <3> QED BY <2>0, <2>2, <2>a DEF TypeOK, Begin, Insert
  <2>3. ASSUME NEW c \in Client, Reject(c) \/ DatabaseError(c) \/ Crash(c) PROVE J'
    <3>1. Leave(c) /\ UNCHANGED <<log, acked, restores>>
      BY <2>3 DEF Reject, DatabaseError, Crash
    <3> HIDE DEF J
    <3> QED BY <2>0, <2>a, <3>1 DEF TypeOK, Leave
  <2> USE DEF AcknowledgedIsDurable, CommittedIsDurable, Rows
  <2>4. ASSUME NEW c \in Client, Return(c) PROVE J'
    BY <2>0, <2>4 DEF TypeOK, Return, Leave
  <2>5. ASSUME NEW c \in Client, Commit(c) PROVE J'
    <3>1. draft[c] \in Event /\ log \in Seq(Event) /\ log' = Append(log, draft[c])
      BY <2>0, <2>5, CommitIsAdd DEF TypeOK, Commit
    <3>2. Rows' = Rows \cup {draft[c]}
      <4>1. /\ DOMAIN log' = DOMAIN log \cup {Len(log) + 1}
            /\ log'[Len(log) + 1] = draft[c]
            /\ \A i \in DOMAIN log : log'[i] = log[i]
        BY <3>1, AppendProperties
      <4> HIDE <3>1
      <4> QED BY <4>1
    <3> QED BY <2>0, <2>5, <3>2 DEF TypeOK, Commit
  <2>6. CASE Restore
    BY <2>0, <2>6 DEF TypeOK, Restore
  <2>7. CASE UNCHANGED vars
    BY <2>7 DEF vars
  <2> QED BY <2>1, <2>2, <2>3, <2>4, <2>5, <2>6, <2>7 DEF Next
<1>3. J => AcknowledgedIsDurable
  OBVIOUS
<1> QED BY <1>1, <1>2, <1>3, Invariance, PTL DEF Spec

(***************************************************************************)
(* Rows are only added, one by one, each by the holder of the write lock;  *)
(* only a restore of the file removes any.                                 *)
(***************************************************************************)
THEOREM OnlyAppends == Spec => AppendOnly
<1> DEFINE Grows == restores' = restores /\ log' # log =>
                      /\ Len(log') = Len(log) + 1
                      /\ SubSeq(log', 1, Len(log)) = log
                      /\ writer # NoClient /\ log'[Len(log')] = draft[writer]
<1>1. IInv /\ [Next]_vars => [Grows]_vars
  <2> SUFFICES ASSUME IInv, [Next]_vars PROVE Grows
    OBVIOUS
  <2>1. ASSUME NEW c \in Client, Commit(c) PROVE Grows
    <3>1. /\ draft[c] \in Event /\ log \in Seq(Event) /\ log' = Append(log, draft[c])
          /\ writer = c
      BY <2>1, CommitIsAdd DEF IInv, TypeOK, LockHeld, Commit
    <3>2. SubSeq(Append(log, draft[c]), 1, Len(log)) = log
      BY <3>1, PrefixOfAppend, WholeIsPrefix
    <3>3. /\ Len(log') = Len(log) + 1
          /\ log'[Len(log')] = draft[c]
          /\ SubSeq(log', 1, Len(log)) = log
      BY <3>1, <3>2, AppendProperties
    <3> QED BY <3>1, <3>3, NoClientAssumption
  <2>2. CASE Restore
    BY <2>2 DEF Restore, IInv, TypeOK
  <2>3. CASE UNCHANGED log
    BY <2>3
  <2>4. (\E c \in Client : Commit(c)) \/ Restore \/ UNCHANGED log
    BY DEF Next, vars, Snapshot, RawCall, Enter, Begin, Insert, Reject, Return,
           DatabaseError, Crash
  <2> QED BY <2>1, <2>2, <2>3, <2>4
<1> QED BY <1>1, Invariance, PTL DEF Spec, AppendOnly
=============================================================================
