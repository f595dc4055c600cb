-------------------------- MODULE LedgerFileProofs --------------------------
(***************************************************************************)
(* Theorems about the events table and its verification, for any number of *)
(* clients, events, rows and edits.                                        *)
(***************************************************************************)
EXTENDS LedgerFile, FiniteSetTheorems, WellFoundedInduction, TLAPS

-----------------------------------------------------------------------------
(***************************************************************************)
(* Induction: a set of numbers has a least one.                            *)
(***************************************************************************)
LEMMA LeastNumber ==
    ASSUME NEW T \in SUBSET Nat, T # {}
    PROVE  \E m \in T : \A k \in T : m <= k
<1> DEFINE R == OpToRel(<, Nat)
<1>1. IsWellFoundedOn(R, Nat)
    BY NatLessThanWellFounded
<1>2. \A x, y \in Nat : x < y => <<x, y>> \in R
    BY DEF OpToRel
<1> HIDE DEF R
<1>3. PICK m \in T : \A y \in T : ~ (<<y, m>> \in R)
    BY <1>1, WFMin
<1>4. ASSUME NEW k \in T PROVE m <= k
  <2>1. ~ (k < m)
    BY <1>2, <1>3
  <2>2. QED
    BY <2>1
<1>5. QED
    BY <1>4

-----------------------------------------------------------------------------
(***************************************************************************)
(* The hash chain.  hs[k] is the hash of the first k events.               *)
(***************************************************************************)
Chain(events, n, hs) ==
    /\ hs[0] = None
    /\ \A k \in 1 .. n : hs[k] = HashOf(events[k], k, hs[k - 1])

(***************************************************************************)
(* A hash that is the end of two chains of the same length is the end of   *)
(* the same events: at the last place where the chains differ, two         *)
(* different events or two different hashes before them had one hash.      *)
(***************************************************************************)
LEMMA HeadDetermines ==
    ASSUME NEW n \in Nat, NEW e1, NEW h1, NEW e2, NEW h2,
           Chain(e1, n, h1), Chain(e2, n, h2), h1[n] = h2[n]
    PROVE  \A k \in 1 .. n : e1[k] = e2[k]
<1> DEFINE T == {j \in 0 .. n : h1[n - j] # h2[n - j]}
<1>1. T = {}
  <2> SUFFICES ASSUME T # {} PROVE FALSE
    OBVIOUS
  <2>0. T \in SUBSET Nat
    OBVIOUS
  <2>1. PICK j \in T : \A k \in T : j <= k
    BY <2>0, LeastNumber
  <2>2. j # 0 /\ j - 1 \in 0 .. n /\ j - 1 \notin T
    BY <2>1
  <2>3. h1[n - (j - 1)] = h2[n - (j - 1)]
    BY <2>2
  <2>4. n - j + 1 \in 1 .. n /\ n - (j - 1) = n - j + 1 /\ (n - j + 1) - 1 = n - j
    BY <2>2
  <2>5. HashOf(e1[n - j + 1], n - j + 1, h1[n - j]) = HashOf(e2[n - j + 1], n - j + 1, h2[n - j])
    BY <2>3, <2>4 DEF Chain
  <2>6. h1[n - j] = h2[n - j]
    BY <2>5 DEF HashOf
  <2>7. QED
    BY <2>6
<1>2. ASSUME NEW k \in 0 .. n PROVE h1[k] = h2[k]
  <2>1. n - k \in 0 .. n /\ n - (n - k) = k
    OBVIOUS
  <2>2. QED
    BY <1>1, <2>1
<1>3. ASSUME NEW k \in 1 .. n PROVE e1[k] = e2[k]
  <2>1. k \in 0 .. n /\ k - 1 \in 0 .. n
    OBVIOUS
  <2>2. HashOf(e1[k], k, h1[k - 1]) = HashOf(e2[k], k, h2[k - 1])
    BY <1>2, <2>1 DEF Chain
  <2>3. QED
    BY <2>2 DEF HashOf
<1>4. QED
    BY <1>3

(***************************************************************************)
(* A table that verifies is a chain, and its head is the end of it.        *)
(***************************************************************************)
Hashes == [k \in Nat |-> IF k = 0 THEN None ELSE rows[k].hash]

LEMMA VerifiedIsChain ==
    ASSUME IsFiniteSet(DOMAIN rows), Verified
    PROVE  Count \in Nat /\ Chain(Events, Count, Hashes) /\ HeadHash = Hashes[Count]
<1>1. Count \in Nat
    BY FS_CardinalityType DEF Count
<1>2. \A n \in 1 .. Count : HashBefore(n) = Hashes[n - 1]
    BY <1>1 DEF HashBefore, Hashes
<1>3. HeadHash = Hashes[Count]
    BY <1>1 DEF HeadHash, HashBefore, Hashes
<1>4. ASSUME NEW k \in 1 .. Count PROVE Hashes[k] = HashOf(Events[k], k, Hashes[k - 1])
  <2>1. k \in DOMAIN rows /\ k \in Nat /\ k # 0
    BY <1>1 DEF Verified
  <2>2. Hashes[k] = rows[k].hash /\ Events[k] = rows[k].event
    BY <2>1 DEF Hashes, Events
  <2>3. rows[k].hash = HashOf(rows[k].event, k, HashBefore(k))
    BY <2>1 DEF Verified, Fits
  <2>4. QED
    BY <1>2, <2>2, <2>3
<1>5. QED
    BY <1>1, <1>3, <1>4 DEF Chain, Hashes

-----------------------------------------------------------------------------
(***************************************************************************)
(* The inductive invariant.  A stored row has the four columns, and what   *)
(* the store wrote carries its own hash.  Until the tool computes a hash,  *)
(* every hash in the table is one the store computed.  A snapshot a client *)
(* holds was read from a table that verified, so its head is the end of    *)
(* the chain over its events.                                              *)
(***************************************************************************)
IsRow(row) == row = [spelling |-> row.spelling, event |-> row.event,
                     previous |-> row.previous, hash |-> row.hash]

WrittenInv == \A x \in written : \E n, e, p : x = <<n, RowOf(e, n, p)>>

RowsInv == IsFiniteSet(DOMAIN rows) /\ \A n \in DOMAIN rows : IsRow(rows[n])

HashesInv == ~rehashed => \A n \in DOMAIN rows : \E x \in written : rows[n].hash = x[2].hash

WasVerified(s) ==
    /\ s.count \in Nat
    /\ s.events = [n \in 1 .. s.count |-> s.events[n]]
    /\ \E hs : Chain(s.events, s.count, hs) /\ s.head = hs[s.count]

SnapshotsInv == /\ DOMAIN draft = Client /\ DOMAIN seen = Client
                /\ \A c \in Client : draft[c] # NoEvent => WasVerified(seen[c])

IInv == WrittenInv /\ RowsInv /\ HashesInv /\ SnapshotsInv

LEMMA InitIInv == Init => IInv
BY FS_EmptySet DEF Init, None, IInv, WrittenInv, RowsInv, HashesInv, SnapshotsInv

(***************************************************************************)
(* The append is the only step of the store that changes the table: it     *)
(* adds the row its snapshot asks for behind a table that is the one of    *)
(* the snapshot.                                                           *)
(***************************************************************************)
LEMMA AppendLands ==
    ASSUME IInv, NEW c \in Client, AppendTyped(c)
    PROVE  /\ Events = seen[c].events
           /\ Count \in Nat /\ Verified
           /\ rows' = [m \in DOMAIN rows \cup {Count + 1} |->
                         IF m = Count + 1 THEN RowOf(draft[c], Count + 1, HeadHash)
                         ELSE rows[m]]
           /\ written' = written \cup {<<Count + 1, RowOf(draft[c], Count + 1, HeadHash)>>}
<1>1. WasVerified(seen[c]) /\ IsFiniteSet(DOMAIN rows)
    BY DEF AppendTyped, IInv, SnapshotsInv, RowsInv
<1>2. Verified /\ Count = seen[c].count /\ HeadHash = seen[c].head
    BY DEF AppendTyped, Appendable, HeadIsSnapshot
<1>3. Count \in Nat /\ Chain(Events, Count, Hashes) /\ HeadHash = Hashes[Count]
    BY <1>1, <1>2, VerifiedIsChain
<1>4. PICK hs : Chain(seen[c].events, Count, hs) /\ HeadHash = hs[Count]
    BY <1>1, <1>2 DEF WasVerified
<1>5. \A k \in 1 .. Count : Events[k] = seen[c].events[k]
  <2>1. Hashes[Count] = hs[Count]
    BY <1>3, <1>4
  <2>2. QED
    BY ONLY <1>3, <1>4, <2>1, HeadDetermines
<1>6. DOMAIN rows = 1 .. Count
    BY <1>2 DEF Verified
<1>7. Events = seen[c].events
    BY <1>1, <1>2, <1>5, <1>6 DEF WasVerified, Events
<1>8. QED
    BY <1>2, <1>3, <1>7 DEF AppendTyped

LEMMA RowOfIsRow ==
    ASSUME NEW e, NEW n, NEW p
    PROVE  IsRow(RowOf(e, n, p)) /\ RowOf(e, n, p).hash = HashOf(e, n, p)
BY DEF IsRow, RowOf

LEMMA AppendInductive ==
    ASSUME IInv, NEW c \in Client, AppendTyped(c)
    PROVE  IInv'
<1> DEFINE row == RowOf(draft[c], Count + 1, HeadHash)
<1>1. /\ Count \in Nat
      /\ rows' = [m \in DOMAIN rows \cup {Count + 1} |-> IF m = Count + 1 THEN row ELSE rows[m]]
      /\ written' = written \cup {<<Count + 1, row>>}
    BY AppendLands
<1>2. IsRow(row)
    BY RowOfIsRow
<1>3. DOMAIN rows' = DOMAIN rows \cup {Count + 1}
    BY <1>1
<1>4. WrittenInv'
    BY <1>1 DEF IInv, WrittenInv
<1>5. RowsInv'
    BY <1>1, <1>2, <1>3, FS_AddElement DEF IInv, RowsInv
<1>6. HashesInv'
  <2> HIDE DEF row
  <2>1. UNCHANGED rehashed
    BY DEF AppendTyped
  <2>2. ASSUME ~rehashed, NEW n \in DOMAIN rows'
        PROVE  \E x \in written' : rows'[n].hash = x[2].hash
    <3>1. CASE n = Count + 1
      <4>1. rows'[n] = row /\ <<Count + 1, row>> \in written'
        BY <1>1, <3>1
      <4>2. QED
        BY <4>1
    <3>2. CASE n # Count + 1
      BY <1>1, <1>3, <2>2, <3>2 DEF IInv, HashesInv
    <3>3. QED
      BY <3>1, <3>2
  <2>3. QED
    BY <2>1, <2>2 DEF HashesInv
<1>7. SnapshotsInv'
    BY DEF AppendTyped, Leave, IInv, SnapshotsInv
<1>8. QED
    BY <1>4, <1>5, <1>6, <1>7 DEF IInv

LEMMA SnapshotInductive ==
    ASSUME IInv, NEW c \in Client, NEW e \in Event, Snapshot(c, e)
    PROVE  IInv'
<1> DEFINE s == [count |-> Count, head |-> HeadHash, events |-> Events]
<1>1. WasVerified(s)
  <2>1. /\ Count \in Nat /\ Chain(Events, Count, Hashes) /\ HeadHash = Hashes[Count]
        /\ DOMAIN rows = 1 .. Count
    BY VerifiedIsChain DEF Snapshot, IInv, RowsInv, Verified
  <2>2. Events = [n \in 1 .. Count |-> Events[n]]
    BY <2>1 DEF Events
  <2>3. QED
    BY <2>1, <2>2 DEF WasVerified
<1>2. seen' = [seen EXCEPT ![c] = s] /\ draft' = [draft EXCEPT ![c] = e]
    BY DEF Snapshot
<1> HIDE DEF s
<1>3. SnapshotsInv'
    BY <1>1, <1>2 DEF IInv, SnapshotsInv
<1>4. QED
    BY <1>3 DEF Snapshot, IInv, WrittenInv, RowsInv, HashesInv

(***************************************************************************)
(* The other tool.  Whatever it does but compute a hash, the rows keep     *)
(* their columns, and no hash is new in the table.                         *)
(***************************************************************************)
EditsWell(rs) ==
    /\ IsFiniteSet(DOMAIN rs)
    /\ \A n \in DOMAIN rs : IsRow(rs[n])

Moves(rs) == \A n \in DOMAIN rs : \E m \in DOMAIN rows : rs[n].hash = rows[m].hash

LEMMA EditInductive ==
    ASSUME IInv, NEW rs, Edit(rs), EditsWell(rs), rehashed' \/ (~rehashed /\ Moves(rs))
    PROVE  IInv'
<1>1. rows' = rs /\ UNCHANGED <<seen, draft, written>>
    BY DEF Edit
<1>2. RowsInv'
    BY <1>1 DEF EditsWell, RowsInv
<1>3. HashesInv'
    BY <1>1 DEF IInv, HashesInv, Moves
<1>4. QED
    BY <1>1, <1>2, <1>3 DEF IInv, WrittenInv, SnapshotsInv

\* One column of a row changes.
LEMMA ColumnChange ==
    ASSUME IInv, NEW n \in DOMAIN rows, NEW row, IsRow(row)
    PROVE  EditsWell([rows EXCEPT ![n] = row])
BY DEF IInv, RowsInv, EditsWell

LEMMA ChangeInductive ==
    ASSUME IInv, NEW n \in DOMAIN rows, Change(n)
    PROVE  IInv'
<1> DEFINE r == rows[n]
           new(s, e, p) == [spelling |-> s, event |-> e, previous |-> p, hash |-> r.hash]
<1>1. IsRow(r)
    BY DEF IInv, RowsInv
<1>2. \E s, e, p : Edit([rows EXCEPT ![n] = new(s, e, p)])
  <2>1. ASSUME NEW e, Edit([rows EXCEPT ![n].event = e])
        PROVE  Edit([rows EXCEPT ![n] = new(r.spelling, e, r.previous)])
    <3>1. [r EXCEPT !.event = e] = new(r.spelling, e, r.previous)
      BY <1>1 DEF IsRow
    <3>2. QED
      BY <2>1, <3>1
  <2>2. ASSUME NEW s, Edit([rows EXCEPT ![n].spelling = s])
        PROVE  Edit([rows EXCEPT ![n] = new(s, r.event, r.previous)])
    <3>1. [r EXCEPT !.spelling = s] = new(s, r.event, r.previous)
      BY <1>1 DEF IsRow
    <3>2. QED
      BY <2>2, <3>1
  <2>3. ASSUME NEW p, Edit([rows EXCEPT ![n].previous = p])
        PROVE  Edit([rows EXCEPT ![n] = new(r.spelling, r.event, p)])
    <3>1. [r EXCEPT !.previous = p] = new(r.spelling, r.event, p)
      BY <1>1 DEF IsRow
    <3>2. QED
      BY <2>3, <3>1
  <2>4. QED
    BY <2>1, <2>2, <2>3 DEF Change
<1>3. PICK s, e, p : Edit([rows EXCEPT ![n] = new(s, e, p)])
    BY <1>2
<1>4. IsRow(new(s, e, p)) /\ new(s, e, p).hash = rows[n].hash
    BY DEF IsRow
<1>5. Moves([rows EXCEPT ![n] = new(s, e, p)])
    BY <1>4 DEF Moves
<1>6. EditsWell([rows EXCEPT ![n] = new(s, e, p)])
    BY <1>4, ColumnChange
<1>7. QED
    BY <1>3, <1>5, <1>6, EditInductive DEF Change

LEMMA DropInductive ==
    ASSUME IInv, NEW n \in DOMAIN rows, Drop(n)
    PROVE  IInv'
<1>1. DOMAIN Without(n) = DOMAIN rows \ {n} /\ \A m \in DOMAIN Without(n) : Without(n)[m] = rows[m]
    BY DEF Without
<1>2. IsFiniteSet(DOMAIN Without(n))
    BY <1>1, FS_RemoveElement DEF IInv, RowsInv
<1>3. EditsWell(Without(n)) /\ Moves(Without(n))
    BY <1>1, <1>2 DEF EditsWell, Moves, IInv, RowsInv
<1>4. QED
    BY <1>3, EditInductive DEF Drop

LEMMA RenumberInductive ==
    ASSUME IInv, NEW n \in DOMAIN rows, NEW m, Renumber(n, m)
    PROVE  IInv'
<1> DEFINE rs == [k \in DOMAIN Without(n) \cup {m} |-> IF k = m THEN rows[n] ELSE rows[k]]
<1>1. DOMAIN Without(n) = DOMAIN rows \ {n}
    BY DEF Without
<1>2. DOMAIN rs = (DOMAIN rows \ {n}) \cup {m}
    BY <1>1
<1>3. IsFiniteSet(DOMAIN rs)
  <2>1. IsFiniteSet(DOMAIN rows \ {n})
    BY FS_RemoveElement DEF IInv, RowsInv
  <2>2. QED
    BY ONLY <1>2, <2>1, FS_AddElement
<1>4. \A k \in DOMAIN rs : \E j \in DOMAIN rows : rs[k] = rows[j]
    BY <1>1
<1>5. EditsWell(rs) /\ Moves(rs)
    BY <1>3, <1>4 DEF EditsWell, Moves, IInv, RowsInv
<1>6. QED
    BY <1>5, EditInductive DEF Renumber

LEMMA SwapInductive ==
    ASSUME IInv, NEW n \in DOMAIN rows, NEW m \in DOMAIN rows, Swap(n, m)
    PROVE  IInv'
<1> DEFINE rs == [rows EXCEPT ![n] = rows[m], ![m] = rows[n]]
<1>1. DOMAIN rs = DOMAIN rows /\ \A k \in DOMAIN rs : \E j \in DOMAIN rows : rs[k] = rows[j]
    OBVIOUS
<1>2. EditsWell(rs) /\ Moves(rs)
    BY <1>1 DEF EditsWell, Moves, IInv, RowsInv
<1>3. QED
    BY <1>2, EditInductive DEF Swap

LEMMA RehashInductive ==
    ASSUME IInv, NEW n \in DOMAIN rows, Rehash(n)
    PROVE  IInv'
<1> DEFINE r == rows[n]
           new(p, h) == [spelling |-> r.spelling, event |-> r.event, previous |-> p, hash |-> h]
<1>1. PICK p, h : Edit([rows EXCEPT ![n].previous = p, ![n].hash = h]) /\ rehashed'
    BY DEF Rehash
<1>2. IsRow(r)
    BY DEF IInv, RowsInv
<1>3. [rows EXCEPT ![n].previous = p, ![n].hash = h] = [rows EXCEPT ![n] = new(p, h)]
  <2>1. [r EXCEPT !.previous = p] = new(p, r.hash)
    BY <1>2 DEF IsRow
  <2>2. [new(p, r.hash) EXCEPT !.hash = h] = new(p, h)
    OBVIOUS
  <2>3. [rows EXCEPT ![n].previous = p] = [rows EXCEPT ![n] = new(p, r.hash)]
    BY <2>1
  <2>4. [[rows EXCEPT ![n] = new(p, r.hash)] EXCEPT ![n].hash = h] = [rows EXCEPT ![n] = new(p, h)]
    BY <2>2
  <2>5. QED
    BY <2>3, <2>4
<1>4. EditsWell([rows EXCEPT ![n] = new(p, h)])
  <2>1. IsRow(new(p, h))
    BY DEF IsRow
  <2>2. QED
    BY <2>1, ColumnChange
<1>5. QED
    BY <1>1, <1>3, <1>4, EditInductive

LEMMA Inductive == IInv /\ [Next]_vars => IInv'
<1> SUFFICES ASSUME IInv, [Next]_vars PROVE IInv'
    OBVIOUS
<1>1. ASSUME NEW c \in Client, Refuse(c) PROVE IInv'
    BY <1>1 DEF Refuse, Leave, IInv, WrittenInv, RowsInv, HashesInv, SnapshotsInv
<1>2. CASE UNCHANGED vars
  <2>1. UNCHANGED <<rows, seen, draft, written, rehashed>>
    BY <1>2 DEF vars
  <2>2. QED
    BY <2>1 DEF IInv, WrittenInv, RowsInv, HashesInv, SnapshotsInv
<1>3. QED
    BY <1>1, <1>2, AppendInductive, SnapshotInductive, ChangeInductive, DropInductive,
       RehashInductive, RenumberInductive, SwapInductive DEF Next

LEMMA Invariant == Spec => []IInv
BY InitIInv, Inductive, PTL DEF Spec

-----------------------------------------------------------------------------
(***************************************************************************)
(* _verify_connection: while no hash was computed anew, a table that       *)
(* verifies has only rows the store wrote, each at its own number.         *)
(***************************************************************************)
THEOREM SpecNothingInvented == Spec => []NothingInvented
<1>1. IInv => NothingInvented
  <2> SUFFICES ASSUME IInv, ~rehashed, Verified, NEW n \in DOMAIN rows
               PROVE  <<n, rows[n]>> \in written
    BY DEF NothingInvented
  <2>1. PICK x \in written : rows[n].hash = x[2].hash
    BY DEF IInv, HashesInv
  <2>2. PICK m, e, p : x = <<m, RowOf(e, m, p)>>
    BY <2>1 DEF IInv, WrittenInv
  <2>3. rows[n].spelling = "canonical" /\ rows[n].previous = HashBefore(n)
        /\ rows[n].hash = HashOf(rows[n].event, n, HashBefore(n))
    BY DEF Verified, Fits
  <2>4. HashOf(rows[n].event, n, HashBefore(n)) = HashOf(e, m, p)
    BY <2>1, <2>2, <2>3, RowOfIsRow
  <2>5. rows[n].event = e /\ n = m /\ HashBefore(n) = p
    BY <2>4 DEF HashOf
  <2>6. rows[n] = RowOf(e, n, p)
    BY <2>3, <2>5 DEF IInv, RowsInv, IsRow, RowOf
  <2>7. QED
    BY <2>1, <2>2, <2>5, <2>6
<1>2. QED
    BY Invariant, <1>1, PTL

(***************************************************************************)
(* append_if_ledger_head: a typed event is inserted behind exactly the     *)
(* events of the snapshot it was built on, whatever was edited or rehashed *)
(* since, and the table verifies afterwards.                               *)
(***************************************************************************)
THEOREM SpecAppendsToSnapshot == Spec => AppendsToSnapshot
<1> DEFINE Lands == \A c \in Client : rows' # rows /\ draft[c] # draft'[c] =>
                       /\ Events = seen[c].events
                       /\ Verified'
<1>1. ASSUME IInv, NEW c \in Client, AppendTyped(c) PROVE Verified'
  <2>1. PICK N, row : /\ N = Count /\ N \in Nat /\ Verified /\ row = RowOf(draft[c], N + 1, HeadHash)
                      /\ rows' = [m \in DOMAIN rows \cup {N + 1} |->
                                    IF m = N + 1 THEN row ELSE rows[m]]
    BY <1>1, AppendLands
  <2>2. DOMAIN rows = 1 .. N
    BY <2>1 DEF Verified
  <2>3. DOMAIN rows' = 1 .. (N + 1)
    BY <2>1, <2>2
  <2>4. Count' = N + 1
    <3>1. Cardinality(1 .. (N + 1)) = N + 1
      BY <2>1, FS_Interval
    <3>2. QED
      BY <2>3, <3>1 DEF Count
  <2>5. Fits(row, N + 1, HeadHash)
    BY <2>1 DEF Fits, RowOf
  <2>6. rows'[N + 1] = row /\ \A m \in 1 .. N : rows'[m] = rows[m]
    BY <2>1, <2>2
  <2>7. \A m \in 1 .. N : HashBefore(m)' = HashBefore(m)
    BY <2>1, <2>6 DEF HashBefore
  <2>8. HashBefore(N + 1)' = HeadHash
    <3>1. (N + 1) - 1 = N /\ (N + 1 = 1 <=> N = 0) /\ (N # 0 => N \in 1 .. N)
      BY <2>1
    <3>2. HeadHash = IF N = 0 THEN None ELSE rows[N].hash
      BY <2>1, <3>1 DEF HashBefore, HeadHash
    <3>3. HashBefore(N + 1)' = IF N = 0 THEN None ELSE rows'[N].hash
      BY <3>1 DEF HashBefore, None
    <3>4. QED
      BY <2>6, <3>1, <3>2, <3>3
  <2>9. ASSUME NEW m \in 1 .. (N + 1) PROVE Fits(rows'[m], m, HashBefore(m)')
    <3>1. CASE m = N + 1
      BY <2>5, <2>6, <2>8, <3>1
    <3>2. CASE m # N + 1
      <4>1. m \in 1 .. N
        BY <2>1, <3>2
      <4>2. QED
        BY <2>1, <2>2, <2>6, <2>7, <4>1 DEF Verified
    <3>3. QED
      BY <3>1, <3>2
  <2>10. QED
    BY <2>3, <2>4, <2>9 DEF Verified
<1>2. IInv /\ [Next]_vars => [Lands]_vars
  <2> SUFFICES ASSUME IInv, Next, NEW c \in Client, rows' # rows, draft[c] # draft'[c]
               PROVE  Events = seen[c].events /\ Verified'
    OBVIOUS
  <2>1. PICK d \in Client : AppendTyped(d)
    BY DEF Next, Refuse, Snapshot, Change, Drop, Renumber, Swap, Rehash, Edit
  <2>2. d = c
    BY <2>1 DEF AppendTyped, Leave, IInv, SnapshotsInv
  <2>3. QED
    BY <1>1, <2>1, <2>2, AppendLands
<1>3. QED
    BY Invariant, <1>2, PTL DEF Spec, AppendsToSnapshot
=============================================================================
