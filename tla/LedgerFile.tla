----------------------------- MODULE LedgerFile -----------------------------
(***************************************************************************)
(* The events table as it lies in the file, and its verification           *)
(* (storage.py: _verify_connection, hashing.py).  Clients read verified    *)
(* snapshots and append behind them, while another tool that goes past the *)
(* triggers edits rows: by hand, or computing hashes anew.                 *)
(*                                                                         *)
(* The Ledger module takes two things for granted that are shown here: a   *)
(* snapshot is a history the store wrote as long as nobody computes hashes *)
(* anew, and count and head hash of a verified table determine everything  *)
(* in it even if somebody does.                                            *)
(*                                                                         *)
(* SHA-256 is a free constructor over what event_hash_payload puts in; it  *)
(* nests the previous hash.                                                *)
(***************************************************************************)
EXTENDS Integers, FiniteSets, FiniteSetsExt

CONSTANTS Client,
          Event,       \* records with a field id
          NoEvent,     \* the client has no snapshot
          MaxRows,     \* bound: highest sequence number
          MaxEdits     \* bound: how many edits the tool makes

VARIABLES rows,      \* sequence number (primary key) -> stored row
          seen,      \* count, head and events of each client's snapshot
          draft,     \* the event each client appends behind it
          written,   \* the rows the store inserted, with their numbers
          rehashed,  \* has the tool computed a hash anew?
          edits      \* how many edits it made

vars == <<rows, seen, draft, written, rehashed, edits>>

None == <<>>

\* compute_event_hash
HashOf(event, n, previous) == <<n, event, previous>>

(***************************************************************************)
(* A row: how it is spelled (text as the store writes it, other text that  *)
(* reads the same, or unreadable), its event and its two hashes.           *)
(***************************************************************************)
RowOf(event, n, previous) == [spelling |-> "canonical", event |-> event,
                              previous |-> previous, hash |-> HashOf(event, n, previous)]

(***************************************************************************)
(* Verification goes through the rows in the order of their numbers and    *)
(* stops at the first that does not fit behind the one before it; of a     *)
(* table that verifies it returns the number of rows and the last hash.    *)
(***************************************************************************)
\* Bug for the mutants: hashes are not computed anew.
FitsUnhashed(row, n, previous) ==
    row.spelling = "canonical" /\ row.previous = previous

Fits(row, n, previous) ==
    /\ row.spelling = "canonical"
    /\ row.previous = previous
    /\ row.hash = HashOf(row.event, n, previous)

Count == Cardinality(DOMAIN rows)

HashBefore(n) == IF n = 1 THEN None ELSE rows[n - 1].hash

HeadHash == HashBefore(Count + 1)

Verified == /\ DOMAIN rows = 1 .. Count
            /\ \A n \in DOMAIN rows : Fits(rows[n], n, HashBefore(n))

Events == [n \in DOMAIN rows |-> rows[n].event]

Init == /\ rows = None
        /\ seen = [c \in Client |-> None]
        /\ draft = [c \in Client |-> NoEvent]
        /\ written = {}
        /\ rehashed = FALSE
        /\ edits = 0

-----------------------------------------------------------------------------
(***************************************************************************)
(* A typed call reads a snapshot and builds its event on it.               *)
(***************************************************************************)
Snapshot(c, e) ==
    /\ draft[c] = NoEvent
    /\ Verified
    /\ Count < MaxRows
    /\ seen' = [seen EXCEPT ![c] = [count |-> Count, head |-> HeadHash, events |-> Events]]
    /\ draft' = [draft EXCEPT ![c] = e]
    /\ UNCHANGED <<rows, written, rehashed, edits>>

Leave(c) == /\ draft' = [draft EXCEPT ![c] = NoEvent]
            /\ seen' = [seen EXCEPT ![c] = None]

(***************************************************************************)
(* append_if_ledger_head, in one transaction: the file is verified again,  *)
(* its count and head are compared, and the row continues the chain.       *)
(***************************************************************************)
\* Bug for the mutants: only the number of rows is compared.
HeadIsSnapshotByCount(c) ==
    Verified /\ Count = seen[c].count

HeadIsSnapshot(c) == /\ Verified
                     /\ Count = seen[c].count
                     /\ HeadHash = seen[c].head

IdIsFree(id) == \A n \in DOMAIN rows : rows[n].event.id # id

Appendable(c) == HeadIsSnapshot(c) /\ IdIsFree(draft[c].id)

AppendTyped(c) ==
    LET n   == seen[c].count + 1
        row == RowOf(draft[c], n, seen[c].head)
    IN  /\ draft[c] # NoEvent
        /\ Appendable(c)
        /\ rows' = [m \in DOMAIN rows \cup {n} |-> IF m = n THEN row ELSE rows[m]]
        /\ written' = written \cup {<<n, row>>}
        /\ Leave(c)
        /\ UNCHANGED <<rehashed, edits>>

Refuse(c) == /\ draft[c] # NoEvent
             /\ ~Appendable(c)
             /\ Leave(c)
             /\ UNCHANGED <<rows, written, rehashed, edits>>

-----------------------------------------------------------------------------
(***************************************************************************)
(* The other tool.  The table still has one row per number, per event id   *)
(* and per hash.                                                           *)
(***************************************************************************)
Unique(rs) == \A m, n \in DOMAIN rs :
                  m # n => rs[m].event.id # rs[n].event.id /\ rs[m].hash # rs[n].hash

Edit(rs) == /\ edits < MaxEdits
            /\ Unique(rs)
            /\ rs # rows
            /\ rows' = rs
            /\ edits' = edits + 1
            /\ UNCHANGED <<seen, draft, written>>

Change(n) == /\ \/ \E e \in Event : Edit([rows EXCEPT ![n].event = e])
                \/ \E s \in {"canonical", "respelled", "malformed"} :
                       Edit([rows EXCEPT ![n].spelling = s])
                \/ \E m \in DOMAIN rows : \/ Edit([rows EXCEPT ![n].previous = rows[m].hash])
                                          \/ Edit([rows EXCEPT ![n].previous = rows[m].previous])
             /\ UNCHANGED rehashed

Without(n) == [m \in DOMAIN rows \ {n} |-> rows[m]]

Drop(n) == Edit(Without(n)) /\ UNCHANGED rehashed

Renumber(n, m) == /\ m \notin DOMAIN rows
                  /\ Edit([k \in DOMAIN Without(n) \cup {m} |-> IF k = m THEN rows[n] ELSE rows[k]])
                  /\ UNCHANGED rehashed

\* Two rows change places, all but their numbers.
Swap(n, m) == /\ Edit([rows EXCEPT ![n] = rows[m], ![m] = rows[n]])
              /\ UNCHANGED rehashed

\* The row is linked to the row before it and gets the hash that fits.
Rehash(n) ==
    LET before   == {m \in DOMAIN rows : m < n}
        previous == IF before = {} THEN None ELSE rows[Max(before)].hash
    IN  /\ Edit([rows EXCEPT ![n].previous = previous,
                             ![n].hash = HashOf(rows[n].event, n, previous)])
        /\ rehashed' = TRUE

Next == \/ \E c \in Client : AppendTyped(c) \/ Refuse(c) \/ \E e \in Event : Snapshot(c, e)
        \/ \E n \in DOMAIN rows : \/ Change(n) \/ Drop(n) \/ Rehash(n)
                                  \/ \E m \in 1 .. MaxRows : Renumber(n, m)
                                  \/ \E m \in DOMAIN rows : Swap(n, m)

Spec == Init /\ [][Next]_vars

-----------------------------------------------------------------------------
(***************************************************************************)
(* As long as nobody computes hashes anew, a table that verifies consists  *)
(* of rows the store wrote, at the numbers it wrote them under: no edit by *)
(* hand is accepted but the loss of the last rows ("content changes whose  *)
(* affected hashes were not recomputed", M0_CAUSAL_LEDGER.md).             *)
(***************************************************************************)
NothingInvented ==
    ~rehashed /\ Verified => \A n \in DOMAIN rows : <<n, rows[n]>> \in written

(***************************************************************************)
(* A typed event lands on exactly the events its snapshot had, even if the *)
(* table was edited, rehashed or grown in between, and what it leaves      *)
(* verifies.                                                               *)
(***************************************************************************)
AppendsToSnapshot ==
    [][\A c \in Client : rows' # rows /\ draft[c] # draft'[c] =>
           /\ Events = seen[c].events
           /\ Verified']_vars

=============================================================================
