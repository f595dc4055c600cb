----------------------------- MODULE AppendLog -----------------------------
(***************************************************************************)
(* What the ledger promises its callers, with no clients, transactions or  *)
(* failures: a log to which one event at a time is added, and every typed  *)
(* event is admissible for exactly the history it lands on.  The detailed  *)
(* specifications (Ledger, Repository) are shown to implement this one.    *)
(***************************************************************************)
EXTENDS Naturals, Sequences

CONSTANTS Event,              \* every event a caller may submit
          Admissible(_, _)    \* may this event follow this history?

VARIABLE log

IdsIn(h) == {h[i].id : i \in DOMAIN h}

(***************************************************************************)
(* An event may follow a history when its id is new and, if it carries     *)
(* typed semantics, those semantics hold over the whole of that history.   *)
(***************************************************************************)
MayFollow(h, e) == /\ e.id \notin IdsIn(h)
                   /\ e.typed => Admissible(h, e)

Init == log = <<>>

Add(e) == MayFollow(log, e) /\ log' = Append(log, e)

(***************************************************************************)
(* The database is one file: an earlier copy of it may be put back.        *)
(***************************************************************************)
Restore == \E n \in 0 .. Len(log) : log' = SubSeq(log, 1, n)

Next == (\E e \in Event : Add(e)) \/ Restore

Spec == Init /\ [][Next]_log

=============================================================================
