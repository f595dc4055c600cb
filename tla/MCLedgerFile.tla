---------------------------- MODULE MCLedgerFile ----------------------------
(***************************************************************************)
(* Four events, two of which differ in content only (same id).             *)
(***************************************************************************)
EXTENDS LedgerFile

FourEvents == {[id |-> "a", text |-> 1], [id |-> "a", text |-> 2],
               [id |-> "b", text |-> 1], [id |-> "c", text |-> 1]}
NoSuchEvent == [id |-> "", text |-> 0]
=============================================================================
