---------------------------- MODULE MCLedgerInit ----------------------------
(***************************************************************************)
(* A small instance of LedgerInit; its values are in MCLedgerInit.cfg.     *)
(***************************************************************************)
EXTENDS LedgerInit
=============================================================================
