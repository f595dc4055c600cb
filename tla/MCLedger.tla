------------------------------ MODULE MCLedger ------------------------------
(***************************************************************************)
(* A small instance of Ledger.  a and a relation d that needs b; b and c   *)
(* need a and exclude each other (a release_ref, a gate decision); a raw   *)
(* event wants the id of a.  A copy put back can make room for c where b   *)
(* was: a head of the same length must not satisfy a snapshot with b.      *)
(***************************************************************************)
EXTENDS Ledger

E(id, typed, needs, unique) ==
    [id |-> id, typed |-> typed, needs |-> needs, unique |-> unique]

MCEvent == {E("a", TRUE, {}, FALSE),
            E("b", TRUE, {"a"}, TRUE),
            E("c", TRUE, {"a"}, TRUE),
            E("d", TRUE, {"b"}, FALSE),
            E("a", FALSE, {}, FALSE)}

MCAdmissible(h, e) ==
    /\ e.needs \subseteq IdsIn(h)
    /\ e.unique => \A i \in DOMAIN h : ~h[i].unique
=============================================================================
