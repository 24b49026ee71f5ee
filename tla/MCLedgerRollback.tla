-------------------------- MODULE MCLedgerRollback --------------------------
(* Model-checking instance of LedgerRollback.                              *)
EXTENDS LedgerRollback

CONSTANTS g, a1, a2, r1, r2

MCAccounts == {g, a1, a2}
MCReps == {r1, r2}

(* Only the non-genesis accounts are interchangeable.                      *)
MCSymmetry == Permutations({a1, a2})
=============================================================================
