--------------------------- MODULE MCIdempotency ---------------------------
(* Small instances of Idempotency for TLC.                                 *)
EXTENDS Idempotency, TLC

CONSTANTS r1, r2, r3

MCRequests == {r1, r2, r3}
MCPayloads == {"planA", "planB"}

Symmetry == Permutations(MCRequests)

=============================================================================
