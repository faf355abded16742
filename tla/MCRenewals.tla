----------------------------- MODULE MCRenewals -----------------------------
(* Constants for TLC: Renewals on small calendars.                         *)
EXTENDS Renewals, TLC

MCRetry == <<1, 2>>
RunSymmetry == Permutations(Runs)

=============================================================================
