--------------------------- MODULE MCCredentials ---------------------------
(* Credentials of one person.                                              *)
EXTENDS Credentials, TLC

Symmetry == Permutations(Requests) \cup Permutations(Codes)
=============================================================================
