------------------------------- MODULE MCFleet ------------------------------
(* Fleet on two devices, two units and two organizations.                  *)
EXTENDS Fleet, TLC

\* Devices, units and organizations are interchangeable, for invariants.
Symmetry == Permutations(Devices) \cup Permutations(Units) \cup Permutations(Orgs)

=============================================================================
