----------------------------- MODULE MCBilling -----------------------------
(* Billing on small instances.  The strings are those of the constants it   *)
(* does not matter to permute.                                              *)
EXTENDS Billing, TLC

\* Three tokens of two cards.
MCCardOf == [m \in Methods |-> IF m = "c" THEN "y" ELSE "x"]

\* Intents and plans are interchangeable, for invariants and step properties.
Symmetry == Permutations(Intents) \cup Permutations(Plans)

=============================================================================
