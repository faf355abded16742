----------------------------- MODULE MCAccounts -----------------------------
(* Accounts on two people and two organizations.                           *)
EXTENDS Accounts, TLC

\* No action tells a person or an organization from another, and only
\* invariants are checked.
Symmetry == Permutations(Users) \cup Permutations(Orgs)

\* At most two pairs of an email and an organization have unused invitations
\* at a time.
FewInvitations == Cardinality({p \in Pairs : invite[p] # {}}) <= 2

=============================================================================
