---------------------------- MODULE MCOperations ----------------------------
(* Operations on small instances.                                           *)
EXTENDS Operations, TLC

\* The members of staff are interchangeable, and so are the threads: the parts
\* share nothing.
Symmetry == Permutations(Staff)

\* Two card payments of two plans, and one in cash.
MCPlanOf == [card1 |-> "basic", card2 |-> "premium", cash1 |-> "basic"]

\* ana and bob are colleagues.
MCTeam ==
    [users |-> {"ana", "bob", "eve"}, colleagues |-> {"ana", "bob"}, invites |-> {"invite"},
     alarms |-> {}, uses |-> 2, modes |-> {}, requests |-> {"r1"}]

MCRuledTeam ==
    [users |-> {"ana", "bob"}, colleagues |-> {"ana", "bob"}, invites |-> {},
     alarms |-> {"alarm1", "alarm2"}, uses |-> 1,
     modes |-> {"ALWAYS", "SCHEDULED", "EMERGENCY_ONLY"}, requests |-> {"r1"}]

\* Three keys of Cognito, and two threads that share them.
MCThreads ==
    [users |-> {"ana"}, orgs |-> {"a"}, requests |-> Staff, kinds |-> {"act"},
     ttl |-> 2, fetch |-> 1, life |-> 4, time |-> 5, keys |-> 3, changes |-> 0]

\* A person of two organizations.
MCVisitors ==
    [users |-> {"ana"}, orgs |-> {"a", "b"}, requests |-> {"r1"},
     kinds |-> {"act", "list", "permit", "renew", "logout"},
     ttl |-> 9, fetch |-> 1, life |-> 1, time |-> 2, keys |-> 1, changes |-> 3]

=============================================================================
