----------------------------- MODULE MCPlatform -----------------------------
(* Platform on small instances.                                             *)
EXTENDS Platform, TLC

\* Whatever is interchangeable in a part is taken from these two sets, which
\* serve every part: the parts share nothing.
CONSTANTS Twins, Peers

Symmetry == Permutations(Twins) \cup Permutations(Peers)

\* Two people, or two revocations of one person and what they share.
MCColleagues == [people |-> 2, jobs |-> 1]
MCRevokers == [people |-> 1, jobs |-> 2]

\* A device that comes and goes between two units and a stranger's, and grants
\* of them that come and go; an hour has two instants.  Or three trips of it,
\* read one a page.
MCBook ==
    [devices |-> {"d1"}, own |-> Twins, elsewhere |-> "w", trips |-> Peers \cup {"k"},
     hour |-> 2, day |-> 2, page |-> 1, ties |-> FALSE, time |-> 4, changes |-> 4]
MCStay == [units |-> 2, trips |-> {}, changes |-> 4]
MCReading == [units |-> 1, trips |-> Peers \cup {"k"}, changes |-> 2]

\* Two devices asked for in one call.
MCFleet ==
    [devices |-> Twins, own |-> {"v1"}, elsewhere |-> "w", trips |-> {},
     hour |-> 1, day |-> 2, page |-> 1, ties |-> FALSE, time |-> 3, changes |-> 3]

\* Four accounts: resellers and the limits each one sets, or of any type, that
\* end.
MCForest ==
    [accounts |-> Twins \cup Peers, types |-> {"RESELLER", "CUSTOMER"},
     endings |-> {"SUSPENDED", "DELETED"}, values |-> {0, 1}, depth |-> 3]
MCReselling ==
    [accounts |-> MCForest.accounts, types |-> {"RESELLER"}, statuses |-> {"ACTIVE"},
     values |-> {0, 1}]
MCGrowing ==
    [accounts |-> MCForest.accounts, types |-> MCForest.types,
     statuses |-> {"ACTIVE", "SUSPENDED", "DELETED"}, values |-> {}]

\* Two requests on a person, a unit and a device.
MCContract ==
    [people |-> {"ana"}, units |-> {"v1"}, devices |-> {"d1"}, requests |-> Twins,
     changes |-> 3, topic |-> 2]

\* An order, two cards and two devices that change places, two syncs.
MCOrdering ==
    [orders |-> {"o1"}, devices |-> Peers, units |-> {"v1"}, cards |-> {"a", "b"},
     sims |-> {"s1", "s2"}, syncs |-> Twins, listings |-> {}, patches |-> {}, moves |-> 2]

\* Two listings of KORE's SIMs at the same time.
MCStock ==
    [orders |-> {}, devices |-> {"d1"}, units |-> {"v1"}, cards |-> Peers \cup {"c"},
     sims |-> {"s1", "s2"}, syncs |-> {}, listings |-> Twins, patches |-> {"q1"}, moves |-> 1]

\* Two rules that may come to say the same, and a geofence.
MCDefinitions ==
    [rules |-> Peers, geofences |-> {"g1"}, types |-> {"t1"}, configs |-> {"c1", "c2"},
     parts |-> {"u1"}, requests |-> Twins, writes |-> 3]

\* One account, two editors and three drafts that share a name or nothing.
MCDrafting ==
    [accounts |-> {"a"}, hosts |-> {}, editors |-> Twins,
     drafts |-> {[name |-> "n1", theme |-> "t1"], [name |-> "n2", theme |-> "t2"],
                 [name |-> "n1", theme |-> "t3"]},
     statuses |-> {}, age |-> 0, time |-> 0, writes |-> 6, moves |-> 1, overlap |-> FALSE]

\* Two hosts, of the same account, of two, or of nobody; or one that changes
\* hands.
MCHosting ==
    [accounts |-> Peers, hosts |-> Twins, editors |-> {"e1"},
     drafts |-> {[name |-> "n1", theme |-> "t1"]}, statuses |-> {"PENDING", "VERIFIED"},
     age |-> 1, time |-> 2, writes |-> 2, moves |-> 1, overlap |-> FALSE, spread |-> 2]

=============================================================================
