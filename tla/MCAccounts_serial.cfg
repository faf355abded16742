CONSTANTS
    Users = {u1, u2}
    Orgs = {a, b}
    Requests = {r1}
    StaffSets = {"ACTIVE", "INACTIVE"}
    MayFail = {"enabled", "disabled"}
    None = none
SPECIFICATION Spec
INVARIANTS OwnerRemains DefaultIsActive ActiveCanLogIn
SYMMETRY Symmetry
CONSTRAINT FewInvitations
