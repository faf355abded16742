CONSTANTS
    Requests = {r1, r2}
    Codes = {c1, c2}
    Links = {l1, l2, l3}
    Passwords = {"first", "second", "third"}
    First = "first"
    Generated = "generated"
    Overlap = FALSE
    None = None
SPECIFICATION Spec
SYMMETRY Symmetry
INVARIANTS SessionsMatchPassword ChosenPasswordStands
