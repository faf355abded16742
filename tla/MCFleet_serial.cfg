CONSTANTS
    Devices = {d1, d2}
    Units = {u1, u2}
    Orgs = {a, b}
    Requests = {r1}
    None = none
SPECIFICATION Spec
SYMMETRY Symmetry
INVARIANTS OneUnitPerDevice StatusIsOfTheUnit
