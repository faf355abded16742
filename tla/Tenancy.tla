------------------------------ MODULE Tenancy ------------------------------
(***************************************************************************)
(* The tree of accounts: the materialized path that two triggers of the    *)
(* database keep for it, the role of an account in it, and one commercial  *)
(* capability, which reaches an account cut down by its ancestors.         *)
(*                                                                         *)
(* No endpoint moves an account: staff do it in SQL, with the triggers.    *)
(* The capability is a number, and a boolean is one of 0 and 1: AND is     *)
(* the minimum.  Capabilities whose value is a text are left out.          *)
(***************************************************************************)
EXTENDS Naturals, Sequences, Functions

CONSTANTS
    Accounts,
    Types,      \* of account: "PLATFORM", "RESELLER", "CUSTOMER"
    Endings,    \* the states an account may leave ACTIVE for
    Values,     \* of the capability: the API refuses a negative one
    MaxDepth,   \* PROFUNDIDAD_MAXIMA
    None

TenancyAssumption ==
    /\ MaxDepth \in Nat \ {0} /\ Values \subseteq Nat
    /\ None \notin Accounts /\ None \notin Values
    /\ Types \subseteq {"PLATFORM", "RESELLER", "CUSTOMER"}
    /\ Endings \subseteq {"SUSPENDED", "DELETED"}

VARIABLES
    parent,   \* accounts.parent_account_id
    path,     \* accounts.account_path
    type,     \* accounts.account_type
    status,   \* accounts.status
    own,      \* account_capabilities, one row per account or NoRow
    hung      \* history: the accounts that staff hung from one that was a
              \* CUSTOMER then and has been since

vars == <<parent, path, type, status, own, hung>>

NoRow == [value |-> None, live |-> FALSE]

\* An account is born a root, of any type, with no row of its own.
Init ==
    /\ parent = [a \in Accounts |-> None]
    /\ path = [a \in Accounts |-> <<a>>]
    /\ type \in [Accounts -> Types]
    /\ status = [a \in Accounts |-> "ACTIVE"]
    /\ own = [a \in Accounts |-> NoRow]
    /\ hung = {}

-----------------------------------------------------------------------------
(* The triggers. *)

\* accounts_tenancy_before: the path a row gets from its new parent.
PathUnder(a, p) == IF p = None THEN <<a>> ELSE Append(path[p], a)

\* Mutant: the after trigger reaches the children and stops there.
CascadedToChildren(a, p) ==
    [x \in Accounts |->
        IF x = a THEN PathUnder(a, p)
        ELSE IF parent[x] = a THEN Append(PathUnder(a, p), x)
        ELSE path[x]]

\* accounts_tenancy_after: each child takes its parent's path, which fires it
\* for the children's children, level by level.
Cascaded(a, p) ==
    LET Level[n \in Nat] ==
            IF n = 0 THEN [path EXCEPT ![a] = PathUnder(a, p)]
            ELSE [x \in Accounts |->
                    IF x # a /\ parent[x] # None
                    THEN Append(Level[n - 1][parent[x]], x)
                    ELSE Level[n - 1][x]]
    IN  Level[MaxDepth]

\* The trigger refuses its own parent, a cycle, and a row too deep anywhere
\* in the subtree: the statement fails as a whole.  It does not look at types:
\* a customer may have accounts below.
Reparent(a, p) ==
    /\ p # None => a \notin Range(path[p])
    /\ \A x \in Accounts : Len(Cascaded(a, p)[x]) <= MaxDepth
    /\ parent' = [parent EXCEPT ![a] = p]
    /\ path' = Cascaded(a, p)
    /\ hung' = IF p # None /\ type[p] = "CUSTOMER" THEN hung \cup {a} ELSE hung \ {a}
    /\ UNCHANGED <<type, status, own>>

-----------------------------------------------------------------------------
(* Types. *)

\* Staff, in SQL: no endpoint writes the state.
End(a, s) ==
    /\ status[a] \in {"ACTIVE", "SUSPENDED"}
    /\ status' = [status EXCEPT ![a] = s]
    /\ UNCHANGED <<parent, path, type, own, hung>>

\* Mutant: only subaccounts in use stand in the way.
SubaccountsActive(a) == {x \in Accounts : parent[x] = a /\ status[x] = "ACTIVE"}

Subaccounts(a) == {x \in Accounts : parent[x] = a /\ status[x] # "DELETED"}

\* The API gives the two types that are not the platform's.
ChangeType(a, new) ==
    /\ type[a] \notin {"PLATFORM", new}
    /\ new # "PLATFORM"
    /\ new = "CUSTOMER" => Subaccounts(a) = {}
    /\ type' = [type EXCEPT ![a] = new]
    /\ hung' = {x \in hung : parent[x] # a}
    /\ UNCHANGED <<parent, path, status, own>>

-----------------------------------------------------------------------------
(* The capability. *)

SetOwn(a, v) ==
    /\ own' = [own EXCEPT ![a] = [value |-> v, live |-> TRUE]]
    /\ UNCHANGED <<parent, path, type, status, hung>>

RemoveOwn(a) ==
    /\ own[a] # NoRow
    /\ own' = [own EXCEPT ![a] = NoRow]
    /\ UNCHANGED <<parent, path, type, status, hung>>

\* expires_at passes.
OwnExpires(a) ==
    /\ own[a].live
    /\ own' = [own EXCEPT ![a].live = FALSE]
    /\ UNCHANGED <<parent, path, type, status, hung>>

\* Mutant: the value nearest to the leaf, as for a text.
TrimmedToNearest(v, new) == new

\* _recortar.
Trimmed(v, new) == IF v < new THEN v ELSE new

\* What is found from the root down to the i-th of the line of a, an expired
\* row counting as none.
Found(a) ==
    LET Down[i \in Nat] ==
            IF i = 0 THEN None
            ELSE LET x == path[a][i]
                     v == Down[i - 1]
                 IN  IF ~ own[x].live THEN v
                     ELSE IF v = None THEN own[x].value
                     ELSE Trimmed(v, own[x].value)
    IN  Down[Len(path[a])]

\* The default is 0, which grants nothing.
Effective(a) == IF Found(a) = None THEN 0 ELSE Found(a)

\* limitado_por: of the ancestors whose value is the one that remained.
Limiters(a) == {i \in 1 .. Len(path[a]) - 1 :
                  own[path[a][i]] = [value |-> Effective(a), live |-> TRUE]}

Limited(a) == own[a].live /\ own[a].value # Effective(a)

\* Mutant: the ancestor nearest to the root.
LimitedByFirst(a) ==
    IF Limited(a) /\ Limiters(a) # {}
    THEN path[a][CHOOSE i \in Limiters(a) : \A j \in Limiters(a) : i <= j]
    ELSE None

LimitedBy(a) ==
    IF Limited(a) /\ Limiters(a) # {}
    THEN path[a][CHOOSE i \in Limiters(a) : \A j \in Limiters(a) : i >= j]
    ELSE None

-----------------------------------------------------------------------------
Next ==
    \E a \in Accounts :
        \/ \E p \in Accounts \cup {None} : Reparent(a, p)
        \/ \E s \in Endings : End(a, s)
        \/ \E t \in Types : ChangeType(a, t)
        \/ \E v \in Values : SetOwn(a, v)
        \/ RemoveOwn(a)
        \/ OwnExpires(a)

Spec == Init /\ [][Next]_vars

-----------------------------------------------------------------------------
\* The line of an account, by its parents alone.
Line[n \in Nat] ==
    [a \in Accounts |->
        IF n = 0 \/ parent[a] = None THEN <<a>> ELSE Append(Line[n - 1][parent[a]], a)]

Above(a) == Range(Line[MaxDepth][a]) \ {a}

\* The path of every account is its line of parents, wherever in the tree a
\* move was made: the predicate that isolates clients reads it.
PathsFollowParents == \A a \in Accounts : path[a] = Line[MaxDepth][a]

\* No account is served more than any live ancestor of its has, whatever was
\* moved, set, removed or expired, and in whatever order.
CeilingHolds ==
    \A a \in Accounts : \A x \in Above(a) :
        own[x].live => Effective(a) <= own[x].value

\* An account that is served less than its own row says is told which
\* ancestor cuts it: the nearest one with the value that is served.
LimitIsNamed ==
    \A a \in Accounts :
        LET by == LimitedBy(a)
        IN  Limited(a) =>
              /\ by \in Above(a)
              /\ own[by] = [value |-> Effective(a), live |-> TRUE]
              /\ \A x \in Above(a) :
                    by \in Above(x) => ~ (own[x].live /\ own[x].value = Effective(a))

\* Nobody who still operates, suspended or not, is left under a customer by the
\* change of type of the account it hangs from: whoever hangs from one was hung
\* there, which the triggers allow.
LeftUnderNoCustomer ==
    \A a \in Accounts :
        (parent[a] # None /\ status[a] # "DELETED" /\ a \notin hung)
            => type[parent[a]] # "CUSTOMER"

=============================================================================
