------------------------------ MODULE Branding ------------------------------
(***************************************************************************)
(* The brand of an account: the draft its editors save, publish and        *)
(* discard, the domains that lead to it, the page an unknown visitor gets  *)
(* by the Host alone, kept by caches for a while, and the letters and      *)
(* sessions that name the brand.                                           *)
(*                                                                         *)
(* A draft is a name and a theme (colours, addresses, logo); legible are   *)
(* the themes whose pairs of colours reach AA with the algorithm deployed. *)
(* Staff write domains in SQL.  Who may edit is in Tenancy and in the      *)
(* permissions of the account, and is left out here.                       *)
(***************************************************************************)
EXTENDS Naturals

CONSTANTS
    Accounts,
    Hosts,
    Drafts,     \* [name, theme]
    Editors,    \* requests that edit a brand
    Statuses,   \* of a domain: "VERIFIED", "PENDING", "DISABLED"
    MaxAge,     \* CACHE_SEGUNDOS
    MaxTime,    \* bound of the clock
    MaxWrites,  \* bound on what editors begin
    MaxMoves,   \* bound on what staff write or deploy
    Overlap,    \* whether two publications may be under way at once
    None

Themes == {d.theme : d \in Drafts}

\* tenant_branding.
Rows == [draft : Drafts \cup {None}, name : {d.name : d \in Drafts} \cup {None},
         theme : Themes \cup {None}]

BrandingAssumption ==
    /\ {MaxAge, MaxTime, MaxWrites, MaxMoves} \subseteq Nat
    /\ Overlap \in BOOLEAN
    /\ Statuses \subseteq {"VERIFIED", "PENDING", "DISABLED"}
    /\ \A d \in Drafts : d = [name |-> d.name, theme |-> d.theme]
    /\ None \notin Accounts \cup Rows

VARIABLES
    brand,    \* tenant_branding: the row of an account or None
    legible,
    editing,  \* what the transaction of each request read and will write
    events,   \* account_events: what each publication replaced
    domain,   \* tenant_domains
    visit,    \* the request for each host's configuration, between its reads
    page,     \* what a cache keeps of each host
    now,
    seen,     \* history: the looks an account no longer has, and until when
    owned,    \* history: who no longer has a host, and until when
    dim,      \* history: accounts that published what was not legible
    writes, moves

vars == <<brand, legible, editing, events, domain, visit, page, now, seen, owned, dim,
          writes, moves>>

NoLook == [name |-> None, theme |-> None]
Fresh == [draft |-> None, name |-> None, theme |-> None]

\* uq_tenant_domains_primario; a hostname is of one account by its own.
OnePrimary(f) ==
    \A h, k \in Hosts :
        (h # k /\ f[h] # None /\ f[k] # None /\ f[h].account = f[k].account)
            => ~ (f[h].primary /\ f[k].primary)

Domains == [account : Accounts, status : Statuses, primary : BOOLEAN]

Init ==
    /\ brand = [a \in Accounts |-> None]
    /\ legible = Themes
    /\ editing = [e \in Editors |-> None]
    /\ events = {}
    /\ domain \in {f \in [Hosts -> Domains \cup {None}] : OnePrimary(f)}
    /\ visit = [h \in Hosts |-> None]
    /\ page = [h \in Hosts |-> None]
    /\ now = 0
    /\ seen = {} /\ owned = {} /\ dim = {}
    /\ writes = 0 /\ moves = 0

-----------------------------------------------------------------------------
(* The editors.  A request reads the row, decides, and commits later. *)

Begin(e, tx) ==
    /\ editing[e] = None
    /\ writes < MaxWrites
    /\ editing' = [editing EXCEPT ![e] = tx]
    /\ writes' = writes + 1
    /\ UNCHANGED <<brand, legible, events, domain, visit, page, now, seen, owned, dim, moves>>

\* guardar_borrador: refused if a pair of the theme is not legible.
Save(e, a, d) ==
    /\ d.theme \in legible
    /\ Begin(e, [op |-> "save", account |-> a, was |-> brand[a], anterior |-> NoLook,
                 row |-> IF brand[a] = None THEN [Fresh EXCEPT !.draft = d]
                         ELSE [brand[a] EXCEPT !.draft = d]])

\* Mutant: it was legible when it was saved.
PublishableAsSaved(r) == r # None /\ r.draft # None

\* The draft is validated again, by the algorithm of today.
Publishable(r) == r # None /\ r.draft # None /\ r.draft.theme \in legible

\* Mutant: the name stays.
PublishedTheme(r) == [r EXCEPT !.theme = r.draft.theme, !.draft = None]

Published(r) == [draft |-> None, name |-> r.draft.name, theme |-> r.draft.theme]

\* Mutant: read once the row has what is published.
AnteriorAfter(r) == [name |-> r.draft.name, theme |-> r.draft.theme]

Anterior(r) == [name |-> r.name, theme |-> r.theme]

\* publicar.
Publish(e, a) ==
    /\ Publishable(brand[a])
    /\ ~ Overlap => \A x \in Editors : editing[x] # None => editing[x].op # "publish"
    /\ Begin(e, [op |-> "publish", account |-> a, was |-> brand[a],
                 anterior |-> Anterior(brand[a]), row |-> Published(brand[a])])

\* descartar_borrador: without a draft there is nothing to write.
Discard(e, a) ==
    /\ brand[a] # None /\ brand[a].draft # None
    /\ Begin(e, [op |-> "discard", account |-> a, was |-> brand[a], anterior |-> NoLook,
                 row |-> [brand[a] EXCEPT !.draft = None]])

\* The ORM writes the columns that differ from what it read.
Written(r, tx) ==
    IF tx.was = None THEN tx.row
    ELSE [c \in DOMAIN r |-> IF tx.row[c] = tx.was[c] THEN r[c] ELSE tx.row[c]]

\* A first row that another request inserted before is a 500.
Commit(e) ==
    /\ editing[e] # None
    /\ LET tx == editing[e]
           a == tx.account
       IN  /\ tx.was = None => brand[a] = None
           /\ brand' = [brand EXCEPT ![a] = Written(brand[a], tx)]
           /\ IF tx.op = "publish"
              THEN /\ events' = events \cup {[account |-> a, look |-> tx.anterior]}
                   /\ seen' = seen \cup {[account |-> a, upto |-> now,
                                          look |-> [name |-> brand[a].name,
                                                    theme |-> brand[a].theme]]}
                   /\ dim' = IF brand'[a].theme \in legible THEN dim ELSE dim \cup {a}
              ELSE UNCHANGED <<events, seen, dim>>
    /\ editing' = [editing EXCEPT ![e] = None]
    /\ UNCHANGED <<legible, domain, visit, page, now, owned, writes, moves>>

Abort(e) ==
    /\ editing[e] # None
    /\ editing' = [editing EXCEPT ![e] = None]
    /\ UNCHANGED <<brand, legible, events, domain, visit, page, now, seen, owned, dim,
                   writes, moves>>

-----------------------------------------------------------------------------
(* Staff. *)

\* Another version of the algorithm; the process before it has ended.
Deploy(themes) ==
    /\ moves < MaxMoves /\ legible # themes
    /\ \A e \in Editors : editing[e] = None
    /\ legible' = themes
    /\ moves' = moves + 1
    /\ UNCHANGED <<brand, editing, events, domain, visit, page, now, seen, owned, dim, writes>>

\* Whose a host is, or None: what the brand of the host should follow.
Whose(h) == IF domain[h] # None /\ domain[h].status = "VERIFIED" THEN domain[h].account ELSE None

SetDomain(h, d) ==
    /\ moves < MaxMoves /\ domain[h] # d
    /\ OnePrimary([domain EXCEPT ![h] = d])
    /\ domain' = [domain EXCEPT ![h] = d]
    /\ owned' = owned \cup {[host |-> h, account |-> Whose(h), upto |-> now]}
    /\ moves' = moves + 1
    /\ UNCHANGED <<brand, legible, editing, events, visit, page, now, seen, dim, writes>>

-----------------------------------------------------------------------------
(* Whoever asks. *)

\* Mutant: any domain of the table.
OwnerUnverified(h) == IF domain[h] # None THEN domain[h].account ELSE None

\* resolver_account_id_de_host.
Owner(h) ==
    IF domain[h] # None /\ domain[h].status = "VERIFIED" THEN domain[h].account ELSE None

\* resolver_marca_de_peticion: a Host, None if it is nobody's, and a header.
BrandOf(h, declared) ==
    IF h # None /\ Owner(h) # None THEN Owner(h)
    ELSE IF declared = None THEN None ELSE Owner(declared)

\* Mutant: without Vary, a cache has one page for all hosts.
KeysOfPath(h) == Hosts

\* Vary: Host, or the host in the address.
Keys(h) == {h}

\* Mutant: what is being edited.
ServedDraft(r) ==
    IF r = None THEN NoLook ELSE IF r.draft # None THEN r.draft
    ELSE [name |-> r.name, theme |-> r.theme]

\* What the configuration shows of a row.
Served(r) == IF r = None THEN NoLook ELSE [name |-> r.name, theme |-> r.theme]

\* get_tenant_config, in its two reads; a request lasts one tick at most.
Ask(h) ==
    /\ visit[h] = None
    /\ page[h] # None => now >= page[h].at + MaxAge
    /\ visit' = [visit EXCEPT ![h] = [account |-> Owner(h), since |-> now]]
    /\ UNCHANGED <<brand, legible, editing, events, domain, page, now, seen, owned, dim,
                   writes, moves>>

Answer(h) ==
    /\ visit[h] # None
    /\ LET a == visit[h].account
           look == IF a = None THEN NoLook ELSE Served(brand[a])
       IN  page' = [k \in Hosts |->
                      IF k \in Keys(h) THEN [look |-> look, default |-> a = None, at |-> now]
                      ELSE page[k]]
    /\ visit' = [visit EXCEPT ![h] = None]
    /\ UNCHANGED <<brand, legible, editing, events, domain, now, seen, owned, dim, writes, moves>>

Tick ==
    /\ now < MaxTime
    /\ \A h \in Hosts : visit[h] # None => visit[h].since = now
    /\ now' = now + 1
    /\ UNCHANGED <<brand, legible, editing, events, domain, visit, page, seen, owned, dim,
                   writes, moves>>

\* Mutant: the primary domain, verified or not.
PublicHostsUnverified(a) == {h \in Hosts : domain[h] # None /\ domain[h].account = a
                                           /\ domain[h].primary}

\* resolver_dominio_publico_de_account: none or one.
PublicHosts(a) == {h \in Hosts : /\ domain[h] # None
                                 /\ domain[h].account = a
                                 /\ domain[h].status = "VERIFIED"
                                 /\ domain[h].primary}

PublicHost(a) == IF PublicHosts(a) = {} THEN None ELSE CHOOSE h \in PublicHosts(a) : TRUE

NameOf(a) == IF brand[a] = None THEN None ELSE brand[a].name

\* _resolver_contexto_de_marca, and marca_de_sesion: None is a default.
Letter(a) == [name |-> NameOf(a), host |-> PublicHost(a)]
Session(a) == [name |-> NameOf(a), host |-> PublicHost(a)]

-----------------------------------------------------------------------------
Next ==
    \/ \E e \in Editors :
        \/ \E a \in Accounts :
            \/ \E d \in Drafts : Save(e, a, d)
            \/ Publish(e, a)
            \/ Discard(e, a)
        \/ Commit(e)
        \/ Abort(e)
    \/ \E t \in SUBSET Themes : Deploy(t)
    \/ \E h \in Hosts :
        \/ \E d \in Domains \cup {None} : SetDomain(h, d)
        \/ Ask(h)
        \/ Answer(h)
    \/ Tick

Spec == Init /\ [][Next]_vars

-----------------------------------------------------------------------------
LookOf(a) == IF brand[a] = None THEN NoLook
             ELSE [name |-> brand[a].name, theme |-> brand[a].theme]

\* Whatever an account ever showed is what it shows or is in an event of a
\* publication: one can always go back to it, as the module promises.
BackIsPossible ==
    \A s \in seen :
        s.look = LookOf(s.account) \/ [account |-> s.account, look |-> s.look] \in events

\* The name and the theme of an account were drafted together, however saves,
\* publications and discards interleave, and were legible when published.
ShownTogether ==
    /\ \A a \in Accounts : LookOf(a) \in Drafts \cup {NoLook}
    /\ dim = {}

\* A page that a cache may still give is that of an account that had the host
\* since the page was asked for, as that account showed itself meanwhile: no
\* brand is served on the host of another nor before the host is verified.
PagesOfTheirBrand ==
    \A h \in Hosts :
        LET p == page[h]
            From == p.at - 1
        IN  (p # None /\ now < p.at + MaxAge) =>
              \E a \in Accounts \cup {None} :
                /\ Whose(h) = a \/ \E o \in owned : o.host = h /\ o.account = a /\ o.upto >= From
                /\ p.default = (a = None)
                /\ IF a = None THEN p.look = NoLook
                   ELSE \/ p.look = LookOf(a)
                        \/ \E s \in seen : s.account = a /\ s.look = p.look /\ s.upto >= From

\* The address of a letter or a session leads to the brand that the letter
\* and the session name: by the Host and by the header, whoever else's the
\* host it is declared on may be.
LettersLeadHome ==
    \A a \in Accounts :
        \A m \in {Letter(a), Session(a)} :
            m.host # None =>
              /\ \A k \in Hosts \cup {None} : BrandOf(m.host, k) = a
              /\ BrandOf(None, m.host) = a
              /\ m.name = Served(brand[a]).name

=============================================================================
