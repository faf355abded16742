-------------------------- MODULE Platform_proofs --------------------------
(***************************************************************************)
(* The properties of Platform for any sets, times and sizes.  Each part of *)
(* the platform has its own inductive invariant; the lemmas of a component *)
(* end with three: it holds at the beginning, every step keeps it, and it  *)
(* gives the properties.  The last section puts them together: a behaviour *)
(* is about one part, whose steps are those of its component, and the      *)
(* properties of the others ask nothing of it.                             *)
(***************************************************************************)
EXTENDS Platform, FiniteSetTheorems, SequenceTheorems, WellFoundedInduction, TLAPS

-----------------------------------------------------------------------------
(* Access.  StaleAccessEnds needs nothing: the life of a token is enough.  *)
(* RevocationReaches needs that no scope is written in the middle of a     *)
(* revocation of its subject (Overlap).                                    *)

Refs == SUBSET (Units \cup Devices)

Tokens ==
    {NoToken}
    \cup [phase : {"asked"}, subject : Users, wide : BOOLEAN, asked : Nat]
    \cup [phase : {"resolved"}, subject : Subjects, refs : Refs, expires : Nat, asked : Nat]
    \cup [phase : {"written"}, subject : Subjects, refs : Refs, scope : BOOLEAN, expires : Nat]

Revocations ==
    {NoJob}
    \cup [phase : {"noted"}, users : SUBSET Users, units : SUBSET Units, shares : SUBSET Units]
    \cup [phase : {"revoking"}, users : SUBSET Users, shares : SUBSET Units]
    \cup [phase : {"listed", "dropped"}, subject : Subjects, refs : SUBSET Issues,
          users : SUBSET Users, shares : SUBSET Units]

TypeOK ==
    /\ role \in [Users -> Roles]
    /\ grants \subseteq Users \X Units
    /\ live \subseteq Units
    /\ fit \subseteq Units \X Devices
    /\ token \in [Issues -> Tokens]
    /\ index \in [Subjects -> SUBSET Issues]
    /\ job \in [Jobs -> Revocations]
    /\ now \in 0 .. MaxTime
    /\ changes \in Nat
    /\ since \in [Issues -> 0 .. Held]
    /\ due \subseteq Issues
    /\ given \subseteq Subjects

-----------------------------------------------------------------------------
\* A token is a record of one of four forms, and so is a revocation.
LEMMA TokenForms ==
    ASSUME TypeOK, NEW i \in Issues
    PROVE  /\ token[i].phase \in {"unused", "asked", "resolved", "written"}
           /\ token[i].phase = "unused" => token[i] = NoToken
           /\ token[i].phase = "asked" =>
                 /\ token[i].subject \in Users /\ token[i].wide \in BOOLEAN
                 /\ token[i].asked \in Nat
           /\ token[i].phase = "resolved" =>
                 /\ token[i].subject \in Subjects /\ token[i].refs \in Refs
                 /\ token[i].asked \in Nat /\ token[i].expires \in Nat
           /\ token[i].phase = "written" =>
                 /\ token[i].subject \in Subjects /\ token[i].refs \in Refs
                 /\ token[i].scope \in BOOLEAN /\ token[i].expires \in Nat
  BY DEF TypeOK, Tokens, NoToken, Subjects

LEMMA JobForms ==
    ASSUME TypeOK, NEW j \in Jobs
    PROVE  /\ job[j].phase \in {"none", "noted", "revoking", "listed", "dropped"}
           /\ job[j].phase = "none" <=> job[j] = NoJob
           /\ job[j] # NoJob => job[j].users \subseteq Users /\ job[j].shares \subseteq Units
           /\ job[j].phase = "noted" => job[j].units \subseteq Units
           /\ job[j].phase \in {"listed", "dropped"} =>
                 job[j].subject \in Subjects /\ job[j].refs \subseteq Issues
  BY DEF TypeOK, Revocations, NoJob

\* What is seen is made of units and devices.
LEMMA SeesRefs ==
    ASSUME TypeOK
    PROVE  /\ \A s \in Subjects : Sees(s) \in Refs
           /\ \A u \in Users, wide \in BOOLEAN : AccessibleRefs(VisibleUnits(u, wide)) \in Refs
  BY DEF TypeOK, Sees, AccessibleRefs, VisibleUnits, Refs, Subjects

LEMMA ReadersAreUsers == \A units : UsersWhoSee(units) \subseteq Users
  BY DEF UsersWhoSee

LEMMA RevokingForms ==
    ASSUME NEW users, NEW shares, users \subseteq Users, shares \subseteq Units
    PROVE  /\ Revoking(users, shares) \in Revocations
           /\ users = {} /\ shares = {} => Revoking(users, shares) = NoJob
           /\ users # {} \/ shares # {} =>
                 /\ Revoking(users, shares) # NoJob
                 /\ Revoking(users, shares).phase = "revoking"
                 /\ Revoking(users, shares).users = users
                 /\ Revoking(users, shares).shares = shares
  BY DEF Revoking, Revocations, NoJob

LEMMA NotedForms ==
    ASSUME NEW users, NEW units, NEW shares,
           users \subseteq Users, units \subseteq Units, shares \subseteq Units
    PROVE  /\ Noted(users, units, shares) \in Revocations
           /\ Noted(users, units, shares) # NoJob
           /\ Noted(users, units, shares).phase = "noted"
           /\ Noted(users, units, shares).users = users
           /\ Noted(users, units, shares).units = units
           /\ Noted(users, units, shares).shares = shares
  BY DEF Noted, Revocations, NoJob

-----------------------------------------------------------------------------
(* Types                                                                   *)

LEMMA TypeInit ==
    ASSUME AccessAssumption, Init
    PROVE  TypeOK
  BY DEF AccessAssumption, Init, TypeOK, Tokens, Revocations, NoToken, NoJob, Held

\* A commit, and one that leaves a revocation, for whatever it does to the rows.
LEMMA CommitTypes ==
    ASSUME AccessAssumption, TypeOK, NEW shares, Commits(shares)
    PROVE  /\ token' = token /\ index' = index /\ now' = now /\ given' = given
           /\ changes' \in Nat
           /\ since' \in [Issues -> 0 .. Held]
           /\ due' \subseteq Issues
  BY DEF AccessAssumption, TypeOK, Commits, Held

LEMMA NarrowTypes ==
    ASSUME AccessAssumption, TypeOK, NEW j \in Jobs, NEW users, NEW units, NEW shares,
           users \subseteq Users, units \subseteq Units, shares \subseteq Units,
           Narrows(j, users, units, shares)
    PROVE  /\ token' = token /\ index' = index /\ now' = now /\ given' = given
           /\ job' \in [Jobs -> Revocations] /\ changes' \in Nat
           /\ since' \in [Issues -> 0 .. Held] /\ due' \subseteq Issues
  <1>1. Commits(shares) /\ job' = [job EXCEPT ![j] = Noted(users, units, shares)]
    BY DEF Narrows
  <1>2. job' \in [Jobs -> Revocations]
    BY <1>1, NotedForms DEF TypeOK
  <1>3. QED  BY <1>1, <1>2, CommitTypes

LEMMA TypeStep ==
    ASSUME AccessAssumption, TypeOK, [Next]_vars
    PROVE  TypeOK'
  <1> USE DEF TypeOK
  <1>1. CASE Issue
    <2>1. PICK i \in Issues :
              \/ \E u \in Users : AskSession(i, u)
              \/ \E u \in Users, v \in Units, d \in Devices : AskShare(i, u, v, d)
              \/ Resolve(i) \/ WriteScope(i) \/ IssueFails(i)
      BY <1>1 DEF Issue
    <2>2. ASSUME NEW u \in Users, AskSession(i, u) PROVE TypeOK'
      <3>1. [phase |-> "asked", subject |-> u, wide |-> role[u] = "owner", asked |-> now] \in Tokens
        BY DEF Tokens
      <3>2. QED  BY <2>2, <3>1 DEF AskSession, db, ghosts
    <2>3. ASSUME NEW u \in Users, NEW v \in Units, NEW d \in Devices, AskShare(i, u, v, d)
          PROVE  TypeOK'
      <3>1. [phase |-> "resolved", subject |-> v, refs |-> {v, d}, expires |-> now, asked |-> now]
              \in Tokens
        BY DEF Tokens, Subjects, Refs
      <3>2. QED  BY <2>3, <3>1 DEF AskShare, db, ghosts
    <2>4. CASE Resolve(i)
      <3> DEFINE refs == AccessibleRefs(VisibleUnits(token[i].subject, token[i].wide))
      <3>1. /\ token[i].subject \in Users /\ token[i].wide \in BOOLEAN
            /\ token[i].asked \in Nat
        BY <2>4, TokenForms DEF Resolve
      <3>2. refs \in Refs /\ now + TTL \in Nat
        BY <3>1, SeesRefs DEF AccessAssumption
      <3> HIDE DEF refs
      <3>3. [phase |-> "resolved", subject |-> token[i].subject, refs |-> refs,
             expires |-> now + TTL, asked |-> token[i].asked] \in Tokens
        BY <3>1, <3>2 DEF Tokens, Subjects
      <3>4. token' \in [Issues -> Tokens]
        BY <2>4, <3>3 DEF Resolve, refs
      <3>5. since' \in [Issues -> 0 .. Held]
        BY <2>4 DEF Resolve, AccessAssumption, Held
      <3>6. QED  BY <2>4, <3>4, <3>5 DEF Resolve, db
    <2>5. CASE WriteScope(i)
      <3> DEFINE s == token[i].subject
                 expires == IF s \in Units THEN now + ShareTTL ELSE token[i].expires
      <3>1. s \in Subjects /\ token[i].refs \in Refs /\ token[i].expires \in Nat
        BY <2>5, TokenForms DEF WriteScope
      <3>2. expires \in Nat
        BY <3>1 DEF AccessAssumption
      <3>3. [phase |-> "written", subject |-> s, refs |-> token[i].refs, scope |-> TRUE,
             expires |-> expires] \in Tokens
        BY <3>1, <3>2 DEF Tokens
      <3>4. QED  BY <2>5, <3>1, <3>3 DEF WriteScope, db, ghosts
    <2>6. CASE IssueFails(i)
      BY <2>6 DEF IssueFails, db, Tokens, Held, AccessAssumption
    <2>7. QED  BY <2>1, <2>2, <2>3, <2>4, <2>5, <2>6
  <1>2. CASE Widen
    <2>1. ASSUME Widens PROVE /\ token' = token /\ index' = index /\ now' = now
                              /\ given' = given /\ job' = job /\ changes' \in Nat
                              /\ since' \in [Issues -> 0 .. Held] /\ due' \subseteq Issues
      BY <2>1, CommitTypes DEF Widens
    <2>2. ASSUME NEW u \in Users, Promote(u) PROVE TypeOK'
      BY <2>1, <2>2 DEF Promote, Roles
    <2>3. ASSUME NEW u \in Users, NEW r \in Roles, Join(u, r) PROVE TypeOK'
      BY <2>1, <2>3 DEF Join
    <2>4. ASSUME NEW u \in Users, NEW v \in Units, AssignUserToUnit(u, v) PROVE TypeOK'
      BY <2>1, <2>4 DEF AssignUserToUnit
    <2>5. ASSUME NEW v \in Units, NEW d \in Devices, FitDevice(v, d) PROVE TypeOK'
      BY <2>1, <2>5 DEF FitDevice
    <2>6. QED  BY <1>2, <2>2, <2>3, <2>4, <2>5 DEF Widen
  <1>3. CASE Narrow
    <2>1. PICK j \in Jobs :
              \/ \E u \in Users : Demote(j, u) \/ Remove(j, u) \/ Logout(j, u)
              \/ \E u \in Users, v \in Units : RemoveUserFromUnit(j, u, v)
              \/ \E v \in Units, d \in Devices : \E shares \in {{}, {v}} : Unfit(j, v, d, shares)
              \/ \E v \in Units : DeleteUnit(j, v) \/ StopSharing(j, v)
      BY <1>3 DEF Narrow
    <2>3. ASSUME NEW u \in Users, Demote(j, u) \/ Remove(j, u) PROVE TypeOK'
      <3>1. Narrows(j, {u}, {}, {})
        BY <2>3 DEF Demote, Remove
      <3>2. /\ token' = token /\ index' = index /\ now' = now /\ given' = given
            /\ job' \in [Jobs -> Revocations] /\ changes' \in Nat
            /\ since' \in [Issues -> 0 .. Held] /\ due' \subseteq Issues
        BY <3>1, NarrowTypes
      <3>3. QED  BY <2>3, <3>2 DEF Demote, Remove, Roles
    <2>4. ASSUME NEW u \in Users, NEW v \in Units, RemoveUserFromUnit(j, u, v) PROVE TypeOK'
      <3>1. Narrows(j, {u}, {}, {})
        BY <2>4 DEF RemoveUserFromUnit
      <3>2. /\ token' = token /\ index' = index /\ now' = now /\ given' = given
            /\ job' \in [Jobs -> Revocations] /\ changes' \in Nat
            /\ since' \in [Issues -> 0 .. Held] /\ due' \subseteq Issues
        BY <3>1, NarrowTypes
      <3>3. QED  BY <2>4, <3>2 DEF RemoveUserFromUnit
    <2>5. ASSUME NEW v \in Units, NEW d \in Devices, NEW shares \in {{}, {v}},
                 Unfit(j, v, d, shares)
          PROVE  TypeOK'
      <3>1. Narrows(j, {}, {v}, shares) /\ shares \in SUBSET Units
        BY <2>5 DEF Unfit
      <3>2. /\ token' = token /\ index' = index /\ now' = now /\ given' = given
            /\ job' \in [Jobs -> Revocations] /\ changes' \in Nat
            /\ since' \in [Issues -> 0 .. Held] /\ due' \subseteq Issues
        BY <3>1, NarrowTypes
      <3>3. QED  BY <2>5, <3>2 DEF Unfit
    <2>6. ASSUME NEW v \in Units, DeleteUnit(j, v) PROVE TypeOK'
      <3>1. Narrows(j, {}, {v}, {})
        BY <2>6 DEF DeleteUnit
      <3>2. /\ token' = token /\ index' = index /\ now' = now /\ given' = given
            /\ job' \in [Jobs -> Revocations] /\ changes' \in Nat
            /\ since' \in [Issues -> 0 .. Held] /\ due' \subseteq Issues
        BY <3>1, NarrowTypes
      <3>3. QED  BY <2>6, <3>2 DEF DeleteUnit
    <2>7. ASSUME NEW u \in Users, Logout(j, u) PROVE TypeOK'
      <3>1. Revoking({u}, {}) \in Revocations
        BY RevokingForms
      <3>2. QED  BY <2>7, <3>1 DEF Logout, db
    <2>8. ASSUME NEW v \in Units, StopSharing(j, v) PROVE TypeOK'
      <3>1. Revoking({}, {v}) \in Revocations
        BY RevokingForms
      <3>2. QED  BY <2>8, <3>1 DEF StopSharing, db
    <2>9. QED  BY <2>1, <2>3, <2>4, <2>5, <2>6, <2>7, <2>8
  <1>4. CASE Revoke
    <2>1. PICK j \in Jobs :
              \/ FindReaders(j) \/ FindReadersFails(j)
              \/ \E s \in Subjects : ListScopes(j, s)
              \/ DropScopes(j) \/ DropIndex(j) \/ GiveUp(j)
      BY <1>4 DEF Revoke
    <2>2. job[j] # NoJob => job[j].users \in SUBSET Users /\ job[j].shares \in SUBSET Units
      BY JobForms
    <2>3. CASE FindReaders(j)
      <3>1. /\ job[j].users \cup UsersWhoSee(job[j].units) \in SUBSET Users
            /\ job[j].shares \in SUBSET Units
        BY <2>2, <2>3, JobForms, ReadersAreUsers DEF FindReaders
      <3>2. Revoking(job[j].users \cup UsersWhoSee(job[j].units), job[j].shares) \in Revocations
        BY <3>1, RevokingForms
      <3>3. QED  BY <2>3, <3>2 DEF FindReaders, db, ghosts
    <2>4. CASE FindReadersFails(j)
      <3>1. job[j].users \subseteq Users /\ job[j].shares \in SUBSET Units
        BY <2>2, <2>4, JobForms DEF FindReadersFails
      <3>2. Revoking({}, job[j].shares) \in Revocations
        BY <3>1, RevokingForms
      <3>3. given' \subseteq Subjects
        BY <2>4, <3>1, ReadersAreUsers DEF FindReadersFails, Subjects
      <3>4. QED  BY <2>4, <3>2, <3>3 DEF FindReadersFails, db
    <2>5. ASSUME NEW s \in Subjects, ListScopes(j, s) PROVE TypeOK'
      <3>1. job[j].users \in SUBSET Users /\ job[j].shares \in SUBSET Units
        BY <2>2, <2>5, JobForms DEF ListScopes
      <3>2. [phase |-> "listed", subject |-> s, refs |-> index[s],
             users |-> job[j].users \ {s}, shares |-> job[j].shares \ {s}] \in Revocations
        BY <3>1 DEF Revocations
      <3>3. QED  BY <2>5, <3>2 DEF ListScopes, db, ghosts
    <2>6. CASE DropScopes(j)
      <3>1. \A i \in Issues : token[i].phase = "written" =>
                [token[i] EXCEPT !.scope = FALSE] \in Tokens
        BY DEF Tokens, NoToken
      <3>2. token' \in [Issues -> Tokens]
        BY <2>6, <3>1 DEF DropScopes
      <3>3. [job[j] EXCEPT !.phase = "dropped"] \in Revocations
        BY <2>6 DEF DropScopes, Revocations, NoJob
      <3>4. QED  BY <2>6, <3>2, <3>3 DEF DropScopes, db, ghosts
    <2>7. CASE DropIndex(j)
      <3>1. Revoking(job[j].users, job[j].shares) \in Revocations
        BY <2>2, <2>7, JobForms, RevokingForms DEF DropIndex
      <3>2. QED  BY <2>7, <3>1 DEF DropIndex, db, ghosts
    <2>8. CASE GiveUp(j)
      BY <2>8 DEF GiveUp, db, Revocations
    <2>9. QED  BY <2>1, <2>3, <2>4, <2>5, <2>6, <2>7, <2>8
  <1>5. CASE Tick
    BY <1>5 DEF Tick, db, ghosts, AccessAssumption
  <1>6. CASE UNCHANGED vars
    BY <1>6 DEF vars, db, ghosts
  <1>7. QED  BY <1>1, <1>2, <1>3, <1>4, <1>5, <1>6 DEF Next

-----------------------------------------------------------------------------
(* How long what is no longer visible is shown                             *)

Life(s) == IF s \in Units THEN ShareTTL ELSE TTL

\* What a token and its ghost have in common: while it is issued, its request is
\* young and began before the refs lapsed; written, it ends within its life, and
\* within its request and its life of the lapse; and the lapse is behind.
Timed(i) ==
    /\ token[i].phase = "unused" => since[i] = Held
    /\ InFlight(i) =>
          /\ token[i].asked <= now /\ now <= token[i].asked + MaxRequest
          /\ token[i].asked <= since[i]
    /\ token[i].phase = "resolved" /\ token[i].subject \notin Units =>
          /\ token[i].expires <= now + TTL
          /\ token[i].expires <= token[i].asked + MaxRequest + TTL
    /\ token[i].phase = "written" =>
          /\ token[i].expires <= now + Life(token[i].subject)
          /\ token[i].expires <= since[i] + MaxRequest + Life(token[i].subject)
    /\ since[i] = Held \/ since[i] <= now
    /\ ~Entitled(i) => since[i] <= now

TimeInv == TypeOK /\ \A i \in Issues : Timed(i)

LEMMA SeesKept ==
    ASSUME UNCHANGED db
    PROVE  \A s : Sees(s)' = Sees(s)
  BY DEF db, Sees, AccessibleRefs, VisibleUnits

LEMMA EntitledKept ==
    ASSUME UNCHANGED db, NEW i \in Issues, token'[i] = token[i]
    PROVE  Entitled(i)' <=> Entitled(i)
  BY SeesKept DEF Entitled, db

\* A token nobody touched stays timed, whatever the others do.
LEMMA TimedKept ==
    ASSUME UNCHANGED <<db, now>>, NEW i \in Issues, token'[i] = token[i], since'[i] = since[i],
           Timed(i)
    PROVE  Timed(i)'
  BY EntitledKept DEF Timed, InFlight, Life

\* What a user who has not lost anything resolves is what they see.
LEMMA ResolvesSeen ==
    ASSUME AccessAssumption, TypeOK, NEW i \in Issues, token[i].phase = "asked", Entitled(i)
    PROVE  AccessibleRefs(VisibleUnits(token[i].subject, token[i].wide)) \subseteq Sees(token[i].subject)
  <1>1. token[i].subject \in Users /\ token[i].wide \in BOOLEAN
    BY TokenForms
  <1>2. token[i].subject \notin Units
    BY <1>1 DEF AccessAssumption
  <1>3. \/ role[token[i].subject] = "owner"
        \/ role[token[i].subject] = "member" /\ token[i].wide = FALSE
    BY <1>1 DEF Entitled
  <1>4. QED  BY <1>2, <1>3 DEF Sees, AccessibleRefs, VisibleUnits

LEMMA TimeInit ==
    ASSUME AccessAssumption, Init
    PROVE  TimeInv
  <1>1. TypeOK
    BY TypeInit
  <1>2. ASSUME NEW i \in Issues PROVE Timed(i)
    BY DEF Init, Timed, Entitled, InFlight, NoToken
  <1>3. QED  BY <1>1, <1>2 DEF TimeInv

\* A commit, whatever it does to the rows.
LEMMA CommitTimed ==
    ASSUME AccessAssumption, TimeInv, NEW shares, Commits(shares), NEW i \in Issues
    PROVE  Timed(i)'
  <1>1. token'[i] = token[i] /\ now' = now /\ TypeOK /\ Timed(i)
    BY DEF Commits, TimeInv
  <1>2. since'[i] = IF Entitled(i)' THEN Held ELSE IF since[i] = Held THEN now ELSE since[i]
    BY DEF Commits
  <1>3. /\ now \in Nat /\ now <= MaxTime /\ Held = MaxTime + 1 /\ MaxTime \in Nat
        /\ {TTL, ShareTTL, MaxRequest} \subseteq Nat /\ since[i] \in Nat
    BY <1>1 DEF AccessAssumption, TypeOK, Held
  <1>4. token[i].phase = "unused" => Entitled(i)'
    BY <1>1 DEF Entitled
  <1>5. /\ InFlight(i) => token[i].asked \in Nat
        /\ token[i].phase = "written" =>
              token[i].expires \in Nat /\ Life(token[i].subject) \in Nat
    BY <1>1, <1>3, TokenForms DEF InFlight, Life
  <1>6. since'[i] = Held \/ since'[i] = now \/ since'[i] = since[i]
    BY <1>2
  <1>7. since'[i] = Held \/ since'[i] <= now
    BY <1>1, <1>2, <1>3 DEF Timed
  <1>8. QED  BY <1>1, <1>2, <1>3, <1>4, <1>5, <1>6, <1>7 DEF Timed, InFlight, Life, Held

\* The steps of the request that issues a token.
LEMMA IssueTimed ==
    ASSUME AccessAssumption, TimeInv, Issue, NEW k \in Issues
    PROVE  Timed(k)'
  <1>1. TypeOK /\ Timed(k)
    BY DEF TimeInv
  <1>2. /\ now \in Nat /\ now <= MaxTime /\ Held = MaxTime + 1 /\ MaxTime \in Nat
        /\ TTL \in Nat /\ ShareTTL \in Nat /\ MaxRequest \in Nat
        /\ since \in [Issues -> 0 .. Held] /\ token \in [Issues -> Tokens]
    BY <1>1 DEF AccessAssumption, TypeOK, Held
  <1>3. PICK i \in Issues :
            \/ \E u \in Users : AskSession(i, u)
            \/ \E u \in Users, v \in Units, d \in Devices : AskShare(i, u, v, d)
            \/ Resolve(i) \/ WriteScope(i) \/ IssueFails(i)
    BY DEF Issue
  <1>4. UNCHANGED <<db, now>>
    BY <1>3 DEF AskSession, AskShare, Resolve, WriteScope, IssueFails
  <1>5. CASE k # i
    <2>1. token'[k] = token[k] /\ since'[k] = since[k]
      BY <1>2, <1>3, <1>5 DEF AskSession, AskShare, Resolve, WriteScope, IssueFails, ghosts
    <2>2. QED  BY <1>1, <1>4, <2>1, TimedKept
  <1>6. ASSUME k = i, NEW u \in Users, AskSession(i, u) PROVE Timed(k)'
    <2>1. /\ token'[i] = [phase |-> "asked", subject |-> u, wide |-> role[u] = "owner", asked |-> now]
          /\ since'[i] = since[i] /\ token[i].phase = "unused"
      BY <1>2, <1>6 DEF AskSession, ghosts, NoToken
    <2>2. role[u] = "owner" \/ role[u] = "member"
      BY <1>1, <1>6 DEF AskSession, TypeOK, Roles
    <2>3. token'[i].phase = "asked" /\ token'[i].subject = u /\ role'[u] = role[u]
      BY <1>4, <2>1 DEF db
    <2>4. role'[u] = "owner" \/ (role'[u] = "member" /\ ~token'[i].wide)
      <3>1. \A b : [phase |-> "asked", subject |-> u, wide |-> b, asked |-> now].wide = b
        OBVIOUS
      <3>2. token'[i].wide = (role[u] = "owner")
        BY <2>1, <3>1, Zenon
      <3>3. role[u] # "owner" => ~token'[i].wide
        BY <3>2, Zenon
      <3>4. QED  BY <2>2, <2>3, <3>3
    <2>5. Entitled(i)'
      BY <2>3, <2>4 DEF Entitled
    <2>6. QED  BY <1>1, <1>2, <1>4, <1>6, <2>1, <2>5 DEF Timed, InFlight
  <1>7. ASSUME k = i, NEW u \in Users, NEW v \in Units, NEW d \in Devices, AskShare(i, u, v, d)
        PROVE  Timed(k)'
    <2>1. /\ token'[i] = [phase |-> "resolved", subject |-> v, refs |-> {v, d},
                          expires |-> now, asked |-> now]
          /\ since'[i] = since[i] /\ token[i].phase = "unused"
      BY <1>2, <1>7 DEF AskShare, ghosts, NoToken
    <2>2. v \in live /\ <<v, d>> \in fit
      BY <1>1, <1>7 DEF AskShare, Sees, AccessibleRefs, VisibleUnits, AccessAssumption
    <2>3. {v, d} \subseteq Sees(v)
      BY <2>2 DEF Sees, AccessibleRefs
    <2>4. Entitled(i)'
      BY <1>4, <2>1, <2>3, SeesKept DEF Entitled
    <2>5. QED  BY <1>1, <1>2, <1>4, <1>7, <2>1, <2>4 DEF Timed, InFlight
  <1>8. CASE k = i /\ Resolve(i)
    <2> DEFINE refs == AccessibleRefs(VisibleUnits(token[i].subject, token[i].wide))
    <2>1. /\ token[i].phase = "asked" /\ token[i].subject \in Users
          /\ token[i].asked \in Nat /\ InFlight(i)
      BY <1>1, <1>8, TokenForms DEF Resolve, InFlight
    <2>2. /\ token'[i] = [phase |-> "resolved", subject |-> token[i].subject, refs |-> refs,
                          expires |-> now + TTL, asked |-> token[i].asked]
          /\ since'[i] = IF refs \subseteq Sees(token[i].subject) THEN Held ELSE since[i]
      BY <1>2, <1>8 DEF Resolve
    <2>3. Entitled(i) => refs \subseteq Sees(token[i].subject)
      BY <1>1, <2>1, ResolvesSeen
    <2> HIDE DEF refs
    <2>4. Entitled(i)' <=> refs \subseteq Sees(token[i].subject)
      BY <1>4, <2>2, SeesKept DEF Entitled
    <2>5. ~Entitled(i)' => since'[i] <= now
      BY <1>1, <1>8, <2>2, <2>3, <2>4 DEF Timed
    <2>6. token[i].asked <= since'[i] /\ (since'[i] = Held \/ since'[i] <= now)
      BY <1>1, <1>2, <1>8, <2>1, <2>2 DEF Timed
    <2>7. QED  BY <1>1, <1>2, <1>4, <1>8, <2>1, <2>2, <2>5, <2>6 DEF Timed, InFlight
  <1>9. CASE k = i /\ WriteScope(i)
    <2> DEFINE s == token[i].subject
               expires == IF s \in Units THEN now + ShareTTL ELSE token[i].expires
    <2>1. /\ token[i].phase = "resolved" /\ token[i].asked \in Nat /\ token[i].expires \in Nat
          /\ InFlight(i)
      BY <1>1, <1>9, TokenForms DEF WriteScope, InFlight
    <2>2. /\ token'[i] = [phase |-> "written", subject |-> s, refs |-> token[i].refs,
                          scope |-> TRUE, expires |-> expires]
          /\ since'[i] = since[i]
      BY <1>2, <1>9 DEF WriteScope, ghosts
    <2>3. Entitled(i)' <=> Entitled(i)
      BY <1>4, <2>1, <2>2, SeesKept DEF Entitled
    <2>4. since[i] \in Nat
      BY <1>2, <1>9 DEF Held
    <2>5. /\ token[i].asked <= now /\ now <= token[i].asked + MaxRequest
          /\ token[i].asked <= since[i]
          /\ s \notin Units => /\ token[i].expires <= now + TTL
                               /\ token[i].expires <= token[i].asked + MaxRequest + TTL
      BY <1>1, <1>9, <2>1 DEF Timed
    <2>6. expires <= now + Life(s) /\ expires <= since[i] + MaxRequest + Life(s)
      BY <1>2, <2>1, <2>4, <2>5 DEF Life
    <2> HIDE DEF s, expires
    <2>7. QED  BY <1>1, <1>4, <1>9, <2>2, <2>3, <2>6 DEF Timed, InFlight, Life
  <1>10. CASE k = i /\ IssueFails(i)
    <2>1. token'[i] = NoToken /\ since'[i] = Held
      BY <1>2, <1>10 DEF IssueFails
    <2>2. QED  BY <1>10, <2>1 DEF Timed, Entitled, InFlight, NoToken
  <1>11. QED  BY <1>3, <1>5, <1>6, <1>7, <1>8, <1>9, <1>10

LEMMA TimeStep ==
    ASSUME AccessAssumption, TimeInv, [Next]_vars
    PROVE  TimeInv'
  <1>1. TypeOK /\ TypeOK'
    BY TypeStep DEF TimeInv
  <1> SUFFICES ASSUME NEW i \in Issues PROVE Timed(i)'
    BY <1>1 DEF TimeInv
  <1>2. Timed(i)
    BY DEF TimeInv
  <1>3. CASE Issue
    BY <1>3, IssueTimed
  <1>4. ASSUME NEW shares, Commits(shares) PROVE Timed(i)'
    BY <1>4, CommitTimed
  <1>5. CASE Widen
    BY <1>4, <1>5 DEF Widen, Promote, Join, AssignUserToUnit, FitDevice, Widens
  <1>6. CASE Narrow
    <2>1. PICK j \in Jobs :
              \/ \E u \in Users : Demote(j, u) \/ Remove(j, u) \/ Logout(j, u)
              \/ \E u \in Users, v \in Units : RemoveUserFromUnit(j, u, v)
              \/ \E v \in Units, d \in Devices : \E shares \in {{}, {v}} : Unfit(j, v, d, shares)
              \/ \E v \in Units : DeleteUnit(j, v) \/ StopSharing(j, v)
      BY <1>6 DEF Narrow
    <2>2. ASSUME NEW u \in Users, Logout(j, u) PROVE Timed(i)'
      BY <1>2, <2>2, TimedKept DEF Logout
    <2>3. ASSUME NEW v \in Units, StopSharing(j, v) PROVE Timed(i)'
      BY <1>2, <2>3, TimedKept DEF StopSharing
    <2>4. QED
      BY <1>4, <2>1, <2>2, <2>3 DEF Demote, Remove, RemoveUserFromUnit, Unfit, DeleteUnit,
         Narrows
  <1>7. CASE Revoke
    <2>1. PICK j \in Jobs :
              \/ FindReaders(j) \/ FindReadersFails(j)
              \/ \E s \in Subjects : ListScopes(j, s)
              \/ DropScopes(j) \/ DropIndex(j) \/ GiveUp(j)
      BY <1>7 DEF Revoke
    <2>2. CASE DropScopes(j)
      <3>1. UNCHANGED <<db, now>> /\ since' = since
        BY <2>2 DEF DropScopes, ghosts
      <3>2. CASE token'[i] = token[i]
        BY <1>2, <3>1, <3>2, TimedKept
      <3>3. CASE token'[i] # token[i]
        <4>1. token[i].phase = "written" /\ token'[i] = [token[i] EXCEPT !.scope = FALSE]
          BY <2>2, <3>3 DEF DropScopes
        <4>2. /\ token'[i].phase = "written" /\ token'[i].subject = token[i].subject
              /\ token'[i].refs = token[i].refs /\ token'[i].expires = token[i].expires
          BY <1>1, <4>1 DEF TypeOK, Tokens, NoToken
        <4>3. Entitled(i)' <=> Entitled(i)
          BY <3>1, <4>1, <4>2, SeesKept DEF Entitled
        <4>4. QED  BY <1>2, <3>1, <4>1, <4>2, <4>3 DEF Timed, InFlight, Life
      <3>4. QED  BY <3>2, <3>3
    <2>3. CASE ~DropScopes(j)
      BY <1>2, <2>1, <2>3, TimedKept
         DEF FindReaders, FindReadersFails, ListScopes, DropIndex, GiveUp, ghosts
    <2>4. QED  BY <2>2, <2>3
  <1>8. CASE Tick
    <2>1. /\ UNCHANGED <<db, token, since>> /\ now' = now + 1 /\ now \in Nat
          /\ InFlight(i) => now - token[i].asked < MaxRequest
      BY <1>1, <1>8 DEF Tick, ghosts, TypeOK
    <2>2. Entitled(i)' <=> Entitled(i)
      BY <2>1, EntitledKept
    <2>3. /\ MaxRequest \in Nat /\ TTL \in Nat /\ ShareTTL \in Nat /\ since[i] \in 0 .. Held
          /\ InFlight(i) => token[i].asked \in Nat
          /\ token[i].phase \in {"resolved", "written"} => token[i].expires \in Nat
      BY <1>1, TokenForms DEF AccessAssumption, TypeOK, InFlight
    <2>4. QED  BY <1>2, <2>1, <2>2, <2>3 DEF Timed, InFlight, Life
  <1>9. CASE UNCHANGED vars
    BY <1>2, <1>9, TimedKept DEF vars, ghosts
  <1>10. QED  BY <1>3, <1>5, <1>6, <1>7, <1>8, <1>9 DEF Next

\* A token that is accepted lives no longer than its life and its request.
LEMMA TimeHolds ==
    ASSUME AccessAssumption, TimeInv PROVE StaleAccessEnds
  <1> SUFFICES ASSUME NEW i \in Issues, Accepted(i) PROVE
          now < since[i] + MaxRequest + (IF token[i].subject \in Units THEN ShareTTL ELSE TTL)
    BY DEF StaleAccessEnds
  <1>1. TypeOK /\ Timed(i)
    BY DEF TimeInv
  <1>2. token[i].phase = "written" /\ now < token[i].expires
    BY DEF Accepted, Unexpired
  <1>3. token[i].expires \in Nat /\ now \in Nat /\ since[i] \in Nat
    BY <1>1, <1>2, TokenForms DEF TypeOK, Held, AccessAssumption
  <1>4. token[i].expires <= since[i] + MaxRequest + Life(token[i].subject)
    BY <1>1, <1>2 DEF Timed
  <1>5. Life(token[i].subject) \in Nat /\ MaxRequest \in Nat
    BY DEF AccessAssumption, Life
  <1>6. QED  BY <1>2, <1>3, <1>4, <1>5 DEF Life

\* However revocations fail, crash and cross (session_revocation, scope_store), no
\* token shows what its subject no longer sees for longer than its life and the
\* request that issued it.
THEOREM StaleAccessEndsAlways ==
    ASSUME AccessAssumption
    PROVE  Spec => []StaleAccessEnds
  BY TimeInit, TimeStep, TimeHolds, PTL DEF Spec

-----------------------------------------------------------------------------
(* Revocations that no issue crosses                                       *)

Open(i) == token[i].phase = "written" /\ token[i].scope

\* While no scope is written in the middle of a revocation of its subject, the
\* index names every open scope; whoever has listed it has listed them all, and
\* whoever has dropped what was listed has left none.
ReachInv ==
    /\ TypeOK
    /\ \A i \in due : token[i].phase = "written"
    /\ \A i \in Issues : Open(i) =>
          /\ i \in index[token[i].subject]
          /\ \A j \in Jobs :
                /\ Lists(j, token[i].subject) => i \in job[j].refs
                /\ job[j].phase = "dropped" => job[j].subject # token[i].subject
    /\ \A i \in due : Open(i) => Covered(i) \/ token[i].subject \in given

LEMMA ReachInit ==
    ASSUME AccessAssumption, Init
    PROVE  ReachInv
  <1>1. TypeOK
    BY TypeInit
  <1>2. \A i \in Issues : ~Open(i)
    BY DEF Init, Open, NoToken
  <1>3. due = {}
    BY DEF Init
  <1>4. QED  BY <1>1, <1>2, <1>3 DEF ReachInv

\* What a user sees of a unit they are shown.
Shown(u, v) == role[u] = "owner" \/ (role[u] = "member" /\ <<u, v>> \in grants)

LEMMA SeesUser ==
    ASSUME AccessAssumption, TypeOK, NEW u \in Users
    PROVE  \A r : r \in Sees(u) <=>
              \E v \in live : Shown(u, v) /\ (r = v \/ (r \in Devices /\ <<v, r>> \in fit))
  <1>1. u \notin Units /\ role[u] \in Roles
    BY DEF AccessAssumption, TypeOK
  <1>2. CASE role[u] = "out"
    BY <1>1, <1>2 DEF Sees, Shown
  <1>3. CASE role[u] = "owner"
    BY <1>1, <1>3 DEF Sees, Shown, AccessibleRefs, VisibleUnits
  <1>4. CASE role[u] = "member"
    BY <1>1, <1>4 DEF Sees, Shown, AccessibleRefs, VisibleUnits
  <1>5. QED  BY <1>1, <1>2, <1>3, <1>4 DEF Roles

LEMMA SeesUserAfter ==
    ASSUME AccessAssumption, TypeOK', NEW u \in Users
    PROVE  \A r : r \in Sees(u)' <=>
              \E v \in live' : Shown(u, v)' /\ (r = v \/ (r \in Devices /\ <<v, r>> \in fit'))
  <1>1. u \notin Units /\ role'[u] \in Roles
    BY DEF AccessAssumption, TypeOK
  <1>2. CASE role'[u] = "out"
    BY <1>1, <1>2 DEF Sees, Shown
  <1>3. CASE role'[u] = "owner"
    BY <1>1, <1>3 DEF Sees, Shown, AccessibleRefs, VisibleUnits
  <1>4. CASE role'[u] = "member"
    BY <1>1, <1>4 DEF Sees, Shown, AccessibleRefs, VisibleUnits
  <1>5. QED  BY <1>1, <1>2, <1>3, <1>4 DEF Roles

ReadersAfter(units) ==
    IF units = {} THEN {}
    ELSE {u \in Users : role'[u] = "owner" \/ \E v \in units : <<u, v>> \in grants'}

\* Whoever loses something is noted, by name or as a reader of a unit; and who
\* stops being a reader of units that others noted is noted by name.
Notices(users, units) ==
    \A u \in Users :
        /\ Sees(u) \subseteq Sees(u)' \/ u \in users \cup ReadersAfter(units)
        /\ \A noted \in SUBSET Units :
              u \in UsersWhoSee(noted) => u \in ReadersAfter(noted) \cup users

LEMMA WidensNotice ==
    ASSUME AccessAssumption, TypeOK, TypeOK', Widen
    PROVE  Notices({}, {})
  <1> SUFFICES ASSUME NEW u \in Users, NEW noted \in SUBSET Units
               PROVE  /\ Sees(u) \subseteq Sees(u)'
                      /\ u \in UsersWhoSee(noted) => u \in ReadersAfter(noted)
    BY DEF Notices
  <1>1. /\ \A r : r \in Sees(u) <=>
              \E v \in live : Shown(u, v) /\ (r = v \/ (r \in Devices /\ <<v, r>> \in fit))
        /\ \A r : r \in Sees(u)' <=>
              \E v \in live' : Shown(u, v)' /\ (r = v \/ (r \in Devices /\ <<v, r>> \in fit'))
    BY SeesUser, SeesUserAfter
  <1>2. ASSUME live \subseteq live', grants \subseteq grants', fit \subseteq fit',
               role[u] = "owner" => role'[u] = "owner",
               role[u] = "member" => role'[u] \in {"owner", "member"}
        PROVE  /\ Sees(u) \subseteq Sees(u)'
               /\ u \in UsersWhoSee(noted) => u \in ReadersAfter(noted)
    BY <1>1, <1>2 DEF Shown, UsersWhoSee, ReadersAfter
  <1>3. ASSUME NEW w \in Users, Promote(w) \/ \E r \in Roles : Join(w, r)
        PROVE  /\ live \subseteq live' /\ grants \subseteq grants' /\ fit \subseteq fit'
               /\ role[u] = "owner" => role'[u] = "owner"
               /\ role[u] = "member" => role'[u] \in {"owner", "member"}
    BY <1>3 DEF Promote, Join, TypeOK
  <1>4. ASSUME NEW w \in Users, NEW v \in Units, AssignUserToUnit(w, v)
        PROVE  /\ live \subseteq live' /\ grants \subseteq grants' /\ fit \subseteq fit'
               /\ role' = role
    BY <1>4 DEF AssignUserToUnit
  <1>5. ASSUME NEW v \in Units, NEW d \in Devices, FitDevice(v, d)
        PROVE  /\ live \subseteq live' /\ grants \subseteq grants' /\ fit \subseteq fit'
               /\ role' = role
    BY <1>5 DEF FitDevice
  <1>6. QED  BY <1>2, <1>3, <1>4, <1>5 DEF Widen

\* Demote, Remove and RemoveUserFromUnit concern one user.
LEMMA PersonNoticed ==
    ASSUME AccessAssumption, TypeOK, TypeOK', NEW w \in Users,
           UNCHANGED <<live, fit>>,
           \A u \in Users : u # w =>
               role'[u] = role[u] /\ \A v \in Units : <<u, v>> \in grants => <<u, v>> \in grants'
    PROVE  Notices({w}, {})
  <1> SUFFICES ASSUME NEW u \in Users, u # w, NEW noted \in SUBSET Units
               PROVE  /\ Sees(u) \subseteq Sees(u)'
                      /\ u \in UsersWhoSee(noted) => u \in ReadersAfter(noted)
    BY DEF Notices
  <1>1. /\ \A r : r \in Sees(u) <=>
              \E v \in live : Shown(u, v) /\ (r = v \/ (r \in Devices /\ <<v, r>> \in fit))
        /\ \A r : r \in Sees(u)' <=>
              \E v \in live' : Shown(u, v)' /\ (r = v \/ (r \in Devices /\ <<v, r>> \in fit'))
    BY SeesUser, SeesUserAfter
  <1>2. \A v \in Units : Shown(u, v) => Shown(u, v)'
    BY DEF Shown
  <1>3. Sees(u) \subseteq Sees(u)'
    BY <1>1, <1>2 DEF TypeOK
  <1>4. QED  BY <1>3 DEF UsersWhoSee, ReadersAfter

\* Unfit and DeleteUnit concern one unit, and whoever is shown it.
LEMMA UnitNoticed ==
    ASSUME AccessAssumption, TypeOK, TypeOK', NEW w \in Units,
           UNCHANGED <<role, grants>>,
           \A v \in live : v # w => v \in live',
           \A p \in fit : p[1] # w => p \in fit'
    PROVE  Notices({}, {w})
  <1> SUFFICES ASSUME NEW u \in Users, NEW noted \in SUBSET Units
               PROVE  /\ Sees(u) \subseteq Sees(u)' \/ u \in ReadersAfter({w})
                      /\ u \in UsersWhoSee(noted) => u \in ReadersAfter(noted)
    BY DEF Notices
  <1>1. /\ \A r : r \in Sees(u) <=>
              \E v \in live : Shown(u, v) /\ (r = v \/ (r \in Devices /\ <<v, r>> \in fit))
        /\ \A r : r \in Sees(u)' <=>
              \E v \in live' : Shown(u, v)' /\ (r = v \/ (r \in Devices /\ <<v, r>> \in fit'))
    BY SeesUser, SeesUserAfter
  <1>2. \A v : Shown(u, v) => Shown(u, v)'
    BY DEF Shown
  <1>3. Shown(u, w) => u \in ReadersAfter({w})
    BY DEF Shown, ReadersAfter
  <1>4. ASSUME ~Shown(u, w) PROVE Sees(u) \subseteq Sees(u)'
    <2> SUFFICES ASSUME NEW r, r \in Sees(u) PROVE r \in Sees(u)'
      OBVIOUS
    <2>1. PICK v \in live : Shown(u, v) /\ (r = v \/ (r \in Devices /\ <<v, r>> \in fit))
      BY <1>1
    <2>2. v # w
      BY <1>4, <2>1
    <2>3. v \in live' /\ (<<v, r>> \in fit => <<v, r>> \in fit')
      BY <2>2
    <2>4. QED  BY <1>1, <1>2, <2>1, <2>3
  <1>5. QED  BY <1>3, <1>4 DEF UsersWhoSee, ReadersAfter

\* A token is covered after a step that leaves its subject awaited.
LEMMA AwaitsAfter ==
    ASSUME NEW CONSTANT j \in Jobs, NEW CONSTANT i, NEW CONSTANT s, token'[i].subject = s,
           job'[j] # NoJob,
           s \in job'[j].users \cup job'[j].shares
           \/ (job'[j].phase = "noted" /\ s \in ReadersAfter(job'[j].units))
    PROVE  Covered(i)'
  BY DEF Covered, Awaits, UsersWhoSee, ReadersAfter

\* A commit that notes whom it narrows reaches what it ends, and loses nobody
\* that other revocations have noted.
LEMMA CommitReach ==
    ASSUME AccessAssumption, ReachInv, TypeOK', NEW users, NEW units, NEW shares,
           users \subseteq Users, units \subseteq Units, shares \subseteq Units,
           Notices(users, units), Commits(shares),
           \/ users = {} /\ units = {} /\ shares = {} /\ job' = job
           \/ \E j \in Jobs : Narrows(j, users, units, shares)
    PROVE  ReachInv'
  <1>1. TypeOK /\ token' = token /\ index' = index /\ given' = given
    BY DEF ReachInv, Commits
  <1>2. \A i : Open(i)' <=> Open(i)
    BY <1>1 DEF Open
  <1>3. \A j \in Jobs :
            \/ job'[j] = job[j]
            \/ /\ job[j] = NoJob /\ job'[j] # NoJob
               /\ job'[j].phase = "noted" /\ job'[j].users = users /\ job'[j].units = units
               /\ job'[j].shares = shares
    BY <1>1, NotedForms DEF Narrows, TypeOK
  <1>4. ASSUME users # {} \/ units # {} \/ shares # {}
        PROVE  \E j \in Jobs :
                  /\ job'[j] # NoJob /\ job'[j].phase = "noted"
                  /\ job'[j].users = users /\ job'[j].units = units /\ job'[j].shares = shares
    BY <1>1, <1>4, NotedForms DEF Narrows, TypeOK
  <1>5. NoJob.phase = "none"
    BY DEF NoJob
  <1>6. ASSUME NEW i \in due', Open(i)', token[i].subject \notin given
        PROVE  Covered(i)'
    <2>0. PICK s : s = token[i].subject
      OBVIOUS
    <2>1. i \in Issues /\ s \in Subjects /\ token'[i].subject = s
      BY <1>1, <1>2, <1>6, <2>0, TokenForms DEF TypeOK, Open
    <2>2. s \in shares \/ s \in users \cup ReadersAfter(units) => Covered(i)'
      <3>1. SUFFICES ASSUME s \in shares \/ s \in users \cup ReadersAfter(units)
                     PROVE  Covered(i)'
        OBVIOUS
      <3>2. users # {} \/ units # {} \/ shares # {}
        BY <3>1 DEF ReadersAfter
      <3>3. PICK j \in Jobs :
                  /\ job'[j] # NoJob /\ job'[j].phase = "noted"
                  /\ job'[j].users = users /\ job'[j].units = units /\ job'[j].shares = shares
        BY <1>4, <3>2
      <3>4. QED  BY <2>1, <3>1, <3>3, AwaitsAfter
    <2>3. CASE i \in due
      <3>1. Covered(i)
        BY <1>2, <1>6, <2>3 DEF ReachInv
      <3>2. PICK j \in Jobs : Awaits(j, s) \/ (Lists(j, s) /\ i \in job[j].refs)
        BY <2>0, <3>1 DEF Covered
      <3>3. job'[j] = job[j]
        BY <1>3, <1>5, <3>2 DEF Awaits, Lists
      <3>4. CASE Lists(j, s) /\ i \in job[j].refs
        BY <2>1, <3>3, <3>4 DEF Covered, Lists
      <3>5. CASE s \in job[j].users \cup job[j].shares /\ job[j] # NoJob
        BY <2>1, <3>3, <3>5, AwaitsAfter
      <3>6. CASE job[j].phase = "noted" /\ s \in UsersWhoSee(job[j].units)
        <4>1. job[j] # NoJob /\ job[j].units \in SUBSET Units /\ s \in Users
          BY <1>1, <1>5, <3>6, JobForms, ReadersAreUsers
        <4>2. s \in ReadersAfter(job[j].units) \cup users
          BY <3>6, <4>1 DEF Notices
        <4>3. CASE s \in ReadersAfter(job[j].units)
          BY <2>1, <3>3, <3>6, <4>1, <4>3, AwaitsAfter
        <4>4. QED  BY <2>2, <4>2, <4>3
      <3>7. QED  BY <3>2, <3>4, <3>5, <3>6 DEF Awaits
    <2>4. CASE i \notin due
      <3>1. /\ token[i].phase = "written"
            /\ s \in shares \/ (s \in Users /\ Entitled(i) /\ ~Entitled(i)')
        BY <1>6, <2>0, <2>4 DEF Commits
      <3>2. CASE s \in Users /\ Entitled(i) /\ ~Entitled(i)'
        <4>1. token[i].refs \subseteq Sees(s) /\ ~(token[i].refs \subseteq Sees(s)')
          BY <1>1, <2>0, <2>1, <3>1, <3>2 DEF Entitled
        <4>2. ~(Sees(s) \subseteq Sees(s)')
          BY <4>1
        <4>3. s \in users \cup ReadersAfter(units)
          BY <3>2, <4>2 DEF Notices
        <4>4. QED  BY <2>2, <4>3
      <3>3. QED  BY <2>2, <3>1, <3>2
    <2>5. QED  BY <2>3, <2>4
  <1>7. \A i \in due' : token'[i].phase = "written"
    BY <1>1 DEF ReachInv, Commits
  <1>8. ASSUME NEW i \in Issues, Open(i)'
        PROVE  /\ i \in index'[token'[i].subject]
               /\ \A j \in Jobs :
                     /\ Lists(j, token[i].subject)' => i \in job'[j].refs
                     /\ job'[j].phase = "dropped" => job'[j].subject # token'[i].subject
    BY <1>1, <1>2, <1>3, <1>8 DEF ReachInv, Lists
  <1>9. QED  BY <1>1, <1>6, <1>7, <1>8 DEF ReachInv, Lists

\* An issue opens at most a scope that nobody is deleting.
LEMMA IssueReach ==
    ASSUME ReachInv, TypeOK', Overlap = FALSE, Issue
    PROVE  ReachInv'
  <1>1. TypeOK
    BY DEF ReachInv
  <1>2. PICK i \in Issues :
            \/ \E u \in Users : AskSession(i, u)
            \/ \E u \in Users, v \in Units, d \in Devices : AskShare(i, u, v, d)
            \/ Resolve(i) \/ WriteScope(i) \/ IssueFails(i)
    BY DEF Issue
  <1>3. /\ token[i].phase # "written"
        /\ \A k \in Issues : k # i => token'[k] = token[k]
        /\ UNCHANGED <<role, grants, job, due, given>>
        /\ WriteScope(i) \/ (token'[i].phase # "written" /\ index' = index)
    <2>1. NoToken.phase = "unused"
      BY DEF NoToken
    <2>2. CASE \E u \in Users : AskSession(i, u)
      BY <1>1, <2>1, <2>2 DEF TypeOK, AskSession, db, ghosts
    <2>3. CASE \E u \in Users, v \in Units, d \in Devices : AskShare(i, u, v, d)
      BY <1>1, <2>1, <2>3 DEF TypeOK, AskShare, db, ghosts
    <2>4. CASE Resolve(i)
      BY <1>1, <2>4 DEF TypeOK, Resolve, db
    <2>5. CASE WriteScope(i)
      BY <1>1, <2>5 DEF TypeOK, WriteScope, db, ghosts
    <2>6. CASE IssueFails(i)
      BY <1>1, <2>1, <2>6 DEF TypeOK, IssueFails, db
    <2>7. QED  BY <1>2, <2>2, <2>3, <2>4, <2>5, <2>6
  <1>4. CASE ~WriteScope(i)
    <2>1. token'[i].phase # "written" /\ index' = index
      BY <1>3, <1>4
    <2>2. \A k \in Issues : Open(k)' => token'[k] = token[k] /\ Open(k)
      BY <1>3, <2>1 DEF Open
    <2>3. \A k \in due : token'[k] = token[k] /\ (Covered(k) => Covered(k)')
      BY <1>1, <1>3 DEF ReachInv, TypeOK, Covered, Awaits, Lists, UsersWhoSee
    <2>4. \A k \in Issues : Open(k)' =>
              /\ k \in index'[token'[k].subject]
              /\ \A j \in Jobs :
                    /\ Lists(j, token[k].subject)' => k \in job'[j].refs
                    /\ job'[j].phase = "dropped" => job'[j].subject # token'[k].subject
      BY <1>3, <2>1, <2>2 DEF ReachInv, Lists
    <2>5. \A k \in due' : token'[k].phase = "written"
      BY <1>3, <2>3 DEF ReachInv
    <2>6. \A k \in due' : Open(k)' => Covered(k)' \/ token'[k].subject \in given'
      BY <1>1, <1>3, <2>2, <2>3 DEF ReachInv, TypeOK
    <2>7. QED  BY <2>4, <2>5, <2>6 DEF ReachInv, Lists
  <1>5. CASE WriteScope(i)
    <2>1. /\ token'[i].subject = token[i].subject /\ token[i].subject \in Subjects
          /\ ~Deleting(token[i].subject)
          /\ index' = [index EXCEPT ![token[i].subject] = @ \cup {i}]
      BY <1>1, <1>5, TokenForms DEF TypeOK, WriteScope
    <2>2. \A s : index[s] \subseteq index'[s] \/ s \notin Subjects
      BY <1>1, <2>1 DEF TypeOK
    <2>3. \A k \in Issues : Open(k)' =>
              /\ k \in index'[token'[k].subject]
              /\ \A j \in Jobs :
                    /\ Lists(j, token[k].subject)' => k \in job'[j].refs
                    /\ job'[j].phase = "dropped" => job'[j].subject # token'[k].subject
      <3> SUFFICES ASSUME NEW k \in Issues, Open(k)'
                   PROVE  /\ k \in index'[token'[k].subject]
                          /\ \A j \in Jobs :
                                /\ Lists(j, token[k].subject)' => k \in job'[j].refs
                                /\ job'[j].phase = "dropped" => job'[j].subject # token'[k].subject
        OBVIOUS
      <3>1. CASE k = i
        BY <1>1, <1>3, <2>1, <3>1 DEF Deleting, Lists, TypeOK
      <3>2. CASE k # i
        <4>1. token'[k] = token[k] /\ Open(k) /\ token[k].subject \in Subjects
          BY <1>1, <1>3, <3>2, TokenForms DEF Open
        <4>2. QED  BY <1>3, <2>2, <4>1 DEF ReachInv, Lists
      <3>3. QED  BY <3>1, <3>2
    <2>4. \A k \in due : k \in Issues /\ token'[k] = token[k] /\ (Covered(k) => Covered(k)')
      BY <1>1, <1>3 DEF ReachInv, TypeOK, Covered, Awaits, Lists, UsersWhoSee
    <2>5. QED  BY <1>3, <2>3, <2>4 DEF ReachInv, Lists, Open
  <1>6. QED  BY <1>4, <1>5

\* A step of one job leaves what the others cover.
LEMMA CoveredKept ==
    ASSUME NEW CONSTANT j \in Jobs, NEW CONSTANT i, token'[i].subject = token[i].subject,
           UNCHANGED <<role, grants>>, \A k \in Jobs : k # j => job'[k] = job[k], Covered(i)
    PROVE  \/ Covered(i)'
           \/ Awaits(j, token[i].subject)
           \/ Lists(j, token[i].subject) /\ i \in job[j].refs
  <1>1. PICK k \in Jobs : Awaits(k, token[i].subject)
                          \/ (Lists(k, token[i].subject) /\ i \in job[k].refs)
    BY DEF Covered
  <1>2. CASE k = j
    BY <1>1, <1>2
  <1>3. CASE k # j
    BY <1>1, <1>3 DEF Covered, Awaits, Lists, UsersWhoSee
  <1>4. QED  BY <1>2, <1>3

\* A step of one job keeps the invariant, if it keeps it for that job.
LEMMA JobReach ==
    ASSUME ReachInv, TypeOK', NEW CONSTANT j \in Jobs,
           UNCHANGED <<role, grants, token>>, due \subseteq due', given \subseteq given',
           \A k \in Jobs : k # j => job'[k] = job[k],
           \A i \in due' : token[i].phase = "written",
           \A i \in Issues : Open(i) =>
               /\ i \in index[token[i].subject] => i \in index'[token[i].subject]
               /\ Lists(j, token[i].subject)' => i \in job'[j].refs
               /\ job'[j].phase = "dropped" => job'[j].subject # token[i].subject,
           \A i \in due' : Open(i) =>
               \/ i \in due
                  /\ ~Awaits(j, token[i].subject)
                  /\ ~(Lists(j, token[i].subject) /\ i \in job[j].refs)
               \/ Covered(i)'
               \/ token[i].subject \in given'
    PROVE  ReachInv'
  <1>1. \A i : Open(i)' <=> Open(i)
    BY DEF Open
  <1>2. ASSUME NEW i \in due', Open(i) PROVE Covered(i)' \/ token[i].subject \in given'
    <2>1. CASE /\ i \in due /\ ~Awaits(j, token[i].subject)
               /\ ~(Lists(j, token[i].subject) /\ i \in job[j].refs)
      <3>1. Covered(i) \/ token[i].subject \in given
        BY <1>2, <2>1 DEF ReachInv
      <3>2. QED  BY <2>1, <3>1, CoveredKept
    <2>2. QED  BY <1>2, <2>1
  <1>3. \A i \in Issues : Open(i) =>
            /\ i \in index'[token'[i].subject]
            /\ \A k \in Jobs :
                  /\ Lists(k, token[i].subject)' => i \in job'[k].refs
                  /\ job'[k].phase = "dropped" => job'[k].subject # token'[i].subject
    BY DEF ReachInv, Lists
  <1>4. QED  BY <1>1, <1>2, <1>3 DEF ReachInv, Lists

\* A logout, or a link that is stopped.
LEMMA EndReach ==
    ASSUME AccessAssumption, ReachInv, TypeOK', NEW CONSTANT j \in Jobs,
           \/ \E u \in Users : Logout(j, u)
           \/ \E v \in Units : StopSharing(j, v)
    PROVE  ReachInv'
  <1>1. TypeOK /\ NoJob.phase = "none"
    BY DEF ReachInv, NoJob
  <1>2. PICK s :
            /\ due' = due \cup {i \in Issues : token[i].phase = "written" /\ token[i].subject = s}
            /\ job'[j] # NoJob /\ job'[j].phase = "revoking"
            /\ s \in job'[j].users \cup job'[j].shares
    <2>1. ASSUME NEW u \in Users, Logout(j, u)
          PROVE  /\ job'[j] # NoJob /\ job'[j].phase = "revoking"
                 /\ u \in job'[j].users \cup job'[j].shares
                 /\ due' = due \cup {i \in Issues : token[i].phase = "written" /\ token[i].subject = u}
      <3>1. /\ Revoking({u}, {}) # NoJob /\ Revoking({u}, {}).phase = "revoking"
            /\ u \in Revoking({u}, {}).users \cup Revoking({u}, {}).shares
        BY RevokingForms
      <3>2. job'[j] = Revoking({u}, {})
        BY <1>1, <2>1 DEF Logout, TypeOK
      <3>3. QED  BY <2>1, <3>1, <3>2 DEF Logout
    <2>2. ASSUME NEW v \in Units, StopSharing(j, v)
          PROVE  /\ job'[j] # NoJob /\ job'[j].phase = "revoking"
                 /\ v \in job'[j].users \cup job'[j].shares
                 /\ due' = due \cup {i \in Issues : token[i].phase = "written" /\ token[i].subject = v}
      <3>1. /\ Revoking({}, {v}) # NoJob /\ Revoking({}, {v}).phase = "revoking"
            /\ v \in Revoking({}, {v}).users \cup Revoking({}, {v}).shares
        BY RevokingForms
      <3>2. job'[j] = Revoking({}, {v})
        BY <1>1, <2>2 DEF StopSharing, TypeOK
      <3>3. QED  BY <2>2, <3>1, <3>2 DEF StopSharing
    <2>3. QED  BY <2>1, <2>2
  <1>3. /\ job[j] = NoJob /\ UNCHANGED <<role, grants, token, index, given>>
        /\ \A k \in Jobs : k # j => job'[k] = job[k]
    BY <1>1 DEF Logout, StopSharing, TypeOK, db
  <1>4. \A i : ~Awaits(j, token[i].subject) /\ ~Lists(j, token[i].subject)
    BY <1>1, <1>3 DEF Awaits, Lists
  <1>5. ASSUME NEW i \in due', i \notin due PROVE Covered(i)'
    BY <1>2, <1>3, <1>5, AwaitsAfter
  <1>6. /\ \A i \in due' : token[i].phase = "written"
        /\ \A i : ~(Lists(j, token[i].subject)') /\ job'[j].phase # "dropped"
    BY <1>2, <1>3 DEF ReachInv, Lists
  <1>7. QED  BY <1>2, <1>3, <1>4, <1>5, <1>6, JobReach DEF Lists

\* Finding the readers keeps who was awaited; failing to gives up some.
LEMMA FindReach ==
    ASSUME AccessAssumption, ReachInv, TypeOK', NEW CONSTANT j \in Jobs,
           FindReaders(j) \/ FindReadersFails(j)
    PROVE  ReachInv'
  <1>1. /\ TypeOK /\ NoJob.phase = "none" /\ job[j].phase = "noted"
        /\ job[j].users \subseteq Users /\ job[j].shares \subseteq Units
    BY JobForms DEF ReachInv, NoJob, FindReaders, FindReadersFails
  <1>2. PICK users :
            /\ users \subseteq Users /\ job'[j] = Revoking(users, job[j].shares)
            /\ \A s : Awaits(j, s) => s \in users \cup job[j].shares \cup given'
    <2>1. CASE FindReaders(j)
      <3>1. /\ job[j].users \cup UsersWhoSee(job[j].units) \subseteq Users
            /\ \A s : Awaits(j, s) =>
                  s \in (job[j].users \cup UsersWhoSee(job[j].units)) \cup job[j].shares
        BY <1>1, ReadersAreUsers DEF Awaits
      <3>2. job'[j] = Revoking(job[j].users \cup UsersWhoSee(job[j].units), job[j].shares)
        BY <1>1, <2>1 DEF FindReaders, TypeOK
      <3>3. QED  BY <3>1, <3>2
    <2>2. CASE FindReadersFails(j)
      <3>1. job'[j] = Revoking({}, job[j].shares)
        BY <1>1, <2>2 DEF FindReadersFails, TypeOK
      <3>2. \A s : Awaits(j, s) => s \in {} \cup job[j].shares \cup given'
        BY <2>2 DEF FindReadersFails, Awaits
      <3>3. QED  BY <3>1, <3>2
    <2>3. QED  BY <2>1, <2>2
  <1>3. /\ UNCHANGED <<role, grants, token, index, due>> /\ given \subseteq given'
        /\ \A k \in Jobs : k # j => job'[k] = job[k]
    BY <1>1 DEF FindReaders, FindReadersFails, TypeOK, db, ghosts
  <1>4. /\ job'[j].phase \in {"none", "revoking"}
        /\ \A s \in users \cup job[j].shares :
              job'[j] # NoJob /\ s \in job'[j].users \cup job'[j].shares
    BY <1>1, <1>2, RevokingForms
  <1>5. \A i : ~(Lists(j, token[i].subject)') /\ ~Lists(j, token[i].subject)
    BY <1>1, <1>3, <1>4 DEF Lists
  <1>6. ASSUME NEW i \in due, Awaits(j, token[i].subject)
        PROVE  Covered(i)' \/ token[i].subject \in given'
    BY <1>2, <1>3, <1>4, <1>6, AwaitsAfter
  <1>7. \A i \in due' : token[i].phase = "written"
    BY <1>3 DEF ReachInv
  <1>8. QED  BY <1>3, <1>4, <1>5, <1>6, <1>7, JobReach DEF Lists

\* The list has every open scope of the subject.
LEMMA ListReach ==
    ASSUME AccessAssumption, ReachInv, TypeOK', NEW CONSTANT j \in Jobs,
           NEW CONSTANT s \in Subjects, ListScopes(j, s)
    PROVE  ReachInv'
  <1>1. TypeOK /\ job[j].phase = "revoking" /\ NoJob.phase = "none"
    BY DEF ReachInv, NoJob, ListScopes
  <1>2. /\ job'[j].phase = "listed" /\ job'[j].subject = s /\ job'[j].refs = index[s]
        /\ job'[j].users = job[j].users \ {s} /\ job'[j].shares = job[j].shares \ {s}
    BY <1>1 DEF ListScopes, TypeOK
  <1>3. /\ UNCHANGED <<role, grants, token, index, due, given>>
        /\ \A k \in Jobs : k # j => job'[k] = job[k]
    BY <1>1 DEF ListScopes, TypeOK, db, ghosts
  <1>4. ASSUME NEW i \in due, Open(i), Awaits(j, token[i].subject) PROVE Covered(i)'
    <2>1. i \in index[token[i].subject]
      BY <1>1, <1>4 DEF ReachInv, TypeOK
    <2>2. CASE token[i].subject = s
      BY <1>2, <1>3, <2>1, <2>2 DEF Covered, Lists
    <2>3. CASE token[i].subject # s
      <3>1. token[i].subject \in job'[j].users \cup job'[j].shares /\ job'[j] # NoJob
        BY <1>1, <1>2, <1>4, <2>3 DEF Awaits
      <3>2. QED  BY <1>3, <3>1, AwaitsAfter
    <2>4. QED  BY <2>2, <2>3
  <1>5. \A i : ~Lists(j, token[i].subject)
    BY <1>1 DEF Lists
  <1>6. \A i \in Issues : Open(i) =>
            /\ Lists(j, token[i].subject)' => i \in job'[j].refs
            /\ job'[j].phase = "dropped" => job'[j].subject # token[i].subject
    BY <1>2, <1>3 DEF ReachInv, Lists
  <1>7. \A i \in due' : token[i].phase = "written"
    BY <1>3 DEF ReachInv
  <1>8. QED  BY <1>3, <1>4, <1>5, <1>6, <1>7, JobReach DEF Lists

LEMMA GiveUpReach ==
    ASSUME AccessAssumption, ReachInv, TypeOK', NEW CONSTANT j \in Jobs, GiveUp(j)
    PROVE  ReachInv'
  <1>1. TypeOK /\ NoJob.phase = "none"
    BY DEF ReachInv, NoJob
  <1>2. /\ UNCHANGED <<role, grants, token, index, due>> /\ given \subseteq given'
        /\ \A k \in Jobs : k # j => job'[k] = job[k]
        /\ job'[j].phase = "none"
    BY <1>1 DEF GiveUp, TypeOK, db
  <1>3. ASSUME NEW i \in due, Awaits(j, token[i].subject) \/ Lists(j, token[i].subject)
        PROVE  token[i].subject \in given'
    <2>1. token[i].subject \in Subjects
      BY <1>1, TokenForms DEF ReachInv, TypeOK
    <2>2. QED  BY <1>3, <2>1 DEF GiveUp
  <1>4. /\ \A i \in due' : token[i].phase = "written"
        /\ \A i : ~(Lists(j, token[i].subject)')
    BY <1>2 DEF ReachInv, Lists
  <1>5. QED  BY <1>2, <1>3, <1>4, JobReach DEF Lists

\* Whom a job that has begun with a subject has still to begin with.
LEMMA GoesOn ==
    ASSUME AccessAssumption, TypeOK, NEW CONSTANT j \in Jobs,
           DropScopes(j) \/ DropIndex(j), NEW CONSTANT s, Awaits(j, s)
    PROVE  job'[j] # NoJob /\ s \in job'[j].users \cup job'[j].shares
  <1>1. /\ job[j] # NoJob /\ job[j].phase \in {"listed", "dropped"}
        /\ job[j].users \subseteq Users /\ job[j].shares \subseteq Units
        /\ s \in job[j].users \cup job[j].shares
    BY JobForms DEF Awaits, DropScopes, DropIndex
  <1>2. CASE DropScopes(j)
    <2>1. job'[j] = [job[j] EXCEPT !.phase = "dropped"]
      BY <1>2 DEF DropScopes, TypeOK
    <2>2. job[j] \in [phase : {"listed", "dropped"}, subject : Subjects, refs : SUBSET Issues,
                      users : SUBSET Users, shares : SUBSET Units]
      BY <1>1 DEF TypeOK, Revocations, NoJob
    <2>3. /\ job'[j].users = job[j].users /\ job'[j].shares = job[j].shares
          /\ job'[j].phase = "dropped"
      BY <2>1, <2>2
    <2>4. QED  BY <1>1, <2>3 DEF NoJob
  <1>3. CASE DropIndex(j)
    <2>1. job'[j] = Revoking(job[j].users, job[j].shares)
      BY <1>3 DEF DropIndex, TypeOK
    <2>2. QED  BY <1>1, <2>1, RevokingForms
  <1>4. QED  BY <1>2, <1>3

\* The index goes when no scope of the subject is left.
LEMMA DropIndexReach ==
    ASSUME AccessAssumption, ReachInv, TypeOK', NEW CONSTANT j \in Jobs, DropIndex(j)
    PROVE  ReachInv'
  <1>1. TypeOK /\ job[j].phase = "dropped"
    BY DEF ReachInv, DropIndex
  <1>2. /\ UNCHANGED <<role, grants, token, due, given>>
        /\ \A k \in Jobs : k # j => job'[k] = job[k]
        /\ index' = [index EXCEPT ![job[j].subject] = {}]
    BY <1>1 DEF DropIndex, TypeOK, db, ghosts
  <1>3. job'[j].phase \in {"none", "revoking"}
    <2>1. /\ job'[j] = Revoking(job[j].users, job[j].shares)
          /\ job[j].users \subseteq Users /\ job[j].shares \subseteq Units
      BY <1>1, JobForms DEF DropIndex, TypeOK, NoJob
    <2>2. NoJob.phase = "none"
      BY DEF NoJob
    <2>3. QED  BY <2>1, <2>2, RevokingForms
  <1>4. ASSUME NEW i \in Issues, Open(i)
        PROVE  /\ i \in index[token[i].subject] => i \in index'[token[i].subject]
               /\ ~(Lists(j, token[i].subject)') /\ job'[j].phase # "dropped"
    <2>1. job[j].subject # token[i].subject
      BY <1>1, <1>4 DEF ReachInv
    <2>2. token[i].subject \in Subjects
      BY <1>1, <1>4, TokenForms DEF Open
    <2>3. QED  BY <1>1, <1>2, <1>3, <2>1, <2>2 DEF TypeOK, Lists
  <1>5. ASSUME NEW i \in due, Awaits(j, token[i].subject) PROVE Covered(i)'
    BY <1>1, <1>2, <1>5, GoesOn, AwaitsAfter
  <1>6. /\ \A i \in due' : token[i].phase = "written"
        /\ \A i : ~Lists(j, token[i].subject)
    BY <1>1, <1>2 DEF ReachInv, Lists
  <1>7. QED  BY <1>2, <1>4, <1>5, <1>6, JobReach DEF Lists

\* The scopes of the list were all there were.
LEMMA DropScopesReach ==
    ASSUME AccessAssumption, ReachInv, TypeOK', NEW CONSTANT j \in Jobs, DropScopes(j)
    PROVE  ReachInv'
  <1>1. TypeOK /\ job[j].phase = "listed"
    BY DEF ReachInv, DropScopes
  <1>2. /\ UNCHANGED <<role, grants, index, due, given>>
        /\ \A k \in Jobs : k # j => job'[k] = job[k]
        /\ job'[j] = [job[j] EXCEPT !.phase = "dropped"]
    BY <1>1 DEF DropScopes, TypeOK, db, ghosts
  <1>3. job'[j].phase = "dropped" /\ job'[j].subject = job[j].subject
    <2>1. job[j] \in [phase : {"listed", "dropped"}, subject : Subjects, refs : SUBSET Issues,
                      users : SUBSET Users, shares : SUBSET Units]
      BY <1>1 DEF TypeOK, Revocations, NoJob
    <2>2. QED  BY <1>2, <2>1
  <1>4. ASSUME NEW i \in Issues
        PROVE  /\ token[i].phase = "written" =>
                     token'[i].phase = "written" /\ token'[i].subject = token[i].subject
               /\ Open(i)' => /\ Open(i) /\ token'[i] = token[i]
                              /\ ~(i \in job[j].refs)
    <2>1. CASE i \in job[j].refs /\ token[i].phase = "written"
      <3>1. token[i] \in [phase : {"written"}, subject : Subjects, refs : Refs,
                          scope : BOOLEAN, expires : Nat]
        BY <1>1, <2>1 DEF TypeOK, Tokens, NoToken
      <3>2. token'[i] = [token[i] EXCEPT !.scope = FALSE]
        BY <2>1 DEF DropScopes
      <3>3. /\ token'[i].phase = "written" /\ token'[i].subject = token[i].subject
            /\ token'[i].scope = FALSE
        BY <3>1, <3>2
      <3>4. QED  BY <3>3 DEF Open
    <2>2. CASE ~(i \in job[j].refs /\ token[i].phase = "written")
      <3>1. token'[i] = token[i]
        BY <2>2 DEF DropScopes
      <3>2. QED  BY <2>2, <3>1 DEF Open
    <2>3. QED  BY <2>1, <2>2
  <1>5. ASSUME NEW i \in Issues, Open(i)'
        PROVE  /\ i \in index'[token'[i].subject]
               /\ \A k \in Jobs :
                     /\ Lists(k, token[i].subject)' => i \in job'[k].refs
                     /\ job'[k].phase = "dropped" => job'[k].subject # token'[i].subject
    <2>1. Open(i) /\ token'[i] = token[i] /\ ~(i \in job[j].refs)
      BY <1>4, <1>5
    <2>2. job[j].subject # token[i].subject
      BY <1>1, <2>1 DEF ReachInv, Lists
    <2>3. ASSUME NEW k \in Jobs
          PROVE  /\ Lists(k, token[i].subject)' => i \in job'[k].refs
                 /\ job'[k].phase = "dropped" => job'[k].subject # token'[i].subject
      <3>1. CASE k = j
        BY <1>3, <2>1, <2>2, <3>1 DEF Lists
      <3>2. CASE k # j
        BY <1>2, <2>1, <3>2 DEF ReachInv, Lists
      <3>3. QED  BY <3>1, <3>2
    <2>4. QED  BY <1>2, <2>1, <2>3 DEF ReachInv
  <1>6. ASSUME NEW i \in due', Open(i)' PROVE Covered(i)' \/ token'[i].subject \in given'
    <2>1. i \in Issues /\ i \in due
      BY <1>1, <1>2, <1>6 DEF TypeOK
    <2>2. Open(i) /\ token'[i] = token[i] /\ ~(i \in job[j].refs)
      BY <1>4, <1>6, <2>1
    <2>3. Covered(i) \/ token[i].subject \in given
      BY <2>1, <2>2 DEF ReachInv
    <2>4. ASSUME Awaits(j, token[i].subject) PROVE Covered(i)'
      BY <1>1, <2>2, <2>4, GoesOn, AwaitsAfter
    <2>5. QED  BY <1>2, <2>2, <2>3, <2>4, CoveredKept
  <1>7. \A i \in due' : token'[i].phase = "written"
    BY <1>1, <1>2, <1>4 DEF ReachInv, TypeOK
  <1>8. QED  BY <1>5, <1>6, <1>7 DEF ReachInv, Lists

\* Every commit that narrows notes whom it narrows.
LEMMA NarrowReach ==
    ASSUME AccessAssumption, ReachInv, TypeOK', Narrow
    PROVE  ReachInv'
  <1>1. TypeOK
    BY DEF ReachInv
  <1>2. PICK j \in Jobs :
            \/ \E u \in Users : Demote(j, u) \/ Remove(j, u) \/ Logout(j, u)
            \/ \E u \in Users, v \in Units : RemoveUserFromUnit(j, u, v)
            \/ \E v \in Units, d \in Devices : \E shares \in {{}, {v}} : Unfit(j, v, d, shares)
            \/ \E v \in Units : DeleteUnit(j, v) \/ StopSharing(j, v)
    BY DEF Narrow
  <1>3. ASSUME NEW CONSTANT u \in Users, Narrows(j, {u}, {}, {}), Notices({u}, {})
        PROVE  ReachInv'
    <2>1. Commits({}) /\ \E k \in Jobs : Narrows(k, {u}, {}, {})
      BY <1>3 DEF Narrows
    <2>2. QED  BY <1>3, <2>1, CommitReach
  <1>4. ASSUME NEW CONSTANT v \in Units, NEW CONSTANT shares \in {{}, {v}},
               Narrows(j, {}, {v}, shares), Notices({}, {v})
        PROVE  ReachInv'
    BY <1>4, CommitReach DEF Narrows
  <1>5. ASSUME NEW CONSTANT u \in Users, Demote(j, u) \/ Remove(j, u) PROVE ReachInv'
    <2>1. Narrows(j, {u}, {}, {})
      BY <1>5 DEF Demote, Remove
    <2>2. /\ UNCHANGED <<live, fit>> /\ grants' = grants
          /\ \A w \in Users : w # u => role'[w] = role[w]
      BY <1>1, <1>5 DEF Demote, Remove, TypeOK
    <2>3. Notices({u}, {})
      BY <1>1, <2>2, PersonNoticed
    <2>4. QED  BY <1>3, <2>1, <2>3
  <1>6. ASSUME NEW CONSTANT u \in Users, NEW CONSTANT v \in Units, RemoveUserFromUnit(j, u, v)
        PROVE  ReachInv'
    <2>1. Narrows(j, {u}, {}, {})
      BY <1>6 DEF RemoveUserFromUnit
    <2>2. /\ UNCHANGED <<live, fit>> /\ role' = role
          /\ \A w \in Users : w # u => \A x \in Units : <<w, x>> \in grants => <<w, x>> \in grants'
      BY <1>6 DEF RemoveUserFromUnit
    <2>3. Notices({u}, {})
      BY <1>1, <2>2, PersonNoticed
    <2>4. QED  BY <1>3, <2>1, <2>3
  <1>7. ASSUME NEW CONSTANT v \in Units, NEW CONSTANT d \in Devices,
               NEW CONSTANT shares \in {{}, {v}}, Unfit(j, v, d, shares)
        PROVE  ReachInv'
    <2>1. Narrows(j, {}, {v}, shares)
      BY <1>7 DEF Unfit
    <2>2. /\ UNCHANGED <<role, grants>> /\ live' = live
          /\ \A p \in fit : p[1] # v => p \in fit'
      BY <1>7 DEF Unfit
    <2>3. Notices({}, {v})
      BY <1>1, <2>2, UnitNoticed
    <2>4. QED  BY <1>4, <2>1, <2>3
  <1>8. ASSUME NEW CONSTANT v \in Units, DeleteUnit(j, v) PROVE ReachInv'
    <2>1. Narrows(j, {}, {v}, {})
      BY <1>8 DEF DeleteUnit
    <2>2. /\ UNCHANGED <<role, grants>> /\ fit' = fit
          /\ \A w \in live : w # v => w \in live'
      BY <1>8 DEF DeleteUnit
    <2>3. Notices({}, {v})
      BY <1>1, <2>2, UnitNoticed
    <2>4. QED  BY <1>4, <2>1, <2>3
  <1>9. CASE \/ \E u \in Users : Logout(j, u)
             \/ \E v \in Units : StopSharing(j, v)
    BY <1>9, EndReach
  <1>10. QED  BY <1>2, <1>5, <1>6, <1>7, <1>8, <1>9

LEMMA ReachStep ==
    ASSUME AccessAssumption, Overlap = FALSE, ReachInv, [Next]_vars
    PROVE  ReachInv'
  <1>1. TypeOK /\ TypeOK'
    BY TypeStep DEF ReachInv
  <1>2. CASE Issue
    BY <1>1, <1>2, IssueReach
  <1>3. CASE Widen
    <2>1. Widens
      BY <1>3 DEF Widen, Promote, Join, AssignUserToUnit, FitDevice
    <2>2. Commits({}) /\ job' = job /\ Notices({}, {})
      BY <1>1, <1>3, <2>1, WidensNotice DEF Widens
    <2>3. QED  BY <1>1, <2>2, CommitReach
  <1>4. CASE Narrow
    BY <1>1, <1>4, NarrowReach
  <1>5. CASE Revoke
    BY <1>1, <1>5, FindReach, ListReach, DropScopesReach, DropIndexReach, GiveUpReach DEF Revoke
  <1>6. CASE Tick \/ UNCHANGED vars
    <2>1. UNCHANGED <<role, grants, token, index, job, due, given>>
      BY <1>6 DEF Tick, vars, db, ghosts
    <2>2. \A i : (Open(i)' <=> Open(i)) /\ (Covered(i)' <=> Covered(i))
      BY <2>1 DEF Open, Covered, Awaits, Lists, UsersWhoSee
    <2>3. QED  BY <1>1, <2>1, <2>2 DEF ReachInv, Lists
  <1>7. QED  BY <1>2, <1>3, <1>4, <1>5, <1>6 DEF Next

\* A token due to end that is accepted would be open and covered by nobody.
LEMMA ReachHolds == ASSUME ReachInv PROVE RevocationReaches
  BY DEF ReachInv, RevocationReaches, Accepted, Unexpired, Open

\* A session that shows what its user no longer sees, one that was logged out
\* and a link that was stopped are refused once the revocation that was noted
\* has run, as long as no scope is written in the middle of a revocation of the
\* same subject: revoke_all_for_subject reads the index, deletes the scopes it
\* names and then deletes the index.  With such a write the property is false.
THEOREM RevocationReachesAlone ==
    ASSUME AccessAssumption, Overlap = FALSE
    PROVE  Spec => []RevocationReaches
  BY ReachInit, ReachStep, ReachHolds, PTL DEF Spec

-----------------------------------------------------------------------------
(* Alert rules.                                                            *)

\* A row that was written, and what a request may have read.
Definition ==
    [status : {"active", "inactive"}, type : Definitions.types, config : Definitions.configs, parts : SUBSET Definitions.parts,
     fp : Definitions.types \X Definitions.configs]
Rows == {Rules!NoRow, Rules!Gone} \cup Definition
Patches == [fields : {c \in Rules!Change : Rules!Fits(c)}, replace : BOOLEAN, parts : SUBSET Definitions.parts]
Readings ==
    [phase : {"read"}, key : Rules!Ids, op : {"patch"}, change : Patches, seen : Definition]
    \cup [phase : {"read"}, key : Definitions.rules, op : {"assign", "unassign"},
          change : [parts : SUBSET Definitions.parts], seen : Definition]
    \cup [phase : {"read"}, key : Definitions.geofences, op : {"deactivate"}, change : {<<>>}, seen : Definition]
    \cup [phase : {"read"}, key : Rules!Ids, op : {"delete"}, change : {<<>>}, seen : Definition]
RuleRequests ==
    {Rules!Idle} \cup Readings
    \cup [phase : {"committed"}, key : Rules!Ids, op : {"write", "delete"}]
    \cup [phase : {"built"}, key : Rules!Ids, event : Rows]

RuleTypes ==
    /\ row \in [Rules!Ids -> Rows]
    /\ req \in [Definitions.requests -> RuleRequests]
    /\ last \in [Rules!Ids -> Rows]
    /\ lost \subseteq Rules!Ids /\ mixed \subseteq Rules!Ids

\* A key that was not mixed has one request at a time, which reads what is
\* there.
OnePerKey ==
    \A r, q \in Definitions.requests :
        (req[r] # Rules!Idle /\ req[q] # Rules!Idle /\ req[r].key = req[q].key /\ req[r].key \notin mixed)
        => r = q
SeesTheRow ==
    \A r \in Definitions.requests :
        (req[r].phase = "read" /\ req[r].key \notin mixed) => req[r].seen = row[req[r].key]

\* A rule that was not mixed has the fingerprint of its content, and no two
\* live ones have the same.
Printed ==
    \A k \in Definitions.rules \ mixed :
        row[k] \in Definition => row[k].fp = Rules!Fingerprint(row[k].type, row[k].config)
PrintsDiffer ==
    \A j, k \in Definitions.rules : Rules!Live(j) /\ Rules!Live(k) /\ row[j].fp = row[k].fp => j = k

\* What the topic, or an event, says of a key that was not mixed.
Says(event, k) == IF Rules!Live(k) THEN event = row[k] ELSE event.status # "active"
TopicSays == \A k \in Rules!Ids \ (lost \cup mixed) : Says(last[k], k)
Tells(r) ==
    req[r] # Rules!Idle /\ req[r].key \notin mixed =>
        /\ req[r].phase = "committed" /\ req[r].op = "delete" => ~ Rules!Live(req[r].key)
        /\ req[r].phase = "built" => Says(req[r].event, req[r].key)
EventsSay == \A r \in Definitions.requests : Tells(r)

RuleInv ==
    /\ RuleTypes /\ OnePerKey /\ SeesTheRow /\ Printed /\ PrintsDiffer /\ TopicSays /\ EventsSay

LEMMA RuleInit == Rules!Init => RuleInv
  BY DEF Rules!Init, RuleInv, RuleTypes, Rows, RuleRequests, OnePerKey, SeesTheRow, Printed,
     Definition,
         PrintsDiffer, TopicSays, EventsSay, Tells, Says, Rules!Live, Rules!NoRow, Rules!Idle,
         Rules!Gone, Rules!Ids

LEMMA RequestForms ==
    ASSUME RuleTypes, NEW r \in Definitions.requests
    PROVE  /\ req[r] # Rules!Idle <=> req[r].phase \in {"read", "committed", "built"}
           /\ req[r] # Rules!Idle => req[r].key \in Rules!Ids
           /\ req[r].phase = "read" => req[r] \in Readings /\ req[r].seen \in Definition
           /\ req[r].phase = "committed" => req[r].op \in {"write", "delete"}
           /\ req[r].phase = "built" => req[r].event \in Rows
  BY DEF RuleTypes, RuleRequests, Readings, Rules!Idle, Rules!Ids

LEMMA RuleForms ==
    ASSUME RuleTypes, NEW k \in Rules!Ids
    PROVE  /\ row[k] \in Rows
           /\ row[k] \in Definition <=> row[k] \notin {Rules!NoRow, Rules!Gone}
           /\ row[k] \in Definition <=> row[k].status \in {"active", "inactive"}
           /\ Rules!Live(k) => row[k] \in Definition
  BY DEF RuleTypes, Rows, Definition, Rules!NoRow, Rules!Gone, Rules!Live

\* A request that begins on a key, of which there was none or which is mixed.
LEMMA StartKeeps ==
    ASSUME RuleInv, NEW r \in Definitions.requests, NEW k \in Rules!Ids, Rules!Starts(r, k),
           NEW new \in RuleRequests, new # Rules!Idle, new.key = k,
           req' = [req EXCEPT ![r] = new]
    PROVE  /\ mixed' \subseteq Rules!Ids /\ mixed \subseteq mixed'
           /\ req' \in [Definitions.requests -> RuleRequests]
           /\ OnePerKey'
           /\ k \notin mixed' => \A q \in Definitions.requests : req[q] # Rules!Idle => req[q].key # k
  BY DEF RuleInv, RuleTypes, OnePerKey, Rules!Starts, Rules!Under

LEMMA CreateKeeps ==
    ASSUME RuleInv, NEW r \in Definitions.requests, NEW k \in Rules!Ids,
           NEW t \in Definitions.types, NEW c \in Definitions.configs,
           NEW p \in SUBSET Definitions.parts, Rules!Create(r, k, t, c, p)
    PROVE  RuleInv'
<1> DEFINE new == [status |-> "active", type |-> t, config |-> c, parts |-> p,
                   fp |-> Rules!Fingerprint(t, c)]
           asks == [phase |-> "committed", key |-> k, op |-> "write"]
<1>1. /\ row[k] = Rules!NoRow /\ ~ Rules!Taken(k, Rules!Fingerprint(t, c)) /\ Rules!Starts(r, k)
      /\ row' = [row EXCEPT ![k] = new] /\ req' = [req EXCEPT ![r] = asks]
      /\ lost' = lost \cup {k} /\ last' = last
  BY DEF Rules!Create
<1>2. new \in Definition /\ asks \in RuleRequests /\ asks # Rules!Idle
  BY DEF Definition, Rules!Fingerprint, RuleRequests, Rules!Idle
<1>3. /\ mixed' \subseteq Rules!Ids /\ mixed \subseteq mixed' /\ req' \in [Definitions.requests -> RuleRequests]
      /\ OnePerKey' /\ (k \notin mixed' => \A q \in Definitions.requests : req[q] # Rules!Idle => req[q].key # k)
  <2> HIDE DEF asks
  <2> QED  BY <1>1, <1>2, StartKeeps DEF asks
<1>4. RuleTypes'
  BY <1>1, <1>2, <1>3 DEF RuleInv, RuleTypes, Rows
<1>5. \A j \in Rules!Ids : j # k => row'[j] = row[j]
  BY <1>1 DEF RuleInv, RuleTypes
<1>6. row'[k] = new
  BY <1>1 DEF RuleInv, RuleTypes
<1>7. \A q \in Definitions.requests : q # r => req'[q] = req[q]
  BY <1>1 DEF RuleInv, RuleTypes
<1>8. req'[r] = asks
  BY <1>1 DEF RuleInv, RuleTypes
<1>9. SeesTheRow'
  <2>1. ASSUME NEW q \in Definitions.requests, req'[q].phase = "read", req'[q].key \notin mixed'
        PROVE  req'[q].seen = row'[req'[q].key]
    <3>1. q # r /\ req'[q] = req[q]
      BY <1>7, <1>8, <2>1
    <3>2. req[q] # Rules!Idle /\ req[q].key \in Rules!Ids
      BY <2>1, <3>1, RequestForms DEF RuleInv
    <3>3. req[q].key # k /\ req[q].key \notin mixed
      BY <1>3, <2>1, <3>1, <3>2
    <3>4. QED  BY <1>5, <2>1, <3>1, <3>2, <3>3 DEF RuleInv, SeesTheRow
  <2>2. QED  BY <2>1 DEF SeesTheRow
<1>10. Printed'
  BY <1>3, <1>5, <1>6 DEF RuleInv, Printed, Rules!Ids
<1>11. PrintsDiffer'
  BY <1>1, <1>5, <1>6 DEF RuleInv, PrintsDiffer, Rules!Taken, Rules!Live, Rules!Ids
<1>12. TopicSays'
  BY <1>1, <1>3, <1>5 DEF RuleInv, TopicSays, Says, Rules!Live
<1>13. EventsSay'
  <2>1. ASSUME NEW q \in Definitions.requests, req'[q] # Rules!Idle, req'[q].key \notin mixed'
        PROVE  Tells(q)'
    <3>1. CASE q = r
      BY <1>8, <3>1 DEF Tells
    <3>2. CASE q # r
      <4>1. req'[q] = req[q] /\ req[q].key \in Rules!Ids /\ req[q].key # k /\ req[q].key \notin mixed
        BY <1>3, <1>7, <2>1, <3>2, RequestForms DEF RuleInv
      <4>2. row'[req[q].key] = row[req[q].key]
        BY <1>5, <4>1
      <4>3. QED  BY <1>3, <2>1, <4>1, <4>2 DEF RuleInv, EventsSay, Tells, Says, Rules!Live
    <3>3. QED  BY <3>1, <3>2
  <2>2. QED  BY <2>1 DEF EventsSay, Tells
<1>14. QED  BY <1>3, <1>4, <1>9, <1>10, <1>11, <1>12, <1>13 DEF RuleInv

LEMMA ReadKeeps ==
    ASSUME RuleInv, NEW r \in Definitions.requests, NEW k \in Rules!Ids, NEW op, NEW change,
           Rules!Live(k) => [phase |-> "read", key |-> k, op |-> op, change |-> change, seen |-> row[k]]
                               \in Readings,
           Rules!Read(r, k, op, change)
    PROVE  RuleInv'
<1> DEFINE asks == [phase |-> "read", key |-> k, op |-> op, change |-> change, seen |-> row[k]]
<1>1. Rules!Live(k) /\ Rules!Starts(r, k) /\ req' = [req EXCEPT ![r] = asks] /\ UNCHANGED <<row, last, lost>>
  BY DEF Rules!Read
<1>2. asks \in RuleRequests /\ asks # Rules!Idle
  BY <1>1 DEF RuleRequests, Rules!Idle
<1>3. /\ mixed' \subseteq Rules!Ids /\ mixed \subseteq mixed' /\ req' \in [Definitions.requests -> RuleRequests]
      /\ OnePerKey' /\ (k \notin mixed' => \A q \in Definitions.requests : req[q] # Rules!Idle => req[q].key # k)
  <2> HIDE DEF asks
  <2> QED  BY <1>1, <1>2, StartKeeps DEF asks
<1>4. RuleTypes'
  BY <1>1, <1>3 DEF RuleInv, RuleTypes
<1>5. \A q \in Definitions.requests : req'[q] = IF q = r THEN asks ELSE req[q]
  BY <1>1 DEF RuleInv, RuleTypes
<1>6. SeesTheRow'
  BY <1>1, <1>3, <1>5 DEF RuleInv, SeesTheRow
<1>7. Printed' /\ PrintsDiffer' /\ TopicSays'
  BY <1>1, <1>3 DEF RuleInv, Printed, PrintsDiffer, TopicSays, Says, Rules!Live
<1>8. EventsSay'
  BY <1>1, <1>3, <1>5 DEF RuleInv, EventsSay, Tells, Says, Rules!Live
<1>9. QED  BY <1>3, <1>4, <1>6, <1>7, <1>8 DEF RuleInv

\* What a request reads before it changes anything.
LEMMA AskKeeps ==
    ASSUME RuleInv, NEW r \in Definitions.requests, NEW k \in Rules!Ids,
           \/ Rules!AskPatch(r, k) \/ Rules!AskDeactivate(r, k) \/ Rules!AskDelete(r, k)
           \/ \E p \in SUBSET Definitions.parts \ {{}} : Rules!AskAssign(r, k, p) \/ Rules!AskUnassign(r, k, p)
    PROVE  RuleInv'
<1>1. Rules!Live(k) => row[k] \in Definition
  BY RuleForms DEF RuleInv
<1>2. CASE Rules!AskPatch(r, k)
  <2>1. PICK c \in {x \in Rules!Change : Rules!Fits(x)}, p \in SUBSET Definitions.parts, replace \in BOOLEAN :
            Rules!Read(r, k, "patch", [fields |-> c, replace |-> replace, parts |-> p])
    BY <1>2 DEF Rules!AskPatch
  <2>2. [fields |-> c, replace |-> replace, parts |-> p] \in Patches
    BY DEF Patches
  <2>3. QED  BY <1>1, <2>1, <2>2, ReadKeeps DEF Readings
<1>3. CASE Rules!AskDeactivate(r, k)
  BY <1>1, <1>3, ReadKeeps DEF Rules!AskDeactivate, Readings
<1>4. CASE Rules!AskDelete(r, k)
  BY <1>1, <1>4, ReadKeeps DEF Rules!AskDelete, Readings
<1>5. ASSUME NEW p \in SUBSET Definitions.parts \ {{}}, Rules!AskAssign(r, k, p) PROVE RuleInv'
  BY <1>1, <1>5, ReadKeeps DEF Rules!AskAssign, Readings
<1>6. ASSUME NEW p \in SUBSET Definitions.parts \ {{}}, Rules!AskUnassign(r, k, p) PROVE RuleInv'
  BY <1>1, <1>6, ReadKeeps DEF Rules!AskUnassign, Readings
<1>7. QED  BY <1>2, <1>3, <1>4, <1>5, <1>6

\* What a commit makes of a row.
LEMMA WrittenForms ==
    ASSUME NEW old \in Definition, NEW q \in Readings
    PROVE  /\ Rules!Written(old, q) \in Definition \cup {Rules!Gone}
           /\ q.op = "delete" => Rules!Written(old, q).status # "active"
           /\ Rules!Written(old, q) = Rules!Gone => q.key \in Definitions.rules /\ q.op = "delete"
           /\ (q.seen = old /\ old.fp = Rules!Fingerprint(old.type, old.config)
               /\ Rules!Written(old, q) \in Definition)
              => Rules!Written(old, q).fp = Rules!Fingerprint(Rules!Written(old, q).type, Rules!Written(old, q).config)
<1>1. CASE q.op = "patch"
  <2>1. Rules!Written(old, q) = Rules!Patched(old, q.seen, q.change) /\ q.change \in Patches /\ q.seen \in Definition
    BY <1>1 DEF Rules!Written, Readings
  <2>2. q.change.fields \in {c \in Rules!Change : Rules!Fits(c)} /\ q.change.parts \in SUBSET Definitions.parts
    BY <2>1 DEF Patches
  <2>3. /\ Rules!Given(q.change.fields, "type", old.type) \in Definitions.types
        /\ Rules!Given(q.change.fields, "config", old.config) \in Definitions.configs
        /\ Rules!Given(q.change.fields, "type", q.seen.type) \in Definitions.types
        /\ Rules!Given(q.change.fields, "config", q.seen.config) \in Definitions.configs
    BY <2>1, <2>2 DEF Rules!Given, Rules!Fits, Definition
  <2> DEFINE new == Rules!Patched(old, q.seen, q.change)
  <2>4. /\ new.status = old.status
        /\ new.type = Rules!Given(q.change.fields, "type", old.type)
        /\ new.config = Rules!Given(q.change.fields, "config", old.config)
        /\ new.fp = Rules!Fingerprint(Rules!Given(q.change.fields, "type", q.seen.type),
                                      Rules!Given(q.change.fields, "config", q.seen.config))
        /\ new \in Definition
    BY <2>1, <2>2, <2>3 DEF Rules!Patched, Definition, Rules!Fingerprint
  <2>5. new # Rules!Gone
    BY <2>4 DEF Definition, Rules!Gone
  <2> HIDE DEF new
  <2>6. QED  BY <1>1, <2>1, <2>4, <2>5 DEF new
<1>2. CASE q.op = "assign"
  BY <1>2 DEF Rules!Written, Readings, Definition, Rules!Gone
<1>3. CASE q.op = "unassign"
  BY <1>3 DEF Rules!Written, Readings, Definition, Rules!Gone
<1>4. CASE q.op = "delete" /\ q.key \in Definitions.rules
  BY <1>4 DEF Rules!Written, Rules!Gone, Definition
<1>5. CASE q.op = "deactivate" \/ (q.op = "delete" /\ q.key \notin Definitions.rules)
  <2>1. Rules!Written(old, q) = [old EXCEPT !.status = "inactive"]
    BY <1>5 DEF Rules!Written
  <2>2. QED  BY <1>5, <2>1 DEF Definition, Rules!Gone
<1>6. QED  BY <1>1, <1>2, <1>3, <1>4, <1>5 DEF Readings

LEMMA RuleCommitKeeps == ASSUME RuleInv, NEW r \in Definitions.requests, Rules!Commit(r) PROVE RuleInv'
<1> DEFINE k == req[r].key
           new == Rules!Written(row[k], req[r])
           done == [phase |-> "committed", key |-> k,
                    op |-> IF req[r].op = "delete" THEN "delete" ELSE "write"]
<1>1. /\ req[r].phase = "read" /\ row[k] \notin {Rules!NoRow, Rules!Gone}
      /\ new.status = "active" => ~ Rules!Taken(k, new.fp)
      /\ row' = [row EXCEPT ![k] = new] /\ lost' = lost \cup {k}
      /\ last' = last /\ mixed' = mixed
  BY DEF Rules!Commit
<1>2. req' = [req EXCEPT ![r] = done]
  BY DEF Rules!Commit
<1>3. k \in Rules!Ids /\ req[r] \in Readings /\ row[k] \in Definition /\ req[r] # Rules!Idle
  BY <1>1, RequestForms, RuleForms DEF RuleInv
<1>4. /\ new \in Definition \cup {Rules!Gone} /\ (req[r].op = "delete" => new.status # "active")
      /\ (req[r].seen = row[k] /\ row[k].fp = Rules!Fingerprint(row[k].type, row[k].config)
          /\ new \in Definition) => new.fp = Rules!Fingerprint(new.type, new.config)
  BY <1>3, WrittenForms
<1> HIDE DEF new
<1>5. done \in RuleRequests
  BY <1>3 DEF RuleRequests
<1>6. RuleTypes'
  BY <1>1, <1>2, <1>3, <1>4, <1>5 DEF RuleInv, RuleTypes, Rows
<1>7. \A j \in Rules!Ids : row'[j] = IF j = k THEN new ELSE row[j]
  BY <1>1, <1>3 DEF RuleInv, RuleTypes
<1>8. \A q \in Definitions.requests : req'[q] = IF q = r THEN done ELSE req[q]
  BY <1>2 DEF RuleInv, RuleTypes
<1>9. \A q \in Definitions.requests : q # r /\ req[q] # Rules!Idle /\ req[q].key \notin mixed => req[q].key # k
  BY <1>3 DEF RuleInv, OnePerKey
<1>10. OnePerKey'
  BY <1>1, <1>3, <1>8 DEF RuleInv, OnePerKey
<1>11. SeesTheRow'
  <2>1. ASSUME NEW q \in Definitions.requests, req'[q].phase = "read", req'[q].key \notin mixed
        PROVE  req'[q].seen = row'[req'[q].key]
    <3>1. q # r /\ req'[q] = req[q] /\ req[q] # Rules!Idle /\ req[q].key \in Rules!Ids
      BY <1>8, <2>1, RequestForms DEF RuleInv
    <3>2. QED  BY <1>7, <1>9, <2>1, <3>1 DEF RuleInv, SeesTheRow
  <2>2. QED  BY <1>1, <2>1 DEF SeesTheRow
<1>12. Printed'
  BY <1>1, <1>3, <1>4, <1>7 DEF RuleInv, Printed, SeesTheRow, Rules!Ids
<1>13. PrintsDiffer'
  BY <1>1, <1>3, <1>7 DEF RuleInv, PrintsDiffer, Rules!Taken, Rules!Live, Rules!Ids
<1>14. TopicSays'
  BY <1>1, <1>7 DEF RuleInv, TopicSays, Says, Rules!Live
<1>15. EventsSay'
  <2>1. ASSUME NEW q \in Definitions.requests, req'[q] # Rules!Idle, req'[q].key \notin mixed'
        PROVE  Tells(q)'
    <3>1. CASE q = r
      <4>1. req'[q].key = k /\ req'[q].phase = "committed"
            /\ (req'[q].op = "delete" => req[r].op = "delete")
        BY <1>8, <3>1
      <4>2. row'[k] = new
        BY <1>3, <1>7
      <4>3. req'[q].op = "delete" => ~ (row'[k].status = "active")
        BY <1>4, <4>1, <4>2
      <4>4. req'[q].key = k
        BY <4>1
      <4> HIDE DEF k
      <4>5. QED  BY <4>1, <4>3, <4>4 DEF Tells, Rules!Live
    <3>2. CASE q # r
      <4>1. req'[q] = req[q] /\ req[q].key \in Rules!Ids /\ req[q].key # k
        BY <1>1, <1>8, <1>9, <2>1, <3>2, RequestForms DEF RuleInv
      <4>2. row'[req[q].key] = row[req[q].key]
        BY <1>7, <4>1
      <4>3. QED  BY <1>1, <2>1, <4>1, <4>2 DEF RuleInv, EventsSay, Tells, Says, Rules!Live
    <3>3. QED  BY <3>1, <3>2
  <2>2. QED  BY <1>1, <2>1 DEF EventsSay, Tells
<1>16. QED  BY <1>6, <1>10, <1>11, <1>12, <1>13, <1>14, <1>15 DEF RuleInv

\* A request that ends, or is answered with an error.
LEMMA RuleEndKeeps ==
    ASSUME RuleInv, NEW r \in Definitions.requests, req' = [req EXCEPT ![r] = Rules!Idle],
           UNCHANGED <<row, mixed>>,
           \/ UNCHANGED <<last, lost>>
           \/ /\ req[r].phase = "built"
              /\ last' = [last EXCEPT ![req[r].key] = req[r].event]
              /\ lost' \in {lost, lost \ {req[r].key}}
    PROVE  RuleInv'
<1>1. \A q \in Definitions.requests : req'[q] = IF q = r THEN Rules!Idle ELSE req[q]
  BY DEF RuleInv, RuleTypes
<1>2. Rules!Idle \in RuleRequests /\ Rules!Idle.phase = "idle"
  BY DEF RuleRequests, Rules!Idle
<1>3. req[r].phase = "built" => req[r] # Rules!Idle /\ req[r].key \in Rules!Ids /\ req[r].event \in Rows
  BY RequestForms DEF RuleInv
<1>4. RuleTypes'
  <2>1. req' \in [Definitions.requests -> RuleRequests]
    BY <1>2 DEF RuleInv, RuleTypes
  <2>2. last' \in [Rules!Ids -> Rows] /\ lost' \subseteq Rules!Ids
    BY <1>3 DEF RuleInv, RuleTypes
  <2>3. QED  BY <2>1, <2>2 DEF RuleInv, RuleTypes
<1>5. OnePerKey' /\ SeesTheRow' /\ Printed' /\ PrintsDiffer' /\ EventsSay'
  BY <1>1, <1>2 DEF RuleInv, OnePerKey, SeesTheRow, Printed, PrintsDiffer, EventsSay, Tells,
     Says, Rules!Live
<1>6. TopicSays'
  <2>1. CASE UNCHANGED <<last, lost>>
    BY <2>1 DEF RuleInv, TopicSays, Says, Rules!Live
  <2>2. CASE /\ req[r].phase = "built"
             /\ last' = [last EXCEPT ![req[r].key] = req[r].event]
             /\ lost' \in {lost, lost \ {req[r].key}}
    <3>1. ASSUME NEW k \in Rules!Ids, k \notin lost', k \notin mixed PROVE Says(last'[k], k)
      <4>1. CASE k = req[r].key
        BY <1>3, <2>2, <3>1, <4>1 DEF RuleInv, EventsSay, Tells, RuleTypes
      <4>2. CASE k # req[r].key
        BY <2>2, <3>1, <4>2 DEF RuleInv, TopicSays, RuleTypes
      <4>3. QED  BY <4>1, <4>2
    <3>2. QED  BY <3>1 DEF TopicSays, Says, Rules!Live
  <2>3. QED  BY <2>1, <2>2
<1>7. QED  BY <1>4, <1>5, <1>6 DEF RuleInv

LEMMA RuleBuildKeeps == ASSUME RuleInv, NEW r \in Definitions.requests, Rules!Build(r) PROVE RuleInv'
<1> DEFINE k == req[r].key
           built == [phase |-> "built", key |-> k, event |-> Rules!Event(k, req[r].op)]
<1>1. req[r].phase = "committed" /\ UNCHANGED <<row, last, lost, mixed, writes>>
  BY DEF Rules!Build
<1>2. req[r] # Rules!Idle /\ k \in Rules!Ids /\ req[r].op \in {"write", "delete"}
  BY <1>1, RequestForms DEF RuleInv
<1>3. CASE row[k] = Rules!Gone /\ req[r].op = "write"
  <2>1. req' = [req EXCEPT ![r] = Rules!Idle]
    BY <1>3 DEF Rules!Build
  <2>2. QED  BY <1>1, <2>1, RuleEndKeeps
<1>4. CASE ~ (row[k] = Rules!Gone /\ req[r].op = "write")
  <2>1. req' = [req EXCEPT ![r] = built]
    BY <1>4 DEF Rules!Build
  <2>2. built \in RuleRequests
    BY <1>2, RuleForms DEF RuleInv, Rules!Event, RuleRequests, Rows
  <2>3. \A q \in Definitions.requests : req'[q] = IF q = r THEN built ELSE req[q]
    BY <2>1 DEF RuleInv, RuleTypes
  <2>4. RuleTypes'
    BY <1>1, <2>1, <2>2 DEF RuleInv, RuleTypes
  <2>5. OnePerKey' /\ SeesTheRow' /\ Printed' /\ PrintsDiffer' /\ TopicSays'
    BY <1>1, <1>2, <2>3
    DEF RuleInv, OnePerKey, SeesTheRow, Printed, PrintsDiffer, TopicSays, Says, Rules!Live
  <2>6. k \notin mixed => Says(Rules!Event(k, req[r].op), k)
    <3>1. CASE req[r].op = "delete"
      BY <1>1, <1>2, <3>1 DEF RuleInv, EventsSay, Tells, Says, Rules!Event, Rules!Gone
    <3>2. CASE req[r].op = "write"
      BY <3>2 DEF Says, Rules!Event, Rules!Live
    <3>3. QED  BY <1>2, <3>1, <3>2
  <2>7. EventsSay'
    BY <1>1, <2>3, <2>6 DEF RuleInv, EventsSay, Tells, Says, Rules!Live
  <2>8. QED  BY <2>4, <2>5, <2>7 DEF RuleInv
<1>5. QED  BY <1>3, <1>4

LEMMA RuleStep == ASSUME RuleInv, Rules!Next PROVE RuleInv'
<1>1. PICK r \in Definitions.requests :
        \/ \E k \in Rules!Ids :
              \/ \E t \in Definitions.types, c \in Definitions.configs, p \in SUBSET Definitions.parts : Rules!Create(r, k, t, c, p)
              \/ Rules!AskPatch(r, k) \/ Rules!AskDeactivate(r, k) \/ Rules!AskDelete(r, k)
              \/ \E p \in SUBSET Definitions.parts \ {{}} : Rules!AskAssign(r, k, p) \/ Rules!AskUnassign(r, k, p)
        \/ Rules!Commit(r) \/ Rules!Refused(r) \/ Rules!Build(r)
        \/ Rules!Publish(r) \/ Rules!PublishUnsure(r) \/ Rules!GiveUp(r)
  BY DEF Rules!Next
<1>2. CASE Rules!Refused(r) \/ Rules!GiveUp(r)
  BY <1>2, RuleEndKeeps DEF Rules!Refused, Rules!GiveUp
<1>3. CASE Rules!Publish(r) \/ Rules!PublishUnsure(r)
  BY <1>3, RuleEndKeeps DEF Rules!Publish, Rules!PublishUnsure, Rules!Published
<1>4. QED  BY <1>1, <1>2, <1>3, CreateKeeps, AskKeeps, RuleCommitKeeps, RuleBuildKeeps

LEMMA RuleKeeps == ASSUME RuleInv, UNCHANGED Rules!vars PROVE RuleInv'
  BY DEF Rules!vars, RuleInv, RuleTypes, OnePerKey, SeesTheRow, Printed, PrintsDiffer,
     TopicSays, EventsSay, Tells,
         Says, Rules!Live

LEMMA RuleHolds ==
    ASSUME RuleInv PROVE Rules!FingerprintIsOfContent /\ Rules!NoTwoAlike /\ Rules!TopicFollows
<1>1. \A k \in Definitions.rules : Rules!Live(k) => row[k] \in Definition
  BY RuleForms DEF RuleInv, Rules!Ids
<1>2. Rules!FingerprintIsOfContent /\ Rules!NoTwoAlike
  BY <1>1 DEF RuleInv, Printed, PrintsDiffer, Rules!FingerprintIsOfContent, Rules!NoTwoAlike,
     Rules!Fingerprint
<1>3. Rules!TopicFollows
  BY DEF RuleInv, TopicSays, Says, Rules!TopicFollows
<1>4. QED  BY <1>2, <1>3

-----------------------------------------------------------------------------
(* Orders to devices.                                                      *)

Settled == {"delivered", "failed"}
OrderRows ==
    [status : {"none"} \cup Ordered!Statuses, owner : BOOLEAN, device : Ordering.devices \cup {None},
     unit : Ordering.units \cup {None}, url : BOOLEAN]
Texts == [status : {"none", "queued", "sent"} \cup Settled, sim : Ordering.sims \cup {None}]
Sendings ==
    {Ordered!Idle} \cup [phase : {"created", "accepted", "error"}]
    \cup [phase : {"addressed"}, sim : Ordering.sims]
Askings ==
    {Ordered!Idle} \cup [phase : {"asking"}, order : Ordering.orders, read : {"none"} \cup Ordered!Statuses]
    \cup [phase : {"told"}, order : Ordering.orders, read : {"none"} \cup Ordered!Statuses,
          answer : {"none", "queued", "sent"} \cup Settled]
CardRows == [iccid : Ordering.sims \cup {None}, device : Ordering.devices \cup {None}, profile : Ordering.sims \cup {None}]

OrderTypes ==
    /\ place \in [Ordering.devices -> Ordering.units \cup {None}]
    /\ card \in [Ordering.cards -> CardRows]
    /\ order \in [Ordering.orders -> OrderRows]
    /\ sending \in [Ordering.orders -> Sendings]
    /\ sms \in [Ordering.orders -> Texts]
    /\ asking \in [Ordering.syncs -> Askings]
    /\ obeyed \subseteq Ordering.orders \X (Ordering.devices \cup {None})

\* An order is made once, sent once, and its answer kept once KORE has it.
Progress(c) ==
    /\ order[c].status = "none" => order[c] = Ordered!NoOrder /\ sending[c] = Ordered!Idle
    /\ order[c].status \in {"none", "pending"} <=> ~ order[c].url
    /\ sms[c].status = "none" => sms[c] = Ordered!NoSms
    /\ order[c].status \in Settled => sms[c].status = order[c].status
    /\ order[c].url => sms[c].status # "none" /\ sending[c] = Ordered!Idle
    /\ sending[c].phase \in {"created", "addressed"} => sms[c].status = "none"
    /\ sending[c].phase = "accepted" => sms[c].status # "none"
    /\ order[c].status = "none" => sms[c].status = "none"
    /\ sms[c].status = "none" => \A o \in obeyed : o[1] # c

\* What a sync has read and was told is still so, or is sent.
AskedOf(r) ==
    LET c == asking[r].order IN
    /\ asking[r] # Ordered!Idle =>
          /\ order[c].url
          /\ asking[r].read \in {"sent"} \cup Settled
          /\ asking[r].read \in Settled => sms[c].status = asking[r].read
    /\ asking[r].phase = "told" =>
          /\ asking[r].answer \in {"queued", "sent"} => asking[r].read = "sent"
          /\ asking[r].answer \in Settled => sms[c].status = asking[r].answer
          /\ asking[r].answer # "none"

OrderInv ==
    /\ OrderTypes
    /\ \A c \in Ordering.orders : Progress(c)
    /\ \A r \in Ordering.syncs : AskedOf(r)
    /\ Ordered!OnlyTheNamedObeys

\* The requests on SIMs, and what they have read.
CardLists ==
    {Ordered!Idle} \cup [phase : {"listing"}, sims : Seq(Ordering.sims), began : [Ordering.cards -> CardRows]]
    \cup [phase : {"read"}, found : UNION {[D -> Ordering.cards \cup {None}] : D \in SUBSET Ordering.sims},
          kept : SUBSET Ordering.sims]
CardPatches ==
    {Ordered!Idle} \cup [phase : {"read"}, device : Ordering.devices, card : Ordering.cards \cup {None},
                     iccid : Ordering.sims \cup {None}, kore : Ordering.sims \cup {None}, kept : BOOLEAN]
CardTypes ==
    /\ card \in [Ordering.cards -> CardRows]
    /\ listing \in [Ordering.listings -> CardLists]
    /\ patching \in [Ordering.patches -> CardPatches]

LEMMA OrderInit == Ordered!CommandsAssumption /\ Ordered!Init => OrderInv
<1> SUFFICES ASSUME Ordered!CommandsAssumption, Ordered!Init PROVE OrderInv
  OBVIOUS
<1>1. OrderTypes
  <2>1. card \in [Ordering.cards -> CardRows]
    BY DEF Ordered!Init, CardRows, Ordered!NoCard
  <2>2. QED  BY <2>1 DEF Ordered!Init, OrderTypes, OrderRows, Sendings, Texts, Askings,
                Ordered!NoOrder, Ordered!NoSms, Ordered!Idle
<1>2. \A c \in Ordering.orders : Progress(c)
  BY DEF Ordered!Init, Progress, Ordered!NoOrder, Ordered!NoSms, Ordered!Idle, Settled
<1>3. \A r \in Ordering.syncs : AskedOf(r)
  BY DEF Ordered!Init, AskedOf, Ordered!Idle
<1>4. Ordered!OnlyTheNamedObeys
  BY DEF Ordered!Init, Ordered!OnlyTheNamedObeys
<1>5. QED  BY <1>1, <1>2, <1>3, <1>4 DEF OrderInv

LEMMA OrderForms ==
    ASSUME OrderTypes, NEW c \in Ordering.orders
    PROVE  /\ order[c] \in OrderRows /\ sending[c] \in Sendings /\ sms[c] \in Texts
           /\ sending[c].phase \in {"idle", "created", "addressed", "accepted", "error"}
           /\ sending[c].phase = "idle" <=> sending[c] = Ordered!Idle
           /\ sending[c].phase = "addressed" => sending[c].sim \in Ordering.sims
           /\ order[c].status \in {"none"} \cup Ordered!Statuses /\ order[c].owner \in BOOLEAN
           /\ order[c].url \in BOOLEAN
           /\ sms[c].status \in {"none", "queued", "sent"} \cup Settled
  BY DEF OrderTypes, OrderRows, Sendings, Texts, Ordered!Idle

LEMMA AskingForms ==
    ASSUME OrderTypes, NEW r \in Ordering.syncs
    PROVE  /\ asking[r] \in Askings
           /\ asking[r] # Ordered!Idle <=> asking[r].phase \in {"asking", "told"}
           /\ asking[r] # Ordered!Idle => asking[r].order \in Ordering.orders /\ asking[r].read \in {"none"} \cup Ordered!Statuses
           /\ asking[r].phase = "told" => asking[r].answer \in {"none", "queued", "sent"} \cup Settled
  BY DEF OrderTypes, Askings, Ordered!Idle

\* What staff do with devices and SIMs leaves the orders as they are.
LEMMA OthersKeep ==
    ASSUME OrderInv, UNCHANGED <<order, sending, sms, asking, obeyed>>,
           place' \in [Ordering.devices -> Ordering.units \cup {None}], card' \in [Ordering.cards -> CardRows]
    PROVE  OrderInv'
<1>1. OrderTypes'
  BY DEF OrderInv, OrderTypes
<1>2. (\A c \in Ordering.orders : Progress(c)') /\ (\A r \in Ordering.syncs : AskedOf(r)') /\ Ordered!OnlyTheNamedObeys'
  BY DEF OrderInv, Progress, AskedOf, Ordered!OnlyTheNamedObeys
<1>3. QED  BY <1>1, <1>2 DEF OrderInv

\* A step of the request that creates c.
LEMMA SendingKeeps ==
    ASSUME OrderInv, NEW c \in Ordering.orders, NEW to \in Sendings,
           UNCHANGED <<place, card, order, asking, obeyed>>,
           sending' = [sending EXCEPT ![c] = to],
           order[c].status = "pending",
           \/ /\ sms' = sms
              /\ to.phase \in {"created", "addressed"} => sms[c].status = "none"
              /\ to.phase \in {"idle", "created", "addressed", "error"}
           \/ /\ \E sim \in Ordering.sims : sms' = [sms EXCEPT ![c] = [status |-> "queued", sim |-> sim]]
              /\ sms[c].status = "none"
              /\ to.phase \in {"accepted", "error"}
    PROVE  OrderInv'
<1>1. OrderTypes'
  BY DEF OrderInv, OrderTypes, Texts
<1>2. \A x \in Ordering.orders : x # c => sending'[x] = sending[x] /\ sms'[x] = sms[x]
  BY DEF OrderInv, OrderTypes
<1>3. sending'[c] = to /\ sms'[c].status \in {sms[c].status, "queued"}
      /\ (sms'[c].status = "none" => sms'[c] = sms[c])
  BY DEF OrderInv, OrderTypes
<1>4. ~ order[c].url
  BY DEF OrderInv, Progress
<1>5. \A x \in Ordering.orders : Progress(x)'
  <2>1. ASSUME NEW x \in Ordering.orders, x # c PROVE Progress(x)'
    BY <1>2, <2>1 DEF OrderInv, Progress
  <2>2. Progress(c)'
    BY <1>3, <1>4 DEF OrderInv, OrderTypes, Progress, Settled
  <2>3. QED  BY <2>1, <2>2
<1>6. \A r \in Ordering.syncs : AskedOf(r)'
  <2>1. ASSUME NEW r \in Ordering.syncs PROVE AskedOf(r)'
    <3>1. asking[r] # Ordered!Idle => asking[r].order \in Ordering.orders /\ asking[r].order # c
      BY <1>4, AskingForms DEF OrderInv, AskedOf
    <3>2. asking[r].phase = "told" => asking[r] # Ordered!Idle
      BY DEF Ordered!Idle
    <3>3. QED  BY <1>2, <3>1, <3>2 DEF OrderInv, AskedOf
  <2>2. QED  BY <2>1
<1>7. Ordered!OnlyTheNamedObeys'
  BY DEF OrderInv, Ordered!OnlyTheNamedObeys
<1>8. QED  BY <1>1, <1>5, <1>6, <1>7 DEF OrderInv

LEMMA CreatedKeeps ==
    ASSUME OrderInv, NEW c \in Ordering.orders, NEW d \in Ordering.devices,
           NEW u \in Ordering.units \cup {None},
           Ordered!Created(c, d, u)
    PROVE  OrderInv'
<1> DEFINE new == [status |-> "pending", owner |-> u # None, device |-> d, unit |-> u, url |-> FALSE]
<1>1. /\ order[c] = Ordered!NoOrder /\ order' = [order EXCEPT ![c] = new]
      /\ sending' = [sending EXCEPT ![c] = [phase |-> "created"]]
      /\ UNCHANGED <<place, card, sms, asking, listing, obeyed, moves>>
  BY DEF Ordered!Created
<1>2. order[c].status = "none" /\ ~ order[c].url
  BY <1>1 DEF Ordered!NoOrder
<1>3. OrderTypes'
  BY <1>1 DEF OrderInv, OrderTypes, OrderRows, Sendings, Ordered!Statuses
<1>4. \A x \in Ordering.orders : /\ order'[x] = IF x = c THEN new ELSE order[x]
                                 /\ sending'[x] = IF x = c THEN [phase |-> "created"] ELSE sending[x]
  BY <1>1 DEF OrderInv, OrderTypes
<1>5. \A x \in Ordering.orders : Progress(x)'
  <2>1. ASSUME NEW x \in Ordering.orders, x # c PROVE Progress(x)'
    BY <1>1, <1>4, <2>1 DEF OrderInv, Progress
  <2>2. Progress(c)'
    BY <1>1, <1>2, <1>4 DEF OrderInv, Progress, Settled
  <2>3. QED  BY <2>1, <2>2
<1>6. \A r \in Ordering.syncs : AskedOf(r)'
  <2>1. ASSUME NEW r \in Ordering.syncs PROVE AskedOf(r)'
    <3>1. asking[r] # Ordered!Idle => asking[r].order \in Ordering.orders /\ asking[r].order # c
      BY <1>2, AskingForms DEF OrderInv, AskedOf
    <3>2. asking[r].phase = "told" => asking[r] # Ordered!Idle
      BY DEF Ordered!Idle
    <3>3. QED  BY <1>1, <1>4, <3>1, <3>2 DEF OrderInv, AskedOf
  <2>2. QED  BY <2>1
<1>7. Ordered!OnlyTheNamedObeys'
  <2>1. \A o \in obeyed : o[1] # c /\ o[1] \in Ordering.orders
    BY <1>2 DEF OrderInv, OrderTypes, Progress
  <2>2. QED  BY <1>1, <1>4, <2>1 DEF OrderInv, Ordered!OnlyTheNamedObeys
<1>8. QED  BY <1>3, <1>5, <1>6, <1>7 DEF OrderInv

LEMMA SendingsKeep ==
    ASSUME OrderInv, NEW c \in Ordering.orders,
           Ordered!Address(c) \/ Ordered!SendSms(c) \/ Ordered!SendFails(c)
    PROVE  OrderInv'
<1>1. sending[c].phase \in {"created", "addressed"} /\ sending[c] # Ordered!Idle
  BY DEF Ordered!Address, Ordered!SendSms, Ordered!SendFails, Ordered!Idle
<1>2. order[c].status = "pending" /\ sms[c].status = "none"
  BY <1>1, OrderForms DEF OrderInv, Progress, Ordered!Statuses, Settled
<1>3. CASE Ordered!Address(c)
  <2>1. PICK to : /\ sending' = [sending EXCEPT ![c] = to]
                  /\ \/ to = Ordered!Idle
                     \/ /\ Ordered!SimOf(order[c].device) # {}
                        /\ to = [phase |-> "addressed",
                                 sim |-> CHOOSE s \in Ordered!SimOf(order[c].device) : TRUE]
    BY <1>3 DEF Ordered!Address
  <2>2. Ordered!SimOf(order[c].device) \subseteq Ordering.sims
    BY DEF Ordered!SimOf, OrderInv, OrderTypes, CardRows
  <2>3. to \in Sendings /\ to.phase \in {"idle", "addressed"}
    BY <2>1, <2>2 DEF Sendings, Ordered!Idle
  <2>4. UNCHANGED <<place, card, order, sms, asking, obeyed>>
    BY <1>3 DEF Ordered!Address
  <2>5. QED  BY <1>2, <2>1, <2>3, <2>4, SendingKeeps
<1>4. CASE Ordered!SendSms(c)
  <2>1. sending[c].sim \in Ordering.sims
    BY <1>4, OrderForms DEF Ordered!SendSms, OrderInv
  <2>2. PICK answer \in {"accepted", "error"} : sending' = [sending EXCEPT ![c] = [phase |-> answer]]
    BY <1>4 DEF Ordered!SendSms
  <2>3. /\ sms' = [sms EXCEPT ![c] = [status |-> "queued", sim |-> sending[c].sim]]
        /\ UNCHANGED <<place, card, order, asking, obeyed>>
    BY <1>4 DEF Ordered!SendSms
  <2>4. [phase |-> answer] \in Sendings
    BY DEF Sendings
  <2>5. QED  BY <1>2, <2>1, <2>2, <2>3, <2>4, SendingKeeps
<1>5. CASE Ordered!SendFails(c)
  <2>1. /\ sending' = [sending EXCEPT ![c] = [phase |-> "error"]]
        /\ UNCHANGED <<place, card, order, sms, asking, obeyed>>
    BY <1>5 DEF Ordered!SendFails
  <2>2. [phase |-> "error"] \in Sendings
    BY DEF Sendings
  <2>3. QED  BY <1>2, <2>1, <2>2, SendingKeeps
<1>6. QED  BY <1>3, <1>4, <1>5

\* What the second commit, or a sync, writes in an order: its state, and that
\* KORE's answer was kept.
LEMMA StatusKeeps ==
    ASSUME OrderInv, NEW c \in Ordering.orders, NEW new \in OrderRows,
           order' = [order EXCEPT ![c] = new], order[c].status # "none",
           new.owner = order[c].owner, new.device = order[c].device,
           order[c].url => new.url,
           new.status \in {"none", "pending"} <=> ~ new.url, new.status # "none",
           new.status \in Settled => sms[c].status = new.status,
           new.url => sms[c].status # "none" /\ sending'[c] = Ordered!Idle,
           sending' \in [Ordering.orders -> Sendings], asking' \in [Ordering.syncs -> Askings],
           \A x \in Ordering.orders : sending'[x] \in {sending[x], Ordered!Idle},
           \A r \in Ordering.syncs : asking'[r] \in {asking[r], Ordered!Idle},
           UNCHANGED <<place, card, sms, obeyed>>
    PROVE  OrderInv'
<1>1. OrderTypes'
  BY DEF OrderInv, OrderTypes
<1>2. \A x \in Ordering.orders : order'[x] = IF x = c THEN new ELSE order[x]
  BY DEF OrderInv, OrderTypes
<1>3. \A x \in Ordering.orders : Progress(x)'
  <2>1. ASSUME NEW x \in Ordering.orders, x # c PROVE Progress(x)'
    BY <1>2, <2>1 DEF OrderInv, Progress, Ordered!Idle
  <2>2. Progress(c)'
    BY <1>2 DEF OrderInv, Progress, Ordered!Idle
  <2>3. QED  BY <2>1, <2>2
<1>4. \A r \in Ordering.syncs : AskedOf(r)'
  <2>1. ASSUME NEW r \in Ordering.syncs PROVE AskedOf(r)'
    <3>1. asking[r] # Ordered!Idle => asking[r].order \in Ordering.orders
      BY AskingForms DEF OrderInv
    <3>2. asking[r].phase = "told" => asking[r] # Ordered!Idle
      BY DEF Ordered!Idle
    <3>3. QED  BY <1>2, <3>1, <3>2 DEF OrderInv, AskedOf, Ordered!Idle
  <2>2. QED  BY <2>1
<1>5. Ordered!OnlyTheNamedObeys'
  BY <1>2 DEF OrderInv, Ordered!OnlyTheNamedObeys, OrderTypes
<1>6. QED  BY <1>1, <1>3, <1>4, <1>5 DEF OrderInv

LEMMA RecordKeeps ==
    ASSUME OrderInv, NEW c \in Ordering.orders, Ordered!Record(c)
    PROVE  OrderInv' /\ Ordered!KeepsSettled
<1> DEFINE new == Ordered!Recorded(order[c], sending[c].phase)
<1>1. /\ sending[c].phase \in {"accepted", "error"}
      /\ order' = [order EXCEPT ![c] = new]
      /\ sending' = [sending EXCEPT ![c] = Ordered!Idle]
      /\ UNCHANGED <<place, card, sms, asking, obeyed>>
  BY DEF Ordered!Record
<1>2. sending[c] # Ordered!Idle
  BY <1>1 DEF Ordered!Idle
<1>3. /\ order[c] \in OrderRows /\ order[c].status = "pending" /\ ~ order[c].url
      /\ sending[c].phase = "accepted" => sms[c].status # "none"
  BY <1>2, OrderForms DEF OrderInv, Progress, Ordered!Statuses, Settled
<1>4. /\ new \in OrderRows /\ new.owner = order[c].owner /\ new.device = order[c].device
      /\ new.status \in {"pending", "sent"} /\ (new.url <=> new.status = "sent")
      /\ new.url => sms[c].status # "none"
  BY <1>3 DEF Ordered!Recorded, OrderRows, Ordered!Statuses
<1> HIDE DEF new
<1>5. /\ sending' \in [Ordering.orders -> Sendings] /\ asking' \in [Ordering.syncs -> Askings]
      /\ sending'[c] = Ordered!Idle /\ \A x \in Ordering.orders : sending'[x] \in {sending[x], Ordered!Idle}
  BY <1>1 DEF OrderInv, OrderTypes, Sendings
<1>6. OrderInv'
  BY <1>1, <1>3, <1>4, <1>5, StatusKeeps DEF Settled
<1>7. Ordered!KeepsSettled
  BY <1>1, <1>3, <1>4 DEF Ordered!KeepsSettled, OrderInv, OrderTypes
<1>8. QED  BY <1>6, <1>7

LEMMA SyncKeeps ==
    ASSUME OrderInv, NEW r \in Ordering.syncs, Ordered!SyncSaves(r)
    PROVE  OrderInv' /\ Ordered!KeepsSettled
<1> DEFINE c == asking[r].order
           new == Ordered!Synced(order[c], asking[r])
<1>1. /\ asking[r].phase = "told"
      /\ order' = [order EXCEPT ![c] = new]
      /\ asking' = [asking EXCEPT ![r] = Ordered!Idle]
      /\ UNCHANGED <<place, card, sending, sms, obeyed>>
  BY DEF Ordered!SyncSaves
<1>2. asking[r] # Ordered!Idle /\ c \in Ordering.orders /\ asking[r].answer \in {"none", "queued", "sent"} \cup Settled
  BY <1>1, AskingForms DEF OrderInv
<1>3. /\ order[c].url /\ asking[r].read \in {"sent"} \cup Settled
      /\ asking[r].answer \in {"queued", "sent"} => asking[r].read = "sent"
      /\ asking[r].answer \in Settled => sms[c].status = asking[r].answer
      /\ asking[r].answer # "none"
  BY <1>1, <1>2 DEF OrderInv, AskedOf
<1>4. /\ order[c] \in OrderRows /\ order[c].status \notin {"none", "pending"}
      /\ order[c].status \in Settled => sms[c].status = order[c].status
      /\ sms[c].status # "none" /\ sending[c] = Ordered!Idle
  BY <1>2, <1>3, OrderForms DEF OrderInv, Progress
<1>5. /\ new \in OrderRows /\ new.owner = order[c].owner /\ new.device = order[c].device
      /\ new.url = order[c].url
      /\ new.status \in Settled => sms[c].status = new.status
      /\ new.status \notin {"none", "pending"}
      /\ order[c].status \in Settled => new.status = order[c].status
  BY <1>2, <1>3, <1>4 DEF Ordered!Synced, OrderRows, Ordered!Statuses, Settled
<1> HIDE DEF new
<1>6. /\ sending' \in [Ordering.orders -> Sendings] /\ asking' \in [Ordering.syncs -> Askings]
      /\ \A x \in Ordering.syncs : asking'[x] \in {asking[x], Ordered!Idle}
  BY <1>1 DEF OrderInv, OrderTypes, Askings
<1>7. OrderInv'
  BY <1>1, <1>2, <1>3, <1>4, <1>5, <1>6, StatusKeeps
<1>8. Ordered!KeepsSettled
  BY <1>1, <1>2, <1>5 DEF Ordered!KeepsSettled, OrderInv, OrderTypes, Settled
<1>9. QED  BY <1>7, <1>8

LEMMA CrashKeeps == ASSUME OrderInv, Ordered!Crash PROVE OrderInv'
<1>1. OrderTypes'
  BY DEF Ordered!Crash, OrderInv, OrderTypes, Sendings, Askings
<1>2. (\A c \in Ordering.orders : Progress(c)') /\ (\A r \in Ordering.syncs : AskedOf(r)') /\ Ordered!OnlyTheNamedObeys'
  BY DEF Ordered!Crash, OrderInv, Progress, AskedOf, Ordered!OnlyTheNamedObeys, Ordered!Idle
<1>3. QED  BY <1>1, <1>2 DEF OrderInv

LEMMA KoreKeeps == ASSUME OrderInv, NEW c \in Ordering.orders, Ordered!KoreMoves(c) PROVE OrderInv'
<1>1. UNCHANGED <<place, card, order, sending, asking>>
  BY DEF Ordered!KoreMoves
<1>2. PICK s \in {"sent", "delivered", "failed"} :
          /\ sms' = [sms EXCEPT ![c].status = s]
          /\ sms[c].status = IF s = "sent" THEN "queued" ELSE "sent"
  BY DEF Ordered!KoreMoves
<1>3. \A o \in obeyed' : o \in obeyed \/ (o[1] = c /\ o[2] \in Ordered!PayloadFor(c) /\ o = <<c, o[2]>>
                                          /\ \E a \in Ordering.cards : o[2] = card[a].device)
  <2>1. \/ obeyed' = obeyed
        \/ obeyed' = obeyed \cup {<<c, card[a].device>> :
                        a \in {x \in Ordering.cards : /\ card[x].iccid = sms[c].sim
                                                      /\ card[x].device \in Ordered!PayloadFor(c)}}
    BY DEF Ordered!KoreMoves
  <2>2. QED  BY <2>1
<1>4. \A x \in Ordering.orders : sms'[x] = IF x = c THEN [sms[c] EXCEPT !.status = s] ELSE sms[x]
  BY <1>2 DEF OrderInv, OrderTypes
<1>5. sms'[c].status = s /\ sms'[c] \in Texts
  BY <1>4, OrderForms DEF OrderInv, Texts, Settled
<1>6. OrderTypes'
  <2>1. obeyed' \subseteq Ordering.orders \X (Ordering.devices \cup {None})
    BY <1>3 DEF OrderInv, OrderTypes, CardRows
  <2>2. sms' \in [Ordering.orders -> Texts]
    BY <1>2, <1>4, <1>5 DEF OrderInv, OrderTypes
  <2>3. QED  BY <1>1, <2>1, <2>2 DEF OrderInv, OrderTypes
<1>7. \A x \in Ordering.orders : Progress(x)'
  <2>1. ASSUME NEW x \in Ordering.orders, x # c PROVE Progress(x)'
    BY <1>1, <1>3, <1>4, <2>1 DEF OrderInv, Progress
  <2>2. Progress(c)'
    <3>1. Progress(c)
      BY DEF OrderInv
    <3>2. QED  BY <1>1, <1>2, <1>5, <3>1 DEF Progress, Settled
  <2>3. QED  BY <2>1, <2>2
<1>8. \A r \in Ordering.syncs : AskedOf(r)'
  <2>1. ASSUME NEW r \in Ordering.syncs PROVE AskedOf(r)'
    <3>1. AskedOf(r) /\ (asking[r] # Ordered!Idle => asking[r].order \in Ordering.orders)
      BY AskingForms DEF OrderInv
    <3>2. asking[r].phase = "told" => asking[r] # Ordered!Idle
      BY DEF Ordered!Idle
    <3>3. QED  BY <1>1, <1>2, <1>4, <3>1, <3>2 DEF AskedOf, Settled
  <2>2. QED  BY <2>1
<1>9. Ordered!OnlyTheNamedObeys'
  BY <1>1, <1>3 DEF OrderInv, Ordered!OnlyTheNamedObeys, Ordered!PayloadFor
<1>10. QED  BY <1>6, <1>7, <1>8, <1>9 DEF OrderInv

LEMMA AskingsKeep ==
    ASSUME OrderInv, NEW r \in Ordering.syncs,
           \/ \E c \in Ordering.orders : Ordered!SyncCommand(r, c) \/ Ordered!SyncUserCommand(r, c)
           \/ Ordered!KoreTells(r) \/ Ordered!KoreTellsNothing(r)
    PROVE  OrderInv'
<1>1. UNCHANGED <<place, card, order, sending, sms, obeyed>>
  BY DEF Ordered!SyncCommand, Ordered!SyncUserCommand, Ordered!Asks, Ordered!KoreTells,
     Ordered!KoreTellsNothing
<1>2. PICK new : asking' = [asking EXCEPT ![r] = new] /\
          \/ new = Ordered!Idle
          \/ \E c \in Ordering.orders : order[c].url /\ new = [phase |-> "asking", order |-> c,
                                                               read |-> order[c].status]
          \/ /\ asking[r].phase = "asking"
             /\ new = [phase |-> "told", order |-> asking[r].order, read |-> asking[r].read,
                       answer |-> sms[asking[r].order].status]
  BY DEF Ordered!SyncCommand, Ordered!SyncUserCommand, Ordered!Asks, Ordered!KoreTells,
     Ordered!KoreTellsNothing
<1>3. new \in Askings /\ (\A q \in Ordering.syncs : asking'[q] = IF q = r THEN new ELSE asking[q])
  <2>1. asking[r].phase = "asking" => asking[r].order \in Ordering.orders /\ asking[r].read \in {"none"} \cup Ordered!Statuses
    BY AskingForms DEF OrderInv
  <2>2. \A c \in Ordering.orders : /\ sms[c].status \in {"none", "queued", "sent"} \cup Settled
                                   /\ order[c].status \in {"none"} \cup Ordered!Statuses
    BY OrderForms DEF OrderInv
  <2>3. new \in Askings
    BY <1>2, <2>1, <2>2 DEF Askings
  <2>4. QED  BY <1>2, <2>3 DEF OrderInv, OrderTypes
<1>4. OrderTypes'
  BY <1>1, <1>2, <1>3 DEF OrderInv, OrderTypes
<1>5. (\A x \in Ordering.orders : Progress(x)') /\ Ordered!OnlyTheNamedObeys'
  BY <1>1 DEF OrderInv, Progress, Ordered!OnlyTheNamedObeys
<1>6. \A q \in Ordering.syncs : AskedOf(q)'
  <2>1. ASSUME NEW q \in Ordering.syncs, q # r PROVE AskedOf(q)'
    BY <1>1, <1>3, <2>1 DEF OrderInv, AskedOf
  <2>2. AskedOf(r)'
    <3>1. asking'[r] = new
      BY <1>3
    <3>2. CASE new = Ordered!Idle
      BY <3>1, <3>2 DEF AskedOf, Ordered!Idle
    <3>3. ASSUME NEW c \in Ordering.orders, order[c].url,
                 new = [phase |-> "asking", order |-> c, read |-> order[c].status]
          PROVE  AskedOf(r)'
      <4>1. order[c].status \in {"sent"} \cup Settled
            /\ (order[c].status \in Settled => sms[c].status = order[c].status)
        BY <3>3, OrderForms DEF OrderInv, Progress, Ordered!Statuses, Settled
      <4>2. QED  BY <1>1, <3>1, <3>3, <4>1 DEF AskedOf
    <3>4. CASE /\ asking[r].phase = "asking"
               /\ new = [phase |-> "told", order |-> asking[r].order, read |-> asking[r].read,
                         answer |-> sms[asking[r].order].status]
      <4>1. AskedOf(r) /\ asking[r] # Ordered!Idle /\ asking[r].order \in Ordering.orders
        BY <3>4, AskingForms DEF OrderInv
      <4>2. sms[asking[r].order].status # "none"
        BY <4>1 DEF OrderInv, AskedOf, Progress
      <4>3. QED  BY <1>1, <3>1, <3>4, <4>1, <4>2 DEF AskedOf, Settled
    <3>5. QED  BY <1>2, <3>2, <3>3, <3>4
  <2>3. QED  BY <2>1, <2>2
<1>7. QED  BY <1>4, <1>5, <1>6 DEF OrderInv

LEMMA ListedAreSims ==
    ASSUME CardTypes, NEW r \in Ordering.listings
    PROVE  /\ listing[r] \in CardLists
           /\ listing[r].phase \in {"idle", "listing", "read"}
           /\ listing[r].phase = "listing" =>
                 /\ listing[r] \in [phase : {"listing"}, sims : Seq(Ordering.sims), began : [Ordering.cards -> CardRows]]
                 /\ Ordered!Listed(r) \subseteq Ordering.sims
           /\ listing[r].phase = "read" =>
                 /\ DOMAIN listing[r].found \subseteq Ordering.sims
                 /\ \A s \in DOMAIN listing[r].found : listing[r].found[s] \in Ordering.cards \cup {None}
<1>1. listing[r] \in CardLists
  BY DEF CardTypes
<1>2. CASE listing[r] = Ordered!Idle
  BY <1>1, <1>2 DEF Ordered!Idle
<1>3. CASE listing[r] \in [phase : {"listing"}, sims : Seq(Ordering.sims), began : [Ordering.cards -> CardRows]]
  <2>1. listing[r].sims \in Seq(Ordering.sims)
    BY <1>3
  <2>2. QED  BY <1>1, <1>3, <2>1 DEF Ordered!Listed
<1>4. CASE listing[r] \in [phase : {"read"}, found : UNION {[D -> Ordering.cards \cup {None}] : D \in SUBSET Ordering.sims},
                            kept : SUBSET Ordering.sims]
  <2>1. PICK D \in SUBSET Ordering.sims : listing[r].found \in [D -> Ordering.cards \cup {None}]
    BY <1>4
  <2>2. listing[r].phase = "read" /\ DOMAIN listing[r].found = D
    BY <1>4, <2>1
  <2>3. QED  BY <1>1, <2>1, <2>2
<1>5. QED  BY <1>1, <1>2, <1>3, <1>4 DEF CardLists

\* The requests that list SIMs or write them, and the cards, hold what they may.
LEMMA CardTypesKeep ==
    ASSUME CardTypes, Ordered!Next PROVE CardTypes'
<1>1. CASE UNCHANGED <<card, listing, patching>>
  BY <1>1 DEF CardTypes
<1>2. CASE Ordered!Crash
  BY <1>2 DEF CardTypes, Ordered!Crash, CardLists, CardPatches
<1>3. ASSUME NEW a \in Ordering.cards, NEW d \in Ordering.devices, Ordered!AssignSim(a, d) PROVE CardTypes'
  BY <1>3 DEF CardTypes, Ordered!AssignSim, CardRows
<1>4. ASSUME NEW a \in Ordering.cards, Ordered!UnassignSim(a) PROVE CardTypes'
  BY <1>4 DEF CardTypes, Ordered!UnassignSim, CardRows
<1>5. ASSUME NEW r \in Ordering.listings, NEW new \in CardLists,
             listing' = [listing EXCEPT ![r] = new], UNCHANGED <<card, patching>>
      PROVE  CardTypes'
  BY <1>5 DEF CardTypes
<1>6. ASSUME NEW r \in Ordering.listings, Ordered!ListSims(r) \/ Ordered!ListFails(r) PROVE CardTypes'
  <2>1. <<>> \in Seq(Ordering.sims) /\ card \in [Ordering.cards -> CardRows]
    BY DEF CardTypes
  <2>2. Ordered!Idle \in CardLists /\ [phase |-> "listing", sims |-> <<>>, began |-> card] \in CardLists
    BY <2>1 DEF CardLists
  <2>3. QED  BY <1>5, <1>6, <2>2 DEF Ordered!ListSims, Ordered!ListFails
<1>7. ASSUME NEW r \in Ordering.listings, NEW s \in Ordering.sims, Ordered!NextPage(r, s) PROVE CardTypes'
  <2>1. /\ listing[r].phase = "listing" /\ UNCHANGED <<card, patching>>
        /\ listing' = [listing EXCEPT ![r] = [listing[r] EXCEPT !.sims = Append(listing[r].sims, s)]]
    BY <1>7 DEF Ordered!NextPage
  <2>2. listing[r] \in [phase : {"listing"}, sims : Seq(Ordering.sims), began : [Ordering.cards -> CardRows]]
    BY <2>1, ListedAreSims
  <2>3. Append(listing[r].sims, s) \in Seq(Ordering.sims)
    <3>1. listing[r].sims \in Seq(Ordering.sims)
      BY <2>2
    <3>2. QED  BY <3>1, AppendProperties
  <2>4. [listing[r] EXCEPT !.sims = Append(listing[r].sims, s)]
            \in [phase : {"listing"}, sims : Seq(Ordering.sims), began : [Ordering.cards -> CardRows]]
    BY <2>2, <2>3
  <2>5. QED  BY <1>5, <2>1, <2>4 DEF CardLists
<1>8. ASSUME NEW r \in Ordering.listings, Ordered!ReadCards(r) PROVE CardTypes'
  <2>1. PICK found \in [Ordered!Listed(r) -> Ordering.cards \cup {None}] :
            listing' = [listing EXCEPT ![r] =
                [phase |-> "read", found |-> found,
                 kept |-> {s \in Ordered!Listed(r) : found[s] # None /\ card[found[s]].profile = s}]]
    BY <1>8 DEF Ordered!ReadCards
  <2>2. Ordered!Listed(r) \subseteq Ordering.sims
    BY <1>8, ListedAreSims DEF Ordered!ReadCards
  <2>3. found \in UNION {[D -> Ordering.cards \cup {None}] : D \in SUBSET Ordering.sims}
    BY <2>2
  <2>4. {s \in Ordered!Listed(r) : found[s] # None /\ card[found[s]].profile = s} \in SUBSET Ordering.sims
    BY <2>2
  <2>5. [phase |-> "read", found |-> found,
         kept |-> {s \in Ordered!Listed(r) : found[s] # None /\ card[found[s]].profile = s}]
            \in [phase : {"read"}, found : UNION {[D -> Ordering.cards \cup {None}] : D \in SUBSET Ordering.sims},
                 kept : SUBSET Ordering.sims]
    BY <2>3, <2>4
  <2>6. QED  BY <1>5, <1>8, <2>1, <2>5 DEF Ordered!ReadCards, CardLists
<1>9. ASSUME NEW r \in Ordering.listings, Ordered!SaveSims(r) PROVE CardTypes'
  <2> DEFINE found == listing[r].found
             listed == DOMAIN found
  <2>1. listed \subseteq Ordering.sims
    BY <1>9, ListedAreSims DEF Ordered!SaveSims
  <2>2. PICK at \in [listed -> Ordering.cards], written \in SUBSET listed :
            card' = [a \in Ordering.cards |->
                IF \A s \in listed : at[s] # a THEN card[a]
                ELSE LET s == CHOOSE z \in listed : at[z] = a
                     IN  [iccid |-> IF found[s] = None THEN s ELSE card[a].iccid,
                          device |-> card[a].device,
                          profile |-> IF s \in written THEN s ELSE card[a].profile]]
    BY <1>9 DEF Ordered!SaveSims
  <2>3. ASSUME NEW a \in Ordering.cards PROVE card'[a] \in CardRows
    <3>1. card[a] \in CardRows
      BY DEF CardTypes
    <3>2. CASE \A s \in listed : at[s] # a
      BY <2>2, <3>1, <3>2
    <3>3. ASSUME NEW z \in listed, at[z] = a PROVE card'[a] \in CardRows
      <4>1. PICK s \in listed : card'[a] = [iccid |-> IF found[s] = None THEN s ELSE card[a].iccid,
                                            device |-> card[a].device,
                                            profile |-> IF s \in written THEN s ELSE card[a].profile]
        BY <2>2, <3>3
      <4>2. QED  BY <2>1, <3>1, <4>1 DEF CardRows
    <3>4. QED  BY <3>2, <3>3
  <2>4. card' \in [Ordering.cards -> CardRows]
    BY <2>2, <2>3
  <2>5. listing' \in [Ordering.listings -> CardLists] /\ UNCHANGED patching
    BY <1>9 DEF CardTypes, Ordered!SaveSims, CardLists
  <2>6. QED  BY <2>4, <2>5 DEF CardTypes
<1>10. ASSUME NEW q \in Ordering.patches, NEW d \in Ordering.devices, NEW s \in Ordering.sims \cup {None},
              NEW k \in Ordering.sims \cup {None}, Ordered!ReadSim(q, d, s, k)
       PROVE  CardTypes'
  <2>1. PICK a \in Ordering.cards \cup {None} :
            patching' = [patching EXCEPT ![q] =
                [phase |-> "read", device |-> d, card |-> a, kore |-> k,
                 iccid |-> IF a # None /\ card[a].iccid = s THEN None ELSE s,
                 kept |-> a # None /\ card[a].profile = k]]
    BY <1>10 DEF Ordered!ReadSim
  <2> DEFINE new == [phase |-> "read", device |-> d, card |-> a, kore |-> k,
                     iccid |-> IF a # None /\ card[a].iccid = s THEN None ELSE s,
                     kept |-> a # None /\ card[a].profile = k]
  <2>2. (a # None /\ card[a].profile = k) \in BOOLEAN /\ (IF a # None /\ card[a].iccid = s THEN None ELSE s) \in Ordering.sims \cup {None}
    OBVIOUS
  <2>3. new \in CardPatches
    BY <2>2 DEF CardPatches
  <2>4. QED  BY <1>10, <2>1, <2>3 DEF CardTypes, Ordered!ReadSim
<1>11. ASSUME NEW q \in Ordering.patches, Ordered!PatchFails(q) PROVE CardTypes'
  BY <1>11 DEF CardTypes, Ordered!PatchFails, CardPatches
<1>12. ASSUME NEW q \in Ordering.patches, Ordered!UpdateSim(q) PROVE CardTypes'
  <2>1. /\ patching[q] \in CardPatches /\ patching[q].phase = "read"
        /\ patching' = [patching EXCEPT ![q] = Ordered!Idle] /\ UNCHANGED listing
    BY <1>12 DEF CardTypes, Ordered!UpdateSim
  <2>2. patching[q] \in [phase : {"read"}, device : Ordering.devices, card : Ordering.cards \cup {None},
                         iccid : Ordering.sims \cup {None}, kore : Ordering.sims \cup {None}, kept : BOOLEAN]
    BY <2>1 DEF CardPatches, Ordered!Idle
  <2>3. PICK a \in Ordering.cards : \E new \in Ordered!Patched(patching[q], card[a]) : card' = [card EXCEPT ![a] = new]
    BY <1>12 DEF Ordered!UpdateSim
  <2>4. card[a] \in CardRows
    BY DEF CardTypes
  <2>5. PICK new \in CardRows : card' = [card EXCEPT ![a] = new]
    <3>1. Ordered!Patched(patching[q], card[a]) \subseteq CardRows
      BY <2>2, <2>4 DEF Ordered!Patched, CardRows
    <3>2. QED  BY <2>3, <3>1
  <2>6. card' \in [Ordering.cards -> CardRows] /\ patching' \in [Ordering.patches -> CardPatches]
    BY <2>1, <2>5 DEF CardTypes, CardPatches
  <2>7. QED  BY <2>1, <2>6 DEF CardTypes
<1>13. CASE Ordered!Loop
  BY <1>13, <1>1, <1>6, <1>7, <1>8
  DEF Ordered!Loop, Ordered!CreateUserCommand, Ordered!CreateCommand, Ordered!Created, Ordered!Address, Ordered!Record,
      Ordered!SyncCommand, Ordered!SyncUserCommand, Ordered!Asks, Ordered!SyncSaves
<1>14. CASE Ordered!Others
  BY <1>14, <1>1, <1>2, <1>3, <1>4, <1>6, <1>9, <1>10, <1>11
  DEF Ordered!Others, Ordered!SendSms, Ordered!SendFails, Ordered!KoreMoves, Ordered!KoreTells, Ordered!KoreTellsNothing, Ordered!Refit
<1>15. QED  BY <1>12, <1>13, <1>14 DEF Ordered!Next

\* Every step of requests, of KORE and of staff.
LEMMA OrderStep ==
    ASSUME OrderInv, CardTypes, Ordered!Next PROVE OrderInv' /\ CardTypes' /\ Ordered!KeepsSettled
<1>1. CardTypes'
  BY CardTypesKeep
<1>2. card' \in [Ordering.cards -> CardRows]
  BY <1>1 DEF CardTypes
<1>3. \/ Ordered!KeepsSettled
      \/ \E c \in Ordering.orders : Ordered!Record(c) \/ \E d \in Ordering.devices, u \in Ordering.units \cup {None} : Ordered!Created(c, d, u)
      \/ \E r \in Ordering.syncs : Ordered!SyncSaves(r)
  <2>1. CASE UNCHANGED order
    BY <2>1 DEF Ordered!KeepsSettled
  <2>2. CASE Ordered!Loop
    BY <2>1, <2>2 DEF Ordered!Loop, Ordered!CreateUserCommand, Ordered!CreateCommand, Ordered!Address,
       Ordered!SyncCommand, Ordered!SyncUserCommand, Ordered!Asks, Ordered!ListSims, Ordered!NextPage,
       Ordered!ReadCards
  <2>3. CASE Ordered!Others
    BY <2>1, <2>3 DEF Ordered!Others, Ordered!SendSms, Ordered!SendFails, Ordered!KoreMoves, Ordered!KoreTells,
       Ordered!KoreTellsNothing, Ordered!Refit, Ordered!Crash, Ordered!ListFails, Ordered!SaveSims,
       Ordered!AssignSim, Ordered!UnassignSim, Ordered!ReadSim, Ordered!PatchFails
  <2>4. QED  BY <2>1, <2>2, <2>3 DEF Ordered!Next, Ordered!UpdateSim
<1>4. Ordered!KeepsSettled
  <2>1. ASSUME NEW c \in Ordering.orders, NEW d \in Ordering.devices,
               NEW u \in Ordering.units \cup {None}, Ordered!Created(c, d, u)
        PROVE  Ordered!KeepsSettled
    BY <2>1 DEF Ordered!Created, Ordered!KeepsSettled, Ordered!NoOrder, OrderInv, OrderTypes
  <2>2. QED  BY <1>3, <2>1, SyncKeeps, RecordKeeps
<1>5. OrderInv'
  <2>1. ASSUME NEW c \in Ordering.orders, NEW u \in Ordering.units, Ordered!CreateUserCommand(c, u) PROVE OrderInv'
    BY <2>1, CreatedKeeps DEF Ordered!CreateUserCommand
  <2>2. ASSUME NEW c \in Ordering.orders, NEW d \in Ordering.devices, Ordered!CreateCommand(c, d) PROVE OrderInv'
    BY <2>2, CreatedKeeps DEF Ordered!CreateCommand
  <2>3. ASSUME \/ \E d \in Ordering.devices, u \in Ordering.units : Ordered!Refit(d, u)
               \/ \E a \in Ordering.cards : Ordered!UnassignSim(a) \/ \E d \in Ordering.devices : Ordered!AssignSim(a, d)
               \/ \E r \in Ordering.listings : \/ Ordered!ListSims(r) \/ Ordered!ListFails(r) \/ Ordered!ReadCards(r)
                                             \/ Ordered!SaveSims(r) \/ \E s \in Ordering.sims : Ordered!NextPage(r, s)
               \/ \E q \in Ordering.patches : \/ Ordered!UpdateSim(q) \/ Ordered!PatchFails(q)
                                            \/ \E d \in Ordering.devices, s, k \in Ordering.sims \cup {None} : Ordered!ReadSim(q, d, s, k)
        PROVE  OrderInv'
    <3>1. UNCHANGED <<order, sending, sms, asking, obeyed>>
      BY <2>3 DEF Ordered!Refit, Ordered!UnassignSim, Ordered!AssignSim, Ordered!ListSims, Ordered!ReadCards,
         Ordered!ListFails, Ordered!SaveSims, Ordered!NextPage, Ordered!UpdateSim, Ordered!PatchFails, Ordered!ReadSim
    <3>2. place' \in [Ordering.devices -> Ordering.units \cup {None}]
      BY <2>3 DEF OrderInv, OrderTypes, Ordered!Refit, Ordered!UnassignSim, Ordered!AssignSim,
         Ordered!ListSims, Ordered!ListFails, Ordered!ReadCards, Ordered!SaveSims, Ordered!NextPage,
         Ordered!UpdateSim, Ordered!PatchFails, Ordered!ReadSim
    <3>3. QED  BY <1>2, <3>1, <3>2, OthersKeep
  <2>4. CASE Ordered!Loop
    BY <2>1, <2>2, <2>3, <2>4, SendingsKeep, RecordKeeps, SyncKeeps, AskingsKeep DEF Ordered!Loop
  <2>5. CASE Ordered!Others
    BY <2>3, <2>5, SendingsKeep, CrashKeeps, KoreKeeps, AskingsKeep DEF Ordered!Others
  <2>6. QED  BY <2>3, <2>4, <2>5 DEF Ordered!Next
<1>6. QED  BY <1>1, <1>4, <1>5

LEMMA CardTypesBegin == Ordered!Init => CardTypes
  BY DEF Ordered!Init, CardTypes, CardLists, CardPatches, CardRows, Ordered!NoCard

LEMMA OrderKeeps == ASSUME OrderInv, CardTypes, UNCHANGED Ordered!vars PROVE OrderInv' /\ CardTypes'
  BY DEF Ordered!vars, OrderInv, CardTypes, OrderTypes, Progress, AskedOf,
     Ordered!OnlyTheNamedObeys

LEMMA OrderHolds == OrderInv => Ordered!StatusIsKores /\ Ordered!OnlyTheNamedObeys
<1> SUFFICES ASSUME OrderInv PROVE Ordered!StatusIsKores
  BY DEF OrderInv
<1>1. ASSUME NEW c \in Ordering.orders
      PROVE  /\ order[c].status = "sent" => sms[c] # Ordered!NoSms
             /\ order[c].status \in {"delivered", "failed"} => sms[c].status = order[c].status
  <2>1. Progress(c) /\ order[c].url \in BOOLEAN
    BY OrderForms DEF OrderInv
  <2>2. QED  BY <2>1 DEF Progress, Ordered!NoSms, Settled
<1>2. QED  BY <1>1 DEF Ordered!StatusIsKores

-----------------------------------------------------------------------------
(* SIMs and their cards.                                                   *)

StockRows == [iccid : Stock.sims \cup {None}, device : Stock.devices \cup {None}, profile : Stock.sims \cup {None}]

\* The requests on SIMs, and what they have read.
SimLists ==
    {SimCards!Idle} \cup [phase : {"listing"}, sims : Seq(Stock.sims), began : [Stock.cards -> StockRows]]
    \cup [phase : {"read"}, found : UNION {[D -> Stock.cards \cup {None}] : D \in SUBSET Stock.sims},
          kept : SUBSET Stock.sims]
SimPatches ==
    {SimCards!Idle} \cup [phase : {"read"}, device : Stock.devices, card : Stock.cards \cup {None},
                     iccid : Stock.sims \cup {None}, kore : Stock.sims \cup {None}, kept : BOOLEAN]
SimTypes ==
    /\ card \in [Stock.cards -> StockRows]
    /\ listing \in [Stock.listings -> SimLists]
    /\ patching \in [Stock.patches -> SimPatches]

\* One card of each SIM that is not exempt, and none of those that a listing is
\* about to make one of; one listing at a time is.
OneCardEach ==
    \A a, b \in Stock.cards :
        card[a].iccid \in Stock.sims \ doubled /\ card[b].iccid = card[a].iccid => a = b
StillMissing ==
    \A r \in Stock.listings, s \in Stock.sims \ doubled, a \in Stock.cards :
        SimCards!AboutToMake(r, s) => card[a].iccid # s
OneReader ==
    \A r, q \in Stock.listings : listing[r].phase = "read" /\ listing[q].phase = "read" => r = q
SimInv == SimTypes /\ OneCardEach /\ StillMissing /\ OneReader

LEMMA ListedAreStock ==
    ASSUME SimTypes, NEW r \in Stock.listings
    PROVE  /\ listing[r] \in SimLists
           /\ listing[r].phase \in {"idle", "listing", "read"}
           /\ listing[r].phase = "listing" =>
                 /\ listing[r] \in [phase : {"listing"}, sims : Seq(Stock.sims), began : [Stock.cards -> StockRows]]
                 /\ SimCards!Listed(r) \subseteq Stock.sims
           /\ listing[r].phase = "read" =>
                 /\ DOMAIN listing[r].found \subseteq Stock.sims
                 /\ \A s \in DOMAIN listing[r].found : listing[r].found[s] \in Stock.cards \cup {None}
<1>1. listing[r] \in SimLists
  BY DEF SimTypes
<1>2. CASE listing[r] = SimCards!Idle
  BY <1>1, <1>2 DEF SimCards!Idle
<1>3. CASE listing[r] \in [phase : {"listing"}, sims : Seq(Stock.sims), began : [Stock.cards -> StockRows]]
  <2>1. listing[r].sims \in Seq(Stock.sims)
    BY <1>3
  <2>2. QED  BY <1>1, <1>3, <2>1 DEF SimCards!Listed
<1>4. CASE listing[r] \in [phase : {"read"}, found : UNION {[D -> Stock.cards \cup {None}] : D \in SUBSET Stock.sims},
                            kept : SUBSET Stock.sims]
  <2>1. PICK D \in SUBSET Stock.sims : listing[r].found \in [D -> Stock.cards \cup {None}]
    BY <1>4
  <2>2. listing[r].phase = "read" /\ DOMAIN listing[r].found = D
    BY <1>4, <2>1
  <2>3. QED  BY <1>1, <2>1, <2>2
<1>5. QED  BY <1>1, <1>2, <1>3, <1>4 DEF SimLists

\* The requests that list SIMs or write them, and the cards, hold what they may.
LEMMA SimTypesKeep ==
    ASSUME SimTypes, SimCards!Next PROVE SimTypes'
<1>1. CASE UNCHANGED <<card, listing, patching>>
  BY <1>1 DEF SimTypes
<1>2. CASE SimCards!Crash
  BY <1>2 DEF SimTypes, SimCards!Crash, SimLists, SimPatches
<1>3. ASSUME NEW a \in Stock.cards, NEW d \in Stock.devices, SimCards!AssignSim(a, d) PROVE SimTypes'
  BY <1>3 DEF SimTypes, SimCards!AssignSim, StockRows
<1>4. ASSUME NEW a \in Stock.cards, SimCards!UnassignSim(a) PROVE SimTypes'
  BY <1>4 DEF SimTypes, SimCards!UnassignSim, StockRows
<1>5. ASSUME NEW r \in Stock.listings, NEW new \in SimLists,
             listing' = [listing EXCEPT ![r] = new], UNCHANGED <<card, patching>>
      PROVE  SimTypes'
  BY <1>5 DEF SimTypes
<1>6. ASSUME NEW r \in Stock.listings, SimCards!ListSims(r) \/ SimCards!ListFails(r) PROVE SimTypes'
  <2>1. <<>> \in Seq(Stock.sims) /\ card \in [Stock.cards -> StockRows]
    BY DEF SimTypes
  <2>2. SimCards!Idle \in SimLists /\ [phase |-> "listing", sims |-> <<>>, began |-> card] \in SimLists
    BY <2>1 DEF SimLists
  <2>3. QED  BY <1>5, <1>6, <2>2 DEF SimCards!ListSims, SimCards!ListFails
<1>7. ASSUME NEW r \in Stock.listings, NEW s \in Stock.sims, SimCards!NextPage(r, s) PROVE SimTypes'
  <2>1. /\ listing[r].phase = "listing" /\ UNCHANGED <<card, patching>>
        /\ listing' = [listing EXCEPT ![r] = [listing[r] EXCEPT !.sims = Append(listing[r].sims, s)]]
    BY <1>7 DEF SimCards!NextPage
  <2>2. listing[r] \in [phase : {"listing"}, sims : Seq(Stock.sims), began : [Stock.cards -> StockRows]]
    BY <2>1, ListedAreStock
  <2>3. Append(listing[r].sims, s) \in Seq(Stock.sims)
    <3>1. listing[r].sims \in Seq(Stock.sims)
      BY <2>2
    <3>2. QED  BY <3>1, AppendProperties
  <2>4. [listing[r] EXCEPT !.sims = Append(listing[r].sims, s)]
            \in [phase : {"listing"}, sims : Seq(Stock.sims), began : [Stock.cards -> StockRows]]
    BY <2>2, <2>3
  <2>5. QED  BY <1>5, <2>1, <2>4 DEF SimLists
<1>8. ASSUME NEW r \in Stock.listings, SimCards!ReadCards(r) PROVE SimTypes'
  <2>1. PICK found \in [SimCards!Listed(r) -> Stock.cards \cup {None}] :
            listing' = [listing EXCEPT ![r] =
                [phase |-> "read", found |-> found,
                 kept |-> {s \in SimCards!Listed(r) : found[s] # None /\ card[found[s]].profile = s}]]
    BY <1>8 DEF SimCards!ReadCards
  <2>2. SimCards!Listed(r) \subseteq Stock.sims
    BY <1>8, ListedAreStock DEF SimCards!ReadCards
  <2>3. found \in UNION {[D -> Stock.cards \cup {None}] : D \in SUBSET Stock.sims}
    BY <2>2
  <2>4. {s \in SimCards!Listed(r) : found[s] # None /\ card[found[s]].profile = s} \in SUBSET Stock.sims
    BY <2>2
  <2>5. [phase |-> "read", found |-> found,
         kept |-> {s \in SimCards!Listed(r) : found[s] # None /\ card[found[s]].profile = s}]
            \in [phase : {"read"}, found : UNION {[D -> Stock.cards \cup {None}] : D \in SUBSET Stock.sims},
                 kept : SUBSET Stock.sims]
    BY <2>3, <2>4
  <2>6. QED  BY <1>5, <1>8, <2>1, <2>5 DEF SimCards!ReadCards, SimLists
<1>9. ASSUME NEW r \in Stock.listings, SimCards!SaveSims(r) PROVE SimTypes'
  <2> DEFINE found == listing[r].found
             listed == DOMAIN found
  <2>1. listed \subseteq Stock.sims
    BY <1>9, ListedAreStock DEF SimCards!SaveSims
  <2>2. PICK at \in [listed -> Stock.cards], written \in SUBSET listed :
            card' = [a \in Stock.cards |->
                IF \A s \in listed : at[s] # a THEN card[a]
                ELSE LET s == CHOOSE z \in listed : at[z] = a
                     IN  [iccid |-> IF found[s] = None THEN s ELSE card[a].iccid,
                          device |-> card[a].device,
                          profile |-> IF s \in written THEN s ELSE card[a].profile]]
    BY <1>9 DEF SimCards!SaveSims
  <2>3. ASSUME NEW a \in Stock.cards PROVE card'[a] \in StockRows
    <3>1. card[a] \in StockRows
      BY DEF SimTypes
    <3>2. CASE \A s \in listed : at[s] # a
      BY <2>2, <3>1, <3>2
    <3>3. ASSUME NEW z \in listed, at[z] = a PROVE card'[a] \in StockRows
      <4>1. PICK s \in listed : card'[a] = [iccid |-> IF found[s] = None THEN s ELSE card[a].iccid,
                                            device |-> card[a].device,
                                            profile |-> IF s \in written THEN s ELSE card[a].profile]
        BY <2>2, <3>3
      <4>2. QED  BY <2>1, <3>1, <4>1 DEF StockRows
    <3>4. QED  BY <3>2, <3>3
  <2>4. card' \in [Stock.cards -> StockRows]
    BY <2>2, <2>3
  <2>5. listing' \in [Stock.listings -> SimLists] /\ UNCHANGED patching
    BY <1>9 DEF SimTypes, SimCards!SaveSims, SimLists
  <2>6. QED  BY <2>4, <2>5 DEF SimTypes
<1>10. ASSUME NEW q \in Stock.patches, NEW d \in Stock.devices, NEW s \in Stock.sims \cup {None},
              NEW k \in Stock.sims \cup {None}, SimCards!ReadSim(q, d, s, k)
       PROVE  SimTypes'
  <2>1. PICK a \in Stock.cards \cup {None} :
            patching' = [patching EXCEPT ![q] =
                [phase |-> "read", device |-> d, card |-> a, kore |-> k,
                 iccid |-> IF a # None /\ card[a].iccid = s THEN None ELSE s,
                 kept |-> a # None /\ card[a].profile = k]]
    BY <1>10 DEF SimCards!ReadSim
  <2> DEFINE new == [phase |-> "read", device |-> d, card |-> a, kore |-> k,
                     iccid |-> IF a # None /\ card[a].iccid = s THEN None ELSE s,
                     kept |-> a # None /\ card[a].profile = k]
  <2>2. (a # None /\ card[a].profile = k) \in BOOLEAN /\ (IF a # None /\ card[a].iccid = s THEN None ELSE s) \in Stock.sims \cup {None}
    OBVIOUS
  <2>3. new \in SimPatches
    BY <2>2 DEF SimPatches
  <2>4. QED  BY <1>10, <2>1, <2>3 DEF SimTypes, SimCards!ReadSim
<1>11. ASSUME NEW q \in Stock.patches, SimCards!PatchFails(q) PROVE SimTypes'
  BY <1>11 DEF SimTypes, SimCards!PatchFails, SimPatches
<1>12. ASSUME NEW q \in Stock.patches, SimCards!UpdateSim(q) PROVE SimTypes'
  <2>1. /\ patching[q] \in SimPatches /\ patching[q].phase = "read"
        /\ patching' = [patching EXCEPT ![q] = SimCards!Idle] /\ UNCHANGED listing
    BY <1>12 DEF SimTypes, SimCards!UpdateSim
  <2>2. patching[q] \in [phase : {"read"}, device : Stock.devices, card : Stock.cards \cup {None},
                         iccid : Stock.sims \cup {None}, kore : Stock.sims \cup {None}, kept : BOOLEAN]
    BY <2>1 DEF SimPatches, SimCards!Idle
  <2>3. PICK a \in Stock.cards : \E new \in SimCards!Patched(patching[q], card[a]) : card' = [card EXCEPT ![a] = new]
    BY <1>12 DEF SimCards!UpdateSim
  <2>4. card[a] \in StockRows
    BY DEF SimTypes
  <2>5. PICK new \in StockRows : card' = [card EXCEPT ![a] = new]
    <3>1. SimCards!Patched(patching[q], card[a]) \subseteq StockRows
      BY <2>2, <2>4 DEF SimCards!Patched, StockRows
    <3>2. QED  BY <2>3, <3>1
  <2>6. card' \in [Stock.cards -> StockRows] /\ patching' \in [Stock.patches -> SimPatches]
    BY <2>1, <2>5 DEF SimTypes, SimPatches
  <2>7. QED  BY <2>1, <2>6 DEF SimTypes
<1>13. CASE SimCards!Loop
  BY <1>13, <1>1, <1>6, <1>7, <1>8
  DEF SimCards!Loop, SimCards!CreateUserCommand, SimCards!CreateCommand, SimCards!Created, SimCards!Address, SimCards!Record,
      SimCards!SyncCommand, SimCards!SyncUserCommand, SimCards!Asks, SimCards!SyncSaves
<1>14. CASE SimCards!Others
  BY <1>14, <1>1, <1>2, <1>3, <1>4, <1>6, <1>9, <1>10, <1>11
  DEF SimCards!Others, SimCards!SendSms, SimCards!SendFails, SimCards!KoreMoves, SimCards!KoreTells, SimCards!KoreTellsNothing, SimCards!Refit
<1>15. QED  BY <1>12, <1>13, <1>14 DEF SimCards!Next

LEMMA SimInit == SimCards!CommandsAssumption /\ SimCards!Init => SimInv
<1> SUFFICES ASSUME SimCards!CommandsAssumption, SimCards!Init PROVE SimInv
  OBVIOUS
<1>1. SimTypes
  <2>1. card \in [Stock.cards -> StockRows]
    BY DEF SimCards!Init, StockRows, SimCards!NoCard
  <2>2. QED  BY <2>1 DEF SimCards!Init, SimTypes, SimLists, SimPatches
<1>2. OneCardEach
  BY DEF SimCards!Init, OneCardEach, SimCards!NoCard, SimCards!CommandsAssumption
<1>3. StillMissing /\ OneReader
  BY DEF SimCards!Init, StillMissing, OneReader, SimCards!AboutToMake, SimCards!Idle
<1>4. QED  BY <1>1, <1>2, <1>3 DEF SimInv

\* A step that leaves the SIM of every card, and after which no listing is newly
\* about to make a card.
LEMMA SameSims ==
    ASSUME SimInv, UNCHANGED doubled,
           \A a \in Stock.cards : card'[a].iccid = card[a].iccid,
           \A r \in Stock.listings : listing'[r] = listing[r] \/ listing'[r].phase # "read"
    PROVE  OneCardEach' /\ StillMissing' /\ OneReader'
<1>1. OneCardEach'
  BY DEF SimInv, OneCardEach
<1>2. StillMissing'
  BY DEF SimInv, StillMissing, SimCards!AboutToMake
<1>3. OneReader'
  BY DEF SimInv, OneReader
<1>4. QED  BY <1>1, <1>2, <1>3

\* What a listing reads is so, and no other is at it.
LEMMA ReadWell ==
    ASSUME SimInv, SimCards!CommandsAssumption, NEW r \in Stock.listings, SimCards!ReadCards(r),
           ~ SimCards!Saving, UNCHANGED doubled
    PROVE  OneCardEach' /\ StillMissing' /\ OneReader'
<1>1. PICK found \in [SimCards!Listed(r) -> Stock.cards \cup {None}] :
          /\ \A s \in SimCards!Listed(r) : IF s \in SimCards!Missing(r) THEN found[s] = None
                                           ELSE found[s] \in SimCards!Local(s)
          /\ listing' = [listing EXCEPT ![r] =
                [phase |-> "read", found |-> found,
                 kept |-> {s \in SimCards!Listed(r) : found[s] # None /\ card[found[s]].profile = s}]]
  BY DEF SimCards!ReadCards
<1>2. UNCHANGED card
  BY DEF SimCards!ReadCards
<1>3. \A q \in Stock.listings : q # r => listing'[q] = listing[q] /\ listing[q].phase # "read"
  BY <1>1 DEF SimInv, SimTypes, SimCards!Saving
<1>4. /\ listing'[r].phase = "read" /\ DOMAIN listing'[r].found = SimCards!Listed(r)
      /\ \A s \in SimCards!Listed(r) : listing'[r].found[s] = found[s]
  BY <1>1 DEF SimInv, SimTypes
<1>5. \A s \in SimCards!Listed(r), a \in Stock.cards : found[s] = None => card[a].iccid # s
  BY <1>1 DEF SimCards!Missing, SimCards!Local, SimCards!CommandsAssumption
<1>6. OneCardEach'
  BY <1>2 DEF SimInv, OneCardEach
<1>7. StillMissing'
  BY <1>2, <1>3, <1>4, <1>5 DEF StillMissing, SimCards!AboutToMake
<1>8. OneReader'
  BY <1>3 DEF OneReader
<1>9. QED  BY <1>6, <1>7, <1>8

\* A listing makes one card for each SIM it found none of.
LEMMA SavedOnce ==
    ASSUME SimInv, SimCards!CommandsAssumption, NEW r \in Stock.listings, SimCards!SaveSims(r),
           UNCHANGED doubled
    PROVE  OneCardEach' /\ StillMissing' /\ OneReader'
<1> DEFINE found == listing[r].found
           listed == DOMAIN found
<1>1. /\ listing[r].phase = "read" /\ listed \subseteq Stock.sims
      /\ listing' = [listing EXCEPT ![r] = SimCards!Idle]
  BY ListedAreStock DEF SimCards!SaveSims, SimInv
<1>2. PICK at \in [listed -> Stock.cards], written \in SUBSET listed :
          /\ \A s \in listed : IF found[s] = None THEN card[at[s]] = SimCards!NoCard ELSE at[s] = found[s]
          /\ \A s, z \in listed : at[s] = at[z] => s = z
          /\ card' = [a \in Stock.cards |->
                IF \A s \in listed : at[s] # a THEN card[a]
                ELSE LET s == CHOOSE z \in listed : at[z] = a
                     IN  [iccid |-> IF found[s] = None THEN s ELSE card[a].iccid,
                          device |-> card[a].device,
                          profile |-> IF s \in written THEN s ELSE card[a].profile]]
  BY DEF SimCards!SaveSims
<1>3. \A a \in Stock.cards :
          \/ card'[a].iccid = card[a].iccid
          \/ \E s \in listed : at[s] = a /\ found[s] = None /\ card'[a].iccid = s
  <2>1. ASSUME NEW a \in Stock.cards, \A s \in listed : at[s] # a PROVE card'[a].iccid = card[a].iccid
    BY <1>2, <2>1
  <2>2. ASSUME NEW a \in Stock.cards, NEW z \in listed, at[z] = a
        PROVE  card'[a].iccid = IF found[z] = None THEN z ELSE card[a].iccid
    <3>1. (CHOOSE x \in listed : at[x] = a) = z
      BY <1>2, <2>2
    <3>2. card'[a] = [iccid |-> IF found[z] = None THEN z ELSE card[a].iccid,
                      device |-> card[a].device,
                      profile |-> IF z \in written THEN z ELSE card[a].profile]
      BY <1>2, <2>2, <3>1
    <3>3. QED  BY <3>2
  <2>3. QED  BY <2>1, <2>2
<1>4. \A s \in listed \ doubled, a \in Stock.cards : found[s] = None => card[a].iccid # s
  BY <1>1 DEF SimInv, StillMissing, SimCards!AboutToMake
<1>5. OneCardEach'
  <2>1. SUFFICES ASSUME NEW a \in Stock.cards, NEW b \in Stock.cards,
                        card'[a].iccid \in Stock.sims \ doubled,
                        card'[b].iccid = card'[a].iccid
                 PROVE  a = b
    BY DEF OneCardEach
  <2>2. CASE card'[a].iccid = card[a].iccid /\ card'[b].iccid = card[b].iccid
    BY <2>1, <2>2 DEF SimInv, OneCardEach
  <2>3. ASSUME NEW s \in listed, at[s] = a, found[s] = None, card'[a].iccid = s PROVE a = b
    <3>1. card'[b].iccid = s /\ s \notin doubled
      BY <2>1, <2>3
    <3>2. card[b].iccid # s
      BY <1>4, <2>3, <3>1
    <3>3. at[s] = b
      BY <1>3, <3>1, <3>2
    <3>4. QED  BY <2>3, <3>3
  <2>4. ASSUME NEW s \in listed, at[s] = b, found[s] = None, card'[b].iccid = s PROVE a = b
    <3>1. card'[a].iccid = s /\ s \notin doubled
      BY <2>1, <2>4
    <3>2. card[a].iccid # s
      BY <1>4, <2>4, <3>1
    <3>3. at[s] = a
      BY <1>3, <3>1, <3>2
    <3>4. QED  BY <2>4, <3>3
  <2>5. QED  BY <1>3, <2>2, <2>3, <2>4
<1>6. \A q \in Stock.listings : listing'[q].phase # "read"
  <2>1. \A q \in Stock.listings : listing'[q] = IF q = r THEN SimCards!Idle ELSE listing[q]
    BY <1>1 DEF SimInv, SimTypes
  <2>2. \A q \in Stock.listings : q # r => listing[q].phase # "read"
    BY <1>1 DEF SimInv, OneReader
  <2>3. QED  BY <2>1, <2>2 DEF SimCards!Idle
<1>7. StillMissing' /\ OneReader'
  BY <1>6 DEF StillMissing, OneReader, SimCards!AboutToMake
<1>8. QED  BY <1>5, <1>7

\* A PATCH writes a SIM on one card, and whoever has it already, or is about to,
\* exempts it.
LEMMA WrittenOnce ==
    ASSUME SimInv, SimCards!CommandsAssumption, NEW q \in Stock.patches, SimCards!UpdateSim(q)
    PROVE  OneCardEach' /\ StillMissing' /\ OneReader'
<1> DEFINE p == patching[q]
<1>1. PICK a \in Stock.cards :
          /\ \E new \in SimCards!Patched(p, card[a]) : card' = [card EXCEPT ![a] = new]
          /\ doubled' = doubled \cup {s \in {p.iccid} \ {None} :
                \/ SimCards!Local(s) \ {a} # {}
                \/ \E r \in Stock.listings : SimCards!AboutToMake(r, s)}
  BY DEF SimCards!UpdateSim
<1>2. UNCHANGED listing
  BY DEF SimCards!UpdateSim
<1>3. \A x \in Stock.cards : card'[x].iccid = IF x = a /\ p.iccid # None THEN p.iccid ELSE card[x].iccid
  <2>1. PICK new \in SimCards!Patched(p, card[a]) : card' = [card EXCEPT ![a] = new]
    BY <1>1
  <2>2. new.iccid = IF p.iccid = None THEN card[a].iccid ELSE p.iccid
    BY <2>1 DEF SimCards!Patched
  <2>3. QED  BY <2>1, <2>2 DEF SimInv, SimTypes
<1>4. doubled \subseteq doubled'
  BY <1>1
<1>5. p.iccid # None /\ p.iccid \notin doubled' =>
          /\ \A x \in Stock.cards : card[x].iccid = p.iccid => x = a
          /\ \A r \in Stock.listings : ~ SimCards!AboutToMake(r, p.iccid)
  BY <1>1 DEF SimCards!Local
<1>6. OneCardEach'
  BY <1>3, <1>4, <1>5 DEF SimInv, OneCardEach
<1>7. StillMissing'
  <2>1. \A r \in Stock.listings, s \in Stock.sims : SimCards!AboutToMake(r, s)' => SimCards!AboutToMake(r, s)
    BY <1>2 DEF SimCards!AboutToMake
  <2>2. QED  BY <1>3, <1>4, <1>5, <2>1 DEF SimInv, StillMissing
<1>8. OneReader'
  BY <1>2 DEF SimInv, OneReader
<1>9. QED  BY <1>6, <1>7, <1>8

LEMMA SimStep ==
    ASSUME SimCards!CommandsAssumption, SimInv, SimCards!Next PROVE SimInv'
<1>1. SimTypes'
  BY SimTypesKeep DEF SimInv
<1> DEFINE Goal == OneCardEach' /\ StillMissing' /\ OneReader'
<1>2. ASSUME UNCHANGED <<card, listing, doubled>> PROVE Goal
  BY <1>2, SameSims
<1>3. ASSUME NEW a \in Stock.cards, UNCHANGED doubled,
             SimCards!UnassignSim(a) \/ \E d \in Stock.devices : SimCards!AssignSim(a, d)
      PROVE  Goal
  <2>1. (\A x \in Stock.cards : card'[x].iccid = card[x].iccid) /\ UNCHANGED listing
    BY <1>3 DEF SimCards!UnassignSim, SimCards!AssignSim, SimInv, SimTypes, StockRows
  <2>2. QED  BY <1>3, <2>1, SameSims
<1>4. ASSUME NEW r \in Stock.listings, UNCHANGED <<card, doubled>>,
             \E new : new.phase # "read" /\ listing' = [listing EXCEPT ![r] = new]
      PROVE  Goal
  <2>1. \A x \in Stock.listings : listing'[x] = listing[x] \/ listing'[x].phase # "read"
    BY <1>4 DEF SimInv, SimTypes
  <2>2. QED  BY <1>4, <2>1, SameSims
<1>5. ASSUME NEW r \in Stock.listings, UNCHANGED doubled,
             \/ SimCards!ListSims(r) \/ SimCards!ListFails(r) \/ \E s \in Stock.sims : SimCards!NextPage(r, s)
      PROVE  Goal
  <2>1. CASE SimCards!ListSims(r) \/ SimCards!ListFails(r)
    BY <1>4, <1>5, <2>1 DEF SimCards!ListSims, SimCards!ListFails, SimCards!Idle
  <2>2. ASSUME NEW s \in Stock.sims, SimCards!NextPage(r, s) PROVE Goal
    <3>1. /\ listing[r].phase = "listing" /\ UNCHANGED card
          /\ listing' = [listing EXCEPT ![r] = [listing[r] EXCEPT !.sims = Append(listing[r].sims, s)]]
      BY <2>2 DEF SimCards!NextPage
    <3>2. listing[r] \in [phase : {"listing"}, sims : Seq(Stock.sims), began : [Stock.cards -> StockRows]]
      BY <3>1, ListedAreStock DEF SimInv
    <3>3. [listing[r] EXCEPT !.sims = Append(listing[r].sims, s)].phase # "read"
      BY <3>1, <3>2
    <3>4. QED  BY <1>4, <1>5, <3>1, <3>3
  <2>3. QED  BY <1>5, <2>1, <2>2
<1>6. ASSUME SimCards!Crash, UNCHANGED doubled PROVE Goal
  <2>1. UNCHANGED card /\ \A x \in Stock.listings : listing'[x].phase # "read"
    BY <1>6 DEF SimCards!Crash, SimCards!Idle
  <2>2. QED  BY <1>6, <2>1, SameSims
<1>7. ASSUME SimCards!Loop, ~ SimCards!Saving, UNCHANGED doubled PROVE Goal
  BY <1>2, <1>5, <1>7, ReadWell
  DEF SimCards!Loop, SimCards!CreateUserCommand, SimCards!CreateCommand, SimCards!Created, SimCards!Address,
      SimCards!Record, SimCards!SyncCommand, SimCards!SyncUserCommand, SimCards!Asks, SimCards!SyncSaves
<1>8. ASSUME SimCards!Others, UNCHANGED doubled PROVE Goal
  BY <1>2, <1>3, <1>5, <1>6, <1>8, SavedOnce
  DEF SimCards!Others, SimCards!SendSms, SimCards!SendFails, SimCards!KoreMoves, SimCards!KoreTells,
      SimCards!KoreTellsNothing, SimCards!Refit, SimCards!ReadSim, SimCards!PatchFails
<1>9. Goal
  BY <1>7, <1>8, WrittenOnce DEF SimCards!Next
<1>10. QED  BY <1>1, <1>9 DEF SimInv

LEMMA SimKeeps == ASSUME SimInv, UNCHANGED SimCards!vars PROVE SimInv'
  BY DEF SimCards!vars, SimInv, SimTypes, OneCardEach, StillMissing, OneReader, SimCards!AboutToMake

LEMMA SimHolds ==
    ASSUME SimInv, SimCards!CommandsAssumption PROVE SimCards!OneCardPerSim
<1> SUFFICES ASSUME NEW s \in Stock.sims \ doubled PROVE Cardinality(SimCards!Local(s)) <= 1
  BY DEF SimCards!OneCardPerSim, SimCards!Cardinality, Cardinality
<1>1. \A a, b \in SimCards!Local(s) : a = b
  BY DEF SimInv, OneCardEach, SimCards!Local
<1>2. CASE SimCards!Local(s) = {}
  BY <1>2, FS_EmptySet
<1>3. ASSUME NEW a \in SimCards!Local(s) PROVE Cardinality(SimCards!Local(s)) <= 1
  <2>1. SimCards!Local(s) = {a}
    BY <1>1
  <2>2. Cardinality({a}) = 1
    BY FS_Singleton
  <2>3. QED  BY <2>1, <2>2
<1>4. QED  BY <1>2, <1>3

-----------------------------------------------------------------------------
(* The events of the control plane and the copy of their consumer.         *)

States == Contract.units \cup Events!Statuses \cup {"UPSERT", Events!Gone}
Messages == [key : Events!Keys, state : States]

\* What one flush may write.
Writes(w) ==
    /\ w.grant \subseteq Contract.people \X Contract.units /\ w.delete \subseteq Contract.units
    /\ DOMAIN w.place \subseteq Contract.devices
    /\ \A d \in DOMAIN w.place : w.place[d] \in Contract.units \cup {Events!Gone}
    /\ DOMAIN w.seat \subseteq Contract.people
    /\ \A p \in DOMAIN w.seat : w.seat[p] \in Events!Statuses \cup {Events!Gone}
    /\ w.revoke \subseteq Contract.people \X Contract.units

\* A request: what its phase says it holds.
TruthOf(t) ==
    /\ t.phase \in {"idle", "open", "committed", "publishing"}
    /\ t.phase = "open" => Writes(t.writes) /\ t.keys = Events!Noted(t.writes) /\ t.units = t.writes.delete
    /\ t.phase = "committed" => t.keys \subseteq Events!Keys /\ t.units \subseteq Contract.units
    /\ t.phase = "publishing" =>
          /\ t = [phase |-> "publishing", events |-> t.events]
          /\ DOMAIN t.events \subseteq Events!Keys
          /\ \A k \in DOMAIN t.events : t.events[k] \in States

BaseTypes ==
    /\ granted \subseteq Contract.people \X Contract.units
    /\ fitted \in [Contract.devices -> Contract.units \cup {Events!Gone}]
    /\ seats \in [Contract.people -> Events!Statuses \cup {Events!Gone}]
    /\ deleted \subseteq Contract.units

EventTypes ==
    /\ BaseTypes
    /\ tx = [r \in Contract.requests |-> tx[r]] /\ \A r \in Contract.requests : TruthOf(tx[r])
    /\ topic \in Seq(Messages)
    /\ reader \in {"live", "noted"}
    /\ copy = [k \in Events!Keys |-> copy[k]]
    /\ been = [k \in Events!Keys |-> been[k]]

\* What is told, or is to be told, was so once.
Truthful ==
    /\ \A k \in Events!Keys : Events!Truth(k) \in been[k]
    /\ \A r \in Contract.requests : \A k \in Events!Awaiting(r) : tx[r].events[k] \in been[k]
    /\ Events!EventsWereTrue

\* The keys a request is still to read.
Due(r) == IF tx[r].phase = "committed" THEN tx[r].keys \cup Events!Expanded(tx[r].units) ELSE {}

\* The consumer has, or its topic ends with, what the key is.
Told(k) ==
    /\ \A i \in 1 .. Len(topic) :
          topic[i].key = k /\ (\A j \in 1 .. Len(topic) : topic[j].key = k => j <= i)
          => topic[i].state = Events!Truth(k)
    /\ reader = "live" /\ (\A i \in 1 .. Len(topic) : topic[i].key # k) => copy[k] = Events!Truth(k)

\* Of a key nobody is to read again, one request at most has what it is still
\* to send, and it is the truth; or it is told.
Settling(k) ==
    /\ \A r, s \in Contract.requests : k \in Events!Awaiting(r) /\ k \in Events!Awaiting(s) => r = s
    /\ (\A r \in Contract.requests : k \notin Due(r)) =>
          /\ \A r \in Contract.requests : k \in Events!Awaiting(r) => tx[r].events[k] = Events!Truth(k)
          /\ (\A r \in Contract.requests : k \notin Events!Awaiting(r)) => Told(k)

EventInv ==
    /\ EventTypes
    /\ Truthful
    /\ \A k \in Events!Keys \ unsure : Settling(k)

LEMMA KeyShapes ==
    ASSUME NEW k \in Events!Keys
    PROVE  \/ k[1] = "user_unit" /\ k[2] \in Contract.people /\ k[3] \in Contract.units /\ k = Events!Grant(k[2], k[3])
           \/ k[1] = "unit_device" /\ k[2] \in Contract.devices /\ k = Events!Place(k[2])
           \/ k[1] = "organization_user" /\ k[2] \in Contract.people /\ k = Events!Seat(k[2])
  BY DEF Events!Keys, Events!Grant, Events!Place, Events!Seat

LEMMA ViewIsTruth ==
    ASSUME BaseTypes, NEW k \in Events!Keys
    PROVE  Events!View(k) = Events!Truth(k) /\ Events!Truth(k) \in States
<1>1. CASE k[1] = "user_unit"
  BY <1>1, KeyShapes DEF Events!View, Events!Truth, States, Events!Grant, Events!Place,
     Events!Seat
<1>2. CASE k[1] = "unit_device"
  <2>1. fitted[k[2]] \in Contract.units \cup {Events!Gone}
    BY <1>2, KeyShapes DEF BaseTypes
  <2>2. QED  BY <1>2, <2>1 DEF Events!View, Events!Truth, States
<1>3. CASE k[1] = "organization_user"
  <2>1. seats[k[2]] \in Events!Statuses \cup {Events!Gone}
    BY <1>3, KeyShapes DEF BaseTypes
  <2>2. QED  BY <1>3, <2>1 DEF Events!View, Events!Truth, States
<1>4. QED  BY <1>1, <1>2, <1>3, KeyShapes

LEMMA NotedAreKeys == ASSUME NEW w, Writes(w) PROVE Events!Noted(w) \subseteq Events!Keys
<1>1. \A g \in w.grant \cup w.revoke : g[1] \in Contract.people /\ g[2] \in Contract.units
  BY DEF Writes
<1>2. QED  BY <1>1 DEF Writes, Events!Noted, Events!Keys

LEMMA ExpandedAreKeys == ASSUME BaseTypes, NEW units PROVE Events!Expanded(units) \subseteq Events!Keys
<1>1. \A g \in granted : g[1] \in Contract.people /\ g[2] \in Contract.units
  BY DEF BaseTypes
<1>2. QED  BY <1>1 DEF Events!Expanded, Events!Keys

\* A step of one request that leaves the tables and the topic: it is no longer
\* due what it was, or it now has it to send, or it is not sure of it.
LEMMA RequestKeeps ==
    ASSUME EventInv, NEW r \in Contract.requests, NEW t, TruthOf(t), t.phase # "committed",
           tx' = [tx EXCEPT ![r] = t],
           UNCHANGED <<Events!base, topic, Events!consumer, been>>, unsure \subseteq unsure',
           t.phase = "publishing" =>
              \A k \in DOMAIN t.events :
                 /\ t.events[k] \in been[k]
                 /\ \/ k \in unsure'
                    \/ k \in Due(r) /\ t.events[k] = Events!Truth(k) /\ \A s \in Contract.requests \ {r} : k \notin Events!Awaiting(s)
                    \/ k \in Events!Awaiting(r) /\ t.events[k] = tx[r].events[k],
           \A k \in (Due(r) \cup Events!Awaiting(r)) \ unsure' :
              t.phase = "publishing" /\ k \in DOMAIN t.events
    PROVE  EventInv'
<1>1. tx'[r] = t /\ \A s \in Contract.requests \ {r} : tx'[s] = tx[s]
  BY DEF EventInv, EventTypes
<1>2. EventTypes'
  <2>1. tx' = [s \in Contract.requests |-> tx'[s]] /\ \A s \in Contract.requests : TruthOf(tx'[s])
    BY <1>1 DEF EventInv, EventTypes
  <2>2. UNCHANGED <<granted, fitted, seats, deleted, topic, reader, copy, been>>
    BY DEF Events!base, Events!consumer
  <2>3. BaseTypes'
    BY <2>2 DEF EventInv, EventTypes, BaseTypes
  <2>4. QED
    BY <2>1, <2>2, <2>3 DEF EventInv, EventTypes, TruthOf, Writes, Events!Noted
<1>3. /\ \A k : Events!Truth(k)' = Events!Truth(k)
      /\ \A k : Told(k)' <=> Told(k)
      /\ UNCHANGED <<topic, been>>
  BY DEF Events!base, Events!consumer, Events!Truth, Told
<1>4. /\ \A s \in Contract.requests \ {r} : Due(s)' = Due(s) /\ Events!Awaiting(s)' = Events!Awaiting(s)
      /\ Due(r)' = {} /\ Events!Awaiting(r)' = IF t.phase = "publishing" THEN DOMAIN t.events ELSE {}
  BY <1>1 DEF Due, Events!Awaiting, Events!Expanded, Events!base
<1>5. Truthful'
  BY <1>1, <1>3, <1>4 DEF EventInv, Truthful, Events!EventsWereTrue
<1>6. ASSUME NEW k \in Events!Keys \ unsure' PROVE Settling(k)'
  <2>1. Settling(k)
    BY DEF EventInv
  <2>2. Due(r) # {} => Events!Awaiting(r) = {}
    BY DEF Due, Events!Awaiting
  <2>3. k \in Events!Awaiting(r)' =>
           \/ k \in Due(r) /\ t.events[k] = Events!Truth(k) /\ \A s \in Contract.requests \ {r} : k \notin Events!Awaiting(s)
           \/ k \in Events!Awaiting(r) /\ t.events[k] = tx[r].events[k]
    BY <1>4
  <2>4. k \in Due(r) \cup Events!Awaiting(r) => k \in Events!Awaiting(r)'
    BY <1>4
  <2>5. \A q, s \in Contract.requests : k \in Events!Awaiting(q)' /\ k \in Events!Awaiting(s)' => q = s
    BY <1>4, <2>1, <2>3 DEF Settling
  <2>6. ASSUME \A s \in Contract.requests : k \notin Due(s)'
        PROVE  /\ \A s \in Contract.requests : k \in Events!Awaiting(s)' => tx'[s].events[k] = Events!Truth(k)
               /\ (\A s \in Contract.requests : k \notin Events!Awaiting(s)') => Told(k)
    <3>1. \A s \in Contract.requests \ {r} : k \notin Due(s)
      BY <1>4, <2>6
    <3>2. CASE k \in Due(r)
      BY <1>1, <1>4, <2>2, <2>3, <2>4, <3>2
    <3>3. CASE k \notin Due(r)
      <4>1. /\ \A s \in Contract.requests : k \in Events!Awaiting(s) => tx[s].events[k] = Events!Truth(k)
            /\ (\A s \in Contract.requests : k \notin Events!Awaiting(s)) => Told(k)
        BY <2>1, <3>1, <3>3 DEF Settling
      <4>2. k \in Events!Awaiting(r)' <=> k \in Events!Awaiting(r)
        BY <2>3, <2>4, <3>3
      <4>3. QED  BY <1>1, <1>4, <2>3, <3>3, <4>1, <4>2
    <3>4. QED  BY <3>2, <3>3
  <2>7. QED  BY <1>3, <2>5, <2>6 DEF Settling
<1>7. QED  BY <1>2, <1>5, <1>6 DEF EventInv

LEMMA FlushKeeps ==
    ASSUME EventInv, NEW r \in Contract.requests, NEW w, Writes(w), Events!Flushes(r, w) PROVE EventInv'
<1> DEFINE t == [phase |-> "open", writes |-> w, keys |-> Events!Noted(w), units |-> w.delete]
<1>1. TruthOf(t) /\ t.phase = "open"
  BY DEF TruthOf
<1>2. Due(r) = {} /\ Events!Awaiting(r) = {}
  BY DEF Events!Flushes, Due, Events!Awaiting, Events!Idle
<1>3. tx' = [tx EXCEPT ![r] = t] /\ UNCHANGED <<Events!base, topic, Events!consumer, been, unsure>>
  BY DEF Events!Flushes
<1> HIDE DEF t
<1>4. QED  BY <1>1, <1>2, <1>3, RequestKeeps

LEMMA NothingIsWritten ==
    /\ Events!Nothing.grant = {} /\ Events!Nothing.revoke = {} /\ Events!Nothing.delete = {}
    /\ DOMAIN Events!Nothing.place = {} /\ DOMAIN Events!Nothing.seat = {}
  BY DEF Events!Nothing

LEMMA RequestsKeep ==
    ASSUME EventInv, NEW r \in Contract.requests,
           \/ \E p \in Contract.people, u \in Contract.units : Events!CreateUserUnit(r, p, u) \/ Events!DeleteUserUnit(r, p, u)
           \/ \E d \in Contract.devices, u \in Contract.units : Events!Fit(r, d, u)
           \/ \E d \in Contract.devices : Events!TakeOut(r, d)
           \/ \E u \in Contract.units : Events!DeleteUnit(r, u)
           \/ \E p \in Contract.people, s \in Events!Statuses \cup {Events!Gone} : Events!SetSeat(r, p, s)
    PROVE  EventInv'
<1>1. ASSUME NEW p \in Contract.people, NEW u \in Contract.units, Events!CreateUserUnit(r, p, u) PROVE EventInv'
  <2>1. Writes([Events!Nothing EXCEPT !.grant = {<<p, u>>}])
    BY DEF Writes, Events!Nothing
  <2>2. QED  BY <1>1, <2>1, FlushKeeps DEF Events!CreateUserUnit
<1>2. ASSUME NEW p \in Contract.people, NEW u \in Contract.units, Events!DeleteUserUnit(r, p, u) PROVE EventInv'
  <2>1. Writes([Events!Nothing EXCEPT !.revoke = {<<p, u>>}])
    BY DEF Writes, Events!Nothing
  <2>2. QED  BY <1>2, <2>1, FlushKeeps DEF Events!DeleteUserUnit
<1>3. ASSUME NEW d \in Contract.devices, NEW u \in Contract.units, Events!Fit(r, d, u) PROVE EventInv'
  <2>1. PICK out \in {{}, {x \in Contract.devices : fitted[x] = u}} :
            Events!Flushes(r, [Events!Nothing EXCEPT !.place = [x \in out \cup {d} |-> IF x = d THEN u ELSE Events!Gone]])
    BY <1>3 DEF Events!Fit
  <2> DEFINE places == [x \in out \cup {d} |-> IF x = d THEN u ELSE Events!Gone]
  <2>2. DOMAIN places \subseteq Contract.devices /\ \A x \in DOMAIN places : places[x] \in Contract.units \cup {Events!Gone}
    OBVIOUS
  <2> HIDE DEF places
  <2>3. Writes([Events!Nothing EXCEPT !.place = places])
    BY <2>2 DEF Writes, Events!Nothing
  <2>4. QED  BY <2>1, <2>3, FlushKeeps DEF places
<1>4. ASSUME NEW d \in Contract.devices, Events!TakeOut(r, d) PROVE EventInv'
  <2>1. Writes([Events!Nothing EXCEPT !.place = [x \in {d} |-> Events!Gone]])
    BY DEF Writes, Events!Nothing
  <2>2. QED  BY <1>4, <2>1, FlushKeeps DEF Events!TakeOut
<1>5. ASSUME NEW u \in Contract.units, Events!DeleteUnit(r, u) PROVE EventInv'
  <2>1. Writes([Events!Nothing EXCEPT !.delete = {u}])
    BY DEF Writes, Events!Nothing
  <2>2. QED  BY <1>5, <2>1, FlushKeeps DEF Events!DeleteUnit
<1>6. ASSUME NEW p \in Contract.people, NEW s \in Events!Statuses \cup {Events!Gone}, Events!SetSeat(r, p, s) PROVE EventInv'
  <2>1. Writes([Events!Nothing EXCEPT !.seat = [x \in {p} |-> s]])
    BY DEF Writes, Events!Nothing
  <2>2. QED  BY <1>6, <2>1, FlushKeeps DEF Events!SetSeat
<1>7. QED  BY <1>1, <1>2, <1>3, <1>4, <1>5, <1>6

\* A request that has nothing to send any more, or is not sure of it.
LEMMA EndsKeep ==
    ASSUME EventInv, NEW r \in Contract.requests, Events!Abort(r) \/ Events!Finish(r) \/ Events!Dies(r) PROVE EventInv'
<1>1. /\ tx' = [tx EXCEPT ![r] = Events!Idle]
      /\ UNCHANGED <<Events!base, topic, Events!consumer, been>>
      /\ unsure \subseteq unsure'
      /\ Due(r) \cup Events!Awaiting(r) \subseteq unsure'
  <2>1. CASE Events!Abort(r)
    BY <2>1 DEF Events!Abort, Due, Events!Awaiting
  <2>2. CASE Events!Finish(r)
    BY <2>2 DEF Events!Finish, Due, Events!Awaiting
  <2>3. CASE Events!Dies(r)
    BY <2>3 DEF Events!Dies, Due
  <2>4. QED  BY <2>1, <2>2, <2>3
<1>2. TruthOf(Events!Idle) /\ Events!Idle.phase = "idle"
  BY DEF TruthOf, Events!Idle
<1>3. QED  BY <1>1, <1>2, RequestKeeps

LEMMA EventBuildKeeps ==
    ASSUME EventInv, NEW r \in Contract.requests, Events!Build(r) PROVE EventInv'
<1> DEFINE keys == tx[r].keys \cup Events!Expanded(tx[r].units)
           t == [phase |-> "publishing", events |-> [k \in keys |-> Events!View(k)]]
<1>1. /\ tx[r].phase = "committed"
      /\ tx' = [tx EXCEPT ![r] = t]
      /\ unsure' = unsure \cup {k \in keys : \E s \in Contract.requests \ {r} : k \in Events!Awaiting(s)}
      /\ UNCHANGED <<Events!base, topic, Events!consumer, been>>
  BY DEF Events!Build
<1>2. keys \subseteq Events!Keys
  BY <1>1, ExpandedAreKeys DEF EventInv, EventTypes, TruthOf
<1>3. Due(r) = keys /\ Events!Awaiting(r) = {}
  BY <1>1 DEF Due, Events!Awaiting
<1>4. /\ t.phase = "publishing" /\ t = [phase |-> "publishing", events |-> t.events]
      /\ DOMAIN t.events = keys
      /\ \A k \in keys : t.events[k] = Events!Truth(k) /\ t.events[k] \in States /\ t.events[k] \in been[k]
  <2>1. /\ t.phase = "publishing" /\ t = [phase |-> "publishing", events |-> t.events]
        /\ DOMAIN t.events = keys /\ \A k \in keys : t.events[k] = Events!View(k)
    OBVIOUS
  <2>2. \A k \in keys : Events!View(k) = Events!Truth(k) /\ Events!Truth(k) \in States /\ Events!Truth(k) \in been[k]
    BY <1>2, ViewIsTruth DEF EventInv, EventTypes, Truthful
  <2>3. QED  BY <2>1, <2>2
<1> HIDE DEF t, keys
<1>5. TruthOf(t)
  BY <1>2, <1>4 DEF TruthOf
<1>6. QED  BY <1>1, <1>3, <1>4, <1>5, RequestKeeps

\* What is left to send.
LEMMA WithoutForm ==
    ASSUME EventTypes, NEW r \in Contract.requests, NEW k \in Events!Awaiting(r)
    PROVE  \E t : /\ Events!Without(r, k) = [tx EXCEPT ![r] = t]
                  /\ TruthOf(t) /\ t.phase = "publishing"
                  /\ DOMAIN t.events = Events!Awaiting(r) \ {k}
                  /\ \A x \in Events!Awaiting(r) \ {k} : t.events[x] = tx[r].events[x]
<1> DEFINE rest == [x \in DOMAIN tx[r].events \ {k} |-> tx[r].events[x]]
           t == [tx[r] EXCEPT !.events = rest]
<1>1. tx[r].phase = "publishing" /\ Events!Awaiting(r) = DOMAIN tx[r].events
  BY DEF Events!Awaiting
<1>2. /\ tx[r] = [phase |-> "publishing", events |-> tx[r].events]
      /\ Events!Awaiting(r) \subseteq Events!Keys
      /\ \A x \in Events!Awaiting(r) : tx[r].events[x] \in States
  BY <1>1 DEF EventTypes, TruthOf
<1>3. Events!Without(r, k) = [tx EXCEPT ![r] = t]
  BY DEF Events!Without
<1>4. DOMAIN rest = Events!Awaiting(r) \ {k} /\ \A x \in Events!Awaiting(r) \ {k} : rest[x] = tx[r].events[x]
  BY <1>1
<1> HIDE DEF rest
<1>5. t = [phase |-> "publishing", events |-> rest]
  BY <1>2
<1>6. t.phase = "publishing" /\ t.events = rest /\ t = [phase |-> "publishing", events |-> t.events]
  BY <1>5
<1> HIDE DEF t
<1>7. TruthOf(t)
  BY <1>2, <1>4, <1>6 DEF TruthOf
<1>8. QED  BY <1>3, <1>4, <1>6, <1>7, Zenon

LEMMA FailKeeps ==
    ASSUME EventInv, NEW r \in Contract.requests, NEW k \in Events!Awaiting(r), Events!PublishFails(r, k) PROVE EventInv'
<1>1. /\ tx[r].phase = "publishing" /\ Events!Awaiting(r) = DOMAIN tx[r].events
      /\ UNCHANGED <<Events!base, topic, Events!consumer, been>>
      /\ unsure' = unsure \cup {k}
      /\ Due(r) = {}
      /\ tx' = Events!Without(r, k)
  BY DEF Events!PublishFails, Events!Awaiting, Due
<1>2. PICK t : /\ Events!Without(r, k) = [tx EXCEPT ![r] = t]
               /\ TruthOf(t) /\ t.phase = "publishing"
               /\ DOMAIN t.events = Events!Awaiting(r) \ {k}
               /\ \A x \in Events!Awaiting(r) \ {k} : t.events[x] = tx[r].events[x]
  BY WithoutForm DEF EventInv
<1>3. \A x \in Events!Awaiting(r) : tx[r].events[x] \in been[x]
  BY DEF EventInv, Truthful
<1>4. QED  BY <1>1, <1>2, <1>3, RequestKeeps

\* Which keys a set of deleted units stands for.
LEMMA ExpandedForms ==
    ASSUME BaseTypes, NEW k \in Events!Keys, NEW units
    PROVE  /\ k[1] = "user_unit" =>
                (k \in Events!Expanded(units) <=> <<k[2], k[3]>> \in granted /\ k[3] \in units)
           /\ k[1] = "unit_device" => (k \in Events!Expanded(units) <=> fitted[k[2]] \in units)
           /\ k[1] = "organization_user" => k \notin Events!Expanded(units)
<1>1. \A g \in granted : g = <<g[1], g[2]>>
  BY DEF BaseTypes
<1>2. CASE k[1] = "user_unit"
  BY <1>1, <1>2, KeyShapes DEF Events!Expanded, Events!Grant, Events!Place
<1>3. CASE k[1] # "user_unit"
  BY <1>3, KeyShapes DEF Events!Expanded, Events!Grant, Events!Place, Events!Seat
<1>4. QED  BY <1>2, <1>3

LEMMA ExpandedFormsNext ==
    ASSUME BaseTypes', NEW k \in Events!Keys, NEW units
    PROVE  /\ k[1] = "user_unit" =>
                (k \in Events!Expanded(units)' <=> <<k[2], k[3]>> \in granted' /\ k[3] \in units)
           /\ k[1] = "unit_device" => (k \in Events!Expanded(units)' <=> fitted'[k[2]] \in units)
           /\ k[1] = "organization_user" => k \notin Events!Expanded(units)'
<1>1. \A g \in granted' : g = <<g[1], g[2]>>
  BY DEF BaseTypes
<1>2. CASE k[1] = "user_unit"
  BY <1>1, <1>2, KeyShapes DEF Events!Expanded, Events!Grant, Events!Place
<1>3. CASE k[1] # "user_unit"
  BY <1>3, KeyShapes DEF Events!Expanded, Events!Grant, Events!Place, Events!Seat
<1>4. QED  BY <1>2, <1>3

\* A commit changes no key but those it noted and those its deleted units
\* stand for.
LEMMA CommitChanges ==
    ASSUME EventTypes, NEW r \in Contract.requests, Events!Commit(r)
    PROVE  /\ BaseTypes'
           /\ \A gone : gone = tx[r].units => \A k \in Events!Keys :
                k \notin tx[r].keys /\ k \notin Events!Expanded(gone)' =>
                /\ Events!Truth(k)' = Events!Truth(k)
                /\ \A units : k \in Events!Expanded(units)' <=> k \in Events!Expanded(units)
<1>0. PICK w : w = tx[r].writes
  OBVIOUS
<1>1. tx[r].phase = "open" /\ Writes(w) /\ tx[r].keys = Events!Noted(w) /\ tx[r].units = w.delete
  BY <1>0 DEF Events!Commit, EventTypes, TruthOf
<1>2. /\ granted' = (granted \cup w.grant) \ w.revoke
      /\ fitted' = Events!Over(fitted, w.place)
      /\ seats' = Events!Over(seats, w.seat)
      /\ deleted' = deleted \cup w.delete
  BY <1>0 DEF Events!Commit
<1>3. BaseTypes'
  <2>1. granted' \subseteq Contract.people \X Contract.units /\ deleted' \subseteq Contract.units
    BY <1>1, <1>2 DEF Writes, EventTypes, BaseTypes
  <2>2. fitted' \in [Contract.devices -> Contract.units \cup {Events!Gone}]
    BY <1>1, <1>2 DEF Writes, EventTypes, BaseTypes, Events!Over
  <2>3. seats' \in [Contract.people -> Events!Statuses \cup {Events!Gone}]
    BY <1>1, <1>2 DEF Writes, EventTypes, BaseTypes, Events!Over
  <2>4. QED  BY <2>1, <2>2, <2>3 DEF BaseTypes
<1>4. ASSUME NEW k \in Events!Keys, k \notin Events!Noted(w),
             k \notin Events!Expanded(w.delete)'
      PROVE  Events!Truth(k)' = Events!Truth(k) /\ \A units : k \in Events!Expanded(units)' <=> k \in Events!Expanded(units)
  <2>1. CASE k[1] = "user_unit"
    <3>1. <<k[2], k[3]>> \notin w.grant \cup w.revoke
      BY <1>4, <2>1, KeyShapes DEF Events!Noted, Events!Grant
    <3>2. <<k[2], k[3]>> \in granted' <=> <<k[2], k[3]>> \in granted
      BY <1>2, <3>1
    <3>3. <<k[2], k[3]>> \in granted' => k[3] \notin w.delete
      BY <1>3, <1>4, <2>1, ExpandedFormsNext
    <3>4. Events!Truth(k)' = Events!Truth(k)
      BY <1>2, <2>1, <3>2, <3>3 DEF Events!Truth
    <3>5. QED  BY <1>3, <2>1, <3>2, <3>4, ExpandedForms, ExpandedFormsNext DEF EventTypes
  <2>2. CASE k[1] = "unit_device"
    <3>1. k[2] \in Contract.devices /\ k = Events!Place(k[2])
      BY <2>2, KeyShapes
    <3>2. fitted'[k[2]] = fitted[k[2]]
      BY <1>2, <1>4, <3>1 DEF Events!Noted, Events!Over, EventTypes, BaseTypes
    <3>3. fitted'[k[2]] \notin w.delete
      BY <1>3, <1>4, <2>2, ExpandedFormsNext
    <3>4. Events!Truth(k)' = Events!Truth(k)
      BY <1>2, <2>2, <3>2, <3>3 DEF Events!Truth
    <3>5. QED  BY <1>3, <2>2, <3>2, <3>4, ExpandedForms, ExpandedFormsNext DEF EventTypes
  <2>3. CASE k[1] = "organization_user"
    <3>1. k[2] \in Contract.people /\ k = Events!Seat(k[2])
      BY <2>3, KeyShapes
    <3>2. seats'[k[2]] = seats[k[2]]
      BY <1>2, <1>4, <3>1 DEF Events!Noted, Events!Over, EventTypes, BaseTypes
    <3>3. Events!Truth(k)' = Events!Truth(k)
      BY <2>3, <3>2 DEF Events!Truth
    <3>4. QED  BY <1>3, <2>3, <3>3, ExpandedForms, ExpandedFormsNext DEF EventTypes
  <2>4. QED  BY <2>1, <2>2, <2>3, KeyShapes
<1>5. QED  BY <1>1, <1>3, <1>4

LEMMA EventCommitKeeps ==
    ASSUME EventInv, NEW r \in Contract.requests, Events!Commit(r) PROVE EventInv'
<1>1. PICK gone, noted : gone = tx[r].units /\ noted = tx[r].keys
  OBVIOUS
<1>2. /\ tx' = [tx EXCEPT ![r] = [phase |-> "committed", keys |-> noted, units |-> gone]]
      /\ tx[r].phase = "open"
      /\ UNCHANGED <<topic, reader, copy, unsure>>
      /\ been' = [k \in Events!Keys |-> been[k] \cup {Events!Truth(k)'}]
  BY <1>1 DEF Events!Commit, Events!consumer
<1>3. noted \subseteq Events!Keys /\ gone \subseteq Contract.units
  <2>1. PICK t : t = tx[r]
    OBVIOUS
  <2>2. TruthOf(t) /\ t.phase = "open" /\ gone = t.units /\ noted = t.keys
    BY <1>1, <1>2, <2>1 DEF EventInv, EventTypes
  <2>3. Writes(t.writes) /\ noted = Events!Noted(t.writes) /\ gone = t.writes.delete
    BY <2>2 DEF TruthOf
  <2>4. QED  BY <2>3, NotedAreKeys DEF Writes
<1>4. /\ tx'[r] = [phase |-> "committed", keys |-> noted, units |-> gone]
      /\ \A s \in Contract.requests \ {r} : tx'[s] = tx[s]
  BY <1>2 DEF EventInv, EventTypes
<1>5. /\ BaseTypes'
      /\ \A k \in Events!Keys : k \notin noted /\ k \notin Events!Expanded(gone)' =>
            /\ Events!Truth(k)' = Events!Truth(k)
            /\ \A units : k \in Events!Expanded(units)' <=> k \in Events!Expanded(units)
  BY <1>1, CommitChanges DEF EventInv
<1>6. EventTypes'
  <2>1. tx' = [s \in Contract.requests |-> tx'[s]] /\ been' = [k \in Events!Keys |-> been'[k]]
    BY <1>2 DEF EventInv, EventTypes
  <2>2. ASSUME NEW s \in Contract.requests PROVE TruthOf(tx'[s])
    <3>1. TruthOf([phase |-> "committed", keys |-> noted, units |-> gone])
      BY <1>3 DEF TruthOf
    <3>2. TruthOf(tx[s])
      BY DEF EventInv, EventTypes
    <3>3. QED  BY <1>4, <3>1, <3>2
  <2>3. (\A s \in Contract.requests : TruthOf(tx'[s])) <=> (\A s \in Contract.requests : TruthOf(tx[s]))'
    BY DEF TruthOf, Writes, Events!Noted
  <2>4. QED  BY <1>2, <1>5, <2>1, <2>2, <2>3 DEF EventInv, EventTypes
<1>7. /\ \A s \in Contract.requests : Events!Awaiting(s)' = Events!Awaiting(s)
      /\ \A s \in Contract.requests : \A k \in Events!Awaiting(s) : s # r
      /\ Due(r) = {}
  BY <1>2, <1>4 DEF Events!Awaiting, Due
<1>8. Truthful'
  <2>1. \A k \in Events!Keys : Events!Truth(k)' \in been'[k] /\ been[k] \subseteq been'[k]
    BY <1>2
  <2>2. \A s \in Contract.requests : \A k \in Events!Awaiting(s)' : k \in Events!Keys /\ tx'[s].events[k] \in been'[k]
    <3>1. \A s \in Contract.requests : Events!Awaiting(s) \subseteq Events!Keys
      BY DEF EventInv, EventTypes, TruthOf, Events!Awaiting
    <3>2. QED  BY <1>4, <1>7, <2>1, <3>1 DEF EventInv, Truthful
  <2>3. Events!EventsWereTrue'
    <3>1. \A i \in 1 .. Len(topic) : topic[i].key \in Events!Keys
      <4>1. topic \in Seq(Messages) /\ \A m \in Messages : m.key \in Events!Keys
        BY DEF EventInv, EventTypes, Messages
      <4>2. QED  BY <4>1
    <3>2. QED  BY <1>2, <2>1, <3>1 DEF EventInv, Truthful, Events!EventsWereTrue
  <2>4. QED  BY <2>1, <2>2, <2>3 DEF Truthful
<1>9. ASSUME NEW k \in Events!Keys \ unsure' PROVE Settling(k)'
  <2>1. Settling(k)
    BY <1>2 DEF EventInv
  <2>2. \A q, s \in Contract.requests : k \in Events!Awaiting(q)' /\ k \in Events!Awaiting(s)' => q = s
    BY <1>7, <2>1 DEF Settling
  <2>3. ASSUME \A s \in Contract.requests : k \notin Due(s)'
        PROVE  /\ \A s \in Contract.requests : k \in Events!Awaiting(s)' => tx'[s].events[k] = Events!Truth(k)'
               /\ (\A s \in Contract.requests : k \notin Events!Awaiting(s)') => Told(k)'
    <3>1. k \notin noted /\ k \notin Events!Expanded(gone)'
      <4>1. tx'[r].phase = "committed" /\ tx'[r].keys = noted /\ tx'[r].units = gone
        BY <1>4
      <4>2. k \notin Due(r)'
        BY <2>3
      <4>3. Due(r)' = noted \cup Events!Expanded(gone)'
        BY <4>1 DEF Due, Events!Expanded
      <4>4. QED  BY <4>2, <4>3
    <3>2. /\ Events!Truth(k)' = Events!Truth(k)
          /\ \A units : k \in Events!Expanded(units)' <=> k \in Events!Expanded(units)
      BY <1>5, <3>1
    <3>3. ASSUME NEW s \in Contract.requests \ {r} PROVE k \notin Due(s)
      <4>1. PICK units : units = tx[s].units
        OBVIOUS
      <4>2. tx'[s] = tx[s] /\ (tx[s].phase = "committed" => Due(s)' = tx[s].keys \cup Events!Expanded(units)')
        BY <1>4, <4>1 DEF Due, Events!Expanded
      <4>3. tx[s].phase = "committed" => Due(s) = tx[s].keys \cup Events!Expanded(units)
        BY <4>1 DEF Due
      <4>4. k \notin Due(s)'
        BY <2>3
      <4>5. k \in Events!Expanded(units)' <=> k \in Events!Expanded(units)
        BY <3>2
      <4>6. tx[s].phase # "committed" => Due(s) = {}
        BY DEF Due
      <4>7. QED  BY <4>2, <4>3, <4>4, <4>5, <4>6
    <3>4. /\ \A s \in Contract.requests : k \in Events!Awaiting(s) => tx[s].events[k] = Events!Truth(k)
          /\ (\A s \in Contract.requests : k \notin Events!Awaiting(s)) => Told(k)
      BY <1>7, <2>1, <3>3 DEF Settling
    <3>5. Told(k)' <=> Told(k)
      BY <1>2, <3>2 DEF Told
    <3>6. QED  BY <1>4, <1>7, <3>2, <3>4, <3>5
  <2>4. QED  BY <2>2, <2>3 DEF Settling
<1>10. QED  BY <1>6, <1>8, <1>9 DEF EventInv

LEMMA ConsumeKeeps == ASSUME EventInv, Events!Consume PROVE EventInv'
<1> DEFINE m == Head(topic)
<1>1. /\ reader = "live" /\ topic # <<>>
      /\ copy' = [copy EXCEPT ![m.key] = m.state]
      /\ topic' = Tail(topic)
      /\ UNCHANGED <<granted, fitted, seats, deleted, tx, reader, been, unsure>>
  BY DEF Events!Consume, Events!base
<1>2. /\ topic \in Seq(Messages) /\ m = topic[1] /\ m \in Messages
      /\ Len(topic) \in Nat /\ Len(topic) >= 1
      /\ topic' \in Seq(Messages) /\ Len(topic') = Len(topic) - 1
      /\ \A i \in 1 .. Len(topic') : topic'[i] = topic[i + 1]
  BY <1>1, HeadTailProperties DEF EventInv, EventTypes
<1> HIDE DEF m
<1>3. /\ \A k : Events!Truth(k)' = Events!Truth(k)
      /\ \A r : Due(r)' = Due(r) /\ Events!Awaiting(r)' = Events!Awaiting(r)
  BY <1>1 DEF Events!Truth, Due, Events!Awaiting, Events!Expanded
<1>4. EventTypes'
  <2>1. copy' = [k \in Events!Keys |-> copy'[k]]
    BY <1>1 DEF EventInv, EventTypes
  <2>2. QED  BY <1>1, <1>2, <2>1 DEF EventInv, EventTypes, BaseTypes, TruthOf, Writes,
                Events!Noted
<1>5. Truthful'
  <2>1. \A i \in 1 .. Len(topic') : i + 1 \in 1 .. Len(topic)
    BY <1>2
  <2>2. Events!EventsWereTrue'
    BY <1>1, <1>2, <2>1 DEF EventInv, Truthful, Events!EventsWereTrue
  <2>3. QED  BY <1>1, <1>3, <2>2 DEF EventInv, Truthful
<1>6. ASSUME NEW k \in Events!Keys \ unsure' PROVE Settling(k)'
  <2>1. Settling(k)
    BY <1>1 DEF EventInv
  <2>2. Told(k) => Told(k)'
    <3> SUFFICES ASSUME Told(k) PROVE Told(k)'
      OBVIOUS
    <3>1. ASSUME NEW i \in 1 .. Len(topic'), topic'[i].key = k,
                 \A j \in 1 .. Len(topic') : topic'[j].key = k => j <= i
          PROVE  topic'[i].state = Events!Truth(k)
      <4>1. i + 1 \in 1 .. Len(topic) /\ topic[i + 1] = topic'[i]
        BY <1>2
      <4>2. ASSUME NEW j \in 1 .. Len(topic), topic[j].key = k PROVE j <= i + 1
        <5>1. CASE j = 1
          BY <5>1
        <5>2. CASE j # 1
          <6>1. j - 1 \in 1 .. Len(topic') /\ topic'[j - 1] = topic[j]
            BY <1>2, <5>2
          <6>2. QED  BY <3>1, <4>2, <6>1
        <5>3. QED  BY <5>1, <5>2
      <4>3. QED  BY <3>1, <4>1, <4>2 DEF Told
    <3>2. ASSUME \A i \in 1 .. Len(topic') : topic'[i].key # k PROVE copy'[k] = Events!Truth(k)
      <4>1. \A j \in 1 .. Len(topic) : topic[j].key = k => j = 1
        <5>1. ASSUME NEW j \in 1 .. Len(topic), j # 1 PROVE topic[j].key # k
          <6>1. j - 1 \in 1 .. Len(topic') /\ topic'[j - 1] = topic[j]
            BY <1>2, <5>1
          <6>2. QED  BY <3>2, <6>1
        <5>2. QED  BY <5>1
      <4>2. CASE m.key = k
        <5>1. topic[1].state = Events!Truth(k)
          BY <1>2, <4>1, <4>2 DEF Told
        <5>2. QED  BY <1>1, <1>2, <4>2, <5>1 DEF EventInv, EventTypes
      <4>3. CASE m.key # k
        <5>1. \A j \in 1 .. Len(topic) : topic[j].key # k
          BY <1>2, <4>1, <4>3
        <5>2. copy[k] = Events!Truth(k)
          BY <1>1, <5>1 DEF Told
        <5>3. QED  BY <1>1, <4>3, <5>2 DEF EventInv, EventTypes
      <4>4. QED  BY <4>2, <4>3
    <3>3. QED  BY <1>3, <3>1, <3>2 DEF Told
  <2>3. QED  BY <1>1, <1>3, <2>1, <2>2 DEF Settling
<1>7. QED  BY <1>4, <1>5, <1>6 DEF EventInv

\* An event at the end of the topic leaves alone what is told of other keys.
LEMMA PublishedElsewhere ==
    ASSUME EventInv, NEW m \in Messages, topic' = Append(topic, m),
           UNCHANGED <<granted, fitted, seats, deleted, reader, copy>>,
           NEW k \in Events!Keys, m.key # k, Told(k)
    PROVE  Told(k)'
<1>1. /\ Len(topic) \in Nat /\ Len(topic') = Len(topic) + 1
      /\ topic'[Len(topic) + 1] = m
      /\ \A i \in 1 .. Len(topic) : topic'[i] = topic[i]
  BY AppendProperties DEF EventInv, EventTypes
<1>2. Events!Truth(k)' = Events!Truth(k)
  BY DEF Events!Truth
<1>3. ASSUME NEW i \in 1 .. Len(topic'), topic'[i].key = k,
             \A j \in 1 .. Len(topic') : topic'[j].key = k => j <= i
      PROVE  topic'[i].state = Events!Truth(k)
  <2>1. i \in 1 .. Len(topic) /\ topic'[i] = topic[i]
    BY <1>1, <1>3
  <2>2. \A j \in 1 .. Len(topic) : topic[j].key = k => j <= i
    BY <1>1, <1>3
  <2>3. QED  BY <1>3, <2>1, <2>2 DEF Told
<1>4. ASSUME reader = "live", \A i \in 1 .. Len(topic') : topic'[i].key # k
      PROVE  copy[k] = Events!Truth(k)
  <2>1. \A i \in 1 .. Len(topic) : topic[i].key # k
    BY <1>1, <1>4
  <2>2. QED  BY <1>4, <2>1 DEF Told
<1>5. QED  BY <1>2, <1>3, <1>4 DEF Told

LEMMA PublishedLast ==
    ASSUME EventInv, NEW m \in Messages, topic' = Append(topic, m),
           UNCHANGED <<granted, fitted, seats, deleted>>, m.state = Events!Truth(m.key)
    PROVE  Told(m.key)'
<1>1. /\ Len(topic) \in Nat /\ Len(topic') = Len(topic) + 1
      /\ topic'[Len(topic) + 1] = m
  BY AppendProperties DEF EventInv, EventTypes
<1>2. Len(topic') \in 1 .. Len(topic') /\ topic'[Len(topic')] = m
  BY <1>1
<1>3. Events!Truth(m.key)' = m.state
  BY DEF Events!Truth
<1>4. ASSUME NEW i \in 1 .. Len(topic'),
             \A j \in 1 .. Len(topic') : topic'[j].key = m.key => j <= i
      PROVE  topic'[i] = m
  <2>1. Len(topic') <= i
    BY <1>2, <1>4
  <2>2. i = Len(topic')
    BY <1>1, <2>1
  <2>3. QED  BY <1>2, <2>2
<1>5. QED  BY <1>2, <1>3, <1>4 DEF Told

\* One event is sent, and is still to be sent again or not.
LEMMA PublishKeeps ==
    ASSUME EventInv, NEW r \in Contract.requests, NEW k \in Events!Awaiting(r),
           Events!Publish(r, k) \/ Events!PublishTwice(r, k)
    PROVE  EventInv'
<1> DEFINE m == [key |-> k, state |-> tx[r].events[k]]
<1>1. /\ topic' = Append(topic, m)
      /\ UNCHANGED <<granted, fitted, seats, deleted, reader, copy, been, unsure>>
      /\ tx' = tx \/ tx' = Events!Without(r, k)
  BY DEF Events!Publish, Events!PublishTwice, Events!base, Events!consumer
<1>2. /\ tx[r].phase = "publishing" /\ Events!Awaiting(r) = DOMAIN tx[r].events /\ Due(r) = {}
      /\ k \in Events!Keys /\ tx[r].events[k] \in States /\ tx[r].events[k] \in been[k]
  BY DEF EventInv, EventTypes, Truthful, TruthOf, Events!Awaiting, Due
<1>3. m \in Messages /\ m.key = k /\ m.state = tx[r].events[k]
  BY <1>2 DEF Messages
<1> HIDE DEF m
<1>4. /\ topic \in Seq(Messages) /\ topic' \in Seq(Messages)
      /\ Len(topic) \in Nat /\ Len(topic') = Len(topic) + 1
      /\ topic'[Len(topic) + 1] = m
      /\ \A i \in 1 .. Len(topic) : topic'[i] = topic[i]
  BY <1>1, <1>3, AppendProperties DEF EventInv, EventTypes
<1>5. PICK rest : /\ rest = Events!Awaiting(r) \/ rest = Events!Awaiting(r) \ {k}
                  /\ Events!Awaiting(r)' = rest
                  /\ \A x \in rest : tx'[r].events[x] = tx[r].events[x]
                  /\ \A s \in Contract.requests \ {r} : tx'[s] = tx[s]
                  /\ TruthOf(tx'[r]) /\ tx'[r].phase = "publishing"
                  /\ tx' = [s \in Contract.requests |-> tx'[s]]
  <2>1. CASE tx' = tx
    BY <1>2, <2>1 DEF EventInv, EventTypes, Events!Awaiting
  <2>2. CASE tx' = Events!Without(r, k)
    <3>1. PICK t : /\ Events!Without(r, k) = [tx EXCEPT ![r] = t]
                   /\ TruthOf(t) /\ t.phase = "publishing"
                   /\ DOMAIN t.events = Events!Awaiting(r) \ {k}
                   /\ \A x \in Events!Awaiting(r) \ {k} : t.events[x] = tx[r].events[x]
      BY WithoutForm DEF EventInv
    <3>2. tx' = [tx EXCEPT ![r] = t] /\ tx = [s \in Contract.requests |-> tx[s]]
      BY <2>2, <3>1 DEF EventInv, EventTypes
    <3>3. tx'[r] = t /\ (\A s \in Contract.requests \ {r} : tx'[s] = tx[s]) /\ tx' = [s \in Contract.requests |-> tx'[s]]
      BY <3>2
    <3>4. Events!Awaiting(r)' = Events!Awaiting(r) \ {k}
      BY <3>1, <3>3 DEF Events!Awaiting
    <3>5. QED  BY <3>1, <3>3, <3>4
  <2>3. QED  BY <1>1, <2>1, <2>2
<1>6. EventTypes'
  <2>1. \A s \in Contract.requests : TruthOf(tx'[s])
    BY <1>5 DEF EventInv, EventTypes
  <2>2. BaseTypes'
    BY <1>1 DEF EventInv, EventTypes, BaseTypes
  <2>3. (\A s \in Contract.requests : TruthOf(tx'[s])) <=> (\A s \in Contract.requests : TruthOf(tx[s]))'
    BY DEF TruthOf, Writes, Events!Noted
  <2>4. QED  BY <1>1, <1>4, <1>5, <2>1, <2>2, <2>3 DEF EventInv, EventTypes
<1>7. /\ \A x : Events!Truth(x)' = Events!Truth(x)
      /\ \A s \in Contract.requests \ {r} : Due(s)' = Due(s) /\ Events!Awaiting(s)' = Events!Awaiting(s)
      /\ Due(r)' = {}
  BY <1>1, <1>5 DEF Events!Truth, Due, Events!Awaiting, Events!Expanded
<1>8. Truthful'
  <2>1. Events!EventsWereTrue'
    BY <1>1, <1>2, <1>3, <1>4 DEF EventInv, Truthful, Events!EventsWereTrue
  <2>2. \A s \in Contract.requests : \A x \in Events!Awaiting(s)' : tx'[s].events[x] \in been'[x]
    BY <1>1, <1>5, <1>7 DEF EventInv, Truthful
  <2>3. QED  BY <1>1, <1>7, <2>1, <2>2 DEF EventInv, Truthful
<1>9. ASSUME NEW x \in Events!Keys \ unsure' PROVE Settling(x)'
  <2>1. Settling(x)
    BY <1>1 DEF EventInv
  <2>2. \A q, s \in Contract.requests : x \in Events!Awaiting(q)' /\ x \in Events!Awaiting(s)' => q = s
    BY <1>5, <1>7, <2>1 DEF Settling
  <2>3. ASSUME \A s \in Contract.requests : x \notin Due(s)'
        PROVE  /\ \A s \in Contract.requests : x \in Events!Awaiting(s)' => tx'[s].events[x] = Events!Truth(x)
               /\ (\A s \in Contract.requests : x \notin Events!Awaiting(s)') => Told(x)'
    <3>1. /\ \A s \in Contract.requests : x \in Events!Awaiting(s) => tx[s].events[x] = Events!Truth(x)
          /\ (\A s \in Contract.requests : x \notin Events!Awaiting(s)) => Told(x)
      BY <1>2, <1>7, <2>1, <2>3 DEF Settling
    <3>2. \A s \in Contract.requests : x \in Events!Awaiting(s)' => tx'[s].events[x] = Events!Truth(x)
      BY <1>5, <1>7, <3>1
    <3>3. CASE x = k
      BY <1>1, <1>3, <3>1, <3>2, <3>3, PublishedLast
    <3>4. CASE x # k
      <4>1. (\A s \in Contract.requests : x \notin Events!Awaiting(s)') => Told(x)
        BY <1>5, <1>7, <3>1, <3>4
      <4>2. QED  BY <1>1, <1>3, <3>2, <3>4, <4>1, PublishedElsewhere
    <3>5. QED  BY <3>3, <3>4
  <2>4. QED  BY <1>7, <2>2, <2>3 DEF Settling
<1>10. QED  BY <1>6, <1>8, <1>9 DEF EventInv

LEMMA NoteKeeps == ASSUME EventInv, Events!NoteOffset PROVE EventInv'
<1>1. /\ reader' = "noted" /\ topic' = <<>>
      /\ unsure' = {k \in unsure : \E r \in Contract.requests : k \in Events!Awaiting(r)}
      /\ UNCHANGED <<granted, fitted, seats, deleted, tx, copy, been>>
  BY DEF Events!NoteOffset, Events!base
<1>2. /\ \A k : Events!Truth(k)' = Events!Truth(k)
      /\ \A r : Due(r)' = Due(r) /\ Events!Awaiting(r)' = Events!Awaiting(r)
  BY <1>1 DEF Events!Truth, Due, Events!Awaiting, Events!Expanded
<1>3. topic' \in Seq(Messages) /\ 1 .. Len(topic') = {}
  BY <1>1
<1>4. EventTypes'
  BY <1>1, <1>3 DEF EventInv, EventTypes, BaseTypes, TruthOf, Writes, Events!Noted
<1>5. Truthful'
  BY <1>1, <1>2, <1>3 DEF EventInv, Truthful, Events!EventsWereTrue
<1>6. ASSUME NEW k \in Events!Keys \ unsure' PROVE Settling(k)'
  <2>1. Told(k)'
    BY <1>1, <1>3 DEF Told
  <2>2. Settling(k) \/ \A r \in Contract.requests : k \notin Events!Awaiting(r)
    BY <1>1 DEF EventInv
  <2>3. QED  BY <1>1, <1>2, <2>1, <2>2 DEF Settling
<1>7. QED  BY <1>4, <1>5, <1>6 DEF EventInv

LEMMA SnapshotKeeps == ASSUME EventInv, Events!ReadSnapshot PROVE EventInv'
<1>1. /\ copy' = [k \in Events!Keys |-> Events!View(k)] /\ reader' = "live" /\ reader = "noted"
      /\ UNCHANGED <<granted, fitted, seats, deleted, tx, topic, been, unsure>>
  BY DEF Events!ReadSnapshot, Events!base
<1>2. /\ \A k : Events!Truth(k)' = Events!Truth(k)
      /\ \A r : Due(r)' = Due(r) /\ Events!Awaiting(r)' = Events!Awaiting(r)
  BY <1>1 DEF Events!Truth, Due, Events!Awaiting, Events!Expanded
<1>3. \A k \in Events!Keys : copy'[k] = Events!Truth(k)
  BY <1>1, ViewIsTruth DEF EventInv, EventTypes
<1>4. EventTypes'
  BY <1>1 DEF EventInv, EventTypes, BaseTypes, TruthOf, Writes, Events!Noted
<1>5. Truthful'
  BY <1>1, <1>2 DEF EventInv, Truthful, Events!EventsWereTrue
<1>6. ASSUME NEW k \in Events!Keys \ unsure' PROVE Settling(k)'
  <2>1. Told(k) => Told(k)'
    BY <1>1, <1>2, <1>3 DEF Told
  <2>2. QED  BY <1>1, <1>2, <2>1 DEF EventInv, Settling
<1>7. QED  BY <1>4, <1>5, <1>6 DEF EventInv

LEMMA EventInit == Events!Init => EventInv
<1> SUFFICES ASSUME Events!Init PROVE EventInv
  OBVIOUS
<1>1. /\ granted = {} /\ deleted = {} /\ topic = <<>> /\ reader = "live" /\ unsure = {}
      /\ fitted = [d \in Contract.devices |-> Events!Gone] /\ seats \in [Contract.people -> {"ACTIVE", Events!Gone}]
      /\ tx = [r \in Contract.requests |-> Events!Idle]
      /\ copy = [k \in Events!Keys |-> Events!View(k)] /\ been = [k \in Events!Keys |-> {Events!Truth(k)}]
  BY DEF Events!Init
<1>2. BaseTypes
  BY <1>1 DEF BaseTypes, Events!Statuses
<1>3. EventTypes
  BY <1>1, <1>2 DEF EventTypes, TruthOf, Events!Idle
<1>4. /\ \A r \in Contract.requests : Due(r) = {} /\ Events!Awaiting(r) = {}
      /\ 1 .. Len(topic) = {}
  BY <1>1 DEF Due, Events!Awaiting, Events!Idle
<1>5. Truthful
  BY <1>1, <1>4 DEF Truthful, Events!EventsWereTrue
<1>6. ASSUME NEW k \in Events!Keys PROVE Settling(k)
  <2>1. copy[k] = Events!Truth(k)
    BY <1>1, <1>2, ViewIsTruth
  <2>2. QED  BY <1>4, <2>1 DEF Settling, Told
<1>7. QED  BY <1>3, <1>5, <1>6 DEF EventInv

LEMMA EventStep == EventInv /\ Events!Next => EventInv'
  BY RequestsKeep, EventCommitKeeps, EndsKeep, EventBuildKeeps, PublishKeeps, FailKeeps,
     ConsumeKeeps, NoteKeeps,
     SnapshotKeeps DEF Events!Next, Events!Request, Events!After

LEMMA EventKeeps == ASSUME EventInv, UNCHANGED Events!vars PROVE EventInv'
<1>1. /\ Events!EventsWereTrue' <=> Events!EventsWereTrue
      /\ \A k : (Events!Truth(k)' = Events!Truth(k))
      /\ \A r : (Events!Awaiting(r)' = Events!Awaiting(r))
      /\ \A units : (Events!Expanded(units)' = Events!Expanded(units))
  BY DEF Events!vars, Events!EventsWereTrue, Events!Truth, Events!Awaiting, Events!Expanded
<1>2. QED  BY <1>1 DEF Events!vars, EventInv, EventTypes, BaseTypes, Truthful, Settling, Told,
              Due

LEMMA EventHolds == EventInv => Events!EventsWereTrue /\ Events!CopyConverges
<1> SUFFICES ASSUME EventInv, \A r \in Contract.requests : tx[r] = Events!Idle, topic = <<>>,
                    reader = "live",
                    NEW k \in Events!Keys \ unsure
             PROVE  copy[k] = Events!Truth(k)
  BY DEF EventInv, Truthful, Events!CopyConverges
<1>1. \A r \in Contract.requests : Due(r) = {} /\ Events!Awaiting(r) = {}
  BY DEF Due, Events!Awaiting, Events!Idle
<1>2. Told(k)
  BY <1>1 DEF EventInv, Settling
<1>3. QED  BY <1>2 DEF Told

-----------------------------------------------------------------------------
(* The brand of an account and its editors.                                *)

BrandTypes ==
    /\ brand \in [Drafting.accounts -> Studio!Rows \cup {None}]
    /\ editing = [e \in Drafting.editors |-> editing[e]]
    /\ legible \subseteq Studio!Themes

\* What a request read and is to write: one that saves or discards leaves the
\* name and the theme.
Transaction(t) ==
    /\ t.op \in {"save", "publish", "discard"}
    /\ t.account \in Drafting.accounts /\ t.row \in Studio!Rows /\ t.was \in Studio!Rows \cup {None}
    /\ t.was # None => brand[t.account] # None
    /\ t.was = None => t.op = "save" /\ t.row.name = None /\ t.row.theme = None
    /\ t.was # None /\ t.op # "publish" => t.row.name = t.was.name /\ t.row.theme = t.was.theme

RowsInv == BrandTypes /\ \A e \in Drafting.editors : editing[e] # None => Transaction(editing[e])

\* One that publishes puts a draft, legible still, for what is shown still.
Publishing(t) ==
    t.op = "publish" =>
        /\ [name |-> t.was.name, theme |-> t.was.theme] = Studio!LookOf(t.account)
        /\ t.anterior = Studio!LookOf(t.account)
        /\ [name |-> t.row.name, theme |-> t.row.theme] \in Drafting.drafts
        /\ t.row.theme \in legible

OnePublishes ==
    \A e, x \in Drafting.editors :
        editing[e] # None /\ editing[x] # None /\ editing[e].op = "publish" /\ editing[x].op = "publish"
        => e = x

BrandInv ==
    /\ RowsInv
    /\ \A e \in Drafting.editors : editing[e] # None => Publishing(editing[e])
    /\ OnePublishes
    /\ Studio!BackIsPossible
    /\ Studio!ShownTogether

LEMMA RowForms ==
    ASSUME NEW r \in Studio!Rows
    PROVE  /\ r.draft \in Drafting.drafts \cup {None} /\ r.theme \in Studio!Themes \cup {None}
           /\ DOMAIN r = {"draft", "name", "theme"}
           /\ r = [draft |-> r.draft, name |-> r.name, theme |-> r.theme]
  BY DEF Studio!Rows

\* A transaction that saw a row changes the columns it changed.
LEMMA WrittenForm ==
    ASSUME NEW r \in Studio!Rows, NEW t, t.was \in Studio!Rows, t.row \in Studio!Rows,
           t.was # None
    PROVE  /\ Studio!Written(r, t) \in Studio!Rows
           /\ Studio!Written(r, t).name = IF t.row.name = t.was.name THEN r.name ELSE t.row.name
           /\ Studio!Written(r, t).theme = IF t.row.theme = t.was.theme THEN r.theme ELSE t.row.theme
<1> DEFINE new == [draft |-> IF t.row.draft = t.was.draft THEN r.draft ELSE t.row.draft,
                   name |-> IF t.row.name = t.was.name THEN r.name ELSE t.row.name,
                   theme |-> IF t.row.theme = t.was.theme THEN r.theme ELSE t.row.theme]
<1>1. Studio!Written(r, t) = new
  BY RowForms DEF Studio!Written
<1>2. new \in Studio!Rows
  BY DEF Studio!Rows
<1>3. QED  BY <1>1, <1>2

LEMMA BeginKeepsRows ==
    ASSUME RowsInv, NEW e \in Drafting.editors, NEW t, Studio!Begin(e, t),
           t # None => Transaction(t)
    PROVE  RowsInv'
<1>1. /\ UNCHANGED <<brand, legible>> /\ editing' = [editing EXCEPT ![e] = t]
  BY DEF Studio!Begin
<1>2. \A x \in Drafting.editors : editing'[x] = IF x = e THEN t ELSE editing[x]
  BY <1>1 DEF RowsInv, BrandTypes
<1>3. BrandTypes'
  BY <1>1 DEF RowsInv, BrandTypes
<1>4. ASSUME NEW x \in Drafting.editors, editing'[x] # None PROVE Transaction(editing'[x])
  BY <1>2, <1>4 DEF RowsInv
<1>5. ASSUME NEW x \in Drafting.editors, editing'[x] # None PROVE Transaction(editing[x])'
  BY <1>1, <1>4, <1>5 DEF Transaction
<1>6. QED  BY <1>3, <1>5 DEF RowsInv

\* What a commit does to what accounts show.
LEMMA CommitForm ==
    ASSUME Studio!BrandingAssumption, RowsInv, NEW e \in Drafting.editors, Studio!Commit(e),
           NEW t, t = editing[e], NEW a, a = t.account
    PROVE  /\ t # None /\ Transaction(t) /\ a \in Drafting.accounts
           /\ brand' \in [Drafting.accounts -> Studio!Rows \cup {None}] /\ brand'[a] # None
           /\ \A x \in Drafting.accounts \ {a} : brand'[x] = brand[x]
           /\ t.op # "publish" => Studio!LookOf(a)' = Studio!LookOf(a)
           /\ t.op = "publish" =>
                /\ brand[a] # None
                /\ [name |-> t.was.name, theme |-> t.was.theme] = Studio!LookOf(a) =>
                      /\ Studio!LookOf(a)' = [name |-> t.row.name, theme |-> t.row.theme]
                      /\ brand'[a].theme = t.row.theme
<1>1. /\ t # None /\ Transaction(t) /\ a \in Drafting.accounts
      /\ t.was = None => brand[a] = None
      /\ brand' = [brand EXCEPT ![a] = Studio!Written(brand[a], t)]
  BY DEF Studio!Commit, RowsInv, Transaction
<1> DEFINE new == Studio!Written(brand[a], t)
<1>2. CASE t.was = None
  <2>1. new = t.row
    BY <1>2 DEF Studio!Written
  <2>2. new \in Studio!Rows /\ new # None /\ new.name = None /\ new.theme = None /\ t.op = "save"
    BY <1>1, <1>2, <2>1 DEF Transaction, Studio!BrandingAssumption
  <2> HIDE DEF new
  <2>3. Studio!LookOf(a) = Studio!NoLook /\ Studio!LookOf(a)' = Studio!NoLook
    BY <1>1, <1>2, <2>2 DEF Studio!LookOf, Studio!NoLook, RowsInv, BrandTypes, new
  <2>4. QED  BY <1>1, <2>2, <2>3 DEF RowsInv, BrandTypes, new
<1>3. CASE t.was # None
  <2>1. t.was \in Studio!Rows /\ t.row \in Studio!Rows /\ brand[a] \in Studio!Rows /\ brand[a] # None
    BY <1>1, <1>3 DEF Transaction, RowsInv, BrandTypes
  <2>2. /\ new \in Studio!Rows /\ new # None
        /\ new.name = IF t.row.name = t.was.name THEN brand[a].name ELSE t.row.name
        /\ new.theme = IF t.row.theme = t.was.theme THEN brand[a].theme ELSE t.row.theme
    BY <1>3, <2>1, WrittenForm DEF Studio!BrandingAssumption
  <2> HIDE DEF new
  <2>3. brand'[a] = new /\ brand' \in [Drafting.accounts -> Studio!Rows \cup {None}]
        /\ \A x \in Drafting.accounts \ {a} : brand'[x] = brand[x]
    BY <1>1, <2>2 DEF RowsInv, BrandTypes, new
  <2>4. /\ Studio!LookOf(a) = [name |-> brand[a].name, theme |-> brand[a].theme]
        /\ Studio!LookOf(a)' = [name |-> new.name, theme |-> new.theme]
    BY <2>1, <2>2, <2>3 DEF Studio!LookOf
  <2>5. t.op # "publish" => Studio!LookOf(a)' = Studio!LookOf(a)
    BY <1>1, <1>3, <2>2, <2>4 DEF Transaction
  <2>6. [name |-> t.was.name, theme |-> t.was.theme] = Studio!LookOf(a) =>
            new.name = t.row.name /\ new.theme = t.row.theme
    BY <2>2, <2>4
  <2>7. QED  BY <1>1, <2>1, <2>2, <2>3, <2>4, <2>5, <2>6
<1>4. QED  BY <1>2, <1>3

LEMMA RowsStep ==
    ASSUME Studio!BrandingAssumption, RowsInv, Studio!Next PROVE RowsInv'
<1>1. CASE UNCHANGED <<brand, editing>> /\ legible' \subseteq Studio!Themes
  BY <1>1 DEF RowsInv, BrandTypes, Transaction
<1>2. ASSUME NEW e \in Drafting.editors, NEW a \in Drafting.accounts, NEW d \in Drafting.drafts, Studio!Save(e, a, d) PROVE RowsInv'
  <2> DEFINE new_row == IF brand[a] = None THEN [Studio!Fresh EXCEPT !.draft = d] ELSE [brand[a] EXCEPT !.draft = d]
             t == [op |-> "save", account |-> a, was |-> brand[a], anterior |-> Studio!NoLook, row |-> new_row]
  <2>1. Studio!Begin(e, t)
    BY <1>2 DEF Studio!Save
  <2>2. brand[a] \in Studio!Rows \cup {None}
    BY DEF RowsInv, BrandTypes
  <2>3. /\ new_row \in Studio!Rows
        /\ brand[a] = None => new_row.name = None /\ new_row.theme = None
        /\ brand[a] # None => new_row.name = brand[a].name /\ new_row.theme = brand[a].theme
    BY <2>2 DEF Studio!Fresh, Studio!Rows
  <2> HIDE DEF new_row
  <2>4. Transaction(t)
    BY <2>2, <2>3 DEF Transaction
  <2> HIDE DEF t
  <2>5. QED  BY <2>1, <2>4, BeginKeepsRows
<1>3. ASSUME NEW e \in Drafting.editors, NEW a \in Drafting.accounts, Studio!Publish(e, a) PROVE RowsInv'
  <2> DEFINE t == [op |-> "publish", account |-> a, was |-> brand[a], anterior |-> Studio!Anterior(brand[a]),
                   row |-> Studio!Published(brand[a])]
  <2>1. Studio!Begin(e, t) /\ brand[a] # None /\ brand[a].draft # None
    BY <1>3 DEF Studio!Publish, Studio!Publishable
  <2>2. brand[a] \in Studio!Rows
    BY <2>1 DEF RowsInv, BrandTypes
  <2>3. Studio!Published(brand[a]) \in Studio!Rows
    BY <2>1, <2>2 DEF Studio!Published, Studio!Rows, Studio!Themes
  <2>4. Transaction(t)
    BY <2>1, <2>2, <2>3 DEF Transaction
  <2> HIDE DEF t
  <2>5. QED  BY <2>1, <2>4, BeginKeepsRows
<1>4. ASSUME NEW e \in Drafting.editors, NEW a \in Drafting.accounts, Studio!Discard(e, a) PROVE RowsInv'
  <2> DEFINE new_row == [brand[a] EXCEPT !.draft = None]
             t == [op |-> "discard", account |-> a, was |-> brand[a], anterior |-> Studio!NoLook, row |-> new_row]
  <2>1. Studio!Begin(e, t) /\ brand[a] # None
    BY <1>4 DEF Studio!Discard
  <2>2. brand[a] \in Studio!Rows
    BY <2>1 DEF RowsInv, BrandTypes
  <2>3. new_row \in Studio!Rows /\ new_row.name = brand[a].name /\ new_row.theme = brand[a].theme
    BY <2>2 DEF Studio!Rows
  <2> HIDE DEF new_row
  <2>4. Transaction(t)
    BY <2>1, <2>2, <2>3 DEF Transaction
  <2> HIDE DEF t
  <2>5. QED  BY <2>1, <2>4, BeginKeepsRows
<1>5. ASSUME NEW e \in Drafting.editors, Studio!Commit(e) PROVE RowsInv'
  <2>1. PICK t, a : t = editing[e] /\ a = t.account
    OBVIOUS
  <2>2. /\ brand' \in [Drafting.accounts -> Studio!Rows \cup {None}] /\ brand'[a] # None
        /\ \A x \in Drafting.accounts \ {a} : brand'[x] = brand[x]
    BY <1>5, <2>1, CommitForm
  <2>3. editing' = [editing EXCEPT ![e] = None] /\ UNCHANGED legible
    BY <1>5 DEF Studio!Commit
  <2>4. \A x \in Drafting.editors : editing'[x] = IF x = e THEN None ELSE editing[x]
    BY <2>3 DEF RowsInv, BrandTypes
  <2>5. BrandTypes'
    BY <2>2, <2>3 DEF RowsInv, BrandTypes
  <2>6. ASSUME NEW x \in Drafting.editors, editing'[x] # None PROVE Transaction(editing[x])'
    <3>1. editing'[x] = editing[x] /\ Transaction(editing[x])
      BY <2>4, <2>6 DEF RowsInv
    <3>2. QED  BY <2>2, <3>1 DEF Transaction
  <2>7. QED  BY <2>5, <2>6 DEF RowsInv
<1>6. ASSUME NEW e \in Drafting.editors, Studio!Abort(e) PROVE RowsInv'
  BY <1>6 DEF Studio!Abort, RowsInv, BrandTypes, Transaction
<1>7. QED
  BY <1>1, <1>2, <1>3, <1>4, <1>5, <1>6 DEF Studio!Next, Studio!Deploy, Studio!SetDomain,
     Studio!Ask, Studio!Answer, Studio!Tick, RowsInv, BrandTypes

LEMMA BeginKeepsBrands ==
    ASSUME BrandInv, RowsInv', NEW e \in Drafting.editors, NEW t, Studio!Begin(e, t),
           t # None => Publishing(t),
           t # None /\ t.op = "publish" =>
              \A x \in Drafting.editors : editing[x] # None => editing[x].op # "publish"
    PROVE  BrandInv'
<1>1. /\ UNCHANGED <<brand, legible, events, seen, dim>> /\ editing' = [editing EXCEPT ![e] = t]
  BY DEF Studio!Begin
<1>2. \A x \in Drafting.editors : editing'[x] = IF x = e THEN t ELSE editing[x]
  BY <1>1 DEF BrandInv, RowsInv, BrandTypes
<1>3. \A a : Studio!LookOf(a)' = Studio!LookOf(a)
  BY <1>1 DEF Studio!LookOf
<1>4. ASSUME NEW x \in Drafting.editors, editing'[x] # None PROVE Publishing(editing[x])'
  <2>1. Publishing(editing'[x])
    BY <1>2, <1>4 DEF BrandInv
  <2>2. QED  BY <1>1, <1>3, <2>1 DEF Publishing
<1>5. OnePublishes'
  BY <1>2 DEF BrandInv, OnePublishes
<1>6. Studio!BackIsPossible' /\ Studio!ShownTogether'
  BY <1>1, <1>3 DEF BrandInv, Studio!BackIsPossible, Studio!ShownTogether
<1>7. QED  BY <1>4, <1>5, <1>6 DEF BrandInv

LEMMA CommitKeepsBrands ==
    ASSUME Studio!BrandingAssumption, BrandInv, RowsInv', NEW e \in Drafting.editors, Studio!Commit(e) PROVE BrandInv'
<1>1. PICK t, a : t = editing[e] /\ a = t.account
  OBVIOUS
<1>2. /\ t # None /\ Transaction(t) /\ Publishing(t) /\ a \in Drafting.accounts
      /\ \A x \in Drafting.accounts \ {a} : brand'[x] = brand[x]
      /\ t.op # "publish" => Studio!LookOf(a)' = Studio!LookOf(a)
      /\ t.op = "publish" =>
           /\ brand[a] # None
           /\ [name |-> t.was.name, theme |-> t.was.theme] = Studio!LookOf(a) =>
                 /\ Studio!LookOf(a)' = [name |-> t.row.name, theme |-> t.row.theme]
                 /\ brand'[a].theme = t.row.theme
  <2>1. t # None /\ Publishing(t)
    BY <1>1 DEF Studio!Commit, BrandInv
  <2>2. QED  BY <1>1, <2>1, CommitForm DEF BrandInv
<1>3. /\ \A x \in Drafting.editors : editing'[x] = IF x = e THEN None ELSE editing[x]
      /\ UNCHANGED legible
  BY DEF Studio!Commit, BrandInv, RowsInv, BrandTypes
<1>4. \A x \in Drafting.accounts \ {a} : Studio!LookOf(x)' = Studio!LookOf(x)
  BY <1>2 DEF Studio!LookOf
<1>5. ASSUME NEW x \in Drafting.editors, editing'[x] # None PROVE Publishing(editing[x])'
  <2>1. x # e /\ editing'[x] = editing[x] /\ Publishing(editing[x]) /\ Transaction(editing[x])
    BY <1>3, <1>5 DEF BrandInv, RowsInv
  <2>2. PICK u, b : u = editing[x] /\ b = u.account
    OBVIOUS
  <2>3. editing'[x] = u /\ Publishing(u) /\ b \in Drafting.accounts
    BY <2>1, <2>2 DEF Transaction
  <2>4. u.op = "publish" => t.op # "publish"
    BY <1>1, <1>2, <1>3, <1>5, <2>1, <2>2 DEF BrandInv, OnePublishes
  <2>5. u.op = "publish" => Studio!LookOf(b)' = Studio!LookOf(b)
    BY <1>2, <1>4, <2>3, <2>4
  <2>6. u.op = "publish" =>
           /\ [name |-> u.was.name, theme |-> u.was.theme] = Studio!LookOf(b)'
           /\ u.anterior = Studio!LookOf(b)'
           /\ [name |-> u.row.name, theme |-> u.row.theme] \in Drafting.drafts
           /\ u.row.theme \in legible'
    BY <1>3, <2>2, <2>3, <2>5 DEF Publishing
  <2>7. Publishing(editing[x])' <=> (u.op = "publish" =>
           /\ [name |-> u.was.name, theme |-> u.was.theme] = Studio!LookOf(b)'
           /\ u.anterior = Studio!LookOf(b)'
           /\ [name |-> u.row.name, theme |-> u.row.theme] \in Drafting.drafts
           /\ u.row.theme \in legible')
    BY <2>2, <2>3 DEF Publishing, Studio!LookOf
  <2>8. QED  BY <2>6, <2>7
<1>6. OnePublishes'
  BY <1>3 DEF BrandInv, OnePublishes
<1>7. Studio!BackIsPossible' /\ Studio!ShownTogether'
  <2>1. CASE t.op = "publish"
    <3>1. /\ t.anterior = Studio!LookOf(a)
          /\ Studio!LookOf(a)' = [name |-> t.row.name, theme |-> t.row.theme] /\ Studio!LookOf(a)' \in Drafting.drafts
          /\ brand'[a].theme \in legible
      <4>1. /\ [name |-> t.was.name, theme |-> t.was.theme] = Studio!LookOf(a) /\ t.anterior = Studio!LookOf(a)
            /\ [name |-> t.row.name, theme |-> t.row.theme] \in Drafting.drafts /\ t.row.theme \in legible
        BY <1>1, <1>2, <2>1, Zenon DEF Publishing
      <4>2. Studio!LookOf(a)' = [name |-> t.row.name, theme |-> t.row.theme] /\ brand'[a].theme = t.row.theme
        BY <1>2, <2>1, <4>1, Zenon
      <4>3. QED  BY <4>1, <4>2, Zenon
    <3>2. Studio!LookOf(a) = [name |-> brand[a].name, theme |-> brand[a].theme]
      BY <1>2, <2>1 DEF Studio!LookOf
    <3>3. /\ events' = events \cup {[account |-> a, look |-> Studio!LookOf(a)]}
          /\ seen' = seen \cup {[account |-> a, upto |-> hour, look |-> Studio!LookOf(a)]}
          /\ dim' = dim
      BY <1>1, <2>1, <3>1, <3>2 DEF Studio!Commit
    <3>4. Studio!BackIsPossible'
      <4>1. ASSUME NEW s \in seen'
            PROVE  \/ s.look = Studio!LookOf(s.account)'
                   \/ [account |-> s.account, look |-> s.look] \in events'
        <5>1. CASE s.account = a /\ s.look = Studio!LookOf(a)
          BY <3>3, <5>1
        <5>2. CASE s \in seen /\ ~ (s.account = a /\ s.look = Studio!LookOf(a))
          <6>1. s.look = Studio!LookOf(s.account) \/ [account |-> s.account, look |-> s.look] \in events
            BY <5>2 DEF BrandInv, Studio!BackIsPossible
          <6>2. CASE [account |-> s.account, look |-> s.look] \in events
            BY <3>3, <6>2
          <6>3. CASE s.look = Studio!LookOf(s.account) /\ s.account # a
            <7>1. brand'[s.account] = brand[s.account]
              BY <1>1, <6>3 DEF Studio!Commit
            <7>2. QED  BY <6>3, <7>1 DEF Studio!LookOf
          <6>4. QED  BY <5>2, <6>1, <6>2, <6>3
        <5>3. QED  BY <3>3, <5>1, <5>2
      <4>2. QED  BY <4>1 DEF Studio!BackIsPossible
    <3>5. Studio!ShownTogether'
      BY <1>4, <3>1, <3>3 DEF BrandInv, Studio!ShownTogether
    <3>6. QED  BY <3>4, <3>5
  <2>2. CASE t.op # "publish"
    <3>1. UNCHANGED <<events, seen, dim>>
      BY <1>1, <2>2 DEF Studio!Commit
    <3>2. \A x : Studio!LookOf(x)' = Studio!LookOf(x)
      <4>1. \A x : x # a => brand'[x] = brand[x]
        BY <1>1 DEF Studio!Commit
      <4>2. QED  BY <1>2, <2>2, <4>1 DEF Studio!LookOf
    <3>3. QED  BY <3>1, <3>2 DEF BrandInv, Studio!BackIsPossible, Studio!ShownTogether
  <2>3. QED  BY <2>1, <2>2
<1>8. QED  BY <1>5, <1>6, <1>7 DEF BrandInv

LEMMA BrandStep ==
    ASSUME Studio!BrandingAssumption, ~ Drafting.overlap, BrandInv, Studio!Next PROVE BrandInv'
<1>1. RowsInv'
  BY RowsStep DEF BrandInv
<1>2. CASE UNCHANGED <<brand, editing, legible, events, seen, dim>>
  BY <1>1, <1>2 DEF BrandInv, Publishing, OnePublishes, Studio!BackIsPossible,
     Studio!ShownTogether, Studio!LookOf
<1>3. ASSUME NEW e \in Drafting.editors, NEW a \in Drafting.accounts, NEW d \in Drafting.drafts, Studio!Save(e, a, d) PROVE BrandInv'
  <2>1. PICK t : Studio!Begin(e, t) /\ t.op = "save"
    BY <1>3 DEF Studio!Save
  <2>2. QED  BY <1>1, <2>1, BeginKeepsBrands DEF Publishing
<1>4. ASSUME NEW e \in Drafting.editors, NEW a \in Drafting.accounts, Studio!Publish(e, a) PROVE BrandInv'
  <2> DEFINE t == [op |-> "publish", account |-> a, was |-> brand[a], anterior |-> Studio!Anterior(brand[a]),
                   row |-> Studio!Published(brand[a])]
  <2>1. /\ Studio!Begin(e, t) /\ Studio!Publishable(brand[a])
        /\ \A x \in Drafting.editors : editing[x] # None => editing[x].op # "publish"
    BY <1>4 DEF Studio!Publish
  <2>2. brand[a] \in Studio!Rows /\ brand[a] # None /\ brand[a].draft \in Drafting.drafts /\ brand[a].draft.theme \in legible
    BY <2>1 DEF Studio!Publishable, BrandInv, RowsInv, BrandTypes, Studio!Rows
  <2>3. Studio!LookOf(a) = [name |-> brand[a].name, theme |-> brand[a].theme]
    BY <2>2 DEF Studio!LookOf
  <2>4. [name |-> brand[a].draft.name, theme |-> brand[a].draft.theme] \in Drafting.drafts
    BY <2>2 DEF Studio!BrandingAssumption
  <2>5. Publishing(t)
    BY <2>2, <2>3, <2>4 DEF Publishing, Studio!Anterior, Studio!Published
  <2> HIDE DEF t
  <2>6. QED  BY <1>1, <2>1, <2>5, BeginKeepsBrands
<1>5. ASSUME NEW e \in Drafting.editors, NEW a \in Drafting.accounts, Studio!Discard(e, a) PROVE BrandInv'
  <2>1. PICK t : Studio!Begin(e, t) /\ t.op = "discard"
    BY <1>5 DEF Studio!Discard
  <2>2. QED  BY <1>1, <2>1, BeginKeepsBrands DEF Publishing
<1>6. ASSUME NEW e \in Drafting.editors, Studio!Abort(e) PROVE BrandInv'
  <2>1. /\ UNCHANGED <<brand, legible, events, seen, dim>>
        /\ \A x \in Drafting.editors : editing'[x] = IF x = e THEN None ELSE editing[x]
    BY <1>6 DEF Studio!Abort, BrandInv, RowsInv, BrandTypes
  <2>2. \A a : Studio!LookOf(a)' = Studio!LookOf(a)
    BY <2>1 DEF Studio!LookOf
  <2>3. \A x \in Drafting.editors : editing'[x] # None => Publishing(editing[x])'
    BY <2>1, <2>2 DEF BrandInv, Publishing
  <2>4. OnePublishes' /\ Studio!BackIsPossible' /\ Studio!ShownTogether'
    BY <2>1, <2>2 DEF BrandInv, OnePublishes, Studio!BackIsPossible, Studio!ShownTogether
  <2>5. QED  BY <1>1, <2>3, <2>4 DEF BrandInv
<1>7. ASSUME NEW themes, Studio!Deploy(themes) PROVE BrandInv'
  BY <1>1, <1>7 DEF Studio!Deploy, BrandInv, OnePublishes, Studio!BackIsPossible,
     Studio!ShownTogether, Studio!LookOf
<1>8. QED
  BY <1>1, <1>2, <1>3, <1>4, <1>5, <1>6, <1>7, CommitKeepsBrands DEF Studio!Next,
     Studio!SetDomain, Studio!Ask, Studio!Answer, Studio!Tick

LEMMA BrandKeeps == ASSUME BrandInv, UNCHANGED Studio!vars PROVE BrandInv'
  BY DEF Studio!vars, BrandInv, RowsInv, BrandTypes, Transaction, Publishing, OnePublishes,
     Studio!LookOf, Studio!Served,
         Studio!BackIsPossible, Studio!ShownTogether

LEMMA BrandInit == Studio!Init => BrandInv
<1> SUFFICES ASSUME Studio!Init PROVE BrandInv
  OBVIOUS
<1>1. RowsInv
  BY DEF Studio!Init, RowsInv, BrandTypes
<1>2. \A a \in Drafting.accounts : Studio!LookOf(a) = Studio!NoLook
  BY DEF Studio!Init, Studio!LookOf
<1>3. OnePublishes /\ Studio!BackIsPossible /\ Studio!ShownTogether
  BY <1>2 DEF Studio!Init, OnePublishes, Studio!BackIsPossible, Studio!ShownTogether
<1>4. QED  BY <1>1, <1>3 DEF Studio!Init, BrandInv

LEMMA BrandHolds == BrandInv => Studio!BackIsPossible /\ Studio!ShownTogether
  BY DEF BrandInv

-----------------------------------------------------------------------------
(* Hosts, their pages and the letters that name them.                      *)

SiteRowTypes ==
    /\ brand \in [Hosting.accounts -> Sites!Rows \cup {None}]
    /\ editing = [e \in Hosting.editors |-> editing[e]]
    /\ legible \subseteq Sites!Themes

\* What a request read and is to write: one that saves or discards leaves the
\* name and the theme.
SiteTransaction(t) ==
    /\ t.op \in {"save", "publish", "discard"}
    /\ t.account \in Hosting.accounts /\ t.row \in Sites!Rows /\ t.was \in Sites!Rows \cup {None}
    /\ t.was # None => brand[t.account] # None
    /\ t.was = None => t.op = "save" /\ t.row.name = None /\ t.row.theme = None
    /\ t.was # None /\ t.op # "publish" => t.row.name = t.was.name /\ t.row.theme = t.was.theme

SiteRowsInv == SiteRowTypes /\ \A e \in Hosting.editors : editing[e] # None => SiteTransaction(editing[e])

\* Whoever had a host since a time, or has it.
HadSince(h, a, t) == Sites!Whose(h) = a \/ \E o \in owned : o.host = h /\ o.account = a /\ o.upto >= t

\* What an account shows, or showed since a time.
ShowedSince(a, look, t) == look = Sites!LookOf(a) \/ \E s \in seen : s.account = a /\ s.look = look /\ s.upto >= t

SiteTypes ==
    /\ domain \in [Hosting.hosts -> Sites!Domains \cup {None}]
    /\ hour \in Nat /\ \A o \in owned : o.upto \in Nat
    /\ visit = [h \in Hosting.hosts |-> visit[h]] /\ page = [h \in Hosting.hosts |-> page[h]]

Awaited(h) ==
    visit[h] # None =>
        /\ visit[h].since \in Nat /\ visit[h].since <= hour /\ hour <= visit[h].since + 1
        /\ visit[h].account \in Hosting.accounts \cup {None}
        /\ HadSince(h, visit[h].account, visit[h].since)

Kept(h) ==
    page[h] # None =>
        /\ page[h].at \in Nat /\ page[h].at <= hour
        /\ \E a \in Hosting.accounts \cup {None} :
              /\ HadSince(h, a, page[h].at - 1)
              /\ page[h].default = (a = None)
              /\ IF a = None THEN page[h].look = Sites!NoLook ELSE ShowedSince(a, page[h].look, page[h].at - 1)

SiteInv ==
    /\ SiteRowsInv
    /\ SiteTypes
    /\ \A h \in Hosting.hosts : Awaited(h) /\ Kept(h)

LEMMA SiteRowForms ==
    ASSUME NEW r \in Sites!Rows
    PROVE  /\ r.draft \in Hosting.drafts \cup {None} /\ r.theme \in Sites!Themes \cup {None}
           /\ DOMAIN r = {"draft", "name", "theme"}
           /\ r = [draft |-> r.draft, name |-> r.name, theme |-> r.theme]
  BY DEF Sites!Rows

\* A transaction that saw a row changes the columns it changed.
LEMMA SiteWrittenForm ==
    ASSUME NEW r \in Sites!Rows, NEW t, t.was \in Sites!Rows, t.row \in Sites!Rows, t.was # None
    PROVE  /\ Sites!Written(r, t) \in Sites!Rows
           /\ Sites!Written(r, t).name = IF t.row.name = t.was.name THEN r.name ELSE t.row.name
           /\ Sites!Written(r, t).theme = IF t.row.theme = t.was.theme THEN r.theme ELSE t.row.theme
<1> DEFINE new == [draft |-> IF t.row.draft = t.was.draft THEN r.draft ELSE t.row.draft,
                   name |-> IF t.row.name = t.was.name THEN r.name ELSE t.row.name,
                   theme |-> IF t.row.theme = t.was.theme THEN r.theme ELSE t.row.theme]
<1>1. Sites!Written(r, t) = new
  BY SiteRowForms DEF Sites!Written
<1>2. new \in Sites!Rows
  BY DEF Sites!Rows
<1>3. QED  BY <1>1, <1>2

LEMMA SiteBeginKeeps ==
    ASSUME SiteRowsInv, NEW e \in Hosting.editors, NEW t, Sites!Begin(e, t),
           t # None => SiteTransaction(t)
    PROVE  SiteRowsInv'
<1>1. /\ UNCHANGED <<brand, legible>> /\ editing' = [editing EXCEPT ![e] = t]
  BY DEF Sites!Begin
<1>2. \A x \in Hosting.editors : editing'[x] = IF x = e THEN t ELSE editing[x]
  BY <1>1 DEF SiteRowsInv, SiteRowTypes
<1>3. SiteRowTypes'
  BY <1>1 DEF SiteRowsInv, SiteRowTypes
<1>4. ASSUME NEW x \in Hosting.editors, editing'[x] # None PROVE SiteTransaction(editing'[x])
  BY <1>2, <1>4 DEF SiteRowsInv
<1>5. ASSUME NEW x \in Hosting.editors, editing'[x] # None PROVE SiteTransaction(editing[x])'
  BY <1>1, <1>4, <1>5 DEF SiteTransaction
<1>6. QED  BY <1>3, <1>5 DEF SiteRowsInv

\* What a commit does to what accounts show.
LEMMA SiteCommitForm ==
    ASSUME Sites!BrandingAssumption, SiteRowsInv, NEW e \in Hosting.editors, Sites!Commit(e),
           NEW t, t = editing[e], NEW a, a = t.account
    PROVE  /\ t # None /\ SiteTransaction(t) /\ a \in Hosting.accounts
           /\ brand' \in [Hosting.accounts -> Sites!Rows \cup {None}] /\ brand'[a] # None
           /\ \A x \in Hosting.accounts \ {a} : brand'[x] = brand[x]
           /\ t.op # "publish" => Sites!LookOf(a)' = Sites!LookOf(a)
           /\ t.op = "publish" =>
                /\ brand[a] # None
                /\ [name |-> t.was.name, theme |-> t.was.theme] = Sites!LookOf(a) =>
                      /\ Sites!LookOf(a)' = [name |-> t.row.name, theme |-> t.row.theme]
                      /\ brand'[a].theme = t.row.theme
<1>1. /\ t # None /\ SiteTransaction(t) /\ a \in Hosting.accounts
      /\ t.was = None => brand[a] = None
      /\ brand' = [brand EXCEPT ![a] = Sites!Written(brand[a], t)]
  BY DEF Sites!Commit, SiteRowsInv, SiteTransaction
<1> DEFINE new == Sites!Written(brand[a], t)
<1>2. CASE t.was = None
  <2>1. new = t.row
    BY <1>2 DEF Sites!Written
  <2>2. new \in Sites!Rows /\ new # None /\ new.name = None /\ new.theme = None /\ t.op = "save"
    BY <1>1, <1>2, <2>1 DEF SiteTransaction, Sites!BrandingAssumption
  <2> HIDE DEF new
  <2>3. Sites!LookOf(a) = Sites!NoLook /\ Sites!LookOf(a)' = Sites!NoLook
    BY <1>1, <1>2, <2>2 DEF Sites!LookOf, Sites!NoLook, SiteRowsInv, SiteRowTypes, new
  <2>4. QED  BY <1>1, <2>2, <2>3 DEF SiteRowsInv, SiteRowTypes, new
<1>3. CASE t.was # None
  <2>1. t.was \in Sites!Rows /\ t.row \in Sites!Rows /\ brand[a] \in Sites!Rows /\ brand[a] # None
    BY <1>1, <1>3 DEF SiteTransaction, SiteRowsInv, SiteRowTypes
  <2>2. /\ new \in Sites!Rows /\ new # None
        /\ new.name = IF t.row.name = t.was.name THEN brand[a].name ELSE t.row.name
        /\ new.theme = IF t.row.theme = t.was.theme THEN brand[a].theme ELSE t.row.theme
    BY <1>3, <2>1, SiteWrittenForm DEF Sites!BrandingAssumption
  <2> HIDE DEF new
  <2>3. brand'[a] = new /\ brand' \in [Hosting.accounts -> Sites!Rows \cup {None}]
        /\ \A x \in Hosting.accounts \ {a} : brand'[x] = brand[x]
    BY <1>1, <2>2 DEF SiteRowsInv, SiteRowTypes, new
  <2>4. /\ Sites!LookOf(a) = [name |-> brand[a].name, theme |-> brand[a].theme]
        /\ Sites!LookOf(a)' = [name |-> new.name, theme |-> new.theme]
    BY <2>1, <2>2, <2>3 DEF Sites!LookOf
  <2>5. t.op # "publish" => Sites!LookOf(a)' = Sites!LookOf(a)
    BY <1>1, <1>3, <2>2, <2>4 DEF SiteTransaction
  <2>6. [name |-> t.was.name, theme |-> t.was.theme] = Sites!LookOf(a) =>
            new.name = t.row.name /\ new.theme = t.row.theme
    BY <2>2, <2>4
  <2>7. QED  BY <1>1, <2>1, <2>2, <2>3, <2>4, <2>5, <2>6
<1>4. QED  BY <1>2, <1>3

LEMMA SiteRowsStep ==
    ASSUME Sites!BrandingAssumption, SiteRowsInv, Sites!Next PROVE SiteRowsInv'
<1>1. CASE UNCHANGED <<brand, editing>> /\ legible' \subseteq Sites!Themes
  BY <1>1 DEF SiteRowsInv, SiteRowTypes, SiteTransaction
<1>2. ASSUME NEW e \in Hosting.editors, NEW a \in Hosting.accounts, NEW d \in Hosting.drafts, Sites!Save(e, a, d) PROVE SiteRowsInv'
  <2> DEFINE new_row == IF brand[a] = None THEN [Sites!Fresh EXCEPT !.draft = d] ELSE [brand[a] EXCEPT !.draft = d]
             t == [op |-> "save", account |-> a, was |-> brand[a], anterior |-> Sites!NoLook, row |-> new_row]
  <2>1. Sites!Begin(e, t)
    BY <1>2 DEF Sites!Save
  <2>2. brand[a] \in Sites!Rows \cup {None}
    BY DEF SiteRowsInv, SiteRowTypes
  <2>3. /\ new_row \in Sites!Rows
        /\ brand[a] = None => new_row.name = None /\ new_row.theme = None
        /\ brand[a] # None => new_row.name = brand[a].name /\ new_row.theme = brand[a].theme
    BY <2>2 DEF Sites!Fresh, Sites!Rows
  <2> HIDE DEF new_row
  <2>4. SiteTransaction(t)
    BY <2>2, <2>3 DEF SiteTransaction
  <2> HIDE DEF t
  <2>5. QED  BY <2>1, <2>4, SiteBeginKeeps
<1>3. ASSUME NEW e \in Hosting.editors, NEW a \in Hosting.accounts, Sites!Publish(e, a) PROVE SiteRowsInv'
  <2> DEFINE t == [op |-> "publish", account |-> a, was |-> brand[a], anterior |-> Sites!Anterior(brand[a]),
                   row |-> Sites!Published(brand[a])]
  <2>1. Sites!Begin(e, t) /\ brand[a] # None /\ brand[a].draft # None
    BY <1>3 DEF Sites!Publish, Sites!Publishable
  <2>2. brand[a] \in Sites!Rows
    BY <2>1 DEF SiteRowsInv, SiteRowTypes
  <2>3. Sites!Published(brand[a]) \in Sites!Rows
    BY <2>1, <2>2 DEF Sites!Published, Sites!Rows, Sites!Themes
  <2>4. SiteTransaction(t)
    BY <2>1, <2>2, <2>3 DEF SiteTransaction
  <2> HIDE DEF t
  <2>5. QED  BY <2>1, <2>4, SiteBeginKeeps
<1>4. ASSUME NEW e \in Hosting.editors, NEW a \in Hosting.accounts, Sites!Discard(e, a) PROVE SiteRowsInv'
  <2> DEFINE new_row == [brand[a] EXCEPT !.draft = None]
             t == [op |-> "discard", account |-> a, was |-> brand[a], anterior |-> Sites!NoLook, row |-> new_row]
  <2>1. Sites!Begin(e, t) /\ brand[a] # None
    BY <1>4 DEF Sites!Discard
  <2>2. brand[a] \in Sites!Rows
    BY <2>1 DEF SiteRowsInv, SiteRowTypes
  <2>3. new_row \in Sites!Rows /\ new_row.name = brand[a].name /\ new_row.theme = brand[a].theme
    BY <2>2 DEF Sites!Rows
  <2> HIDE DEF new_row
  <2>4. SiteTransaction(t)
    BY <2>1, <2>2, <2>3 DEF SiteTransaction
  <2> HIDE DEF t
  <2>5. QED  BY <2>1, <2>4, SiteBeginKeeps
<1>5. ASSUME NEW e \in Hosting.editors, Sites!Commit(e) PROVE SiteRowsInv'
  <2>1. PICK t, a : t = editing[e] /\ a = t.account
    OBVIOUS
  <2>2. /\ brand' \in [Hosting.accounts -> Sites!Rows \cup {None}] /\ brand'[a] # None
        /\ \A x \in Hosting.accounts \ {a} : brand'[x] = brand[x]
    BY <1>5, <2>1, SiteCommitForm
  <2>3. editing' = [editing EXCEPT ![e] = None] /\ UNCHANGED legible
    BY <1>5 DEF Sites!Commit
  <2>4. \A x \in Hosting.editors : editing'[x] = IF x = e THEN None ELSE editing[x]
    BY <2>3 DEF SiteRowsInv, SiteRowTypes
  <2>5. SiteRowTypes'
    BY <2>2, <2>3 DEF SiteRowsInv, SiteRowTypes
  <2>6. ASSUME NEW x \in Hosting.editors, editing'[x] # None PROVE SiteTransaction(editing[x])'
    <3>1. editing'[x] = editing[x] /\ SiteTransaction(editing[x])
      BY <2>4, <2>6 DEF SiteRowsInv
    <3>2. QED  BY <2>2, <3>1 DEF SiteTransaction
  <2>7. QED  BY <2>5, <2>6 DEF SiteRowsInv
<1>6. ASSUME NEW e \in Hosting.editors, Sites!Abort(e) PROVE SiteRowsInv'
  BY <1>6 DEF Sites!Abort, SiteRowsInv, SiteRowTypes, SiteTransaction
<1>7. QED
  BY <1>1, <1>2, <1>3, <1>4, <1>5, <1>6 DEF Sites!Next, Sites!Deploy, Sites!SetDomain,
     Sites!Ask, Sites!Answer, Sites!Tick, SiteRowsInv, SiteRowTypes

LEMMA SiteInit == Sites!Init => SiteInv
<1> SUFFICES ASSUME Sites!Init PROVE SiteInv
  OBVIOUS
<1>1. SiteRowsInv
  BY DEF Sites!Init, SiteRowsInv, SiteRowTypes
<1>2. SiteTypes
  BY DEF Sites!Init, SiteTypes
<1>3. \A h \in Hosting.hosts : Awaited(h) /\ Kept(h)
  BY DEF Sites!Init, Awaited, Kept
<1>4. QED  BY <1>1, <1>2, <1>3 DEF SiteInv

LEMMA OwnerHadIt ==
    ASSUME SiteTypes, NEW h \in Hosting.hosts PROVE Sites!Owner(h) = Sites!Whose(h) /\ Sites!Owner(h) \in Hosting.accounts \cup {None}
  BY DEF SiteTypes, Sites!Owner, Sites!Whose, Sites!Domains

\* What a host or an account was since a time, it is still known to have been.
LEMMA HadStays ==
    ASSUME SiteTypes, UNCHANGED domain \/ \E k \in Hosting.hosts,
           d \in Sites!Domains \cup {None} : Sites!SetDomain(k, d),
           owned \subseteq owned', NEW h \in Hosting.hosts, NEW a, NEW t \in Int, t <= hour, HadSince(h, a, t)
    PROVE  HadSince(h, a, t)'
<1>1. CASE UNCHANGED domain
  BY <1>1 DEF HadSince, Sites!Whose
<1>2. ASSUME NEW k \in Hosting.hosts, NEW d \in Sites!Domains \cup {None}, Sites!SetDomain(k, d) PROVE HadSince(h, a, t)'
  <2>1. \/ \E o \in owned : o.host = h /\ o.account = a /\ o.upto >= t
        \/ Sites!Whose(h) = a
    BY DEF HadSince
  <2>2. CASE \E o \in owned : o.host = h /\ o.account = a /\ o.upto >= t
    BY <2>2 DEF HadSince
  <2>3. CASE Sites!Whose(h) = a /\ k = h
    <3>1. [host |-> h, account |-> a, upto |-> hour] \in owned'
      BY <1>2, <2>3 DEF Sites!SetDomain
    <3>2. hour >= t
      BY DEF SiteTypes
    <3>3. QED  BY <3>1, <3>2 DEF HadSince
  <2>4. CASE Sites!Whose(h) = a /\ k # h
    BY <1>2, <2>4 DEF Sites!SetDomain, SiteTypes, HadSince, Sites!Whose
  <2>5. QED  BY <2>1, <2>2, <2>3, <2>4
<1>3. QED  BY <1>1, <1>2

LEMMA ShowedStays ==
    ASSUME Sites!BrandingAssumption, SiteRowsInv, SiteTypes,
           UNCHANGED <<brand, seen>> \/ \E e \in Hosting.editors : Sites!Commit(e),
           NEW a, NEW look, NEW t \in Int, t <= hour, ShowedSince(a, look, t)
    PROVE  ShowedSince(a, look, t)'
<1>1. CASE UNCHANGED <<brand, seen>>
  BY <1>1 DEF ShowedSince, Sites!LookOf
<1>2. ASSUME NEW e \in Hosting.editors, Sites!Commit(e) PROVE ShowedSince(a, look, t)'
  <2>1. seen \subseteq seen'
    BY <1>2 DEF Sites!Commit
  <2>2. CASE \E s \in seen : s.account = a /\ s.look = look /\ s.upto >= t
    BY <2>1, <2>2 DEF ShowedSince
  <2>3. CASE look = Sites!LookOf(a)
    <3>1. PICK x, b : x = editing[e] /\ b = x.account
      OBVIOUS
    <3>2. /\ x.op # "publish" => Sites!LookOf(b)' = Sites!LookOf(b)
          /\ x.op = "publish" => brand[b] # None
      BY <1>2, <3>1, SiteCommitForm
    <3>3. a # b => Sites!LookOf(a)' = Sites!LookOf(a)
      BY <1>2, <3>1 DEF Sites!Commit, Sites!LookOf
    <3>4. CASE a = b /\ x.op = "publish"
      <4>1. Sites!LookOf(a) = [name |-> brand[a].name, theme |-> brand[a].theme]
        BY <3>2, <3>4 DEF Sites!LookOf
      <4>2. [account |-> a, upto |-> hour, look |-> look] \in seen'
        BY <1>2, <2>3, <3>1, <3>4, <4>1 DEF Sites!Commit
      <4>3. hour >= t
        BY DEF SiteTypes
      <4>4. QED  BY <4>2, <4>3 DEF ShowedSince
    <3>5. CASE ~ (a = b /\ x.op = "publish")
      <4>1. Sites!LookOf(a)' = Sites!LookOf(a)
        BY <3>2, <3>3, <3>5
      <4>2. QED  BY <2>3, <4>1 DEF ShowedSince
    <3>6. QED  BY <3>4, <3>5
  <2>4. QED  BY <2>2, <2>3 DEF ShowedSince
<1>3. QED  BY <1>1, <1>2

\* What was kept or is being answered stays right, while it is not answered
\* again.
LEMMA KeptStays ==
    ASSUME Sites!BrandingAssumption, SiteInv, SiteTypes', NEW h \in Hosting.hosts,
           \A g \in Hosting.hosts : \A a : \A t \in Int : t <= hour /\ HadSince(g, a, t) => HadSince(g, a, t)',
           \A a, look : \A t \in Int : t <= hour /\ ShowedSince(a, look, t) => ShowedSince(a, look, t)',
           hour' >= hour
    PROVE  /\ page'[h] = page[h] => Kept(h)'
           /\ visit'[h] = visit[h] /\ (visit[h] # None => hour' <= visit[h].since + 1) => Awaited(h)'
<1>1. hour \in Nat /\ hour' \in Nat /\ hour <= hour'
  BY DEF SiteInv, SiteTypes
<1>2. ASSUME page'[h] = page[h] PROVE Kept(h)'
  <2>1. SUFFICES ASSUME page[h] # None PROVE Kept(h)'
    BY <1>2 DEF Kept
  <2>2. PICK p : p = page[h]
    OBVIOUS
  <2>3. /\ p.at \in Nat /\ p.at <= hour
        /\ \E a \in Hosting.accounts \cup {None} :
              /\ HadSince(h, a, p.at - 1)
              /\ p.default = (a = None)
              /\ IF a = None THEN p.look = Sites!NoLook ELSE ShowedSince(a, p.look, p.at - 1)
    BY <2>1, <2>2 DEF SiteInv, Kept
  <2>4. p.at - 1 \in Int /\ p.at - 1 <= hour /\ p.at <= hour'
    BY <1>1, <2>3
  <2>5. \E a \in Hosting.accounts \cup {None} :
              /\ HadSince(h, a, p.at - 1)'
              /\ p.default = (a = None)
              /\ IF a = None THEN p.look = Sites!NoLook ELSE ShowedSince(a, p.look, p.at - 1)'
    BY <2>3, <2>4
  <2>6. page'[h] = p
    BY <1>2, <2>2
  <2>7. QED  BY <2>3, <2>4, <2>5, <2>6 DEF Kept, HadSince, ShowedSince
<1>3. ASSUME visit'[h] = visit[h], visit[h] # None => hour' <= visit[h].since + 1 PROVE Awaited(h)'
  <2>1. SUFFICES ASSUME visit[h] # None PROVE Awaited(h)'
    BY <1>3 DEF Awaited
  <2>2. PICK v : v = visit[h]
    OBVIOUS
  <2>3. /\ v.since \in Nat /\ v.since <= hour /\ hour' <= v.since + 1
        /\ v.account \in Hosting.accounts \cup {None}
        /\ HadSince(h, v.account, v.since)
    BY <1>3, <2>1, <2>2 DEF SiteInv, Awaited
  <2>4. HadSince(h, v.account, v.since)' /\ v.since <= hour'
    BY <1>1, <2>3
  <2>5. visit'[h] = v
    BY <1>3, <2>2
  <2>6. QED  BY <2>3, <2>4, <2>5 DEF Awaited, HadSince
<1>4. QED  BY <1>2, <1>3

\* Nobody forgets whose a host was, nor how an account showed itself.
LEMMA HistoryStays ==
    ASSUME Sites!BrandingAssumption, SiteInv, Sites!Next
    PROVE  /\ \A g \in Hosting.hosts : \A a : \A t \in Int : t <= hour /\ HadSince(g, a, t) => HadSince(g, a, t)'
           /\ \A a, look : \A t \in Int : t <= hour /\ ShowedSince(a, look, t) => ShowedSince(a, look, t)'
           /\ hour' >= hour
           /\ SiteTypes'
<1>1. (UNCHANGED domain \/ \E k \in Hosting.hosts, d \in Sites!Domains \cup {None} : Sites!SetDomain(k, d)) /\ owned \subseteq owned'
  BY DEF Sites!Next, Sites!Save, Sites!Publish, Sites!Discard, Sites!Begin, Sites!Commit,
     Sites!Abort, Sites!Deploy, Sites!SetDomain, Sites!Ask, Sites!Answer, Sites!Tick
<1>2. UNCHANGED <<brand, seen>> \/ \E e \in Hosting.editors : Sites!Commit(e)
  BY DEF Sites!Next, Sites!Save, Sites!Publish, Sites!Discard, Sites!Begin, Sites!Abort,
     Sites!Deploy, Sites!SetDomain, Sites!Ask, Sites!Answer, Sites!Tick
<1>3. ASSUME NEW g \in Hosting.hosts, NEW a, NEW t \in Int, t <= hour, HadSince(g, a, t) PROVE HadSince(g, a, t)'
  BY <1>1, <1>3, HadStays DEF SiteInv
<1>4. ASSUME NEW a, NEW look, NEW t \in Int, t <= hour, ShowedSince(a, look, t) PROVE ShowedSince(a, look, t)'
  BY <1>2, <1>4, ShowedStays DEF SiteInv
<1>5. SiteTypes' /\ hour' >= hour
  <2>1. CASE UNCHANGED <<domain, owned, visit, page, hour>>
    BY <2>1 DEF SiteInv, SiteTypes
  <2>2. ASSUME NEW k \in Hosting.hosts, NEW d \in Sites!Domains \cup {None}, Sites!SetDomain(k, d) PROVE SiteTypes' /\ hour' >= hour
    BY <2>2 DEF Sites!SetDomain, SiteInv, SiteTypes
  <2>3. ASSUME NEW k \in Hosting.hosts, Sites!Ask(k) \/ Sites!Answer(k) PROVE SiteTypes' /\ hour' >= hour
    BY <2>3 DEF Sites!Ask, Sites!Answer, SiteInv, SiteTypes
  <2>4. CASE Sites!Tick
    BY <2>4 DEF Sites!Tick, SiteInv, SiteTypes
  <2>5. QED
    BY <2>1, <2>2, <2>3, <2>4 DEF Sites!Next, Sites!Save, Sites!Publish, Sites!Discard,
       Sites!Begin, Sites!Commit, Sites!Abort, Sites!Deploy
<1>6. QED  BY <1>3, <1>4, <1>5

LEMMA SiteStep ==
    ASSUME Sites!BrandingAssumption, SiteInv, Sites!Next PROVE SiteInv'
<1>1. SiteRowsInv' /\ SiteTypes'
  BY SiteRowsStep, HistoryStays DEF SiteInv
<1>2. ASSUME NEW h \in Hosting.hosts
      PROVE  /\ page'[h] = page[h] => Kept(h)'
             /\ visit'[h] = visit[h] /\ (visit[h] # None => hour' <= visit[h].since + 1) => Awaited(h)'
  BY HistoryStays, KeptStays
<1>3. ASSUME UNCHANGED <<visit, page, hour>>, NEW h \in Hosting.hosts PROVE Awaited(h)' /\ Kept(h)'
  <2>1. visit[h] # None => hour' <= visit[h].since + 1
    BY <1>3 DEF SiteInv, Awaited
  <2>2. QED  BY <1>2, <1>3, <2>1
<1>4. ASSUME NEW k \in Hosting.hosts, Sites!Ask(k), NEW h \in Hosting.hosts PROVE Awaited(h)' /\ Kept(h)'
  <2>1. /\ page' = page /\ hour' = hour /\ UNCHANGED <<domain, owned>>
        /\ visit' = [visit EXCEPT ![k] = [account |-> Sites!Owner(k), since |-> hour]]
    BY <1>4 DEF Sites!Ask
  <2>2. CASE h = k
    <3>1. visit'[h] = [account |-> Sites!Owner(h), since |-> hour]
      BY <2>1, <2>2 DEF SiteInv, SiteTypes
    <3>2. Sites!Owner(h) = Sites!Whose(h) /\ Sites!Owner(h) \in Hosting.accounts \cup {None}
      BY OwnerHadIt DEF SiteInv
    <3>3. HadSince(h, Sites!Owner(h), hour)
      BY <3>2 DEF HadSince
    <3>4. PICK v : v = visit'[h] /\ v.account = Sites!Owner(h) /\ v.since = hour
      BY <3>1
    <3>5. hour \in Nat
      BY DEF SiteInv, SiteTypes
    <3>6. HadSince(h, v.account, v.since)'
      BY <2>1, <3>3, <3>4 DEF HadSince, Sites!Whose
    <3>7. Awaited(h)'
      BY <2>1, <3>2, <3>4, <3>5, <3>6 DEF Awaited, HadSince
    <3>8. QED  BY <1>2, <2>1, <3>7
  <2>3. CASE h # k
    <3>1. visit'[h] = visit[h] /\ (visit[h] # None => hour' <= visit[h].since + 1)
      BY <2>1, <2>3 DEF SiteInv, SiteTypes, Awaited
    <3>2. QED  BY <1>2, <2>1, <3>1
  <2>4. QED  BY <2>2, <2>3
<1>5. ASSUME NEW k \in Hosting.hosts, Sites!Answer(k), NEW h \in Hosting.hosts PROVE Awaited(h)' /\ Kept(h)'
  <2>1. PICK a : a = visit[k].account
    OBVIOUS
  <2> DEFINE look == IF a = None THEN Sites!NoLook ELSE Sites!Served(brand[a])
             new == [look |-> look, default |-> a = None, at |-> hour]
  <2>2. /\ visit[k] # None /\ hour' = hour /\ UNCHANGED <<domain, owned, brand, seen>>
        /\ visit' = [visit EXCEPT ![k] = None]
        /\ page' = [g \in Hosting.hosts |-> IF g \in Sites!Keys(k) THEN new ELSE page[g]]
    BY <1>5, <2>1 DEF Sites!Answer
  <2>3. Awaited(h)'
    <3>1. CASE h = k
      BY <2>2, <3>1 DEF SiteInv, SiteTypes, Awaited
    <3>2. CASE h # k
      <4>1. visit'[h] = visit[h] /\ (visit[h] # None => hour' <= visit[h].since + 1)
        BY <2>2, <3>2 DEF SiteInv, SiteTypes, Awaited
      <4>2. QED  BY <1>2, <4>1
    <3>3. QED  BY <3>1, <3>2
  <2>4. CASE h = k
    <3>1. page'[h] = new
      BY <2>2, <2>4 DEF Sites!Keys
    <3>2. /\ a \in Hosting.accounts \cup {None} /\ hour \in Nat
          /\ visit[k].since \in Nat /\ hour <= visit[k].since + 1 /\ HadSince(h, a, visit[k].since)
      BY <2>1, <2>2, <2>4 DEF SiteInv, SiteTypes, Awaited
    <3>3. PICK from \in Int : from = hour - 1
      BY <3>2
    <3>4. HadSince(h, a, from)'
      <4>1. CASE \E o \in owned : o.host = h /\ o.account = a /\ o.upto >= visit[k].since
        <5>1. PICK o \in owned : o.host = h /\ o.account = a /\ o.upto >= visit[k].since
          BY <4>1
        <5>2. o.upto >= from
          BY <3>2, <3>3, <5>1 DEF SiteInv, SiteTypes
        <5>3. QED  BY <2>2, <5>1, <5>2 DEF HadSince
      <4>2. CASE Sites!Whose(h) = a
        BY <2>2, <4>2 DEF HadSince, Sites!Whose
      <4>3. QED  BY <3>2, <4>1, <4>2 DEF HadSince
    <3>5. PICK shown : shown = look
      OBVIOUS
    <3>6. /\ a = None => shown = Sites!NoLook
          /\ a # None => ShowedSince(a, shown, from)'
      BY <2>2, <3>5 DEF Sites!Served, Sites!LookOf, ShowedSince
    <3>7. PICK p : p = page'[h] /\ p.look = shown /\ (p.default = (a = None)) /\ p.at = hour
      BY <3>1, <3>5
    <3>8. /\ p.at \in Nat /\ p.at <= hour' /\ p.at - 1 = from
          /\ a = None => p.look = Sites!NoLook
          /\ a # None => ShowedSince(a, p.look, from)'
      <4>1. p.at \in Nat /\ p.at <= hour' /\ p.at - 1 = from
        BY <2>2, <3>2, <3>3, <3>7
      <4>2. QED  BY <3>6, <3>7, <4>1, Zenon
    <3>9. Kept(h)'
      BY <3>2, <3>4, <3>7, <3>8 DEF Kept, HadSince, ShowedSince
    <3>10. QED  BY <2>3, <3>9
  <2>5. CASE h # k
    <3>1. page'[h] = page[h]
      BY <2>2, <2>5 DEF Sites!Keys
    <3>2. QED  BY <1>2, <2>3, <3>1
  <2>6. QED  BY <2>4, <2>5
<1>6. ASSUME Sites!Tick, NEW h \in Hosting.hosts PROVE Awaited(h)' /\ Kept(h)'
  <2>1. page' = page /\ visit' = visit /\ hour' = hour + 1 /\ (visit[h] # None => visit[h].since = hour)
    BY <1>6 DEF Sites!Tick
  <2>2. QED  BY <1>2, <2>1 DEF SiteInv, SiteTypes
<1>7. ASSUME NEW h \in Hosting.hosts PROVE Awaited(h)' /\ Kept(h)'
  BY <1>3, <1>4, <1>5, <1>6 DEF Sites!Next, Sites!Save, Sites!Publish, Sites!Discard,
     Sites!Begin, Sites!Commit, Sites!Abort, Sites!Deploy, Sites!SetDomain
<1>8. QED  BY <1>1, <1>7 DEF SiteInv

LEMMA SiteKeeps == ASSUME SiteInv, UNCHANGED Sites!vars PROVE SiteInv'
<1>1. /\ \A h, a, t : HadSince(h, a, t)' <=> HadSince(h, a, t)
      /\ \A a, look, t : ShowedSince(a, look, t)' <=> ShowedSince(a, look, t)
  BY DEF Sites!vars, HadSince, ShowedSince, Sites!LookOf, Sites!Whose
<1>2. UNCHANGED <<brand, editing, legible, domain, hour, owned, visit, page>>
  BY DEF Sites!vars
<1>3. SiteRowsInv'
  BY <1>2 DEF SiteInv, SiteRowsInv, SiteRowTypes, SiteTransaction
<1>4. SiteTypes'
  BY <1>2 DEF SiteInv, SiteTypes
<1>5. \A h \in Hosting.hosts : Awaited(h)' /\ Kept(h)'
  <2>1. ASSUME NEW h \in Hosting.hosts PROVE Awaited(h)' /\ Kept(h)'
    <3>1. Awaited(h)'
      BY <1>1, <1>2 DEF SiteInv, Awaited
    <3>2. Kept(h)'
      BY <1>1, <1>2 DEF SiteInv, Kept
    <3>3. QED  BY <3>1, <3>2
  <2>2. QED  BY <2>1
<1>6. QED  BY <1>3, <1>4, <1>5 DEF SiteInv

LEMMA SiteHolds ==
    ASSUME Sites!BrandingAssumption, SiteInv PROVE Sites!PagesOfTheirBrand /\ Sites!LettersLeadHome
<1>1. Sites!PagesOfTheirBrand
  <2>1. ASSUME NEW h \in Hosting.hosts, page[h] # None, hour < page[h].at + Hosting.age
        PROVE  \E a \in Hosting.accounts \cup {None} :
                /\ HadSince(h, a, page[h].at - 1)
                /\ page[h].default = (a = None)
                /\ IF a = None THEN page[h].look = Sites!NoLook ELSE ShowedSince(a, page[h].look, page[h].at - 1)
    BY <2>1 DEF SiteInv, Kept
  <2>2. QED  BY <2>1 DEF Sites!PagesOfTheirBrand, HadSince, ShowedSince
<1>2. Sites!LettersLeadHome
  <2>1. ASSUME NEW a \in Hosting.accounts, Sites!PublicHost(a) # None
        PROVE  Sites!Owner(Sites!PublicHost(a)) = a
    BY <2>1 DEF Sites!PublicHost, Sites!PublicHosts, Sites!Owner
  <2>2. ASSUME NEW a \in Hosting.accounts, NEW m \in {Sites!Letter(a), Sites!Session(a)},
               m.host # None
        PROVE  /\ \A k \in Hosting.hosts \cup {None} : Sites!BrandOf(m.host, k) = a
               /\ Sites!BrandOf(None, m.host) = a
               /\ m.name = Sites!Served(brand[a]).name
    <3>1. m.host = Sites!PublicHost(a) /\ m.name = Sites!NameOf(a)
      BY DEF Sites!Letter, Sites!Session
    <3>2. Sites!Owner(m.host) = a /\ a # None
      BY <2>1, <2>2, <3>1 DEF Sites!BrandingAssumption
    <3>3. Sites!NameOf(a) = Sites!Served(brand[a]).name
      BY DEF Sites!NameOf, Sites!Served, Sites!NoLook
    <3>4. QED  BY <2>2, <3>1, <3>2, <3>3 DEF Sites!BrandOf
  <2>3. QED  BY <2>2 DEF Sites!LettersLeadHome
<1>3. QED  BY <1>1, <1>2

-----------------------------------------------------------------------------
(* The tree of accounts, its paths and the limits along them.              *)

\* A non-empty set of naturals has a least element.
LEMMA LeastExists ==
    ASSUME NEW S, S \subseteq Nat, S # {}
    PROVE  \E x \in S : \A y \in S : x <= y
<1> DEFINE R == OpToRel(<, Nat)
<1>1. IsWellFoundedOn(R, Nat)
  BY NatLessThanWellFounded
<1>2. \A x, y \in Nat : x < y => <<x, y>> \in R
  BY DEF OpToRel
<1> HIDE DEF R
<1>3. PICK x \in S : \A y \in S : ~ (<<y, x>> \in R)
  BY <1>1, WFMin
<1>4. \A y \in S : x <= y
  <2> TAKE y \in S
  <2>1. x \in Nat /\ y \in Nat
    OBVIOUS
  <2>2. ~ (y < x)
    BY <1>2, <1>3, <2>1
  <2>3. QED  BY <2>1, <2>2
<1>5. QED  BY <1>4

\* A set that has 0, and with each number the next, has them all.
LEMMA EveryNatural ==
    ASSUME NEW S, S \subseteq Nat, 0 \in S, \A n \in Nat : n \in S => n + 1 \in S
    PROVE  \A n \in Nat : n \in S
<1>1. SUFFICES ASSUME Nat \ S # {} PROVE FALSE
  OBVIOUS
<1>2. PICK n \in Nat \ S : \A m \in Nat \ S : n <= m
  BY <1>1, LeastExists
<1>3. n \in Nat /\ n # 0
  BY <1>2
<1>4. n - 1 \in Nat /\ ~ (n <= n - 1) /\ (n - 1) + 1 = n
  BY <1>3
<1>5. n - 1 \in S
  BY <1>2, <1>4
<1>6. QED  BY <1>2, <1>4, <1>5

\* From a first value and a step there is the function that takes that step
\* at every number.
LEMMA Iterated ==
    \A V : \A base \in V, step \in [Nat -> [V -> V]] :
        \E f \in [Nat -> V] : f[0] = base /\ \A n \in Nat : f[n + 1] = step[n][f[n]]
<1> SUFFICES ASSUME NEW V, NEW base \in V, NEW step \in [Nat -> [V -> V]]
             PROVE  \E f \in [Nat -> V] : f[0] = base /\ \A n \in Nat : f[n + 1] = step[n][f[n]]
  OBVIOUS
<1> DEFINE Upto(n) == {f \in [Nat -> V] : f[0] = base /\ \A i \in Nat : i < n => f[i + 1] = step[i][f[i]]}
           S == {n \in Nat : Upto(n) # {}}
           U == {n \in Nat : \A m \in Nat : n <= m => \A f \in Upto(n), g \in Upto(m) : f[n] = g[n]}
<1>1. \A n \in Nat : Upto(n) # {}
  <2>1. 0 \in S
    <3>1. [i \in Nat |-> base] \in Upto(0)
      OBVIOUS
    <3>2. QED  BY <3>1
  <2>2. ASSUME NEW n \in Nat, n \in S PROVE n + 1 \in S
    <3>1. PICK f \in [Nat -> V] : f[0] = base /\ \A i \in Nat : i < n => f[i + 1] = step[i][f[i]]
      BY <2>2
    <3>2. PICK g : g = [f EXCEPT ![n + 1] = step[n][f[n]]]
      OBVIOUS
    <3>3. /\ g \in [Nat -> V] /\ g[n + 1] = step[n][f[n]]
          /\ \A i \in Nat : i # n + 1 => g[i] = f[i]
      BY <3>1, <3>2
    <3>4. g[0] = base
      BY <3>1, <3>3
    <3>5. ASSUME NEW i \in Nat, i < n + 1 PROVE g[i + 1] = step[i][g[i]]
      <4>1. CASE i = n
        BY <3>3, <4>1
      <4>2. CASE i < n
        <5>1. i # n + 1 /\ i + 1 # n + 1 /\ i + 1 \in Nat
          BY <4>2
        <5>2. QED  BY <3>1, <3>3, <4>2, <5>1
      <4>3. QED  BY <3>5, <4>1, <4>2
    <3>6. g \in Upto(n + 1)
      BY <3>3, <3>4, <3>5
    <3>7. QED  BY <3>6
  <2>3. S \subseteq Nat
    OBVIOUS
  <2> HIDE DEF S
  <2>4. \A n \in Nat : n \in S
    BY <2>1, <2>2, <2>3, EveryNatural
  <2>5. QED  BY <2>4 DEF S
<1>2. ASSUME NEW n \in Nat, NEW m \in Nat, n <= m, NEW f \in Upto(n), NEW g \in Upto(m) PROVE f[n] = g[n]
  <2>1. 0 \in U
    OBVIOUS
  <2>2. ASSUME NEW k \in Nat, k \in U PROVE k + 1 \in U
    <3>1. ASSUME NEW l \in Nat, k + 1 <= l, NEW x \in Upto(k + 1), NEW y \in Upto(l)
          PROVE  x[k + 1] = y[k + 1]
      <4>1. x \in Upto(k)
        OBVIOUS
      <4>2. k <= l
        BY <3>1
      <4>3. x[k] = y[k]
        BY <2>2, <4>1, <4>2
      <4>4. x[k + 1] = step[k][x[k]] /\ y[k + 1] = step[k][y[k]]
        BY <3>1
      <4>5. QED  BY <4>3, <4>4
    <3> HIDE DEF Upto
    <3>2. QED  BY <3>1
  <2>3. U \subseteq Nat
    OBVIOUS
  <2> HIDE DEF U
  <2>4. n \in U
    BY <2>1, <2>2, <2>3, EveryNatural
  <2> USE DEF U
  <2> HIDE DEF Upto
  <2>5. QED  BY <1>2, <2>4
<1>3. PICK sol : sol = [n \in Nat |-> CHOOSE f \in [Nat -> V] : f \in Upto(n)]
  OBVIOUS
<1>4. ASSUME NEW n \in Nat PROVE sol[n] \in Upto(n)
  <2>1. \E f \in [Nat -> V] : f \in Upto(n)
    BY <1>1
  <2> HIDE DEF Upto
  <2>2. QED  BY <1>3, <2>1
<1>5. PICK it : it = [n \in Nat |-> sol[n][n]]
  OBVIOUS
<1>6. \A n \in Nat : it[n] = sol[n][n]
  BY <1>5
<1>7. it \in [Nat -> V]
  BY <1>4, <1>5
<1>8. it[0] = base
  BY <1>4, <1>6
<1>9. ASSUME NEW n \in Nat PROVE it[n + 1] = step[n][it[n]]
  <2>1. sol[n] \in Upto(n) /\ sol[n + 1] \in Upto(n + 1) /\ n <= n + 1 /\ n + 1 \in Nat
    BY <1>4
  <2>2. sol[n][n] = sol[n + 1][n]
    <3> HIDE DEF Upto
    <3>1. QED  BY <1>2, <2>1
  <2>3. sol[n + 1][n + 1] = step[n][sol[n + 1][n]]
    BY <2>1
  <2>4. QED  BY <1>6, <2>1, <2>2, <2>3
<1>10. QED  BY <1>7, <1>8, <1>9

-----------------------------------------------------------------------------
TreeTypes ==
    /\ parent \in [Accounts -> Accounts \cup {None}]
    /\ path \in [Accounts -> Seq(Accounts)]

\* The line of an account is its parent's line and itself.
LEMMA LineSteps ==
    ASSUME TreeTypes
    PROVE  /\ Tree!Line[0] = [a \in Accounts |-> <<a>>]
           /\ \A n \in Nat : Tree!Line[n + 1] =
                [a \in Accounts |-> IF parent[a] = None THEN <<a>> ELSE Append(Tree!Line[n][parent[a]], a)]
           /\ Tree!Line \in [Nat -> [Accounts -> Seq(Accounts)]]
<1> DEFINE V == [Accounts -> Seq(Accounts)]
           base == [a \in Accounts |-> <<a>>]
           Next1(L) == [a \in Accounts |-> IF parent[a] = None THEN <<a>> ELSE Append(L[parent[a]], a)]
           Body(L) == [n \in Nat |-> [a \in Accounts |->
                IF n = 0 \/ parent[a] = None THEN <<a>> ELSE Append(L[n - 1][parent[a]], a)]]
<1>1. base \in V
  OBVIOUS
<1>2. ASSUME NEW L \in V PROVE Next1(L) \in V
  <2>1. ASSUME NEW a \in Accounts PROVE Next1(L)[a] \in Seq(Accounts)
    BY <2>1 DEF TreeTypes
  <2>2. QED  BY <2>1
<1>3. PICK step : step = [n \in Nat |-> [L \in V |-> Next1(L)]]
  OBVIOUS
<1>4. step \in [Nat -> [V -> V]] /\ \A n \in Nat, L \in V : step[n][L] = Next1(L)
  <2> HIDE DEF Next1, V
  <2>1. QED  BY <1>2, <1>3
<1>5. PICK f \in [Nat -> V] : f[0] = base /\ \A n \in Nat : f[n + 1] = step[n][f[n]]
  <2> HIDE DEF base, V, Next1, Body
  <2>2. QED  BY <1>1, <1>4, Iterated
<1>6. \A n \in Nat : f[n + 1] = Next1(f[n])
  <2> HIDE DEF Next1, V
  <2>1. QED  BY <1>4, <1>5
<1>7. ASSUME NEW n \in Nat PROVE f[n] = Body(f)[n]
  <2>1. CASE n = 0
    BY <1>5, <2>1
  <2>2. CASE n # 0
    <3>1. PICK m \in Nat : n = m + 1 /\ n - 1 = m
      <4>1. n - 1 \in Nat /\ n = (n - 1) + 1
        BY <2>2
      <4>2. QED  BY <4>1
    <3>2. f[n] = Next1(f[m])
      BY <1>6, <3>1
    <3>3. Body(f)[n] = Next1(f[m])
      BY <2>2, <3>1
    <3>4. QED  BY <3>2, <3>3
  <2>3. QED  BY <2>1, <2>2
<1>8. f = Body(f)
  <2>1. Body(f) = [n \in Nat |-> Body(f)[n]] /\ f = [n \in Nat |-> f[n]]
    BY <1>5
  <2> HIDE DEF Body
  <2>2. QED  BY <1>7, <2>1
<1>9. Tree!Line = CHOOSE L : L = Body(L)
  BY DEF Tree!Line
<1>10. Tree!Line = Body(Tree!Line)
  <2> HIDE DEF Body
  <2>1. QED  BY <1>8, <1>9
<1>11. Tree!Line[0] = base
  BY <1>10
<1>12. ASSUME NEW n \in Nat PROVE Tree!Line[n + 1] = Next1(Tree!Line[n])
  <2>1. n + 1 \in Nat /\ n + 1 # 0 /\ (n + 1) - 1 = n
    OBVIOUS
  <2>2. Tree!Line[n + 1] = Body(Tree!Line)[n + 1]
    <3> HIDE DEF Body
    <3>1. QED  BY <1>10
  <2>3. QED  BY <2>1, <2>2
<1>13. Tree!Line \in [Nat -> V]
  <2>1. PICK S : S = {n \in Nat : Tree!Line[n] \in V}
    OBVIOUS
  <2>2. 0 \in S
    BY <1>1, <1>11, <2>1
  <2>3. \A n \in Nat : n \in S => n + 1 \in S
    <3> HIDE DEF Next1, V
    <3>1. QED  BY <1>2, <1>12, <2>1
  <2>4. \A n \in Nat : Tree!Line[n] \in V
    <3> HIDE DEF V
    <3>1. QED  BY <2>1, <2>2, <2>3, EveryNatural
  <2>5. Tree!Line = [n \in Nat |-> Tree!Line[n]]
    <3>1. Body(Tree!Line) = [n \in Nat |-> Body(Tree!Line)[n]]
      OBVIOUS
    <3> HIDE DEF Body
    <3>2. QED  BY <1>10, <3>1
  <2> HIDE DEF V
  <2>6. QED  BY <2>4, <2>5
<1>14. QED  BY <1>11, <1>12, <1>13

PathInv ==
    /\ TreeTypes
    /\ \A a \in Accounts :
        /\ Len(path[a]) \in 1 .. Forest.depth
        /\ path[a] = IF parent[a] = None THEN <<a>> ELSE Append(path[parent[a]], a)

\* The path of an account is one longer than its parent's, and ends with it.
LEMMA PathGrows ==
    ASSUME PathInv, Tree!TenancyAssumption, NEW a \in Accounts
    PROVE  /\ parent[a] = None => path[a] = <<a>> /\ Len(path[a]) = 1
           /\ parent[a] # None =>
                /\ parent[a] \in Accounts
                /\ path[a] = Append(path[parent[a]], a)
                /\ Len(path[a]) = Len(path[parent[a]]) + 1
           /\ path[a] \in Seq(Accounts) /\ Len(path[a]) \in Nat /\ Len(path[a]) >= 1
           /\ path[a][Len(path[a])] = a
<1>1. path[a] \in Seq(Accounts) /\ Len(path[a]) \in Nat /\ Len(path[a]) >= 1 /\ Len(path[a]) <= Forest.depth
  BY DEF PathInv, TreeTypes, Tree!TenancyAssumption
<1>2. CASE parent[a] = None
  <2>1. path[a] = <<a>>
    BY <1>2 DEF PathInv
  <2>2. QED  BY <1>1, <1>2, <2>1
<1>3. CASE parent[a] # None
  <2>1. parent[a] \in Accounts /\ path[a] = Append(path[parent[a]], a)
    BY <1>3 DEF PathInv, TreeTypes
  <2>2. path[parent[a]] \in Seq(Accounts)
    BY <2>1 DEF PathInv, TreeTypes
  <2>3. Len(path[a]) = Len(path[parent[a]]) + 1 /\ path[a][Len(path[a])] = a
    BY <2>1, <2>2
  <2>4. QED  BY <1>1, <1>3, <2>1, <2>3
<1>4. QED  BY <1>2, <1>3

LEMMA PathIsLine ==
    ASSUME PathInv, Tree!TenancyAssumption
    PROVE  Tree!PathsFollowParents
<1>1. PICK S : S = {n \in Nat : \A a \in Accounts : Len(path[a]) <= n + 1 => path[a] = Tree!Line[n][a]}
  OBVIOUS
<1>2. 0 \in S
  <2>1. ASSUME NEW a \in Accounts, Len(path[a]) <= 1 PROVE path[a] = Tree!Line[0][a]
    <3>1. parent[a] = None
      <4>1. SUFFICES ASSUME parent[a] # None PROVE FALSE
        OBVIOUS
      <4>2. parent[a] \in Accounts /\ Len(path[a]) = Len(path[parent[a]]) + 1
        BY <4>1, PathGrows
      <4>3. Len(path[parent[a]]) \in Nat /\ Len(path[parent[a]]) >= 1
        BY <4>2, PathGrows
      <4>4. QED  BY <2>1, <4>2, <4>3
    <3>2. QED  BY <3>1, PathGrows, LineSteps DEF PathInv
  <2>2. QED  BY <1>1, <2>1
<1>3. ASSUME NEW n \in Nat, n \in S PROVE n + 1 \in S
  <2>1. ASSUME NEW a \in Accounts, Len(path[a]) <= (n + 1) + 1 PROVE path[a] = Tree!Line[n + 1][a]
    <3>1. CASE parent[a] = None
      BY <3>1, PathGrows, LineSteps DEF PathInv
    <3>2. CASE parent[a] # None
      <4>1. parent[a] \in Accounts /\ path[a] = Append(path[parent[a]], a) /\ Len(path[a]) = Len(path[parent[a]]) + 1
        BY <3>2, PathGrows
      <4>2. Len(path[parent[a]]) <= n + 1
        <5>1. Len(path[parent[a]]) \in Nat
          BY <4>1, PathGrows
        <5>2. QED  BY <2>1, <4>1, <5>1
      <4>3. path[parent[a]] = Tree!Line[n][parent[a]]
        BY <1>1, <1>3, <4>1, <4>2
      <4>4. Tree!Line[n + 1][a] = Append(Tree!Line[n][parent[a]], a)
        <5>1. Tree!Line[n + 1] = [x \in Accounts |-> IF parent[x] = None THEN <<x>> ELSE Append(Tree!Line[n][parent[x]], x)]
          BY LineSteps DEF PathInv
        <5>2. QED  BY <3>2, <5>1
      <4>5. QED  BY <4>1, <4>3, <4>4
    <3>3. QED  BY <3>1, <3>2
  <2>2. QED  BY <1>1, <2>1
<1>4. Forest.depth \in S
  <2>1. \A n \in Nat : n \in S
    BY <1>1, <1>2, <1>3, EveryNatural
  <2>2. QED  BY <2>1 DEF Tree!TenancyAssumption
<1>5. ASSUME NEW a \in Accounts PROVE path[a] = Tree!Line[Forest.depth][a]
  <2>1. Len(path[a]) <= Forest.depth + 1
    <3>1. Forest.depth \in Nat /\ Len(path[a]) \in Nat /\ Len(path[a]) \in 1 .. Forest.depth
      BY PathGrows DEF PathInv, Tree!TenancyAssumption
    <3>2. QED  BY <3>1
  <2>2. QED  BY <1>1, <1>4, <2>1
<1>6. QED  BY <1>5 DEF Tree!PathsFollowParents

\* What the trigger gives the subtree, level by level.
LEMMA CascadeSteps ==
    ASSUME TreeTypes, NEW a \in Accounts, NEW p \in Accounts \cup {None}
    PROVE  \E L \in [Nat -> [Accounts -> Seq(Accounts)]] :
             /\ Tree!Cascaded(a, p) = L[Forest.depth]
             /\ L[0] = [path EXCEPT ![a] = Tree!PathUnder(a, p)]
             /\ \A n \in Nat : L[n + 1] =
                  [x \in Accounts |-> IF x # a /\ parent[x] # None
                                      THEN Append(L[n][parent[x]], x) ELSE L[n][x]]
<1> DEFINE V == [Accounts -> Seq(Accounts)]
           base == [path EXCEPT ![a] = Tree!PathUnder(a, p)]
           Next1(L) == [x \in Accounts |-> IF x # a /\ parent[x] # None
                                      THEN Append(L[parent[x]], x) ELSE L[x]]
           Body(L) == [n \in Nat |->
            IF n = 0 THEN [path EXCEPT ![a] = Tree!PathUnder(a, p)]
            ELSE [x \in Accounts |->
                    IF x # a /\ parent[x] # None
                    THEN Append(L[n - 1][parent[x]], x)
                    ELSE L[n - 1][x]]]
           Level == CHOOSE L : L = Body(L)
<1>1. base \in V
  <2>1. Tree!PathUnder(a, p) \in Seq(Accounts)
    BY DEF Tree!PathUnder, TreeTypes
  <2>2. QED  BY <2>1 DEF TreeTypes
<1>2. ASSUME NEW L \in V PROVE Next1(L) \in V
  <2>1. ASSUME NEW x \in Accounts PROVE Next1(L)[x] \in Seq(Accounts)
    BY <2>1 DEF TreeTypes
  <2>2. QED  BY <2>1
<1>3. PICK step : step = [n \in Nat |-> [L \in V |-> Next1(L)]]
  OBVIOUS
<1>4. step \in [Nat -> [V -> V]] /\ \A n \in Nat, L \in V : step[n][L] = Next1(L)
  <2> HIDE DEF Next1, V
  <2>1. QED  BY <1>2, <1>3
<1>5. PICK f \in [Nat -> V] : f[0] = base /\ \A n \in Nat : f[n + 1] = step[n][f[n]]
  <2>1. PICK b : b = base
    OBVIOUS
  <2>2. PICK W : W = V
    OBVIOUS
  <2> HIDE DEF base, V, Next1, Body, Level
  <2>3. b \in W /\ step \in [Nat -> [W -> W]]
    BY <1>1, <1>4, <2>1, <2>2
  <2>4. PICK f \in [Nat -> W] : f[0] = b /\ \A n \in Nat : f[n + 1] = step[n][f[n]]
    BY <2>3, Iterated
  <2>5. QED  BY <2>1, <2>2, <2>4
<1>6. \A n \in Nat : f[n + 1] = Next1(f[n])
  <2> HIDE DEF Next1, V
  <2>1. QED  BY <1>4, <1>5
<1>7. ASSUME NEW n \in Nat PROVE f[n] = Body(f)[n]
  <2>1. CASE n = 0
    <3>1. Body(f)[n] = base
      BY <2>1
    <3> HIDE DEF Body, base
    <3>2. QED  BY <1>5, <2>1, <3>1
  <2>2. CASE n # 0
    <3>1. PICK m \in Nat : n = m + 1 /\ n - 1 = m
      <4>1. n - 1 \in Nat /\ n = (n - 1) + 1
        BY <2>2
      <4>2. QED  BY <4>1
    <3>2. f[n] = Next1(f[m])
      BY <1>6, <3>1
    <3>3. Body(f)[n] = Next1(f[m])
      BY <2>2, <3>1
    <3>4. QED  BY <3>2, <3>3
  <2>3. QED  BY <2>1, <2>2
<1>8. f = Body(f)
  <2>1. Body(f) = [n \in Nat |-> Body(f)[n]] /\ f = [n \in Nat |-> f[n]]
    BY <1>5
  <2> HIDE DEF Body
  <2>2. QED  BY <1>7, <2>1
<1>9. Tree!Cascaded(a, p) = Level[Forest.depth]
  BY DEF Tree!Cascaded
<1>10. Level = Body(Level)
  <2> HIDE DEF Body
  <2>1. QED  BY <1>8
<1> HIDE DEF Level
<1>11. Level[0] = base
  <2>1. Level[0] = Body(Level)[0]
    <3> HIDE DEF Body
    <3>1. QED  BY <1>10
  <2>2. QED  BY <2>1
<1>12. ASSUME NEW n \in Nat PROVE Level[n + 1] = Next1(Level[n])
  <2>1. n + 1 \in Nat /\ n + 1 # 0 /\ (n + 1) - 1 = n
    OBVIOUS
  <2>2. Level[n + 1] = Body(Level)[n + 1]
    <3> HIDE DEF Body
    <3>1. QED  BY <1>10
  <2>3. QED  BY <2>1, <2>2
<1>13. Level \in [Nat -> V]
  <2>1. PICK S : S = {n \in Nat : Level[n] \in V}
    OBVIOUS
  <2>2. 0 \in S
    <3> HIDE DEF base, V
    <3>1. QED  BY <1>1, <1>11, <2>1
  <2>3. \A n \in Nat : n \in S => n + 1 \in S
    <3> HIDE DEF Next1, V
    <3>1. QED  BY <1>2, <1>12, <2>1
  <2>4. \A n \in Nat : Level[n] \in V
    <3> HIDE DEF V
    <3>1. QED  BY <2>1, <2>2, <2>3, EveryNatural
  <2>5. Level = [n \in Nat |-> Level[n]]
    <3>1. Body(Level) = [n \in Nat |-> Body(Level)[n]]
      OBVIOUS
    <3> HIDE DEF Body
    <3>2. QED  BY <1>10, <3>1
  <2> HIDE DEF V
  <2>6. QED  BY <2>4, <2>5
<1>14. \A n \in Nat : Level[n + 1] =
                  [x \in Accounts |-> IF x # a /\ parent[x] # None
                                      THEN Append(Level[n][parent[x]], x) ELSE Level[n][x]]
  BY <1>12
<1>15. QED
  <2> HIDE DEF Body, Next1
  <2>1. QED  BY <1>9, <1>11, <1>13, <1>14

\* A path that a is not on is what it was, at every level.
LEMMA ReparentKeeps ==
    ASSUME PathInv, Tree!TenancyAssumption, NEW a \in Accounts, NEW p \in Accounts \cup {None},
           Tree!Reparent(a, p)
    PROVE  PathInv'
<1>1. PICK L \in [Nat -> [Accounts -> Seq(Accounts)]] :
         /\ Tree!Cascaded(a, p) = L[Forest.depth]
         /\ L[0] = [path EXCEPT ![a] = Tree!PathUnder(a, p)]
         /\ \A n \in Nat : L[n + 1] =
              [x \in Accounts |-> IF x # a /\ parent[x] # None
                                  THEN Append(L[n][parent[x]], x) ELSE L[n][x]]
  BY CascadeSteps DEF PathInv
<1>2. ASSUME NEW n \in Nat, NEW x \in Accounts
      PROVE  L[n + 1][x] = IF x # a /\ parent[x] # None THEN Append(L[n][parent[x]], x) ELSE L[n][x]
  <2>1. L[n + 1] = [y \in Accounts |-> IF y # a /\ parent[y] # None
                                  THEN Append(L[n][parent[y]], y) ELSE L[n][y]]
    BY <1>1
  <2>2. QED  BY <2>1
<1> DEFINE On(x) == \E i \in 1 .. Len(path[x]) : path[x][i] = a
<1>3. On(a)
  <2>1. Len(path[a]) \in 1 .. Len(path[a]) /\ path[a][Len(path[a])] = a
    <3>1. Len(path[a]) \in Nat /\ Len(path[a]) >= 1 /\ path[a][Len(path[a])] = a
      BY PathGrows
    <3>2. QED  BY <3>1
  <2>2. QED  BY <2>1
<1>4. ASSUME NEW x \in Accounts, parent[x] # None, ~ On(x) PROVE ~ On(parent[x])
  <2>1. parent[x] \in Accounts /\ path[x] = Append(path[parent[x]], x) /\ Len(path[x]) = Len(path[parent[x]]) + 1
    BY <1>4, PathGrows
  <2>2. path[parent[x]] \in Seq(Accounts) /\ Len(path[parent[x]]) \in Nat
    BY <2>1, PathGrows
  <2>3. ASSUME NEW i \in 1 .. Len(path[parent[x]]) PROVE path[parent[x]][i] # a
    <3>1. path[x][i] = path[parent[x]][i] /\ i \in 1 .. Len(path[x])
      BY <2>1, <2>2
    <3>2. QED  BY <1>4, <3>1
  <2>4. QED  BY <2>3
<1>5. ASSUME NEW m \in Nat, NEW x \in Accounts, ~ On(x) PROVE L[m][x] = path[x]
  <2>1. PICK S : S = {n \in Nat : \A y \in Accounts : ~ On(y) => L[n][y] = path[y]}
    OBVIOUS
  <2>2. 0 \in S
    <3>1. ASSUME NEW y \in Accounts, ~ On(y) PROVE L[0][y] = path[y]
      <4>1. y # a
        BY <1>3, <3>1
      <4> HIDE DEF On
      <4>2. QED  BY <1>1, <4>1 DEF PathInv, TreeTypes
    <3>2. QED  BY <2>1, <3>1
  <2>3. ASSUME NEW n \in Nat, n \in S PROVE n + 1 \in S
    <3>1. ASSUME NEW y \in Accounts, ~ On(y) PROVE L[n + 1][y] = path[y]
      <4>1. y # a /\ L[n][y] = path[y]
        BY <1>3, <2>1, <2>3, <3>1
      <4>2. CASE parent[y] = None
        BY <1>2, <4>1, <4>2
      <4>3. CASE parent[y] # None
        <5>1. parent[y] \in Accounts /\ path[y] = Append(path[parent[y]], y)
          BY <4>3, PathGrows
        <5>2. L[n][parent[y]] = path[parent[y]]
          BY <1>4, <2>1, <2>3, <3>1, <4>3, <5>1
        <5>3. L[n + 1][y] = Append(L[n][parent[y]], y)
          BY <1>2, <4>1, <4>3
        <5>4. QED  BY <5>1, <5>2, <5>3
      <4>4. QED  BY <4>2, <4>3
    <3>2. QED  BY <2>1, <3>1
  <2>4. m \in S
    <3> HIDE DEF On
    <3>1. QED  BY <2>1, <2>2, <2>3, EveryNatural
  <2>5. QED  BY <1>5, <2>1, <2>4
<1> HIDE DEF On
<1>6. ASSUME NEW m \in Nat, NEW x \in Accounts, Len(path[x]) <= m + 1 PROVE L[m + 1][x] = L[m][x]
  <2>1. PICK S : S = {n \in Nat : \A y \in Accounts : Len(path[y]) <= n + 1 => L[n + 1][y] = L[n][y]}
    OBVIOUS
  <2>2. ASSUME NEW y \in Accounts, Len(path[y]) <= 1 PROVE parent[y] = None
    <3>1. SUFFICES ASSUME parent[y] # None PROVE FALSE
      OBVIOUS
    <3>2. parent[y] \in Accounts /\ Len(path[y]) = Len(path[parent[y]]) + 1
      BY <3>1, PathGrows
    <3>3. Len(path[parent[y]]) \in Nat /\ Len(path[parent[y]]) >= 1
      BY <3>2, PathGrows
    <3>4. QED  BY <2>2, <3>2, <3>3
  <2>3. 0 \in S
    <3>1. ASSUME NEW y \in Accounts, Len(path[y]) <= 0 + 1 PROVE L[0 + 1][y] = L[0][y]
      <4>1. parent[y] = None
        BY <2>2, <3>1
      <4>2. QED  BY <1>2, <4>1
    <3>2. QED  BY <2>1, <3>1
  <2>4. ASSUME NEW n \in Nat, n \in S PROVE n + 1 \in S
    <3>1. ASSUME NEW y \in Accounts, Len(path[y]) <= (n + 1) + 1 PROVE L[(n + 1) + 1][y] = L[n + 1][y]
      <4>1. CASE y = a \/ parent[y] = None
        <5>1. n + 1 \in Nat
          OBVIOUS
        <5>2. QED  BY <1>2, <4>1, <5>1
      <4>2. CASE y # a /\ parent[y] # None
        <5>1. parent[y] \in Accounts /\ Len(path[y]) = Len(path[parent[y]]) + 1
          BY <4>2, PathGrows
        <5>2. Len(path[parent[y]]) <= n + 1
          <6>1. Len(path[parent[y]]) \in Nat
            BY <5>1, PathGrows
          <6>2. Len(path[parent[y]]) + 1 <= (n + 1) + 1
            BY <3>1, <5>1
          <6>3. \A k \in Nat : k + 1 <= (n + 1) + 1 => k <= n + 1
            OBVIOUS
          <6>4. QED  BY <6>1, <6>2, <6>3
        <5>3. L[n + 1][parent[y]] = L[n][parent[y]]
          BY <2>1, <2>4, <5>1, <5>2
        <5>4. L[n + 1][y] = Append(L[n][parent[y]], y)
          BY <1>2, <4>2
        <5>5. L[(n + 1) + 1][y] = Append(L[n + 1][parent[y]], y)
          <6>1. n + 1 \in Nat
            OBVIOUS
          <6>2. QED  BY <1>2, <4>2, <6>1
        <5>6. QED  BY <5>3, <5>4, <5>5
      <4>3. QED  BY <4>1, <4>2
    <3>2. n + 1 \in Nat
      OBVIOUS
    <3>3. QED  BY <2>1, <3>1, <3>2
  <2>5. m \in S
    BY <2>1, <2>3, <2>4, EveryNatural
  <2>6. QED  BY <1>6, <2>1, <2>5
<1>7. ASSUME NEW x \in Accounts, NEW m \in Nat, x = a \/ parent[x] = None PROVE L[m][x] = L[0][x]
  <2>1. PICK S : S = {n \in Nat : L[n][x] = L[0][x]}
    OBVIOUS
  <2>2. 0 \in S
    BY <2>1
  <2>3. ASSUME NEW n \in Nat, n \in S PROVE n + 1 \in S
    <3>1. L[n + 1][x] = L[n][x]
      BY <1>2, <1>7
    <3>2. QED  BY <2>1, <2>3, <3>1
  <2>4. m \in S
    BY <2>1, <2>2, <2>3, EveryNatural
  <2>5. QED  BY <2>1, <2>4
<1>8. Forest.depth \in Nat /\ path' = L[Forest.depth] /\ parent' = [parent EXCEPT ![a] = p]
  BY <1>1 DEF Tree!TenancyAssumption, Tree!Reparent
<1>9. path' \in [Accounts -> Seq(Accounts)]
  BY <1>8
<1>10. \A x \in Accounts : parent'[x] = IF x = a THEN p ELSE parent[x]
  BY <1>8 DEF PathInv, TreeTypes
<1>11. parent' \in [Accounts -> Accounts \cup {None}]
  BY <1>8 DEF PathInv, TreeTypes
<1>12. ASSUME NEW x \in Accounts
       PROVE  path'[x] = IF parent'[x] = None THEN <<x>> ELSE Append(path'[parent'[x]], x)
  <2>1. CASE x = a
    <3>1. path'[a] = Tree!PathUnder(a, p)
      <4>1. path'[a] = L[0][a]
        BY <1>7, <1>8
      <4>2. L[0][a] = Tree!PathUnder(a, p)
        BY <1>1 DEF PathInv, TreeTypes
      <4>3. QED  BY <4>1, <4>2
    <3>2. CASE p = None
      BY <1>10, <2>1, <3>1, <3>2 DEF Tree!PathUnder
    <3>3. CASE p # None
      <4>1. p \in Accounts /\ a \notin {path[p][i] : i \in DOMAIN path[p]}
        BY <3>3 DEF Tree!Reparent, Tree!Range
      <4>2. DOMAIN path[p] = 1 .. Len(path[p])
        BY <1>1, <4>1 DEF PathInv, TreeTypes
      <4>3. p \in Accounts /\ ~ On(p)
        BY <4>1, <4>2 DEF On
      <4>4. path'[p] = path[p]
        BY <1>5, <1>8, <4>3
      <4>5. QED  BY <1>10, <2>1, <3>1, <3>3, <4>4 DEF Tree!PathUnder
    <3>4. QED  BY <3>2, <3>3
  <2>2. CASE x # a /\ parent[x] = None
    <3>1. path'[x] = L[0][x]
      BY <1>7, <1>8, <2>2
    <3>2. L[0][x] = path[x]
      BY <1>1, <2>2 DEF PathInv, TreeTypes
    <3>3. path[x] = <<x>>
      BY <2>2, PathGrows
    <3>4. QED  BY <1>10, <2>2, <3>1, <3>2, <3>3
  <2>3. CASE x # a /\ parent[x] # None
    <3>1. Len(path[x]) <= Forest.depth + 1
      <4>1. PICK deepest, k : deepest = Forest.depth /\ k = Len(path[x])
        OBVIOUS
      <4>2. deepest \in Nat /\ k \in 1 .. deepest
        BY <4>1, PathGrows DEF PathInv, Tree!TenancyAssumption
      <4>3. k <= deepest + 1
        BY <4>2
      <4>4. QED  BY <4>1, <4>3
    <3>2. L[Forest.depth + 1][x] = L[Forest.depth][x]
      BY <1>6, <1>8, <3>1
    <3>3. L[Forest.depth + 1][x] = Append(L[Forest.depth][parent[x]], x)
      BY <1>2, <1>8, <2>3
    <3>4. QED  BY <1>8, <1>10, <2>3, <3>2, <3>3
  <2>4. QED  BY <2>1, <2>2, <2>3
<1>13. ASSUME NEW x \in Accounts PROVE Len(path'[x]) \in 1 .. Forest.depth
  <2>1. path'[x] \in Seq(Accounts)
    BY <1>9
  <2>2. Len(path'[x]) <= Forest.depth
    BY <1>1, <1>8 DEF Tree!Reparent
  <2>3. Len(path'[x]) >= 1
    <3>1. CASE parent'[x] = None
      <4>1. path'[x] = <<x>>
        BY <1>12, <3>1
      <4>2. QED  BY <4>1
    <3>2. CASE parent'[x] # None
      <4>1. PICK s \in Seq(Accounts) : s = path'[parent'[x]]
        BY <1>9, <1>11, <3>2
      <4>2. path'[x] = Append(s, x)
        BY <1>12, <3>2, <4>1
      <4>3. Len(Append(s, x)) = Len(s) + 1 /\ Len(s) \in Nat
        BY <4>1, AppendProperties, LenProperties
      <4>4. Len(s) + 1 >= 1
        BY <4>3
      <4>5. QED  BY <4>2, <4>3, <4>4
    <3>3. QED  BY <3>1, <3>2
  <2>4. QED  BY <1>8, <2>1, <2>2, <2>3
<1>14. QED  BY <1>9, <1>11, <1>12, <1>13 DEF PathInv, TreeTypes

-----------------------------------------------------------------------------
TreeInv ==
    /\ PathInv
    /\ type \in [Accounts -> Forest.types]
    /\ status \in [Accounts -> {"ACTIVE", "SUSPENDED", "DELETED"}]
    /\ Tree!LeftUnderNoCustomer

LEMMA PathInit ==
    ASSUME Tree!Init, Tree!TenancyAssumption
    PROVE  PathInv
<1>1. Forest.depth \in Nat /\ Forest.depth >= 1
  BY DEF Tree!TenancyAssumption
<1>2. ASSUME NEW a \in Accounts PROVE path[a] = <<a>> /\ parent[a] = None /\ Len(path[a]) \in 1 .. Forest.depth
  <2>1. path[a] = <<a>> /\ parent[a] = None
    BY DEF Tree!Init
  <2>2. Len(<<a>>) = 1
    OBVIOUS
  <2>3. QED  BY <1>1, <2>1, <2>2
<1>3. TreeTypes
  BY DEF Tree!Init, TreeTypes
<1>4. QED  BY <1>2, <1>3 DEF PathInv

LEMMA TreeInit ==
    ASSUME Tree!Init, Tree!TenancyAssumption
    PROVE  TreeInv
<1>1. PathInv
  BY PathInit
<1>2. type \in [Accounts -> Forest.types] /\ status \in [Accounts -> {"ACTIVE", "SUSPENDED", "DELETED"}]
  BY DEF Tree!Init
<1>3. Tree!LeftUnderNoCustomer
  BY DEF Tree!Init, Tree!LeftUnderNoCustomer
<1>4. QED  BY <1>1, <1>2, <1>3 DEF TreeInv

LEMMA TreeStep ==
    ASSUME TreeInv, Tree!TenancyAssumption, Tree!Next
    PROVE  TreeInv'
<1> USE DEF TreeInv
<1>1. PICK a \in Accounts :
        \/ \E p \in Accounts \cup {None} : Tree!Reparent(a, p)
        \/ \E s \in Forest.endings : Tree!End(a, s)
        \/ \E t \in Forest.types : Tree!ChangeType(a, t)
        \/ \E v \in Forest.values : Tree!SetOwn(a, v)
        \/ Tree!RemoveOwn(a)
        \/ Tree!OwnExpires(a)
  BY DEF Tree!Next
<1>2. ASSUME NEW p \in Accounts \cup {None}, Tree!Reparent(a, p) PROVE TreeInv'
  <2>1. PathInv'
    BY <1>2, ReparentKeeps
  <2>2. /\ UNCHANGED <<type, status>> /\ parent' = [parent EXCEPT ![a] = p]
        /\ hung \ {a} \subseteq hung' /\ (p # None /\ type[p] = "CUSTOMER" => a \in hung')
    BY <1>2 DEF Tree!Reparent
  <2>3. Tree!LeftUnderNoCustomer'
    BY <2>2 DEF Tree!LeftUnderNoCustomer, PathInv, TreeTypes
  <2>4. QED  BY <2>1, <2>2, <2>3
<1>3. ASSUME NEW s \in Forest.endings, Tree!End(a, s) PROVE TreeInv'
  <2>1. UNCHANGED <<parent, path, type, hung>> /\ status' = [status EXCEPT ![a] = s] /\ status[a] # "DELETED"
    BY <1>3 DEF Tree!End
  <2>2. PathInv'
    BY <2>1 DEF PathInv, TreeTypes
  <2>3. Tree!LeftUnderNoCustomer'
    BY <2>1 DEF Tree!LeftUnderNoCustomer
  <2>4. s \in {"ACTIVE", "SUSPENDED", "DELETED"}
    BY DEF Tree!TenancyAssumption
  <2>5. QED  BY <2>1, <2>2, <2>3, <2>4
<1>4. ASSUME NEW t \in Forest.types, Tree!ChangeType(a, t) PROVE TreeInv'
  <2>1. /\ UNCHANGED <<parent, path, status>> /\ type' = [type EXCEPT ![a] = t]
        /\ t = "CUSTOMER" => Tree!Subaccounts(a) = {}
        /\ hung' = {x \in hung : parent[x] # a}
    BY <1>4 DEF Tree!ChangeType
  <2>2. PathInv'
    BY <2>1 DEF PathInv, TreeTypes
  <2>3. Tree!LeftUnderNoCustomer'
    BY <2>1 DEF Tree!LeftUnderNoCustomer, Tree!Subaccounts
  <2>4. QED  BY <2>1, <2>2, <2>3
<1>5. ASSUME \/ \E v \in Forest.values : Tree!SetOwn(a, v)
             \/ Tree!RemoveOwn(a)
             \/ Tree!OwnExpires(a)
      PROVE  TreeInv'
  <2>1. UNCHANGED <<parent, path, type, status, hung>>
    BY <1>5 DEF Tree!SetOwn, Tree!RemoveOwn, Tree!OwnExpires
  <2>2. QED  BY <2>1 DEF PathInv, TreeTypes, Tree!LeftUnderNoCustomer
<1>6. QED  BY <1>1, <1>2, <1>3, <1>4, <1>5

LEMMA TreeKeeps == ASSUME TreeInv, UNCHANGED Tree!vars PROVE TreeInv'
  BY DEF Tree!vars, TreeInv, PathInv, TreeTypes, Tree!LeftUnderNoCustomer

LEMMA TreeHolds ==
    ASSUME TreeInv, Tree!TenancyAssumption
    PROVE  Tree!PathsFollowParents /\ Tree!LeftUnderNoCustomer
BY PathIsLine DEF TreeInv

-----------------------------------------------------------------------------
OwnTypes == own \in [Accounts -> {Tree!NoRow} \cup [value : Forest.values, live : BOOLEAN]]

LimitInv == PathInv /\ OwnTypes

LEMMA LimitInit ==
    ASSUME Tree!Init, Tree!TenancyAssumption
    PROVE  LimitInv
BY PathInit DEF Tree!Init, LimitInv, OwnTypes

LEMMA LimitStep ==
    ASSUME LimitInv, Tree!TenancyAssumption, Tree!Next
    PROVE  LimitInv'
<1> USE DEF LimitInv
<1>1. PICK a \in Accounts :
        \/ \E p \in Accounts \cup {None} : Tree!Reparent(a, p)
        \/ \E s \in Forest.endings : Tree!End(a, s)
        \/ \E t \in Forest.types : Tree!ChangeType(a, t)
        \/ \E v \in Forest.values : Tree!SetOwn(a, v)
        \/ Tree!RemoveOwn(a)
        \/ Tree!OwnExpires(a)
  BY DEF Tree!Next
<1>2. ASSUME NEW p \in Accounts \cup {None}, Tree!Reparent(a, p) PROVE LimitInv'
  <2>1. PathInv'
    BY <1>2, ReparentKeeps
  <2>2. QED  BY <1>2, <2>1 DEF Tree!Reparent, OwnTypes
<1>3. ASSUME UNCHANGED <<parent, path, own>> PROVE LimitInv'
  BY <1>3 DEF PathInv, TreeTypes, OwnTypes
<1>4. ASSUME UNCHANGED <<parent, path>>,
             NEW r \in {Tree!NoRow} \cup [value : Forest.values, live : BOOLEAN], own' = [own EXCEPT ![a] = r]
      PROVE  LimitInv'
  <2>1. PathInv'
    BY <1>4 DEF PathInv, TreeTypes
  <2>2. OwnTypes'
    BY <1>4 DEF OwnTypes
  <2>3. QED  BY <2>1, <2>2
<1>5. ASSUME NEW v \in Forest.values, Tree!SetOwn(a, v) PROVE LimitInv'
  <2>1. [value |-> v, live |-> TRUE] \in [value : Forest.values, live : BOOLEAN]
    OBVIOUS
  <2>2. QED  BY <1>4, <1>5, <2>1 DEF Tree!SetOwn
<1>6. ASSUME Tree!OwnExpires(a) PROVE LimitInv'
  <2>1. own[a] \in [value : Forest.values, live : BOOLEAN]
    BY <1>6 DEF Tree!OwnExpires, OwnTypes, Tree!NoRow
  <2>2. PICK r : r = [own[a] EXCEPT !.live = FALSE]
    OBVIOUS
  <2>3. r \in [value : Forest.values, live : BOOLEAN]
    BY <2>1, <2>2
  <2>4. own' = [own EXCEPT ![a] = r]
    BY <1>6, <2>2 DEF Tree!OwnExpires
  <2>5. QED  BY <1>4, <1>6, <2>3, <2>4 DEF Tree!OwnExpires
<1>7. ASSUME Tree!RemoveOwn(a) PROVE LimitInv'
  BY <1>4, <1>7 DEF Tree!RemoveOwn
<1>8. QED  BY <1>1, <1>2, <1>3, <1>5, <1>6, <1>7 DEF Tree!End, Tree!ChangeType

LEMMA LimitKeeps == ASSUME LimitInv, UNCHANGED Tree!vars PROVE LimitInv'
  BY DEF Tree!vars, LimitInv, PathInv, TreeTypes, OwnTypes

\* What is found of an account is the least of the live values of its line.
LEMMA FoundIsLeast ==
    ASSUME LimitInv, Tree!TenancyAssumption, NEW a \in Accounts
    PROVE  /\ Tree!Found(a) # None =>
                /\ Tree!Found(a) \in Forest.values
                /\ \E j \in 1 .. Len(path[a]) :
                      own[path[a][j]].live /\ own[path[a][j]].value = Tree!Found(a)
           /\ \A j \in 1 .. Len(path[a]) : own[path[a][j]].live =>
                Tree!Found(a) # None /\ Tree!Found(a) <= own[path[a][j]].value
<1> DEFINE line == [i \in Nat |-> own[path[a][i]]]
           V == Forest.values \cup {None} \cup {line[i].value : i \in Nat}
           Into(i, v) == IF ~ line[i].live THEN v
                         ELSE IF v = None THEN line[i].value
                         ELSE Tree!Trimmed(v, line[i].value)
           Body(D) == [i \in Nat |->
            IF i = 0 THEN None
            ELSE LET x == path[a][i]
                     v == D[i - 1]
                 IN  IF ~ own[x].live THEN v
                     ELSE IF v = None THEN own[x].value
                     ELSE Tree!Trimmed(v, own[x].value)]
           Down == CHOOSE D : D = Body(D)
<1>1. ASSUME NEW i \in Nat, NEW v \in V PROVE Into(i, v) \in V
  <2>1. Into(i, v) \in {v, line[i].value}
    BY DEF Tree!Trimmed
  <2>2. line[i].value \in V
    OBVIOUS
  <2> HIDE DEF Into, V, line
  <2>3. QED  BY <2>1, <2>2
<1>2. PICK step : step = [i \in Nat |-> [v \in V |-> Into(i + 1, v)]]
  OBVIOUS
<1>3. step \in [Nat -> [V -> V]] /\ \A i \in Nat, v \in V : step[i][v] = Into(i + 1, v)
  <2>1. \A i \in Nat : i + 1 \in Nat
    OBVIOUS
  <2> HIDE DEF Into, V
  <2>2. QED  BY <1>1, <1>2, <2>1
<1>4. PICK f \in [Nat -> V] : f[0] = None /\ \A i \in Nat : f[i + 1] = step[i][f[i]]
  <2>1. None \in V
    OBVIOUS
  <2>2. PICK b : b = None
    OBVIOUS
  <2>3. PICK W : W = V
    OBVIOUS
  <2> HIDE DEF V, Into, Body, Down, line
  <2>4. b \in W /\ step \in [Nat -> [W -> W]]
    BY <1>3, <2>1, <2>2, <2>3
  <2>5. PICK f \in [Nat -> W] : f[0] = b /\ \A i \in Nat : f[i + 1] = step[i][f[i]]
    BY <2>4, Iterated
  <2>6. QED  BY <2>2, <2>3, <2>5
<1>5. \A i \in Nat : f[i + 1] = Into(i + 1, f[i])
  <2> HIDE DEF Into, V
  <2>1. QED  BY <1>3, <1>4
<1>6. ASSUME NEW i \in Nat PROVE f[i] = Body(f)[i]
  <2>1. CASE i = 0
    BY <1>4, <2>1
  <2>2. CASE i # 0
    <3>1. PICK m \in Nat : i = m + 1 /\ i - 1 = m
      <4>1. i - 1 \in Nat /\ i = (i - 1) + 1
        BY <2>2
      <4>2. QED  BY <4>1
    <3>2. f[i] = Into(i, f[m])
      <4> HIDE DEF Into
      <4>1. QED  BY <1>5, <3>1
    <3>3. Body(f)[i] = Into(i, f[m])
      BY <2>2, <3>1
    <3>4. QED  BY <3>2, <3>3
  <2>3. QED  BY <2>1, <2>2
<1>7. f = Body(f)
  <2>1. Body(f) = [i \in Nat |-> Body(f)[i]] /\ f = [i \in Nat |-> f[i]]
    BY <1>4
  <2> HIDE DEF Body
  <2>2. QED  BY <1>6, <2>1
<1>8. Tree!Found(a) = Down[Len(path[a])]
  BY DEF Tree!Found
<1>9. Down = Body(Down)
  <2> HIDE DEF Body
  <2>1. QED  BY <1>7
<1> HIDE DEF Down
<1>10. Down[0] = None
  <2>1. Down[0] = Body(Down)[0]
    <3> HIDE DEF Body
    <3>1. QED  BY <1>9
  <2>2. QED  BY <2>1
<1>11. ASSUME NEW i \in Nat PROVE Down[i + 1] = Into(i + 1, Down[i])
  <2>1. i + 1 \in Nat /\ i + 1 # 0 /\ (i + 1) - 1 = i
    OBVIOUS
  <2>2. Down[i + 1] = Body(Down)[i + 1]
    <3> HIDE DEF Body
    <3>1. QED  BY <1>9
  <2>3. QED  BY <2>1, <2>2
<1>12. ASSUME NEW i \in Nat, i \in 1 .. Len(path[a])
       PROVE  /\ line[i] = own[path[a][i]]
              /\ line[i].live \in BOOLEAN
              /\ line[i].live => line[i].value \in Forest.values
  <2>1. path[a][i] \in Accounts
    <3>1. path[a] \in Seq(Accounts)
      BY PathGrows DEF LimitInv
    <3>2. QED  BY <1>12, <3>1
  <2>2. own[path[a][i]] \in {Tree!NoRow} \cup [value : Forest.values, live : BOOLEAN]
    BY <2>1 DEF LimitInv, OwnTypes
  <2>3. line[i] = own[path[a][i]]
    OBVIOUS
  <2>4. \A r \in {Tree!NoRow} \cup [value : Forest.values, live : BOOLEAN] : r.live \in BOOLEAN /\ (r.live => r.value \in Forest.values)
    <3> TAKE r \in {Tree!NoRow} \cup [value : Forest.values, live : BOOLEAN]
    <3>1. CASE r = Tree!NoRow
      <4>1. r.live = FALSE
        BY <3>1 DEF Tree!NoRow
      <4>2. QED  BY <4>1
    <3>2. CASE r \in [value : Forest.values, live : BOOLEAN]
      BY <3>2
    <3>3. QED  BY <3>1, <3>2
  <2> HIDE DEF line
  <2>5. QED  BY <2>2, <2>3, <2>4
<1>13. Len(path[a]) \in Nat
  BY PathGrows DEF LimitInv
<1> HIDE DEF Body, V, line
<1> DEFINE Good(i) ==
        /\ Down[i] # None => Down[i] \in Forest.values /\ \E j \in 1 .. i : line[j].live /\ line[j].value = Down[i]
        /\ \A j \in 1 .. i : line[j].live => Down[i] # None /\ Down[i] <= line[j].value
<1>14. PICK S : S = {i \in Nat : i <= Len(path[a]) => Good(i)}
  OBVIOUS
<1>15. 0 \in S
  BY <1>10, <1>14
<1>16. ASSUME NEW i \in Nat, i \in S PROVE i + 1 \in S
  <2>1. ASSUME i + 1 <= Len(path[a]) PROVE Good(i + 1)
    <3>1. i + 1 \in Nat /\ i + 1 \in 1 .. Len(path[a]) /\ i <= Len(path[a])
      BY <1>13, <2>1
    <3>2. Good(i)
      <4> HIDE DEF Good
      <4>1. QED  BY <1>14, <1>16, <3>1
    <3>3. PICK r : r = line[i + 1]
      OBVIOUS
    <3>4. r.live \in BOOLEAN /\ (r.live => r.value \in Forest.values)
      BY <1>12, <3>1, <3>3
    <3>5. Down[i + 1] = IF ~ r.live THEN Down[i] ELSE IF Down[i] = None THEN r.value ELSE Tree!Trimmed(Down[i], r.value)
      <4>1. Down[i + 1] = Into(i + 1, Down[i])
        BY <1>11
      <4>2. QED  BY <3>3, <4>1
    <3>6. \A j \in 1 .. i + 1 : j = i + 1 \/ j \in 1 .. i
      OBVIOUS
    <3>7. \A j \in 1 .. i : j \in 1 .. i + 1 /\ j \in Nat /\ j \in 1 .. Len(path[a])
      BY <1>13, <3>1
    <3>8. i + 1 \in 1 .. i + 1
      OBVIOUS
    <3>9. CASE ~ r.live
      <4>1. Down[i + 1] = Down[i]
        BY <3>5, <3>9
      <4> HIDE DEF Into
      <4>2. QED  BY <3>2, <3>3, <3>6, <3>7, <3>9, <4>1
    <3>10. CASE r.live /\ Down[i] = None
      <4>1. Down[i + 1] = r.value /\ r.value \in Forest.values /\ r.value # None
        BY <3>4, <3>5, <3>10 DEF Tree!TenancyAssumption
      <4>2. r.value <= r.value
        <5>1. \A v \in Nat : v <= v
          OBVIOUS
        <5>2. r.value \in Nat
          BY <4>1 DEF Tree!TenancyAssumption
        <5>3. QED  BY <5>1, <5>2
      <4>3. \A j \in 1 .. i : ~ line[j].live
        BY <3>2, <3>10
      <4> HIDE DEF Into
      <4>4. QED  BY <3>3, <3>6, <3>8, <3>10, <4>1, <4>2, <4>3
    <3>11. CASE r.live /\ Down[i] # None
      <4>1. PICK v : v = Down[i]
        OBVIOUS
      <4>2. v \in Forest.values /\ r.value \in Forest.values /\ v \in Nat /\ r.value \in Nat
        BY <3>2, <3>4, <3>11, <4>1 DEF Tree!TenancyAssumption
      <4>3. Down[i + 1] = IF v < r.value THEN v ELSE r.value
        BY <3>5, <3>11, <4>1 DEF Tree!Trimmed
      <4>4. Down[i + 1] \in Forest.values /\ Down[i + 1] # None /\ Down[i + 1] <= v /\ Down[i + 1] <= r.value
            /\ (Down[i + 1] = v \/ Down[i + 1] = r.value) /\ Down[i + 1] \in Nat
        BY <4>2, <4>3 DEF Tree!TenancyAssumption
      <4> HIDE DEF Into
      <4>5. \E j \in 1 .. i + 1 : line[j].live /\ line[j].value = Down[i + 1]
        <5>1. CASE Down[i + 1] = r.value
          BY <3>3, <3>8, <3>11, <5>1
        <5>2. CASE Down[i + 1] = v
          <6>1. PICK j \in 1 .. i : line[j].live /\ line[j].value = v
            BY <3>2, <3>11, <4>1
          <6>2. QED  BY <3>7, <5>2, <6>1
        <5>3. QED  BY <4>4, <5>1, <5>2
      <4>6. ASSUME NEW j \in 1 .. i + 1, line[j].live PROVE Down[i + 1] <= line[j].value
        <5>1. CASE j = i + 1
          BY <3>3, <4>4, <5>1
        <5>2. CASE j \in 1 .. i
          <6>1. v <= line[j].value
            BY <3>2, <4>1, <4>6, <5>2
          <6>2. line[j].value \in Nat
            BY <1>12, <3>7, <4>6, <5>2 DEF Tree!TenancyAssumption
          <6>3. QED  BY <4>2, <4>4, <6>1, <6>2
        <5>3. QED  BY <3>6, <5>1, <5>2
      <4>7. QED  BY <4>4, <4>5, <4>6
    <3>12. QED  BY <3>4, <3>9, <3>10, <3>11
  <2> HIDE DEF Good
  <2>2. QED  BY <1>14, <2>1
<1>17. Good(Len(path[a]))
  <2> HIDE DEF Good
  <2>1. Len(path[a]) \in S
    BY <1>13, <1>14, <1>15, <1>16, EveryNatural
  <2>2. QED  BY <1>13, <1>14, <2>1
<1>18. \A j \in 1 .. Len(path[a]) : line[j] = own[path[a][j]]
  BY <1>12, <1>13
<1>19. QED  BY <1>8, <1>17, <1>18

\* The path of whoever is on a path is the part of it that ends with them.
LEMMA PathOfAncestor ==
    ASSUME PathInv, Tree!TenancyAssumption, NEW a \in Accounts, NEW k \in 1 .. Len(path[a])
    PROVE  /\ path[a][k] \in Accounts
           /\ Len(path[path[a][k]]) = k
           /\ \A i \in 1 .. k : path[path[a][k]][i] = path[a][i]
<1> DEFINE Prefixed(x) == \A l \in 1 .. Len(path[x]) :
              /\ path[x][l] \in Accounts
              /\ Len(path[path[x][l]]) = l
              /\ \A i \in 1 .. l : path[path[x][l]][i] = path[x][i]
<1>1. PICK S : S = {n \in Nat : \A x \in Accounts : Len(path[x]) <= n => Prefixed(x)}
  OBVIOUS
<1>2. 0 \in S
  <2>1. \A x \in Accounts : ~ (Len(path[x]) <= 0)
    <3> TAKE x \in Accounts
    <3>1. Len(path[x]) \in Nat /\ Len(path[x]) >= 1
      BY PathGrows
    <3>2. QED  BY <3>1
  <2> HIDE DEF Prefixed
  <2>2. QED  BY <1>1, <2>1
<1>3. ASSUME NEW n \in Nat, n \in S PROVE n + 1 \in S
  <2>1. ASSUME NEW x \in Accounts, Len(path[x]) <= n + 1 PROVE Prefixed(x)
    <3>1. ASSUME NEW l \in 1 .. Len(path[x])
          PROVE  /\ path[x][l] \in Accounts
                 /\ Len(path[path[x][l]]) = l
                 /\ \A i \in 1 .. l : path[path[x][l]][i] = path[x][i]
      <4>1. Len(path[x]) \in Nat /\ path[x][Len(path[x])] = x /\ path[x] \in Seq(Accounts)
        BY PathGrows
      <4>2. CASE l = Len(path[x])
        BY <4>1, <4>2
      <4>3. CASE l # Len(path[x])
        <5>1. parent[x] # None
          <6>1. parent[x] = None => Len(path[x]) = 1
            BY PathGrows
          <6>2. Len(path[x]) # 1
            BY <3>1, <4>1, <4>3
          <6>3. QED  BY <6>1, <6>2
        <5>2. PICK y \in Accounts : y = parent[x] /\ path[x] = Append(path[y], x) /\ Len(path[x]) = Len(path[y]) + 1
          BY <5>1, PathGrows
        <5>3. path[y] \in Seq(Accounts) /\ Len(path[y]) \in Nat
          BY <5>2, PathGrows
        <5>4. Len(path[y]) <= n
          BY <2>1, <5>2, <5>3
        <5>5. Prefixed(y)
          <6> HIDE DEF Prefixed
          <6>1. QED  BY <1>1, <1>3, <5>4
        <5>6. l \in 1 .. Len(path[y])
          BY <4>1, <4>3, <5>2, <5>3
        <5>7. \A i \in 1 .. Len(path[y]) : path[x][i] = path[y][i]
          BY <5>2, <5>3, AppendProperties
        <5>8. \A i \in 1 .. l : i \in 1 .. Len(path[y])
          BY <5>3, <5>6
        <5>9. QED  BY <5>5, <5>6, <5>7, <5>8
      <4>4. QED  BY <4>2, <4>3
    <3>2. QED  BY <3>1
  <2> HIDE DEF Prefixed
  <2>2. QED  BY <1>1, <2>1
<1>4. Prefixed(a)
  <2> HIDE DEF Prefixed
  <2>1. Len(path[a]) \in Nat
    BY PathGrows
  <2>2. Len(path[a]) \in S
    BY <1>1, <1>2, <1>3, <2>1, EveryNatural
  <2>3. QED  BY <1>1, <2>1, <2>2
<1>5. QED  BY <1>4

LEMMA LimitHolds ==
    ASSUME LimitInv, Tree!TenancyAssumption
    PROVE  Tree!CeilingHolds /\ Tree!LimitIsNamed
<1> USE DEF LimitInv
<1>1. ASSUME NEW a \in Accounts, NEW x \in Tree!Above(a)
      PROVE  \E j \in 1 .. Len(path[a]) - 1 : x = path[a][j]
  <2>1. path[a] = Tree!Line[Forest.depth][a]
    BY PathIsLine DEF Tree!PathsFollowParents
  <2>2. PICK j \in DOMAIN path[a] : x = path[a][j] /\ x # a
    BY <1>1, <2>1 DEF Tree!Above, Tree!Range
  <2>3. path[a] \in Seq(Accounts) /\ Len(path[a]) \in Nat /\ path[a][Len(path[a])] = a
    BY PathGrows
  <2>4. j \in 1 .. Len(path[a]) /\ j # Len(path[a])
    BY <2>2, <2>3
  <2>5. j \in 1 .. Len(path[a]) - 1
    BY <2>3, <2>4
  <2>6. QED  BY <2>2, <2>5
<1>2. ASSUME NEW a \in Accounts
      PROVE  Len(path[a]) \in Nat /\ Len(path[a]) >= 1 /\ path[a][Len(path[a])] = a /\ path[a] \in Seq(Accounts)
  BY PathGrows
<1>3. ASSUME NEW a \in Accounts, NEW j \in 1 .. Len(path[a])
      PROVE  own[path[a][j]] \in {Tree!NoRow} \cup [value : Forest.values, live : BOOLEAN]
  <2>1. path[a][j] \in Accounts
    BY <1>2
  <2>2. QED  BY <2>1 DEF OwnTypes
<1>4. Tree!CeilingHolds
  <2>1. ASSUME NEW a \in Accounts, NEW x \in Tree!Above(a), own[x].live PROVE Tree!Effective(a) <= own[x].value
    <3>1. PICK j \in 1 .. Len(path[a]) - 1 : x = path[a][j]
      BY <1>1
    <3>2. j \in 1 .. Len(path[a])
      BY <1>2, <3>1
    <3>3. Tree!Found(a) # None /\ Tree!Found(a) <= own[path[a][j]].value
      BY <2>1, <3>1, <3>2, FoundIsLeast
    <3>4. QED  BY <3>1, <3>3 DEF Tree!Effective
  <2>2. QED  BY <2>1 DEF Tree!CeilingHolds
<1>5. ASSUME NEW a \in Accounts, Tree!Limited(a)
      PROVE  /\ Tree!LimitedBy(a) \in Tree!Above(a)
             /\ own[Tree!LimitedBy(a)] = [value |-> Tree!Effective(a), live |-> TRUE]
             /\ \A x \in Tree!Above(a) : Tree!LimitedBy(a) \in Tree!Above(x) => ~ (own[x].live /\ own[x].value = Tree!Effective(a))
  <2>1. own[a].live /\ own[a].value # Tree!Effective(a)
    BY <1>5 DEF Tree!Limited
  <2>2. Len(path[a]) \in 1 .. Len(path[a]) /\ path[a][Len(path[a])] = a /\ Len(path[a]) \in Nat
    BY <1>2
  <2>3. Tree!Found(a) # None /\ Tree!Effective(a) = Tree!Found(a)
    <3>1. Tree!Found(a) # None
      BY <2>1, <2>2, FoundIsLeast
    <3>2. QED  BY <3>1 DEF Tree!Effective
  <2>4. PICK j \in 1 .. Len(path[a]) : own[path[a][j]].live /\ own[path[a][j]].value = Tree!Effective(a)
    BY <2>3, FoundIsLeast
  <2>5. j # Len(path[a])
    BY <2>1, <2>2, <2>4
  <2>6. ASSUME NEW r \in {Tree!NoRow} \cup [value : Forest.values, live : BOOLEAN], r.live
        PROVE  r = [value |-> r.value, live |-> TRUE]
    <3>1. r \in [value : Forest.values, live : BOOLEAN]
      BY <2>6 DEF Tree!NoRow
    <3>2. QED  BY <2>6, <3>1
  <2>7. ASSUME NEW l \in 1 .. Len(path[a]), own[path[a][l]].live,
               own[path[a][l]].value = Tree!Effective(a), l # Len(path[a])
        PROVE  l \in Tree!Limiters(a)
    <3>1. own[path[a][l]] = [value |-> Tree!Effective(a), live |-> TRUE]
      BY <1>3, <2>6, <2>7
    <3>2. l \in 1 .. Len(path[a]) - 1
      BY <2>2, <2>7
    <3>3. QED  BY <3>1, <3>2 DEF Tree!Limiters
  <2>8. j \in Tree!Limiters(a)
    BY <2>4, <2>5, <2>7
  <2>9. PICK k \in Tree!Limiters(a) : \A l \in Tree!Limiters(a) : k >= l
    <3>1. PICK R : R = {Len(path[a]) - l : l \in Tree!Limiters(a)}
      OBVIOUS
    <3>2. Tree!Limiters(a) \subseteq 1 .. Len(path[a]) - 1
      BY DEF Tree!Limiters
    <3>3. R \subseteq Nat /\ R # {}
      BY <2>2, <2>8, <3>1, <3>2
    <3>4. PICK m \in R : \A l \in R : m <= l
      BY <3>3, LeastExists
    <3>5. PICK k \in Tree!Limiters(a) : m = Len(path[a]) - k
      BY <3>1, <3>4
    <3>6. ASSUME NEW l \in Tree!Limiters(a) PROVE k >= l
      <4>1. Len(path[a]) - l \in R
        BY <3>1
      <4>2. Len(path[a]) - k <= Len(path[a]) - l
        BY <3>4, <3>5, <4>1
      <4>3. l \in Int /\ k \in Int
        BY <3>2
      <4>4. QED  BY <2>2, <4>2, <4>3
    <3>7. QED  BY <3>5, <3>6
  <2>10. PICK c : c = CHOOSE i \in Tree!Limiters(a) : \A l \in Tree!Limiters(a) : i >= l
    OBVIOUS
  <2>11. c \in Tree!Limiters(a) /\ \A l \in Tree!Limiters(a) : c >= l
    BY <2>9, <2>10
  <2>12. Tree!LimitedBy(a) = path[a][c]
    BY <1>5, <2>8, <2>10 DEF Tree!LimitedBy
  <2>13. /\ c \in 1 .. Len(path[a]) - 1 /\ c \in 1 .. Len(path[a]) /\ c \in Nat
         /\ own[path[a][c]] = [value |-> Tree!Effective(a), live |-> TRUE]
    <3>1. c \in 1 .. Len(path[a]) - 1 /\ own[path[a][c]] = [value |-> Tree!Effective(a), live |-> TRUE]
      BY <2>11 DEF Tree!Limiters
    <3>2. QED  BY <2>2, <3>1
  <2>14. path[a][c] # a
    BY <2>1, <2>13
  <2>15. path[a][c] \in Tree!Above(a)
    <3>1. path[a] = Tree!Line[Forest.depth][a]
      BY PathIsLine DEF Tree!PathsFollowParents
    <3>2. c \in DOMAIN path[a]
      BY <1>2, <2>13
    <3>3. QED  BY <2>14, <3>1, <3>2 DEF Tree!Above, Tree!Range
  <2>16. ASSUME NEW x \in Tree!Above(a), path[a][c] \in Tree!Above(x), own[x].live, own[x].value = Tree!Effective(a) PROVE FALSE
    <3>1. PICK l \in 1 .. Len(path[a]) - 1 : x = path[a][l]
      BY <1>1
    <3>2. l \in 1 .. Len(path[a]) /\ l # Len(path[a]) /\ l \in Nat
      BY <2>2
    <3>3. l \in Tree!Limiters(a)
      BY <2>7, <2>16, <3>1, <3>2
    <3>4. l <= c
      BY <2>11, <2>13, <3>2, <3>3
    <3>5. x \in Accounts /\ Len(path[x]) = l /\ \A i \in 1 .. l : path[x][i] = path[a][i]
      BY <3>1, <3>2, PathOfAncestor
    <3>6. PICK i \in 1 .. Len(path[x]) - 1 : path[a][c] = path[x][i]
      BY <1>1, <2>16, <3>5
    <3>7. i \in Nat /\ i < l /\ i \in 1 .. l /\ i \in 1 .. Len(path[a])
      BY <2>2, <3>2, <3>5, <3>6
    <3>8. path[a][i] = path[a][c]
      BY <3>5, <3>6, <3>7
    <3>9. Len(path[path[a][i]]) = i /\ Len(path[path[a][c]]) = c
      BY <2>13, <3>7, PathOfAncestor
    <3>10. i = c
      BY <3>8, <3>9
    <3>11. QED  BY <2>13, <3>2, <3>4, <3>7, <3>10
  <2>17. QED  BY <2>12, <2>13, <2>15, <2>16
<1>6. Tree!LimitIsNamed
  BY <1>5 DEF Tree!LimitIsNamed
<1>7. QED  BY <1>4, <1>6

-----------------------------------------------------------------------------
(* What of the past is shown to whom.                                      *)

-----------------------------------------------------------------------------
Bounded == [from : 0 .. Showing!Open, to : 0 .. Showing!Open]

Covers(windows, t) == \E w \in windows : w.from <= t /\ t < w.to

LEMMA MaxMin ==
    ASSUME NEW a \in Nat, NEW b \in Nat
    PROVE  /\ Showing!Max({a, b}) = IF a >= b THEN a ELSE b
           /\ Showing!Min({a, b}) = IF a <= b THEN a ELSE b
<1>1. CASE a >= b
  <2>1. a \in {a, b} /\ \A y \in {a, b} : a >= y
    BY <1>1
  <2>2. \A x \in {a, b} : (\A y \in {a, b} : x >= y) => x = a
    BY <1>1
  <2>3. Showing!Max({a, b}) = a
    BY <2>1, <2>2 DEF Showing!Max
  <2>4. b \in {a, b} /\ \A y \in {a, b} : b <= y
    BY <1>1
  <2>5. \A x \in {a, b} : (\A y \in {a, b} : x <= y) => x = b
    BY <1>1
  <2>6. Showing!Min({a, b}) = b
    BY <2>4, <2>5 DEF Showing!Min
  <2>7. QED  BY <1>1, <2>3, <2>6
<1>2. CASE ~ (a >= b)
  <2>1. b \in {a, b} /\ \A y \in {a, b} : b >= y
    BY <1>2
  <2>2. \A x \in {a, b} : (\A y \in {a, b} : x >= y) => x = b
    BY <1>2
  <2>3. Showing!Max({a, b}) = b
    BY <2>1, <2>2 DEF Showing!Max
  <2>4. a \in {a, b} /\ \A y \in {a, b} : a <= y
    BY <1>2
  <2>5. \A x \in {a, b} : (\A y \in {a, b} : x <= y) => x = a
    BY <1>2
  <2>6. Showing!Min({a, b}) = a
    BY <2>4, <2>5 DEF Showing!Min
  <2>7. QED  BY <1>2, <2>3, <2>6
<1>3. QED  BY <1>1, <1>2

LEMMA OpenIs == ASSUME Showing!WindowsAssumption PROVE Showing!Open \in Nat /\ Book.time \in Nat /\ Book.time < Showing!Open
BY DEF Showing!Open, Showing!WindowsAssumption

LEMMA BoundedFinite ==
    ASSUME Showing!WindowsAssumption, NEW W, W \subseteq Bounded
    PROVE  IsFiniteSet(W)
<1> DEFINE Pairs == (0 .. Showing!Open) \X (0 .. Showing!Open)
           Images == {[from |-> q[1], to |-> q[2]] : q \in Pairs}
<1>1. IsFiniteSet(0 .. Showing!Open)
  BY OpenIs, FS_Interval
<1>2. IsFiniteSet(Pairs)
  BY <1>1, FS_Product
<1>3. IsFiniteSet(Images)
  <2> DEFINE f == [q \in Pairs |-> [from |-> q[1], to |-> q[2]]]
  <2>1. f \in Surjection(Pairs, Images)
    <3>1. f \in [Pairs -> Images]
      OBVIOUS
    <3>2. \A z \in Images : \E q \in Pairs : f[q] = z
      OBVIOUS
    <3> HIDE DEF f, Pairs, Images
    <3>3. QED  BY <3>1, <3>2 DEF Surjection
  <2> HIDE DEF f, Pairs, Images
  <2>2. QED  BY <1>2, <2>1, FS_Surjection
<1>4. Bounded \subseteq Images
  <2>1. ASSUME NEW w \in Bounded PROVE w \in Images
    <3>1. <<w.from, w.to>> \in Pairs
      BY DEF Bounded
    <3>2. w = [from |-> w.from, to |-> w.to]
      BY DEF Bounded
    <3>3. PICK q \in Pairs : q[1] = w.from /\ q[2] = w.to
      BY <3>1
    <3>4. w = [from |-> q[1], to |-> q[2]]
      BY <3>2, <3>3
    <3>5. QED  BY <3>4
  <2>2. QED  BY <2>1
<1>5. W \in SUBSET Images
  BY <1>4
<1> HIDE DEF Images
<1>6. QED  BY <1>3, <1>5, FS_Subset

\* Of windows there is one that begins last.
LEMMA LatestIs ==
    ASSUME Showing!WindowsAssumption, NEW W, W \subseteq Bounded, W # {}
    PROVE  Showing!Latest(W) \in W /\ \A v \in W : v.from <= Showing!Latest(W).from
<1>1. PICK R : R = {Showing!Open - w.from : w \in W}
  OBVIOUS
<1>2. \A w \in W : w.from \in Nat /\ w.from <= Showing!Open
  BY OpenIs DEF Bounded
<1>3. R \subseteq Nat /\ R # {}
  BY <1>1, <1>2, OpenIs
<1>4. PICK m \in R : \A l \in R : m <= l
  BY <1>3, LeastExists
<1>5. PICK w \in W : m = Showing!Open - w.from
  BY <1>1, <1>4
<1>6. ASSUME NEW v \in W PROVE v.from <= w.from
  <2>1. Showing!Open - v.from \in R
    BY <1>1
  <2>2. Showing!Open - w.from <= Showing!Open - v.from
    BY <1>4, <1>5, <2>1
  <2>3. QED  BY <1>2, <2>2, OpenIs
<1>7. QED  BY <1>6 DEF Showing!Latest

LEMMA AbsorbIs ==
    ASSUME Showing!WindowsAssumption, NEW s \in Seq(Bounded), NEW w \in Bounded,
           \A i \in 1 .. Len(s) : s[i].from <= w.from
    PROVE  /\ Showing!Absorb(s, w) \in Seq(Bounded)
           /\ \A i \in 1 .. Len(Showing!Absorb(s, w)) :
                Showing!Absorb(s, w)[i].from = w.from \/ \E j \in 1 .. Len(s) : Showing!Absorb(s, w)[i].from = s[j].from
           /\ \A t \in Nat : (\E i \in 1 .. Len(Showing!Absorb(s, w)) : Showing!Absorb(s, w)[i].from <= t /\ t < Showing!Absorb(s, w)[i].to)
                <=> (w.from <= t /\ t < w.to) \/ \E j \in 1 .. Len(s) : s[j].from <= t /\ t < s[j].to
<1> USE OpenIs
<1>1. CASE s = << >> \/ w.from > s[Len(s)].to
  <2>1. Showing!Absorb(s, w) = Append(s, w)
    BY <1>1 DEF Showing!Absorb
  <2>2. PICK r : r = Append(s, w)
    OBVIOUS
  <2>3. /\ r \in Seq(Bounded) /\ Len(r) = Len(s) + 1 /\ Len(s) \in Nat
        /\ \A i \in 1 .. Len(s) : r[i] = s[i]
        /\ r[Len(s) + 1] = w
    BY <2>2, AppendProperties
  <2>4. \A i \in 1 .. Len(r) : i \in 1 .. Len(s) \/ i = Len(s) + 1
    BY <2>3
  <2>5. Len(s) + 1 \in 1 .. Len(r) /\ \A i \in 1 .. Len(s) : i \in 1 .. Len(r)
    BY <2>3
  <2>6. \A i \in 1 .. Len(r) : r[i].from = w.from \/ \E j \in 1 .. Len(s) : r[i].from = s[j].from
    BY <2>3, <2>4
  <2>7. ASSUME NEW t \in Nat
        PROVE  (\E i \in 1 .. Len(r) : r[i].from <= t /\ t < r[i].to)
                <=> (w.from <= t /\ t < w.to) \/ \E j \in 1 .. Len(s) : s[j].from <= t /\ t < s[j].to
    BY <2>3, <2>4, <2>5
  <2>8. QED  BY <2>1, <2>2, <2>3, <2>6, <2>7
<1>2. CASE s # << >> /\ ~ (w.from > s[Len(s)].to)
  <2>1. Len(s) \in Nat /\ Len(s) \in 1 .. Len(s)
    BY <1>2
  <2>2. PICK n \in 1 .. Len(s) : n = Len(s)
    BY <2>1
  <2>3. PICK final \in Bounded : final = s[n]
    BY <2>2
  <2>4. /\ final.from \in Nat /\ final.to \in Nat /\ w.from \in Nat /\ w.to \in Nat
        /\ final.from \in 0 .. Showing!Open /\ final.to \in 0 .. Showing!Open /\ w.to \in 0 .. Showing!Open
    BY <2>3 DEF Bounded
  <2>5. PICK e : e = Showing!Max({final.to, w.to})
    OBVIOUS
  <2>6. e = IF final.to >= w.to THEN final.to ELSE w.to
    BY <2>4, <2>5, MaxMin
  <2>7. e \in Nat /\ e \in 0 .. Showing!Open
    BY <2>4, <2>6
  <2>8. PICK x : x = [from |-> final.from, to |-> e]
    OBVIOUS
  <2>9. x \in Bounded /\ x.from = final.from /\ x.to = e
    BY <2>4, <2>7, <2>8 DEF Bounded
  <2>10. PICK r : r = [s EXCEPT ![n] = x]
    OBVIOUS
  <2>11. Showing!Absorb(s, w) = r
    BY <1>2, <2>2, <2>3, <2>5, <2>8, <2>10 DEF Showing!Absorb
  <2>12. /\ r \in Seq(Bounded) /\ Len(r) = Len(s)
         /\ r[n] = x /\ \A i \in 1 .. Len(s) : i # n => r[i] = s[i]
    BY <2>1, <2>9, <2>10, ExceptSeq
  <2>13. w.from <= final.to /\ final.from <= w.from
    BY <1>2, <2>2, <2>3, <2>4
  <2>14. \A i \in 1 .. Len(r) : \E j \in 1 .. Len(s) : r[i].from = s[j].from
    BY <2>3, <2>9, <2>12
  <2>15. \A t \in Nat : (x.from <= t /\ t < x.to) <=> (final.from <= t /\ t < final.to) \/ (w.from <= t /\ t < w.to)
    BY <2>4, <2>6, <2>7, <2>9, <2>13
  <2>16. ASSUME NEW t \in Nat
        PROVE  (\E i \in 1 .. Len(r) : r[i].from <= t /\ t < r[i].to)
                <=> (w.from <= t /\ t < w.to) \/ \E j \in 1 .. Len(s) : s[j].from <= t /\ t < s[j].to
    <3>1. (\E i \in 1 .. Len(r) : r[i].from <= t /\ t < r[i].to)
            <=> (x.from <= t /\ t < x.to) \/ \E j \in 1 .. Len(s) : j # n /\ s[j].from <= t /\ t < s[j].to
      BY <2>12
    <3>2. (\E j \in 1 .. Len(s) : s[j].from <= t /\ t < s[j].to)
            <=> (final.from <= t /\ t < final.to) \/ \E j \in 1 .. Len(s) : j # n /\ s[j].from <= t /\ t < s[j].to
      BY <2>3
    <3>3. QED  BY <2>15, <3>1, <3>2
  <2>17. QED  BY <2>11, <2>12, <2>14, <2>16
<1>3. QED  BY <1>1, <1>2

LEMMA AbsorbType ==
    ASSUME Showing!WindowsAssumption, NEW s \in Seq(Bounded), NEW w \in Bounded
    PROVE  Showing!Absorb(s, w) \in Seq(Bounded)
<1> USE OpenIs
<1>1. CASE s = << >> \/ w.from > s[Len(s)].to
  BY <1>1, AppendProperties DEF Showing!Absorb
<1>2. CASE s # << >> /\ ~ (w.from > s[Len(s)].to)
  <2>1. Len(s) \in Nat /\ Len(s) \in 1 .. Len(s)
    BY <1>2
  <2>2. PICK n \in 1 .. Len(s) : n = Len(s)
    BY <2>1
  <2>3. PICK final \in Bounded : final = s[n]
    BY <2>2
  <2>4. final.to \in Nat /\ w.to \in Nat /\ final.from \in 0 .. Showing!Open /\ final.to \in 0 .. Showing!Open /\ w.to \in 0 .. Showing!Open
    BY <2>3 DEF Bounded
  <2>5. PICK e : e = Showing!Max({final.to, w.to})
    OBVIOUS
  <2>6. e \in 0 .. Showing!Open
    BY <2>4, <2>5, MaxMin
  <2>7. PICK x : x = [from |-> final.from, to |-> e]
    OBVIOUS
  <2>8. x \in Bounded
    BY <2>4, <2>6, <2>7 DEF Bounded
  <2>9. Showing!Absorb(s, w) = [s EXCEPT ![n] = x]
    BY <1>2, <2>2, <2>3, <2>5, <2>7 DEF Showing!Absorb
  <2>10. QED  BY <2>8, <2>9, ExceptSeq
<1>3. QED  BY <1>1, <1>2

\* Merged windows last as long as those they are merged from.
LEMMA MergeIs ==
    ASSUME Showing!WindowsAssumption, NEW W, W \subseteq Bounded
    PROVE  /\ Showing!Merge(W) \subseteq Bounded
           /\ \A t \in Nat : Covers(Showing!Merge(W), t) <=> Covers(W, t)
<1> DEFINE V == [SUBSET W -> Seq(Bounded)]
           base == [U \in SUBSET W |-> << >>]
           Body(M) == [U \in SUBSET W |->
            IF U = {} THEN << >>
            ELSE LET w == Showing!Latest(U) IN Showing!Absorb(M[U \ {w}], w)]
           Merged == CHOOSE M : M = Body(M)
<1>1. ASSUME NEW U \in SUBSET W, U # {}
      PROVE  /\ Showing!Latest(U) \in U /\ Showing!Latest(U) \in Bounded
             /\ \A v \in U : v.from <= Showing!Latest(U).from
             /\ U \ {Showing!Latest(U)} \in SUBSET W
  BY <1>1, LatestIs
<1>2. ASSUME NEW U \in SUBSET W
      PROVE  /\ IsFiniteSet(U) /\ Cardinality(U) \in Nat
             /\ Cardinality(U) = 0 => U = {}
             /\ \A w \in U : Cardinality(U \ {w}) = Cardinality(U) - 1
  <2>1. IsFiniteSet(U)
    BY BoundedFinite
  <2>2. QED  BY <2>1, FS_CardinalityType, FS_EmptySet, FS_RemoveElement
<1>3. base \in V
  <2>1. << >> \in Seq(Bounded)
    OBVIOUS
  <2>2. QED  BY <2>1
<1>4. ASSUME NEW M \in V PROVE Body(M) \in V
  <2>1. ASSUME NEW U \in SUBSET W PROVE Body(M)[U] \in Seq(Bounded)
    <3>1. CASE U = {}
      BY <3>1
    <3>2. CASE U # {}
      <4>1. PICK w : w = Showing!Latest(U)
        OBVIOUS
      <4>2. w \in Bounded /\ U \ {w} \in SUBSET W
        BY <1>1, <3>2, <4>1
      <4>3. M[U \ {w}] \in Seq(Bounded)
        BY <4>2
      <4>4. Showing!Absorb(M[U \ {w}], w) \in Seq(Bounded)
        BY <4>2, <4>3, AbsorbType
      <4>5. Body(M)[U] = Showing!Absorb(M[U \ {w}], w)
        BY <3>2, <4>1
      <4>6. QED  BY <4>4, <4>5
    <3>3. QED  BY <3>1, <3>2
  <2>2. Body(M) = [U \in SUBSET W |-> Body(M)[U]]
    OBVIOUS
  <2> HIDE DEF Body
  <2>3. QED  BY <2>1, <2>2
<1>5. PICK step : step = [n \in Nat |-> [M \in V |-> Body(M)]]
  OBVIOUS
<1>6. step \in [Nat -> [V -> V]] /\ \A n \in Nat, M \in V : step[n][M] = Body(M)
  <2> HIDE DEF Body, V
  <2>1. QED  BY <1>4, <1>5
<1>7. PICK f \in [Nat -> V] : f[0] = base /\ \A n \in Nat : f[n + 1] = step[n][f[n]]
  <2>1. PICK b : b = base
    OBVIOUS
  <2>2. PICK X : X = V
    OBVIOUS
  <2> HIDE DEF base, V, Body, Merged
  <2>3. b \in X /\ step \in [Nat -> [X -> X]]
    BY <1>3, <1>6, <2>1, <2>2
  <2>4. PICK f \in [Nat -> X] : f[0] = b /\ \A n \in Nat : f[n + 1] = step[n][f[n]]
    <3>1. \A z \in X, s \in [Nat -> [X -> X]] :
            \E f \in [Nat -> X] : f[0] = z /\ \A n \in Nat : f[n + 1] = s[n][f[n]]
      BY Iterated
    <3>2. QED  BY <2>3, <3>1
  <2>5. QED  BY <2>1, <2>2, <2>4
<1>8. \A n \in Nat : f[n + 1] = Body(f[n])
  <2> HIDE DEF Body, V
  <2>1. QED  BY <1>6, <1>7
<1>9. ASSUME NEW n \in Nat, NEW U \in SUBSET W
      PROVE  f[n + 1][U] = IF U = {} THEN << >> ELSE Showing!Absorb(f[n][U \ {Showing!Latest(U)}], Showing!Latest(U))
  BY <1>8
<1>10. ASSUME NEW m \in Nat, NEW Z \in SUBSET W, Cardinality(Z) <= m PROVE f[m + 1][Z] = f[m][Z]
  <2>1. PICK S : S = {n \in Nat : \A U \in SUBSET W : Cardinality(U) <= n => f[n + 1][U] = f[n][U]}
    OBVIOUS
  <2> HIDE DEF Body, V
  <2>2. 0 \in S
    <3>1. ASSUME NEW U \in SUBSET W, Cardinality(U) <= 0 PROVE f[0 + 1][U] = f[0][U]
      <4>1. U = {}
        BY <1>2, <3>1
      <4>2. QED  BY <1>7, <1>9, <4>1
    <3>2. QED  BY <2>1, <3>1
  <2>3. ASSUME NEW n \in Nat, n \in S PROVE n + 1 \in S
    <3>1. n + 1 \in Nat
      OBVIOUS
    <3>2. ASSUME NEW U \in SUBSET W, Cardinality(U) <= n + 1 PROVE f[(n + 1) + 1][U] = f[n + 1][U]
      <4>1. CASE U = {}
        BY <1>9, <3>1, <4>1
      <4>2. CASE U # {}
        <5>1. PICK w \in U : w = Showing!Latest(U) /\ U \ {w} \in SUBSET W
          BY <1>1, <4>2
        <5>2. Cardinality(U \ {w}) <= n
          <6>1. Cardinality(U \ {w}) = Cardinality(U) - 1 /\ Cardinality(U) \in Nat
            BY <1>2
          <6>2. QED  BY <3>2, <6>1
        <5>3. f[n + 1][U \ {w}] = f[n][U \ {w}]
          BY <2>1, <2>3, <5>1, <5>2
        <5>4. f[n + 1][U] = Showing!Absorb(f[n][U \ {w}], w)
          BY <1>9, <4>2, <5>1
        <5>5. f[(n + 1) + 1][U] = Showing!Absorb(f[n + 1][U \ {w}], w)
          BY <1>9, <3>1, <4>2, <5>1
        <5>6. QED  BY <5>3, <5>4, <5>5
      <4>3. QED  BY <4>1, <4>2
    <3>3. QED  BY <2>1, <3>1, <3>2
  <2>4. m \in S
    BY <2>1, <2>2, <2>3, EveryNatural
  <2>5. QED  BY <1>10, <2>1, <2>4
<1>11. PICK g \in V : g = Body(g)
  <2>1. PICK n \in Nat : n = Cardinality(W)
    BY <1>2
  <2>2. ASSUME NEW U \in SUBSET W PROVE f[n + 1][U] = f[n][U]
    <3>1. Cardinality(U) <= n
      BY <1>2, <2>1, FS_Subset
    <3>2. QED  BY <1>10, <3>1
  <2>3. f[n] \in V /\ f[n + 1] \in V
    BY <1>7
  <2>4. f[n + 1] = f[n]
    BY <2>2, <2>3
  <2> HIDE DEF Body, V
  <2>5. QED  BY <1>8, <2>3, <2>4
<1>12. Showing!Merge(W) = Showing!Range(Merged[W])
  BY DEF Showing!Merge
<1>13. Merged = Body(Merged)
  <2> HIDE DEF Body
  <2>1. QED  BY <1>11
<1> HIDE DEF Merged
<1>14. ASSUME NEW U \in SUBSET W
       PROVE  Merged[U] = IF U = {} THEN << >> ELSE Showing!Absorb(Merged[U \ {Showing!Latest(U)}], Showing!Latest(U))
  <2>1. Merged[U] = Body(Merged)[U]
    <3> HIDE DEF Body
    <3>1. QED  BY <1>13
  <2>2. QED  BY <2>1
<1> HIDE DEF Body, V
<1> DEFINE Good(U) ==
        /\ Merged[U] \in Seq(Bounded)
        /\ \A i \in 1 .. Len(Merged[U]) : \E v \in U : Merged[U][i].from = v.from
        /\ \A t \in Nat : (\E i \in 1 .. Len(Merged[U]) : Merged[U][i].from <= t /\ t < Merged[U][i].to)
                             <=> \E v \in U : v.from <= t /\ t < v.to
<1>15. PICK S : S = {n \in Nat : \A U \in SUBSET W : Cardinality(U) <= n => Good(U)}
  OBVIOUS
<1>16. ASSUME NEW U \in SUBSET W, U = {} PROVE Good(U)
  <2>1. Merged[U] = << >>
    BY <1>14, <1>16
  <2>2. QED  BY <1>16, <2>1
<1>17. 0 \in S
  <2> HIDE DEF Good
  <2>1. \A U \in SUBSET W : Cardinality(U) <= 0 => U = {}
    BY <1>2
  <2>2. QED  BY <1>15, <1>16, <2>1
<1>18. ASSUME NEW n \in Nat, n \in S PROVE n + 1 \in S
  <2>1. ASSUME NEW U \in SUBSET W, Cardinality(U) <= n + 1, U # {} PROVE Good(U)
    <3>1. PICK w \in U : w = Showing!Latest(U) /\ U \ {w} \in SUBSET W /\ w \in Bounded /\ \A v \in U : v.from <= w.from
      BY <1>1, <2>1
    <3>2. Cardinality(U \ {w}) <= n
      <4>1. Cardinality(U \ {w}) = Cardinality(U) - 1 /\ Cardinality(U) \in Nat
        BY <1>2
      <4>2. QED  BY <2>1, <4>1
    <3>3. Good(U \ {w})
      <4> HIDE DEF Good
      <4>1. QED  BY <1>15, <1>18, <3>1, <3>2
    <3>4. PICK s : s = Merged[U \ {w}]
      OBVIOUS
    <3>5. /\ s \in Seq(Bounded)
          /\ \A i \in 1 .. Len(s) : \E v \in U \ {w} : s[i].from = v.from
          /\ \A t \in Nat : (\E i \in 1 .. Len(s) : s[i].from <= t /\ t < s[i].to)
                             <=> \E v \in U \ {w} : v.from <= t /\ t < v.to
      BY <3>3, <3>4
    <3>6. \A i \in 1 .. Len(s) : s[i].from <= w.from
      BY <3>1, <3>5
    <3>7. PICK r : r = Showing!Absorb(s, w)
      OBVIOUS
    <3>8. /\ r \in Seq(Bounded)
          /\ \A i \in 1 .. Len(r) : r[i].from = w.from \/ \E j \in 1 .. Len(s) : r[i].from = s[j].from
          /\ \A t \in Nat : (\E i \in 1 .. Len(r) : r[i].from <= t /\ t < r[i].to)
                <=> (w.from <= t /\ t < w.to) \/ \E j \in 1 .. Len(s) : s[j].from <= t /\ t < s[j].to
      <4>1. /\ Showing!Absorb(s, w) \in Seq(Bounded)
            /\ \A i \in 1 .. Len(Showing!Absorb(s, w)) :
                 Showing!Absorb(s, w)[i].from = w.from \/ \E j \in 1 .. Len(s) : Showing!Absorb(s, w)[i].from = s[j].from
            /\ \A t \in Nat : (\E i \in 1 .. Len(Showing!Absorb(s, w)) : Showing!Absorb(s, w)[i].from <= t /\ t < Showing!Absorb(s, w)[i].to)
                 <=> (w.from <= t /\ t < w.to) \/ \E j \in 1 .. Len(s) : s[j].from <= t /\ t < s[j].to
        <5> HIDE DEF Good
        <5>1. s \in Seq(Bounded) /\ w \in Bounded
          BY <3>1, <3>5
        <5>2. QED  BY <5>1, <3>6, AbsorbIs
      <4>2. QED  BY <3>7, <4>1
    <3>9. Merged[U] = r
      BY <1>14, <2>1, <3>1, <3>4, <3>7
    <3>10. ASSUME NEW i \in 1 .. Len(r) PROVE \E v \in U : r[i].from = v.from
      BY <3>1, <3>5, <3>8
    <3>11. ASSUME NEW t \in Nat
           PROVE  (\E i \in 1 .. Len(r) : r[i].from <= t /\ t < r[i].to) <=> \E v \in U : v.from <= t /\ t < v.to
      <4>1. (\E v \in U : v.from <= t /\ t < v.to)
              <=> (w.from <= t /\ t < w.to) \/ \E v \in U \ {w} : v.from <= t /\ t < v.to
        BY <3>1
      <4>2. QED  BY <3>5, <3>8, <4>1
    <3>12. QED  BY <3>8, <3>9, <3>10, <3>11
  <2> HIDE DEF Good
  <2>2. n + 1 \in Nat
    OBVIOUS
  <2>3. QED  BY <1>15, <1>16, <2>1, <2>2
<1>19. Good(W)
  <2> HIDE DEF Good
  <2>1. PICK n \in Nat : n = Cardinality(W)
    BY <1>2
  <2>2. n \in S
    BY <1>15, <1>17, <1>18, EveryNatural
  <2>3. n <= n
    OBVIOUS
  <2>4. QED  BY <1>15, <2>1, <2>2, <2>3
<1>20. PICK s : s = Merged[W]
  OBVIOUS
<1>21. /\ s \in Seq(Bounded)
       /\ \A t \in Nat : (\E i \in 1 .. Len(s) : s[i].from <= t /\ t < s[i].to) <=> Covers(W, t)
  BY <1>19, <1>20 DEF Covers
<1>22. Showing!Merge(W) = {s[i] : i \in 1 .. Len(s)}
  BY <1>12, <1>20, <1>21 DEF Showing!Range
<1>23. Showing!Merge(W) \subseteq Bounded
  BY <1>21, <1>22
<1>24. \A t \in Nat : Covers(Showing!Merge(W), t) <=> \E i \in 1 .. Len(s) : s[i].from <= t /\ t < s[i].to
  BY <1>22 DEF Covers
<1>25. QED  BY <1>21, <1>23, <1>24

-----------------------------------------------------------------------------
RowTypes ==
    /\ clock \in 0 .. Book.time
    /\ fits \in [Showing!Places \X Book.devices -> {None} \cup [from : 0 .. Book.time, to : 0 .. Showing!Open]]
    /\ grant \in [Book.own -> {None} \cup [from : 0 .. Book.time, history : BOOLEAN]]
    /\ past \subseteq [unit : Book.own, from : 0 .. Book.time, to : 0 .. Book.time, history : BOOLEAN]
    /\ \A u \in Showing!Places, d \in Book.devices : fits[<<u, d>>] # None =>
          fits[<<u, d>>].from <= clock /\ (fits[<<u, d>>].to = Showing!Open \/ fits[<<u, d>>].to <= clock)
    /\ \A u \in Book.own : grant[u] # None => grant[u].from <= clock
    /\ \A g \in past : g.to <= clock

\* The row of a pair says that the unit has the device at an instant.
Holds(u, d, t) == fits[<<u, d>>] # None /\ fits[<<u, d>>].from <= t /\ t < fits[<<u, d>>].to

\* What was so, the rows tell, but for what was overwritten.
RowsTell ==
    \A u \in Showing!Places, d \in Book.devices, t \in Nat :
        /\ t < clock /\ Holds(u, d, t) => <<t, u, d>> \in carried
        /\ <<t, u, d>> \in carried => t < clock /\ (<<t, u, d>> \in overwritten \/ Holds(u, d, t))

LetBy(u, t) ==
    \/ grant[u] # None /\ Showing!Begins(grant[u]) <= t
    \/ \E g \in past : g.unit = u /\ Showing!Begins(g) <= t /\ t < g.to

GrantsTell == \A u \in Book.own, t \in Nat : <<t, u>> \in let <=> t < clock /\ LetBy(u, t)

WindowInv == RowTypes /\ RowsTell /\ GrantsTell

LEMMA FitRow ==
    ASSUME RowTypes, Showing!WindowsAssumption, NEW u \in Showing!Places, NEW d \in Book.devices,
           fits[<<u, d>>] # None
    PROVE  /\ fits[<<u, d>>] \in [from : 0 .. Book.time, to : 0 .. Showing!Open]
           /\ fits[<<u, d>>].from \in Nat /\ fits[<<u, d>>].to \in Nat
           /\ fits[<<u, d>>].from \in 0 .. Showing!Open /\ fits[<<u, d>>].to \in 0 .. Showing!Open
<1>1. fits[<<u, d>>] \in [from : 0 .. Book.time, to : 0 .. Showing!Open]
  BY DEF RowTypes
<1>2. PICK r : r = fits[<<u, d>>]
  OBVIOUS
<1>3. r \in [from : 0 .. Book.time, to : 0 .. Showing!Open]
  BY <1>1, <1>2
<1>4. r.from \in 0 .. Book.time /\ r.to \in 0 .. Showing!Open
  BY <1>3
<1>5. r.from \in Nat /\ r.to \in Nat /\ r.from \in 0 .. Showing!Open
  BY <1>4, OpenIs
<1>6. QED  BY <1>1, <1>2, <1>4, <1>5

LEMMA OverlapIs ==
    ASSUME Showing!WindowsAssumption, NEW w \in Bounded, NEW from \in Nat, NEW to \in Nat
    PROVE  /\ from <= Showing!Open /\ to <= Showing!Open => Showing!Meeting(w, from, to) \subseteq Bounded
           /\ \A t \in Nat : Covers(Showing!Meeting(w, from, to), t) <=>
                /\ w.from <= t /\ t < w.to
                /\ from <= t /\ t < to
<1>1. w.from \in Nat /\ w.to \in Nat /\ w.from <= Showing!Open /\ w.to <= Showing!Open
  BY OpenIs DEF Bounded
<1>2. PICK a : a = Showing!Max({w.from, from})
  OBVIOUS
<1>3. PICK b : b = Showing!Min({w.to, to})
  OBVIOUS
<1>4. /\ a = IF w.from >= from THEN w.from ELSE from
      /\ b = IF w.to <= to THEN w.to ELSE to
      /\ a \in Nat /\ b \in Nat
  BY <1>1, <1>2, <1>3, MaxMin
<1>5. PICK v : v = [from |-> a, to |-> b]
  OBVIOUS
<1>6. v.from = a /\ v.to = b
  BY <1>5
<1>7. Showing!Meeting(w, from, to) = {x \in {v} : x.from < x.to}
  BY <1>2, <1>3, <1>5 DEF Showing!Meeting
<1>8. from <= Showing!Open /\ to <= Showing!Open => v \in Bounded
  <2>1. from <= Showing!Open /\ to <= Showing!Open => a \in 0 .. Showing!Open /\ b \in 0 .. Showing!Open
    BY <1>1, <1>4, OpenIs
  <2>2. QED  BY <1>5, <2>1 DEF Bounded
<1>9. ASSUME NEW t \in Nat
      PROVE  Covers(Showing!Meeting(w, from, to), t) <=> w.from <= t /\ t < w.to /\ from <= t /\ t < to
  <2>1. Covers(Showing!Meeting(w, from, to), t) <=> v.from < v.to /\ v.from <= t /\ t < v.to
    BY <1>7 DEF Covers
  <2>2. (a < b /\ a <= t /\ t < b) <=> (w.from <= t /\ t < w.to /\ from <= t /\ t < to)
    BY <1>1, <1>4
  <2>3. QED  BY <1>6, <2>1, <2>2
<1>10. QED  BY <1>7, <1>8, <1>9

LEMMA GrantWindowsAre ==
    ASSUME WindowInv, Showing!WindowsAssumption, NEW s \in Showing!Subjects,
           NEW u \in Showing!Seen(s)
    PROVE  /\ Showing!GrantWindows(s, u) \subseteq Bounded
           /\ \A t \in Nat : t < clock => (Covers(Showing!GrantWindows(s, u), t) <=> s = "organization" \/ <<t, u>> \in let)
<1> USE OpenIs
<1>1. clock \in Nat /\ clock < Showing!Open
  BY DEF WindowInv, RowTypes
<1>2. CASE s = "organization"
  <2>1. PICK w : w = [from |-> 0, to |-> Showing!Open]
    OBVIOUS
  <2>2. Showing!GrantWindows(s, u) = {w}
    BY <1>2, <2>1 DEF Showing!GrantWindows
  <2>3. w.from = 0 /\ w.to = Showing!Open /\ w \in Bounded
    BY <2>1 DEF Bounded
  <2>4. ASSUME NEW t \in Nat, t < clock PROVE Covers({w}, t)
    BY <1>1, <2>3, <2>4 DEF Covers
  <2>5. QED  BY <1>2, <2>2, <2>3, <2>4
<1>3. CASE s # "organization"
  <2>1. u \in Book.own /\ grant[u] # None
    BY <1>3 DEF Showing!Seen
  <2>2. PICK r : r = grant[u]
    OBVIOUS
  <2>3. r \in [from : 0 .. Book.time, history : BOOLEAN]
    BY <2>1, <2>2 DEF WindowInv, RowTypes
  <2>4. Showing!Begins(r) \in Nat /\ Showing!Begins(r) <= Showing!Open
    BY <2>3 DEF Showing!Begins
  <2>5. PICK w : w = [from |-> Showing!Begins(r), to |-> Showing!Open]
    OBVIOUS
  <2>6. w \in Bounded /\ w.from = Showing!Begins(r) /\ w.to = Showing!Open
    BY <2>4, <2>5 DEF Bounded
  <2>7. PICK Was : Was = {v \in {[from |-> Showing!Begins(g), to |-> g.to] : g \in {h \in past : h.unit = u}} :
                        v.from < v.to}
    OBVIOUS
  <2>8. ASSUME NEW g \in past PROVE Showing!Begins(g) \in Nat /\ Showing!Begins(g) <= Showing!Open /\ g.to \in Nat /\ g.to <= Showing!Open
    <3>1. g \in [unit : Book.own, from : 0 .. Book.time, to : 0 .. Book.time, history : BOOLEAN]
      BY DEF WindowInv, RowTypes
    <3>2. g.from \in 0 .. Book.time /\ g.to \in 0 .. Book.time /\ g.history \in BOOLEAN
      BY <3>1
    <3>3. QED  BY <3>2 DEF Showing!Begins
  <2>9. Was \subseteq Bounded
    <3>1. ASSUME NEW v \in Was PROVE v \in Bounded
      <4>1. PICK g \in past : v = [from |-> Showing!Begins(g), to |-> g.to]
        BY <2>7
      <4>2. Showing!Begins(g) \in 0 .. Showing!Open /\ g.to \in 0 .. Showing!Open
        BY <2>8
      <4>3. QED  BY <4>1, <4>2 DEF Bounded
    <3>2. QED  BY <3>1
  <2>10. ASSUME NEW t \in Nat
         PROVE  Covers(Was, t) <=> \E g \in past : g.unit = u /\ Showing!Begins(g) <= t /\ t < g.to
    <3>1. ASSUME NEW v \in Was, v.from <= t, t < v.to PROVE \E g \in past : g.unit = u /\ Showing!Begins(g) <= t /\ t < g.to
      <4>1. PICK g \in past : g.unit = u /\ v = [from |-> Showing!Begins(g), to |-> g.to]
        BY <2>7
      <4>2. v.from = Showing!Begins(g) /\ v.to = g.to
        BY <4>1
      <4>3. QED  BY <3>1, <4>1, <4>2
    <3>2. ASSUME NEW g \in past, g.unit = u, Showing!Begins(g) <= t, t < g.to PROVE Covers(Was, t)
      <4>1. PICK v : v = [from |-> Showing!Begins(g), to |-> g.to]
        OBVIOUS
      <4>2. v.from = Showing!Begins(g) /\ v.to = g.to
        BY <4>1
      <4>3. v.from < v.to
        BY <2>8, <3>2, <4>2
      <4>4. v \in Was
        BY <2>7, <3>2, <4>1, <4>3
      <4>5. QED  BY <3>2, <4>2, <4>4 DEF Covers
    <3>3. QED  BY <3>1, <3>2 DEF Covers
  <2>11. Showing!GrantWindows(s, u) = Showing!Merge({w} \cup Was)
    BY <1>3, <2>2, <2>5, <2>7 DEF Showing!GrantWindows
  <2>12. {w} \cup Was \subseteq Bounded
    BY <2>6, <2>9
  <2>13. PICK All : All = {w} \cup Was
    OBVIOUS
  <2>14. Showing!Merge(All) \subseteq Bounded /\ \A t \in Nat : Covers(Showing!Merge(All), t) <=> Covers(All, t)
    BY <2>12, <2>13, MergeIs
  <2>15. ASSUME NEW t \in Nat, t < clock PROVE Covers(All, t) <=> <<t, u>> \in let
    <3>1. Covers(All, t) <=> (w.from <= t /\ t < w.to) \/ Covers(Was, t)
      BY <2>13 DEF Covers
    <3>2. w.from <= t /\ t < w.to <=> Showing!Begins(grant[u]) <= t
      BY <1>1, <2>2, <2>6, <2>15
    <3>3. QED  BY <2>1, <2>10, <2>15, <3>1, <3>2 DEF WindowInv, GrantsTell, LetBy
  <2>16. QED  BY <1>3, <2>11, <2>13, <2>14, <2>15
<1>4. QED  BY <1>2, <1>3

\* What is seen of a device are the instants that were theirs, as far as the
\* rows still tell.
LEMMA RefsAre ==
    ASSUME WindowInv, Showing!WindowsAssumption, NEW s \in Showing!Subjects,
           NEW d \in Book.devices
    PROVE  /\ Showing!Refs(s, d) \subseteq Bounded
           /\ \A t \in Nat : t < clock => (Covers(Showing!Refs(s, d), t) <=>
                \E u \in Showing!Seen(s) : Holds(u, d, t) /\ (s = "organization" \/ <<t, u>> \in let))
<1> DEFINE Met(u) == UNION {Showing!Meeting(w, fits[<<u, d>>].from, fits[<<u, d>>].to) : w \in Showing!GrantWindows(s, u)}
           In == {v \in Showing!Seen(s) : fits[<<v, d>>] # None}
<1>1. \A u \in In : u \in Showing!Places /\ u \in Showing!Seen(s) /\ fits[<<u, d>>] # None
  BY DEF Showing!Seen, Showing!Places
<1>2. ASSUME NEW u \in In
      PROVE  /\ Met(u) \subseteq Bounded
             /\ \A t \in Nat : Covers(Met(u), t) <=> Covers(Showing!GrantWindows(s, u), t) /\ Holds(u, d, t)
  <2>1. PICK from \in Nat : from = fits[<<u, d>>].from /\ from <= Showing!Open
    BY <1>1, FitRow, OpenIs DEF WindowInv
  <2>2. PICK to \in Nat : to = fits[<<u, d>>].to /\ to <= Showing!Open
    BY <1>1, FitRow, OpenIs DEF WindowInv
  <2>3. PICK G : G = Showing!GrantWindows(s, u)
    OBVIOUS
  <2>4. G \subseteq Bounded
    BY <1>1, <2>3, GrantWindowsAre
  <2>5. Met(u) = UNION {Showing!Meeting(w, from, to) : w \in G}
    BY <2>1, <2>2, <2>3
  <2>6. ASSUME NEW w \in G
        PROVE  /\ Showing!Meeting(w, from, to) \subseteq Bounded
               /\ \A t \in Nat : Covers(Showing!Meeting(w, from, to), t) <=> w.from <= t /\ t < w.to /\ from <= t /\ t < to
    BY <2>1, <2>2, <2>4, OverlapIs
  <2>7. UNION {Showing!Meeting(w, from, to) : w \in G} \subseteq Bounded
    BY <2>6
  <2>8. ASSUME NEW t \in Nat
        PROVE  Covers(UNION {Showing!Meeting(w, from, to) : w \in G}, t) <=> \E w \in G : Covers(Showing!Meeting(w, from, to), t)
    BY DEF Covers
  <2>9. ASSUME NEW t \in Nat
        PROVE  (\E w \in G : Covers(Showing!Meeting(w, from, to), t)) <=> Covers(G, t) /\ from <= t /\ t < to
    BY <2>6 DEF Covers
  <2>10. ASSUME NEW t \in Nat PROVE Holds(u, d, t) <=> from <= t /\ t < to
    BY <1>1, <2>1, <2>2 DEF Holds
  <2> HIDE DEF Met
  <2>11. QED  BY <2>3, <2>5, <2>7, <2>8, <2>9, <2>10
<1> HIDE DEF Met
<1>3. PICK All : All = UNION {Met(u) : u \in In}
  OBVIOUS
<1>4. Showing!Refs(s, d) = Showing!Merge(All)
  BY <1>3 DEF Showing!Refs, Met
<1>5. All \subseteq Bounded
  BY <1>2, <1>3
<1>6. ASSUME NEW t \in Nat PROVE Covers(All, t) <=> \E u \in In : Covers(Met(u), t)
  BY <1>3 DEF Covers
<1>7. ASSUME NEW t \in Nat, t < clock
      PROVE  (\E u \in In : Covers(Met(u), t)) <=>
                \E u \in Showing!Seen(s) : Holds(u, d, t) /\ (s = "organization" \/ <<t, u>> \in let)
  <2>1. \A u \in Showing!Seen(s) : Holds(u, d, t) => u \in In
    BY DEF Holds
  <2>2. \A u \in Showing!Seen(s) : Covers(Showing!GrantWindows(s, u), t) <=> s = "organization" \/ <<t, u>> \in let
    BY <1>7, GrantWindowsAre
  <2>3. \A u \in In : u \in Showing!Seen(s)
    OBVIOUS
  <2> HIDE DEF In
  <2>4. QED  BY <1>2, <2>1, <2>2, <2>3
<1>8. Showing!Merge(All) \subseteq Bounded /\ \A t \in Nat : Covers(Showing!Merge(All), t) <=> Covers(All, t)
  BY <1>5, MergeIs
<1> HIDE DEF In
<1>9. QED  BY <1>4, <1>6, <1>7, <1>8

LEMMA WindowInit ==
    ASSUME Showing!Init, Showing!WindowsAssumption
    PROVE  WindowInv
<1> USE OpenIs
<1>1. RowTypes
  BY DEF Showing!Init, RowTypes
<1>2. RowsTell
  BY DEF Showing!Init, RowsTell, Holds
<1>3. GrantsTell
  BY DEF Showing!Init, GrantsTell, LetBy
<1>4. QED  BY <1>1, <1>2, <1>3 DEF WindowInv

LEMMA AssignKeeps ==
    ASSUME WindowInv, Showing!WindowsAssumption, NEW u \in Showing!Places,
           NEW d \in Book.devices, Showing!Assign(u, d)
    PROVE  WindowInv'
<1> USE OpenIs DEF WindowInv
<1>1. clock \in Nat /\ clock \in 0 .. Book.time /\ Showing!Open \in 0 .. Showing!Open
  BY DEF RowTypes
<1>2. PICK r : r = [from |-> clock, to |-> Showing!Open]
  OBVIOUS
<1>3. r \in [from : 0 .. Book.time, to : 0 .. Showing!Open] /\ r.from = clock /\ r.to = Showing!Open
  BY <1>1, <1>2
<1>4. /\ fits' = [fits EXCEPT ![<<u, d>>] = r]
      /\ overwritten' = overwritten \cup {c \in carried : c[2] = u /\ c[3] = d}
      /\ UNCHANGED <<clock, carried, grant, past, let>>
  BY <1>2 DEF Showing!Assign, Showing!Change
<1>5. ASSUME NEW v \in Showing!Places, NEW e \in Book.devices
      PROVE  fits'[<<v, e>>] = IF v = u /\ e = d THEN r ELSE fits[<<v, e>>]
  BY <1>4 DEF RowTypes
<1>6. RowTypes'
  <2>1. fits' \in [Showing!Places \X Book.devices -> {None} \cup [from : 0 .. Book.time, to : 0 .. Showing!Open]]
    BY <1>3, <1>4 DEF RowTypes
  <2>2. \A v \in Showing!Places, e \in Book.devices : fits'[<<v, e>>] # None =>
          fits'[<<v, e>>].from <= clock /\ (fits'[<<v, e>>].to = Showing!Open \/ fits'[<<v, e>>].to <= clock)
    BY <1>1, <1>3, <1>5 DEF RowTypes
  <2>3. QED  BY <1>4, <2>1, <2>2 DEF RowTypes
<1>7. RowsTell'
  <2>1. ASSUME NEW v \in Showing!Places, NEW e \in Book.devices, NEW t \in Nat
        PROVE  /\ t < clock /\ Holds(v, e, t)' => <<t, v, e>> \in carried
               /\ <<t, v, e>> \in carried => t < clock /\ (<<t, v, e>> \in overwritten' \/ Holds(v, e, t)')
    <3>1. CASE v = u /\ e = d
      <4>1. Holds(v, e, t)' => clock <= t
        BY <1>3, <1>5, <3>1 DEF Holds
      <4>2. <<t, v, e>> \in carried => <<t, v, e>> \in overwritten'
        BY <1>4, <3>1
      <4>3. QED  BY <1>1, <4>1, <4>2 DEF RowsTell
    <3>2. CASE ~ (v = u /\ e = d)
      <4>1. Holds(v, e, t)' <=> Holds(v, e, t)
        BY <1>5, <3>2 DEF Holds
      <4>2. QED  BY <1>4, <4>1 DEF RowsTell
    <3>3. QED  BY <3>1, <3>2
  <2>2. QED  BY <1>4, <2>1 DEF RowsTell
<1>8. GrantsTell'
  BY <1>4 DEF GrantsTell, LetBy, Showing!Begins
<1>9. QED  BY <1>6, <1>7, <1>8

LEMMA UnassignKeeps ==
    ASSUME WindowInv, Showing!WindowsAssumption, NEW u \in Showing!Places,
           NEW d \in Book.devices, Showing!Unassign(u, d)
    PROVE  WindowInv'
<1> USE OpenIs DEF WindowInv
<1>1. clock \in Nat /\ clock \in 0 .. Book.time /\ clock \in 0 .. Showing!Open /\ clock < Showing!Open
  BY DEF RowTypes
<1>2. fits[<<u, d>>] # None /\ fits[<<u, d>>].to = Showing!Open
  BY DEF Showing!Unassign, Showing!InPlace
<1>3. PICK was : was = fits[<<u, d>>]
  OBVIOUS
<1>4. was \in [from : 0 .. Book.time, to : 0 .. Showing!Open] /\ was.from <= clock /\ was.to = Showing!Open
  BY <1>2, <1>3, FitRow DEF RowTypes
<1>5. PICK r : r = [was EXCEPT !.to = clock]
  OBVIOUS
<1>6. r \in [from : 0 .. Book.time, to : 0 .. Showing!Open] /\ r.from = was.from /\ r.to = clock
  BY <1>1, <1>4, <1>5
<1>7. r # None
  <2>1. r = [from |-> was.from, to |-> clock]
    BY <1>4, <1>5
  <2>2. r \in [from : Nat, to : Nat]
    BY <1>1, <1>4, <2>1
  <2>3. QED  BY <2>2 DEF Showing!WindowsAssumption
<1>8. fits' = [fits EXCEPT ![<<u, d>>] = r] /\ UNCHANGED <<clock, carried, grant, past, let, overwritten>>
  BY <1>3, <1>5 DEF Showing!Unassign, Showing!Change
<1>9. ASSUME NEW v \in Showing!Places, NEW e \in Book.devices
      PROVE  fits'[<<v, e>>] = IF v = u /\ e = d THEN r ELSE fits[<<v, e>>]
  BY <1>8 DEF RowTypes
<1>10. RowTypes'
  <2>1. fits' \in [Showing!Places \X Book.devices -> {None} \cup [from : 0 .. Book.time, to : 0 .. Showing!Open]]
    BY <1>6, <1>8 DEF RowTypes
  <2>2. \A v \in Showing!Places, e \in Book.devices : fits'[<<v, e>>] # None =>
          fits'[<<v, e>>].from <= clock /\ (fits'[<<v, e>>].to = Showing!Open \/ fits'[<<v, e>>].to <= clock)
    BY <1>1, <1>4, <1>6, <1>9 DEF RowTypes
  <2>3. QED  BY <1>8, <2>1, <2>2 DEF RowTypes
<1>11. RowsTell'
  <2>1. ASSUME NEW v \in Showing!Places, NEW e \in Book.devices, NEW t \in Nat, t < clock
        PROVE  Holds(v, e, t)' <=> Holds(v, e, t)
    <3>1. CASE v = u /\ e = d
      BY <1>1, <1>2, <1>3, <1>6, <1>7, <1>9, <2>1, <3>1 DEF Holds
    <3>2. CASE ~ (v = u /\ e = d)
      BY <1>9, <3>2 DEF Holds
    <3>3. QED  BY <3>1, <3>2
  <2>2. QED  BY <1>8, <2>1 DEF RowsTell
<1>12. GrantsTell'
  BY <1>8 DEF GrantsTell, LetBy, Showing!Begins
<1>13. QED  BY <1>10, <1>11, <1>12

LEMMA GrantKeeps ==
    ASSUME WindowInv, Showing!WindowsAssumption, NEW u \in Book.own, NEW h \in BOOLEAN,
           Showing!Grant(u, h)
    PROVE  WindowInv'
<1> USE OpenIs DEF WindowInv
<1>1. clock \in Nat /\ clock \in 0 .. Book.time
  BY DEF RowTypes
<1>2. PICK r : r = [from |-> clock, history |-> h]
  OBVIOUS
<1>3. r \in [from : 0 .. Book.time, history : BOOLEAN] /\ r.from = clock /\ r.history = h /\ r # None
  BY <1>1, <1>2 DEF Showing!WindowsAssumption
<1>4. /\ grant' = [grant EXCEPT ![u] = r]
      /\ let' = let \cup IF h THEN {<<t, u>> : t \in 0 .. (clock - 1)} ELSE {}
      /\ UNCHANGED <<clock, carried, fits, past, overwritten>>
  BY <1>2 DEF Showing!Grant, Showing!Change
<1>5. grant[u] = None /\ \A v \in Book.own : grant'[v] = IF v = u THEN r ELSE grant[v]
  BY <1>4 DEF RowTypes, Showing!Grant
<1>6. RowTypes'
  BY <1>1, <1>3, <1>4, <1>5 DEF RowTypes
<1>7. RowsTell'
  BY <1>4 DEF RowsTell, Holds
<1>8. GrantsTell'
  <2>1. ASSUME NEW v \in Book.own, NEW t \in Nat
        PROVE  <<t, v>> \in let' <=> t < clock /\ LetBy(v, t)'
    <3>1. LetBy(v, t)' <=> (grant'[v] # None /\ Showing!Begins(grant'[v]) <= t)
                             \/ \E g \in past : g.unit = v /\ Showing!Begins(g) <= t /\ t < g.to
      BY <1>4 DEF LetBy, Showing!Begins
    <3>2. CASE v = u
      <4>1. <<t, v>> \in let' <=> <<t, v>> \in let \/ (h /\ t < clock)
        BY <1>1, <1>4, <3>2
      <4>2. (grant'[v] # None /\ Showing!Begins(grant'[v]) <= t) <=> (h \/ clock <= t)
        BY <1>3, <1>5, <3>2 DEF Showing!Begins
      <4>3. QED  BY <1>1, <1>5, <3>1, <3>2, <4>1, <4>2 DEF GrantsTell, LetBy
    <3>3. CASE v # u
      <4>1. <<t, v>> \in let' <=> <<t, v>> \in let
        BY <1>4, <3>3
      <4>2. grant'[v] = grant[v]
        BY <1>5, <3>3
      <4>3. QED  BY <3>1, <4>1, <4>2 DEF GrantsTell, LetBy
    <3>4. QED  BY <3>2, <3>3
  <2>2. QED  BY <1>4, <2>1 DEF GrantsTell
<1>9. QED  BY <1>6, <1>7, <1>8

LEMMA WithdrawKeeps ==
    ASSUME WindowInv, Showing!WindowsAssumption, NEW u \in Book.own, Showing!Withdraw(u)
    PROVE  WindowInv'
<1> USE OpenIs DEF WindowInv
<1>1. clock \in Nat /\ clock \in 0 .. Book.time
  BY DEF RowTypes
<1>2. PICK r : r = grant[u]
  OBVIOUS
<1>3. r \in [from : 0 .. Book.time, history : BOOLEAN] /\ r # None
  BY <1>2 DEF RowTypes, Showing!Withdraw
<1>4. PICK g : g = Showing!Archived(u)
  OBVIOUS
<1>5. /\ g \in [unit : Book.own, from : 0 .. Book.time, to : 0 .. Book.time, history : BOOLEAN]
      /\ g.unit = u /\ g.from = r.from /\ g.to = clock /\ g.history = r.history
  BY <1>1, <1>2, <1>3, <1>4 DEF Showing!Archived
<1>6. /\ past' = past \cup {g} /\ grant' = [grant EXCEPT ![u] = None]
      /\ UNCHANGED <<clock, carried, fits, let, overwritten>>
  BY <1>4 DEF Showing!Withdraw, Showing!Change
<1>7. \A v \in Book.own : grant'[v] = IF v = u THEN None ELSE grant[v]
  BY <1>6 DEF RowTypes
<1>8. RowTypes'
  BY <1>1, <1>5, <1>6, <1>7 DEF RowTypes
<1>9. RowsTell'
  BY <1>6 DEF RowsTell, Holds
<1>10. GrantsTell'
  <2>1. ASSUME NEW v \in Book.own, NEW t \in Nat, t < clock
        PROVE  LetBy(v, t)' <=> LetBy(v, t)
    <3>1. LetBy(v, t)' <=> (grant'[v] # None /\ Showing!Begins(grant'[v]) <= t)
                             \/ \E p \in past' : p.unit = v /\ Showing!Begins(p) <= t /\ t < p.to
      BY DEF LetBy, Showing!Begins
    <3>2. (\E p \in past' : p.unit = v /\ Showing!Begins(p) <= t /\ t < p.to)
            <=> (g.unit = v /\ Showing!Begins(g) <= t /\ t < g.to) \/ \E p \in past : p.unit = v /\ Showing!Begins(p) <= t /\ t < p.to
      BY <1>6
    <3>3. Showing!Begins(g) = Showing!Begins(r)
      BY <1>5 DEF Showing!Begins
    <3>4. CASE v = u
      BY <1>2, <1>3, <1>5, <1>7, <2>1, <3>1, <3>2, <3>3, <3>4 DEF LetBy
    <3>5. CASE v # u
      BY <1>5, <1>7, <3>1, <3>2, <3>5 DEF LetBy
    <3>6. QED  BY <3>4, <3>5
  <2>2. QED  BY <1>6, <2>1 DEF GrantsTell
<1>11. QED  BY <1>8, <1>9, <1>10

LEMMA TickKeeps ==
    ASSUME WindowInv, Showing!WindowsAssumption, Showing!Tick
    PROVE  WindowInv'
<1> USE OpenIs DEF WindowInv
<1>1. clock \in Nat /\ clock' = clock + 1 /\ clock' \in 0 .. Book.time /\ clock < Showing!Open
  BY DEF RowTypes, Showing!Tick
<1>2. /\ carried' = carried \cup {<<clock, p[1], p[2]>> : p \in {p \in DOMAIN fits : Showing!InPlace(p)}}
      /\ let' = let \cup {<<clock, u>> : u \in {u \in Book.own : grant[u] # None}}
      /\ UNCHANGED <<fits, grant, past, overwritten>>
  BY DEF Showing!Tick
<1>3. RowTypes'
  <2>1. \A u \in Showing!Places, d \in Book.devices : fits[<<u, d>>] # None =>
          fits[<<u, d>>].from <= clock + 1 /\ (fits[<<u, d>>].to = Showing!Open \/ fits[<<u, d>>].to <= clock + 1)
    <3> TAKE u \in Showing!Places, d \in Book.devices
    <3> HAVE fits[<<u, d>>] # None
    <3>1. fits[<<u, d>>].from \in Nat /\ fits[<<u, d>>].to \in Nat
      BY FitRow
    <3>2. fits[<<u, d>>].from <= clock /\ (fits[<<u, d>>].to = Showing!Open \/ fits[<<u, d>>].to <= clock)
      BY DEF RowTypes
    <3>3. QED  BY <1>1, <3>1, <3>2
  <2>2. \A u \in Book.own : grant[u] # None => grant[u].from <= clock + 1
    <3> TAKE u \in Book.own
    <3> HAVE grant[u] # None
    <3>1. grant[u] \in [from : 0 .. Book.time, history : BOOLEAN] /\ grant[u].from <= clock
      BY DEF RowTypes
    <3>2. QED  BY <1>1, <3>1
  <2>3. \A g \in past : g.to <= clock + 1
    <3> TAKE g \in past
    <3>1. g \in [unit : Book.own, from : 0 .. Book.time, to : 0 .. Book.time, history : BOOLEAN] /\ g.to <= clock
      BY DEF RowTypes
    <3>2. QED  BY <1>1, <3>1
  <2>4. QED  BY <1>1, <1>2, <2>1, <2>2, <2>3 DEF RowTypes
<1>4. RowsTell'
  <2>1. ASSUME NEW u \in Showing!Places, NEW d \in Book.devices, NEW t \in Nat
        PROVE  /\ t < clock + 1 /\ Holds(u, d, t) => <<t, u, d>> \in carried'
               /\ <<t, u, d>> \in carried' => t < clock + 1 /\ (<<t, u, d>> \in overwritten \/ Holds(u, d, t))
    <3>1. <<t, u, d>> \in carried' <=> <<t, u, d>> \in carried \/ (t = clock /\ Showing!InPlace(<<u, d>>))
      <4>1. <<u, d>> \in DOMAIN fits
        BY DEF RowTypes
      <4>2. ASSUME NEW p \in DOMAIN fits, <<t, u, d>> = <<clock, p[1], p[2]>> PROVE p = <<u, d>>
        BY <4>2 DEF RowTypes
      <4>3. PICK now0 : now0 = clock
        OBVIOUS
      <4>4. carried' = carried \cup {<<now0, p[1], p[2]>> : p \in {p \in DOMAIN fits : Showing!InPlace(p)}}
        BY <1>2, <4>3
      <4>5. QED  BY <4>1, <4>2, <4>3, <4>4
    <3>2. t = clock => (Showing!InPlace(<<u, d>>) <=> Holds(u, d, t))
      <4>1. fits[<<u, d>>] # None => /\ fits[<<u, d>>].from <= clock
                                     /\ fits[<<u, d>>].to = Showing!Open \/ fits[<<u, d>>].to <= clock
                                     /\ fits[<<u, d>>].to \in Nat
        BY FitRow DEF RowTypes
      <4>2. QED  BY <1>1, <4>1 DEF Showing!InPlace, Holds
    <3>3. t < clock + 1 <=> t < clock \/ t = clock
      BY <1>1
    <3>4. t = clock => <<t, u, d>> \notin carried
      BY <1>1 DEF RowsTell
    <3>5. QED  BY <3>1, <3>2, <3>3, <3>4 DEF RowsTell
  <2>2. QED  BY <1>1, <1>2, <2>1 DEF RowsTell, Holds
<1>5. GrantsTell'
  <2>1. ASSUME NEW u \in Book.own, NEW t \in Nat
        PROVE  <<t, u>> \in let' <=> t < clock + 1 /\ LetBy(u, t)
    <3>1. <<t, u>> \in let' <=> <<t, u>> \in let \/ (t = clock /\ grant[u] # None)
      BY <1>2
    <3>2. t = clock => (LetBy(u, t) <=> grant[u] # None)
      <4>1. grant[u] # None => Showing!Begins(grant[u]) <= clock
        BY <1>1 DEF RowTypes, Showing!Begins
      <4>2. \A g \in past : ~ (clock < g.to)
        <5> TAKE g \in past
        <5>1. g \in [unit : Book.own, from : 0 .. Book.time, to : 0 .. Book.time, history : BOOLEAN] /\ g.to <= clock
          BY DEF RowTypes
        <5>2. QED  BY <1>1, <5>1
      <4>3. QED  BY <4>1, <4>2 DEF LetBy
    <3>3. t < clock + 1 <=> t < clock \/ t = clock
      BY <1>1
    <3>4. QED  BY <1>1, <3>1, <3>2, <3>3 DEF GrantsTell
  <2>2. ASSUME NEW u \in Book.own, NEW t \in Nat PROVE LetBy(u, t)' <=> LetBy(u, t)
    BY <1>2 DEF LetBy, Showing!Begins
  <2>3. QED  BY <1>1, <2>1, <2>2 DEF GrantsTell
<1>6. QED  BY <1>3, <1>4, <1>5

LEMMA WindowStep ==
    ASSUME WindowInv, Showing!WindowsAssumption, Showing!Next
    PROVE  WindowInv'
<1>1. ASSUME UNCHANGED <<clock, fits, grant, past, carried, let, overwritten>> PROVE WindowInv'
  BY <1>1 DEF WindowInv, RowTypes, RowsTell, GrantsTell, LetBy, Showing!Begins, Holds
<1>2. CASE \E u \in Showing!Places, d \in Book.devices : Showing!Assign(u, d) \/ Showing!Unassign(u, d)
  BY <1>2, AssignKeeps, UnassignKeeps
<1>3. ASSUME NEW u \in Book.own, Showing!Withdraw(u) \/ Showing!DeleteUnit(u) \/ \E h \in BOOLEAN : Showing!Grant(u, h) PROVE WindowInv'
  <2>1. Showing!DeleteUnit(u) => UNCHANGED <<clock, fits, grant, past, carried, let, overwritten>>
    BY DEF Showing!DeleteUnit, Showing!Change
  <2>2. QED  BY <1>1, <1>3, <2>1, WithdrawKeeps, GrantKeeps
<1>4. ASSUME NEW k \in Book.trips, Showing!End(k) \/ \E d \in Book.devices : Showing!Begin(k, d) PROVE WindowInv'
  BY <1>1, <1>4 DEF Showing!End, Showing!Begin
<1>5. CASE Showing!ReadPage
  BY <1>1, <1>5 DEF Showing!ReadPage
<1>6. CASE Showing!Tick
  BY <1>6, TickKeeps
<1>7. QED  BY <1>2, <1>3, <1>4, <1>5, <1>6 DEF Showing!Next

LEMMA WindowKeeps == ASSUME WindowInv, UNCHANGED Showing!vars PROVE WindowInv'
  BY DEF Showing!vars, WindowInv, RowTypes, RowsTell, GrantsTell, Holds, LetBy

LEMMA SeenIsTheirs ==
    ASSUME WindowInv, Showing!WindowsAssumption, NEW s \in Showing!Subjects,
           NEW d \in Book.devices, NEW t \in Nat, t < clock
    PROVE  /\ Covers(Showing!Refs(s, d), t) => Showing!Theirs(s, d, t)
           /\ Showing!Theirs(s, d, t) => Covers(Showing!Refs(s, d), t) \/ Showing!Overwritten(s, d, t)
<1>1. \A u \in Showing!Seen(s) : u \in Showing!Places
  BY DEF Showing!Seen, Showing!Places
<1>2. Covers(Showing!Refs(s, d), t) <=> \E u \in Showing!Seen(s) : Holds(u, d, t) /\ (s = "organization" \/ <<t, u>> \in let)
  BY RefsAre
<1>3. \A u \in Showing!Seen(s) : Holds(u, d, t) => <<t, u, d>> \in carried
  BY <1>1 DEF WindowInv, RowsTell
<1>4. \A u \in Showing!Seen(s) : <<t, u, d>> \in carried => <<t, u, d>> \in overwritten \/ Holds(u, d, t)
  BY <1>1 DEF WindowInv, RowsTell
<1>5. QED  BY <1>2, <1>3, <1>4 DEF Showing!Theirs, Showing!Overwritten

LEMMA HoursHold ==
    ASSUME WindowInv, Showing!WindowsAssumption
    PROVE  Showing!HoursServedAreTheirs
<1> USE OpenIs
<1>1. clock \in Nat
  BY DEF WindowInv, RowTypes
<1>2. ASSUME NEW s \in Showing!Subjects, NEW d \in Book.devices, NEW from \in 0 .. clock,
             NEW to \in 0 .. clock
      PROVE  /\ \A h \in Showing!Single(s, d, from, to) : h < clock => Showing!Theirs(s, d, h)
             /\ \A h \in Showing!Buckets :
                  from <= h /\ h < to /\ Showing!Theirs(s, d, h) =>
                      h \in Showing!Single(s, d, from, to) \/ Showing!Overwritten(s, d, h)
  <2>1. Showing!Refs(s, d) \subseteq Bounded
    BY RefsAre
  <2>2. Showing!Buckets \subseteq Nat
    BY <1>1 DEF Showing!Buckets
  <2>3. from \in Nat /\ to \in Nat
    BY <1>1
  <2>4. ASSUME NEW h \in Nat
        PROVE  h \in Showing!Single(s, d, from, to) <=>
                  h \in Showing!Buckets /\ \E w \in Showing!Refs(s, d) : Covers(Showing!Meeting(w, from, to), h)
    BY DEF Showing!Single, Showing!Clip, Showing!HoursOf, Covers
  <2>5. ASSUME NEW h \in Nat, NEW w \in Showing!Refs(s, d)
        PROVE  Covers(Showing!Meeting(w, from, to), h) <=> w.from <= h /\ h < w.to /\ from <= h /\ h < to
    BY <2>1, <2>3, OverlapIs
  <2>6. ASSUME NEW h \in Nat
        PROVE  h \in Showing!Single(s, d, from, to) <=> h \in Showing!Buckets /\ Covers(Showing!Refs(s, d), h) /\ from <= h /\ h < to
    BY <2>4, <2>5 DEF Covers
  <2>7. Showing!Single(s, d, from, to) \subseteq Nat
    <3>1. Showing!Single(s, d, from, to) \subseteq Showing!Buckets
      BY DEF Showing!Single, Showing!HoursOf
    <3>2. QED  BY <2>2, <3>1
  <2>8. \A h \in Showing!Single(s, d, from, to) : h < clock => Showing!Theirs(s, d, h)
    BY <2>6, <2>7, SeenIsTheirs
  <2>9. ASSUME NEW h \in Showing!Buckets, from <= h, h < to, Showing!Theirs(s, d, h)
        PROVE  h \in Showing!Single(s, d, from, to) \/ Showing!Overwritten(s, d, h)
    <3>1. h \in Nat /\ h < clock
      BY <1>1, <2>2, <2>9
    <3>2. QED  BY <2>6, <2>9, <3>1, SeenIsTheirs
  <2>10. QED  BY <2>8, <2>9
<1>3. QED  BY <1>2 DEF Showing!HoursServedAreTheirs

\* Asking together groups the devices, and of each serves its own.
LEMMA BatchHolds == Together!BatchIsSingle
<1>1. ASSUME NEW s \in Together!Subjects, NEW ds \in SUBSET Fleet.devices,
             NEW from \in 0 .. clock, NEW to \in 0 .. clock,
             NEW d \in DOMAIN Together!Batch(s, ds, from, to)
      PROVE  Together!Batch(s, ds, from, to)[d] = Together!Single(s, d, from, to)
  <2>1. CASE \E e \in ds : Together!Clip(s, e, from, to) = {}
    BY <2>1 DEF Together!Batch
  <2>2. CASE ~ \E e \in ds : Together!Clip(s, e, from, to) = {}
    <3>1. PICK groups : groups = {Together!Clip(s, e, from, to) : e \in ds}
      OBVIOUS
    <3>2. Together!Batch(s, ds, from, to) =
            [e \in ds |-> UNION {UNION {Together!HoursOf(r) : r \in g} : g \in {g \in groups : Together!Clip(s, e, from, to) = g}}]
      BY <2>2, <3>1 DEF Together!Batch
    <3>3. d \in ds
      BY <3>2
    <3>4. {g \in groups : Together!Clip(s, d, from, to) = g} = {Together!Clip(s, d, from, to)}
      BY <3>1, <3>3
    <3>5. Together!Batch(s, ds, from, to)[d] = UNION {UNION {Together!HoursOf(r) : r \in g} : g \in {Together!Clip(s, d, from, to)}}
      BY <3>2, <3>3, <3>4
    <3>6. QED  BY <3>5 DEF Together!Single
  <2>3. QED  BY <2>1, <2>2
<1>2. QED  BY <1>1 DEF Together!BatchIsSingle

-----------------------------------------------------------------------------
TripTypes ==
    /\ \A k \in Showing!Begun : trip[k] \in [device : Book.devices, start : 0 .. clock, end : 0 .. Showing!Open]
    /\ \A k \in Book.trips : k \notin Showing!Begun => trip[k] = None
    /\ trip = [k \in Book.trips |-> trip[k]]
    /\ \A j, k \in Showing!Begun : j # k => trip[j].start # trip[k].start

\* What a reader is owed and was not given comes after the cursor.
ReaderInv ==
    pager # None =>
        /\ ~ pager.more => pager.owed \subseteq pager.got
        /\ pager.more \in BOOLEAN
        /\ pager.cursor \in 0 .. Showing!Open
        /\ \A k \in pager.owed : k \in pager.got \/ (k \in Showing!Begun /\ trip[k].start < pager.cursor)

PageInv == WindowInv /\ TripTypes /\ ReaderInv

LEMMA TripsHold ==
    ASSUME WindowInv, Showing!WindowsAssumption, TripTypes
    PROVE  Showing!TripsListedAreTheirs
<1>1. ASSUME NEW s \in Showing!Subjects, NEW k \in Showing!Begun, trip[k].start < clock
      PROVE  /\ k \in Showing!VisibleTrips(s) => Showing!Theirs(s, trip[k].device, trip[k].start)
             /\ Showing!Theirs(s, trip[k].device, trip[k].start) =>
                  k \in Showing!VisibleTrips(s) \/ Showing!Overwritten(s, trip[k].device, trip[k].start)
  <2>1. PICK r : r = trip[k]
    OBVIOUS
  <2>2. r \in [device : Book.devices, start : 0 .. clock, end : 0 .. Showing!Open]
    BY <2>1 DEF TripTypes
  <2>3. r.device \in Book.devices /\ r.start \in Nat
    BY <2>2
  <2>4. k \in Showing!VisibleTrips(s) <=> Covers(Showing!Refs(s, r.device), r.start)
    BY <2>1 DEF Showing!VisibleTrips, Covers
  <2>5. QED  BY <1>1, <2>1, <2>3, <2>4, SeenIsTheirs
<1>2. QED  BY <1>1 DEF Showing!TripsListedAreTheirs

LEMMA PageInit ==
    ASSUME Showing!Init, Showing!WindowsAssumption
    PROVE  PageInv
<1>1. WindowInv
  BY WindowInit
<1>2. trip = [k \in Book.trips |-> None] /\ pager = None
  BY DEF Showing!Init
<1>3. Showing!Begun = {}
  BY <1>2 DEF Showing!Begun
<1>4. TripTypes
  BY <1>2, <1>3 DEF TripTypes
<1>5. QED  BY <1>1, <1>2, <1>4 DEF PageInv, ReaderInv

LEMMA TripBeginKeeps ==
    ASSUME PageInv, Showing!WindowsAssumption, ~ Book.ties, NEW k \in Book.trips,
           NEW d \in Book.devices, Showing!Begin(k, d)
    PROVE  TripTypes' /\ ReaderInv'
<1> USE OpenIs
<1>1. clock \in Nat /\ clock \in 0 .. clock /\ Showing!Open \in 0 .. Showing!Open
  BY DEF PageInv, WindowInv, RowTypes
<1>2. PICK r : r = [device |-> d, start |-> clock, end |-> Showing!Open]
  OBVIOUS
<1>3. /\ r \in [device : Book.devices, start : 0 .. clock, end : 0 .. Showing!Open]
      /\ r \in [device : Book.devices, start : Nat, end : Nat]
      /\ r.start = clock
  BY <1>1, <1>2
<1>4. r # None
  BY <1>3 DEF Showing!WindowsAssumption
<1>5. trip' = [trip EXCEPT ![k] = r] /\ clock' = clock /\ pager' = pager /\ trip[k] = None
  BY <1>2 DEF Showing!Begin
<1>6. \A j \in Book.trips : trip'[j] = IF j = k THEN r ELSE trip[j]
  BY <1>5 DEF PageInv, TripTypes
<1>7. Showing!Begun' = Showing!Begun \cup {k} /\ k \notin Showing!Begun
  BY <1>4, <1>5, <1>6 DEF Showing!Begun
<1>8. Showing!Begun \subseteq Book.trips
  BY DEF Showing!Begun
<1>9. \A j \in Showing!Begun : trip[j].start # clock
  BY DEF Showing!Begin
<1>10. TripTypes'
  <2>1. \A j \in Showing!Begun' : trip'[j] \in [device : Book.devices, start : 0 .. clock, end : 0 .. Showing!Open]
    BY <1>3, <1>6, <1>7, <1>8 DEF PageInv, TripTypes
  <2>2. \A j \in Book.trips : j \notin Showing!Begun' => trip'[j] = None
    BY <1>6, <1>7 DEF PageInv, TripTypes
  <2>3. trip' = [j \in Book.trips |-> trip'[j]]
    BY <1>5 DEF PageInv, TripTypes
  <2>4. ASSUME NEW i \in Showing!Begun', NEW j \in Showing!Begun', i # j PROVE trip'[i].start # trip'[j].start
    BY <1>3, <1>6, <1>7, <1>8, <1>9, <2>4 DEF PageInv, TripTypes
  <2>5. QED  BY <1>5, <2>1, <2>2, <2>3, <2>4 DEF TripTypes
<1>11. ReaderInv'
  <2>1. \A j \in Showing!Begun : j \in Showing!Begun' /\ trip'[j] = trip[j]
    BY <1>6, <1>7, <1>8
  <2>2. QED  BY <1>5, <2>1 DEF PageInv, ReaderInv
<1>12. QED  BY <1>10, <1>11

LEMMA TripEndKeeps ==
    ASSUME PageInv, Showing!WindowsAssumption, NEW k \in Book.trips, Showing!End(k)
    PROVE  TripTypes' /\ ReaderInv'
<1> USE OpenIs
<1>1. clock \in Nat /\ clock \in 0 .. clock /\ clock \in 0 .. Showing!Open
  BY DEF PageInv, WindowInv, RowTypes
<1>2. PICK was : was = trip[k]
  OBVIOUS
<1>3. k \in Showing!Begun /\ was \in [device : Book.devices, start : 0 .. clock, end : 0 .. Showing!Open]
  BY <1>2 DEF Showing!End, Showing!Begun, PageInv, TripTypes
<1>4. PICK r : r = [was EXCEPT !.end = clock]
  OBVIOUS
<1>5. /\ r \in [device : Book.devices, start : 0 .. clock, end : 0 .. Showing!Open]
      /\ r.start = was.start
  BY <1>1, <1>3, <1>4
<1>6. r # None
  <2>1. r \in [device : Book.devices, start : Nat, end : Nat]
    BY <1>1, <1>5
  <2>2. QED  BY <2>1 DEF Showing!WindowsAssumption
<1>7. trip' = [trip EXCEPT ![k] = r] /\ clock' = clock /\ pager' = pager
  BY <1>2, <1>4 DEF Showing!End
<1>8. \A j \in Book.trips : trip'[j] = IF j = k THEN r ELSE trip[j]
  BY <1>7 DEF PageInv, TripTypes
<1>9. Showing!Begun' = Showing!Begun /\ Showing!Begun \subseteq Book.trips
  BY <1>3, <1>6, <1>8 DEF Showing!Begun
<1>10. \A j \in Showing!Begun : trip'[j].start = trip[j].start
  BY <1>2, <1>5, <1>8, <1>9
<1>11. TripTypes'
  <2>1. \A j \in Showing!Begun : trip'[j] \in [device : Book.devices, start : 0 .. clock, end : 0 .. Showing!Open]
    BY <1>5, <1>8, <1>9 DEF PageInv, TripTypes
  <2>2. \A j \in Book.trips : j \notin Showing!Begun => trip'[j] = None
    BY <1>3, <1>8 DEF PageInv, TripTypes
  <2>3. trip' = [j \in Book.trips |-> trip'[j]]
    BY <1>7 DEF PageInv, TripTypes
  <2>4. ASSUME NEW i \in Showing!Begun, NEW j \in Showing!Begun, i # j PROVE trip'[i].start # trip'[j].start
    BY <1>10, <2>4 DEF PageInv, TripTypes
  <2>5. QED  BY <1>7, <1>9, <2>1, <2>2, <2>3, <2>4 DEF TripTypes
<1>12. ReaderInv'
  BY <1>7, <1>9, <1>10 DEF PageInv, ReaderInv
<1>13. QED  BY <1>11, <1>12

LEMMA ReadPageKeeps ==
    ASSUME PageInv, Showing!WindowsAssumption, Showing!ReadPage
    PROVE  ReaderInv'
<1> USE OpenIs
<1> DEFINE before == IF pager = None THEN [cursor |-> Showing!Open, got |-> {}, owed |-> Book.trips, more |-> TRUE]
                     ELSE pager
<1>1. PICK cursor : cursor = before.cursor
  OBVIOUS
<1>2. PICK got : got = before.got
  OBVIOUS
<1>3. PICK owed : owed = before.owed
  OBVIOUS
<1>4. PICK visible : visible = Showing!VisibleTrips("person")
  OBVIOUS
<1>5. PICK rest : rest = {k \in visible : trip[k].start < cursor}
  OBVIOUS
<1>6. PICK n : n = Cardinality(rest)
  OBVIOUS
<1>7. PICK leaf \in SUBSET rest :
        /\ Cardinality(leaf) = Showing!Min({Book.page, n})
        /\ \A k \in leaf, j \in rest \ leaf : trip[k].start >= trip[j].start
        /\ pager' = [cursor |-> IF leaf = {} THEN cursor ELSE Showing!Cursor(leaf),
                     got    |-> got \cup leaf,
                     owed   |-> owed \cap visible,
                     more   |-> n > Book.page]
  <2>1. \A S : Showing!Cardinality(S) = Cardinality(S)
    BY DEF Showing!Cardinality, Cardinality
  <2>2. QED  BY <1>1, <1>2, <1>3, <1>4, <1>5, <1>6, <2>1 DEF Showing!ReadPage, Showing!Pages,
                Showing!After
<1>8. trip' = trip
  BY DEF Showing!ReadPage
<1>9. visible \subseteq Showing!Begun /\ Showing!Begun \subseteq Book.trips
  BY <1>4 DEF Showing!VisibleTrips, Showing!Begun
<1>10. IsFiniteSet(rest) /\ n \in Nat
  <2>1. rest \in SUBSET Book.trips
    BY <1>5, <1>9
  <2>2. IsFiniteSet(rest)
    <3>1. IsFiniteSet(Book.trips)
      BY DEF Showing!WindowsAssumption, Showing!IsFiniteSet, IsFiniteSet
    <3>2. QED  BY <2>1, <3>1, FS_Subset
  <2>3. QED  BY <1>6, <2>2, FS_CardinalityType
<1>11. Book.page \in Nat /\ Book.page >= 1
  BY DEF Showing!WindowsAssumption
<1>12. Showing!Min({Book.page, n}) = IF Book.page <= n THEN Book.page ELSE n
  BY <1>10, <1>11, MaxMin
<1>13. clock \in Nat /\ clock < Showing!Open
  BY DEF PageInv, WindowInv, RowTypes
<1>14. ASSUME NEW k \in Showing!Begun PROVE trip[k].start \in Nat /\ trip[k].start < Showing!Open
  <2>1. PICK r : r = trip[k]
    OBVIOUS
  <2>2. r \in [device : Book.devices, start : 0 .. clock, end : 0 .. Showing!Open]
    BY <2>1 DEF PageInv, TripTypes
  <2>3. r.start \in 0 .. clock
    BY <2>2
  <2>4. QED  BY <1>13, <2>1, <2>3
<1>15. cursor \in 0 .. Showing!Open
  <2>1. CASE pager = None
    BY <1>1, <2>1
  <2>2. CASE pager # None
    BY <1>1, <2>2 DEF PageInv, ReaderInv
  <2>3. QED  BY <2>1, <2>2
<1>16. ASSUME NEW k \in owed, k \in visible PROVE k \in got \/ trip[k].start < cursor
  <2>1. CASE pager = None
    <3>1. cursor = Showing!Open
      BY <1>1, <2>1
    <3>2. QED  BY <1>9, <1>14, <1>16, <3>1
  <2>2. CASE pager # None
    BY <1>1, <1>2, <1>3, <2>2 DEF PageInv, ReaderInv
  <2>3. QED  BY <2>1, <2>2
<1>17. ASSUME ~ (n > Book.page) PROVE leaf = rest
  <2>1. Cardinality(leaf) = n
    BY <1>7, <1>10, <1>11, <1>12, <1>17
  <2>2. QED  BY <1>6, <1>7, <1>10, <2>1, FS_Subset
<1>18. leaf = {} => rest = {}
  <2>1. SUFFICES ASSUME leaf = {}, rest # {} PROVE FALSE
    OBVIOUS
  <2>2. Cardinality(leaf) = 0
    BY <2>1, FS_EmptySet
  <2>3. n # 0
    BY <1>6, <1>10, <2>1, FS_EmptySet
  <2>4. QED  BY <1>7, <1>10, <1>11, <1>12, <2>2, <2>3
<1>19. ASSUME leaf # {}
       PROVE  /\ Showing!Cursor(leaf) \in 0 .. Showing!Open
              /\ \E j \in leaf : Showing!Cursor(leaf) = trip[j].start
  <2>1. PICK R : R = {trip[k].start : k \in leaf}
    OBVIOUS
  <2>2. leaf \subseteq Showing!Begun
    BY <1>5, <1>7, <1>9
  <2>3. R \subseteq Nat /\ R # {}
    BY <1>14, <1>19, <2>1, <2>2
  <2>4. \E m \in R : \A l \in R : m <= l
    BY <2>3, LeastExists
  <2>5. Showing!Cursor(leaf) = CHOOSE x \in R : \A y \in R : x <= y
    BY <2>1 DEF Showing!Cursor, Showing!Min
  <2>6. Showing!Cursor(leaf) \in R
    BY <2>4, <2>5
  <2>7. PICK j \in leaf : Showing!Cursor(leaf) = trip[j].start
    BY <2>1, <2>6
  <2>8. Showing!Cursor(leaf) \in Nat /\ Showing!Cursor(leaf) < Showing!Open
    BY <1>14, <2>2, <2>7
  <2>9. QED  BY <2>7, <2>8
<1>20. PICK next : next = IF leaf = {} THEN cursor ELSE Showing!Cursor(leaf)
  OBVIOUS
<1>21. ASSUME NEW k \in owed \cap visible
       PROVE  k \in got \cup leaf \/ (k \in Showing!Begun /\ trip[k].start < next)
  <2>1. CASE k \in got
    BY <2>1
  <2>2. CASE k \notin got /\ k \notin leaf
    <3>1. k \in rest \ leaf /\ k \in Showing!Begun
      BY <1>5, <1>9, <1>16, <2>2
    <3>2. leaf # {}
      BY <1>18, <3>1
    <3>3. PICK j \in leaf : next = trip[j].start
      BY <1>19, <1>20, <3>2
    <3>4. j \in Showing!Begun /\ j # k
      BY <1>5, <1>7, <1>9, <3>1
    <3>5. trip[j].start >= trip[k].start /\ trip[j].start # trip[k].start
      BY <1>7, <3>1, <3>4 DEF PageInv, TripTypes
    <3>6. trip[k].start < next
      BY <1>14, <3>1, <3>3, <3>4, <3>5
    <3>7. QED  BY <3>1, <3>6
  <2>3. CASE k \in leaf
    BY <2>3
  <2>4. QED  BY <2>1, <2>2, <2>3
<1>22. ASSUME ~ (n > Book.page), NEW k \in owed \cap visible PROVE k \in got \cup leaf
  BY <1>5, <1>16, <1>17, <1>22
<1>23. next \in 0 .. Showing!Open
  BY <1>15, <1>19, <1>20
<1>24. PICK more : more = (n > Book.page)
  OBVIOUS
<1>25. pager' = [cursor |-> next, got |-> got \cup leaf, owed |-> owed \cap visible, more |-> more]
  BY <1>7, <1>20, <1>24
<1>26. pager'.cursor = next /\ pager'.got = got \cup leaf /\ pager'.owed = owed \cap visible /\ pager'.more = more
  BY <1>25
<1>27. more \in BOOLEAN /\ (more <=> n > Book.page)
  <2>1. CASE n > Book.page
    BY <1>24, <2>1
  <2>2. CASE ~ (n > Book.page)
    <3>1. (n > Book.page) = FALSE
      BY <2>2
    <3>2. more = FALSE
      BY <1>24, <3>1
    <3>3. QED  BY <2>2, <3>2
  <2>3. QED  BY <2>1, <2>2
<1>28. ~ more => owed \cap visible \subseteq got \cup leaf
  BY <1>22, <1>27
<1>29. Showing!Begun' = Showing!Begun
  BY <1>8 DEF Showing!Begun
<1>30. QED
  <2> HIDE DEF before
  <2>1. \A k \in pager'.owed : k \in pager'.got \/ (k \in Showing!Begun' /\ trip'[k].start < pager'.cursor)
    BY <1>8, <1>21, <1>26, <1>29
  <2>2. QED  BY <1>23, <1>26, <1>27, <1>28, <2>1 DEF ReaderInv

LEMMA PageStep ==
    ASSUME PageInv, Showing!WindowsAssumption, ~ Book.ties, Showing!Next
    PROVE  PageInv'
<1>1. WindowInv'
  BY WindowStep DEF PageInv
<1> SUFFICES TripTypes' /\ ReaderInv'
  BY <1>1 DEF PageInv
<1>2. ASSUME UNCHANGED <<trip, pager>>, clock' = clock PROVE TripTypes' /\ ReaderInv'
  BY <1>2 DEF PageInv, TripTypes, ReaderInv, Showing!Begun
<1>3. CASE \E u \in Showing!Places, d \in Book.devices : Showing!Assign(u, d) \/ Showing!Unassign(u, d)
  BY <1>2, <1>3 DEF Showing!Assign, Showing!Unassign, Showing!Change
<1>4. CASE \E u \in Book.own : Showing!Withdraw(u) \/ Showing!DeleteUnit(u) \/ \E h \in BOOLEAN : Showing!Grant(u, h)
  BY <1>2, <1>4 DEF Showing!Withdraw, Showing!DeleteUnit, Showing!Grant, Showing!Change
<1>5. CASE \E k \in Book.trips : Showing!End(k) \/ \E d \in Book.devices : Showing!Begin(k, d)
  BY <1>5, TripEndKeeps, TripBeginKeeps
<1>6. CASE Showing!ReadPage
  <2>1. TripTypes'
    BY <1>6 DEF Showing!ReadPage, PageInv, TripTypes, Showing!Begun
  <2>2. QED  BY <1>6, <2>1, ReadPageKeeps
<1>7. CASE Showing!Tick
  <2>1. UNCHANGED <<trip, pager>> /\ clock' = clock + 1 /\ clock \in Nat
    BY <1>7 DEF Showing!Tick, PageInv, WindowInv, RowTypes
  <2>2. ASSUME NEW r \in [device : Book.devices, start : 0 .. clock, end : 0 .. Showing!Open]
        PROVE  r \in [device : Book.devices, start : 0 .. clock + 1, end : 0 .. Showing!Open]
    BY <2>1
  <2>3. TripTypes'
    BY <2>1, <2>2 DEF PageInv, TripTypes, Showing!Begun
  <2>4. ReaderInv'
    BY <2>1 DEF PageInv, ReaderInv, Showing!Begun
  <2>5. QED  BY <2>3, <2>4
<1>8. QED  BY <1>1, <1>3, <1>4, <1>5, <1>6, <1>7 DEF Showing!Next

LEMMA PageKeeps == ASSUME PageInv, UNCHANGED Showing!vars PROVE PageInv'
  BY WindowKeeps DEF Showing!vars, PageInv, TripTypes, ReaderInv, Showing!Begun

LEMMA PageHolds ==
    ASSUME PageInv, Showing!WindowsAssumption
    PROVE  Showing!TripsListedAreTheirs /\ Showing!PagesMissNothing
<1>1. Showing!TripsListedAreTheirs
  BY TripsHold DEF PageInv
<1>2. Showing!PagesMissNothing
  BY DEF Showing!PagesMissNothing, PageInv, ReaderInv
<1>3. QED  BY <1>1, <1>2

-----------------------------------------------------------------------------
(* The platform.                                                           *)

\* A behaviour begins where the component it is about does.
LEMMA PartBegins ==
    ASSUME PlatformInit
    PROVE  /\ part \in {"colleagues", "revocations"} => Init
           /\ part \in {"stays", "pages"} => Showing!Init
           /\ part \in {"limits", "tree"} => Tree!Init
           /\ part = "events" => Events!Init
           /\ part = "orders" => Ordered!Init
           /\ part = "sims" => SimCards!Init
           /\ part = "rules" => Rules!Init
           /\ part = "studio" => Studio!Init
           /\ part = "sites" => Sites!Init
  BY DEF PlatformInit

\* Its steps are that component's, or leave all of it alone.
LEMMA PartSteps ==
    ASSUME [PlatformNext]_platformVars
    PROVE  /\ part' = part
           /\ part \in {"colleagues", "revocations"} => [Next]_vars
           /\ part \in {"stays", "pages"} => Showing!Next \/ UNCHANGED Showing!vars
           /\ part \in {"limits", "tree"} => Tree!Next \/ UNCHANGED Tree!vars
           /\ part = "events" => Events!Next \/ UNCHANGED Events!vars
           /\ part = "orders" => Ordered!Next \/ UNCHANGED Ordered!vars
           /\ part = "sims" => SimCards!Next \/ UNCHANGED SimCards!vars
           /\ part = "rules" => Rules!Next \/ UNCHANGED Rules!vars
           /\ part = "studio" => Studio!Next \/ UNCHANGED Studio!vars
           /\ part = "sites" => Sites!Next \/ UNCHANGED Sites!vars
  <1>1. CASE PlatformNext
    BY <1>1 DEF PlatformNext
  <1>2. CASE UNCHANGED platformVars
    <2>1. UNCHANGED <<part, vars, windowVars, treeVars, eventVars, orderVars, ruleVars, brandVars>>
      BY <1>2 DEF platformVars
    <2>2. /\ UNCHANGED Showing!vars
          /\ UNCHANGED Tree!vars
          /\ UNCHANGED Events!vars
          /\ UNCHANGED Ordered!vars
          /\ UNCHANGED SimCards!vars
          /\ UNCHANGED Rules!vars
          /\ UNCHANGED Studio!vars
          /\ UNCHANGED Sites!vars
      BY <2>1 DEF windowVars, treeVars, eventVars, orderVars, ruleVars, brandVars, Showing!vars,
         Tree!vars,
                  Events!vars, Ordered!vars, SimCards!vars, Rules!vars, Studio!vars, Sites!vars
    <2>3. QED  BY <2>1, <2>2
  <1>3. QED  BY <1>1, <1>2

\* A narrowing ends the tokens it narrowed, and nobody sees for longer than a
\* token lives what is no longer theirs (session_revocation, scope_store), as
\* long as no scope is written in the middle of a revocation of its subject.
THEOREM AccessEndsAlways ==
    ASSUME Overlap = FALSE
    PROVE  PlatformSpec => []AccessEnds
  <1> USE PlatformAssumption DEF PlatformAssumption
  <1> DEFINE Inv == part \in {"colleagues", "revocations"} => TimeInv /\ ReachInv
  <1>1. PlatformInit => Inv
    BY PartBegins, TimeInit, ReachInit
  <1>2. Inv /\ [PlatformNext]_platformVars => Inv'
    <2> SUFFICES ASSUME Inv, [PlatformNext]_platformVars,
                        part' \in {"colleagues", "revocations"}
                 PROVE  TimeInv' /\ ReachInv'
      OBVIOUS
    <2>1. TimeInv /\ ReachInv /\ [Next]_vars
      BY PartSteps
    <2>2. QED  BY <2>1, TimeStep, ReachStep
  <1>3. Inv => AccessEnds
    BY TimeHolds, ReachHolds DEF AccessEnds
  <1>4. QED  BY <1>1, <1>2, <1>3, PTL DEF PlatformSpec

\* However devices and grants come and go, telemetry and trips are shown to
\* whoever had the device at the time, of several devices as of one; and when no
\* two trips begin at the same instant, no page of the list leaves one out
\* (accessible_refs, Grant.clip, get_telemetry_batch, list_trips).
THEOREM PastIsSeenByItsOwnersAlways ==
    ASSUME ~ Book.ties
    PROVE  PlatformSpec => []PastIsSeenByItsOwners
  <1> USE PlatformAssumption DEF PlatformAssumption
  <1> DEFINE Inv == part \in {"stays", "pages"} => PageInv
  <1>1. PlatformInit => Inv
    BY PartBegins, PageInit
  <1>2. Inv /\ [PlatformNext]_platformVars => Inv'
    <2> SUFFICES ASSUME Inv, [PlatformNext]_platformVars, part' \in {"stays", "pages"}
                 PROVE  PageInv'
      OBVIOUS
    <2>1. PageInv /\ (Showing!Next \/ UNCHANGED Showing!vars)
      BY PartSteps
    <2>2. QED  BY <2>1, PageStep, PageKeeps
  <1>3. Inv => PastIsSeenByItsOwners
    <2>1. PageInv => WindowInv
      BY DEF PageInv
    <2>2. QED  BY <2>1, HoursHold, PageHolds, BatchHolds DEF PastIsSeenByItsOwners
  <1>4. QED  BY <1>1, <1>2, <1>3, PTL DEF PlatformSpec

\* However accounts move, end and set limits, the path of each is its line of
\* parents, no change of type leaves somebody who operates under a customer and
\* no limit is above an ancestor's (accounts_tenancy_before and
\* _after, cambiar_tipo_de_cuenta, resolver); and while no two publications cross, a brand can go back and
\* shows what was drafted together, on its own hosts, where its letters lead.
THEOREM TenantsAreSoundAlways ==
    ASSUME ~ Drafting.overlap
    PROVE  PlatformSpec => []TenantsAreSound
  <1> USE PlatformAssumption DEF PlatformAssumption
  <1> DEFINE Inv == /\ part = "tree" => TreeInv
                    /\ part = "limits" => LimitInv
                    /\ part = "studio" => BrandInv
                    /\ part = "sites" => SiteInv
  <1>1. PlatformInit => Inv
    BY PartBegins, TreeInit, LimitInit, BrandInit, SiteInit
  <1>2. Inv /\ [PlatformNext]_platformVars => Inv'
    <2> SUFFICES ASSUME Inv, [PlatformNext]_platformVars PROVE Inv'
      OBVIOUS
    <2>1. ASSUME part' = "tree" PROVE TreeInv'
      BY <2>1, PartSteps, TreeStep, TreeKeeps
    <2>2. ASSUME part' = "limits" PROVE LimitInv'
      BY <2>2, PartSteps, LimitStep, LimitKeeps
    <2>3. ASSUME part' = "studio" PROVE BrandInv'
      BY <2>3, PartSteps, BrandStep, BrandKeeps
    <2>4. ASSUME part' = "sites" PROVE SiteInv'
      BY <2>4, PartSteps, SiteStep, SiteKeeps
    <2>5. QED  BY <2>1, <2>2, <2>3, <2>4
  <1>3. Inv => TenantsAreSound
    BY TreeHolds, LimitHolds, BrandHolds, SiteHolds DEF TenantsAreSound
  <1>4. QED  BY <1>1, <1>2, <1>3, PTL DEF PlatformSpec

\* Whatever is lost and read again on the way, no event says what was never
\* committed, and the consumer's copy is what the database says of every key
\* but those an event of which was lost, or waited to be sent while another was
\* built (_anotar, construir_eventos, _publicar_lo_anotado).
THEOREM EventsTellTheTruthAlways == PlatformSpec => []EventsTellTheTruth
  <1> DEFINE Inv == part = "events" => EventInv
  <1>1. PlatformInit => Inv
    BY PartBegins, EventInit
  <1>2. Inv /\ [PlatformNext]_platformVars => Inv'
    <2> SUFFICES ASSUME Inv, [PlatformNext]_platformVars, part' = "events" PROVE EventInv'
      OBVIOUS
    <2>1. EventInv /\ (Events!Next \/ UNCHANGED Events!vars)
      BY PartSteps
    <2>2. QED  BY <2>1, EventStep, EventKeeps
  <1>3. Inv => EventsTellTheTruth
    BY EventHolds DEF EventsTellTheTruth
  <1>4. QED  BY <1>1, <1>2, <1>3, PTL DEF PlatformSpec

\* However syncs, answers, PATCHes and crashes cross, an order shows what KORE
\* says of it, only the device that was named obeys it, and no SIM has two
\* cards unless staff wrote it on a second one, or while a listing that had
\* found none was about to make one (create_command, send_sms_command,
\* sync_command, sync_kore_sims, update_device).
THEOREM OrdersReachTheirDeviceAlways == PlatformSpec => []OrdersReachTheirDevice
  <1> USE PlatformAssumption DEF PlatformAssumption
  <1> DEFINE Inv == /\ part = "orders" => OrderInv /\ CardTypes
                    /\ part = "sims" => SimInv
  <1>1. PlatformInit => Inv
    BY PartBegins, OrderInit, CardTypesBegin, SimInit
  <1>2. Inv /\ [PlatformNext]_platformVars => Inv'
    <2> SUFFICES ASSUME Inv, [PlatformNext]_platformVars PROVE Inv'
      OBVIOUS
    <2>1. ASSUME part' = "orders" PROVE OrderInv' /\ CardTypes'
      BY <2>1, PartSteps, OrderStep, OrderKeeps
    <2>2. ASSUME part' = "sims" PROVE SimInv'
      BY <2>2, PartSteps, SimStep, SimKeeps
    <2>3. QED  BY <2>1, <2>2
  <1>3. Inv => OrdersReachTheirDevice
    BY OrderHolds, SimHolds DEF OrdersReachTheirDevice
  <1>4. QED  BY <1>1, <1>2, <1>3, PTL DEF PlatformSpec

\* An order that KORE settled is never shown as under way again, whatever sync
\* read it before and writes it after (sync_command).
THEOREM SettledIsShownAlways == PlatformSpec => SettledIsShown
  <1> USE PlatformAssumption DEF PlatformAssumption
  <1> DEFINE Inv == part = "orders" => OrderInv /\ CardTypes
  <1>1. PlatformInit => Inv
    BY PartBegins, OrderInit, CardTypesBegin
  <1>2. Inv /\ [PlatformNext]_platformVars => Inv' /\ [part = "orders" => Ordered!KeepsSettled]_platformVars
    <2> SUFFICES ASSUME Inv, [PlatformNext]_platformVars
                 PROVE  Inv' /\ [part = "orders" => Ordered!KeepsSettled]_platformVars
      OBVIOUS
    <2>1. CASE part = "orders" /\ Ordered!Next
      <3>1. OrderInv' /\ CardTypes' /\ Ordered!KeepsSettled
        BY <2>1, OrderStep
      <3>2. QED  BY <3>1
    <2>2. CASE part = "orders" /\ UNCHANGED Ordered!vars
      <3>1. OrderInv' /\ CardTypes'
        BY <2>2, OrderKeeps
      <3>2. Ordered!KeepsSettled
        BY <2>2 DEF Ordered!KeepsSettled, Ordered!vars
      <3>3. QED  BY <3>1, <3>2
    <2>3. CASE part # "orders"
      BY <2>3, PartSteps
    <2>4. QED  BY <2>1, <2>2, <2>3, PartSteps
  <1>3. QED  BY <1>1, <1>2, PTL DEF PlatformSpec, SettledIsShown

\* Whatever PATCHes cross and whatever is lost on the way to the topic, the
\* fingerprint of a rule is that of what it says, no two live rules say the
\* same, and the topic ends with what the row says (alert_rules, geofences).
THEOREM RulesAreDistinctAndToldAlways == PlatformSpec => []RulesAreDistinctAndTold
  <1> DEFINE Inv == part = "rules" => RuleInv
  <1>1. PlatformInit => Inv
    BY PartBegins, RuleInit
  <1>2. Inv /\ [PlatformNext]_platformVars => Inv'
    <2> SUFFICES ASSUME Inv, [PlatformNext]_platformVars, part' = "rules" PROVE RuleInv'
      OBVIOUS
    <2>1. RuleInv /\ (Rules!Next \/ UNCHANGED Rules!vars)
      BY PartSteps
    <2>2. QED  BY <2>1, RuleStep, RuleKeeps
  <1>3. Inv => RulesAreDistinctAndTold
    BY RuleHolds DEF RulesAreDistinctAndTold
  <1>4. QED  BY <1>1, <1>2, <1>3, PTL DEF PlatformSpec

=============================================================================
