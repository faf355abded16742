-------------------------- MODULE Credentials_proofs --------------------------
(***************************************************************************)
(* The properties of Credentials for every set of requests, codes, links   *)
(* and passwords, provided that a verification of the e-mail overlaps no   *)
(* other request that sets the password.                                   *)
(***************************************************************************)
EXTENDS Credentials, TLAPS

\* What a request may assume while it runs, without overlapping verifications.
Alone ==
    /\ \A r, s \in Requests : Verifying(r) /\ (Verifying(s) \/ Replacing(s)) => r = s
    /\ \A r \in Requests : Verifying(r) => ~verified
    /\ \A r \in Requests : req[r].op = "change" => verified
\* Nobody is in before the verification.
NobodyIn == ~verified => sessions = {}
LateIsVerified == chosen.late => verified

PersonInv ==
    /\ TypeOK
    /\ Alone
    /\ NobodyIn
    /\ LateIsVerified
    /\ SessionsMatchPassword
    /\ ChosenPasswordStands

-----------------------------------------------------------------------------
\* A request under way is a record of one of four forms.
LEMMA RequestForms ==
    ASSUME TypeOK, NEW r \in Requests
    PROVE  /\ req[r] \in RequestRecords
           /\ req[r].op \in {"idle", "resend", "reset", "change", "verify"}
           /\ Replacing(r) => req[r].at \in {"checked", "set", "revoked"} /\ req[r].new \in Passwords
           /\ Verifying(r) => req[r].at \in {"checked", "set"} /\ req[r].new \in AnyPassword
                              /\ req[r].link \in Links
           /\ req[r].op = "reset" => req[r].code \in Codes
           /\ req[r].op = "resend" => req[r].temp \in AnyPassword
  BY DEF TypeOK, RequestRecords, Replacing, Verifying, Idle

\* The request that takes a step keeps a record of its form.
LEMMA MoveKeepsForm ==
    ASSUME TypeOK, NEW r \in Requests, NEW stage \in {"set", "revoked"}, Moves(r, stage),
           Replacing(r) \/ (Verifying(r) /\ stage = "set")
    PROVE  req' \in [Requests -> RequestRecords]
  <1>1. [req[r] EXCEPT !.at = stage] \in RequestRecords
    BY DEF TypeOK, RequestRecords, Replacing, Verifying, Idle
  <1>2. QED  BY <1>1 DEF Moves, TypeOK

LEMMA StartKeepsForm ==
    ASSUME TypeOK, NEW r \in Requests, NEW q \in RequestRecords, Starts(r, q)
    PROVE  req' \in [Requests -> RequestRecords]
  BY DEF TypeOK, Starts

LEMMA EndKeepsForm ==
    ASSUME TypeOK, NEW r \in Requests, Ends(r)
    PROVE  req' \in [Requests -> RequestRecords]
  BY DEF TypeOK, Ends, RequestRecords

-----------------------------------------------------------------------------
LEMMA TypeInit == Init => TypeOK
  <1> SUFFICES ASSUME Init PROVE TypeOK
    OBVIOUS
  <1>1. First \in AnyPassword /\ First \in Passwords
    BY CredentialsAssumption DEF AnyPassword
  <1>2. [state |-> "live", temp |-> First] \in [state : {"none", "live", "used", "expired"},
                                               temp : AnyPassword \cup {None}]
    BY <1>1
  <1>3. link \in [Links -> [state : {"none", "live", "used", "expired"},
                            temp : AnyPassword \cup {None}]]
    BY <1>2 DEF Init, NoLink
  <1>4. QED  BY <1>1, <1>3 DEF Init, TypeOK, RequestRecords

LEMMA TypeStep == TypeOK /\ [Next]_vars => TypeOK'
  <1> SUFFICES ASSUME TypeOK, [Next]_vars PROVE TypeOK'
    OBVIOUS
  <1> USE DEF TypeOK
  <1>1. ASSUME NEW c \in Codes, ForgotPassword(c) \/ CodeExpires(c) PROVE TypeOK'
    BY <1>1 DEF ForgotPassword, CodeExpires, provider, ghosts
  <1>2. ASSUME NEW l \in Links, LinkExpires(l) PROVE TypeOK'
    BY <1>2 DEF LinkExpires, provider, ghosts
  <1>3. CASE Login
    BY <1>3 DEF Login, db, ghosts
  <1>4. CASE Logout
    BY <1>4 DEF Logout, db
  <1>5. ASSUME NEW r \in Requests, Resend(r) PROVE TypeOK'
    <2> DEFINE seen == {l \in Links : link[l].state \in {"live", "expired"}}
    <2>1. PICK p \in AnyPassword : Starts(r, [op |-> "resend", temp |-> p, seen |-> seen])
      BY <1>5 DEF Resend, AnyPassword
    <2>2. [op |-> "resend", temp |-> p, seen |-> seen] \in RequestRecords
      BY DEF RequestRecords
    <2>3. req' \in [Requests -> RequestRecords]
      BY <2>1, <2>2, StartKeepsForm
    <2>4. QED  BY <1>5, <2>3 DEF Resend, db, provider, ghosts
  <1>6. ASSUME NEW r \in Requests, ResendSaves(r) PROVE TypeOK'
    <2>1. req[r].temp \in AnyPassword
      BY <1>6, RequestForms DEF ResendSaves
    <2>2. req' \in [Requests -> RequestRecords]
      BY <1>6, EndKeepsForm DEF ResendSaves
    <2>3. link' \in [Links -> [state : {"none", "live", "used", "expired"},
                               temp : AnyPassword \cup {None}]]
      BY <1>6, <2>1 DEF ResendSaves
    <2>4. QED  BY <1>6, <2>2, <2>3 DEF ResendSaves, provider, ghosts
  <1>7. ASSUME NEW r \in Requests, NEW c \in Codes, NEW p \in Passwords, Reset(r, c, p)
        PROVE  TypeOK'
    <2>1. [op |-> "reset", at |-> "checked", code |-> c, new |-> p] \in RequestRecords
      BY DEF RequestRecords
    <2>2. req' \in [Requests -> RequestRecords]
      BY <1>7, <2>1, StartKeepsForm DEF Reset
    <2>3. QED  BY <1>7, <2>2 DEF Reset, db, provider, ghosts
  <1>8. ASSUME NEW r \in Requests, NEW p \in Passwords, Change(r, p) PROVE TypeOK'
    <2>1. [op |-> "change", at |-> "checked", new |-> p] \in RequestRecords
      BY DEF RequestRecords
    <2>2. req' \in [Requests -> RequestRecords]
      BY <1>8, <2>1, StartKeepsForm DEF Change
    <2>3. QED  BY <1>8, <2>2 DEF Change, db, provider, ghosts
  <1>9. ASSUME NEW r \in Requests, SetPassword(r) PROVE TypeOK'
    <2>1. req[r].new \in Passwords
      BY <1>9, RequestForms DEF SetPassword
    <2>2. req' \in [Requests -> RequestRecords]
      BY <1>9, MoveKeepsForm DEF SetPassword
    <2>3. QED  BY <1>9, <2>1, <2>2 DEF SetPassword, db, AnyPassword
  <1>10. ASSUME NEW r \in Requests, Revoke(r) PROVE TypeOK'
    <2>1. req' \in [Requests -> RequestRecords]
      BY <1>10, MoveKeepsForm DEF Revoke
    <2>2. QED  BY <1>10, <2>1 DEF Revoke, db
  <1>11. ASSUME NEW r \in Requests, FinishReset(r) \/ FinishChange(r) \/ Dies(r) PROVE TypeOK'
    <2>1. req' \in [Requests -> RequestRecords]
      BY <1>11, EndKeepsForm DEF FinishReset, FinishChange, Dies
    <2>2. CASE FinishReset(r)
      BY <2>1, <2>2 DEF FinishReset, provider, ghosts
    <2>3. CASE FinishChange(r)
      BY <2>1, <2>3 DEF FinishChange, db, ghosts
    <2>4. CASE Dies(r)
      BY <2>1, <2>4 DEF Dies, db, provider
    <2>5. QED  BY <1>11, <2>2, <2>3, <2>4
  <1>12. ASSUME NEW r \in Requests, NEW l \in Links, VerifyEmail(r, l) PROVE TypeOK'
    <2> DEFINE q == [op |-> "verify", at |-> "checked", link |-> l, new |-> link[l].temp]
    <2>1. link[l].temp \in AnyPassword
      BY <1>12 DEF VerifyEmail
    <2>2. q \in RequestRecords
      BY <2>1 DEF RequestRecords
    <2>3. Starts(r, q)
      BY <1>12 DEF VerifyEmail
    <2>4. req' \in [Requests -> RequestRecords]
      BY <2>2, <2>3, StartKeepsForm
    <2>5. QED  BY <1>12, <2>4 DEF VerifyEmail, db, provider, ghosts
  <1>13. ASSUME NEW r \in Requests, VerifySets(r) PROVE TypeOK'
    <2>1. req[r].new \in AnyPassword
      BY <1>13, RequestForms DEF VerifySets
    <2>2. req' \in [Requests -> RequestRecords]
      BY <1>13, MoveKeepsForm DEF VerifySets
    <2>3. QED  BY <1>13, <2>1, <2>2 DEF VerifySets, db, ghosts
  <1>14. ASSUME NEW r \in Requests, FinishVerify(r) PROVE TypeOK'
    <2>1. req' \in [Requests -> RequestRecords]
      BY <1>14, EndKeepsForm DEF FinishVerify
    <2>2. QED  BY <1>14, <2>1 DEF FinishVerify, provider, ghosts
  <1>15. CASE UNCHANGED vars
    BY <1>15 DEF vars, db, provider, ghosts
  <1>16. QED
    BY <1>1, <1>2, <1>3, <1>4, <1>5, <1>6, <1>7, <1>8, <1>9, <1>10, <1>11, <1>12, <1>13,
       <1>14, <1>15 DEF Next

-----------------------------------------------------------------------------
LEMMA PersonInit == Init => PersonInv
  <1> SUFFICES ASSUME Init PROVE PersonInv
    OBVIOUS
  <1>1. TypeOK
    BY TypeInit
  <1>2. \A r \in Requests : req[r] = Idle /\ ~Verifying(r) /\ ~Replacing(r)
    BY DEF Init, Idle, Verifying, Replacing
  <1>3. Alone /\ NobodyIn /\ LateIsVerified /\ SessionsMatchPassword /\ ChosenPasswordStands
    BY <1>2 DEF Init, Alone, NobodyIn, LateIsVerified, SessionsMatchPassword, ChosenPasswordStands,
       Idle
  <1>4. QED  BY <1>1, <1>3 DEF PersonInv

\* Between its steps a request leaves the others alone.
LEMMA StartsAlone ==
    ASSUME TypeOK, NEW r \in Requests, NEW q, Starts(r, q)
    PROVE  /\ req[r] = Idle /\ req'[r] = q
           /\ \A s \in Requests : s # r => req'[s] = req[s]
  BY DEF Starts, TypeOK

LEMMA MovesAlone ==
    ASSUME TypeOK, NEW r \in Requests, NEW stage, Moves(r, stage), Replacing(r) \/ Verifying(r)
    PROVE  /\ req'[r] = [req[r] EXCEPT !.at = stage]
           /\ req'[r].op = req[r].op /\ req'[r].at = stage
           /\ \A s \in Requests : s # r => req'[s] = req[s]
           /\ \A s \in Requests : req'[s].op = req[s].op
  <1>1. req[r] \in RequestRecords
    BY DEF TypeOK
  <1>2. /\ req'[r] = [req[r] EXCEPT !.at = stage]
        /\ \A s \in Requests : s # r => req'[s] = req[s]
    BY DEF Moves, TypeOK
  <1>3. [req[r] EXCEPT !.at = stage].op = req[r].op /\ [req[r] EXCEPT !.at = stage].at = stage
    BY <1>1 DEF RequestRecords, Replacing, Verifying, Idle
  <1>4. QED  BY <1>2, <1>3

LEMMA EndsAlone ==
    ASSUME TypeOK, NEW r \in Requests, Ends(r)
    PROVE  /\ req'[r] = Idle
           /\ \A s \in Requests : s # r => req'[s] = req[s]
           /\ \A s \in Requests : req'[s].op = req[s].op \/ req'[s].op = "idle"
  BY DEF Ends, TypeOK, Idle

\* Requests that keep their kind or end, on a person who stays verified or not,
\* stay alone.
LEMMA AloneKept ==
    ASSUME Alone, verified' = verified,
           \A s \in Requests : req'[s].op = req[s].op \/ req'[s].op = "idle"
    PROVE  Alone'
  BY DEF Alone, Verifying, Replacing

\* One step of a request or of the person preserves the invariant, except for the
\* types, which have their own lemma.
LEMMA PersonStep ==
    ASSUME Overlap = FALSE, PersonInv, [Next]_vars
    PROVE  PersonInv'
  <1>0. TypeOK /\ TypeOK'
    BY TypeStep DEF PersonInv
  <1> DEFINE Rest == Alone /\ NobodyIn /\ LateIsVerified /\ SessionsMatchPassword
                     /\ ChosenPasswordStands
  <1> SUFFICES Rest'
    BY <1>0 DEF PersonInv
  <1> USE DEF PersonInv, NobodyIn, LateIsVerified, ChosenPasswordStands
  <1>1. ASSUME UNCHANGED <<verified, provider, req, ghosts>> PROVE Rest'
    BY <1>1 DEF provider, ghosts, Alone, Verifying, Replacing, SessionsMatchPassword,
       RevocationAhead
  <1>2. ASSUME NEW c \in Codes, ForgotPassword(c) \/ CodeExpires(c) PROVE Rest'
    BY <1>1, <1>2 DEF ForgotPassword, CodeExpires
  <1>3. ASSUME NEW l \in Links, LinkExpires(l) PROVE Rest'
    BY <1>1, <1>3 DEF LinkExpires
  <1>4. CASE Login
    <2>1. Alone'
      BY <1>4 DEF Login, db, ghosts, Alone, Verifying, Replacing
    <2>2. SessionsMatchPassword'
      BY <1>4 DEF Login, db, ghosts, SessionsMatchPassword, RevocationAhead, Replacing
    <2>3. QED  BY <1>4, <2>1, <2>2 DEF Login, db, ghosts
  <1>5. CASE Logout
    <2>1. Alone'
      BY <1>5 DEF Logout, db, Alone, Verifying, Replacing
    <2>2. SessionsMatchPassword'
      BY <1>5 DEF Logout, SessionsMatchPassword
    <2>3. QED  BY <1>5, <2>1, <2>2 DEF Logout, db
  <1>6. ASSUME NEW r \in Requests, Resend(r) PROVE Rest'
    <2>1. PICK q : Starts(r, q) /\ q.op = "resend"
      BY <1>6 DEF Resend
    <2>2. /\ req'[r] = q /\ req[r] = Idle
          /\ \A s \in Requests : s # r => req'[s] = req[s]
      BY <2>1, <1>0, StartsAlone
    <2>3. \A s \in Requests : /\ Verifying(s)' = Verifying(s)
                              /\ Replacing(s)' = Replacing(s)
                              /\ Replacing(s) => req'[s] = req[s]
                              /\ req'[s].op = "change" => req[s].op = "change"
      BY <2>1, <2>2 DEF Verifying, Replacing, Idle
    <2>4. Alone'
      BY <1>6, <2>3 DEF Resend, db, Alone
    <2>5. SessionsMatchPassword'
      BY <1>6, <2>3 DEF Resend, provider, ghosts, SessionsMatchPassword, RevocationAhead
    <2>6. QED  BY <1>6, <2>4, <2>5 DEF Resend, db, provider, ghosts
  <1>7. ASSUME NEW r \in Requests, ResendSaves(r) PROVE Rest'
    <2>1. /\ \A s \in Requests : s # r => req'[s] = req[s]
          /\ \A s \in Requests : req'[s].op = req[s].op \/ req'[s].op = "idle"
      BY <1>7, <1>0, EndsAlone DEF ResendSaves
    <2>2. Alone'
      BY <1>7, <2>1, AloneKept DEF ResendSaves
    <2>3. \A s \in Requests : Replacing(s) => req'[s] = req[s]
      BY <1>7, <2>1 DEF ResendSaves, Replacing
    <2>4. SessionsMatchPassword'
      BY <1>7, <2>3 DEF ResendSaves, provider, ghosts, SessionsMatchPassword, RevocationAhead,
         Replacing
    <2>5. QED  BY <1>7, <2>2, <2>4 DEF ResendSaves, provider, ghosts
  <1>8. ASSUME NEW r \in Requests, NEW q, Starts(r, q), UNCHANGED <<db, provider, ghosts>>,
               q.op \in {"reset", "change"}, q.op = "change" => verified,
               ~ \E s \in Requests : Verifying(s)
        PROVE  Rest'
    <2>1. /\ req'[r] = q /\ req[r] = Idle
          /\ \A s \in Requests : s # r => req'[s] = req[s]
      BY <1>8, <1>0, StartsAlone
    <2>2. \A s \in Requests : ~Verifying(s)'
      BY <1>8, <2>1 DEF Verifying
    <2>3. Alone'
      BY <1>8, <2>1, <2>2 DEF db, Alone
    <2>4. \A s \in Requests : Replacing(s) => req'[s] = req[s]
      BY <2>1 DEF Replacing, Idle
    <2>5. SessionsMatchPassword'
      BY <1>8, <2>4 DEF provider, ghosts, SessionsMatchPassword, RevocationAhead, Replacing
    <2>6. QED  BY <1>8, <2>3, <2>5 DEF db, provider, ghosts
  <1>9. ASSUME NEW r \in Requests, NEW c \in Codes, NEW p \in Passwords, Reset(r, c, p)
        PROVE  Rest'
    BY <1>8, <1>9 DEF Reset, MayReplace
  <1>10. ASSUME NEW r \in Requests, NEW p \in Passwords, Change(r, p) PROVE Rest'
    BY <1>8, <1>10 DEF Change, MayReplace
  <1>11. ASSUME NEW r \in Requests, SetPassword(r) PROVE Rest'
    <2>1. /\ req'[r].op = req[r].op /\ req'[r].at = "set"
          /\ \A s \in Requests : req'[s].op = req[s].op
      BY <1>11, <1>0, MovesAlone DEF SetPassword
    <2>2. Alone'
      BY <1>11, <2>1, AloneKept DEF SetPassword, db
    <2>3. RevocationAhead'
      BY <1>11, <2>1 DEF SetPassword, RevocationAhead, Replacing
    <2>4. QED  BY <1>11, <2>2, <2>3 DEF SetPassword, db, SessionsMatchPassword
  <1>12. ASSUME NEW r \in Requests, Revoke(r) PROVE Rest'
    <2>1. \A s \in Requests : req'[s].op = req[s].op
      BY <1>12, <1>0, MovesAlone DEF Revoke
    <2>2. Alone'
      BY <1>12, <2>1, AloneKept DEF Revoke, db
    <2>3. QED  BY <1>12, <2>2 DEF Revoke, db, SessionsMatchPassword
  <1>13. ASSUME NEW r \in Requests, FinishReset(r) \/ FinishChange(r) PROVE Rest'
    <2>1. /\ Ends(r) /\ UNCHANGED <<verified, password, ghosts>>
          /\ Replacing(r) /\ req[r].at = "revoked"
          /\ sessions' \subseteq sessions \cup {password}
          /\ ~verified => sessions' = sessions
      BY <1>13 DEF FinishReset, FinishChange, db, provider, ghosts, Replacing, Alone
    <2>2. /\ \A s \in Requests : s # r => req'[s] = req[s]
          /\ \A s \in Requests : req'[s].op = req[s].op \/ req'[s].op = "idle"
      BY <2>1, <1>0, EndsAlone
    <2>3. Alone'
      BY <2>1, <2>2, AloneKept
    <2>4. RevocationAhead => RevocationAhead'
      BY <2>1, <2>2 DEF RevocationAhead, Replacing, ghosts
    <2>5. SessionsMatchPassword'
      BY <2>1, <2>4 DEF SessionsMatchPassword
    <2>6. QED  BY <2>1, <2>3, <2>5 DEF ghosts
  <1>14. ASSUME NEW r \in Requests, NEW l \in Links, VerifyEmail(r, l) PROVE Rest'
    <2>1. PICK q : Starts(r, q) /\ q.op = "verify"
      BY <1>14 DEF VerifyEmail
    <2>2. /\ req'[r] = q /\ req[r] = Idle
          /\ \A s \in Requests : s # r => req'[s] = req[s]
      BY <2>1, <1>0, StartsAlone
    <2>3. ~verified /\ \A s \in Requests : ~Verifying(s) /\ ~Replacing(s)
      BY <1>14 DEF VerifyEmail, MayVerify
    <2>4. /\ \A s \in Requests : ~Replacing(s)'
          /\ \A s \in Requests : Verifying(s)' => s = r
          /\ \A s \in Requests : req'[s].op # "change"
      BY <2>1, <2>2, <2>3 DEF Replacing, Verifying
    <2>5. Alone'
      BY <1>14, <2>3, <2>4 DEF VerifyEmail, db, Alone
    <2>6. SessionsMatchPassword'
      BY <1>14, <2>3 DEF VerifyEmail, provider, SessionsMatchPassword
    <2>7. QED  BY <1>14, <2>5, <2>6 DEF VerifyEmail, db, provider, ghosts
  <1>15. ASSUME NEW r \in Requests, VerifySets(r) PROVE Rest'
    <2>1. \A s \in Requests : req'[s].op = req[s].op
      BY <1>15, <1>0, MovesAlone DEF VerifySets
    <2>2. Alone'
      BY <1>15, <2>1, AloneKept DEF VerifySets, db
    <2>3. ~verified
      BY <1>15 DEF VerifySets, Alone
    <2>4. QED  BY <1>15, <2>2, <2>3 DEF VerifySets, db, ghosts, SessionsMatchPassword
  <1>16. ASSUME NEW r \in Requests, FinishVerify(r) PROVE Rest'
    <2>1. /\ req'[r] = Idle
          /\ \A s \in Requests : s # r => req'[s] = req[s]
      BY <1>16, <1>0, EndsAlone DEF FinishVerify
    <2>2. /\ ~verified
          /\ \A s \in Requests : ~Replacing(s) /\ (Verifying(s) => s = r)
      BY <1>16 DEF FinishVerify, Alone, Verifying, Replacing
    <2>3. \A s \in Requests : ~Verifying(s)'
      BY <2>1, <2>2 DEF Verifying, Idle
    <2>4. Alone'
      BY <1>16, <2>3 DEF FinishVerify, Alone
    <2>5. sessions' = {}
      BY <1>16, <2>2 DEF FinishVerify, provider
    <2>6. QED
      BY <1>16, <2>4, <2>5 DEF FinishVerify, provider, ghosts, SessionsMatchPassword
  <1>17. ASSUME NEW r \in Requests, Dies(r) PROVE Rest'
    <2>1. /\ \A s \in Requests : s # r => req'[s] = req[s]
          /\ \A s \in Requests : req'[s].op = req[s].op \/ req'[s].op = "idle"
      BY <1>17, <1>0, EndsAlone DEF Dies
    <2>2. Alone'
      BY <1>17, <2>1, AloneKept DEF Dies, db
    <2>3. RevocationAhead => RevocationAhead'
      BY <1>17, <2>1 DEF Dies, RevocationAhead, Replacing
    <2>4. SessionsMatchPassword'
      BY <1>17, <2>3 DEF Dies, provider, SessionsMatchPassword
    <2>5. QED  BY <1>17, <2>2, <2>4 DEF Dies, db, provider
  <1>18. CASE UNCHANGED vars
    BY <1>1, <1>18 DEF vars, db
  <1>19. QED
    BY <1>2, <1>3, <1>4, <1>5, <1>6, <1>7, <1>9, <1>10, <1>11, <1>12, <1>13, <1>14, <1>15,
       <1>16, <1>17, <1>18 DEF Next

-----------------------------------------------------------------------------
\* Verifications apart, no reset, change, login or failed request leaves somebody
\* in with a password that is no longer the person's (_revocar_todas_las_sesiones).
THEOREM SessionsMatchPasswordAlways ==
    ASSUME Overlap = FALSE
    PROVE  Spec => []SessionsMatchPassword
  <1>1. PersonInv => SessionsMatchPassword
    BY DEF PersonInv
  <1>2. QED  BY <1>1, PersonInit, PersonStep, PTL DEF Spec

\* Old links, codes and resent verifications never overwrite the password that a
\* verified person chose (verify_email, reset_password, change_password).
THEOREM ChosenPasswordStandsAlways ==
    ASSUME Overlap = FALSE
    PROVE  Spec => []ChosenPasswordStands
  <1>1. PersonInv => ChosenPasswordStands
    BY DEF PersonInv
  <1>2. QED  BY <1>1, PersonInit, PersonStep, PTL DEF Spec
=============================================================================
