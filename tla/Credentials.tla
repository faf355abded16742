----------------------------- MODULE Credentials -----------------------------
(***************************************************************************)
(* The password of one person who registered an account, from the          *)
(* registration on: verification of the e-mail, forgotten and changed      *)
(* passwords, logins.                                                      *)
(*                                                                         *)
(* The password lives at the identity provider, the codes and links that   *)
(* allow to set it in PostgreSQL, and no transaction spans both.  A        *)
(* request writes the provider first and commits last; it may die between  *)
(* any two of its steps.  The organization, which a verification sets to   *)
(* ACTIVE, and the data tokens, which go with the sessions (Access), are   *)
(* left out, and so is the provider's own expiry of a session.             *)
(***************************************************************************)
EXTENDS FiniteSets

CONSTANTS
    Requests,    \* requests under way at the same time
    Codes,       \* tokens_confirmacion of type password_reset
    Links,       \* tokens_confirmacion of type email_verification
    Passwords,   \* what a person may choose
    First,       \* the one chosen at registration
    Generated,   \* what resend_verification makes up if it finds none
    Overlap,     \* TRUE: a verification may overlap another request
    None

ASSUME CredentialsAssumption ==
    /\ First \in Passwords /\ Generated \notin Passwords
    /\ None \notin Passwords \cup {Generated}
    /\ Links # {}
    /\ Overlap \in BOOLEAN

VARIABLES
    verified,    \* users.email_verified
    code, link,  \* tokens_confirmacion
    password,    \* the provider's
    sessions,    \* the provider's refresh tokens, by the password they were opened with
    req,
    chosen,      \* ghost: the password chosen last, and whether a verified person chose it
    unrevoked    \* ghost: a request died between its new password and the revocation

provider == <<password, sessions>>
db == <<verified, code, link>>
ghosts == <<chosen, unrevoked>>
vars == <<db, provider, req, ghosts>>

NoLink == [state |-> "none", temp |-> None]
Idle == [op |-> "idle"]
Starts(r, request) == req[r] = Idle /\ req' = [req EXCEPT ![r] = request]
Moves(r, stage) == req' = [req EXCEPT ![r].at = stage]
Ends(r) == req' = [req EXCEPT ![r] = Idle]

\* register_user: the credential, then the row and its link, in one commit.
Init ==
    /\ verified = FALSE
    /\ code = [c \in Codes |-> "none"]
    /\ link = [[l \in Links |-> NoLink] EXCEPT
                  ![CHOOSE l \in Links : TRUE] = [state |-> "live", temp |-> First]]
    /\ password = First /\ sessions = {}
    /\ req = [r \in Requests |-> Idle]
    /\ chosen = [word |-> First, late |-> FALSE] /\ unrevoked = FALSE

-----------------------------------------------------------------------------
(* Codes, links, logins                                                    *)

\* A new code; the older ones stay as they are.
ForgotPassword(c) ==
    /\ code[c] = "none"
    /\ code' = [code EXCEPT ![c] = "live"]
    /\ UNCHANGED <<verified, link, provider, req, ghosts>>

\* An hour for a code, an hour or a day for a link.
CodeExpires(c) ==
    /\ code[c] = "live"
    /\ code' = [code EXCEPT ![c] = "expired"]
    /\ UNCHANGED <<verified, link, provider, req, ghosts>>

LinkExpires(l) ==
    /\ link[l].state = "live"
    /\ link' = [link EXCEPT ![l].state = "expired"]
    /\ UNCHANGED <<verified, code, provider, req, ghosts>>

Login ==
    /\ verified
    /\ sessions' = sessions \cup {password}
    /\ UNCHANGED <<db, password, req, ghosts>>

Logout ==
    /\ sessions # {}
    /\ sessions' = {} /\ unrevoked' = FALSE
    /\ UNCHANGED <<db, password, req, chosen>>

\* Every unused link and the password the links carry on.
Resend(r) ==
    LET kept == {link[l].temp : l \in Links} \ {None} IN
    /\ ~verified
    /\ \E p \in IF kept = {} THEN {Generated} ELSE kept :
          Starts(r, [op |-> "resend", temp |-> p,
                     seen |-> {l \in Links : link[l].state \in {"live", "expired"}}])
    /\ UNCHANGED <<db, provider, ghosts>>

ResendSaves(r) ==
    /\ req[r].op = "resend"
    /\ \E new \in Links :
          /\ link[new] = NoLink
          /\ link' = [l \in Links |->
                IF l = new THEN [state |-> "live", temp |-> req[r].temp]
                ELSE IF l \in req[r].seen THEN [link[l] EXCEPT !.state = "used"]
                ELSE link[l]]
    /\ Ends(r)
    /\ UNCHANGED <<verified, code, provider, ghosts>>

-----------------------------------------------------------------------------
(* Setting the password                                                    *)

Verifying(r) == req[r].op = "verify"
Replacing(r) == req[r].op \in {"reset", "change"}
\* Overlap = FALSE: a verification has the person for itself.
MayReplace == Overlap \/ ~ \E r \in Requests : Verifying(r)
MayVerify == Overlap \/ ~ \E r \in Requests : Verifying(r) \/ Replacing(r)

\* reset_password finds the code unused and not expired.
Reset(r, c, new) ==
    /\ MayReplace
    /\ code[c] = "live"
    /\ Starts(r, [op |-> "reset", at |-> "checked", code |-> c, new |-> new])
    /\ UNCHANGED <<db, provider, ghosts>>

\* change_password authenticates with the old password, which is right.
Change(r, new) ==
    /\ MayReplace
    /\ verified
    /\ Starts(r, [op |-> "change", at |-> "checked", new |-> new])
    /\ UNCHANGED <<db, provider, ghosts>>

\* Mutant: the sessions stay open, as they did before v1.30.1.
SetPasswordOnly(r) ==
    /\ Replacing(r) /\ req[r].at = "checked"
    /\ password' = req[r].new
    /\ chosen' = [word |-> req[r].new, late |-> verified]
    /\ Moves(r, "revoked")
    /\ UNCHANGED <<db, sessions, unrevoked>>

\* idp.fijar_password.
SetPassword(r) ==
    /\ Replacing(r) /\ req[r].at = "checked"
    /\ password' = req[r].new
    /\ chosen' = [word |-> req[r].new, late |-> verified]
    /\ Moves(r, "set")
    /\ UNCHANGED <<db, sessions, unrevoked>>

\* _revocar_todas_las_sesiones.
Revoke(r) ==
    /\ Replacing(r) /\ req[r].at = "set"
    /\ sessions' = {} /\ unrevoked' = FALSE
    /\ Moves(r, "revoked")
    /\ UNCHANGED <<db, password, chosen>>

\* The code is used only now.
FinishReset(r) ==
    /\ req[r].op = "reset" /\ req[r].at = "revoked"
    /\ code' = [code EXCEPT ![req[r].code] = "used"]
    /\ Ends(r)
    /\ UNCHANGED <<verified, link, provider, ghosts>>

\* A new session for the person, if the new password still is the password.
FinishChange(r) ==
    /\ req[r].op = "change" /\ req[r].at = "revoked"
    /\ sessions' = sessions \cup ({req[r].new} \cap {password})
    /\ Ends(r)
    /\ UNCHANGED <<db, password, ghosts>>

\* Mutant: a verified address is verified again.
VerifyEmailAgain(r, l) ==
    /\ MayVerify
    /\ link[l].state = "live" /\ link[l].temp # None
    /\ Starts(r, [op |-> "verify", at |-> "checked", link |-> l, new |-> link[l].temp])
    /\ UNCHANGED <<db, provider, ghosts>>

\* verify_email of a master user whose link carries a password.
VerifyEmail(r, l) ==
    /\ MayVerify
    /\ link[l].state = "live" /\ link[l].temp # None
    /\ ~verified
    /\ Starts(r, [op |-> "verify", at |-> "checked", link |-> l, new |-> link[l].temp])
    /\ UNCHANGED <<db, provider, ghosts>>

VerifySets(r) ==
    /\ Verifying(r) /\ req[r].at = "checked"
    /\ password' = req[r].new
    /\ Moves(r, "set")
    /\ UNCHANGED <<db, sessions, ghosts>>

FinishVerify(r) ==
    /\ Verifying(r) /\ req[r].at = "set"
    /\ verified' = TRUE
    /\ link' = [link EXCEPT ![req[r].link] = [state |-> "used", temp |-> None]]
    /\ Ends(r)
    /\ UNCHANGED <<code, provider, ghosts>>

\* The provider or the database refuses, or the process dies: what was done stays.
Dies(r) ==
    /\ req[r] # Idle
    /\ unrevoked' = (unrevoked \/ (Replacing(r) /\ req[r].at = "set"))
    /\ Ends(r)
    /\ UNCHANGED <<db, provider, chosen>>

Next ==
    \/ \E c \in Codes : ForgotPassword(c) \/ CodeExpires(c)
    \/ \E l \in Links : LinkExpires(l)
    \/ Login \/ Logout
    \/ \E r \in Requests :
          \/ Resend(r) \/ ResendSaves(r)
          \/ \E c \in Codes, p \in Passwords : Reset(r, c, p)
          \/ \E p \in Passwords : Change(r, p)
          \/ SetPassword(r) \/ Revoke(r) \/ FinishReset(r) \/ FinishChange(r)
          \/ \E l \in Links : VerifyEmail(r, l)
          \/ VerifySets(r) \/ FinishVerify(r) \/ Dies(r)

Spec == Init /\ [][Next]_vars

-----------------------------------------------------------------------------
(* Properties                                                              *)

AnyPassword == Passwords \cup {Generated}
RequestRecords ==
    {Idle}
    \cup [op : {"resend"}, temp : AnyPassword, seen : SUBSET Links]
    \cup [op : {"reset"}, at : {"checked", "set", "revoked"}, code : Codes, new : Passwords]
    \cup [op : {"change"}, at : {"checked", "set", "revoked"}, new : Passwords]
    \cup [op : {"verify"}, at : {"checked", "set"}, link : Links, new : AnyPassword]

\* The state has its types.
TypeOK ==
    /\ verified \in BOOLEAN
    /\ code \in [Codes -> {"none", "live", "used", "expired"}]
    /\ link \in [Links -> [state : {"none", "live", "used", "expired"},
                           temp : AnyPassword \cup {None}]]
    /\ password \in AnyPassword
    /\ sessions \subseteq AnyPassword
    /\ req \in [Requests -> RequestRecords]
    /\ chosen \in [word : Passwords, late : BOOLEAN]
    /\ unrevoked \in BOOLEAN

\* Some new password is in force whose request has still to close the sessions.
RevocationAhead == unrevoked \/ \E r \in Requests : Replacing(r) /\ req[r].at = "set"

\* Once a reset or a change has answered, nobody is in with another password:
\* not even somebody who logged in while it ran, nor the person whose own change
\* was overtaken by another one.
SessionsMatchPassword == RevocationAhead \/ sessions \subseteq {password}

\* The password a verified person chose last is the one in force, whatever old
\* links and codes come in afterwards.
ChosenPasswordStands == chosen.late => password = chosen.word

\* The same of every password ever chosen.  (A password reset before the
\* verification is overwritten by it: see the README.)
ResetSurvivesVerification == password = chosen.word
=============================================================================
