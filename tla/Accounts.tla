------------------------------ MODULE Accounts ------------------------------
(***************************************************************************)
(* The accounts of a tenant (services/auth_service.py,                     *)
(* mobile_oauth_service.py and their endpoints): administrators change and *)
(* delete accounts and handle invitations, people register, verify their   *)
(* address, reset a password and exchange an authorization code.  A        *)
(* request reads in its transaction, decides, and writes when it is        *)
(* committed; no row is locked by a read, and the ORM writes the columns   *)
(* that differ from what it has read.                                      *)
(*                                                                         *)
(*   setting   auth_stateless_jwt_context, auth_allow_public_registration  *)
(*   user      the users table; one person has one address and one name    *)
(*   token     the role in the access token a person holds                 *)
(*   invite    user_invitations                                            *)
(*   secret    a verification code, a reset token or an authorization code *)
(*   request   between its read and its commit                             *)
(*   made      requests so far                                             *)
(*   uses      history: requests that have succeeded with a secret or an   *)
(*             invitation                                                  *)
(*   outlived  history: a request of somebody who was no active            *)
(*             administrator any more has been committed                   *)
(*   crossed   history: two requests about the same invitation, address or *)
(*             secret were in flight at once, or a revoked invitation was  *)
(*             sent again                                                  *)
(*                                                                         *)
(* Times are left out: what has expired is refused, which changes nothing, *)
(* and who does not sign in again does not act.  So are passwords, levels  *)
(* and departments.                                                        *)
(***************************************************************************)
EXTENDS Naturals, FiniteSets

CONSTANTS People, FirstAdmins, Invitations, Secrets, AccountRequests,
          MaxRequests,  \* bound on requests that read and then write
          None

\* What the constants must be.
AccountConstants ==
    /\ FirstAdmins \subseteq People /\ FirstAdmins # {}
    /\ None \notin People \union Invitations \union Secrets
    /\ Invitations \intersect Secrets = {}
    /\ MaxRequests \in Nat

VARIABLES setting, user, token, invite, secret, request, made, uses, outlived, crossed

vars == <<setting, user, token, invite, secret, request, made, uses, outlived, crossed>>

----------------------------------------------------------------------------
\* Types

Roles == {"ADMIN", "EMPLOYEE"}

User == [role : Roles \union {"none"}, active : BOOLEAN, verified : BOOLEAN]

Absent == [role |-> "none", active |-> FALSE, verified |-> FALSE]

Invite == [to : People \union {None}, role : Roles, used : BOOLEAN, revoked : BOOLEAN]

NoInvite == [to |-> None, role |-> "EMPLOYEE", used |-> FALSE, revoked |-> FALSE]

Secret == [kind : {"code", "reset", "oauth"}, of : People \union {None}, consumed : BOOLEAN]

\* by: who asks.  on: whose account or address it is about.  about: the invitation
\* or the secret.  code: the one a registration brings.  old, new: the row as it was
\* read and as it shall be.
Request == [op : {"idle", "update", "delete", "invite", "resend", "revoke", "register",
                  "use"},
            by : People \union {None}, on : People \union {None},
            about : Invitations \union Secrets \union {None}, code : Secrets \union {None},
            old : User, new : User, was_revoked : BOOLEAN]

Idle == [op |-> "idle", by |-> None, on |-> None, about |-> None, code |-> None,
         old |-> Absent, new |-> Absent, was_revoked |-> FALSE]

TypeOK ==
    /\ setting \in [stateless : BOOLEAN, public : BOOLEAN]
    /\ user \in [People -> User]
    /\ token \in [People -> Roles \union {"none"}]
    /\ invite \in [Invitations -> Invite]
    /\ secret \in [Secrets -> Secret]
    /\ request \in [AccountRequests -> Request]
    /\ made \in 0 .. MaxRequests
    /\ uses \in [Invitations \union Secrets -> 0 .. MaxRequests]
    /\ outlived \in BOOLEAN
    /\ crossed \in BOOLEAN

Init ==
    /\ setting \in [stateless : BOOLEAN, public : BOOLEAN]
    /\ user = [p \in People |->
                 IF p \in FirstAdmins THEN [role |-> "ADMIN", active |-> TRUE, verified |-> TRUE]
                 ELSE Absent]
    /\ token = [p \in People |-> "none"]
    /\ invite = [i \in Invitations |-> NoInvite]
    /\ secret = [s \in Secrets |-> [kind |-> "code", of |-> None, consumed |-> FALSE]]
    /\ request = [r \in AccountRequests |-> Idle]
    /\ made = 0
    /\ uses = [s \in Invitations \union Secrets |-> 0]
    /\ outlived = FALSE
    /\ crossed = FALSE

----------------------------------------------------------------------------
\* Helpers

Exists(p) == user[p].role # "none"

Administers(p) == user[p].role = "ADMIN" /\ user[p].active

\* require_role("ADMIN"): the claim of the token, or the row, active or not.
Authorized(p) ==
    /\ token[p] # "none"
    /\ IF setting.stateless THEN token[p] = "ADMIN" ELSE user[p].role = "ADMIN"

Pending(i) == invite[i].to # None /\ ~invite[i].used /\ ~invite[i].revoked

PendingFor(p) == {i \in Invitations : Pending(i) /\ invite[i].to = p}

\* Another request is about the same invitation, address or secret.
Meets(v) == \E r \in AccountRequests :
               /\ request[r].op \notin {"idle", "update", "delete"}
               /\ \/ \E x \in {v.about, v.code} \ {None} : x \in {request[r].about, request[r].code}
                  \/ request[r].on = v.on /\ v.op \in {"invite", "resend", "register"}

\* The request v has read what it needs.
Begin(r, v) ==
    /\ request[r].op = "idle" /\ made < MaxRequests
    /\ made' = made + 1
    /\ request' = [request EXCEPT ![r] = v]
    /\ crossed' = (crossed \/ (v.op \notin {"update", "delete"} /\ Meets(v))
                           \/ (v.op = "resend" /\ v.was_revoked))
    /\ UNCHANGED <<setting, user, token, invite, secret, uses, outlived>>

----------------------------------------------------------------------------
\* Administrators

\* Mutant of MayChange: nobody is protected from himself.
MayChangeAnybody(by, on, new) == TRUE

\* An administrator may not give up the own role or account.
MayChange(by, on, new) ==
    by = on => new.role = "ADMIN" /\ (new.active \/ ~user[on].active)

\* admin_update_user; a role or a flag that is not given stays.
BeginUpdate(r, by, on) ==
    /\ Authorized(by) /\ Exists(on)
    /\ \E new \in [role : Roles, active : BOOLEAN, verified : BOOLEAN] :
          /\ MayChange(by, on, new)
          /\ Begin(r, [Idle EXCEPT !.op = "update", !.by = by, !.on = on, !.old = user[on],
                                   !.new = new])

\* admin_delete_user
BeginDelete(r, by, on) ==
    /\ Authorized(by) /\ Exists(on)
    /\ MayChange(by, on, Absent)
    /\ Begin(r, [Idle EXCEPT !.op = "delete", !.by = by, !.on = on])

\* invite_user: two pending invitations are one too many for its query.
BeginInvite(r, by, p, role) ==
    /\ Authorized(by)
    /\ Cardinality(PendingFor(p)) <= 1
    /\ \E about \in IF PendingFor(p) = {} THEN {None} ELSE PendingFor(p) :
          Begin(r, [Idle EXCEPT !.op = "invite", !.by = by, !.on = p, !.about = about,
                                !.new = [Absent EXCEPT !.role = role]])

\* resend_invitation and revoke_invitation
BeginResend(r, by, i) ==
    /\ Authorized(by)
    /\ invite[i].to # None /\ ~invite[i].used
    /\ Begin(r, [Idle EXCEPT !.op = "resend", !.by = by, !.on = invite[i].to, !.about = i,
                             !.was_revoked = invite[i].revoked])

BeginRevoke(r, by, i) ==
    /\ Authorized(by)
    /\ invite[i].to # None /\ ~invite[i].used
    /\ Begin(r, [Idle EXCEPT !.op = "revoke", !.by = by, !.on = invite[i].to, !.about = i])

----------------------------------------------------------------------------
\* People

Code(s) == secret[s].kind = "code" /\ ~secret[s].consumed

\* register, with the invitation it needs unless registration is public.  A code
\* makes the address a verified one.
BeginRegister(r, p) ==
    /\ ~Exists(p)
    /\ \E about \in IF setting.public THEN {None} ELSE PendingFor(p),
          code \in {None} \union {s \in Secrets : Code(s) /\ secret[s].of = p} :
          Begin(r, [Idle EXCEPT !.op = "register", !.on = p, !.about = about, !.code = code,
                      !.new = [role |-> IF about = None THEN "EMPLOYEE" ELSE invite[about].role,
                               active |-> TRUE, verified |-> code # None]])

\* create_verification_code, request_password_reset and authorize.  Codes are sent
\* to any address; the others ask for an active account.
CreateSecret(s, kind, p) ==
    /\ secret[s].of = None
    /\ kind # "code" => user[p].active
    /\ kind = "oauth" => user[p].verified
    /\ secret' = [secret EXCEPT ![s] = [kind |-> kind, of |-> p, consumed |-> FALSE]]
    /\ UNCHANGED <<setting, user, token, invite, request, made, uses, outlived, crossed>>

\* verify_email_code, reset_password and exchange_code: a secret that is not
\* consumed, of an account there is, and active where it gives access to one.
BeginUse(r, s) ==
    LET p == secret[s].of IN
    /\ p # None /\ ~secret[s].consumed
    /\ IF secret[s].kind = "code" THEN Exists(p) ELSE user[p].active
    /\ Begin(r, [Idle EXCEPT !.op = "use", !.on = p, !.about = s, !.old = user[p]])

\* login and refresh give the role the account has then.  Nobody here has an address of
\* docmind.local, the domain of demonstration accounts, which needs no verification.
Login(p) ==
    /\ user[p].active
    /\ token[p] # user[p].role
    /\ token[p] # "none" \/ user[p].verified
    /\ token' = [token EXCEPT ![p] = user[p].role]
    /\ UNCHANGED <<setting, user, invite, secret, request, made, uses, outlived, crossed>>

----------------------------------------------------------------------------
\* Commits

Finish(r) ==
    /\ request' = [request EXCEPT ![r] = Idle]
    /\ outlived' = (outlived \/ (request[r].by # None /\ ~Administers(request[r].by)))
    /\ UNCHANGED <<setting, made, crossed>>

Written(c, old, new, now) == IF new[c] # old[c] THEN new[c] ELSE now[c]

\* The columns that differ from what was read; an UPDATE that meets no row fails.
CommitUpdate(r) ==
    LET v == request[r] IN
    /\ v.op = "update"
    /\ user' = IF ~Exists(v.on) THEN user
               ELSE [user EXCEPT ![v.on] = [c \in DOMAIN @ |-> Written(c, v.old, v.new, @)]]
    /\ Finish(r)
    /\ UNCHANGED <<token, invite, secret, uses>>

CommitDelete(r) ==
    /\ request[r].op = "delete"
    /\ user' = [user EXCEPT ![request[r].on] = Absent]
    /\ Finish(r)
    /\ UNCHANGED <<token, invite, secret, uses>>

CommitInvite(r) ==
    LET v == request[r] IN
    /\ v.op = "invite"
    /\ \E i \in IF v.about # None THEN {v.about} ELSE {j \in Invitations : invite[j].to = None} :
          invite' = [invite EXCEPT ![i] = [@ EXCEPT !.to = v.on, !.role = v.new.role]]
    /\ Finish(r)
    /\ UNCHANGED <<user, token, secret, uses>>

\* revoked_at is written only if it was set.
CommitResend(r) ==
    LET v == request[r] IN
    /\ v.op = "resend"
    /\ invite' = [invite EXCEPT ![v.about].revoked = IF v.was_revoked THEN FALSE ELSE @]
    /\ Finish(r)
    /\ UNCHANGED <<user, token, secret, uses>>

CommitRevoke(r) ==
    /\ request[r].op = "revoke"
    /\ invite' = [invite EXCEPT ![request[r].about].revoked = TRUE]
    /\ Finish(r)
    /\ UNCHANGED <<user, token, secret, uses>>

Used(i) == IF i = None THEN invite ELSE [invite EXCEPT ![i].used = TRUE]

\* Mutant of Consumed: the secret stays as it was.
ConsumedNever(s) == secret

Consumed(s) == [secret EXCEPT ![s].consumed = TRUE]

Counted(xs) == [x \in DOMAIN uses |-> IF x \in xs THEN uses[x] + 1 ELSE uses[x]]

\* Without a code of its own a registration is sent one, as far as there are any.
CodeFor(p) ==
    LET unused == {s \in Secrets : secret[s].of = None} IN
    IF unused = {} THEN {secret}
    ELSE {[secret EXCEPT ![s] = [kind |-> "code", of |-> p, consumed |-> FALSE]] :
             s \in unused}

\* The address and the name are unique: the second registration fails.
CommitRegister(r) ==
    LET v == request[r] IN
    /\ v.op = "register"
    /\ IF Exists(v.on) THEN UNCHANGED <<user, invite, secret, uses>>
       ELSE /\ user' = [user EXCEPT ![v.on] = v.new]
            /\ invite' = Used(v.about)
            /\ secret' \in IF v.code = None THEN CodeFor(v.on) ELSE {Consumed(v.code)}
            /\ uses' = Counted({v.about, v.code})
    /\ Finish(r)
    /\ UNCHANGED token

\* An authorization code is exchanged for tokens.
CommitUse(r) ==
    LET v == request[r]
        kind == secret[v.about].kind
    IN
    /\ v.op = "use"
    /\ secret' = Consumed(v.about)
    /\ uses' = Counted({v.about})
    /\ user' = IF kind = "code" /\ Exists(v.on) THEN [user EXCEPT ![v.on].verified = TRUE]
               ELSE user
    /\ token' = IF kind = "oauth" THEN [token EXCEPT ![v.on] = v.old.role] ELSE token
    /\ Finish(r)
    /\ UNCHANGED invite

\* The request fails, and its transaction is rolled back.
Fail(r) ==
    /\ request[r].op # "idle"
    /\ request' = [request EXCEPT ![r] = Idle]
    /\ UNCHANGED <<setting, user, token, invite, secret, made, uses, outlived, crossed>>

----------------------------------------------------------------------------
Ask(r) ==
    \/ \E by, on \in People :
          BeginUpdate(r, by, on) \/ BeginDelete(r, by, on)
          \/ \E role \in Roles : BeginInvite(r, by, on, role)
    \/ \E by \in People, i \in Invitations : BeginResend(r, by, i) \/ BeginRevoke(r, by, i)
    \/ \E p \in People : BeginRegister(r, p)
    \/ \E s \in Secrets : BeginUse(r, s)

Commit(r) ==
    \/ CommitUpdate(r) \/ CommitDelete(r) \/ CommitInvite(r) \/ CommitResend(r)
    \/ CommitRevoke(r) \/ CommitRegister(r) \/ CommitUse(r) \/ Fail(r)

Next ==
    \/ \E r \in AccountRequests : Ask(r) \/ Commit(r)
    \/ \E p \in People : Login(p)
    \/ \E s \in Secrets, kind \in {"code", "reset", "oauth"}, p \in People :
          CreateSecret(s, kind, p)

Spec == Init /\ [][Next]_vars

----------------------------------------------------------------------------
\* Properties

\* Administrators change and delete each other at the same time, with tokens that
\* outlive a role, and the only guard is that nobody gives up the own account.  Still
\* the tenant keeps an active administrator, unless a request is committed whose
\* author is none any more.
AdminRemains == ~outlived => \E p \in People : Administers(p)

\* Invitations, codes and tokens work once, an address has one pending invitation at
\* most (the next invitation fails on two) and nobody gets an account from an
\* invitation that is revoked: as long as no two requests about the same one are in
\* flight at once and no revoked invitation is sent again.
SecretsWorkOnce ==
    ~crossed =>
        /\ \A x \in DOMAIN uses : uses[x] <= 1
        /\ \A p \in People : Cardinality(PendingFor(p)) <= 1
        /\ \A i \in Invitations : ~(invite[i].used /\ invite[i].revoked)
=============================================================================
