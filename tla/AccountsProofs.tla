--------------------------- MODULE AccountsProofs ---------------------------
(***************************************************************************)
(* Theorems about Accounts, for every tenant, every number of requests and *)
(* every choice of the settings: the tenant keeps an administrator, and    *)
(* invitations, codes and tokens work once.  They are stated of the        *)
(* instance in MCPlatform, alone and beside the other parts.               *)
(***************************************************************************)
EXTENDS MCPlatform, FiniteSetTheorems, TLAPS

----------------------------------------------------------------------------
\* The inductive invariant

\* The types, but for the bound on how often something is used.
AccountsTypes ==
    /\ setting \in [stateless : BOOLEAN, public : BOOLEAN]
    /\ user \in [People -> Door!User]
    /\ token \in [People -> Door!Roles \union {"none"}]
    /\ invite \in [Tasks -> Door!Invite]
    /\ secret \in [Secrets -> Door!Secret]
    /\ accountRequest \in [Requests -> Door!Request]
    /\ made \in Nat
    /\ uses \in [Tasks \union Secrets -> Nat]
    /\ outlived \in BOOLEAN
    /\ crossed \in BOOLEAN

\* What a request of each kind carries.
ShapedRequest(v) ==
    /\ v.op # "idle" => v.on \in People
    /\ v.op \in {"update", "delete"} => v.by \in People
    /\ v.op = "update" /\ v.by = v.on => v.new.role = "ADMIN" /\ (v.new.active \/ ~v.old.active)
    /\ v.op = "delete" => v.by # v.on
    /\ v.op = "invite" => v.about \in Tasks \union {None} /\ v.new.role \in Door!Roles
    /\ v.op \in {"resend", "revoke"} => v.about \in Tasks
    /\ v.op = "register" => /\ v.about \in Tasks \union {None}
                            /\ v.code \in Secrets \union {None}
    /\ v.op = "use" => v.about \in Secrets
    /\ v.op # "register" => v.code = None

\* Requests that meet others.
Busy(v) == v.op \notin {"idle", "update", "delete"}

Concerns(v) == {v.about, v.code} \ {None}

\* No two of them are about the same thing.
AloneAbout ==
    \A q, r \in Requests :
        q # r /\ Busy(accountRequest[q]) /\ Busy(accountRequest[r]) =>
            /\ Concerns(accountRequest[q]) \intersect Concerns(accountRequest[r]) = {}
            /\ {accountRequest[q].op, accountRequest[r].op} \subseteq {"invite", "resend", "register"} =>
                 accountRequest[q].on # accountRequest[r].on

Live(s) == secret[s].of # None /\ ~secret[s].consumed

\* What a request has read is still true.
StillTrue(v) ==
    /\ v.op = "invite" => IF v.about = None THEN Door!PendingFor(v.on) = {}
                          ELSE v.about \in Door!PendingFor(v.on)
    /\ v.op = "register" => /\ v.about # None => v.about \in Door!PendingFor(v.on)
                            /\ v.code # None => Live(v.code)
    /\ v.op \in {"resend", "revoke"} => invite[v.about].to # None /\ ~invite[v.about].used
    /\ v.op = "resend" => ~v.was_revoked
    /\ v.op = "use" => Live(v.about)

InvitationsOK ==
    /\ \A i \in Tasks :
         /\ invite[i].to = None => ~invite[i].used /\ ~invite[i].revoked
         /\ ~(invite[i].used /\ invite[i].revoked)
         /\ uses[i] = 0 \/ (uses[i] = 1 /\ invite[i].used)
    /\ \A p \in People : \A i, j \in Door!PendingFor(p) : i = j

SecretsOK ==
    \A s \in Secrets : uses[s] = 0 \/ (uses[s] = 1 /\ secret[s].consumed /\ secret[s].of # None)

OnceOK == AloneAbout /\ InvitationsOK /\ SecretsOK /\ \A r \in Requests : StillTrue(accountRequest[r])

AccountsInv ==
    /\ AccountsTypes
    /\ \A r \in Requests : ShapedRequest(accountRequest[r])
    /\ Door!AdminRemains
    /\ crossed \/ OnceOK

\* An instance has the operators of the modules it extends under its own name.
LEMMA CardDoor == \A S : Door!Cardinality(S) = Cardinality(S)
BY DEF Door!Cardinality, Cardinality

LEMMA IdleIsIdle ==
    /\ Door!Idle \in Door!Request /\ Door!Idle.op = "idle" /\ Door!Idle.about = None /\ Door!Idle.code = None
    /\ ShapedRequest(Door!Idle) /\ ~Busy(Door!Idle) /\ StillTrue(Door!Idle)
    /\ Door!Absent \in Door!User /\ ~Door!Absent.active /\ Door!Absent.role = "none"
<1>1. Door!Absent \in Door!User /\ ~Door!Absent.active /\ Door!Absent.role = "none"
  BY DEF Door!Absent, Door!User, Door!Roles
<1>2. Door!Idle \in Door!Request /\ Door!Idle.op = "idle" /\ Door!Idle.about = None /\ Door!Idle.code = None
  BY <1>1 DEF Door!Idle, Door!Request
<1>3. ShapedRequest(Door!Idle) /\ ~Busy(Door!Idle) /\ StillTrue(Door!Idle)
  BY <1>2 DEF ShapedRequest, Busy, StillTrue
<1> QED BY <1>1, <1>2, <1>3

LEMMA AccountsInit ==
    ASSUME Door!AccountConstants, Door!Init PROVE AccountsInv
<1>1. \A r \in Requests : accountRequest[r] = Door!Idle
  BY DEF Door!Init
<1>2. \A i \in Tasks : /\ invite[i] \in Door!Invite /\ invite[i].to = None
                       /\ ~invite[i].used /\ ~invite[i].revoked
  BY DEF Door!Init, Door!NoInvite, Door!Invite, Door!Roles
<1>3. \A p \in People : user[p] \in Door!User /\ (p \in FirstAdmins => Door!Administers(p))
  BY IdleIsIdle DEF Door!Init, Door!User, Door!Roles, Door!Administers
<1>4. AccountsTypes
  <2>1. user \in [People -> Door!User] /\ token \in [People -> Door!Roles \union {"none"}]
    BY <1>3 DEF Door!Init
  <2>2. invite \in [Tasks -> Door!Invite]
    BY <1>2 DEF Door!Init
  <2>3. secret \in [Secrets -> Door!Secret]
    BY DEF Door!Init, Door!Secret
  <2>4. accountRequest \in [Requests -> Door!Request]
    BY IdleIsIdle DEF Door!Init
  <2>5. uses \in [Tasks \union Secrets -> Nat] /\ made \in Nat
    BY DEF Door!Init
  <2> QED BY <2>1, <2>2, <2>3, <2>4, <2>5 DEF Door!Init, AccountsTypes
<1>5. Door!AdminRemains
  <2>1. PICK p \in People : p \in FirstAdmins
    BY DEF Door!AccountConstants
  <2> QED BY <1>3, <2>1 DEF Door!AdminRemains
<1>6. OnceOK
  <2>1. AloneAbout
    BY <1>1, IdleIsIdle DEF AloneAbout
  <2>2. \A p \in People : Door!PendingFor(p) = {}
    BY <1>2 DEF Door!PendingFor, Door!Pending
  <2>3. InvitationsOK
    BY <1>2, <2>2 DEF InvitationsOK, Door!Init
  <2>4. SecretsOK
    BY DEF SecretsOK, Door!Init
  <2> QED BY <1>1, <2>1, <2>3, <2>4, IdleIsIdle DEF OnceOK
<1> QED BY <1>1, <1>4, <1>5, <1>6, IdleIsIdle DEF AccountsInv

----------------------------------------------------------------------------
\* What steps leave as it is

\* No administrator has lost the role or the account.
LEMMA AdminStaysWhere ==
    ASSUME Door!AdminRemains, outlived => outlived', \A p \in People : Door!Administers(p) => Door!Administers(p)'
    PROVE  Door!AdminRemains'
BY DEF Door!AdminRemains

\* The address and the two flags of each invitation, the address and the flag of
\* each secret, and their uses.
SameOutside ==
    /\ \A i \in Tasks : /\ invite'[i].to = invite[i].to
                        /\ invite'[i].used = invite[i].used
                        /\ invite'[i].revoked = invite[i].revoked
    /\ \A s \in Secrets : /\ secret'[s].of = secret[s].of
                          /\ secret'[s].consumed = secret[s].consumed
    /\ uses' = uses

LEMMA SamePending ==
    ASSUME \A i \in Tasks : /\ invite'[i].to = invite[i].to
                            /\ invite'[i].used = invite[i].used
                            /\ invite'[i].revoked = invite[i].revoked,
           NEW p
    PROVE  Door!PendingFor(p)' = Door!PendingFor(p)
BY DEF Door!PendingFor, Door!Pending

LEMMA SameTrue ==
    ASSUME SameOutside, NEW v, ShapedRequest(v), StillTrue(v)
    PROVE  StillTrue(v)'
<1>1. Door!PendingFor(v.on)' = Door!PendingFor(v.on)
  BY SamePending DEF SameOutside
<1>2. \A s \in Secrets : Live(s) => Live(s)'
  BY DEF SameOutside, Live
<1> QED BY <1>1, <1>2 DEF StillTrue, ShapedRequest, SameOutside

LEMMA SameInvitations ==
    ASSUME InvitationsOK, SecretsOK, SameOutside
    PROVE  InvitationsOK' /\ SecretsOK'
<1>1. \A p \in People : Door!PendingFor(p)' = Door!PendingFor(p)
  BY SamePending DEF SameOutside
<1>2. InvitationsOK'
  BY <1>1 DEF InvitationsOK, SameOutside
<1>3. SecretsOK'
  BY DEF SecretsOK, SameOutside
<1> QED BY <1>2, <1>3

\* A request that has ended concerns nothing.
RequestEnds(r) == accountRequest' = [accountRequest EXCEPT ![r] = Door!Idle]

LEMMA EndedKeeps ==
    ASSUME AccountsTypes, NEW r \in Requests, RequestEnds(r),
           \A q \in Requests : ShapedRequest(accountRequest[q])
    PROVE  /\ accountRequest' \in [Requests -> Door!Request]
           /\ \A q \in Requests : accountRequest'[q] = IF q = r THEN Door!Idle ELSE accountRequest[q]
           /\ \A q \in Requests : ShapedRequest(accountRequest'[q])
           /\ AloneAbout => AloneAbout'
<1>1. accountRequest' \in [Requests -> Door!Request]
  BY IdleIsIdle DEF AccountsTypes, RequestEnds
<1>2. \A q \in Requests : accountRequest'[q] = IF q = r THEN Door!Idle ELSE accountRequest[q]
  BY DEF AccountsTypes, RequestEnds
<1>3. \A q \in Requests : ShapedRequest(accountRequest'[q])
  BY <1>2, IdleIsIdle
<1>4. ASSUME AloneAbout PROVE AloneAbout'
  BY <1>2, <1>4, IdleIsIdle DEF AloneAbout
<1> QED BY <1>1, <1>2, <1>3, <1>4

\* A request ends and nothing of what matters is written.
LEMMA EndedOnce ==
    ASSUME AccountsTypes, NEW r \in Requests, RequestEnds(r), SameOutside,
           \A q \in Requests : ShapedRequest(accountRequest[q]), OnceOK
    PROVE  OnceOK'
<1>1. AloneAbout'
  BY EndedKeeps DEF OnceOK
<1>2. InvitationsOK' /\ SecretsOK'
  BY SameInvitations DEF OnceOK
<1>3. ASSUME NEW q \in Requests PROVE StillTrue(accountRequest[q])'
  <2>1. PICK v : v = accountRequest'[q] /\ StillTrue(v) /\ ShapedRequest(v)
    BY EndedKeeps, IdleIsIdle DEF OnceOK
  <2>2. StillTrue(v)'
    BY <2>1, SameTrue
  <2> QED BY <2>1, <2>2 DEF StillTrue
<1> QED BY <1>1, <1>2, <1>3 DEF OnceOK

----------------------------------------------------------------------------
\* The beginning of a request

LEMMA BeginKeepsInv ==
    ASSUME Door!AccountConstants, AccountsInv, NEW r \in Requests, NEW v \in Door!Request,
           Door!Begin(r, v), ShapedRequest(v), crossed' \/ StillTrue(v)
    PROVE  AccountsInv'
<1>1. AccountsTypes /\ \A q \in Requests : ShapedRequest(accountRequest[q])
  BY DEF AccountsInv
<1>2. /\ accountRequest[r].op = "idle" /\ made' = made + 1
      /\ setting' = setting /\ user' = user /\ token' = token /\ invite' = invite
      /\ secret' = secret /\ uses' = uses /\ outlived' = outlived
  BY DEF Door!Begin
<1>3. \A q \in Requests : accountRequest'[q] = IF q = r THEN v ELSE accountRequest[q]
  BY <1>1 DEF Door!Begin, AccountsTypes
<1>4. AccountsTypes'
  <2>1. accountRequest' \in [Requests -> Door!Request]
    BY <1>1 DEF Door!Begin, AccountsTypes
  <2>2. crossed' \in BOOLEAN
    BY <1>1 DEF Door!Begin, AccountsTypes
  <2>3. made' \in Nat
    BY <1>1, <1>2 DEF AccountsTypes
  <2> QED BY <1>1, <1>2, <2>1, <2>2, <2>3 DEF AccountsTypes
<1>5. \A q \in Requests : ShapedRequest(accountRequest'[q])
  BY <1>1, <1>3
<1>6. Door!AdminRemains'
  BY <1>2 DEF AccountsInv, Door!AdminRemains, Door!Administers
<1>7. ASSUME ~crossed' PROVE OnceOK'
  <2>1. ~crossed /\ OnceOK
    BY <1>1, <1>7 DEF Door!Begin, AccountsInv, AccountsTypes
  <2>2. Busy(v) => ~Door!Meets(v)
    BY <1>7 DEF Door!Begin, Busy, ShapedRequest
  <2>3. ASSUME Busy(v), NEW q \in Requests, q # r, Busy(accountRequest[q])
        PROVE  /\ Concerns(accountRequest[q]) \intersect Concerns(v) = {}
               /\ v.op \in {"invite", "resend", "register"} => accountRequest[q].on # v.on
    BY <2>2, <2>3 DEF Door!Meets, Busy, Concerns
  <2>4. AloneAbout'
    <3> SUFFICES ASSUME NEW p \in Requests, NEW q \in Requests, p # q,
                        Busy(accountRequest'[p]), Busy(accountRequest'[q])
                 PROVE  /\ Concerns(accountRequest'[p]) \intersect Concerns(accountRequest'[q]) = {}
                        /\ {accountRequest'[p].op, accountRequest'[q].op} \subseteq
                              {"invite", "resend", "register"} => accountRequest'[p].on # accountRequest'[q].on
      BY DEF AloneAbout
    <3>1. CASE p # r /\ q # r
      BY <1>3, <2>1, <3>1 DEF OnceOK, AloneAbout
    <3>2. CASE p = r
      BY <1>3, <2>3, <3>2
    <3>3. CASE q = r
      BY <1>3, <2>3, <3>3
    <3> QED BY <3>1, <3>2, <3>3
  <2>5. InvitationsOK' /\ SecretsOK'
    BY <1>2, <2>1, SameInvitations DEF OnceOK, SameOutside
  <2>6. ASSUME NEW q \in Requests PROVE StillTrue(accountRequest[q])'
    <3>1. PICK w : w = accountRequest'[q] /\ StillTrue(w) /\ ShapedRequest(w)
      BY <1>1, <1>3, <1>7, <2>1 DEF OnceOK
    <3>2. StillTrue(w)'
      BY <1>2, <3>1, SameTrue DEF SameOutside
    <3> QED BY <3>1, <3>2 DEF StillTrue
  <2> QED BY <2>4, <2>5, <2>6 DEF OnceOK
<1> QED BY <1>4, <1>5, <1>6, <1>7 DEF AccountsInv

LEMMA AskKeepsInv ==
    ASSUME Door!AccountConstants, AccountsInv, NEW r \in Requests, Door!Ask(r)
    PROVE  AccountsInv'
<1>1. AccountsTypes /\ (crossed \/ OnceOK)
  BY DEF AccountsInv
<1>2. ASSUME NEW by \in People, NEW on \in People, Door!BeginUpdate(r, by, on)
      PROVE  AccountsInv'
  <2>1. PICK new \in [role : Door!Roles, active : BOOLEAN, verified : BOOLEAN] :
          /\ Door!MayChange(by, on, new)
          /\ Door!Begin(r, [Door!Idle EXCEPT !.op = "update", !.by = by, !.on = on, !.old = user[on],
                                             !.new = new])
    BY <1>2 DEF Door!BeginUpdate
  <2>2. PICK v : v = [Door!Idle EXCEPT !.op = "update", !.by = by, !.on = on, !.old = user[on],
                                       !.new = new]
    OBVIOUS
  <2>3. /\ v \in Door!Request /\ v.op = "update" /\ v.by = by /\ v.on = on /\ v.old = user[on]
        /\ v.new = new /\ v.code = None
    BY <1>1, <2>2, IdleIsIdle DEF Door!Request, AccountsTypes, Door!User
  <2>4. ShapedRequest(v) /\ StillTrue(v)
    BY <2>1, <2>3 DEF ShapedRequest, StillTrue, Door!MayChange
  <2> QED BY <2>1, <2>2, <2>3, <2>4, BeginKeepsInv
<1>3. ASSUME NEW by \in People, NEW on \in People, Door!BeginDelete(r, by, on)
      PROVE  AccountsInv'
  <2>1. PICK v : v = [Door!Idle EXCEPT !.op = "delete", !.by = by, !.on = on]
    OBVIOUS
  <2>2. v \in Door!Request /\ v.op = "delete" /\ v.by = by /\ v.on = on /\ v.code = None
    BY <2>1, IdleIsIdle DEF Door!Request
  <2>3. by # on
    BY <1>3, IdleIsIdle DEF Door!BeginDelete, Door!MayChange
  <2>4. ShapedRequest(v) /\ StillTrue(v)
    BY <2>2, <2>3 DEF ShapedRequest, StillTrue
  <2> QED BY <1>3, <2>1, <2>2, <2>4, BeginKeepsInv DEF Door!BeginDelete
<1>4. ASSUME NEW by \in People, NEW on \in People, NEW role \in Door!Roles,
             Door!BeginInvite(r, by, on, role)
      PROVE  AccountsInv'
  <2>1. PICK about \in IF Door!PendingFor(on) = {} THEN {None} ELSE Door!PendingFor(on) :
          Door!Begin(r, [Door!Idle EXCEPT !.op = "invite", !.by = by, !.on = on, !.about = about,
                                          !.new = [Door!Absent EXCEPT !.role = role]])
    BY <1>4 DEF Door!BeginInvite
  <2>2. PICK v : v = [Door!Idle EXCEPT !.op = "invite", !.by = by, !.on = on, !.about = about,
                                       !.new = [Door!Absent EXCEPT !.role = role]]
    OBVIOUS
  <2>3. about \in Tasks \union {None}
    BY DEF Door!PendingFor
  <2>4. /\ v \in Door!Request /\ v.op = "invite" /\ v.on = on /\ v.about = about /\ v.code = None
        /\ v.new.role = role
    BY <2>2, <2>3, IdleIsIdle DEF Door!Request, Door!User
  <2>5. ShapedRequest(v)
    BY <2>3, <2>4 DEF ShapedRequest
  <2>6. StillTrue(v)
    BY <2>1, <2>4, Door!AccountConstants DEF StillTrue, Door!PendingFor,
       Door!AccountConstants
  <2> QED BY <2>1, <2>2, <2>4, <2>5, <2>6, BeginKeepsInv
<1>5. ASSUME NEW by \in People, NEW i \in Tasks, Door!BeginResend(r, by, i)
      PROVE  AccountsInv'
  <2>1. PICK v : v = [Door!Idle EXCEPT !.op = "resend", !.by = by, !.on = invite[i].to, !.about = i,
                                       !.was_revoked = invite[i].revoked]
    OBVIOUS
  <2>2. /\ v \in Door!Request /\ v.op = "resend" /\ v.on = invite[i].to /\ v.about = i
        /\ v.was_revoked = invite[i].revoked /\ v.code = None
    BY <1>1, <2>1, IdleIsIdle DEF Door!Request, AccountsTypes, Door!Invite
  <2>3. Door!Begin(r, v) /\ invite[i].to \in People /\ ~invite[i].used
    BY <1>1, <1>5, <2>1 DEF Door!BeginResend, AccountsTypes, Door!Invite
  <2>4. ShapedRequest(v)
    BY <2>2, <2>3 DEF ShapedRequest
  <2>5. crossed' \/ StillTrue(v)
    BY <1>5, <2>2, <2>3 DEF Door!Begin, StillTrue, Door!BeginResend
  <2> QED BY <2>2, <2>3, <2>4, <2>5, BeginKeepsInv
<1>6. ASSUME NEW by \in People, NEW i \in Tasks, Door!BeginRevoke(r, by, i)
      PROVE  AccountsInv'
  <2>1. PICK v : v = [Door!Idle EXCEPT !.op = "revoke", !.by = by, !.on = invite[i].to, !.about = i]
    OBVIOUS
  <2>2. /\ v \in Door!Request /\ v.op = "revoke" /\ v.on = invite[i].to /\ v.about = i
        /\ v.code = None
    BY <1>1, <2>1, IdleIsIdle DEF Door!Request, AccountsTypes, Door!Invite
  <2>3. Door!Begin(r, v) /\ invite[i].to \in People /\ ~invite[i].used
    BY <1>1, <1>6, <2>1 DEF Door!BeginRevoke, AccountsTypes, Door!Invite
  <2>4. ShapedRequest(v) /\ StillTrue(v)
    BY <1>6, <2>2, <2>3 DEF ShapedRequest, StillTrue, Door!BeginRevoke
  <2> QED BY <2>2, <2>3, <2>4, BeginKeepsInv
<1>7. ASSUME NEW p \in People, Door!BeginRegister(r, p)
      PROVE  AccountsInv'
  <2>1. PICK about \in IF setting.public THEN {None} ELSE Door!PendingFor(p),
             code \in {None} \union {s \in Secrets : Door!Code(s) /\ secret[s].of = p} :
          Door!Begin(r, [Door!Idle EXCEPT !.op = "register", !.on = p, !.about = about, !.code = code,
                           !.new = [role |-> IF about = None THEN "EMPLOYEE" ELSE invite[about].role,
                                    active |-> TRUE, verified |-> code # None]])
    BY <1>7 DEF Door!BeginRegister
  <2>2. PICK v : v = [Door!Idle EXCEPT !.op = "register", !.on = p, !.about = about, !.code = code,
                      !.new = [role |-> IF about = None THEN "EMPLOYEE" ELSE invite[about].role,
                               active |-> TRUE, verified |-> code # None]]
    OBVIOUS
  <2>3. about \in Tasks \union {None} /\ code \in Secrets \union {None}
    BY DEF Door!PendingFor
  <2>4. [role |-> IF about = None THEN "EMPLOYEE" ELSE invite[about].role,
         active |-> TRUE, verified |-> code # None] \in Door!User
    BY <1>1, <2>3 DEF Door!User, Door!Roles, AccountsTypes, Door!Invite
  <2>5. v \in Door!Request /\ v.op = "register" /\ v.on = p /\ v.about = about /\ v.code = code
    BY <2>2, <2>3, <2>4, IdleIsIdle DEF Door!Request
  <2>6. ShapedRequest(v)
    BY <2>3, <2>5 DEF ShapedRequest
  <2>7. StillTrue(v)
    <3>1. about # None => about \in Door!PendingFor(p)
      BY <2>1
    <3>2. code # None => Live(code)
      BY <2>1, Door!AccountConstants DEF Door!Code, Live, Door!AccountConstants
    <3> QED BY <2>5, <3>1, <3>2 DEF StillTrue
  <2> QED BY <2>1, <2>2, <2>5, <2>6, <2>7, BeginKeepsInv
<1>8. ASSUME NEW s \in Secrets, Door!BeginUse(r, s)
      PROVE  AccountsInv'
  <2>1. PICK v : v = [Door!Idle EXCEPT !.op = "use", !.on = secret[s].of, !.about = s,
                                       !.old = user[secret[s].of]]
    OBVIOUS
  <2>2. secret[s].of \in People /\ Live(s) /\ Door!Begin(r, v)
    BY <1>1, <1>8, <2>1 DEF Door!BeginUse, AccountsTypes, Door!Secret, Live
  <2>3. /\ v \in Door!Request /\ v.op = "use" /\ v.on = secret[s].of /\ v.about = s
        /\ v.code = None
    BY <1>1, <2>1, <2>2, IdleIsIdle DEF Door!Request, AccountsTypes
  <2>4. ShapedRequest(v) /\ StillTrue(v)
    BY <2>2, <2>3 DEF ShapedRequest, StillTrue
  <2> QED BY <2>2, <2>3, <2>4, BeginKeepsInv
<1> QED BY <1>2, <1>3, <1>4, <1>5, <1>6, <1>7, <1>8 DEF Door!Ask

----------------------------------------------------------------------------
\* The end of a request

\* What Finish leaves to be shown of a step.
LEMMA FinishEnds ==
    ASSUME AccountsInv, NEW r \in Requests, Door!Finish(r), AccountsTypes', Door!AdminRemains',
           ~crossed /\ OnceOK => OnceOK'
    PROVE  AccountsInv'
<1>1. \A q \in Requests : ShapedRequest(accountRequest'[q])
  BY EndedKeeps DEF AccountsInv, Door!Finish, RequestEnds
<1>2. crossed' \/ OnceOK'
  BY DEF AccountsInv, Door!Finish
<1> QED BY <1>1, <1>2 DEF AccountsInv

LEMMA FinishTyped ==
    ASSUME AccountsTypes, NEW r \in Requests, Door!Finish(r),
           \A q \in Requests : ShapedRequest(accountRequest[q])
    PROVE  /\ accountRequest' \in [Requests -> Door!Request] /\ made' \in Nat
           /\ setting' \in [stateless : BOOLEAN, public : BOOLEAN]
           /\ outlived' \in BOOLEAN /\ crossed' \in BOOLEAN /\ crossed' = crossed
           /\ RequestEnds(r) /\ (outlived => outlived')
<1>1. RequestEnds(r)
  BY DEF Door!Finish, RequestEnds
<1> QED BY <1>1, EndedKeeps DEF AccountsTypes, Door!Finish

LEMMA CommitUpdateKeepsInv ==
    ASSUME Door!AccountConstants, AccountsInv, NEW r \in Requests, Door!CommitUpdate(r)
    PROVE  AccountsInv'
<1>1. AccountsTypes /\ \A q \in Requests : ShapedRequest(accountRequest[q])
  BY DEF AccountsInv
<1>2. PICK v \in Door!Request : v = accountRequest[r] /\ ShapedRequest(v)
  BY <1>1 DEF AccountsTypes
<1>3. /\ v.op = "update" /\ v.by \in People /\ v.on \in People /\ v.old \in Door!User /\ v.new \in Door!User
      /\ Door!Finish(r) /\ UNCHANGED <<token, invite, secret, uses>>
  BY <1>2 DEF Door!CommitUpdate, ShapedRequest, Door!Request
<1>4. PICK u \in Door!User : u = user[v.on]
  BY <1>1, <1>3 DEF AccountsTypes
<1>5. PICK w : w = [c \in DOMAIN u |-> Door!Written(c, v.old, v.new, u)]
  OBVIOUS
<1>6. /\ w \in Door!User
      /\ w.role = IF v.new.role # v.old.role THEN v.new.role ELSE u.role
      /\ w.active = IF v.new.active # v.old.active THEN v.new.active ELSE u.active
  <2>1. DOMAIN u = {"role", "active", "verified"}
    BY DEF Door!User
  <2>2. w = [c \in {"role", "active", "verified"} |->
               IF v.new[c] # v.old[c] THEN v.new[c] ELSE u[c]]
    BY <1>5, <2>1 DEF Door!Written
  <2>3. PICK x \in Door!User :
          /\ x.role = IF v.new.role # v.old.role THEN v.new.role ELSE u.role
          /\ x.active = IF v.new.active # v.old.active THEN v.new.active ELSE u.active
          /\ x.verified = IF v.new.verified # v.old.verified THEN v.new.verified ELSE u.verified
    <3> DEFINE x == [role |-> IF v.new.role # v.old.role THEN v.new.role ELSE u.role,
                     active |-> IF v.new.active # v.old.active THEN v.new.active ELSE u.active,
                     verified |-> IF v.new.verified # v.old.verified THEN v.new.verified
                                  ELSE u.verified]
    <3>1. x \in Door!User
      BY <1>3, <1>4 DEF Door!User
    <3> QED BY <3>1
  <2>4. /\ x["role"] = IF v.new["role"] # v.old["role"] THEN v.new["role"] ELSE u["role"]
        /\ x["active"] = IF v.new["active"] # v.old["active"] THEN v.new["active"] ELSE u["active"]
        /\ x["verified"] = IF v.new["verified"] # v.old["verified"] THEN v.new["verified"]
                           ELSE u["verified"]
    BY <1>3, <2>3 DEF Door!User
  <2>5. x = [c \in {"role", "active", "verified"} |-> x[c]]
    BY <2>3 DEF Door!User
  <2>6. \A c \in {"role", "active", "verified"} :
          x[c] = IF v.new[c] # v.old[c] THEN v.new[c] ELSE u[c]
    BY <2>4
  <2>7. x = w
    BY <2>2, <2>5, <2>6
  <2> QED BY <2>3, <2>7
<1>7. user' = IF ~Door!Exists(v.on) THEN user ELSE [user EXCEPT ![v.on] = w]
  <2>1. user' = IF ~Door!Exists(v.on) THEN user
                ELSE [user EXCEPT ![v.on] = [c \in DOMAIN user[v.on] |->
                                               Door!Written(c, v.old, v.new, user[v.on])]]
    BY <1>2, <1>3 DEF Door!CommitUpdate
  <2> QED BY <1>4, <1>5, <2>1
<1>8. AccountsTypes'
  BY <1>1, <1>3, <1>6, <1>7, FinishTyped DEF AccountsTypes
<1>9. Door!AdminRemains'
  <2> SUFFICES ASSUME ~outlived' PROVE \E p \in People : Door!Administers(p)'
    BY DEF Door!AdminRemains
  <2>1. Door!Administers(v.by)
    BY <1>2, <1>3, Door!AccountConstants DEF Door!Finish, Door!AccountConstants
  <2>2. CASE v.by # v.on
    BY <1>1, <1>3, <1>7, <2>1, <2>2 DEF Door!Administers, AccountsTypes
  <2>3. CASE v.by = v.on
    <3>1. v.new.role = "ADMIN" /\ (v.new.active \/ ~v.old.active)
      BY <1>2, <1>3, <2>3 DEF ShapedRequest
    <3>2. u.role = "ADMIN" /\ u.active
      BY <1>4, <2>1, <2>3 DEF Door!Administers
    <3>3. v.new.active \in BOOLEAN /\ v.old.active \in BOOLEAN
      BY <1>3 DEF Door!User
    <3>4. w.role = "ADMIN" /\ w.active
      BY <1>6, <3>1, <3>2, <3>3
    <3>5. user'[v.on] \in {u, w}
      BY <1>1, <1>3, <1>4, <1>7 DEF AccountsTypes
    <3> QED BY <1>3, <3>2, <3>4, <3>5 DEF Door!Administers
  <2> QED BY <2>2, <2>3
<1>10. ~crossed /\ OnceOK => OnceOK'
  BY <1>1, <1>3, FinishTyped, EndedOnce DEF SameOutside
<1> QED BY <1>3, <1>8, <1>9, <1>10, FinishEnds

LEMMA CommitDeleteKeepsInv ==
    ASSUME Door!AccountConstants, AccountsInv, NEW r \in Requests, Door!CommitDelete(r)
    PROVE  AccountsInv'
<1>1. AccountsTypes /\ \A q \in Requests : ShapedRequest(accountRequest[q])
  BY DEF AccountsInv
<1>2. PICK v \in Door!Request : v = accountRequest[r] /\ ShapedRequest(v)
  BY <1>1 DEF AccountsTypes
<1>3. /\ v.op = "delete" /\ v.by \in People /\ v.on \in People /\ v.by # v.on
      /\ user' = [user EXCEPT ![v.on] = Door!Absent]
      /\ Door!Finish(r) /\ UNCHANGED <<token, invite, secret, uses>>
  BY <1>2 DEF Door!CommitDelete, ShapedRequest
<1>4. AccountsTypes'
  BY <1>1, <1>3, FinishTyped, IdleIsIdle DEF AccountsTypes
<1>5. Door!AdminRemains'
  <2> SUFFICES ASSUME ~outlived' PROVE \E p \in People : Door!Administers(p)'
    BY DEF Door!AdminRemains
  <2>1. Door!Administers(v.by)
    BY <1>2, <1>3, Door!AccountConstants DEF Door!Finish, Door!AccountConstants
  <2> QED BY <1>1, <1>3, <2>1 DEF Door!Administers, AccountsTypes
<1>6. ~crossed /\ OnceOK => OnceOK'
  BY <1>1, <1>3, FinishTyped, EndedOnce DEF SameOutside
<1> QED BY <1>3, <1>4, <1>5, <1>6, FinishEnds

LEMMA FailKeepsInv ==
    ASSUME Door!AccountConstants, AccountsInv, NEW r \in Requests, Door!Fail(r)
    PROVE  AccountsInv'
<1>1. AccountsTypes /\ \A q \in Requests : ShapedRequest(accountRequest[q])
  BY DEF AccountsInv
<1>2. /\ RequestEnds(r)
      /\ UNCHANGED <<setting, user, token, invite, secret, made, uses, outlived, crossed>>
  BY DEF Door!Fail, RequestEnds
<1>3. AccountsTypes' /\ \A q \in Requests : ShapedRequest(accountRequest'[q])
  BY <1>1, <1>2, EndedKeeps DEF AccountsTypes
<1>4. Door!AdminRemains'
  BY <1>2, AdminStaysWhere DEF AccountsInv, Door!Administers
<1>5. crossed' \/ OnceOK'
  BY <1>1, <1>2, EndedOnce DEF AccountsInv, SameOutside
<1> QED BY <1>3, <1>4, <1>5 DEF AccountsInv

LEMMA CommitResendKeepsInv ==
    ASSUME Door!AccountConstants, AccountsInv, NEW r \in Requests, Door!CommitResend(r)
    PROVE  AccountsInv'
<1>1. AccountsTypes /\ \A q \in Requests : ShapedRequest(accountRequest[q])
  BY DEF AccountsInv
<1>2. PICK v \in Door!Request : v = accountRequest[r] /\ ShapedRequest(v)
  BY <1>1 DEF AccountsTypes
<1>3. PICK b : b = IF v.was_revoked THEN FALSE ELSE invite[v.about].revoked
  OBVIOUS
<1>4. /\ v.op = "resend" /\ v.about \in Tasks
      /\ invite' = [invite EXCEPT ![v.about].revoked = b]
      /\ Door!Finish(r) /\ UNCHANGED <<user, token, secret, uses>>
  BY <1>1, <1>2, <1>3 DEF Door!CommitResend, ShapedRequest, AccountsTypes
<1>5. b \in BOOLEAN /\ invite[v.about] \in Door!Invite
  BY <1>1, <1>3, <1>4 DEF AccountsTypes, Door!Invite
<1>6. AccountsTypes'
  <2>1. invite' \in [Tasks -> Door!Invite]
    BY <1>1, <1>4, <1>5 DEF AccountsTypes, Door!Invite
  <2> QED BY <1>1, <1>4, <2>1, FinishTyped DEF AccountsTypes
<1>7. Door!AdminRemains'
  BY <1>1, <1>4, FinishTyped, AdminStaysWhere DEF AccountsInv, Door!Administers
<1>8. ASSUME ~crossed, OnceOK PROVE OnceOK'
  <2>1. ~v.was_revoked
    BY <1>2, <1>4, <1>8 DEF OnceOK, StillTrue
  <2>2. SameOutside
    BY <1>1, <1>3, <1>4, <1>5, <2>1 DEF SameOutside, AccountsTypes, Door!Invite
  <2> QED BY <1>1, <1>4, <1>8, <2>2, FinishTyped, EndedOnce
<1> QED BY <1>4, <1>6, <1>7, <1>8, FinishEnds

LEMMA CommitRevokeKeepsInv ==
    ASSUME Door!AccountConstants, AccountsInv, NEW r \in Requests, Door!CommitRevoke(r)
    PROVE  AccountsInv'
<1>1. AccountsTypes /\ \A q \in Requests : ShapedRequest(accountRequest[q])
  BY DEF AccountsInv
<1>2. PICK v \in Door!Request : v = accountRequest[r] /\ ShapedRequest(v)
  BY <1>1 DEF AccountsTypes
<1>3. PICK i \in Tasks : i = v.about
  BY <1>2 DEF Door!CommitRevoke, ShapedRequest
<1>4. /\ v.op = "revoke"
      /\ invite' = [invite EXCEPT ![i].revoked = TRUE]
      /\ Door!Finish(r) /\ UNCHANGED <<user, token, secret, uses>>
  BY <1>1, <1>2, <1>3 DEF Door!CommitRevoke
<1>5. AccountsTypes'
  <2>1. invite' \in [Tasks -> Door!Invite]
    BY <1>1, <1>4 DEF AccountsTypes, Door!Invite
  <2> QED BY <1>1, <1>4, <2>1, FinishTyped DEF AccountsTypes
<1>6. Door!AdminRemains'
  BY <1>1, <1>4, FinishTyped, AdminStaysWhere DEF AccountsInv, Door!Administers
<1>7. ASSUME ~crossed, OnceOK PROVE OnceOK'
  <2>1. /\ \A j \in Tasks : /\ invite'[j].to = invite[j].to
                            /\ invite'[j].used = invite[j].used
                            /\ invite'[j].revoked = (invite[j].revoked \/ j = i)
    BY <1>1, <1>4 DEF AccountsTypes, Door!Invite
  <2>2. invite[i].to # None /\ ~invite[i].used
    BY <1>2, <1>3, <1>4, <1>7 DEF OnceOK, StillTrue
  <2>3. \A p \in People : Door!PendingFor(p)' = Door!PendingFor(p) \ {i}
    BY <2>1 DEF Door!PendingFor, Door!Pending
  <2>4. InvitationsOK'
    <3>1. \A j \in Tasks : /\ invite'[j].to = None => ~invite'[j].used /\ ~invite'[j].revoked
                           /\ ~(invite'[j].used /\ invite'[j].revoked)
                           /\ uses'[j] = 0 \/ (uses'[j] = 1 /\ invite'[j].used)
      BY <1>4, <1>7, <2>1, <2>2 DEF OnceOK, InvitationsOK
    <3>2. \A p \in People : \A j, k \in Door!PendingFor(p)' : j = k
      BY <1>7, <2>3 DEF OnceOK, InvitationsOK
    <3> QED BY <3>1, <3>2 DEF InvitationsOK
  <2>5. SecretsOK'
    BY <1>4, <1>7 DEF OnceOK, SecretsOK
  <2>6. AloneAbout'
    BY <1>1, <1>4, <1>7, FinishTyped, EndedKeeps DEF OnceOK
  <2>7. ASSUME NEW q \in Requests PROVE StillTrue(accountRequest[q])'
    <3>1. CASE q = r
      <4>1. accountRequest'[q] = Door!Idle
        BY <1>1, <1>4, <3>1, FinishTyped, EndedKeeps
      <4>2. StillTrue(Door!Idle)'
        BY IdleIsIdle DEF StillTrue
      <4> QED BY <4>1, <4>2 DEF StillTrue
    <3>2. CASE q # r
      <4>1. PICK w \in Door!Request : w = accountRequest'[q] /\ w = accountRequest[q] /\ StillTrue(w) /\ ShapedRequest(w)
        BY <1>1, <1>4, <1>7, <3>2, FinishTyped, EndedKeeps DEF OnceOK, AccountsTypes
      <4>2. w.op \in {"invite", "register"} => w.about # i
        BY <1>2, <1>3, <1>4, <1>7, <3>2, <4>1, Door!AccountConstants
           DEF OnceOK, AloneAbout, Busy, Concerns, Door!AccountConstants
      <4>3. w.op \in {"invite", "register"} => Door!PendingFor(w.on)' = Door!PendingFor(w.on) \ {i}
        BY <2>3, <4>1 DEF ShapedRequest
      <4>4. StillTrue(w)'
        BY <1>4, <2>1, <4>1, <4>2, <4>3 DEF StillTrue, Live, ShapedRequest
      <4> QED BY <4>1, <4>4 DEF StillTrue
    <3> QED BY <3>1, <3>2
  <2> QED BY <2>4, <2>5, <2>6, <2>7 DEF OnceOK
<1> QED BY <1>4, <1>5, <1>6, <1>7, FinishEnds

LEMMA LoginKeepsInv ==
    ASSUME Door!AccountConstants, AccountsInv, NEW p \in People, Door!Login(p)
    PROVE  AccountsInv'
<1>1. AccountsTypes /\ \A q \in Requests : ShapedRequest(accountRequest[q])
  BY DEF AccountsInv
<1>2. /\ token' = [token EXCEPT ![p] = user[p].role] /\ user[p].role \in Door!Roles \union {"none"}
      /\ UNCHANGED <<setting, user, invite, secret, accountRequest, made, uses, outlived, crossed>>
  BY <1>1 DEF Door!Login, AccountsTypes, Door!User
<1>3. AccountsTypes'
  BY <1>1, <1>2 DEF AccountsTypes
<1>4. Door!AdminRemains'
  BY <1>2, AdminStaysWhere DEF AccountsInv, Door!Administers
<1>5. ASSUME ~crossed, OnceOK PROVE OnceOK'
  <2>1. SameOutside
    BY <1>2 DEF SameOutside
  <2>2. AloneAbout' /\ InvitationsOK' /\ SecretsOK'
    BY <1>2, <1>5, <2>1, SameInvitations DEF OnceOK, AloneAbout
  <2>3. \A q \in Requests : StillTrue(accountRequest[q])'
    BY <1>1, <1>2, <1>5, <2>1, SameTrue DEF OnceOK
  <2> QED BY <2>2, <2>3 DEF OnceOK
<1> QED BY <1>1, <1>2, <1>3, <1>4, <1>5 DEF AccountsInv

LEMMA CreateKeepsInv ==
    ASSUME Door!AccountConstants, AccountsInv, NEW s \in Secrets,
           NEW sort \in {"code", "reset", "oauth"}, NEW p \in People, Door!CreateSecret(s, sort, p)
    PROVE  AccountsInv'
<1>1. AccountsTypes /\ \A q \in Requests : ShapedRequest(accountRequest[q])
  BY DEF AccountsInv
<1>2. /\ secret' = [secret EXCEPT ![s] = [kind |-> sort, of |-> p, consumed |-> FALSE]]
      /\ secret[s].of = None
      /\ UNCHANGED <<setting, user, token, invite, accountRequest, made, uses, outlived, crossed>>
  BY DEF Door!CreateSecret
<1>3. AccountsTypes'
  <2>1. [kind |-> sort, of |-> p, consumed |-> FALSE] \in Door!Secret
    BY DEF Door!Secret
  <2> QED BY <1>1, <1>2, <2>1 DEF AccountsTypes
<1>4. Door!AdminRemains'
  BY <1>2, AdminStaysWhere DEF AccountsInv, Door!Administers
<1>5. ASSUME ~crossed, OnceOK PROVE OnceOK'
  <2>1. p # None
    BY Door!AccountConstants DEF Door!AccountConstants
  <2>2. /\ \A x \in Secrets : x # s => secret'[x] = secret[x]
        /\ secret'[s].of = p /\ ~secret'[s].consumed
    BY <1>1, <1>2 DEF AccountsTypes
  <2>3. SecretsOK'
    BY <1>2, <1>5, <2>1, <2>2 DEF OnceOK, SecretsOK
  <2>4. AloneAbout' /\ InvitationsOK'
    <3>1. \A x \in People : Door!PendingFor(x)' = Door!PendingFor(x)
      BY <1>2, SamePending
    <3> QED BY <1>2, <1>5, <3>1 DEF OnceOK, AloneAbout, InvitationsOK
  <2>5. ASSUME NEW q \in Requests PROVE StillTrue(accountRequest[q])'
    <3>1. PICK w : w = accountRequest[q] /\ StillTrue(w) /\ ShapedRequest(w) /\ w = accountRequest'[q]
      BY <1>1, <1>2, <1>5 DEF OnceOK
    <3>2. Door!PendingFor(w.on)' = Door!PendingFor(w.on)
      BY <1>2, SamePending
    <3>3. \A x \in Secrets : Live(x) => Live(x)'
      BY <1>2, <2>2 DEF Live
    <3>4. StillTrue(w)'
      BY <1>2, <3>1, <3>2, <3>3 DEF StillTrue, ShapedRequest
    <3> QED BY <3>1, <3>4 DEF StillTrue
  <2> QED BY <2>3, <2>4, <2>5 DEF OnceOK
<1> QED BY <1>1, <1>2, <1>3, <1>4, <1>5 DEF AccountsInv

\* An invitation is sent again or for the first time.
LEMMA CommitInviteKeepsInv ==
    ASSUME Door!AccountConstants, AccountsInv, NEW r \in Requests, Door!CommitInvite(r)
    PROVE  AccountsInv'
<1>1. AccountsTypes /\ \A q \in Requests : ShapedRequest(accountRequest[q])
  BY DEF AccountsInv
<1>2. PICK v \in Door!Request : v = accountRequest[r] /\ ShapedRequest(v)
  BY <1>1 DEF AccountsTypes
<1>3. PICK i \in Tasks :
        /\ IF v.about # None THEN i = v.about ELSE invite[i].to = None
        /\ invite' = [invite EXCEPT ![i] = [@ EXCEPT !.to = v.on, !.role = v.new.role]]
  <2>1. PICK i \in IF v.about # None THEN {v.about}
                  ELSE {j \in Tasks : invite[j].to = None} :
           invite' = [invite EXCEPT ![i] = [@ EXCEPT !.to = v.on, !.role = v.new.role]]
    BY <1>2 DEF Door!CommitInvite
  <2>2. v.about \in Tasks \union {None}
    BY <1>2 DEF Door!CommitInvite, ShapedRequest
  <2>3. CASE v.about # None
    BY <2>1, <2>2, <2>3
  <2>4. CASE v.about = None
    BY <2>1, <2>4
  <2> QED BY <2>3, <2>4
<1>4. /\ v.op = "invite" /\ v.on \in People /\ v.about \in Tasks \union {None}
      /\ Door!Finish(r) /\ UNCHANGED <<user, token, secret, uses>>
  BY <1>2 DEF Door!CommitInvite, ShapedRequest
<1>5. AccountsTypes'
  <2>1. invite' \in [Tasks -> Door!Invite]
    <3>1. v.new.role \in Door!Roles
      BY <1>2, <1>4 DEF ShapedRequest
    <3>2. PICK x : x = [invite[i] EXCEPT !.to = v.on, !.role = v.new.role]
      OBVIOUS
    <3>3. x \in Door!Invite
      BY <1>1, <1>4, <3>1, <3>2 DEF AccountsTypes, Door!Invite
    <3>4. invite' = [invite EXCEPT ![i] = x]
      BY <1>3, <3>2
    <3> QED BY <1>1, <3>3, <3>4 DEF AccountsTypes
  <2> QED BY <1>1, <1>4, <2>1, FinishTyped DEF AccountsTypes
<1>6. Door!AdminRemains'
  BY <1>1, <1>4, FinishTyped, AdminStaysWhere DEF AccountsInv, Door!Administers
<1>7. ASSUME ~crossed, OnceOK PROVE OnceOK'
  <2>1. /\ \A j \in Tasks : /\ invite'[j].to = IF j = i THEN v.on ELSE invite[j].to
                            /\ invite'[j].used = invite[j].used
                            /\ invite'[j].revoked = invite[j].revoked
    BY <1>1, <1>3 DEF AccountsTypes, Door!Invite
  <2>2. StillTrue(v)
    BY <1>2, <1>7 DEF OnceOK
  <2>3. CASE v.about # None
    <3>1. i = v.about /\ invite[i].to = v.on
      BY <1>3, <1>4, <2>2, <2>3 DEF StillTrue, Door!PendingFor
    <3>2. SameOutside
      BY <1>4, <2>1, <3>1 DEF SameOutside
    <3> QED BY <1>1, <1>4, <1>7, <3>2, FinishTyped, EndedOnce
  <2>4. CASE v.about = None
    <3>1. invite[i].to = None /\ ~invite[i].used /\ ~invite[i].revoked
      BY <1>3, <1>7, <2>4 DEF OnceOK, InvitationsOK
    <3>2. v.on # None /\ Door!PendingFor(v.on) = {}
      BY <1>4, <2>2, <2>4, Door!AccountConstants DEF StillTrue, Door!AccountConstants
    <3>3. Door!PendingFor(v.on)' = {i}
      BY <2>1, <3>1, <3>2 DEF Door!PendingFor, Door!Pending
    <3>4. \A p : p # v.on /\ p # None => Door!PendingFor(p)' = Door!PendingFor(p)
      BY <2>1, <3>1 DEF Door!PendingFor, Door!Pending
    <3>5. \A p \in People : p # None
      BY Door!AccountConstants DEF Door!AccountConstants
    <3>6. InvitationsOK'
      <4>1. \A j \in Tasks : /\ invite'[j].to = None => ~invite'[j].used /\ ~invite'[j].revoked
                             /\ ~(invite'[j].used /\ invite'[j].revoked)
                             /\ uses'[j] = 0 \/ (uses'[j] = 1 /\ invite'[j].used)
        BY <1>4, <1>7, <2>1, <3>1 DEF OnceOK, InvitationsOK
      <4>2. \A p \in People : \A j, k \in Door!PendingFor(p)' : j = k
        BY <1>7, <3>3, <3>4, <3>5 DEF OnceOK, InvitationsOK
      <4> QED BY <4>1, <4>2 DEF InvitationsOK
    <3>7. SecretsOK'
      BY <1>4, <1>7 DEF OnceOK, SecretsOK
    <3>8. AloneAbout'
      BY <1>1, <1>4, <1>7, FinishTyped, EndedKeeps DEF OnceOK
    <3>9. ASSUME NEW q \in Requests PROVE StillTrue(accountRequest[q])'
      <4>1. CASE q = r
        <5>1. accountRequest'[q] = Door!Idle
          BY <1>1, <1>4, <4>1, FinishTyped, EndedKeeps
        <5>2. StillTrue(Door!Idle)'
          BY IdleIsIdle DEF StillTrue
        <5> QED BY <5>1, <5>2 DEF StillTrue
      <4>2. CASE q # r
        <5>1. PICK w \in Door!Request : w = accountRequest'[q] /\ w = accountRequest[q] /\ StillTrue(w) /\ ShapedRequest(w)
          BY <1>1, <1>4, <1>7, <4>2, FinishTyped, EndedKeeps DEF OnceOK, AccountsTypes
        <5>2. w.op \in {"invite", "register"} => w.on # v.on
          BY <1>2, <1>4, <1>7, <4>2, <5>1 DEF OnceOK, AloneAbout, Busy
        <5>3. w.op \in {"invite", "register"} => Door!PendingFor(w.on)' = Door!PendingFor(w.on)
          BY <3>4, <3>5, <5>1, <5>2 DEF ShapedRequest
        <5>4. \A j \in Tasks : /\ invite[j].to # None => invite'[j].to # None
                               /\ invite'[j].used = invite[j].used
          BY <2>1, <3>2
        <5>5. StillTrue(w)'
          <6>1. CASE w.op = "invite"
            BY <5>1, <5>3, <6>1 DEF StillTrue
          <6>2. CASE w.op = "register"
            BY <1>4, <5>1, <5>3, <6>2 DEF StillTrue, Live
          <6>3. CASE w.op \notin {"invite", "register"}
            BY <1>4, <5>1, <5>4, <6>3 DEF StillTrue, Live, ShapedRequest
          <6> QED BY <6>1, <6>2, <6>3
        <5> QED BY <5>1, <5>5 DEF StillTrue
      <4> QED BY <4>1, <4>2
    <3> QED BY <3>6, <3>7, <3>8, <3>9 DEF OnceOK
  <2> QED BY <2>3, <2>4
<1> QED BY <1>4, <1>5, <1>6, <1>7, FinishEnds

\* What a registration or the use of a secret does to what it is about.
Spends(v) ==
    /\ \A i \in Tasks : /\ invite'[i].to = invite[i].to
                        /\ IF i = v.about THEN invite'[i].used
                           ELSE invite'[i].used = invite[i].used
                        /\ invite'[i].revoked = invite[i].revoked
    /\ \A s \in Secrets :
          IF s \in {v.about, v.code} THEN secret'[s].of = secret[s].of /\ secret'[s].consumed
          ELSE secret[s].of # None => secret'[s] = secret[s]
    /\ \A x \in Tasks \union Secrets :
          uses'[x] = IF x \in {v.about, v.code} THEN uses[x] + 1 ELSE uses[x]

LEMMA SpentOnce ==
    ASSUME Door!AccountConstants, AccountsTypes, OnceOK, NEW r \in Requests, RequestEnds(r),
           \A q \in Requests : ShapedRequest(accountRequest[q]),
           NEW v, v = accountRequest[r], v.op \in {"register", "use"}, Spends(v)
    PROVE  OnceOK'
<1>1. ShapedRequest(v) /\ StillTrue(v) /\ None \notin Tasks \union Secrets
  BY DEF OnceOK, Door!AccountConstants
<1>2. /\ \A i \in Tasks : i = v.about => v.op = "register" /\ i \in Door!PendingFor(v.on)
      /\ \A s \in Secrets : s \in {v.about, v.code} => Live(s)
      /\ \A i \in Tasks : i # v.code
  <2>1. v.code \in Secrets \union {None} /\ (v.code # None => v.op = "register")
    BY <1>1 DEF ShapedRequest
  <2>2. CASE v.op = "register"
    BY <1>1, <2>1, <2>2, Door!AccountConstants DEF ShapedRequest, StillTrue,
       Door!AccountConstants
  <2>3. CASE v.op = "use"
    BY <1>1, <2>1, <2>3, Door!AccountConstants DEF ShapedRequest, StillTrue,
       Door!AccountConstants
  <2> QED BY <2>1, <2>2, <2>3, Door!AccountConstants DEF Door!AccountConstants
<1>3. \A p : Door!PendingFor(p)' = Door!PendingFor(p) \ {v.about}
  <2>1. \A i \in Tasks : /\ Door!Pending(i)' <=> Door!Pending(i) /\ i # v.about
                         /\ invite'[i].to = invite[i].to
    BY DEF Door!Pending, Spends
  <2> QED BY <2>1 DEF Door!PendingFor
<1>4. InvitationsOK'
  <2>1. ASSUME NEW j \in Tasks
        PROVE  /\ invite'[j].to = None => ~invite'[j].used /\ ~invite'[j].revoked
               /\ ~(invite'[j].used /\ invite'[j].revoked)
               /\ uses'[j] = 0 \/ (uses'[j] = 1 /\ invite'[j].used)
    <3>1. /\ invite[j].to = None => ~invite[j].used /\ ~invite[j].revoked
          /\ ~(invite[j].used /\ invite[j].revoked)
          /\ uses[j] = 0 \/ (uses[j] = 1 /\ invite[j].used)
      BY DEF OnceOK, InvitationsOK
    <3>2. j = v.about => invite[j].to # None /\ ~invite[j].used /\ ~invite[j].revoked
      BY <1>2 DEF Door!PendingFor, Door!Pending
    <3>3. invite[j].used \in BOOLEAN /\ invite[j].revoked \in BOOLEAN
      BY DEF AccountsTypes, Door!Invite
    <3>4. /\ invite'[j].to = invite[j].to
          /\ IF j = v.about THEN invite'[j].used ELSE invite'[j].used = invite[j].used
          /\ invite'[j].revoked = invite[j].revoked
          /\ uses'[j] = IF j = v.about THEN uses[j] + 1 ELSE uses[j]
      BY <1>2 DEF Spends
    <3>5. CASE j = v.about
      BY <3>1, <3>2, <3>3, <3>4, <3>5
    <3>6. CASE j # v.about
      BY <3>1, <3>3, <3>4, <3>6
    <3> QED BY <3>5, <3>6
  <2>2. \A p \in People : \A j, k \in Door!PendingFor(p)' : j = k
    BY <1>3 DEF OnceOK, InvitationsOK
  <2> QED BY <2>1, <2>2 DEF InvitationsOK
<1>5. SecretsOK'
  <2> SUFFICES ASSUME NEW s \in Secrets
               PROVE  uses'[s] = 0 \/ (uses'[s] = 1 /\ secret'[s].consumed /\ secret'[s].of # None)
    BY DEF SecretsOK
  <2>1. uses[s] = 0 \/ (uses[s] = 1 /\ secret[s].consumed /\ secret[s].of # None)
    BY DEF OnceOK, SecretsOK
  <2>2. CASE s \in {v.about, v.code}
    BY <1>2, <2>1, <2>2 DEF Spends, Live
  <2>3. CASE s \notin {v.about, v.code}
    BY <2>1, <2>3 DEF Spends
  <2> QED BY <2>2, <2>3
<1>6. AloneAbout'
  BY EndedKeeps DEF OnceOK
<1>7. ASSUME NEW q \in Requests PROVE StillTrue(accountRequest[q])'
  <2>1. CASE q = r
    <3>1. accountRequest'[q] = Door!Idle
      BY <2>1, EndedKeeps
    <3>2. StillTrue(Door!Idle)'
      BY IdleIsIdle DEF StillTrue
    <3> QED BY <3>1, <3>2 DEF StillTrue
  <2>2. CASE q # r
    <3>1. PICK w : w = accountRequest'[q] /\ w = accountRequest[q] /\ StillTrue(w) /\ ShapedRequest(w)
      BY <2>2, EndedKeeps DEF OnceOK
    <3>2. Busy(w) => Concerns(w) \intersect Concerns(v) = {}
      BY <2>2, <3>1 DEF OnceOK, AloneAbout, Busy
    <3>3. \A x \in Tasks \union Secrets :
            Busy(w) /\ x \in {w.about, w.code} => x \notin {v.about, v.code}
      BY <1>1, <3>2 DEF Concerns
    <3>4. Door!PendingFor(w.on)' = Door!PendingFor(w.on) \ {v.about}
      BY <1>3
    <3>5. \A s \in Secrets : Busy(w) /\ s \in {w.about, w.code} /\ Live(s) => Live(s)'
      BY <3>3 DEF Spends, Live
    <3>6. \A i \in Tasks : Busy(w) /\ i = w.about =>
             /\ invite'[i].to = invite[i].to /\ invite'[i].used = invite[i].used
             /\ i # v.about
      BY <3>3 DEF Spends
    <3>7. StillTrue(w)'
      <4>1. CASE w.op = "invite"
        BY <3>1, <3>4, <3>6, <4>1 DEF StillTrue, Busy, ShapedRequest
      <4>2. CASE w.op = "register"
        BY <3>1, <3>4, <3>5, <3>6, <4>2 DEF StillTrue, Busy, ShapedRequest
      <4>3. CASE w.op \in {"resend", "revoke"}
        BY <3>1, <3>6, <4>3 DEF StillTrue, Busy, ShapedRequest
      <4>4. CASE w.op = "use"
        BY <3>1, <3>5, <4>4 DEF StillTrue, Busy, ShapedRequest
      <4>5. CASE w.op \notin {"invite", "register", "resend", "revoke", "use"}
        BY <4>5 DEF StillTrue
      <4> QED BY <4>1, <4>2, <4>3, <4>4, <4>5
    <3> QED BY <3>1, <3>7 DEF StillTrue
  <2> QED BY <2>1, <2>2
<1> QED BY <1>4, <1>5, <1>6, <1>7 DEF OnceOK

\* A secret that is consumed and an invitation that is used.
LEMMA ConsumedRow ==
    ASSUME AccountsTypes, NEW s \in Secrets, secret' = [secret EXCEPT ![s].consumed = TRUE]
    PROVE  /\ secret' \in [Secrets -> Door!Secret]
           /\ \A x \in Secrets :
                 IF x = s THEN secret'[x].of = secret[x].of /\ secret'[x].consumed
                 ELSE secret'[x] = secret[x]
<1>1. PICK y : y = [secret[s] EXCEPT !.consumed = TRUE]
  OBVIOUS
<1>2. secret[s] \in Door!Secret
  BY DEF AccountsTypes
<1>3. y \in Door!Secret /\ y.of = secret[s].of /\ y.consumed
  BY <1>1, <1>2 DEF Door!Secret
<1>4. secret' = [secret EXCEPT ![s] = y]
  BY <1>1
<1> QED BY <1>3, <1>4 DEF AccountsTypes

LEMMA UsedRow ==
    ASSUME AccountsTypes, NEW i \in Tasks, invite' = [invite EXCEPT ![i].used = TRUE]
    PROVE  /\ invite' \in [Tasks -> Door!Invite]
           /\ \A j \in Tasks : /\ invite'[j].to = invite[j].to
                               /\ IF j = i THEN invite'[j].used
                                  ELSE invite'[j].used = invite[j].used
                               /\ invite'[j].revoked = invite[j].revoked
<1>1. PICK y : y = [invite[i] EXCEPT !.used = TRUE]
  OBVIOUS
<1>2. invite[i] \in Door!Invite
  BY DEF AccountsTypes
<1>3. y \in Door!Invite /\ y.to = invite[i].to /\ y.used /\ y.revoked = invite[i].revoked
  BY <1>1, <1>2 DEF Door!Invite
<1>4. invite' = [invite EXCEPT ![i] = y]
  BY <1>1
<1> QED BY <1>3, <1>4 DEF AccountsTypes

LEMMA CommitRegisterKeepsInv ==
    ASSUME Door!AccountConstants, AccountsInv, NEW r \in Requests, Door!CommitRegister(r)
    PROVE  AccountsInv'
<1>1. AccountsTypes /\ \A q \in Requests : ShapedRequest(accountRequest[q])
  BY DEF AccountsInv
<1>2. PICK v \in Door!Request : v = accountRequest[r] /\ ShapedRequest(v)
  BY <1>1 DEF AccountsTypes
<1>3. /\ v.op = "register" /\ v.on \in People /\ v.new \in Door!User
      /\ v.about \in Tasks \union {None} /\ v.code \in Secrets \union {None}
      /\ None \notin Tasks \union Secrets /\ Tasks \intersect Secrets = {}
      /\ Door!Finish(r) /\ token' = token
  BY <1>2 DEF Door!CommitRegister, ShapedRequest, Door!Request, Door!AccountConstants
<1>4. CASE Door!Exists(v.on)
  <2>1. UNCHANGED <<user, invite, secret, uses>>
    BY <1>2, <1>4 DEF Door!CommitRegister
  <2>2. AccountsTypes'
    BY <1>1, <1>3, <2>1, FinishTyped DEF AccountsTypes
  <2>3. Door!AdminRemains'
    BY <1>1, <1>3, <2>1, FinishTyped, AdminStaysWhere DEF AccountsInv, Door!Administers
  <2>4. ~crossed /\ OnceOK => OnceOK'
    BY <1>1, <1>3, <2>1, FinishTyped, EndedOnce DEF SameOutside
  <2> QED BY <1>3, <2>2, <2>3, <2>4, FinishEnds
<1>5. CASE ~Door!Exists(v.on)
  <2>1. /\ user' = [user EXCEPT ![v.on] = v.new]
        /\ invite' = Door!Used(v.about)
        /\ secret' \in IF v.code = None THEN Door!CodeFor(v.on) ELSE {Door!Consumed(v.code)}
        /\ uses' = Door!Counted({v.about, v.code})
    BY <1>2, <1>5 DEF Door!CommitRegister
  <2>2. /\ invite' \in [Tasks -> Door!Invite]
        /\ \A i \in Tasks : /\ invite'[i].to = invite[i].to
                            /\ IF i = v.about THEN invite'[i].used
                               ELSE invite'[i].used = invite[i].used
                            /\ invite'[i].revoked = invite[i].revoked
    <3>1. CASE v.about = None
      BY <1>1, <1>3, <2>1, <3>1 DEF Door!Used, AccountsTypes
    <3>2. CASE v.about # None
      BY <1>1, <1>3, <2>1, <3>2, UsedRow DEF Door!Used
    <3> QED BY <3>1, <3>2
  <2>3. /\ secret' \in [Secrets -> Door!Secret]
        /\ \A s \in Secrets :
              IF s \in {v.about, v.code} THEN secret'[s].of = secret[s].of /\ secret'[s].consumed
              ELSE secret[s].of # None => secret'[s] = secret[s]
    <3>1. CASE v.code # None
      <4>1. secret' = [secret EXCEPT ![v.code].consumed = TRUE]
        BY <2>1, <3>1 DEF Door!Consumed
      <4>2. \A s \in Secrets : s \in {v.about, v.code} <=> s = v.code
        BY <1>3
      <4> QED BY <1>1, <1>3, <3>1, <4>1, <4>2, ConsumedRow
    <3>2. CASE v.code = None
      <4>1. \A s \in Secrets : s \notin {v.about, v.code}
        BY <1>3, <3>2
      <4>2. secret' \in Door!CodeFor(v.on)
        BY <2>1, <3>2
      <4>3. CASE secret' = secret
        BY <1>1, <4>1, <4>3 DEF AccountsTypes
      <4>4. CASE secret' # secret
        <5>1. PICK s \in Secrets :
                /\ secret[s].of = None
                /\ secret' = [secret EXCEPT ![s] = [kind |-> "code", of |-> v.on,
                                                    consumed |-> FALSE]]
          BY <4>2, <4>4 DEF Door!CodeFor
        <5>2. [kind |-> "code", of |-> v.on, consumed |-> FALSE] \in Door!Secret
          BY <1>3 DEF Door!Secret
        <5> QED BY <1>1, <4>1, <5>1, <5>2 DEF AccountsTypes
      <4> QED BY <4>3, <4>4
    <3> QED BY <3>1, <3>2
  <2>4. /\ uses' \in [Tasks \union Secrets -> Nat]
        /\ \A x \in Tasks \union Secrets :
              uses'[x] = IF x \in {v.about, v.code} THEN uses[x] + 1 ELSE uses[x]
    BY <1>1, <2>1 DEF Door!Counted, AccountsTypes
  <2>5. AccountsTypes'
    BY <1>1, <1>3, <2>1, <2>2, <2>3, <2>4, FinishTyped DEF AccountsTypes
  <2>6. Door!AdminRemains'
    <3>1. \A p \in People : Door!Administers(p) => Door!Administers(p)'
      BY <1>1, <1>3, <1>5, <2>1 DEF Door!Administers, Door!Exists, AccountsTypes
    <3> QED BY <1>1, <1>3, <3>1, FinishTyped, AdminStaysWhere DEF AccountsInv
  <2>7. Spends(v)
    BY <2>2, <2>3, <2>4 DEF Spends
  <2>8. ~crossed /\ OnceOK => OnceOK'
    BY <1>1, <1>2, <1>3, <2>7, FinishTyped, SpentOnce
  <2> QED BY <1>3, <2>5, <2>6, <2>8, FinishEnds
<1> QED BY <1>4, <1>5

LEMMA CommitUseKeepsInv ==
    ASSUME Door!AccountConstants, AccountsInv, NEW r \in Requests, Door!CommitUse(r)
    PROVE  AccountsInv'
<1>1. AccountsTypes /\ \A q \in Requests : ShapedRequest(accountRequest[q])
  BY DEF AccountsInv
<1>2. PICK v \in Door!Request : v = accountRequest[r] /\ ShapedRequest(v)
  BY <1>1 DEF AccountsTypes
<1>3. PICK s \in Secrets : s = v.about
  BY <1>2 DEF Door!CommitUse, ShapedRequest
<1>4. /\ v.op = "use" /\ v.on \in People /\ v.old \in Door!User /\ v.code = None
      /\ None \notin Tasks \union Secrets /\ Tasks \intersect Secrets = {}
      /\ Door!Finish(r) /\ invite' = invite
      /\ secret' = [secret EXCEPT ![s].consumed = TRUE]
      /\ uses' = Door!Counted({s})
  BY <1>2, <1>3 DEF Door!CommitUse, Door!Consumed, ShapedRequest, Door!Request,
     Door!AccountConstants
<1>5. /\ user' \in {user, [user EXCEPT ![v.on].verified = TRUE]}
      /\ token' \in {token, [token EXCEPT ![v.on] = v.old.role]}
  BY <1>2 DEF Door!CommitUse
<1>6. /\ user' \in [People -> Door!User]
      /\ \A p \in People : Door!Administers(p) => Door!Administers(p)'
  <2>1. CASE user' = user
    BY <1>1, <2>1 DEF AccountsTypes, Door!Administers
  <2>2. CASE user' = [user EXCEPT ![v.on].verified = TRUE]
    BY <1>1, <1>4, <2>2 DEF AccountsTypes, Door!Administers, Door!User
  <2> QED BY <1>5, <2>1, <2>2
<1>7. token' \in [People -> Door!Roles \union {"none"}]
  BY <1>1, <1>4, <1>5 DEF AccountsTypes, Door!User
<1>8. /\ secret' \in [Secrets -> Door!Secret]
      /\ \A x \in Secrets : IF x = s THEN secret'[x].of = secret[x].of /\ secret'[x].consumed
                           ELSE secret'[x] = secret[x]
  BY <1>1, <1>4, ConsumedRow
<1>9. /\ uses' \in [Tasks \union Secrets -> Nat]
      /\ \A x \in Tasks \union Secrets :
            uses'[x] = IF x = s THEN uses[x] + 1 ELSE uses[x]
  BY <1>1, <1>4 DEF Door!Counted, AccountsTypes
<1>10. AccountsTypes'
  BY <1>1, <1>4, <1>6, <1>7, <1>8, <1>9, FinishTyped DEF AccountsTypes
<1>11. Door!AdminRemains'
  BY <1>1, <1>4, <1>6, FinishTyped, AdminStaysWhere DEF AccountsInv
<1>12. Spends(v)
  <2>1. \A x \in Tasks \union Secrets : x \in {v.about, v.code} <=> x = s
    BY <1>3, <1>4
  <2>2. \A i \in Tasks : i # v.about
    BY <1>3, <1>4
  <2> QED BY <1>4, <1>8, <1>9, <2>1, <2>2 DEF Spends
<1>13. ~crossed /\ OnceOK => OnceOK'
  BY <1>1, <1>2, <1>4, <1>12, FinishTyped, SpentOnce
<1> QED BY <1>4, <1>10, <1>11, <1>13, FinishEnds

----------------------------------------------------------------------------
\* Every step

LEMMA NextKeepsInv ==
    ASSUME Door!AccountConstants, AccountsInv, [Door!Next]_Door!vars PROVE AccountsInv'
<1>1. ASSUME NEW r \in Requests, Door!Commit(r) PROVE AccountsInv'
  BY <1>1, CommitUpdateKeepsInv, CommitDeleteKeepsInv, CommitInviteKeepsInv,
     CommitResendKeepsInv, CommitRevokeKeepsInv, CommitRegisterKeepsInv, CommitUseKeepsInv,
     FailKeepsInv DEF Door!Commit
<1>2. CASE UNCHANGED Door!vars
  <2>1. /\ setting' = setting /\ user' = user /\ token' = token /\ invite' = invite
        /\ secret' = secret /\ accountRequest' = accountRequest /\ made' = made /\ uses' = uses
        /\ outlived' = outlived /\ crossed' = crossed
    BY <1>2 DEF Door!vars
  <2>2. \A r \in Requests : StillTrue(accountRequest[r]) => StillTrue(accountRequest[r])'
    BY <2>1 DEF StillTrue, Door!PendingFor, Door!Pending, Live
  <2>3. \A p \in People : Door!PendingFor(p)' = Door!PendingFor(p)
    BY <2>1 DEF Door!PendingFor, Door!Pending
  <2>4. OnceOK => OnceOK'
    BY <2>1, <2>2, <2>3 DEF OnceOK, AloneAbout, InvitationsOK, SecretsOK
  <2>5. Door!AdminRemains'
    BY <2>1 DEF AccountsInv, Door!AdminRemains, Door!Administers
  <2>6. AccountsTypes'
    BY <2>1 DEF AccountsInv, AccountsTypes
  <2> QED BY <2>1, <2>4, <2>5, <2>6 DEF AccountsInv
<1> QED BY <1>1, <1>2, AskKeepsInv, LoginKeepsInv, CreateKeepsInv DEF Door!Next

----------------------------------------------------------------------------
\* How often something is used

Open == {r \in Requests : accountRequest[r].op # "idle"}

\* Whatever has been used once more was asked for once more: each open request
\* may still use something.
UsesBounded ==
    /\ IsFiniteSet(Open) /\ made <= MaxRequests
    /\ \A x \in DOMAIN uses : uses[x] + Cardinality(Open) <= made

LEMMA BoundedInit ==
    ASSUME Door!AccountConstants, Door!Init PROVE UsesBounded
<1>1. Open = {}
  BY IdleIsIdle DEF Door!Init, Open
<1> QED BY <1>1, FS_EmptySet DEF Door!AccountConstants, Door!Init, UsesBounded

\* A request that begins is one more.
LEMMA BeginBounded ==
    ASSUME Door!AccountConstants, AccountsTypes, UsesBounded, NEW r \in Requests, NEW v, v.op # "idle",
           Door!Begin(r, v)
    PROVE  UsesBounded'
<1>1. /\ accountRequest[r].op = "idle" /\ made < MaxRequests /\ made' = made + 1 /\ uses' = uses
      /\ accountRequest' = [accountRequest EXCEPT ![r] = v]
  BY DEF Door!Begin
<1>2. /\ accountRequest'[r] = v
      /\ \A q \in Requests : q # r => accountRequest'[q] = accountRequest[q]
  BY <1>1 DEF AccountsTypes
<1>3. Open' = Open \union {r} /\ r \notin Open
  BY <1>1, <1>2 DEF Open
<1>4. IsFiniteSet(Open') /\ Cardinality(Open') = Cardinality(Open) + 1
  BY <1>3, FS_AddElement DEF UsesBounded
<1>5. /\ made \in Nat /\ MaxRequests \in Nat /\ Cardinality(Open) \in Nat
      /\ \A x \in DOMAIN uses : uses[x] \in Nat
  BY FS_CardinalityType DEF AccountsTypes, Door!AccountConstants, UsesBounded
<1> DEFINE n == Cardinality(Open)
           m == Cardinality(Open')
<1>6. \A x \in DOMAIN uses : uses[x] + n <= made
  BY DEF UsesBounded
<1>7. m = n + 1 /\ n \in Nat
  BY <1>4, <1>5
<1> HIDE DEF n, m
<1>8. made' <= MaxRequests /\ \A x \in DOMAIN uses' : uses'[x] + m <= made'
  BY <1>1, <1>5, <1>6, <1>7
<1> QED BY <1>4, <1>8 DEF UsesBounded, m

\* A request that ends is one less, and may have used something.
LEMMA EndBounded ==
    ASSUME AccountsTypes, UsesBounded, NEW r \in Requests, accountRequest[r].op # "idle",
           accountRequest' = [accountRequest EXCEPT ![r] = Door!Idle], made' = made, DOMAIN uses' = DOMAIN uses,
           \A x \in DOMAIN uses : uses'[x] \in {uses[x], uses[x] + 1}
    PROVE  UsesBounded'
<1>1. /\ accountRequest'[r] = Door!Idle
      /\ \A q \in Requests : q # r => accountRequest'[q] = accountRequest[q]
  BY DEF AccountsTypes
<1>2. Open' = Open \ {r} /\ r \in Open
  BY <1>1, IdleIsIdle DEF Open
<1>3. IsFiniteSet(Open') /\ Cardinality(Open') = Cardinality(Open) - 1
  BY <1>2, FS_RemoveElement DEF UsesBounded
<1>4. /\ made \in Nat /\ Cardinality(Open) \in Nat
      /\ \A x \in DOMAIN uses : uses[x] \in Nat
  BY FS_CardinalityType DEF AccountsTypes, UsesBounded
<1> DEFINE n == Cardinality(Open)
           m == Cardinality(Open')
<1>5. \A x \in DOMAIN uses : uses[x] + n <= made
  BY DEF UsesBounded
<1>6. m = n - 1 /\ n \in Nat
  BY <1>3, <1>4
<1> HIDE DEF n, m
<1>7. \A x \in DOMAIN uses' : uses'[x] + m <= made'
  BY <1>4, <1>5, <1>6
<1> QED BY <1>3, <1>7 DEF UsesBounded, m

LEMMA SameBounded ==
    ASSUME UsesBounded, accountRequest' = accountRequest, made' = made, uses' = uses
    PROVE  UsesBounded'
<1>1. Open' = Open
  BY DEF Open
<1> QED BY <1>1 DEF UsesBounded

LEMMA AskBounded ==
    ASSUME Door!AccountConstants, AccountsTypes, UsesBounded, NEW r \in Requests, Door!Ask(r)
    PROVE  UsesBounded'
<1>1. ASSUME NEW by \in People, NEW on \in People, Door!BeginUpdate(r, by, on)
      PROVE  UsesBounded'
  <2>1. PICK new \in [role : Door!Roles, active : BOOLEAN, verified : BOOLEAN] :
          Door!Begin(r, [Door!Idle EXCEPT !.op = "update", !.by = by, !.on = on, !.old = user[on],
                                          !.new = new])
    BY <1>1 DEF Door!BeginUpdate
  <2> QED BY <2>1, BeginBounded DEF Door!Idle
<1>2. ASSUME NEW by \in People, NEW on \in People, Door!BeginDelete(r, by, on)
      PROVE  UsesBounded'
  BY <1>2, BeginBounded DEF Door!BeginDelete, Door!Idle
<1>3. ASSUME NEW by \in People, NEW on \in People, NEW role \in Door!Roles, Door!BeginInvite(r, by, on, role)
      PROVE  UsesBounded'
  <2>1. PICK about \in IF Door!PendingFor(on) = {} THEN {None} ELSE Door!PendingFor(on) :
          Door!Begin(r, [Door!Idle EXCEPT !.op = "invite", !.by = by, !.on = on, !.about = about,
                                          !.new = [Door!Absent EXCEPT !.role = role]])
    BY <1>3 DEF Door!BeginInvite
  <2> QED BY <2>1, BeginBounded DEF Door!Idle
<1>4. ASSUME NEW by \in People, NEW i \in Tasks, Door!BeginResend(r, by, i) \/ Door!BeginRevoke(r, by, i)
      PROVE  UsesBounded'
  BY <1>4, BeginBounded DEF Door!BeginResend, Door!BeginRevoke, Door!Idle
<1>5. ASSUME NEW p \in People, Door!BeginRegister(r, p)
      PROVE  UsesBounded'
  <2>1. PICK about \in IF setting.public THEN {None} ELSE Door!PendingFor(p),
             code \in {None} \union {s \in Secrets : Door!Code(s) /\ secret[s].of = p} :
          Door!Begin(r, [Door!Idle EXCEPT !.op = "register", !.on = p, !.about = about, !.code = code,
                           !.new = [role |-> IF about = None THEN "EMPLOYEE" ELSE invite[about].role,
                                    active |-> TRUE, verified |-> code # None]])
    BY <1>5 DEF Door!BeginRegister
  <2> QED BY <2>1, BeginBounded DEF Door!Idle
<1>6. ASSUME NEW s \in Secrets, Door!BeginUse(r, s)
      PROVE  UsesBounded'
  BY <1>6, BeginBounded DEF Door!BeginUse, Door!Idle
<1> QED BY <1>1, <1>2, <1>3, <1>4, <1>5, <1>6 DEF Door!Ask

LEMMA CommitBounded ==
    ASSUME AccountsTypes, UsesBounded, NEW r \in Requests, Door!Commit(r)
    PROVE  UsesBounded'
<1>1. /\ accountRequest[r].op # "idle" /\ accountRequest' = [accountRequest EXCEPT ![r] = Door!Idle] /\ made' = made
  BY DEF Door!Commit, Door!CommitUpdate, Door!CommitDelete, Door!CommitInvite,
     Door!CommitResend, Door!CommitRevoke,
     Door!CommitRegister, Door!CommitUse, Door!Fail, Door!Finish
<1>2. uses' = uses \/ \E xs : uses' = Door!Counted(xs)
  BY DEF Door!Commit, Door!CommitUpdate, Door!CommitDelete, Door!CommitInvite,
     Door!CommitResend, Door!CommitRevoke,
     Door!CommitRegister, Door!CommitUse, Door!Fail
<1>3. DOMAIN uses' = DOMAIN uses /\ \A x \in DOMAIN uses : uses'[x] \in {uses[x], uses[x] + 1}
  BY <1>2 DEF Door!Counted
<1> QED BY <1>1, <1>3, EndBounded

LEMMA NextBounded ==
    ASSUME Door!AccountConstants, AccountsTypes, UsesBounded, [Door!Next]_Door!vars PROVE UsesBounded'
<1>1. CASE UNCHANGED Door!vars
  BY <1>1, SameBounded DEF Door!vars
<1>2. ASSUME NEW p \in People, Door!Login(p) PROVE UsesBounded'
  BY <1>2, SameBounded DEF Door!Login
<1>3. ASSUME NEW s \in Secrets, NEW sort \in {"code", "reset", "oauth"}, NEW p \in People,
             Door!CreateSecret(s, sort, p)
      PROVE  UsesBounded'
  BY <1>3, SameBounded DEF Door!CreateSecret
<1> QED BY <1>1, <1>2, <1>3, AskBounded, CommitBounded DEF Door!Next

LEMMA AccountsTyped ==
    ASSUME Door!AccountConstants, AccountsInv, UsesBounded PROVE Door!TypeOK
<1>1. AccountsTypes /\ Cardinality(Open) \in Nat /\ MaxRequests \in Nat
  BY FS_CardinalityType DEF AccountsInv, UsesBounded, Door!AccountConstants
<1> DEFINE n == Cardinality(Open)
<1>2. made <= MaxRequests /\ \A x \in DOMAIN uses : uses[x] + n <= made
  BY DEF UsesBounded
<1> HIDE DEF n
<1>3. made \in Nat /\ uses \in [Tasks \union Secrets -> Nat] /\ n \in Nat
  BY <1>1 DEF AccountsTypes, n
<1>4. made \in 0 .. MaxRequests /\ \A x \in Tasks \union Secrets : uses[x] \in 0 .. MaxRequests
  BY <1>1, <1>2, <1>3
<1>5. uses \in [Tasks \union Secrets -> 0 .. MaxRequests]
  BY <1>3, <1>4
<1> QED BY <1>1, <1>4, <1>5 DEF AccountsTypes, Door!TypeOK

----------------------------------------------------------------------------
\* The accounts on their own, and beside the parts of MCPlatform.

AccountsHeld == AccountsInv /\ UsesBounded

LEMMA HeldInit == ASSUME Door!AccountConstants, Door!Init PROVE AccountsHeld
BY AccountsInit, BoundedInit DEF AccountsHeld

LEMMA HeldNext ==
    ASSUME Door!AccountConstants, AccountsHeld, [Door!Next]_Door!vars PROVE AccountsHeld'
BY NextKeepsInv, NextBounded DEF AccountsHeld, AccountsInv

LEMMA OnceHeld == AccountsInv => Door!SecretsWorkOnce
<1>1. ASSUME AccountsInv, ~crossed
      PROVE  /\ \A x \in DOMAIN uses : uses[x] <= 1
             /\ \A p \in People : Door!Cardinality(Door!PendingFor(p)) <= 1
             /\ \A i \in Tasks : ~(invite[i].used /\ invite[i].revoked)
  <2>1. OnceOK /\ DOMAIN uses = Tasks \union Secrets
    BY <1>1 DEF AccountsInv, AccountsTypes
  <2>2. \A x \in DOMAIN uses : uses[x] <= 1
    BY <2>1 DEF OnceOK, InvitationsOK, SecretsOK
  <2>3. ASSUME NEW p \in People PROVE Door!Cardinality(Door!PendingFor(p)) <= 1
    <3>1. CASE Door!PendingFor(p) = {}
      BY <3>1, CardDoor, FS_EmptySet
    <3>2. CASE Door!PendingFor(p) # {}
      <4>1. PICK i : i \in Door!PendingFor(p)
        BY <3>2
      <4>2. Door!PendingFor(p) = {i}
        BY <2>1, <4>1 DEF OnceOK, InvitationsOK
      <4> QED BY <4>2, CardDoor, FS_Singleton
    <3> QED BY <3>1, <3>2
  <2>4. \A i \in Tasks : ~(invite[i].used /\ invite[i].revoked)
    BY <2>1 DEF OnceOK, InvitationsOK
  <2> QED BY <2>2, <2>3, <2>4
<1> QED BY <1>1 DEF Door!SecretsWorkOnce

\* Administrators who change and delete each other at the same time do not leave the
\* tenant without one, however many there are, as long as no request is committed
\* whose author is none any more; and each open request may use something at most once
\* (admin_update_user, admin_delete_user).
THEOREM AdminStays ==
    ASSUME Door!AccountConstants
    PROVE  Door!Spec => [](Door!TypeOK /\ Door!AdminRemains)
<1>1. Door!AccountConstants
  OBVIOUS
<1>2. Door!Init => AccountsHeld
  BY HeldInit
<1>3. AccountsHeld /\ [Door!Next]_Door!vars => AccountsHeld'
  BY HeldNext
<1>4. AccountsHeld => Door!TypeOK /\ Door!AdminRemains
  BY AccountsTyped DEF AccountsHeld, AccountsInv
<1> QED BY <1>2, <1>3, <1>4, PTL DEF Door!Spec

\* Invitations, codes, reset tokens and authorization codes work once and an address
\* has one pending invitation at most, as long as no two requests about the same one
\* are in flight at once and no revoked invitation is sent again (auth_service.py,
\* mobile_oauth_service.py).
THEOREM SecretsOnce ==
    ASSUME Door!AccountConstants
    PROVE  Door!Spec => []Door!SecretsWorkOnce
<1>1. Door!Init => AccountsHeld
  BY HeldInit
<1>2. AccountsHeld /\ [Door!Next]_Door!vars => AccountsHeld'
  BY HeldNext
<1>3. AccountsHeld => Door!SecretsWorkOnce
  BY OnceHeld DEF AccountsHeld
<1> QED BY <1>1, <1>2, <1>3, PTL DEF Door!Spec

LEMMA AccountsBeside ==
    PartsSpec => [](AccountsHeld /\ Door!TypeOK)
<1>1. PartsInit => AccountsHeld
  BY PlatformAssumption, HeldInit DEF PartsInit
<1>2. ASSUME AccountsHeld, [Step]_<<part, syncVars, searchVars, chatVars, jobVars, accountVars>>
      PROVE  AccountsHeld'
  <2>1. [Door!Next]_Door!vars
    BY <1>2 DEF Step, SyncStep, SearchStep, ChatStep, JobStep, AccountStep, accountVars,
       Door!vars
  <2> QED BY <1>2, <2>1, PlatformAssumption, HeldNext
<1>3. AccountsHeld => Door!TypeOK
  BY PlatformAssumption, AccountsTyped DEF AccountsHeld
<1> QED BY <1>1, <1>2, <1>3, PTL DEF PartsSpec

\* The tenant keeps an administrator (admin_update_user, admin_delete_user).
THEOREM AdminKept == PartsSpec => []AdminRemains
<1>1. AccountsHeld => AdminRemains
  BY DEF AccountsHeld, AccountsInv, AdminRemains
<1> QED BY <1>1, AccountsBeside, PTL

\* Invitations and secrets work once (auth_service.py, mobile_oauth_service.py).
THEOREM SecretsKept == PartsSpec => []SecretsWorkOnce
<1>1. AccountsHeld => SecretsWorkOnce
  BY OnceHeld DEF AccountsHeld, SecretsWorkOnce
<1> QED BY <1>1, AccountsBeside, PTL
=============================================================================
