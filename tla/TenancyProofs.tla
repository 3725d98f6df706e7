---------------------------- MODULE TenancyProofs ----------------------------
(***************************************************************************)
(* Proofs about Tenancy, for any number of requests, tenants, users, roles *)
(* and companies.                                                          *)
(***************************************************************************)
EXTENDS Tenancy, TotalsProofs, FiniteSetTheorems

LEMMA TenancyInit == Init => TenancyInv
<1> SUFFICES ASSUME Init PROVE TenancyInv
  OBVIOUS
<1>1. Shapes
  <2>1. tokens \in Seq(Token)
    BY DEF Init
  <2>2. users \in [Users -> {"none", "active", "disabled"}]
    BY DEF Init
  <2> QED BY <2>1, <2>2 DEF Init, Shapes
<1>2. KeysOK
  BY DEF Init, KeysOK
<1>3. ASSUME NEW s \in Sessions PROVE SessionOK(s)
  BY DEF Init, SessionOK, Idle
<1>4. TenantsAreOwned /\ DOMAIN tokens = {} /\ grants = {}
  BY DEF Init, TenantsAreOwned
<1> QED BY <1>1, <1>2, <1>3, <1>4 DEF TenancyInv

-----------------------------------------------------------------------------
(***************************************************************************)
(* What holds of a tenant whose sign-up a step does not touch.             *)
(***************************************************************************)
\* Nobody loses the account, the Owner role or (but for revocations) its grant.
OwnersKept ==
  /\ \A u \in Users : users[u] # "none" => users'[u] # "none"
  /\ \A id \in TenantIds : <<id, Owner>> \in DOMAIN roles =>
       <<id, Owner>> \in DOMAIN roles' /\ roles'[<<id, Owner>>] = roles[<<id, Owner>>]
  /\ revoked \subseteq revoked'
  /\ \A id \in TenantIds, g \in grants :
       g.user[1] = id /\ g.role = <<id, Owner>> => g \in grants' \/ id \in revoked'

\* A new account is of a tenant that had one.
NoFirstUser ==
  \A u \in Users : users'[u] # "none" =>
    users[u] # "none" \/ \E e \in Emails : users[<<u[1], e>>] # "none"

LEMMA OwnerStays ==
  ASSUME OwnersKept, NEW id \in TenantIds, HasOwner(id)
  PROVE  HasOwner(id)'
<1>1. <<id, Owner>> \in DOMAIN roles' /\ roles'[<<id, Owner>>] = Codes
  BY DEF OwnersKept, HasOwner
<1>2. CASE id \in revoked
  BY <1>1, <1>2 DEF OwnersKept, HasOwner
<1>3. ASSUME NEW g \in grants, g.user[1] = id, g.role = <<id, Owner>>, g.company = Everywhere
      PROVE  HasOwner(id)'
  BY <1>1, <1>3 DEF OwnersKept, HasOwner
<1> QED BY <1>2, <1>3 DEF HasOwner

\* A step of a request that is not signing up, before or after.
LEMMA OrdinaryStepKeeps ==
  ASSUME TenancyInv, Shapes', NEW s \in Sessions, UNCHANGED <<tenants, abandoned>>,
         \A u \in Sessions : u # s => sess'[u] = sess[u],
         sess[s].step # "tenant", sess'[s].step # "tenant", SessionOK(s)',
         OwnersKept, NoFirstUser, DOMAIN tokens \subseteq DOMAIN tokens',
         \A n \in DOMAIN tokens' : users'[tokens'[n].user] # "none"
  PROVE  TenancyInv'
<1>1. Ids' = Ids /\ \A id : \A u \in Sessions : SigningUp(u, id)' <=> SigningUp(u, id)
  BY DEF Ids, SigningUp
<1>2. KeysOK'
  <2>1. ASSUME NEW u \in Users, users'[u] # "none" PROVE u[1] \in Ids
    <3>1. CASE users[u] # "none"
      BY <3>1 DEF TenancyInv, KeysOK
    <3>2. ASSUME NEW e \in Emails, users[<<u[1], e>>] # "none" PROVE u[1] \in Ids
      <4>1. <<u[1], e>> \in Users
        BY DEF Users
      <4> QED BY <3>2, <4>1 DEF TenancyInv, KeysOK
    <3> QED BY <2>1, <3>1, <3>2 DEF NoFirstUser
  <2> QED BY <1>1, <2>1 DEF TenancyInv, KeysOK
<1>3. ASSUME NEW u \in Sessions, u # s PROVE SessionOK(u)'
  <2>1. SessionOK(u) /\ sess'[u] = sess[u]
    BY <1>3 DEF TenancyInv
  <2>2. PICK id : id = sess[u].tenant
    OBVIOUS
  <2>3. sess[u].step = "tenant" =>
          id \in Ids' \ abandoned' /\ \A v \in Sessions : SigningUp(v, id)' => v = u
    BY <1>1, <2>1, <2>2 DEF SessionOK
  <2> QED BY <2>1, <2>2, <2>3 DEF SessionOK, OwnersKept
<1>4. TenantsAreOwned'
  <2> SUFFICES ASSUME NEW t \in tenants
               PROVE  /\ \A u \in tenants \ {t} : u.slug # t.slug
                      /\ IF t.id \in abandoned \/ \E u \in Sessions : SigningUp(u, t.id)'
                         THEN \A e \in Emails : users'[<<t.id, e>>] = "none"
                         ELSE HasOwner(t.id)'
    BY DEF TenantsAreOwned
  <2>0. \A u \in tenants \ {t} : u.slug # t.slug
    BY DEF TenancyInv, TenantsAreOwned
  <2>1. t.id \in TenantIds /\ \A u \in Sessions : SigningUp(u, t.id)' <=> SigningUp(u, t.id)
    BY <1>1 DEF TenancyInv, Shapes
  <2>2. CASE t.id \in abandoned \/ \E u \in Sessions : SigningUp(u, t.id)
    <3>1. \A e \in Emails : users[<<t.id, e>>] = "none"
      BY <2>2 DEF TenancyInv, TenantsAreOwned
    <3>2. ASSUME NEW e \in Emails PROVE users'[<<t.id, e>>] = "none"
      <4>1. PICK x : x = <<t.id, e>>
        OBVIOUS
      <4>2. x \in Users /\ x[1] = t.id /\ users[x] = "none"
        BY <2>1, <3>1, <4>1 DEF Users
      <4>3. \A f \in Emails : users[<<x[1], f>>] = "none"
        BY <3>1, <4>2
      <4>4. users'[x] = "none"
        BY <4>2, <4>3 DEF NoFirstUser
      <4> QED BY <4>1, <4>4
    <3> QED BY <2>0, <2>1, <2>2, <3>2
  <2>3. CASE ~(t.id \in abandoned \/ \E u \in Sessions : SigningUp(u, t.id))
    <3>1. HasOwner(t.id)
      BY <2>3 DEF TenancyInv, TenantsAreOwned
    <3> QED BY <2>0, <2>1, <2>3, <3>1, OwnerStays
  <2> QED BY <2>2, <2>3
<1> QED BY <1>2, <1>3, <1>4 DEF TenancyInv

LEMMA NothingLost ==
  ASSUME UNCHANGED <<roles, grants, revoked>>,
         \A u \in Users : users[u] # "none" => users'[u] # "none"
  PROVE  OwnersKept
  BY DEF OwnersKept

\* A session is set to a record.
LEMMA Becomes ==
  ASSUME Shapes, NEW s \in Sessions, NEW x, Become(s, x)
  PROVE  /\ sess'[s] = x /\ \A u \in Sessions : u # s => sess'[u] = sess[u]
         /\ sess' = [u \in Sessions |-> sess'[u]]
  BY DEF Shapes, Become

\* A step that changes a request, and at most the years besides.
LEMMA RequestStepKeeps ==
  ASSUME TenancyInv, NEW s \in Sessions, NEW x, Become(s, x),
         UNCHANGED <<tenants, users, roles, grants, tokens, abandoned, revoked>>,
         sess[s].step # "tenant", x.step # "tenant",
         x.step \in {"issue", "passed"} => x.user \in Users /\ users[x.user] # "none",
         x.step = "issue" => x.from \in Nat,
         x.step = "found" => x.token \in DOMAIN tokens
  PROVE  TenancyInv'
<1>1. /\ sess'[s] = x /\ \A u \in Sessions : u # s => sess'[u] = sess[u]
      /\ sess' = [u \in Sessions |-> sess'[u]]
  BY Becomes DEF TenancyInv
<1>2. Shapes' /\ OwnersKept /\ NoFirstUser
  <2>1. Ids' = Ids
    BY DEF Ids
  <2>2. OwnersKept /\ NoFirstUser
    BY DEF OwnersKept, NoFirstUser
  <2> QED BY <1>1, <2>1, <2>2 DEF TenancyInv, Shapes
<1>3. SessionOK(s)'
  BY <1>1 DEF SessionOK
<1> QED BY <1>1, <1>2, <1>3, OrdinaryStepKeeps DEF TenancyInv

LEMMA BeginSignupKeeps ==
  ASSUME TenancyInv, NEW s \in Sessions, NEW slug, BeginSignup(s, slug)
  PROVE  TenancyInv'
<1> DEFINE x == [step |-> "checked", slug |-> slug]
<1>1. x.step = "checked" /\ sess[s].step = "idle"
  BY DEF BeginSignup, Idle
<1>2. Become(s, x) /\ UNCHANGED <<tenants, users, roles, grants, tokens, abandoned, revoked>>
  BY DEF BeginSignup, access, history
<1> HIDE DEF x
<1> QED BY <1>1, <1>2, RequestStepKeeps

LEMMA LoginKeeps ==
  ASSUME TenancyInv, NEW s \in Sessions, NEW user \in Users, Login(s, user)
  PROVE  TenancyInv'
<1> DEFINE x == [step |-> "issue", user |-> user, from |-> NoToken]
<1>1. /\ x.step = "issue" /\ x.user = user /\ x.from = 0
      /\ sess[s].step = "idle" /\ users[user] = "active"
  BY DEF Login, Idle, NoToken
<1>2. Become(s, x) /\ UNCHANGED <<tenants, users, roles, grants, tokens, abandoned, revoked>>
  BY DEF Login, access, history
<1> HIDE DEF x
<1> QED BY <1>1, <1>2, RequestStepKeeps

LEMMA FindTokenKeeps ==
  ASSUME TenancyInv, NEW s \in Sessions, NEW t \in DOMAIN tokens, FindToken(s, t)
  PROVE  TenancyInv'
<1> DEFINE x == [step |-> "found", token |-> t]
<1>1. x.step = "found" /\ x.token = t /\ sess[s].step = "idle"
  BY DEF FindToken, Idle
<1>2. Become(s, x) /\ UNCHANGED <<tenants, users, roles, grants, tokens, abandoned, revoked>>
  BY DEF FindToken, access, history
<1> HIDE DEF x
<1> QED BY <1>1, <1>2, RequestStepKeeps

LEMMA GuardKeeps ==
  ASSUME TenancyInv, NEW s \in Sessions, NEW user \in Users, NEW code, NEW company,
         Guard(s, user, code, company)
  PROVE  TenancyInv'
<1> DEFINE x == [step |-> "passed", user |-> user, code |-> code, company |-> company]
<1>1. x.step = "passed" /\ x.user = user /\ sess[s].step = "idle"
  BY DEF Guard, Idle
<1>2. Become(s, x) /\ UNCHANGED <<tenants, users, roles, grants, tokens, abandoned, revoked>>
  BY DEF Guard, access, history
<1>3. users[user] # "none"
  BY DEF Guard, Issued, TenancyInv
<1> HIDE DEF x
<1> QED BY <1>1, <1>2, <1>3, RequestStepKeeps

LEMMA BeginNextFiscalYearKeeps ==
  ASSUME TenancyInv, NEW s \in Sessions, BeginNextFiscalYear(s)
  PROVE  TenancyInv'
<1>1. PICK x : x = [step |-> "inserting", company |-> <<Tenant(s), sess[s].company>>,
                    year |-> NextYear(Rows(s, sess[s].company))]
  OBVIOUS
<1>2. x.step = "inserting" /\ sess[s].step = "passed"
  BY <1>1 DEF BeginNextFiscalYear
<1>3. Become(s, x) /\ UNCHANGED <<tenants, users, roles, grants, tokens, abandoned, revoked>>
  BY <1>1 DEF BeginNextFiscalYear, access, history
<1> QED BY <1>2, <1>3, RequestStepKeeps

LEMMA IdleStep == Idle.step = "idle"
  BY DEF Idle

LEMMA YearsStepKeeps ==
  ASSUME TenancyInv, NEW s \in Sessions,
         CommitNextFiscalYear(s) \/ \E id \in CompanyIds : CreateCompany(s, id)
  PROVE  TenancyInv'
<1>1. /\ Become(s, Idle) /\ sess[s].step # "tenant"
      /\ UNCHANGED <<tenants, users, roles, grants, tokens, abandoned, revoked>>
  BY DEF CommitNextFiscalYear, CreateCompany, Passed, history
<1> QED BY <1>1, IdleStep, RequestStepKeeps

-----------------------------------------------------------------------------
(***************************************************************************)
(* Tokens.                                                                 *)
(***************************************************************************)
LEMMA TokensStepKeeps ==
  ASSUME TenancyInv, NEW s \in Sessions, UNCHANGED <<tenants, users, roles, grants, abandoned, revoked>>,
         sess' = [u \in Sessions |-> sess'[u]],
         \A u \in Sessions : u # s => sess'[u] = sess[u],
         sess[s].step # "tenant", sess'[s].step # "tenant", SessionOK(s)',
         tokens' \in Seq(Token), DOMAIN tokens \subseteq DOMAIN tokens',
         \A n \in DOMAIN tokens' : users[tokens'[n].user] # "none"
  PROVE  TenancyInv'
<1>1. Ids' = Ids
  BY DEF Ids
<1>2. Shapes' /\ OwnersKept /\ NoFirstUser
  BY <1>1 DEF TenancyInv, Shapes, OwnersKept, NoFirstUser
<1> QED BY <1>2, OrdinaryStepKeeps DEF TenancyInv

LEMMA IssueKeeps ==
  ASSUME TenancyInv, NEW s \in Sessions, Issue(s)
  PROVE  TenancyInv'
<1>1. PICK x : x = [user |-> sess[s].user, from |-> sess[s].from, live |-> TRUE, racing |-> 0]
  OBVIOUS
<1>2. /\ sess[s].step = "issue" /\ tokens' = Append(tokens, x) /\ Become(s, Idle)
      /\ UNCHANGED <<tenants, users, roles, grants, abandoned, revoked>> /\ SessionOK(s)
  BY <1>1 DEF Issue, TenancyInv, access, history
<1>3. x \in Token /\ users[x.user] # "none"
  BY <1>1, <1>2 DEF SessionOK, Token
<1>4. /\ sess'[s] = Idle /\ \A u \in Sessions : u # s => sess'[u] = sess[u]
      /\ sess' = [u \in Sessions |-> sess'[u]]
  BY <1>2, Becomes DEF TenancyInv
<1>5. /\ tokens' \in Seq(Token) /\ DOMAIN tokens \subseteq DOMAIN tokens'
      /\ \A n \in DOMAIN tokens' : users[tokens'[n].user] # "none"
  <2>1. tokens \in Seq(Token)
    BY DEF TenancyInv, Shapes
  <2> QED BY <1>2, <1>3, <2>1 DEF TenancyInv
<1>6. SessionOK(s)'
  BY <1>4, IdleStep DEF SessionOK
<1> QED BY <1>2, <1>4, <1>5, <1>6, IdleStep, TokensStepKeeps

LEMMA RevokedType ==
  ASSUME TenancyInv, NEW n \in DOMAIN tokens
  PROVE  Revoked(n) \in Token /\ Revoked(n).user = tokens[n].user
<1>1. PICK x \in Token : x = tokens[n]
  BY DEF TenancyInv, Shapes
<1>2. PICK k \in Nat : k = Cardinality({s \in Sessions : sess[s].step = "found" /\ sess[s].token = n})
  <2>1. IsFiniteSet({s \in Sessions : sess[s].step = "found" /\ sess[s].token = n})
    BY TenancyAssumption, FS_Subset
  <2> QED BY <2>1, FS_CardinalityType
<1>0. PICK no \in BOOLEAN : no = FALSE
  OBVIOUS
<1>3. PICK y : y = [x EXCEPT !.live = no]
  OBVIOUS
<1>4. y = [user |-> x.user, from |-> x.from, live |-> no, racing |-> x.racing]
  BY <1>3 DEF Token
<1>5. [y EXCEPT !.racing = k] = [user |-> x.user, from |-> x.from, live |-> no, racing |-> k]
  BY <1>4
<1>6. Revoked(n) = IF ~x.live THEN x ELSE [y EXCEPT !.racing = k]
  BY <1>0, <1>1, <1>2, <1>3 DEF Revoked
<1> QED BY <1>1, <1>4, <1>5, <1>6 DEF Token

LEMMA RevokeTokenKeeps ==
  ASSUME TenancyInv, NEW s \in Sessions, RevokeToken(s)
  PROVE  TenancyInv'
<1>1. PICK n : n = sess[s].token
  OBVIOUS
<1>2. PICK x : x = [step |-> "issue", user |-> tokens[n].user, from |-> n]
  OBVIOUS
<1>3. /\ sess[s].step = "found" /\ n \in DOMAIN tokens /\ tokens' = [tokens EXCEPT ![n] = Revoked(n)]
      /\ Become(s, x) /\ UNCHANGED <<tenants, users, roles, grants, abandoned, revoked>>
  BY <1>1, <1>2 DEF RevokeToken, TenancyInv, SessionOK, access, history
<1>4. /\ sess'[s] = x /\ \A u \in Sessions : u # s => sess'[u] = sess[u]
      /\ sess' = [u \in Sessions |-> sess'[u]]
  BY <1>3, Becomes DEF TenancyInv
<1>5. tokens \in Seq(Token) /\ tokens[n].user \in Users /\ n \in Nat
  <2>1. tokens \in Seq(Token)
    BY DEF TenancyInv, Shapes
  <2>2. PICK y \in Token : y = tokens[n]
    BY <1>3, <2>1
  <2>3. y.user \in Users
    BY DEF Token
  <2>4. n \in Nat
    BY <1>3, <2>1
  <2> QED BY <2>1, <2>2, <2>3, <2>4
<1>6. /\ tokens' \in Seq(Token) /\ DOMAIN tokens' = DOMAIN tokens
      /\ \A k \in DOMAIN tokens' : tokens'[k].user = tokens[k].user
  BY <1>3, <1>5, RevokedType
<1>7. SessionOK(s)'
  BY <1>2, <1>3, <1>4, <1>5 DEF SessionOK, TenancyInv
<1> QED BY <1>2, <1>3, <1>4, <1>6, <1>7, TokensStepKeeps DEF TenancyInv

LEMMA LogoutEverywhereKeeps ==
  ASSUME TenancyInv, NEW s \in Sessions, NEW user \in Users, LogoutEverywhere(s, user)
  PROVE  TenancyInv'
<1>1. /\ sess[s].step = "idle"
      /\ tokens' = [n \in DOMAIN tokens |-> IF tokens[n].user = user THEN Revoked(n) ELSE tokens[n]]
      /\ UNCHANGED <<tenants, users, roles, grants, sess, abandoned, revoked>>
  BY IdleStep DEF LogoutEverywhere, access, history
<1>2. tokens \in Seq(Token)
  BY DEF TenancyInv, Shapes
<1>3. \A n \in DOMAIN tokens : tokens'[n] \in Token /\ tokens'[n].user = tokens[n].user
  BY <1>1, <1>2, RevokedType
<1>4. DOMAIN tokens' = DOMAIN tokens /\ tokens' \in Seq(Token)
  BY <1>1, <1>2, <1>3
<1>5. SessionOK(s)'
  BY <1>1 DEF SessionOK
<1>6. sess' = [u \in Sessions |-> sess'[u]]
  BY <1>1 DEF TenancyInv, Shapes
<1> QED BY <1>1, <1>3, <1>4, <1>5, <1>6, TokensStepKeeps DEF TenancyInv

-----------------------------------------------------------------------------
(***************************************************************************)
(* Users, roles and grants: a request that passed the guard is of a user   *)
(* of its tenant.                                                          *)
(***************************************************************************)
LEMMA PassedUser ==
  ASSUME TenancyInv, NEW s \in Sessions, sess[s].step = "passed"
  PROVE  /\ Tenant(s) \in TenantIds /\ \E e \in Emails : users[<<Tenant(s), e>>] # "none"
<1>1. PICK x : x = sess[s].user
  OBVIOUS
<1>2. x \in Users /\ users[x] # "none"
  BY <1>1 DEF TenancyInv, SessionOK
<1>3. x = <<x[1], x[2]>> /\ x[1] \in TenantIds /\ x[2] \in Emails
  BY <1>2 DEF Users
<1> QED BY <1>1, <1>2, <1>3 DEF Tenant

LEMMA HandlerKeeps ==
  ASSUME TenancyInv, NEW s \in Sessions, sess[s].step = "passed", Become(s, Idle),
         UNCHANGED <<tenants, tokens, abandoned>>,
         users' \in [Users -> {"none", "active", "disabled"}],
         roles' = [r \in DOMAIN roles' |-> roles'[r]],
         OwnersKept, NoFirstUser
  PROVE  TenancyInv'
<1>1. /\ sess'[s] = Idle /\ \A u \in Sessions : u # s => sess'[u] = sess[u]
      /\ sess' = [u \in Sessions |-> sess'[u]]
  BY Becomes DEF TenancyInv
<1>2. Ids' = Ids
  BY DEF Ids
<1>3. Shapes' /\ SessionOK(s)'
  BY <1>1, <1>2, IdleStep DEF TenancyInv, Shapes, SessionOK
<1>4. \A n \in DOMAIN tokens : tokens[n].user \in Users
  <2>1. tokens \in Seq(Token)
    BY DEF TenancyInv, Shapes
  <2>2. ASSUME NEW n \in DOMAIN tokens PROVE tokens[n].user \in Users
    <3>1. PICK y \in Token : y = tokens[n]
      BY <2>1
    <3> QED BY <3>1 DEF Token
  <2> QED BY <2>2
<1>5. \A n \in DOMAIN tokens' : users'[tokens'[n].user] # "none"
  BY <1>4 DEF TenancyInv, OwnersKept
<1> QED BY <1>1, <1>3, <1>5, IdleStep, OrdinaryStepKeeps

LEMMA UsersStepKeeps ==
  ASSUME TenancyInv, NEW s \in Sessions, NEW email \in Emails,
         NEW status \in {"active", "disabled"},
         Invite(s, email) \/ SetStatus(s, email, status)
  PROVE  TenancyInv'
<1>1. PICK x, new : x = <<Tenant(s), email>> /\ new = users'[x]
  OBVIOUS
<1>2. /\ sess[s].step = "passed" /\ Become(s, Idle)
      /\ UNCHANGED <<tenants, roles, grants, tokens, abandoned, revoked>>
      /\ \E y \in {"active", "disabled"} : users' = [users EXCEPT ![x] = y]
  BY <1>1 DEF Invite, SetStatus, Passed, history
<1>3. x \in Users /\ x[1] = Tenant(s)
  BY <1>1, <1>2, PassedUser DEF Users
<1>4. /\ users' \in [Users -> {"none", "active", "disabled"}] /\ users'[x] # "none"
      /\ \A u \in Users : u # x => users'[u] = users[u]
  BY <1>2, <1>3 DEF TenancyInv, Shapes
<1>5. OwnersKept
  BY <1>2, <1>4 DEF OwnersKept
<1>6. NoFirstUser
  BY <1>2, <1>3, <1>4, PassedUser DEF NoFirstUser
<1> QED BY <1>2, <1>4, <1>5, <1>6, HandlerKeeps DEF TenancyInv, Shapes

LEMMA RolesStepKeeps ==
  ASSUME TenancyInv, NEW s \in Sessions, NEW id \in CustomRoles \cup {Owner}, NEW code,
         \/ id \in CustomRoles /\ CreateRole(s, id)
         \/ AddPermission(s, id, code)
         \/ RemovePermission(s, id, code)
  PROVE  TenancyInv'
<1>1. PICK role : role = <<Tenant(s), id>>
  OBVIOUS
<1>2. /\ sess[s].step = "passed" /\ Become(s, Idle)
      /\ UNCHANGED <<tenants, users, grants, tokens, abandoned, revoked>>
  BY DEF CreateRole, AddPermission, RemovePermission, Passed, history
<1>3. role[2] # Owner
  BY <1>1, TenancyAssumption DEF CreateRole, AddPermission, RemovePermission, Editable
<1>4. /\ roles' = [r \in DOMAIN roles' |-> roles'[r]] /\ DOMAIN roles \subseteq DOMAIN roles'
      /\ \A r \in DOMAIN roles : r # role => roles'[r] = roles[r]
  <2>1. CASE CreateRole(s, id)
    BY <1>1, <2>1 DEF CreateRole
  <2>2. CASE AddPermission(s, id, code)
    BY <1>1, <2>2 DEF AddPermission, TenancyInv, Shapes
  <2>3. CASE RemovePermission(s, id, code)
    BY <1>1, <2>3 DEF RemovePermission, TenancyInv, Shapes
  <2> QED BY <2>1, <2>2, <2>3
<1>5. OwnersKept /\ NoFirstUser
  <2>1. \A k \in TenantIds : <<k, Owner>> # role
    BY <1>3
  <2> QED BY <1>2, <1>4, <2>1 DEF OwnersKept, NoFirstUser
<1> QED BY <1>2, <1>4, <1>5, HandlerKeeps DEF TenancyInv, Shapes

\* A grant adds one row.
LEMMA GrantedRow ==
  ASSUME NEW user, NEW company, NEW role
  PROVE  \E n : Granted(user, company, role) =
                  grants \cup {[user |-> user, company |-> company, role |-> role, copy |-> n]}
  BY DEF Granted

LEMMA GrantKeeps ==
  ASSUME TenancyInv, NEW s \in Sessions, NEW email \in Emails, NEW company, NEW role,
         Grant(s, email, company, role)
  PROVE  TenancyInv'
<1>1. PICK user : user = <<Tenant(s), email>>
  OBVIOUS
<1>2. /\ sess[s].step = "passed" /\ Become(s, Idle) /\ grants' = Granted(user, company, role)
      /\ UNCHANGED <<tenants, users, roles, tokens, abandoned, revoked>>
  BY <1>1 DEF Grant, Passed, history
<1>3. PICK n : grants' = grants \cup {[user |-> user, company |-> company, role |-> role, copy |-> n]}
  <2>1. \E n : Granted(user, company, role) =
               grants \cup {[user |-> user, company |-> company, role |-> role, copy |-> n]}
    BY GrantedRow, Zenon
  <2> QED BY <1>2, <2>1
<1>4. OwnersKept /\ NoFirstUser
  BY <1>2, <1>3 DEF OwnersKept, NoFirstUser
<1> QED BY <1>2, <1>4, HandlerKeeps DEF TenancyInv, Shapes

LEMMA RevokeKeeps ==
  ASSUME TenancyInv, NEW s \in Sessions, NEW g \in grants, Revoke(s, g)
  PROVE  TenancyInv'
<1>1. /\ sess[s].step = "passed" /\ Become(s, Idle) /\ grants' = grants \ {g}
      /\ g.user[1] = Tenant(s)
      /\ revoked' = IF g.role = <<Tenant(s), Owner>> THEN revoked \cup {Tenant(s)} ELSE revoked
      /\ UNCHANGED <<tenants, users, roles, tokens, abandoned>>
  BY DEF Revoke, Passed, Visible
<1>2. \A id \in TenantIds, h \in grants :
        h.user[1] = id /\ h.role = <<id, Owner>> => h \in grants' \/ id \in revoked'
  BY <1>1
<1>3. OwnersKept /\ NoFirstUser
  BY <1>1, <1>2 DEF OwnersKept, NoFirstUser
<1> QED BY <1>1, <1>3, HandlerKeeps DEF TenancyInv, Shapes

-----------------------------------------------------------------------------
(***************************************************************************)
(* The steps of a sign-up.                                                 *)
(***************************************************************************)
LEMMA TokenUsers ==
  ASSUME TenancyInv, NEW n \in DOMAIN tokens
  PROVE  tokens[n].user \in Users /\ users[tokens[n].user] # "none"
<1>1. PICK y \in Token : y = tokens[n]
  BY DEF TenancyInv, Shapes
<1> QED BY <1>1 DEF Token, TenancyInv

LEMMA FailKeeps ==
  ASSUME TenancyInv, NEW s \in Sessions, Fail(s)
  PROVE  TenancyInv'
<1>0. PICK id : id = sess[s].tenant
  OBVIOUS
<1>1. /\ Become(s, Idle) /\ UNCHANGED <<tenants, users, roles, grants, tokens, revoked>>
      /\ abandoned' = IF sess[s].step = "tenant" THEN abandoned \cup {id} ELSE abandoned
  BY <1>0 DEF Fail, access
<1>2. CASE sess[s].step # "tenant"
  BY <1>1, <1>2, IdleStep, RequestStepKeeps
<1>3. CASE sess[s].step = "tenant"
  <2>1. /\ sess'[s] = Idle /\ \A u \in Sessions : u # s => sess'[u] = sess[u]
        /\ sess' = [u \in Sessions |-> sess'[u]]
    BY <1>1, Becomes DEF TenancyInv
  <2>2. /\ id \in Ids \ abandoned /\ \A u \in Sessions : SigningUp(u, id) => u = s
        /\ abandoned' = abandoned \cup {id} /\ Ids' = Ids /\ SigningUp(s, id)
    BY <1>0, <1>1, <1>3 DEF TenancyInv, SessionOK, Ids, SigningUp
  <2>3. Shapes' /\ KeysOK'
    BY <1>1, <2>1, <2>2 DEF TenancyInv, Shapes, KeysOK
  <2>4. ASSUME NEW u \in Sessions PROVE SessionOK(u)'
    <3>1. CASE u = s
      BY <2>1, <3>1, IdleStep DEF SessionOK
    <3>2. CASE u # s
      <4>1. SessionOK(u) /\ sess'[u] = sess[u]
        BY <2>1, <3>2 DEF TenancyInv
      <4>2. PICK k : k = sess[u].tenant
        OBVIOUS
      <4>3. sess[u].step = "tenant" => k \in Ids' \ abandoned'
        BY <2>2, <3>2, <4>1, <4>2 DEF SessionOK, SigningUp
      <4>4. \A v \in Sessions : SigningUp(v, k)' => SigningUp(v, k)
        BY <2>1, IdleStep DEF SigningUp
      <4> QED BY <1>1, <4>1, <4>2, <4>3, <4>4 DEF SessionOK
    <3> QED BY <3>1, <3>2
  <2>5. TenantsAreOwned'
    <3> SUFFICES ASSUME NEW t \in tenants
                 PROVE  /\ \A u \in tenants \ {t} : u.slug # t.slug
                        /\ IF t.id \in abandoned' \/ \E u \in Sessions : SigningUp(u, t.id)'
                           THEN \A e \in Emails : users[<<t.id, e>>] = "none"
                           ELSE HasOwner(t.id)'
      BY <1>1 DEF TenantsAreOwned
    <3>1. /\ \A u \in tenants \ {t} : u.slug # t.slug
          /\ IF t.id \in abandoned \/ \E u \in Sessions : SigningUp(u, t.id)
             THEN \A e \in Emails : users[<<t.id, e>>] = "none"
             ELSE HasOwner(t.id)
      BY DEF TenancyInv, TenantsAreOwned
    <3>2. HasOwner(t.id) => HasOwner(t.id)'
      BY <1>1 DEF HasOwner
    <3>3. t.id # id => \A u \in Sessions : SigningUp(u, t.id)' <=> SigningUp(u, t.id)
      BY <1>0, <2>1, IdleStep DEF SigningUp
    <3> QED BY <2>2, <3>1, <3>2, <3>3
  <2> QED BY <1>1, <2>3, <2>4, <2>5 DEF TenancyInv
<1> QED BY <1>2, <1>3

LEMMA LeastIsIn ==
  ASSUME NEW T \in SUBSET TenantIds, T # {}
  PROVE  Min(T) \in T
<1>1. T \in SUBSET Nat
  BY TenancyAssumption
<1>2. PICK m \in T : \A k \in T : m <= k
  BY <1>1, LeastNatural
<1> QED BY <1>2 DEF Min

LEMMA CreateTenantKeeps ==
  ASSUME TenancyInv, NEW s \in Sessions, CreateTenant(s)
  PROVE  TenancyInv'
<1>0. PICK id, new, x : /\ id = Min(TenantIds \ {t.id : t \in tenants})
                        /\ new = [id |-> id, slug |-> sess[s].slug]
                        /\ x = [step |-> "tenant", tenant |-> id]
  OBVIOUS
<1>1. /\ id \in TenantIds \ Ids /\ tenants' = tenants \cup {new}
      /\ new.id = id /\ x.step = "tenant" /\ x.tenant = id
      /\ \A t \in tenants : t.slug # new.slug
      /\ sess[s].step = "checked" /\ Become(s, x)
      /\ UNCHANGED <<users, roles, grants, tokens, abandoned, revoked>>
  <2>1. id \in TenantIds \ Ids
    BY <1>0, LeastIsIn DEF CreateTenant, Ids
  <2> QED BY <1>0, <2>1 DEF CreateTenant, TakesSlug, SlugFree, access, history
<1>2. /\ sess'[s] = x /\ \A u \in Sessions : u # s => sess'[u] = sess[u]
      /\ sess' = [u \in Sessions |-> sess'[u]]
  BY <1>1, Becomes DEF TenancyInv
<1>3. Ids' = Ids \cup {id}
  BY <1>1 DEF Ids
<1>4. Shapes' /\ KeysOK'
  <2>1. Shapes'
    BY <1>1, <1>2, <1>3 DEF TenancyInv, Shapes
  <2>2. \A t \in tenants : t.id \in Ids
    BY DEF Ids
  <2>3. \A t, u \in tenants' : t.id = u.id \/ t.slug = u.slug => t = u
    BY <1>1, <2>2 DEF TenancyInv, KeysOK
  <2> QED BY <1>1, <1>3, <2>1, <2>3 DEF TenancyInv, KeysOK
<1>5. \A u \in Sessions : sess[u].step = "tenant" => sess[u].tenant \in Ids /\ u # s
  BY <1>1 DEF TenancyInv, SessionOK
<1>6. \A k \in Ids : \A u \in Sessions : SigningUp(u, k)' <=> SigningUp(u, k)
  BY <1>1, <1>2 DEF SigningUp
<1>7. ASSUME NEW u \in Sessions PROVE SessionOK(u)'
  <2>1. CASE u = s
    <3>1. \A v \in Sessions : SigningUp(v, id)' => v = s
      BY <1>1, <1>2, <1>5 DEF SigningUp
    <3>2. id \in Ids' \ abandoned'
      BY <1>1, <1>3 DEF TenancyInv, Shapes
    <3> QED BY <1>1, <1>2, <2>1, <3>1, <3>2 DEF SessionOK
  <2>2. CASE u # s
    <3>1. SessionOK(u) /\ sess'[u] = sess[u]
      BY <1>2, <2>2 DEF TenancyInv
    <3>2. PICK k : k = sess[u].tenant
      OBVIOUS
    <3>3. sess[u].step = "tenant" =>
            k \in Ids' \ abandoned' /\ \A v \in Sessions : SigningUp(v, k)' => v = u
      BY <1>1, <1>3, <1>6, <3>1, <3>2 DEF SessionOK
    <3> QED BY <1>1, <3>1, <3>2, <3>3 DEF SessionOK
  <2> QED BY <2>1, <2>2
<1>8. TenantsAreOwned'
  <2> SUFFICES ASSUME NEW t \in tenants'
               PROVE  /\ \A u \in tenants' \ {t} : u.slug # t.slug
                      /\ IF t.id \in abandoned \/ \E u \in Sessions : SigningUp(u, t.id)'
                         THEN \A e \in Emails : users[<<t.id, e>>] = "none"
                         ELSE HasOwner(t.id)'
    BY <1>1 DEF TenantsAreOwned
  <2>1. \A u \in tenants' \ {t} : u.slug # t.slug
    BY <1>1 DEF TenancyInv, TenantsAreOwned
  <2>2. CASE t = new
    <3>1. ASSUME NEW e \in Emails PROVE users[<<id, e>>] = "none"
      <4>1. PICK y : y = <<id, e>>
        OBVIOUS
      <4>2. y \in Users /\ y[1] \notin Ids
        BY <1>1, <4>1 DEF Users
      <4> QED BY <4>1, <4>2 DEF TenancyInv, KeysOK
    <3>2. SigningUp(s, id)'
      BY <1>1, <1>2 DEF SigningUp
    <3> QED BY <1>1, <2>1, <2>2, <3>1, <3>2
  <2>3. CASE t \in tenants
    <3>1. IF t.id \in abandoned \/ \E u \in Sessions : SigningUp(u, t.id)
          THEN \A e \in Emails : users[<<t.id, e>>] = "none"
          ELSE HasOwner(t.id)
      BY <2>3 DEF TenancyInv, TenantsAreOwned
    <3>2. HasOwner(t.id) => HasOwner(t.id)'
      BY <1>1 DEF HasOwner
    <3>3. \A u \in Sessions : SigningUp(u, t.id)' <=> SigningUp(u, t.id)
      BY <1>6, <2>3 DEF Ids
    <3> QED BY <2>1, <3>1, <3>2, <3>3
  <2> QED BY <1>1, <2>2, <2>3
<1> QED BY <1>1, <1>4, <1>7, <1>8 DEF TenancyInv

LEMMA CreateOwnerKeeps ==
  ASSUME TenancyInv, NEW s \in Sessions, NEW email \in Emails, CreateOwner(s, email)
  PROVE  TenancyInv'
<1>0. PICK id, user, role, x :
        /\ id = sess[s].tenant /\ user = <<id, email>> /\ role = <<id, Owner>>
        /\ x = [step |-> "issue", user |-> user, from |-> NoToken]
  OBVIOUS
<1>1. /\ sess[s].step = "tenant" /\ users' = [users EXCEPT ![user] = "active"]
      /\ roles' = [r \in DOMAIN roles \cup {role} |-> IF r = role THEN Codes ELSE roles[r]]
      /\ grants' = Granted(user, Everywhere, role) /\ Become(s, x)
      /\ UNCHANGED <<tenants, tokens, abandoned, revoked>>
  BY <1>0 DEF CreateOwner, history
<1>2. /\ sess'[s] = x /\ \A u \in Sessions : u # s => sess'[u] = sess[u]
      /\ sess' = [u \in Sessions |-> sess'[u]]
  BY <1>1, Becomes DEF TenancyInv
<1>3. PICK n : grants' = grants \cup {[user |-> user, company |-> Everywhere, role |-> role, copy |-> n]}
  <2>1. \E n : Granted(user, Everywhere, role) =
               grants \cup {[user |-> user, company |-> Everywhere, role |-> role, copy |-> n]}
    BY GrantedRow, Zenon
  <2> QED BY <1>1, <2>1
<1>4. /\ id \in Ids \ abandoned /\ \A u \in Sessions : SigningUp(u, id) => u = s
      /\ id \in TenantIds /\ user \in Users /\ user[1] = id /\ Ids' = Ids
  BY <1>0, <1>1 DEF TenancyInv, SessionOK, Shapes, Ids, Users
<1>5. /\ users' \in [Users -> {"none", "active", "disabled"}] /\ users'[user] = "active"
      /\ \A u \in Users : u # user => users'[u] = users[u]
  BY <1>1, <1>4 DEF TenancyInv, Shapes
<1>6. Shapes' /\ KeysOK'
  BY <1>1, <1>2, <1>4, <1>5 DEF TenancyInv, Shapes, KeysOK
<1>7. \A k : k # id => \A u \in Sessions : SigningUp(u, k)' <=> SigningUp(u, k)
  BY <1>0, <1>2 DEF SigningUp
<1>8. \A u \in Sessions : ~SigningUp(u, id)'
  BY <1>0, <1>2, <1>4 DEF SigningUp
<1>9. ASSUME NEW u \in Sessions PROVE SessionOK(u)'
  <2>1. CASE u = s
    BY <1>0, <1>2, <1>4, <1>5, <2>1 DEF SessionOK, NoToken
  <2>2. CASE u # s
    <3>1. SessionOK(u) /\ sess'[u] = sess[u]
      BY <1>2, <2>2 DEF TenancyInv
    <3>2. PICK k : k = sess[u].tenant
      OBVIOUS
    <3>3. sess[u].step = "tenant" =>
            k \in Ids' \ abandoned' /\ \A v \in Sessions : SigningUp(v, k)' => v = u
      BY <1>1, <1>4, <1>7, <1>8, <3>1, <3>2 DEF SessionOK
    <3>4. \A v \in Users : users[v] # "none" => users'[v] # "none"
      BY <1>5
    <3> QED BY <1>1, <3>1, <3>2, <3>3, <3>4 DEF SessionOK
  <2> QED BY <2>1, <2>2
<1>10. \A n1 \in DOMAIN tokens' : users'[tokens'[n1].user] # "none"
  BY <1>1, <1>5, TokenUsers
<1>11. TenantsAreOwned'
  <2> SUFFICES ASSUME NEW t \in tenants
               PROVE  /\ \A u \in tenants \ {t} : u.slug # t.slug
                      /\ IF t.id \in abandoned \/ \E u \in Sessions : SigningUp(u, t.id)'
                         THEN \A e \in Emails : users'[<<t.id, e>>] = "none"
                         ELSE HasOwner(t.id)'
    BY <1>1 DEF TenantsAreOwned
  <2>0. /\ \A u \in tenants \ {t} : u.slug # t.slug
        /\ IF t.id \in abandoned \/ \E u \in Sessions : SigningUp(u, t.id)
           THEN \A e \in Emails : users[<<t.id, e>>] = "none"
           ELSE HasOwner(t.id)
        /\ t.id \in TenantIds
    BY DEF TenancyInv, TenantsAreOwned, Shapes
  <2>1. CASE t.id = id
    <3>1. HasOwner(id)'
      <4>1. role \in DOMAIN roles' /\ roles'[role] = Codes
        BY <1>1
      <4>2. PICK g : g = [user |-> user, company |-> Everywhere, role |-> role, copy |-> n]
        OBVIOUS
      <4>3. g \in grants' /\ g.user[1] = id /\ g.role = role /\ g.company = Everywhere
        BY <1>3, <1>4, <4>2
      <4> QED BY <1>0, <4>1, <4>3 DEF HasOwner
    <3> QED BY <1>4, <1>8, <2>0, <2>1, <3>1
  <2>2. CASE t.id # id
    <3>1. ASSUME NEW e \in Emails PROVE users'[<<t.id, e>>] = users[<<t.id, e>>]
      BY <1>0, <1>5, <2>0, <2>2 DEF Users
    <3>2. HasOwner(t.id) => HasOwner(t.id)'
      BY <1>0, <1>1, <1>3, <2>2 DEF HasOwner
    <3> QED BY <1>7, <2>0, <2>2, <3>1, <3>2
  <2> QED BY <2>1, <2>2
<1> QED BY <1>6, <1>9, <1>10, <1>11 DEF TenancyInv

-----------------------------------------------------------------------------
LEMMA TenancyStep == TenancyInv /\ [Next]_vars => TenancyInv'
<1> SUFFICES ASSUME TenancyInv, [Next]_vars PROVE TenancyInv'
  OBVIOUS
<1>1. ASSUME NEW s \in Sessions, SignupStep(s) PROVE TenancyInv'
  BY <1>1, BeginSignupKeeps, CreateTenantKeeps, CreateOwnerKeeps DEF SignupStep
<1>2. ASSUME NEW s \in Sessions, TokenStep(s) PROVE TenancyInv'
  BY <1>2, LoginKeeps, LogoutEverywhereKeeps, IssueKeeps, FindTokenKeeps, RevokeTokenKeeps
     DEF TokenStep
<1>3. ASSUME NEW s \in Sessions, GuardedStep(s) PROVE TenancyInv'
  BY <1>3, GuardKeeps, UsersStepKeeps, RolesStepKeeps, GrantKeeps, RevokeKeeps,
     YearsStepKeeps, BeginNextFiscalYearKeeps DEF GuardedStep
<1>4. ASSUME NEW s \in Sessions, Fail(s) PROVE TenancyInv'
  BY <1>4, FailKeeps
<1>5. CASE UNCHANGED vars
  <2>1. Ids' = Ids /\ \A id : \A u \in Sessions : SigningUp(u, id)' <=> SigningUp(u, id)
    BY <1>5 DEF vars, Ids, SigningUp
  <2>2. Shapes' /\ KeysOK'
    BY <1>5, <2>1 DEF vars, TenancyInv, Shapes, KeysOK
  <2>3. \A s \in Sessions : SessionOK(s)'
    BY <1>5, <2>1 DEF vars, TenancyInv, SessionOK, SigningUp
  <2>4. TenantsAreOwned'
    BY <1>5, <2>1 DEF vars, TenancyInv, TenantsAreOwned, HasOwner, SigningUp
  <2> QED BY <1>5, <2>2, <2>3, <2>4 DEF vars, TenancyInv
<1> QED BY <1>1, <1>2, <1>3, <1>4, <1>5 DEF Next

\* The inductive invariant of sign-ups, tokens, accounts, roles and grants.
THEOREM TenancyInvariant == Spec => []TenancyInv
<1> QED BY TenancyInit, TenancyStep, PTL DEF Spec

\* However sign-ups overlap or fail, a tenant that is past its sign-up has its Owner role
\* with the whole catalogue and, unless a request revoked it, somebody it was granted to.
THEOREM TenantsAreAlwaysOwned == Spec => []TenantsAreOwned
<1>1. TenancyInv => TenantsAreOwned
  BY DEF TenancyInv
<1> QED BY <1>1, TenancyInvariant, PTL

-----------------------------------------------------------------------------
(***************************************************************************)
(* Refresh tokens are exchanged once.                                      *)
(***************************************************************************)
LEMMA TokenList ==
  ASSUME TenancyInv
  PROVE  /\ Len(tokens) \in Nat /\ DOMAIN tokens = 1..Len(tokens)
         /\ \A n \in DOMAIN tokens : /\ tokens[n].from \in Nat /\ tokens[n].racing \in Nat
                                     /\ tokens[n].live \in BOOLEAN
<1>1. tokens \in Seq(Token)
  BY DEF TenancyInv, Shapes
<1>2. ASSUME NEW n \in DOMAIN tokens
      PROVE  tokens[n].from \in Nat /\ tokens[n].racing \in Nat /\ tokens[n].live \in BOOLEAN
  <2>1. PICK x \in Token : x = tokens[n]
    BY <1>1
  <2> QED BY <2>1 DEF Token
<1> QED BY <1>1, <1>2

\* The requests and successors of a token can be counted.
LEMMA Counted ==
  ASSUME TenancyInv, NEW t
  PROVE  /\ IsFiniteSet(Successors(t)) /\ IsFiniteSet(Exchanging(t)) /\ IsFiniteSet(Holding(t))
         /\ Cardinality(Successors(t)) \in Nat /\ Cardinality(Exchanging(t)) \in Nat
         /\ Cardinality(Holding(t)) \in Nat
<1>1. IsFiniteSet(DOMAIN tokens)
  <2>1. IsFiniteSet(1..Len(tokens))
    BY TokenList, FS_Interval
  <2> QED BY <2>1, TokenList
<1>2. Successors(t) \in SUBSET DOMAIN tokens
  BY DEF Successors
<1>3. Exchanging(t) \in SUBSET Sessions /\ Holding(t) \in SUBSET Sessions
  BY DEF Exchanging, Holding
<1>4. IsFiniteSet(Successors(t)) /\ IsFiniteSet(Exchanging(t)) /\ IsFiniteSet(Holding(t))
  BY <1>1, <1>2, <1>3, TenancyAssumption, FS_Subset
<1> QED BY <1>4, FS_CardinalityType

\* A step that leaves the tokens alone and takes up no exchange but with a live token.
LEMMA ExchangeUntouched ==
  ASSUME TenancyInv, ExchangeInv, tokens' = tokens, NEW s \in Sessions,
         \A u \in Sessions : u # s => sess'[u] = sess[u],
         \/ sess'[s] = sess[s]
         \/ sess'[s].step \notin {"issue", "found"}
         \/ sess'[s].step = "issue" /\ sess'[s].from = NoToken
         \/ sess'[s].step = "found" /\ tokens[sess'[s].token].live
  PROVE  ExchangeInv'
<1>1. ASSUME NEW t \in DOMAIN tokens PROVE ExchangeOK(t)'
  <2>1. t # NoToken
    BY TokenList DEF NoToken
  <2>2. Successors(t)' = Successors(t) /\ Exchanging(t)' \in SUBSET Exchanging(t)
    BY <2>1 DEF Successors, Exchanging
  <2>3. ExchangeOK(t)
    BY DEF ExchangeInv
  <2>4. CASE tokens[t].live
    BY <2>2, <2>3, <2>4 DEF ExchangeOK
  <2>5. CASE ~ tokens[t].live
    <3>1. Holding(t)' \in SUBSET Holding(t)
      BY <2>5 DEF Holding
    <3>2. PICK e, h : e = Exchanging(t)' /\ h = Holding(t)'
      OBVIOUS
    <3>3. /\ Cardinality(e) \in Nat /\ Cardinality(e) <= Cardinality(Exchanging(t))
          /\ Cardinality(h) \in Nat /\ Cardinality(h) <= Cardinality(Holding(t))
      <4>1. e \in SUBSET Exchanging(t) /\ h \in SUBSET Holding(t)
        BY <2>2, <3>1, <3>2
      <4>2. IsFiniteSet(Exchanging(t)) /\ IsFiniteSet(Holding(t))
        BY Counted
      <4>3. /\ Cardinality(e) <= Cardinality(Exchanging(t)) /\ IsFiniteSet(e)
            /\ Cardinality(h) <= Cardinality(Holding(t)) /\ IsFiniteSet(h)
        BY <4>1, <4>2, FS_Subset
      <4> QED BY <4>3, FS_CardinalityType
    <3>4. Cardinality(Successors(t)) + Cardinality(e) + Cardinality(h) <= tokens[t].racing
      BY <2>3, <2>5, <3>3, Counted, TokenList DEF ExchangeOK
    <3>5. Cardinality(Successors(t))' = Cardinality(Successors(t))
      BY <2>2
    <3> QED BY <2>5, <3>2, <3>4, <3>5 DEF ExchangeOK
  <2> QED BY <2>4, <2>5
<1>2. ASSUME NEW u \in Sessions, sess'[u].step = "issue" PROVE sess'[u].from <= Len(tokens)
  BY <1>2, TokenList DEF ExchangeInv, NoToken
<1> QED BY <1>1, <1>2 DEF ExchangeInv

LEMMA IssueExchanges ==
  ASSUME TenancyInv, ExchangeInv, NEW s \in Sessions, Issue(s)
  PROVE  ExchangeInv'
<1>1. PICK f, n : f = sess[s].from /\ n = Len(tokens) + 1
  OBVIOUS
<1>2. PICK x : x = [user |-> sess[s].user, from |-> f, live |-> TRUE, racing |-> 0]
  OBVIOUS
<1>3. /\ sess[s].step = "issue" /\ tokens' = Append(tokens, x) /\ Become(s, Idle)
      /\ f \in Nat /\ f <= Len(tokens)
  BY <1>1, <1>2 DEF Issue, TenancyInv, SessionOK, ExchangeInv
<1>4. sess'[s] = Idle /\ \A u \in Sessions : u # s => sess'[u] = sess[u]
  BY <1>3, Becomes DEF TenancyInv
<1>5. /\ DOMAIN tokens' = DOMAIN tokens \cup {n} /\ n \notin DOMAIN tokens /\ n \in Nat
      /\ Len(tokens') = n /\ tokens'[n] = x /\ \A k \in DOMAIN tokens : tokens'[k] = tokens[k] /\ k < n
  <2>1. tokens \in Seq(Token)
    BY DEF TenancyInv, Shapes
  <2> QED BY <1>1, <1>3, <2>1
<1>6. ASSUME NEW t \in DOMAIN tokens PROVE ExchangeOK(t)'
  <2>1. /\ Holding(t)' = Holding(t)
        /\ Successors(t)' = IF t = f THEN Successors(t) \cup {n} ELSE Successors(t)
        /\ Exchanging(t)' = IF t = f THEN Exchanging(t) \ {s} ELSE Exchanging(t)
        /\ t = f => s \in Exchanging(t)
        /\ n \notin Successors(t)
    <3>1. Holding(t)' = Holding(t)
      BY <1>3, <1>4, IdleStep DEF Holding
    <3>2. Successors(t)' = IF t = f THEN Successors(t) \cup {n} ELSE Successors(t)
      BY <1>2, <1>5 DEF Successors
    <3>3. Exchanging(t)' = IF t = f THEN Exchanging(t) \ {s} ELSE Exchanging(t)
      BY <1>1, <1>3, <1>4, IdleStep DEF Exchanging
    <3> QED BY <1>1, <1>3, <1>5, <3>1, <3>2, <3>3 DEF Exchanging, Successors
  <2>2. ExchangeOK(t) /\ tokens'[t] = tokens[t]
    BY <1>5 DEF ExchangeInv
  <2>3. CASE t # f
    BY <2>1, <2>2, <2>3 DEF ExchangeOK
  <2>4. CASE t = f
    <3>1. ~ tokens[t].live
      BY <2>1, <2>2, <2>4 DEF ExchangeOK
    <3>2. /\ Cardinality(Successors(t) \cup {n}) = Cardinality(Successors(t)) + 1
          /\ Cardinality(Exchanging(t) \ {s}) = Cardinality(Exchanging(t)) - 1
      BY <2>1, <2>4, Counted, FS_AddElement, FS_RemoveElement
    <3>3. /\ Cardinality(Successors(t))' = Cardinality(Successors(t)) + 1
          /\ Cardinality(Exchanging(t))' = Cardinality(Exchanging(t)) - 1
          /\ Cardinality(Holding(t))' = Cardinality(Holding(t))
      BY <2>1, <2>4, <3>2
    <3> QED BY <2>2, <3>1, <3>3, Counted, TokenList DEF ExchangeOK
  <2> QED BY <2>3, <2>4
<1>7. ExchangeOK(n)'
  <2>1. \A k \in DOMAIN tokens : tokens[k].from # n
    <3>1. \A k \in DOMAIN tokens : tokens[k].from < k /\ tokens[k].from \in Nat /\ k \in Nat /\ k < n
      BY <1>5, TokenList DEF ExchangeInv
    <3> QED BY <1>5, <3>1
  <2>2. f # n /\ x.from = f /\ x.live = TRUE
    BY <1>1, <1>2, <1>3, TokenList
  <2>3. Successors(n)' = {}
    BY <1>5, <2>1, <2>2 DEF Successors
  <2>4. Exchanging(n)' = {}
    <3>1. \A u \in Sessions : sess[u].step = "issue" => sess[u].from # n
      BY <1>1, TokenList DEF ExchangeInv, TenancyInv, SessionOK
    <3> QED BY <1>4, <3>1, IdleStep DEF Exchanging
  <2> QED BY <1>5, <2>2, <2>3, <2>4 DEF ExchangeOK
<1>8. \A k \in DOMAIN tokens' : tokens'[k].from < k
  BY <1>1, <1>2, <1>3, <1>5, TokenList DEF ExchangeInv
<1>9. ASSUME NEW u \in Sessions, sess'[u].step = "issue" PROVE sess'[u].from <= Len(tokens')
  <2>1. u # s /\ sess'[u] = sess[u]
    BY <1>4, <1>9, IdleStep
  <2>2. sess[u].from \in Nat /\ sess[u].from <= Len(tokens)
    BY <1>9, <2>1 DEF ExchangeInv, TenancyInv, SessionOK
  <2> QED BY <1>1, <1>5, <2>1, <2>2, TokenList
<1> QED BY <1>5, <1>6, <1>7, <1>8, <1>9 DEF ExchangeInv

\* What revoking a token makes of it.
LEMMA RevokedRow ==
  ASSUME TenancyInv, NEW t \in DOMAIN tokens
  PROVE  /\ Revoked(t).from = tokens[t].from /\ ~ Revoked(t).live
         /\ Revoked(t).racing = IF tokens[t].live THEN Cardinality(Holding(t)) ELSE tokens[t].racing
<1>1. PICK x \in Token : x = tokens[t]
  BY DEF TenancyInv, Shapes
<1>2. PICK k, no : k = Cardinality(Holding(t)) /\ no = FALSE
  OBVIOUS
<1>3. PICK y : y = [x EXCEPT !.live = no]
  OBVIOUS
<1>4. y = [user |-> x.user, from |-> x.from, live |-> no, racing |-> x.racing]
  BY <1>3 DEF Token
<1>5. [y EXCEPT !.racing = k] = [user |-> x.user, from |-> x.from, live |-> no, racing |-> k]
  BY <1>4
<1>6. Revoked(t) = IF ~x.live THEN x ELSE [y EXCEPT !.racing = k]
  BY <1>1, <1>2, <1>3 DEF Revoked, Holding
<1> QED BY <1>1, <1>2, <1>5, <1>6

LEMMA RevokeTokenExchanges ==
  ASSUME TenancyInv, ExchangeInv, NEW s \in Sessions, RevokeToken(s)
  PROVE  ExchangeInv'
<1>1. PICK n : n = sess[s].token
  OBVIOUS
<1>2. PICK x : x = [step |-> "issue", user |-> tokens[n].user, from |-> n]
  OBVIOUS
<1>3. /\ sess[s].step = "found" /\ n \in DOMAIN tokens /\ Become(s, x)
      /\ tokens' = [tokens EXCEPT ![n] = Revoked(n)]
  BY <1>1, <1>2 DEF RevokeToken, TenancyInv, SessionOK
<1>4. sess'[s] = x /\ \A u \in Sessions : u # s => sess'[u] = sess[u]
  BY <1>3, Becomes DEF TenancyInv
<1>5. /\ DOMAIN tokens' = DOMAIN tokens /\ Len(tokens') = Len(tokens)
      /\ tokens'[n].from = tokens[n].from /\ ~ tokens'[n].live
      /\ tokens'[n].racing = IF tokens[n].live THEN Cardinality(Holding(n)) ELSE tokens[n].racing
      /\ \A k \in DOMAIN tokens : k # n => tokens'[k] = tokens[k]
  <2>1. tokens \in Seq(Token)
    BY DEF TenancyInv, Shapes
  <2>2. tokens'[n] = Revoked(n) /\ DOMAIN tokens' = DOMAIN tokens /\ Len(tokens') = Len(tokens)
    BY <1>3, <2>1
  <2> QED BY <1>3, <2>2, RevokedRow
<1>6. \A t : Successors(t)' = Successors(t)
  BY <1>5 DEF Successors
<1>7. ASSUME NEW t \in DOMAIN tokens, t # n PROVE ExchangeOK(t)'
  <2>1. Holding(t)' = Holding(t) /\ Exchanging(t)' = Exchanging(t)
    BY <1>1, <1>2, <1>3, <1>4, <1>7 DEF Holding, Exchanging
  <2> QED BY <1>5, <1>6, <1>7, <2>1 DEF ExchangeInv, ExchangeOK
<1>8. ExchangeOK(n)'
  <2>1. /\ Holding(n)' = Holding(n) \ {s} /\ s \in Holding(n)
        /\ Exchanging(n)' = Exchanging(n) \cup {s} /\ s \notin Exchanging(n)
    BY <1>1, <1>2, <1>3, <1>4 DEF Holding, Exchanging
  <2>2. /\ Cardinality(Holding(n) \ {s}) = Cardinality(Holding(n)) - 1
        /\ Cardinality(Exchanging(n) \cup {s}) = Cardinality(Exchanging(n)) + 1
    BY <2>1, Counted, FS_AddElement, FS_RemoveElement
  <2>3. /\ Cardinality(Holding(n))' = Cardinality(Holding(n)) - 1
        /\ Cardinality(Exchanging(n))' = Cardinality(Exchanging(n)) + 1
        /\ Cardinality(Successors(n))' = Cardinality(Successors(n))
    BY <1>6, <2>1, <2>2
  <2>4. ExchangeOK(n)
    BY <1>3 DEF ExchangeInv
  <2>5. Cardinality(Successors(n)) + Cardinality(Exchanging(n)) + Cardinality(Holding(n))
          <= tokens'[n].racing
    <3>1. CASE tokens[n].live
      <4>1. Cardinality(Successors(n)) = 0 /\ Cardinality(Exchanging(n)) = 0
        BY <2>4, <3>1, FS_EmptySet DEF ExchangeOK
      <4> QED BY <1>5, <3>1, <4>1, Counted
    <3>2. CASE ~ tokens[n].live
      BY <1>5, <2>4, <3>2 DEF ExchangeOK
    <3> QED BY <3>1, <3>2
  <2>6. tokens'[n].racing \in Nat
    BY <1>3, <1>5, Counted, TokenList
  <2> QED BY <1>5, <2>3, <2>5, <2>6, Counted DEF ExchangeOK
<1>9. \A u \in Sessions : sess'[u].step = "issue" => sess'[u].from <= Len(tokens')
  BY <1>2, <1>3, <1>4, <1>5, TokenList DEF ExchangeInv
<1> QED BY <1>5, <1>7, <1>8, <1>9 DEF ExchangeInv

LEMMA LogoutEverywhereExchanges ==
  ASSUME TenancyInv, ExchangeInv, NEW s \in Sessions, NEW user, LogoutEverywhere(s, user)
  PROVE  ExchangeInv'
<1>1. /\ tokens' = [t \in DOMAIN tokens |-> IF tokens[t].user = user THEN Revoked(t) ELSE tokens[t]]
      /\ sess' = sess
  BY DEF LogoutEverywhere
<1>2. DOMAIN tokens' = DOMAIN tokens /\ Len(tokens') = Len(tokens)
  <2>1. tokens \in Seq(Token)
    BY DEF TenancyInv, Shapes
  <2>2. tokens' \in Seq(Token)
    BY <1>1, <2>1, RevokedType
  <2> QED BY <1>1, <2>1, <2>2
<1>3. ASSUME NEW t \in DOMAIN tokens
      PROVE  /\ tokens'[t].from = tokens[t].from
             /\ \/ tokens'[t] = tokens[t]
                \/ /\ ~ tokens'[t].live
                   /\ tokens'[t].racing = IF tokens[t].live THEN Cardinality(Holding(t))
                                          ELSE tokens[t].racing
  BY <1>1, RevokedRow
<1>4. \A t : /\ Successors(t)' = Successors(t) /\ Holding(t)' = Holding(t)
             /\ Exchanging(t)' = Exchanging(t)
  BY <1>1, <1>2, <1>3 DEF Successors, Holding, Exchanging
<1>5. ASSUME NEW t \in DOMAIN tokens PROVE ExchangeOK(t)'
  <2>1. ExchangeOK(t)
    BY DEF ExchangeInv
  <2>2. CASE tokens'[t] = tokens[t]
    BY <1>4, <2>1, <2>2 DEF ExchangeOK
  <2>3. CASE ~ tokens'[t].live /\ ~ tokens[t].live /\ tokens'[t].racing = tokens[t].racing
    BY <1>4, <2>1, <2>3 DEF ExchangeOK
  <2>4. CASE ~ tokens'[t].live /\ tokens[t].live /\ tokens'[t].racing = Cardinality(Holding(t))
    <3>1. Cardinality(Successors(t)) = 0 /\ Cardinality(Exchanging(t)) = 0
      BY <2>1, <2>4, FS_EmptySet DEF ExchangeOK
    <3>2. 0 + 0 + Cardinality(Holding(t)) <= tokens'[t].racing
      BY <2>4, Counted
    <3> QED BY <1>4, <2>4, <3>1, <3>2 DEF ExchangeOK
  <2> QED BY <1>3, <2>2, <2>3, <2>4
<1> QED BY <1>1, <1>2, <1>3, <1>5 DEF ExchangeInv

LEMMA ExchangeInit == Init => ExchangeInv
BY DEF Init, ExchangeInv, Idle

LEMMA ExchangeStep == TenancyInv /\ ExchangeInv /\ [Next]_vars => ExchangeInv'
<1> SUFFICES ASSUME TenancyInv, ExchangeInv, [Next]_vars PROVE ExchangeInv'
  OBVIOUS
<1>1. ASSUME NEW s \in Sessions, NEW x, Become(s, x), tokens' = tokens,
             \/ x.step \notin {"issue", "found"}
             \/ x.step = "issue" /\ x.from = NoToken
             \/ x.step = "found" /\ tokens[x.token].live
      PROVE  ExchangeInv'
  <2>1. sess'[s] = x /\ \A u \in Sessions : u # s => sess'[u] = sess[u]
    BY <1>1, Becomes DEF TenancyInv
  <2> QED BY <1>1, <2>1, ExchangeUntouched
<1>2. ASSUME NEW s \in Sessions, Become(s, Idle), tokens' = tokens PROVE ExchangeInv'
  BY <1>1, <1>2, IdleStep
<1>3. ASSUME NEW s \in Sessions, SignupStep(s) PROVE ExchangeInv'
  <2>1. ASSUME NEW slug, BeginSignup(s, slug) PROVE ExchangeInv'
    BY <1>1, <2>1 DEF BeginSignup
  <2>2. ASSUME CreateTenant(s) PROVE ExchangeInv'
    BY <1>1, <2>2 DEF CreateTenant
  <2>3. ASSUME NEW email, CreateOwner(s, email) PROVE ExchangeInv'
    BY <1>1, <2>3 DEF CreateOwner
  <2> QED BY <1>3, <2>1, <2>2, <2>3 DEF SignupStep
<1>4. ASSUME NEW s \in Sessions, TokenStep(s) PROVE ExchangeInv'
  <2>1. ASSUME NEW user, Login(s, user) PROVE ExchangeInv'
    BY <1>1, <2>1 DEF Login
  <2>2. ASSUME NEW t, FindToken(s, t) PROVE ExchangeInv'
    BY <1>1, <2>2 DEF FindToken, Findable
  <2> QED BY <1>4, <2>1, <2>2, LogoutEverywhereExchanges, IssueExchanges, RevokeTokenExchanges
          DEF TokenStep
<1>5. ASSUME NEW s \in Sessions, GuardedStep(s) PROVE ExchangeInv'
  <2>1. ASSUME NEW user, NEW code, NEW company, Guard(s, user, code, company) PROVE ExchangeInv'
    BY <1>1, <2>1 DEF Guard
  <2>2. ASSUME BeginNextFiscalYear(s) PROVE ExchangeInv'
    <3>1. PICK x : x = [step |-> "inserting", company |-> <<Tenant(s), sess[s].company>>,
                        year |-> NextYear(Rows(s, sess[s].company))]
      OBVIOUS
    <3>2. Become(s, x) /\ x.step = "inserting" /\ tokens' = tokens
      BY <2>2, <3>1 DEF BeginNextFiscalYear
    <3> QED BY <1>1, <3>2
  <2>3. ASSUME NEW email, NEW status, Invite(s, email) \/ SetStatus(s, email, status)
        PROVE  ExchangeInv'
    BY <1>2, <2>3 DEF Invite, SetStatus
  <2>4. ASSUME NEW id, NEW code, CreateRole(s, id) \/ AddPermission(s, id, code)
                                 \/ RemovePermission(s, id, code)
        PROVE  ExchangeInv'
    BY <1>2, <2>4 DEF CreateRole, AddPermission, RemovePermission
  <2>5. ASSUME NEW email, NEW c, NEW role, NEW g, Grant(s, email, c, role) \/ Revoke(s, g)
        PROVE  ExchangeInv'
    BY <1>2, <2>5 DEF Grant, Revoke
  <2>6. ASSUME NEW id, CreateCompany(s, id) \/ CommitNextFiscalYear(s) PROVE ExchangeInv'
    BY <1>2, <2>6 DEF CreateCompany, CommitNextFiscalYear
  <2> QED BY <1>5, <2>1, <2>2, <2>3, <2>4, <2>5, <2>6 DEF GuardedStep
<1>6. ASSUME NEW s \in Sessions, Fail(s) PROVE ExchangeInv'
  BY <1>2, <1>6 DEF Fail
<1>7. CASE UNCHANGED vars
  <2>1. \A t : /\ Successors(t)' = Successors(t) /\ Holding(t)' = Holding(t)
               /\ Exchanging(t)' = Exchanging(t)
    BY <1>7 DEF vars, Successors, Holding, Exchanging
  <2> QED BY <1>7, <2>1 DEF vars, ExchangeInv, ExchangeOK
<1> QED BY <1>3, <1>4, <1>5, <1>6, <1>7 DEF Next

\* A refresh token is exchanged once, but for the refreshes that had found it before one
\* of them, or a logout, revoked it: each of these may still issue a successor.
THEOREM TokensAreExchangedOnce == Spec => []ExchangedOnce
<1>1. TenancyInv /\ ExchangeInv => ExchangedOnce
  <2> SUFFICES ASSUME TenancyInv, ExchangeInv, NEW t \in DOMAIN tokens
               PROVE  Cardinality(Successors(t)) <= tokens[t].racing
    BY DEF ExchangedOnce
  <2>1. ExchangeOK(t)
    BY DEF ExchangeInv
  <2>2. CASE tokens[t].live
    <3>1. Cardinality(Successors(t)) = 0
      BY <2>1, <2>2, FS_EmptySet DEF ExchangeOK
    <3> QED BY <3>1, TokenList
  <2>3. CASE ~ tokens[t].live
    BY <2>1, <2>3, TokenList, Counted DEF ExchangeOK
  <2> QED BY <2>2, <2>3
<1> QED BY <1>1, ExchangeInit, ExchangeStep, TenancyInvariant, PTL DEF Spec

-----------------------------------------------------------------------------
(***************************************************************************)
(* The calendar: a year's twelve periods tile its days.                    *)
(***************************************************************************)
\* The days of a year before a month of it, and in all.
Extra(y) == IF Leap(y) THEN 1 ELSE 0
DaysBefore(y, m) ==
  CASE m = 0  -> 0
    [] m = 1  -> 31
    [] m = 2  -> 59 + Extra(y)
    [] m = 3  -> 90 + Extra(y)
    [] m = 4  -> 120 + Extra(y)
    [] m = 5  -> 151 + Extra(y)
    [] m = 6  -> 181 + Extra(y)
    [] m = 7  -> 212 + Extra(y)
    [] m = 8  -> 243 + Extra(y)
    [] m = 9  -> 273 + Extra(y)
    [] m = 10 -> 304 + Extra(y)
    [] m = 11 -> 334 + Extra(y)
    [] OTHER  -> 365 + Extra(y)

LEMMA MonthsAddUp ==
  ASSUME NEW y
  PROVE  /\ \A m \in 0..12 : DaysBefore(y, m) \in Nat
         /\ \A m \in 0..11 : /\ Length(y, m) \in Nat \ {0}
                             /\ DaysBefore(y, m + 1) = DaysBefore(y, m) + Length(y, m)
         /\ DaysBefore(y, 0) = 0 /\ DaysBefore(y, 12) = 365 + Extra(y)
<1>1. Extra(y) \in {0, 1} /\ (Leap(y) <=> Extra(y) = 1)
  BY DEF Extra
<1>2. \A m \in 0..12 : DaysBefore(y, m) \in Nat
  BY <1>1 DEF DaysBefore
<1>3. \A m \in 0..11 : /\ Length(y, m) \in Nat \ {0}
                       /\ DaysBefore(y, m + 1) = DaysBefore(y, m) + Length(y, m)
  BY <1>1 DEF DaysBefore, Length
<1> QED BY <1>2, <1>3 DEF DaysBefore

\* A year that can be divided by 4 but not by 100, or by 400, has a day more.
LEMMA YearAddsUp ==
  ASSUME NEW y \in Nat \ {0}
  PROVE  NewYear(y) \in Int /\ NewYear(y + 1) = NewYear(y) + DaysBefore(y, 12)
<1>1. /\ y \div 4 = (y - 1) \div 4 + (IF y % 4 = 0 THEN 1 ELSE 0)
      /\ y \div 100 = (y - 1) \div 100 + (IF y % 100 = 0 THEN 1 ELSE 0)
      /\ y \div 400 = (y - 1) \div 400 + (IF y % 400 = 0 THEN 1 ELSE 0)
  OBVIOUS
<1>2. (y % 400 = 0 => y % 100 = 0) /\ (y % 100 = 0 => y % 4 = 0)
  OBVIOUS
<1>3. PICK a \in Int, b \in Int, c \in Int :
        a = (y - 1) \div 4 /\ b = (y - 1) \div 100 /\ c = (y - 1) \div 400
  OBVIOUS
<1>n. PICK a1 \in Int, b1 \in Int, c1 \in Int :
        a1 = y \div 4 /\ b1 = y \div 100 /\ c1 = y \div 400
  OBVIOUS
<1>4. NewYear(y) = 365 * (y - 1) + a - b + c
  BY <1>3 DEF NewYear
<1>5. NewYear(y + 1) = 365 * y + a1 - b1 + c1
  <2>1. (y + 1) - 1 = y
    OBVIOUS
  <2> QED BY <1>n, <2>1 DEF NewYear
<1>6. a1 - b1 + c1 = a - b + c + Extra(y)
  BY <1>1, <1>2, <1>3, <1>n DEF Extra, Leap
<1>7. PICK e \in {0, 1} : e = Extra(y) /\ DaysBefore(y, 12) = 365 + e
  BY MonthsAddUp DEF Extra
<1>8. NewYear(y) \in Int
  BY <1>3, <1>4
<1>9. NewYear(y + 1) = NewYear(y) + (365 + e)
  BY <1>3, <1>n, <1>4, <1>5, <1>6, <1>7
<1> QED BY <1>7, <1>8, <1>9

LEMMA MonthStarts ==
  ASSUME NEW y \in Nat \ {0}, NEW m \in 0..11
  PROVE  MonthStart(y, m) = NewYear(y) + DaysBefore(y, m)
<1> DEFINE c == [k \in 0..(m - 1) |-> Length(y, k)]
           t == [k \in 0..12 |-> DaysBefore(y, k)]
<1>1. /\ m \in Nat /\ t[0] = 0 /\ t[m] = DaysBefore(y, m)
      /\ TotalsOf(t, c, m)
  BY MonthsAddUp DEF TotalsOf
<1>2. MonthStart(y, m) = NewYear(y) + SumFunctionOnSet(c, 0..(m - 1))
  BY DEF MonthStart
<1> HIDE DEF c, t
<1> QED BY <1>1, <1>2, SumUpTo

LEMMA Periods ==
  ASSUME NEW y \in Nat \ {0}, NEW m \in 0..11
  PROVE  Period(y, m) = (NewYear(y) + DaysBefore(y, m)) .. (NewYear(y) + DaysBefore(y, m + 1) - 1)
<1>0. NewYear(y) \in Int /\ NewYear(y + 1) \in Int /\ y + 1 \in Nat \ {0}
      /\ DaysBefore(y, m) \in Nat /\ DaysBefore(y, m + 1) \in Nat
  <2>1. y + 1 \in Nat \ {0} /\ m \in 0..12 /\ m + 1 \in 0..12
    OBVIOUS
  <2>2. NewYear(y) \in Int /\ NewYear(y + 1) \in Int
    BY <2>1, YearAddsUp
  <2> QED BY <2>1, <2>2, MonthsAddUp
<1>1. UTC(y, m, 1) = NewYear(y) + DaysBefore(y, m)
  <2>1. m \div 12 = 0 /\ m % 12 = m /\ y + 0 = y
    OBVIOUS
  <2>2. UTC(y, m, 1) = MonthStart(y, m) + 1 - 1
    BY <2>1 DEF UTC
  <2> QED BY <1>0, <2>2, MonthStarts
<1>2. UTC(y, m + 1, 0) = NewYear(y) + DaysBefore(y, m + 1) - 1
  <2>1. CASE m = 11
    <3>1. (m + 1) \div 12 = 1 /\ (m + 1) % 12 = 0 /\ m + 1 = 12
      BY <2>1
    <3>2. UTC(y, m + 1, 0) = MonthStart(y + 1, 0) + 0 - 1
      BY <3>1 DEF UTC
    <3>3. MonthStart(y + 1, 0) = NewYear(y + 1)
      BY <1>0, MonthStarts, MonthsAddUp
    <3>4. NewYear(y + 1) = NewYear(y) + DaysBefore(y, m + 1)
      BY <3>1, YearAddsUp
    <3> QED BY <1>0, <3>2, <3>3, <3>4
  <2>2. CASE m # 11
    <3>1. (m + 1) \div 12 = 0 /\ (m + 1) % 12 = m + 1 /\ y + 0 = y /\ m + 1 \in 0..11
      BY <2>2
    <3>2. UTC(y, m + 1, 0) = MonthStart(y, m + 1) + 0 - 1
      BY <3>1 DEF UTC
    <3> QED BY <1>0, <3>1, <3>2, MonthStarts
  <2> QED BY <2>1, <2>2
<1> QED BY <1>1, <1>2 DEF Period

\* Every day of a year is in one of its periods, which hold as many days as the year.
THEOREM EveryYearIsTiled ==
  ASSUME NEW y \in First .. (First + MaxYears)
  PROVE  y \in TiledYears
<1> DEFINE days == NewYear(y) .. (NewYear(y + 1) - 1)
<1>0. y \in Nat \ {0}
  BY CalendarAssumption
<1>1. PICK n \in Int : n = NewYear(y)
  BY <1>0, YearAddsUp
<1>2. PICK d : d = [m \in 0..12 |-> DaysBefore(y, m)]
  OBVIOUS
<1>3. /\ \A m \in 0..12 : d[m] \in Nat
      /\ \A m \in 0..11 : d[m] < d[m + 1]
      /\ d[0] = 0 /\ d[12] \in Nat /\ d[12] > 0
  <2>1. \A m \in 0..12 : d[m] \in Nat
    BY <1>2, MonthsAddUp
  <2>2. ASSUME NEW m \in 0..11 PROVE d[m] < d[m + 1]
    <3>1. /\ m \in 0..12 /\ m + 1 \in 0..12 /\ d[m] \in Nat /\ d[m + 1] \in Nat
          /\ d[m] = DaysBefore(y, m) /\ d[m + 1] = DaysBefore(y, m + 1)
      BY <1>2, <2>1
    <3>2. Length(y, m) \in Nat \ {0} /\ DaysBefore(y, m + 1) = DaysBefore(y, m) + Length(y, m)
      BY MonthsAddUp
    <3> QED BY <3>1, <3>2
  <2>3. d[0] = 0
    BY <1>2, MonthsAddUp
  <2>4. d[12] \in Nat /\ d[12] > 0
    BY <1>2, MonthsAddUp DEF Extra
  <2> QED BY <2>1, <2>2, <2>3, <2>4
<1>4. days = n .. (n + d[12] - 1)
  <2>1. d[12] = DaysBefore(y, 12)
    BY <1>2
  <2>2. NewYear(y + 1) = n + d[12]
    BY <1>0, <1>1, <2>1, YearAddsUp
  <2>3. PICK k \in Nat : k = d[12]
    BY <1>3
  <2>4. NewYear(y + 1) - 1 = n + k - 1
    BY <2>2, <2>3
  <2> QED BY <1>1, <2>3, <2>4
<1>5. ASSUME NEW m \in Months
      PROVE  /\ Period(y, m) = (n + d[m]) .. (n + d[m + 1] - 1)
             /\ m \in 0..11 /\ d[m] \in Nat /\ d[m + 1] \in Nat /\ d[m] < d[m + 1]
  <2>1. m \in 0..11 /\ m \in 0..12 /\ m + 1 \in 0..12
    BY DEF Months
  <2>2. d[m] = DaysBefore(y, m) /\ d[m + 1] = DaysBefore(y, m + 1)
    BY <1>2, <2>1
  <2>3. Period(y, m) = (n + d[m]) .. (n + d[m + 1] - 1)
    BY <1>0, <1>1, <2>1, <2>2, Periods
  <2> QED BY <1>3, <2>1, <2>3
<1> HIDE DEF days
<1>6. UNION {Period(y, m) : m \in Months} = days
  <2>1. ASSUME NEW x \in days PROVE \E m \in Months : x \in Period(y, m)
    <3>1. x \in Int /\ n <= x /\ x <= n + d[12] - 1
      BY <1>3, <1>4
    <3>2. PICK m \in 0..11 : n + d[m] <= x /\ x <= n + d[m + 1] - 1
      <4>1. \A m \in 0..12 : d[m] \in Nat
        BY <1>3
      <4> SUFFICES ASSUME \A m \in 0..11 : n + d[m] <= x => n + d[m + 1] <= x PROVE FALSE
        BY <3>1, <4>1
      <4>2. n + d[0] <= x
        BY <1>3, <3>1
      <4>3. n + d[3] <= x
        BY <4>2
      <4>4. n + d[6] <= x
        BY <4>3
      <4>5. n + d[9] <= x
        BY <4>4
      <4>6. n + d[12] <= x
        BY <4>5
      <4> QED BY <3>1, <4>1, <4>6
    <3>3. m \in Months
      BY DEF Months
    <3>4. x \in Period(y, m)
      BY <1>5, <3>1, <3>2, <3>3
    <3> QED BY <3>3, <3>4
  <2>2. ASSUME NEW m \in Months, NEW x \in Period(y, m) PROVE x \in days
    <3>0. Period(y, m) = (n + d[m]) .. (n + d[m + 1] - 1)
      BY <1>5
    <3>1. /\ x \in Int /\ n + d[m] <= x /\ x <= n + d[m + 1] - 1
          /\ d[m] \in Nat /\ d[m + 1] \in Nat
      <4>1. d[m] \in Nat /\ d[m + 1] \in Nat
        BY <1>5
      <4> QED BY <3>0, <4>1
    <3>2. d[m + 1] <= d[12]
      <4>1. \A k \in 0..11 : d[k] <= d[k + 1]
        BY <1>3
      <4>2. /\ d[9] <= d[10] /\ d[10] <= d[11] /\ d[11] <= d[12]
            /\ d[6] <= d[7] /\ d[7] <= d[8] /\ d[8] <= d[9]
            /\ d[3] <= d[4] /\ d[4] <= d[5] /\ d[5] <= d[6]
            /\ d[1] <= d[2] /\ d[2] <= d[3]
        BY <4>1
      <4>3. \A k \in 1..12 : d[k] <= d[12]
        BY <1>3, <4>2
      <4> QED BY <4>3 DEF Months
    <3>3. PICK a \in Nat, b \in Nat, k \in Nat : a = d[m] /\ b = d[m + 1] /\ k = d[12]
      BY <1>3, <3>1
    <3>4. n <= x /\ x <= n + k - 1
      BY <3>1, <3>2, <3>3
    <3> QED BY <1>4, <3>1, <3>3, <3>4
  <2> QED BY <2>1, <2>2
<1>7. SumFunctionOnSet([m \in Months |-> Cardinality(Period(y, m))], Months) = Cardinality(days)
  <2> DEFINE c == [m \in Months |-> Cardinality(Period(y, m))]
  <2>1. ASSUME NEW m \in 0..11 PROVE c[m] \in Int /\ d[m + 1] = d[m] + c[m]
    <3>1. /\ m \in Months /\ d[m] \in Nat /\ d[m + 1] \in Nat /\ d[m] < d[m + 1]
          /\ Period(y, m) = (n + d[m]) .. (n + d[m + 1] - 1)
      BY <1>5 DEF Months
    <3>2. PICK a \in Int, b \in Int : a = n + d[m] /\ b = n + d[m + 1] - 1
      BY <3>1
    <3>3. Cardinality(a .. b) = IF a > b THEN 0 ELSE b - a + 1
      BY FS_Interval
    <3>4. ~ (a > b) /\ b - a + 1 = d[m + 1] - d[m]
      <4>1. PICK p \in Nat, q \in Nat : p = d[m] /\ q = d[m + 1]
        BY <3>1
      <4>2. p < q /\ a = n + p /\ b = n + q - 1
        BY <3>1, <3>2, <4>1
      <4>3. ~ (a > b) /\ b - a + 1 = q - p
        BY <4>2
      <4> QED BY <4>1, <4>3
    <3>5. Period(y, m) = a .. b
      BY <3>1, <3>2
    <3>6. c[m] = d[m + 1] - d[m]
      BY <3>1, <3>3, <3>4, <3>5
    <3>7. PICK p \in Nat, q \in Nat : p = d[m] /\ q = d[m + 1]
      BY <3>1
    <3>8. q - p \in Int /\ q = p + (q - p)
      OBVIOUS
    <3> QED BY <3>6, <3>7, <3>8
  <2> HIDE DEF c
  <2>2. SumFunctionOnSet(c, 0..(12 - 1)) = d[12]
    <3>1. TotalsOf(d, c, 12)
      BY <1>3, <2>1 DEF TotalsOf
    <3> QED BY <3>1, SumUpTo
  <2>3. Cardinality(days) = d[12]
    <3>1. PICK b \in Int : b = n + d[12] - 1
      BY <1>3
    <3>2. Cardinality(n .. b) = IF n > b THEN 0 ELSE b - n + 1
      BY FS_Interval
    <3>3. ~ (n > b) /\ b - n + 1 = d[12]
      BY <1>3, <3>1
    <3>4. days = n .. b
      BY <1>4, <3>1
    <3> QED BY <3>2, <3>3, <3>4
  <2>4. Months = 0..(12 - 1)
    BY DEF Months
  <2> QED BY <2>2, <2>3, <2>4 DEF c
<1> QED BY <1>6, <1>7 DEF TiledYears, days

-----------------------------------------------------------------------------
(***************************************************************************)
(* The years of a company.                                                 *)
(***************************************************************************)
InsertingInto(c) == {s \in Sessions : sess[s].step = "inserting" /\ sess[s].company = c}

LEMMA MaxOfRange ==
  ASSUME NEW a \in Int, NEW b \in Int, a <= b
  PROVE  Max(a .. b) = b
<1>1. b \in a .. b /\ \A y \in a .. b : b >= y
  OBVIOUS
<1>2. Max(a .. b) \in a .. b /\ \A y \in a .. b : Max(a .. b) >= y
  BY <1>1 DEF Max
<1>3. Max(a .. b) \in Int /\ Max(a .. b) >= b /\ b >= Max(a .. b)
  BY <1>1, <1>2
<1> QED BY <1>3

\* A row more is a copy more of its year.
LEMMA CopiesGrow ==
  ASSUME NEW rows \in Seq(Nat), NEW y \in Nat, NEW z \in Nat
  PROVE  /\ Copies(rows, z) \in Nat
         /\ Copies(Append(rows, y), z) = Copies(rows, z) + (IF z = y THEN 1 ELSE 0)
         /\ (\A i \in DOMAIN rows : rows[i] # z) => Copies(rows, z) = 0
<1> DEFINE S == {i \in DOMAIN rows : rows[i] = z}
           T == {i \in DOMAIN Append(rows, y) : Append(rows, y)[i] = z}
           n == Len(rows) + 1
<1>1. IsFiniteSet(S) /\ Cardinality(S) \in Nat
  <2>1. IsFiniteSet(1..Len(rows))
    BY FS_Interval
  <2>2. S \in SUBSET (1..Len(rows))
    OBVIOUS
  <2>3. IsFiniteSet(S)
    BY <2>1, <2>2, FS_Subset
  <2> QED BY <2>3, FS_CardinalityType
<1>2. n \notin S /\ T = IF z = y THEN S \cup {n} ELSE S
  <2>1. DOMAIN Append(rows, y) = DOMAIN rows \cup {n} /\ n \notin DOMAIN rows
    OBVIOUS
  <2>2. Append(rows, y)[n] = y /\ \A i \in DOMAIN rows : Append(rows, y)[i] = rows[i]
    OBVIOUS
  <2> HIDE DEF n
  <2> QED BY <2>1, <2>2
<1>3. Cardinality(S \cup {n}) = Cardinality(S) + 1
  <2> HIDE DEF S, n
  <2> QED BY <1>1, <1>2, FS_AddElement
<1>4. Cardinality(T) = Cardinality(S) + (IF z = y THEN 1 ELSE 0)
  <2>1. CASE z = y
    BY <1>2, <1>3, <2>1
  <2>2. CASE z # y
    <3>1. Cardinality(T) = Cardinality(S)
      BY <1>2, <2>2
    <3> HIDE DEF S, T
    <3> QED BY <1>1, <2>2, <3>1
  <2> QED BY <2>1, <2>2
<1>5. (\A i \in DOMAIN rows : rows[i] # z) => Cardinality(S) = 0
  <2>1. (\A i \in DOMAIN rows : rows[i] # z) => S = {}
    OBVIOUS
  <2> HIDE DEF S
  <2> QED BY <2>1, FS_EmptySet
<1> QED BY <1>1, <1>4, <1>5 DEF Copies

\* The requests that insert can be counted.
LEMMA InsertingCounted ==
  ASSUME NEW c, NEW y
  PROVE  /\ IsFiniteSet(InsertingInto(c)) /\ Cardinality(InsertingInto(c)) \in Nat
         /\ IsFiniteSet(InsertingYear(c, y)) /\ Cardinality(InsertingYear(c, y)) \in Nat
         /\ Inserting(c) = Cardinality(InsertingInto(c))
         /\ Cardinality(Sessions) \in Nat
         /\ Cardinality(InsertingYear(c, y)) <= Cardinality(Sessions)
<1>1. InsertingInto(c) \in SUBSET Sessions /\ InsertingYear(c, y) \in SUBSET Sessions
  BY DEF InsertingInto, InsertingYear
<1>2. /\ IsFiniteSet(InsertingInto(c)) /\ IsFiniteSet(InsertingYear(c, y))
      /\ Cardinality(InsertingYear(c, y)) <= Cardinality(Sessions)
  BY <1>1, TenancyAssumption, FS_Subset
<1>3. Inserting(c) = Cardinality(InsertingInto(c))
  BY DEF Inserting, InsertingInto
<1> QED BY <1>2, <1>3, TenancyAssumption, FS_CardinalityType

\* A company whose rows and insertions stay, or of which a request ends, is as it was.
LEMMA CompanyKept ==
  ASSUME YearsInv, NEW c \in Calendars, years'[c] = years[c],
         InsertingInto(c)' \in SUBSET InsertingInto(c),
         \A y : InsertingYear(c, y)' \in SUBSET InsertingYear(c, y)
  PROVE  YearsOK(c)'
<1>1. YearsOK(c) /\ years[c] \in Seq(Nat)
  BY DEF YearsInv
<1>2. PICK rows : rows = years[c]
  OBVIOUS
<1>3. YearsOf(c)' = YearsOf(c) /\ Len(rows) \in Nat
  BY <1>1, <1>2 DEF YearsOf
<1>4. Inserting(c)' \in Nat /\ Inserting(c)' <= Inserting(c) /\ Inserting(c) \in Nat
  <2>1. PICK i : i = InsertingInto(c)'
    OBVIOUS
  <2>2. Cardinality(i) <= Cardinality(InsertingInto(c)) /\ IsFiniteSet(i)
    BY <2>1, InsertingCounted, FS_Subset
  <2>3. Cardinality(i) \in Nat
    BY <2>2, FS_CardinalityType
  <2>4. Inserting(c)' = Cardinality(i)
    BY <2>1 DEF Inserting, InsertingInto
  <2> QED BY <2>2, <2>3, <2>4, InsertingCounted
<1>5. ASSUME NEW y \in YearsOf(c)
      PROVE  Copies(rows, y) + Cardinality(InsertingYear(c, y))' <= Cardinality(Sessions)
  <2>1. PICK i : i = InsertingYear(c, y)'
    OBVIOUS
  <2>2. Cardinality(i) <= Cardinality(InsertingYear(c, y)) /\ IsFiniteSet(i)
    BY <2>1, InsertingCounted, FS_Subset
  <2>3. Cardinality(i) \in Nat
    BY <2>2, FS_CardinalityType
  <2>4. y \in Nat
    BY <1>1 DEF YearsOf
  <2>5. Copies(rows, y) \in Nat
    BY <1>1, <1>2, <2>4, CopiesGrow
  <2>6. Copies(rows, y) + Cardinality(InsertingYear(c, y)) <= Cardinality(Sessions)
    BY <1>1, <1>2 DEF YearsOK
  <2> QED BY <2>1, <2>2, <2>3, <2>5, <2>6, InsertingCounted
<1>6. Len(rows) + Inserting(c)' <= MaxYears + 1
  <2>1. Len(rows) + Inserting(c) <= MaxYears + 1
    BY <1>1, <1>2 DEF YearsOK
  <2> QED BY <1>3, <1>4, <2>1, CalendarAssumption
<1>7. rows # <<>> => \E last \in First .. (First + Len(rows) - 1) : YearsOf(c) = First .. last
  BY <1>1, <1>2 DEF YearsOK
<1> QED BY <1>2, <1>3, <1>5, <1>6, <1>7 DEF YearsOK

LEMMA YearsInit == Init => YearsInv
<1> SUFFICES ASSUME Init PROVE YearsInv
  OBVIOUS
<1>1. /\ \A c \in Calendars : years[c] = <<>>
      /\ years \in [Calendars -> Seq(Nat)]
      /\ \A s \in Sessions : sess[s].step = "idle"
  BY IdleStep DEF Init
<1>2. ASSUME NEW c \in Calendars PROVE YearsOK(c)
  <2>1. InsertingInto(c) = {} /\ YearsOf(c) = {} /\ Len(years[c]) = 0
    BY <1>1 DEF InsertingInto, YearsOf
  <2>2. Inserting(c) = 0
    BY <2>1, InsertingCounted, FS_EmptySet
  <2>3. Len(years[c]) + Inserting(c) <= MaxYears + 1
    BY <2>1, <2>2, CalendarAssumption
  <2> QED BY <1>1, <2>1, <2>3 DEF YearsOK
<1>3. \A s \in Sessions : YearRequestOK(s)
  BY <1>1 DEF YearRequestOK
<1> QED BY <1>1, <1>2, <1>3 DEF YearsInv

\* The requests of a company when one of them changes.
LEMMA RequestsOf ==
  ASSUME TenancyInv, NEW s \in Sessions, NEW x, Become(s, x), NEW c
  PROVE  /\ sess'[s] = x /\ \A u \in Sessions : u # s => sess'[u] = sess[u]
         /\ InsertingInto(c)' = (InsertingInto(c) \ {s})
                                  \cup (IF x.step = "inserting" /\ x.company = c THEN {s} ELSE {})
         /\ \A y : InsertingYear(c, y)' =
              (InsertingYear(c, y) \ {s})
                \cup (IF x.step = "inserting" /\ x.company = c /\ x.year = y THEN {s} ELSE {})
<1>1. sess'[s] = x /\ \A u \in Sessions : u # s => sess'[u] = sess[u]
  BY Becomes DEF TenancyInv
<1>2. InsertingInto(c)' = (InsertingInto(c) \ {s})
                            \cup (IF x.step = "inserting" /\ x.company = c THEN {s} ELSE {})
  BY <1>1 DEF InsertingInto
<1>3. ASSUME NEW y
      PROVE  InsertingYear(c, y)' =
               (InsertingYear(c, y) \ {s})
                 \cup (IF x.step = "inserting" /\ x.company = c /\ x.year = y THEN {s} ELSE {})
  BY <1>1 DEF InsertingYear
<1> QED BY <1>1, <1>2, <1>3

\* A request that does not come to insert adds to no company's insertions.
LEMMA NoInsertion ==
  ASSUME TenancyInv, NEW s \in Sessions, NEW x, Become(s, x), x.step # "inserting", NEW c
  PROVE  /\ InsertingInto(c)' \in SUBSET InsertingInto(c)
         /\ \A y : InsertingYear(c, y)' \in SUBSET InsertingYear(c, y)
<1>1. sess'[s] = x /\ \A u \in Sessions : u # s => sess'[u] = sess[u]
  BY RequestsOf
<1>2. InsertingInto(c)' \in SUBSET InsertingInto(c)
  BY <1>1 DEF InsertingInto
<1>3. ASSUME NEW y PROVE InsertingYear(c, y)' \in SUBSET InsertingYear(c, y)
  BY <1>1 DEF InsertingYear
<1> QED BY <1>2, <1>3

\* A request stays a good one while the years of the companies only become more.
LEMMA RequestKept ==
  ASSUME NEW u \in Sessions, YearRequestOK(u), sess'[u] = sess[u],
         \A c \in Calendars : YearsOf(c) \in SUBSET YearsOf(c)',
         \A c \in Calendars : years[c] # <<>> => years'[c] # <<>>
  PROVE  YearRequestOK(u)'
<1>1. PICK c : c = sess[u].company
  OBVIOUS
<1>2. PICK year : year = sess[u].year
  OBVIOUS
<1>3. sess[u].step = "passed" => c \in There' \cup {Everywhere}
  <2>1. There \in SUBSET There'
    BY DEF There, Calendars, Companies
  <2> QED BY <1>1, <2>1 DEF YearRequestOK
<1>4. sess[u].step = "inserting" =>
        /\ c \in Calendars /\ (year = First \/ \E y \in YearsOf(c)' : year = y + 1)
        /\ c[1] = c[2][1] => years'[c] # <<>>
  BY <1>1, <1>2 DEF YearRequestOK
<1> QED BY <1>1, <1>2, <1>3, <1>4 DEF YearRequestOK

\* A step that leaves the years alone and inserts none.
LEMMA YearsUntouched ==
  ASSUME TenancyInv, YearsInv, NEW s \in Sessions, NEW x, Become(s, x), years' = years,
         x.step # "inserting",
         x.step = "passed" => x.company \in There \cup {Everywhere}
  PROVE  YearsInv'
<1>1. sess'[s] = x /\ \A u \in Sessions : u # s => sess'[u] = sess[u]
  BY RequestsOf
<1>2. ASSUME NEW c \in Calendars PROVE YearsOK(c)'
  <2>1. /\ InsertingInto(c)' \in SUBSET InsertingInto(c)
        /\ \A y : InsertingYear(c, y)' \in SUBSET InsertingYear(c, y)
    BY NoInsertion
  <2>2. years'[c] = years[c]
    OBVIOUS
  <2> QED BY <2>1, <2>2, CompanyKept
<1>3. ASSUME NEW u \in Sessions, u # s PROVE YearRequestOK(u)'
  <2>1. \A c : YearsOf(c)' = YearsOf(c)
    BY DEF YearsOf
  <2> QED BY <1>1, <1>3, <2>1, RequestKept DEF YearsInv
<1>4. YearRequestOK(s)'
  <2>1. PICK c : c = x.company
    OBVIOUS
  <2>2. x.step = "passed" => c \in There' \cup {Everywhere}
    BY <2>1 DEF There
  <2> QED BY <1>1, <2>1, <2>2 DEF YearRequestOK
<1> QED BY <1>2, <1>3, <1>4 DEF YearsInv

\* A company begins with its first year: nobody inserts another one yet.
LEMMA CreateCompanyYears ==
  ASSUME TenancyInv, YearsInv, NEW s \in Sessions, NEW id \in CompanyIds, CreateCompany(s, id)
  PROVE  YearsInv'
<1>1. PICK c : c = <<Tenant(s), <<Tenant(s), id>>>>
  OBVIOUS
<1>2. /\ sess[s].step = "passed" /\ years[c] = <<>> /\ Become(s, Idle)
      /\ years' = [years EXCEPT ![c] = <<First>>]
  BY <1>1 DEF CreateCompany, Passed
<1>3. c \in Calendars
  BY <1>1, <1>2, PassedUser DEF Calendars, Companies
<1>4. /\ years \in [Calendars -> Seq(Nat)] /\ <<First>> \in Seq(Nat)
      /\ years'[c] = <<First>> /\ \A d \in Calendars : d # c => years'[d] = years[d]
  BY <1>2, <1>3, CalendarAssumption DEF YearsInv
<1>5. sess'[s] = Idle /\ \A u \in Sessions : u # s => sess'[u] = sess[u]
  BY <1>2, RequestsOf
<1>6. ASSUME NEW d \in Calendars
      PROVE  /\ InsertingInto(d)' \in SUBSET InsertingInto(d)
             /\ \A y : InsertingYear(d, y)' \in SUBSET InsertingYear(d, y)
  <2>1. PICK x : x = Idle
    OBVIOUS
  <2>2. Become(s, x) /\ x.step # "inserting"
    BY <1>2, <2>1, IdleStep
  <2> QED BY <2>2, NoInsertion
<1>7. YearsOf(c) = {} /\ YearsOf(c)' = {First}
  <2>1. PICK rows : rows = <<First>>
    OBVIOUS
  <2>2. DOMAIN rows = {1} /\ rows[1] = First
    BY <2>1
  <2>3. YearsOf(c)' = {rows[i] : i \in DOMAIN rows}
    BY <1>4, <2>1 DEF YearsOf
  <2>4. YearsOf(c) = {}
    BY <1>2 DEF YearsOf
  <2> QED BY <2>2, <2>3, <2>4
<1>8. YearsOK(c)'
  <2>1. InsertingInto(c) = {}
    <3>1. c[1] = c[2][1] /\ years[c] = <<>>
      BY <1>1, <1>2
    <3> QED BY <3>1 DEF InsertingInto, YearsInv, YearRequestOK
  <2>2. InsertingInto(c)' = {} /\ \A y : InsertingYear(c, y)' = {}
    <3>1. \A y : InsertingYear(c, y) \in SUBSET InsertingInto(c)
      BY DEF InsertingInto, InsertingYear
    <3> QED BY <1>3, <1>6, <2>1, <3>1
  <2>3. Inserting(c)' = 0 /\ \A y : Cardinality(InsertingYear(c, y)') = 0
    <3>1. Inserting(c)' = Cardinality(InsertingInto(c)')
      BY DEF Inserting, InsertingInto
    <3> QED BY <2>2, <3>1, FS_EmptySet
  <2>4. Len(years'[c]) + Inserting(c)' <= MaxYears + 1
    BY <1>4, <2>3, CalendarAssumption
  <2>5. First \in First .. (First + Len(years'[c]) - 1) /\ YearsOf(c)' = First .. First
    BY <1>4, <1>7, CalendarAssumption
  <2>6. Copies(years'[c], First) = 1
    <3>1. PICK none \in Seq(Nat) : none = <<>>
      BY <1>2, <1>3, <1>4
    <3>2. First \in Nat /\ years'[c] = Append(none, First) /\ DOMAIN none = {}
      BY <1>4, <3>1, CalendarAssumption
    <3>3. /\ Copies(Append(none, First), First) = Copies(none, First) + 1
          /\ Copies(none, First) = 0
      BY <3>2, CopiesGrow
    <3> QED BY <3>2, <3>3
  <2>7. 1 <= Cardinality(Sessions)
    <3>1. Cardinality(Sessions) \in Nat /\ Cardinality(Sessions) # 0
      BY TenancyAssumption, FS_EmptySet, FS_CardinalityType
    <3> QED BY <3>1
  <2>8. \A y \in YearsOf(c)' :
          Copies(years'[c], y) + Cardinality(InsertingYear(c, y)') <= Cardinality(Sessions)
    BY <1>7, <2>3, <2>6, <2>7
  <2> QED BY <2>4, <2>5, <2>8 DEF YearsOK
<1>9. ASSUME NEW d \in Calendars PROVE YearsOK(d)'
  BY <1>4, <1>6, <1>8, CompanyKept
<1>10. ASSUME NEW u \in Sessions PROVE YearRequestOK(u)'
  <2>1. CASE u = s
    BY <1>5, <2>1, IdleStep DEF YearRequestOK
  <2>2. CASE u # s
    <3>1. ASSUME NEW d \in Calendars PROVE YearsOf(d) \in SUBSET YearsOf(d)'
      BY <1>4, <1>7 DEF YearsOf
    <3>2. \A d \in Calendars : years[d] # <<>> => years'[d] # <<>>
      BY <1>2, <1>4
    <3> QED BY <1>5, <2>2, <3>1, <3>2, RequestKept DEF YearsInv
  <2> QED BY <2>1, <2>2
<1>11. years' \in [Calendars -> Seq(Nat)]
  BY <1>2, <1>4
<1> QED BY <1>9, <1>10, <1>11 DEF YearsInv

\* The latest year of a company, and what it has besides.
LEMMA LatestYear ==
  ASSUME YearsInv, NEW c \in Calendars, years[c] # <<>>
  PROVE  \E last \in Nat : /\ First <= last /\ last <= First + Len(years[c]) - 1
                           /\ YearsOf(c) = First .. last /\ Max(YearsOf(c)) = last
<1>1. PICK n \in Nat : n = Len(years[c])
  BY DEF YearsInv
<1>2. PICK last \in First .. (First + n - 1) : YearsOf(c) = First .. last
  BY <1>1 DEF YearsInv, YearsOK
<1>3. last \in Nat /\ First <= last /\ last <= First + n - 1 /\ First \in Int
  BY CalendarAssumption
<1>4. Max(First .. last) = last
  BY <1>3, MaxOfRange
<1> QED BY <1>1, <1>2, <1>3, <1>4

\* A request is about to insert the year after the latest.
LEMMA BeginYears ==
  ASSUME TenancyInv, YearsInv, NEW s \in Sessions, BeginNextFiscalYear(s)
  PROVE  YearsInv'
<1>0. PICK company : company = sess[s].company
  OBVIOUS
<1>1. PICK c : c = <<Tenant(s), company>>
  OBVIOUS
<1>2. PICK year : year = NextYear(years[c])
  OBVIOUS
<1>3. PICK x : x = [step |-> "inserting", company |-> c, year |-> year]
  OBVIOUS
<1>4. /\ sess[s].step = "passed" /\ company # Everywhere /\ Become(s, x) /\ years' = years
      /\ Len(years[c]) + Inserting(c) < MaxYears
  BY <1>0, <1>1, <1>2, <1>3 DEF BeginNextFiscalYear, Rows, access
<1>5. c \in Calendars /\ years[c] \in Seq(Nat) /\ (c[1] = c[2][1] => years[c] # <<>>)
  <2>1. company \in There
    BY <1>0, <1>4 DEF YearsInv, YearRequestOK
  <2>2. company \in Companies /\ years[<<company[1], company>>] # <<>>
    BY <2>1 DEF There
  <2>3. c \in Calendars
    BY <1>1, <1>4, <2>2, PassedUser DEF Calendars
  <2> QED BY <1>1, <2>2, <2>3 DEF YearsInv
<1>6. /\ year \notin YearsOf(c)
      /\ year = First \/ \E y \in YearsOf(c) : year = y + 1
  <2>1. CASE years[c] = <<>>
    BY <1>2, <2>1 DEF NextYear, YearsOf
  <2>2. CASE years[c] # <<>>
    <3>1. PICK last \in Nat : /\ First <= last /\ YearsOf(c) = First .. last
                              /\ Max(YearsOf(c)) = last
      BY <1>5, <2>2, LatestYear
    <3>2. year = Max(YearsOf(c)) + 1
      BY <1>2, <2>2 DEF NextYear, YearsOf
    <3>3. last \in YearsOf(c)
      BY <3>1, CalendarAssumption
    <3> QED BY <3>1, <3>2, <3>3, CalendarAssumption
  <2> QED BY <2>1, <2>2
<1>8. /\ sess'[s] = x /\ \A u \in Sessions : u # s => sess'[u] = sess[u]
      /\ x.step = "inserting" /\ x.company = c /\ x.year = year
  BY <1>3, <1>4, RequestsOf
<1>9. \A d : YearsOf(d)' = YearsOf(d)
  BY <1>4 DEF YearsOf
<1>10. YearsOK(c)'
  <2>1. /\ InsertingInto(c)' = InsertingInto(c) \cup {s}
        /\ \A y \in YearsOf(c) : InsertingYear(c, y)' = InsertingYear(c, y)
    <3>1. s \notin InsertingInto(c) /\ \A y : s \notin InsertingYear(c, y)
      BY <1>4 DEF InsertingInto, InsertingYear
    <3>2. InsertingInto(c)' = (InsertingInto(c) \ {s}) \cup {s}
      BY <1>4, <1>8, RequestsOf
    <3>3. ASSUME NEW y, y # year PROVE InsertingYear(c, y)' = InsertingYear(c, y)
      BY <1>4, <1>8, <3>3 DEF InsertingYear
    <3> QED BY <1>6, <3>1, <3>2, <3>3
  <2>2. Inserting(c)' \in Nat /\ Inserting(c)' <= Inserting(c) + 1 /\ Inserting(c) \in Nat
    <3>1. Inserting(c)' = Cardinality(InsertingInto(c) \cup {s})
      <4>1. Inserting(c)' = Cardinality(InsertingInto(c)')
        BY DEF Inserting, InsertingInto
      <4> QED BY <2>1, <4>1
    <3>2. IsFiniteSet(InsertingInto(c)) /\ Cardinality(InsertingInto(c)) \in Nat
          /\ Inserting(c) = Cardinality(InsertingInto(c))
      BY InsertingCounted
    <3>3. PICK S : S = InsertingInto(c)
      OBVIOUS
    <3>4. IsFiniteSet(S) /\ Cardinality(S) \in Nat
      BY <3>2, <3>3
    <3>5. Cardinality(S \cup {s}) = IF s \in S THEN Cardinality(S) ELSE Cardinality(S) + 1
      BY <3>4, FS_AddElement
    <3>6. Inserting(c)' = Cardinality(S \cup {s}) /\ Inserting(c) = Cardinality(S)
      BY <3>1, <3>2, <3>3
    <3> QED BY <3>4, <3>5, <3>6
  <2>3. Len(years[c]) + Inserting(c)' <= MaxYears + 1
    <3>1. Len(years[c]) \in Nat
      BY <1>5
    <3> QED BY <1>4, <2>2, <3>1, CalendarAssumption
  <2>4. YearsOK(c)
    BY <1>5 DEF YearsInv
  <2>5. \A y \in YearsOf(c) :
          Copies(years[c], y) + Cardinality(InsertingYear(c, y)') <= Cardinality(Sessions)
    BY <2>1, <2>4 DEF YearsOK
  <2>6. years[c] # <<>> =>
          \E z \in First .. (First + Len(years[c]) - 1) : YearsOf(c) = First .. z
    BY <2>4 DEF YearsOK
  <2> QED BY <1>4, <1>9, <2>3, <2>5, <2>6 DEF YearsOK
<1>11. ASSUME NEW d \in Calendars, d # c PROVE YearsOK(d)'
  <2>1. /\ InsertingInto(d)' \in SUBSET InsertingInto(d)
        /\ \A y : InsertingYear(d, y)' \in SUBSET InsertingYear(d, y)
    BY <1>4, <1>8, <1>11, RequestsOf
  <2>2. years'[d] = years[d]
    BY <1>4
  <2> QED BY <2>1, <2>2, CompanyKept
<1>12. ASSUME NEW u \in Sessions PROVE YearRequestOK(u)'
  <2>1. CASE u = s
    <3>1. years'[c] = years[c]
      BY <1>4
    <3> QED BY <1>5, <1>6, <1>8, <1>9, <2>1, <3>1 DEF YearRequestOK
  <2>2. CASE u # s
    BY <1>4, <1>8, <1>9, <2>2, RequestKept DEF YearsInv
  <2> QED BY <2>1, <2>2
<1> QED BY <1>4, <1>10, <1>11, <1>12 DEF YearsInv

\* A year that is inserted is the year after the latest, or a copy.
LEMMA CommitYears ==
  ASSUME TenancyInv, YearsInv, NEW s \in Sessions, CommitNextFiscalYear(s)
  PROVE  YearsInv'
<1>1. PICK c : c = sess[s].company
  OBVIOUS
<1>2. PICK year : year = sess[s].year
  OBVIOUS
<1>3. PICK rows : rows = years[c]
  OBVIOUS
<1>4. /\ sess[s].step = "inserting" /\ Become(s, Idle)
      /\ years' = [years EXCEPT ![c] = Append(rows, year)]
  BY <1>1, <1>2, <1>3 DEF CommitNextFiscalYear
<1>5. /\ c \in Calendars /\ (year = First \/ \E y \in YearsOf(c) : year = y + 1)
      /\ years \in [Calendars -> Seq(Nat)] /\ YearsOK(c)
  BY <1>1, <1>2, <1>4 DEF YearsInv, YearRequestOK
<1>6. rows \in Seq(Nat) /\ Len(rows) \in Nat
  BY <1>3, <1>5
<1>7. PICK last \in Int : /\ First - 1 <= last /\ last <= First + Len(rows) - 1
                          /\ YearsOf(c) = First .. last
  <2>1. CASE rows = <<>>
    <3>1. YearsOf(c) = {} /\ Len(rows) = 0
      BY <1>3, <2>1 DEF YearsOf
    <3>2. First - 1 \in Int /\ First .. (First - 1) = {}
      BY CalendarAssumption
    <3> QED BY <3>1, <3>2, CalendarAssumption
  <2>2. CASE rows # <<>>
    <3>1. \E z \in Nat : /\ First <= z /\ z <= First + Len(rows) - 1
                          /\ YearsOf(c) = First .. z
      BY <1>3, <1>5, <2>2, LatestYear
    <3> QED BY <3>1, CalendarAssumption
  <2> QED BY <2>1, <2>2
<1>8. year \in Nat /\ First <= year /\ year <= last + 1
  BY <1>5, <1>7, CalendarAssumption
<1>9. /\ sess'[s] = Idle /\ \A u \in Sessions : u # s => sess'[u] = sess[u]
      /\ years'[c] = Append(rows, year) /\ years' \in [Calendars -> Seq(Nat)]
      /\ \A d \in Calendars : d # c => years'[d] = years[d]
  <2>1. sess'[s] = Idle /\ \A u \in Sessions : u # s => sess'[u] = sess[u]
    BY <1>4, RequestsOf
  <2>2. Append(rows, year) \in Seq(Nat)
    BY <1>6, <1>8
  <2>3. PICK more \in Seq(Nat) : more = Append(rows, year)
    BY <2>2
  <2>4. years' = [years EXCEPT ![c] = more]
    BY <1>4, <2>3
  <2> QED BY <1>5, <2>1, <2>3, <2>4
<1>10. YearsOf(c)' = YearsOf(c) \cup {year}
  <2>1. /\ YearsOf(c) = {rows[i] : i \in 1..Len(rows)}
        /\ YearsOf(c)' = {Append(rows, year)[i] : i \in 1..(Len(rows) + 1)}
    <3>1. DOMAIN rows = 1..Len(rows) /\ DOMAIN Append(rows, year) = 1..(Len(rows) + 1)
      BY <1>6, <1>8
    <3>2. YearsOf(c) = {rows[i] : i \in DOMAIN rows}
      BY <1>3 DEF YearsOf
    <3>3. YearsOf(c)' = {Append(rows, year)[i] : i \in DOMAIN Append(rows, year)}
      <4>1. YearsOf(c)' = {years'[c][i] : i \in DOMAIN years'[c]}
        BY DEF YearsOf
      <4> QED BY <1>9, <4>1
    <3> QED BY <3>1, <3>2, <3>3
  <2>2. /\ \A i \in 1..Len(rows) : Append(rows, year)[i] = rows[i]
        /\ Append(rows, year)[Len(rows) + 1] = year
        /\ 1..(Len(rows) + 1) = 1..Len(rows) \cup {Len(rows) + 1}
    BY <1>6, <1>8
  <2> QED BY <2>1, <2>2
<1>11. /\ InsertingInto(c)' = InsertingInto(c) \ {s} /\ s \in InsertingInto(c)
       /\ \A y : InsertingYear(c, y)' = InsertingYear(c, y) \ {s}
       /\ s \in InsertingYear(c, year) /\ \A y : y # year => s \notin InsertingYear(c, y)
  <2>1. s \in InsertingInto(c) /\ s \in InsertingYear(c, year)
        /\ \A y : y # year => s \notin InsertingYear(c, y)
    BY <1>1, <1>2, <1>4 DEF InsertingInto, InsertingYear
  <2> QED BY <1>4, <2>1, RequestsOf, IdleStep
<1>12. YearsOK(c)'
  <2>1. Inserting(c)' = Inserting(c) - 1 /\ Inserting(c) \in Nat
    <3>1. Inserting(c)' = Cardinality(InsertingInto(c) \ {s})
      <4>1. Inserting(c)' = Cardinality(InsertingInto(c)')
        BY DEF Inserting, InsertingInto
      <4> QED BY <1>11, <4>1
    <3>2. /\ IsFiniteSet(InsertingInto(c)) /\ Cardinality(InsertingInto(c)) \in Nat
          /\ Inserting(c) = Cardinality(InsertingInto(c))
      BY InsertingCounted
    <3>3. Cardinality(InsertingInto(c) \ {s}) = Cardinality(InsertingInto(c)) - 1
      <4>1. s \in InsertingInto(c)
        BY <1>11
      <4> QED BY <3>2, <4>1, FS_RemoveElement
    <3> QED BY <3>1, <3>2, <3>3
  <2>2. Len(years'[c]) = Len(rows) + 1
    BY <1>6, <1>8, <1>9
  <2>3. Len(years'[c]) + Inserting(c)' <= MaxYears + 1
    <3>1. Len(rows) + Inserting(c) <= MaxYears + 1
      BY <1>3, <1>5 DEF YearsOK
    <3> QED BY <1>6, <2>1, <2>2, <3>1, CalendarAssumption
  <2>4. \E z \in First .. (First + Len(years'[c]) - 1) : YearsOf(c)' = First .. z
    <3>1. CASE year <= last
      <4>1. YearsOf(c)' = First .. last
        BY <1>7, <1>8, <1>10, <3>1, CalendarAssumption
      <4>2. last \in First .. (First + Len(years'[c]) - 1)
        BY <1>6, <1>7, <1>8, <2>2, <3>1, CalendarAssumption
      <4> QED BY <4>1, <4>2
    <3>2. CASE year = last + 1
      <4>1. YearsOf(c)' = First .. year
        BY <1>7, <1>8, <1>10, <3>2, CalendarAssumption
      <4>2. year \in First .. (First + Len(years'[c]) - 1)
        BY <1>6, <1>7, <1>8, <2>2, <3>2, CalendarAssumption
      <4> QED BY <4>1, <4>2
    <3> QED BY <1>7, <1>8, <3>1, <3>2
  <2>5. ASSUME NEW y \in YearsOf(c)'
        PROVE  Copies(years'[c], y) + Cardinality(InsertingYear(c, y)') <= Cardinality(Sessions)
    <3>0. y \in Nat
      BY <1>7, <1>8, <1>10, <2>5, CalendarAssumption
    <3>1. /\ Copies(rows, y) \in Nat
          /\ Copies(years'[c], y) = Copies(rows, y) + (IF y = year THEN 1 ELSE 0)
          /\ (\A i \in DOMAIN rows : rows[i] # y) => Copies(rows, y) = 0
      BY <1>6, <1>8, <1>9, <3>0, CopiesGrow
    <3>2. /\ IsFiniteSet(InsertingYear(c, y)) /\ Cardinality(InsertingYear(c, y)) \in Nat
          /\ Cardinality(Sessions) \in Nat
          /\ Cardinality(InsertingYear(c, y)) <= Cardinality(Sessions)
      BY InsertingCounted
    <3>3. Cardinality(InsertingYear(c, y)')
            = Cardinality(InsertingYear(c, y)) - (IF y = year THEN 1 ELSE 0)
      <4>1. Cardinality(InsertingYear(c, y) \ {s})
              = IF s \in InsertingYear(c, y) THEN Cardinality(InsertingYear(c, y)) - 1
                ELSE Cardinality(InsertingYear(c, y))
        BY <3>2, FS_RemoveElement
      <4>2. CASE y = year
        BY <1>11, <4>1, <4>2
      <4>3. CASE y # year
        BY <1>11, <3>2, <4>1, <4>3
      <4> QED BY <4>2, <4>3
    <3>4. Copies(rows, y) + Cardinality(InsertingYear(c, y)) <= Cardinality(Sessions)
      <4>1. CASE y \in YearsOf(c)
        BY <1>3, <1>5, <4>1 DEF YearsOK
      <4>2. CASE y \notin YearsOf(c)
        <5>1. \A i \in DOMAIN rows : rows[i] # y
          BY <1>3, <4>2 DEF YearsOf
        <5> QED BY <3>1, <3>2, <5>1
      <4> QED BY <4>1, <4>2
    <3> QED BY <3>1, <3>2, <3>3, <3>4
  <2> QED BY <2>3, <2>4, <2>5 DEF YearsOK
<1>13. ASSUME NEW d \in Calendars, d # c PROVE YearsOK(d)'
  <2>1. /\ InsertingInto(d)' \in SUBSET InsertingInto(d)
        /\ \A y : InsertingYear(d, y)' \in SUBSET InsertingYear(d, y)
    <3>1. PICK x : x = Idle
      OBVIOUS
    <3>2. Become(s, x) /\ x.step # "inserting"
      BY <1>4, <3>1, IdleStep
    <3> QED BY <3>2, NoInsertion
  <2> QED BY <1>9, <1>13, <2>1, CompanyKept
<1>14. ASSUME NEW u \in Sessions PROVE YearRequestOK(u)'
  <2>1. CASE u = s
    BY <1>9, <2>1, IdleStep DEF YearRequestOK
  <2>2. CASE u # s
    <3>1. ASSUME NEW d \in Calendars PROVE YearsOf(d) \in SUBSET YearsOf(d)'
      <4>1. CASE d = c
        BY <1>10, <4>1
      <4>2. CASE d # c
        BY <1>9, <4>2 DEF YearsOf
      <4> QED BY <4>1, <4>2
    <3>2. \A d \in Calendars : years[d] # <<>> => years'[d] # <<>>
      BY <1>6, <1>8, <1>9
    <3> QED BY <1>9, <2>2, <3>1, <3>2, RequestKept DEF YearsInv
  <2> QED BY <2>1, <2>2
<1> QED BY <1>9, <1>12, <1>13, <1>14 DEF YearsInv

LEMMA YearsStep == TenancyInv /\ YearsInv /\ [Next]_vars => YearsInv'
<1> SUFFICES ASSUME TenancyInv, YearsInv, [Next]_vars PROVE YearsInv'
  OBVIOUS
<1>1. ASSUME NEW s \in Sessions, NEW x, Become(s, x), years' = years,
             x.step \notin {"inserting", "passed"}
      PROVE  YearsInv'
  BY <1>1, YearsUntouched
<1>2. ASSUME NEW s \in Sessions, Become(s, Idle), years' = years PROVE YearsInv'
  BY <1>1, <1>2, IdleStep
<1>3. ASSUME NEW s \in Sessions, SignupStep(s) PROVE YearsInv'
  <2>1. ASSUME NEW slug, BeginSignup(s, slug) PROVE YearsInv'
    BY <1>1, <2>1 DEF BeginSignup, access
  <2>2. ASSUME CreateTenant(s) PROVE YearsInv'
    BY <1>1, <2>2 DEF CreateTenant, access
  <2>3. ASSUME NEW email, CreateOwner(s, email) PROVE YearsInv'
    BY <1>1, <2>3 DEF CreateOwner
  <2> QED BY <1>3, <2>1, <2>2, <2>3 DEF SignupStep
<1>4. ASSUME UNCHANGED <<years, sess>> PROVE YearsInv'
  <2>1. ASSUME NEW c \in Calendars PROVE YearsOK(c)'
    <3>1. years'[c] = years[c] /\ InsertingInto(c)' = InsertingInto(c)
          /\ \A y : InsertingYear(c, y)' = InsertingYear(c, y)
      BY <1>4 DEF InsertingInto, InsertingYear
    <3> QED BY <3>1, CompanyKept
  <2>2. ASSUME NEW u \in Sessions PROVE YearRequestOK(u)'
    <3>1. YearRequestOK(u) /\ sess'[u] = sess[u] /\ \A c : YearsOf(c)' = YearsOf(c)
      BY <1>4 DEF YearsInv, YearsOf
    <3> QED BY <1>4, <3>1, RequestKept
  <2> QED BY <1>4, <2>1, <2>2 DEF YearsInv
<1>5. ASSUME NEW s \in Sessions, TokenStep(s) PROVE YearsInv'
  <2>1. ASSUME NEW user, Login(s, user) PROVE YearsInv'
    BY <1>1, <2>1 DEF Login, access
  <2>2. ASSUME NEW user, LogoutEverywhere(s, user) PROVE YearsInv'
    BY <1>4, <2>2 DEF LogoutEverywhere, access
  <2>3. ASSUME NEW t, FindToken(s, t) PROVE YearsInv'
    BY <1>1, <2>3 DEF FindToken, access
  <2>4. ASSUME Issue(s) PROVE YearsInv'
    BY <1>2, <2>4 DEF Issue, access
  <2>5. ASSUME RevokeToken(s) PROVE YearsInv'
    <3>1. PICK x : x = [step |-> "issue", user |-> tokens[sess[s].token].user, from |-> sess[s].token]
      OBVIOUS
    <3>2. Become(s, x) /\ x.step = "issue" /\ years' = years
      BY <2>5, <3>1 DEF RevokeToken, access
    <3> QED BY <1>1, <3>2
  <2> QED BY <1>5, <2>1, <2>2, <2>3, <2>4, <2>5 DEF TokenStep
<1>6. ASSUME NEW s \in Sessions, GuardedStep(s) PROVE YearsInv'
  <2>1. ASSUME NEW user \in Users, NEW code \in Codes, NEW company, Guard(s, user, code, company)
        PROVE  YearsInv'
    <3>1. PICK x : x = [step |-> "passed", user |-> user, code |-> code, company |-> company]
      OBVIOUS
    <3>2. x.step = "passed" /\ x.company = company /\ Become(s, x) /\ years' = years
      BY <2>1, <3>1 DEF Guard, access
    <3>3. company \in There \cup {Everywhere}
      BY <2>1 DEF Guard, Bodies
    <3> QED BY <3>2, <3>3, YearsUntouched
  <2>2. ASSUME NEW email, NEW status, Invite(s, email) \/ SetStatus(s, email, status)
        PROVE  YearsInv'
    BY <1>2, <2>2 DEF Invite, SetStatus
  <2>3. ASSUME NEW id, NEW code, CreateRole(s, id) \/ AddPermission(s, id, code)
                                 \/ RemovePermission(s, id, code)
        PROVE  YearsInv'
    BY <1>2, <2>3 DEF CreateRole, AddPermission, RemovePermission
  <2>4. ASSUME NEW email, NEW c, NEW role, NEW g, Grant(s, email, c, role) \/ Revoke(s, g)
        PROVE  YearsInv'
    BY <1>2, <2>4 DEF Grant, Revoke
  <2> QED BY <1>6, <2>1, <2>2, <2>3, <2>4, CreateCompanyYears, BeginYears, CommitYears
          DEF GuardedStep
<1>7. ASSUME NEW s \in Sessions, Fail(s) PROVE YearsInv'
  BY <1>2, <1>7 DEF Fail, access
<1>8. CASE UNCHANGED vars
  BY <1>4, <1>8 DEF vars
<1> QED BY <1>3, <1>5, <1>6, <1>7, <1>8 DEF Next

\* However requests for the next fiscal year overlap, the years of a company are those
\* from its first to its latest, none with more copies than requests run at a time, and
\* every day of each of them, through the leap years, is in one period of its row.
THEOREM CalendarIsAlwaysWhole == Spec => []CalendarIsWhole
<1>1. YearsInv => YearsWithoutGaps
  <2> SUFFICES ASSUME YearsInv, NEW c \in Calendars, YearsOf(c) # {}
               PROVE  /\ YearsOf(c) = First .. Max(YearsOf(c))
                      /\ \A y \in YearsOf(c) : Copies(years[c], y) <= Cardinality(Sessions)
    BY DEF YearsWithoutGaps, YearsOf
  <2>1. years[c] # <<>> /\ years[c] \in Seq(Nat) /\ YearsOK(c)
    BY DEF YearsOf, YearsInv
  <2>2. YearsOf(c) = First .. Max(YearsOf(c))
    BY <2>1, LatestYear
  <2>3. ASSUME NEW y \in YearsOf(c) PROVE Copies(years[c], y) <= Cardinality(Sessions)
    <3>1. y \in Nat
      BY <2>1 DEF YearsOf
    <3>2. Copies(years[c], y) \in Nat
      BY <2>1, <3>1, CopiesGrow
    <3>3. Copies(years[c], y) + Cardinality(InsertingYear(c, y)) <= Cardinality(Sessions)
      BY <2>1 DEF YearsOK
    <3> QED BY <3>2, <3>3, InsertingCounted
  <2> QED BY <2>2, <2>3
<1>2. YearsInv => DaysAreTiled
  <2> SUFFICES ASSUME YearsInv, NEW c \in Calendars, NEW y \in YearsOf(c)
               PROVE  y \in TiledYears
    BY DEF DaysAreTiled, YearsOf
  <2>1. years[c] # <<>> /\ years[c] \in Seq(Nat) /\ YearsOK(c)
    BY DEF YearsOf, YearsInv
  <2>2. PICK last \in Nat : /\ First <= last /\ last <= First + Len(years[c]) - 1
                            /\ YearsOf(c) = First .. last
    BY <2>1, LatestYear
  <2>3. Len(years[c]) <= MaxYears + 1
    <3>1. Len(years[c]) \in Nat /\ Len(years[c]) + Inserting(c) <= MaxYears + 1
      BY <2>1 DEF YearsOK
    <3>2. Inserting(c) \in Nat
      BY InsertingCounted
    <3> QED BY <3>1, <3>2, CalendarAssumption
  <2>4. y \in First .. (First + MaxYears)
    <3>1. Len(years[c]) \in Nat
      BY <2>1
    <3> QED BY <2>2, <2>3, <3>1, CalendarAssumption
  <2> QED BY <2>4, EveryYearIsTiled
<1>3. YearsInv => CalendarIsWhole
  BY <1>1, <1>2 DEF CalendarIsWhole
<1> QED BY <1>3, YearsInit, YearsStep, TenancyInvariant, PTL DEF Spec
=============================================================================
