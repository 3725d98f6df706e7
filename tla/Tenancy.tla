------------------------------- MODULE Tenancy -------------------------------
(***************************************************************************)
(* From sign-up to the fiscal years of a company: tenants and their Owner, *)
(* refresh tokens, users, roles and grants, the guard in front of every    *)
(* handler, and the handlers that change companies, access and years.      *)
(*                                                                         *)
(* Sign-up and refresh are several transactions one after the other, and   *)
(* the guard looks in a transaction of its own before the handler's; each  *)
(* is a step here (the two reads at the start of a refresh are one).  A    *)
(* handler that changes single rows commits in one.  What a request is     *)
(* about is chosen when its handler runs.                                  *)
(* A password or a code that is wrong, like a token that has expired, is a *)
(* request that does nothing; an access token is not looked up, so it is   *)
(* enough that its user was issued one (it expires by time only).          *)
(***************************************************************************)
EXTENDS FiscalCalendar

CONSTANTS
  Sessions,   \* requests that may run at the same time
  TenantIds,  \* the ids tenants may get, numbers
  Slugs,      \* the slugs a sign-up may ask for
  Emails,     \* the addresses of users
  CustomRoles,\* the ids roles made by a tenant may get
  CompanyIds, \* the ids companies may get
  Everywhere, \* the company of a grant that names none
  Requires,   \* the code each guarded route requires; codes that the properties do
              \* not tell apart may be one
  Grantable,  \* the codes that requests add to a role
  Assignable, \* the ids of the roles that requests grant
  MaxTokens,  \* bound: refresh tokens ever issued
  MaxGrants,  \* bound: grants at a time
  MaxRows     \* bound: rows of users, roles, grants, fiscal years and tokens

Owner == "Owner"
Routes == {"companies", "users", "roles", "access", "years"}
Codes == {Requires[route] : route \in Routes}
NoToken == 0

ASSUME TenancyAssumption ==
  /\ Owner \notin CustomRoles /\ Everywhere \notin TenantIds \X CompanyIds
  /\ IsFiniteSet(Sessions) /\ TenantIds \subseteq Nat /\ DOMAIN Requires = Routes /\ Grantable \subseteq Codes
  /\ Assignable \subseteq CustomRoles \cup {Owner}
  /\ MaxTokens \in Nat /\ MaxGrants \in Nat /\ MaxRows \in Nat

VARIABLES
  tenants,   \* the rows of tenants
  users,     \* the status of a user, "none" before there is one
  roles,     \* the permissions of the roles that are there
  grants,    \* the rows of user_company_access
  years,     \* the fiscal years of a company, as each tenant sees them
  tokens,    \* refresh_tokens in the order of their issue
  sess,      \* where each request stands
  abandoned, \* the tenants whose sign-up failed before it had an Owner (history)
  revoked    \* the tenants of which a request has revoked an Owner grant (history)

vars == <<tenants, users, roles, grants, years, tokens, sess, abandoned, revoked>>
access == <<users, roles, grants, years>>
history == <<abandoned, revoked>>

Users == TenantIds \X Emails
Idle == [step |-> "idle"]
Become(s, t) == sess' = [sess EXCEPT ![s] = t]
Companies == TenantIds \X CompanyIds
Calendars == TenantIds \X Companies

\* The bounds leave room for one more row.
Room ==
  Cardinality({u \in Users : users[u] # "none"}) + Cardinality(DOMAIN roles) + Cardinality(grants)
    + Len(tokens) + MapThenSumSet(LAMBDA c : Len(years[c]), Calendars)
    + Cardinality({s \in Sessions : sess[s].step \in {"issue", "inserting"}}) < MaxRows

Init ==
  /\ tenants = {}
  /\ users = [u \in Users |-> "none"]
  /\ roles = [r \in {} |-> {}]
  /\ grants = {}
  /\ years = [c \in Calendars |-> <<>>]
  /\ tokens = <<>>
  /\ sess = [s \in Sessions |-> Idle]
  /\ abandoned = {}
  /\ revoked = {}

-----------------------------------------------------------------------------
(***************************************************************************)
(* Sign-up.                                                                *)
(***************************************************************************)
SlugFree(slug) == \A t \in tenants : t.slug # slug

\* The slug is looked up on the platform connection.
BeginSignup(s, slug) ==
  /\ sess[s] = Idle
  /\ SlugFree(slug)
  /\ Become(s, [step |-> "checked", slug |-> slug])
  /\ UNCHANGED <<tenants, access, tokens, history>>

\* The unique index on the slug lets the tenant in.
TakesSlug(slug) == SlugFree(slug)

\* The tenant's own transaction, again on the platform connection; ids are given
\* out in order.
CreateTenant(s) ==
  LET unused == TenantIds \ {t.id : t \in tenants} IN
  /\ sess[s].step = "checked"
  /\ TakesSlug(sess[s].slug)
  /\ unused # {}
  /\ tenants' = tenants \cup {[id |-> Min(unused), slug |-> sess[s].slug]}
  /\ Become(s, [step |-> "tenant", tenant |-> Min(unused)])
  /\ UNCHANGED <<access, tokens, history>>

\* A grant without a company may be there more than once.
Granted(user, company, role) ==
  LET row(n) == [user |-> user, company |-> company, role |-> role, copy |-> n]
  IN  grants \cup {row(Min({n \in 0..Cardinality(grants) : row(n) \notin grants}))}

\* Admin user, Owner role with the whole catalogue and its grant, in one transaction
CreateOwner(s, email) ==
  LET t == sess[s].tenant  user == <<t, email>> IN
  /\ sess[s].step = "tenant"
  /\ users' = [users EXCEPT ![user] = "active"]
  /\ roles' = [r \in DOMAIN roles \cup {<<t, Owner>>} |->
                 IF r = <<t, Owner>> THEN Codes ELSE roles[r]]
  /\ grants' = Granted(user, Everywhere, <<t, Owner>>)
  /\ Become(s, [step |-> "issue", user |-> user, from |-> NoToken])
  /\ UNCHANGED <<tenants, years, tokens, history>>

-----------------------------------------------------------------------------
(***************************************************************************)
(* Login and refresh tokens.                                               *)
(***************************************************************************)
Login(s, user) ==
  /\ sess[s] = Idle
  /\ users[user] = "active"
  /\ Room
  /\ Become(s, [step |-> "issue", user |-> user, from |-> NoToken])
  /\ UNCHANGED <<tenants, access, tokens, history>>

\* issueTokenPair
Issue(s) ==
  /\ sess[s].step = "issue"
  /\ Len(tokens) < MaxTokens
  /\ tokens' = Append(tokens, [user |-> sess[s].user, from |-> sess[s].from,
                               live |-> TRUE, racing |-> 0])
  /\ Become(s, Idle)
  /\ UNCHANGED <<tenants, access, history>>

\* Mutant of Findable: revoked tokens are found too.
MutantRevokedToo(t) == TRUE
Findable(t) == tokens[t].live

\* refresh: findLiveRefreshToken, and the status of its user
FindToken(s, t) ==
  /\ sess[s] = Idle
  /\ Findable(t) /\ users[tokens[t].user] = "active"
  /\ Room
  /\ Become(s, [step |-> "found", token |-> t])
  /\ UNCHANGED <<tenants, access, tokens, history>>

\* The token as revoked; the first time with the number of refreshes that have it
\* in hand (history).
Revoked(t) ==
  IF ~tokens[t].live THEN tokens[t]
  ELSE [tokens[t] EXCEPT !.live = FALSE, !.racing =
          Cardinality({s \in Sessions : sess[s].step = "found" /\ sess[s].token = t})]

RevokeToken(s) ==
  LET t == sess[s].token IN
  /\ sess[s].step = "found"
  /\ tokens' = [tokens EXCEPT ![t] = Revoked(t)]
  /\ Become(s, [step |-> "issue", user |-> tokens[t].user, from |-> t])
  /\ UNCHANGED <<tenants, access, history>>

Issued(user) == \E t \in DOMAIN tokens : tokens[t].user = user

\* One UPDATE of all live tokens of the user
LogoutEverywhere(s, user) ==
  /\ sess[s] = Idle
  /\ Issued(user)
  /\ tokens' = [t \in DOMAIN tokens |-> IF tokens[t].user = user THEN Revoked(t) ELSE tokens[t]]
  /\ UNCHANGED <<tenants, access, sess, history>>

-----------------------------------------------------------------------------
(***************************************************************************)
(* The guard: some grant of the user, everywhere or for the company that   *)
(* it finds in the request, has a role with the code that the route        *)
(* requires.  It takes the company of the body, and where there is none    *)
(* any that the path or the query may name, of whichever tenant.           *)
(***************************************************************************)
There == {c \in Companies : years[<<c[1], c>>] # <<>>}

Matching(user, company) == {g \in grants : g.user = user /\ g.company \in {Everywhere, company}}

\* Of a role of another tenant row-level security hides the row, and the guard's
\* query fails.
Right(user, code, company) ==
  /\ \A g \in Matching(user, company) : g.role[1] = user[1]
  /\ \E g \in Matching(user, company) : code \in roles[g.role]

\* A request for a new year is about a company, one for a grant may be; the other
\* handlers do without the company of the body.
Bodies(code) ==
  (IF code \in {Requires["years"], Requires["access"]} THEN There ELSE {})
    \cup (IF code \in {Requires[route] : route \in Routes \ {"years"}} THEN {Everywhere} ELSE {})

Guard(s, user, code, company) ==
  /\ sess[s] = Idle
  /\ Issued(user)
  /\ company \in Bodies(code)
  /\ \E seen \in IF company = Everywhere THEN There \cup {Everywhere} ELSE {company} :
       Right(user, code, seen)
  /\ Become(s, [step |-> "passed", user |-> user, code |-> code, company |-> company])
  /\ UNCHANGED <<tenants, access, tokens, history>>

Passed(s, route, company) ==
  sess[s].step = "passed" /\ sess[s].code = Requires[route] /\ sess[s].company = company

\* The tenant that row-level security confines the handler to.
Tenant(s) == sess[s].user[1]

-----------------------------------------------------------------------------
(***************************************************************************)
(* Users, roles and grants.                                                *)
(***************************************************************************)
Invite(s, email) ==
  /\ Passed(s, "users", Everywhere)
  /\ users[<<Tenant(s), email>>] = "none"
  /\ Room
  /\ users' = [users EXCEPT ![<<Tenant(s), email>>] = "active"]
  /\ Become(s, Idle)
  /\ UNCHANGED <<tenants, roles, grants, years, tokens, history>>

SetStatus(s, email, status) ==
  /\ Passed(s, "users", Everywhere)
  /\ users[<<Tenant(s), email>>] # "none"
  /\ users' = [users EXCEPT ![<<Tenant(s), email>>] = status]
  /\ Become(s, Idle)
  /\ UNCHANGED <<tenants, roles, grants, years, tokens, history>>

\* A role begins without permissions; the company it may name is only a filter
\* of the list.
CreateRole(s, id) ==
  LET role == <<Tenant(s), id>> IN
  /\ Passed(s, "roles", Everywhere)
  /\ role \notin DOMAIN roles
  /\ Room
  /\ roles' = [r \in DOMAIN roles \cup {role} |-> IF r = role THEN {} ELSE roles[r]]
  /\ Become(s, Idle)
  /\ UNCHANGED <<tenants, users, grants, years, tokens, history>>

\* Mutant of Editable: the Owner role can be edited.
MutantAnyRole(role) == role \in DOMAIN roles

\* The role is there and is not a system role.
Editable(role) == role \in DOMAIN roles /\ role[2] # Owner

\* upsert: a permission the role has already stays
AddPermission(s, id, code) ==
  LET role == <<Tenant(s), id>> IN
  /\ Passed(s, "roles", Everywhere)
  /\ Editable(role)
  /\ roles' = [roles EXCEPT ![role] = @ \cup {code}]
  /\ Become(s, Idle)
  /\ UNCHANGED <<tenants, users, grants, years, tokens, history>>

RemovePermission(s, id, code) ==
  LET role == <<Tenant(s), id>> IN
  /\ Passed(s, "roles", Everywhere)
  /\ Editable(role)
  /\ roles' = [roles EXCEPT ![role] = @ \ {code}]
  /\ Become(s, Idle)
  /\ UNCHANGED <<tenants, users, grants, years, tokens, history>>

\* Row-level security asks for a user of the tenant; role and company are checked by
\* their foreign keys, which see every tenant's.  A unique index keeps a second grant of
\* a role for a company out; it does not see grants without a company.
Grant(s, email, company, role) ==
  LET user == <<Tenant(s), email>> IN
  /\ Passed(s, "access", company)
  /\ users[user] # "none" /\ role \in DOMAIN roles
  /\ company = Everywhere \/
       \A g \in grants : <<g.user, g.company, g.role>> # <<user, company, role>>
  /\ Cardinality(grants) < MaxGrants /\ Room
  /\ grants' = Granted(user, company, role)
  /\ Become(s, Idle)
  /\ UNCHANGED <<tenants, users, roles, years, tokens, history>>

\* A grant belongs to the tenant of its user.
Visible(s, g) == g.user[1] = Tenant(s)

Revoke(s, g) ==
  /\ Passed(s, "access", Everywhere)
  /\ Visible(s, g)
  /\ grants' = grants \ {g}
  /\ revoked' = IF g.role = <<Tenant(s), Owner>> THEN revoked \cup {Tenant(s)} ELSE revoked
  /\ Become(s, Idle)
  /\ UNCHANGED <<tenants, users, roles, years, tokens, abandoned>>

-----------------------------------------------------------------------------
(***************************************************************************)
(* Companies and their fiscal years.                                       *)
(***************************************************************************)
\* The company with its accounts, posting rules and current year, in one transaction
CreateCompany(s, id) ==
  LET c == <<Tenant(s), <<Tenant(s), id>>>> IN
  /\ Passed(s, "companies", Everywhere)
  /\ years[c] = <<>>
  /\ Room
  /\ years' = [years EXCEPT ![c] = <<First>>]
  /\ Become(s, Idle)
  /\ UNCHANGED <<tenants, users, roles, grants, tokens, history>>

Inserting(c) == Cardinality({s \in Sessions : sess[s].step = "inserting" /\ sess[s].company = c})

\* The fiscal years of a company that a request sees.
Rows(s, company) == years[<<Tenant(s), company>>]

\* Nothing checks that the company is one of the tenant's.
BeginNextFiscalYear(s) ==
  LET c == <<Tenant(s), sess[s].company>> IN
  /\ sess[s].step = "passed" /\ sess[s].company # Everywhere
  /\ Passed(s, "years", sess[s].company)
  /\ Len(years[c]) + Inserting(c) < MaxYears /\ Room
  /\ Become(s, [step |-> "inserting", company |-> c,
                year |-> NextYear(Rows(s, sess[s].company))])
  /\ UNCHANGED <<tenants, access, tokens, history>>

CommitNextFiscalYear(s) ==
  LET c == sess[s].company IN
  /\ sess[s].step = "inserting"
  /\ years' = [years EXCEPT ![c] = Append(@, sess[s].year)]
  /\ Become(s, Idle)
  /\ UNCHANGED <<tenants, users, roles, grants, tokens, history>>

\* A check refuses the request, a statement fails or the server stops; what the
\* request has committed stays.
Fail(s) ==
  /\ sess[s] # Idle
  /\ abandoned' = IF sess[s].step = "tenant" THEN abandoned \cup {sess[s].tenant} ELSE abandoned
  /\ Become(s, Idle)
  /\ UNCHANGED <<tenants, access, tokens, revoked>>

-----------------------------------------------------------------------------
SignupStep(s) ==
  \/ \E slug \in Slugs : BeginSignup(s, slug)
  \/ CreateTenant(s)
  \/ \E email \in Emails : CreateOwner(s, email)

TokenStep(s) ==
  \/ \E user \in Users : Login(s, user) \/ LogoutEverywhere(s, user)
  \/ Issue(s)
  \/ \E t \in DOMAIN tokens : FindToken(s, t)
  \/ RevokeToken(s)

GuardedStep(s) ==
  \/ \E user \in Users, code \in Codes, c \in Companies \cup {Everywhere} : Guard(s, user, code, c)
  \/ \E email \in Emails : Invite(s, email)
  \/ \E email \in Emails, status \in {"active", "disabled"} : SetStatus(s, email, status)
  \/ \E id \in CustomRoles : CreateRole(s, id)
  \/ \E id \in CustomRoles \cup {Owner}, code \in Grantable :
       AddPermission(s, id, code) \/ RemovePermission(s, id, code)
  \/ \E email \in Emails, c \in Companies \cup {Everywhere}, role \in TenantIds \X Assignable :
       Grant(s, email, c, role)
  \/ \E g \in grants : Revoke(s, g)
  \/ \E id \in CompanyIds : CreateCompany(s, id)
  \/ BeginNextFiscalYear(s)
  \/ CommitNextFiscalYear(s)

Next == \E s \in Sessions : SignupStep(s) \/ TokenStep(s) \/ GuardedStep(s) \/ Fail(s)

Spec == Init /\ [][Next]_vars

-----------------------------------------------------------------------------
(***************************************************************************)
(* Properties.                                                             *)
(***************************************************************************)
SigningUp(s, id) == sess[s].step = "tenant" /\ sess[s].tenant = id
HasOwner(id) ==
  /\ <<id, Owner>> \in DOMAIN roles /\ roles[<<id, Owner>>] = Codes
  /\ id \in revoked \/ \E g \in grants :
       g.user[1] = id /\ g.role = <<id, Owner>> /\ g.company = Everywhere

\* Sign-up is not one transaction, yet it leaves all or nothing: a tenant has
\* its Owner role with the whole catalogue and a user of its own it was granted
\* to everywhere, unless one of its own requests revoked that; only while its
\* sign-up is under way, or after it failed in between, has it nobody.  What the
\* requests of other tenants do, which may name its roles and companies in grants
\* of theirs, does not matter.  Its slug is nobody else's.
TenantsAreOwned ==
  \A t \in tenants :
    /\ \A u \in tenants \ {t} : u.slug # t.slug
    /\ IF t.id \in abandoned \/ \E s \in Sessions : SigningUp(s, t.id)
       THEN \A e \in Emails : users[<<t.id, e>>] = "none"
       ELSE HasOwner(t.id)

Successors(t) == {n \in DOMAIN tokens : tokens[n].from = t}

\* A refresh token is exchanged once: it has no successor before it is revoked, and
\* later no more than refreshes had found it when it was.
ExchangedOnce == \A t \in DOMAIN tokens : Cardinality(Successors(t)) <= tokens[t].racing

\* However the requests overlap, no year is left out between the first and the
\* latest that a tenant sees of a company, and a year has no more rows than requests
\* can run at once: one that begins after a copy is there inserts a later year.
YearsWithoutGaps ==
  \A c \in Calendars :
    LET all == {years[c][i] : i \in DOMAIN years[c]} IN
    all # {} => /\ all = First .. Max(all)
                /\ \A y \in all : Copies(years[c], y) <= Cardinality(Sessions)

\* Every day of the years a company has, leap days and the turns of the months
\* and years included, is in one period of each row of its year and in no other.
DaysAreTiled ==
  \A c \in Calendars : \A i \in DOMAIN years[c] : years[c][i] \in TiledYears

\* The calendar of a company has no hole: neither a year nor a day of one is missing.
CalendarIsWhole == YearsWithoutGaps /\ DaysAreTiled

-----------------------------------------------------------------------------
(***************************************************************************)
(* The inductive invariant behind TenantsAreOwned.                         *)
(***************************************************************************)
Ids == {t.id : t \in tenants}
Token == [user : Users, from : Nat, live : BOOLEAN, racing : Nat]

Shapes ==
  /\ \A t \in tenants : t.id \in TenantIds
  /\ users \in [Users -> {"none", "active", "disabled"}]
  /\ roles = [r \in DOMAIN roles |-> roles[r]]
  /\ tokens \in Seq(Token)
  /\ sess = [s \in Sessions |-> sess[s]]
  /\ abandoned \subseteq Ids

\* Ids and slugs are keys, and only tenants have users.
KeysOK ==
  /\ \A t, u \in tenants : t.id = u.id \/ t.slug = u.slug => t = u
  /\ \A u \in Users : users[u] # "none" => u[1] \in Ids

\* A sign-up has its tenant for itself; every other request is of a user there is.
SessionOK(s) ==
  /\ sess[s].step = "tenant" =>
       /\ sess[s].tenant \in Ids \ abandoned
       /\ \A u \in Sessions : SigningUp(u, sess[s].tenant) => u = s
  /\ sess[s].step \in {"issue", "passed"} => sess[s].user \in Users /\ users[sess[s].user] # "none"
  /\ sess[s].step = "issue" => sess[s].from \in Nat
  /\ sess[s].step = "found" => sess[s].token \in DOMAIN tokens

TenancyInv ==
  /\ Shapes
  /\ KeysOK
  /\ \A s \in Sessions : SessionOK(s)
  /\ \A n \in DOMAIN tokens : users[tokens[n].user] # "none"
  /\ TenantsAreOwned

(***************************************************************************)
(* The one behind ExchangedOnce.                                           *)
(***************************************************************************)
Holding(t) == {s \in Sessions : sess[s].step = "found" /\ sess[s].token = t}
Exchanging(t) == {s \in Sessions : sess[s].step = "issue" /\ sess[s].from = t}

\* A live token is nobody's predecessor; the refreshes that found it account for its
\* successors, those still to be issued and themselves.
ExchangeOK(t) ==
  IF tokens[t].live THEN Successors(t) = {} /\ Exchanging(t) = {}
  ELSE Cardinality(Successors(t)) + Cardinality(Exchanging(t)) + Cardinality(Holding(t))
         <= tokens[t].racing

\* A successor is of a token issued before.
ExchangeInv ==
  /\ \A n \in DOMAIN tokens : tokens[n].from < n
  /\ \A s \in Sessions : sess[s].step = "issue" => sess[s].from <= Len(tokens)
  /\ \A t \in DOMAIN tokens : ExchangeOK(t)

(***************************************************************************)
(* And the one behind CalendarIsWhole.                                     *)
(***************************************************************************)
YearsOf(c) == {years[c][i] : i \in DOMAIN years[c]}
InsertingYear(c, y) ==
  {s \in Sessions : sess[s].step = "inserting" /\ sess[s].company = c /\ sess[s].year = y}

\* The years of a company are those from the first to the last, and the copies of one
\* are of requests that began before the first of them was there.
YearsOK(c) ==
  /\ years[c] # <<>> =>
       \E last \in First .. (First + Len(years[c]) - 1) : YearsOf(c) = First .. last
  /\ Len(years[c]) + Inserting(c) <= MaxYears + 1
  /\ \A y \in YearsOf(c) :
       Copies(years[c], y) + Cardinality(InsertingYear(c, y)) <= Cardinality(Sessions)

\* A request about a company is of one that is there, and inserts the first year or the
\* one after a year that is there; to its tenant the company has its first year.
YearRequestOK(s) ==
  LET c == sess[s].company  year == sess[s].year IN
  /\ sess[s].step = "passed" => c \in There \cup {Everywhere}
  /\ sess[s].step = "inserting" =>
       /\ c \in Calendars /\ (year = First \/ \E y \in YearsOf(c) : year = y + 1)
       /\ c[1] = c[2][1] => years[c] # <<>>

YearsInv ==
  /\ years \in [Calendars -> Seq(Nat)]
  /\ \A c \in Calendars : YearsOK(c)
  /\ \A s \in Sessions : YearRequestOK(s)
=============================================================================
