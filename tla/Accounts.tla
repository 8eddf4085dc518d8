------------------------------ MODULE Accounts ------------------------------
(***************************************************************************)
(* Accounts and what belongs to them: the login methods, memberships and   *)
(* vehicles of users (IdentityService, ManageService, VehiclesService),    *)
(* their sessions and codes (AuthService, TokensService), and the number   *)
(* of organisations they belong to (TenantsService).                       *)
(*                                                                         *)
(* Requests run concurrently, call by call; a transaction is one step      *)
(* after the reads it makes.  There is one shop.  Profiles, the ways a     *)
(* code or token expires, and refusals without a write are left out.       *)
(***************************************************************************)
EXTENDS Naturals, FiniteSets, Sequences

CONSTANTS
    Users, NoUser,  \* user ids, those in use and those to be given out
    Subjects,       \* identities: a provider's name for somebody
    Provider,       \* per subject, its provider
    Vehicles,       \* vehicle ids
    Lost, Gone,     \* owners of a vehicle deleted with its membership, or by hand
    Codes, PhoneOf, \* one-time codes, each with the identity of its phone
    Requests,       \* HTTP requests that can be in flight at once
    InitIdentity,   \* per subject, its user at the start
    InitOwner,      \* per vehicle, its membership at the start
    MAX_MEMBERSHIPS,
    MaxTokens,      \* bound: refresh tokens issued
    MaxOps          \* bound: requests

ASSUME AccountsAssumption ==
    /\ NoUser \notin Users /\ {Lost, Gone} \cap (Users \cup {NoUser}) = {}
    /\ Provider \in [Subjects -> {"PHONE", "GOOGLE", "APPLE"}]
    /\ PhoneOf \in [Codes -> Subjects]
    /\ InitIdentity \in [Subjects -> Users \cup {NoUser}]
    /\ InitOwner \in [Vehicles -> Users \cup {NoUser}]
    /\ \A v \in Vehicles : InitOwner[v] # NoUser => \E s \in Subjects : InitIdentity[s] = InitOwner[v]
    /\ MAX_MEMBERSHIPS \in Nat /\ MaxTokens \in Nat /\ MaxOps \in Nat

VARIABLES
    users,          \* the User rows
    given,          \* user ids given out so far
    identity,       \* per subject, its AuthIdentity row, if any: its user, and
                    \* an id, which counts the rows there have been
    rowUser, role,  \* Membership rows, each named by the user it was made for
    owner,          \* per vehicle, its membership
    tokens,         \* refresh tokens: user, revoked, what they were issued for
    code,           \* OtpChallenge: "none", "open" or "consumed"
    tenants,        \* per user, its TenantMembership rows
    req,            \* the requests in flight, with what they read
    ops,            \* requests started
    raced           \* history: kinds of requests two of which were in flight

accountVars == <<users, given, identity, rowUser, role, owner>>
sessionVars == <<tokens, code>>
vars == <<accountVars, sessionVars, tenants, req, ops, raced>>

Idle == [pc |-> "idle", kind |-> <<>>]

Init ==
    /\ users = {u \in Users : \E s \in Subjects : InitIdentity[s] = u}
    /\ given = users
    /\ identity = [s \in Subjects |-> [user |-> InitIdentity[s], id |-> 0]]
    /\ rowUser = [m \in Users |-> IF m \in users THEN m ELSE NoUser]
    /\ role = [m \in Users |-> "CUSTOMER"]
    /\ owner = InitOwner
    /\ tokens = <<>>
    /\ code = [c \in Codes |-> "none"]
    /\ tenants = [u \in Users |-> 0]
    /\ req = [r \in Requests |-> Idle]
    /\ ops = 0
    /\ raced = {}

-----------------------------------------------------------------------------
(* Requests. *)

Identities(u) == {s \in Subjects : identity[s].user = u}
RowsOf(u) == {m \in Users : rowUser[m] = u}

\* Request r goes on with what it has read.
Goes(r, record) ==
    /\ req' = [req EXCEPT ![r] = record]
    /\ raced' = raced \cup {record.kind : q \in {q \in Requests \ {r} : req[q].kind = record.kind}}

Ends(r) == req' = [req EXCEPT ![r] = Idle] /\ UNCHANGED raced

Begins(r) ==
    /\ req[r].pc = "idle"
    /\ ops < MaxOps
    /\ ops' = ops + 1

\* The next call of a request.
At(r, pc) == req[r].pc = pc /\ UNCHANGED ops

NewIdentity(s, u) == [user |-> u, id |-> identity[s].id + 1]

\* A user is created with its first identity and membership.
CreateUser(u, s, itsRole) ==
    /\ identity[s].user = NoUser
    /\ users' = users \cup {u}
    /\ given' = given \cup {u}
    /\ identity' = [identity EXCEPT ![s] = NewIdentity(s, u)]
    /\ rowUser' = [rowUser EXCEPT ![u] = u]
    /\ role' = [role EXCEPT ![u] = itsRole]
    /\ UNCHANGED owner

\* Or not at all: the identity may have been taken since it was looked up.
IdentityTaken(r, s) ==
    /\ identity[s].user # NoUser
    /\ Ends(r)
    /\ UNCHANGED accountVars

-----------------------------------------------------------------------------
(* Signing in: one-time codes, Firebase, refresh tokens. *)

requestOtp(c) ==
    /\ code[c] = "none"
    /\ code' = [code EXCEPT ![c] = "open"]
    /\ UNCHANGED <<accountVars, tokens, tenants, req, ops, raced>>

\* verifyOtp finds the code unconsumed.
ReadCode(r, c) ==
    /\ Begins(r)
    /\ code[c] = "open"
    /\ Goes(r, [pc |-> "consume", kind |-> <<"code", c>>, subject |-> PhoneOf[c]])
    /\ UNCHANGED <<accountVars, sessionVars, tenants>>

Consume(r) ==
    /\ At(r, "consume")
    /\ code' = [code EXCEPT ![req[r].kind[2]] = "consumed"]
    /\ req' = [req EXCEPT ![r].pc = "resolve"]
    /\ UNCHANGED <<accountVars, tokens, tenants, raced>>

\* resolveLogin looks the identity up, for a session of the given origin.
Resolved(s, kind) ==
    IF identity[s].user = NoUser
      THEN [pc |-> "provision", kind |-> kind, subject |-> s]
      ELSE [pc |-> "session", kind |-> kind, user |-> identity[s].user]

Resolve(r) ==
    /\ At(r, "resolve")
    /\ Goes(r, Resolved(req[r].subject, req[r].kind))
    /\ UNCHANGED <<accountVars, sessionVars, tenants>>

loginWithFirebase(r, s) ==
    /\ Begins(r)
    /\ Goes(r, Resolved(s, <<"firebase">>))
    /\ UNCHANGED <<accountVars, sessionVars, tenants>>

Provision(r) ==
    /\ At(r, "provision")
    /\ \/ IdentityTaken(r, req[r].subject)
       \/ \E u \in Users \ given :
            /\ CreateUser(u, req[r].subject, "CUSTOMER")
            /\ Goes(r, [pc |-> "session", kind |-> req[r].kind, user |-> u])
    /\ UNCHANGED <<sessionVars, tenants>>

\* The tokens of a deleted user are deleted with it.
Live(t) == ~tokens[t].revoked /\ tokens[t].user \in users

\* rotate finds the token valid.
ReadToken(r, t) ==
    /\ Begins(r)
    /\ Live(t)
    /\ Goes(r, [pc |-> "revoke", kind |-> <<"token", t>>])
    /\ UNCHANGED <<accountVars, sessionVars, tenants>>

\* Mutant: the old token is left valid.
RevokeNothing(r) ==
    LET t == req[r].kind[2] IN
    /\ At(r, "revoke")
    /\ UNCHANGED tokens
    /\ Goes(r, [pc |-> "session", kind |-> req[r].kind, user |-> tokens[t].user])
    /\ UNCHANGED <<accountVars, code, tenants>>

Revoke(r) ==
    LET t == req[r].kind[2] IN
    /\ At(r, "revoke")
    /\ IF tokens[t].user \in users
         THEN /\ tokens' = [tokens EXCEPT ![t].revoked = TRUE]
              /\ Goes(r, [pc |-> "session", kind |-> req[r].kind, user |-> tokens[t].user])
         ELSE Ends(r) /\ UNCHANGED tokens
    /\ UNCHANGED <<accountVars, code, tenants>>

\* The insert of the refresh token fails if its user has been deleted.
issueSession(r) ==
    /\ At(r, "session")
    /\ Len(tokens) < MaxTokens
    /\ tokens' = IF req[r].user \in users
                   THEN Append(tokens, [user |-> req[r].user, revoked |-> FALSE,
                                        for |-> req[r].kind])
                   ELSE tokens
    /\ Ends(r)
    /\ UNCHANGED <<accountVars, code, tenants>>

-----------------------------------------------------------------------------
(* Login methods: link, merge, unlink. *)

\* linkIdentity looks the identity up: nobody's, or another account's that the
\* customer confirms to merge.
linkIdentity(r, u, s) ==
    /\ Begins(r)
    /\ u \in users /\ identity[s].user # u
    /\ Goes(r, IF identity[s].user = NoUser
                 THEN [pc |-> "attach", kind |-> <<"attach">>, user |-> u, subject |-> s]
                 ELSE [pc |-> "fold", kind |-> <<"merge">>, user |-> u,
                       other |-> identity[s].user])
    /\ UNCHANGED <<accountVars, sessionVars, tenants>>

Attach(r) ==
    LET q == req[r] IN
    /\ At(r, "attach")
    /\ identity' = IF q.user \in users /\ identity[q.subject].user = NoUser
                     THEN [identity EXCEPT ![q.subject] = NewIdentity(q.subject, q.user)]
                     ELSE identity
    /\ Ends(r)
    /\ UNCHANGED <<users, given, rowUser, role, owner, sessionVars, tenants>>

\* merge reads the memberships of both.
ReadBoth(r) ==
    /\ At(r, "fold")
    /\ Goes(r, [pc |-> "merge", kind |-> <<"merge">>, user |-> req[r].user,
                other |-> req[r].other, theirs |-> RowsOf(req[r].other),
                mine |-> RowsOf(req[r].user)])
    /\ UNCHANGED <<accountVars, sessionVars, tenants>>

\* The survivor's membership of the same role, if it had one.
Twins(q, m) == {d \in q.mine : role[d] = role[m]}

\* The transaction goes through: both users and all the rows it writes exist,
\* and no two memberships of the survivor have one role.
MergeCommits(q) ==
    /\ q.user \in users /\ q.other \in users
    /\ \A m \in q.theirs :
        /\ rowUser[m] # NoUser
        /\ Twins(q, m) = {} =>
            \A d \in RowsOf(q.user) \ {m} : role[d] # role[m]
        /\ \A d \in Twins(q, m) :
            rowUser[d] # NoUser \/ \A v \in Vehicles : owner[v] # m

\* Rows move to the survivor; those that have a twin go, after their vehicles
\* were moved to it; the rest of the merged account goes with it.
Fold(r, home) ==
    LET q == req[r]
        newUser == [m \in Users |->
            IF m \in q.theirs THEN (IF Twins(q, m) = {} THEN q.user ELSE NoUser)
            ELSE IF rowUser[m] = q.other THEN NoUser ELSE rowUser[m]]
    IN
    /\ At(r, "merge")
    /\ IF MergeCommits(q)
         THEN /\ rowUser' = newUser
              /\ owner' = [v \in Vehicles |->
                    LET m == IF owner[v] \in DOMAIN home THEN home[owner[v]] ELSE owner[v] IN
                    IF m \in Users /\ newUser[m] = NoUser THEN Lost ELSE m]
              /\ identity' = [s \in Subjects |->
                    IF identity[s].user = q.other THEN [identity[s] EXCEPT !.user = q.user]
                    ELSE identity[s]]
              /\ users' = users \ {q.other}
         ELSE UNCHANGED <<rowUser, owner, identity, users>>
    /\ Ends(r)
    /\ UNCHANGED <<given, role, sessionVars, tenants>>

\* Mutant: the vehicles of a duplicate membership are not moved.
MergeRowsOnly(r) == Fold(r, <<>>)

Merge(r) ==
    LET q == req[r] IN
    Fold(r, [m \in {m \in q.theirs : Twins(q, m) # {}} |->
               CHOOSE d \in Twins(q, m) : TRUE])

\* Mutant: the last login method can be removed.
MayUnlinkLast(u) == Cardinality(Identities(u)) >= 1

MayUnlink(u) == Cardinality(Identities(u)) > 1

unlinkIdentity(r, u, provider) ==
    /\ Begins(r)
    /\ u \in users /\ MayUnlink(u)
    /\ Goes(r, [pc |-> "find", kind |-> <<"unlink">>, user |-> u, provider |-> provider])
    /\ UNCHANGED <<accountVars, sessionVars, tenants>>

FindIdentity(r) ==
    LET found == {s \in Identities(req[r].user) : Provider[s] = req[r].provider} IN
    /\ At(r, "find")
    /\ \/ \E s \in found :
            Goes(r, [pc |-> "delete", kind |-> <<"unlink">>, subject |-> s,
                     id |-> identity[s].id])
       \/ found = {} /\ Ends(r)
    /\ UNCHANGED <<accountVars, sessionVars, tenants>>

DeleteIdentity(r) ==
    LET q == req[r] IN
    /\ At(r, "delete")
    /\ identity' = IF identity[q.subject].id = q.id
                     THEN [identity EXCEPT ![q.subject].user = NoUser]
                     ELSE identity
    /\ Ends(r)
    /\ UNCHANGED <<users, given, rowUser, role, owner, sessionVars, tenants>>

-----------------------------------------------------------------------------
(* Employees, vehicles, organisations. *)

createEmployee(r, s) ==
    /\ Begins(r)
    /\ Provider[s] = "PHONE" /\ identity[s].user = NoUser
    /\ Goes(r, [pc |-> "hire", kind |-> <<"hire">>, subject |-> s])
    /\ UNCHANGED <<accountVars, sessionVars, tenants>>

Hire(r) ==
    /\ At(r, "hire")
    /\ \/ IdentityTaken(r, req[r].subject)
       \/ \E u \in Users \ given : CreateUser(u, req[r].subject, "EMPLOYEE") /\ Ends(r)
    /\ UNCHANGED <<sessionVars, tenants>>

removeEmployee(r, m) ==
    /\ Begins(r)
    /\ rowUser[m] # NoUser /\ role[m] = "EMPLOYEE"
    /\ Goes(r, [pc |-> "dismiss", kind |-> <<"merge">>, row |-> m, user |-> rowUser[m]])
    /\ UNCHANGED <<accountVars, sessionVars, tenants>>

\* The bookings are released and the membership deleted, if it is still there.
Dismiss(r) ==
    LET q == req[r] IN
    /\ At(r, "dismiss")
    /\ IF rowUser[q.row] # NoUser
         THEN /\ rowUser' = [rowUser EXCEPT ![q.row] = NoUser]
              /\ owner' = [v \in Vehicles |-> IF owner[v] = q.row THEN Lost ELSE owner[v]]
              /\ req' = [req EXCEPT ![r].pc = "count"]
              /\ UNCHANGED raced
         ELSE Ends(r) /\ UNCHANGED <<rowUser, owner>>
    /\ UNCHANGED <<users, given, identity, role, sessionVars, tenants>>

CountRest(r) ==
    /\ At(r, "count")
    /\ IF RowsOf(req[r].user) = {}
         THEN req' = [req EXCEPT ![r].pc = "revokeLogin"] /\ UNCHANGED raced
         ELSE Ends(r)
    /\ UNCHANGED <<accountVars, sessionVars, tenants>>

\* The user is deleted, with the identities and memberships it has by now.
RevokeLogin(r) ==
    LET u == req[r].user IN
    /\ At(r, "revokeLogin")
    /\ users' = users \ {u}
    /\ identity' = [s \in Subjects |->
           IF identity[s].user = u THEN [identity[s] EXCEPT !.user = NoUser] ELSE identity[s]]
    /\ rowUser' = [m \in Users |-> IF rowUser[m] = u THEN NoUser ELSE rowUser[m]]
    /\ owner' = [v \in Vehicles |-> IF owner[v] \in RowsOf(u) THEN Lost ELSE owner[v]]
    /\ Ends(r)
    /\ UNCHANGED <<given, role, sessionVars, tenants>>

\* A vehicle is added to, or removed from, the membership the guard has read.
forVehicle(r, pc, u, v) ==
    /\ Begins(r)
    /\ u \in users
    /\ \A q \in Requests : req[q].kind # <<"vehicle", v>>
    /\ \E m \in RowsOf(u) :
        /\ role[m] = "CUSTOMER"
        /\ owner[v] = IF pc = "add" THEN NoUser ELSE m
        /\ Goes(r, [pc |-> pc, kind |-> <<"vehicle", v>>, row |-> m])
    /\ UNCHANGED <<accountVars, sessionVars, tenants>>

AddVehicle(r) ==
    LET v == req[r].kind[2] IN
    /\ At(r, "add")
    /\ owner' = IF rowUser[req[r].row] # NoUser
                  THEN [owner EXCEPT ![v] = req[r].row] ELSE owner
    /\ Ends(r)
    /\ UNCHANGED <<users, given, identity, rowUser, role, sessionVars, tenants>>

RemoveVehicle(r) ==
    LET v == req[r].kind[2] IN
    /\ At(r, "remove")
    /\ owner' = IF owner[v] = req[r].row THEN [owner EXCEPT ![v] = Gone] ELSE owner
    /\ Ends(r)
    /\ UNCHANGED <<users, given, identity, rowUser, role, sessionVars, tenants>>

\* Mutant: one organisation too many is allowed.
BelowCapOrAt(u) == tenants[u] <= MAX_MEMBERSHIPS

BelowCap(u) == tenants[u] < MAX_MEMBERSHIPS

\* createTenant counts the memberships, then creates the tenant with one.
createTenant(r, u) ==
    /\ Begins(r)
    /\ u \in users /\ BelowCap(u)
    /\ Goes(r, [pc |-> "found", kind |-> <<"tenant", u>>])
    /\ UNCHANGED <<accountVars, sessionVars, tenants>>

FoundTenant(r) ==
    LET u == req[r].kind[2] IN
    /\ At(r, "found")
    /\ tenants' = IF u \in users THEN [tenants EXCEPT ![u] = @ + 1] ELSE tenants
    /\ Ends(r)
    /\ UNCHANGED <<accountVars, sessionVars>>

-----------------------------------------------------------------------------
Start(r) ==
    \/ \E c \in Codes : ReadCode(r, c)
    \/ \E s \in Subjects : loginWithFirebase(r, s) \/ createEmployee(r, s)
    \/ \E t \in DOMAIN tokens : ReadToken(r, t)
    \/ \E u \in Users :
        \/ \E s \in Subjects : linkIdentity(r, u, s) \/ unlinkIdentity(r, u, Provider[s])
        \/ \E v \in Vehicles, pc \in {"add", "remove"} : forVehicle(r, pc, u, v)
        \/ removeEmployee(r, u) \/ createTenant(r, u)

Continue(r) ==
    \/ Consume(r) \/ Resolve(r) \/ Provision(r) \/ Revoke(r) \/ issueSession(r)
    \/ Attach(r) \/ ReadBoth(r) \/ Merge(r)
    \/ FindIdentity(r) \/ DeleteIdentity(r)
    \/ Hire(r) \/ Dismiss(r) \/ CountRest(r) \/ RevokeLogin(r)
    \/ AddVehicle(r) \/ RemoveVehicle(r) \/ FoundTenant(r)

Next ==
    \/ \E c \in Codes : requestOtp(c)
    \/ \E r \in Requests : Start(r) \/ Continue(r)

Spec == Init /\ [][Next]_vars

-----------------------------------------------------------------------------
(* Properties. *)

\* The types of the rows, and what refers to them.
TypeOK ==
    /\ users \subseteq given /\ given \subseteq Users
    /\ identity \in [Subjects -> [user: users \cup {NoUser}, id: Nat]]
    /\ rowUser \in [Users -> users \cup {NoUser}]
    /\ role \in [Users -> {"CUSTOMER", "EMPLOYEE"}]
    /\ owner \in [Vehicles -> Users \cup {NoUser, Lost, Gone}]
    /\ tenants \in [Users -> Nat]
    /\ ops \in 0 .. MaxOps

\* Every account keeps a way to sign in, however logins, links, merges, hires and
\* dismissals interleave with an unlink, and with each other; only two unlinks
\* at once can take the last two.
SignInKept ==
    <<"unlink">> \notin raced => \A u \in users : Identities(u) # {}

\* No merge or dismissal loses a customer's vehicle, though vehicles are added
\* meanwhile: it ends in a membership of an account that exists (merges and
\* dismissals one at a time).
VehiclesKept ==
    <<"merge">> \notin raced =>
        \A v \in Vehicles : owner[v] \in {NoUser, Gone} \/ \E m \in Users :
                                owner[v] = m /\ rowUser[m] \in users

\* A code and a refresh token are good for one session each, unless two requests
\* present the same one at once.
SpentOnce ==
    \A i, j \in DOMAIN tokens :
        i # j /\ tokens[i].for = tokens[j].for =>
            tokens[i].for = <<"firebase">> \/ tokens[i].for \in raced

\* Nobody founds more organisations than the cap allows, unless two requests of
\* one user are counted at once.
CapKept ==
    \A u \in Users : tenants[u] <= MAX_MEMBERSHIPS \/ <<"tenant", u>> \in raced
=============================================================================
