--------------------------- MODULE AccountsProofs ---------------------------
(***************************************************************************)
(* Proofs about Accounts: what survives any interleaving of requests.      *)
(***************************************************************************)
EXTENDS Accounts, FiniteSetTheorems, SequenceTheorems, TLAPS

-----------------------------------------------------------------------------
(* What the requests are. *)

CodeKinds == {<<"code", c>> : c \in Codes}

\* The kinds of requests that end in a session.
SessionKind(k) ==
    \/ k = <<"firebase">> \/ k \in CodeKinds
    \/ \E t \in DOMAIN tokens : k = <<"token", t>>

\* What a request carries at each of its steps.
Shape(q) ==
    /\ q.pc = "idle" => q.kind = <<>>
    /\ q.pc = "consume" => q \in [pc: {"consume"}, kind: CodeKinds, subject: Subjects]
    /\ q.pc \in {"resolve", "provision"} => SessionKind(q.kind) /\ q.subject \in Subjects
    /\ q.pc = "session" => SessionKind(q.kind) /\ q.user \in given
    /\ q.pc = "revoke" => \E t \in DOMAIN tokens : q.kind = <<"token", t>>
    /\ q.pc = "attach" => q.subject \in Subjects
    /\ q.pc \in {"fold", "merge"} =>
         /\ q.kind = <<"merge">>
         /\ q.user \in given /\ q.other \in given /\ q.user # q.other
    /\ q.pc = "merge" => q.theirs \subseteq Users /\ q.mine \subseteq Users
    /\ q.pc = "find" => q.kind = <<"unlink">> /\ q.user \in given
    /\ q.pc = "delete" => q.kind = <<"unlink">> /\ q.subject \in Subjects
    /\ q.pc = "hire" => q.subject \in Subjects
    /\ q.pc \in {"dismiss", "count", "revokeLogin"} =>
         q \in [pc: {"dismiss", "count", "revokeLogin"}, kind: {<<"merge">>},
                row: Users, user: given]
    /\ q.pc \in {"add", "remove"} =>
         q.row \in Users /\ \E v \in Vehicles : q.kind = <<"vehicle", v>>
    /\ q.pc = "found" => \E u \in Users : q.kind = <<"tenant", u>>

\* Two requests of a kind have been noticed.
Alone ==
    \A r, o \in Requests :
        r # o /\ req[r].kind = req[o].kind =>
            req[r].kind = <<>> \/ req[r].kind \in raced

RequestsOK ==
    /\ req = [r \in Requests |-> req[r]]
    /\ \A r \in Requests : Shape(req[r])
    /\ Alone

Origins == {<<"firebase">>} \cup CodeKinds \cup {<<"token", t>> : t \in Nat}

Tokens == [user: Users, revoked: BOOLEAN, for: Origins]

TokensOK ==
    /\ tokens \in Seq(Tokens)
    /\ \A t \in DOMAIN tokens : tokens[t].user \in given /\ SessionKind(tokens[t].for)

\* The invariant all others rest on.
BaseInv == TypeOK /\ TokensOK /\ RequestsOK

\* A request moves on: what it carries now has its shape, the others have theirs.
LEMMA RequestMoves ==
    ASSUME RequestsOK, NEW r \in Requests, NEW next,
           \/ Goes(r, next)
           \/ Ends(r) /\ next = Idle
           \/ req' = [req EXCEPT ![r] = next] /\ next.kind = req[r].kind /\ UNCHANGED raced,
           given \subseteq given', DOMAIN tokens \subseteq DOMAIN tokens', Shape(next)'
    PROVE  /\ RequestsOK'
           /\ req'[r] = next
           /\ \A o \in Requests \ {r} : req'[o] = req[o]
           /\ raced \subseteq raced'
<1>1. req' = [req EXCEPT ![r] = next] /\ raced \subseteq raced'
  BY DEF Goes, Ends
<1>2. /\ req' = [o \in Requests |-> req'[o]] /\ req'[r] = next
      /\ \A o \in Requests \ {r} : req'[o] = req[o]
  BY <1>1 DEF RequestsOK
<1>3. \A o \in Requests \ {r} : Shape(req[o])'
  BY <1>2 DEF RequestsOK, Shape, SessionKind
<1>4. \A o \in Requests \ {r} : req[o].kind = next.kind => next.kind = <<>> \/ next.kind \in raced'
  <2>1. CASE Goes(r, next)
    BY <2>1 DEF Goes
  <2>2. CASE Ends(r) /\ next = Idle
    BY <2>2 DEF Idle
  <2>3. CASE next.kind = req[r].kind
    BY <1>1, <2>3 DEF RequestsOK, Alone
  <2> QED BY <2>1, <2>2, <2>3
<1>5. Alone'
  BY <1>1, <1>2, <1>4 DEF RequestsOK, Alone
<1>6. \A o \in Requests : Shape(req[o])'
  BY <1>2, <1>3 DEF Shape, SessionKind
<1> QED BY <1>1, <1>2, <1>5, <1>6 DEF RequestsOK

LEMMA InitBase == Init => BaseInv
<1> SUFFICES ASSUME Init PROVE BaseInv
  OBVIOUS
<1>1. TypeOK
  BY AccountsAssumption DEF Init, TypeOK
<1>2. TokensOK
  BY DEF Init, TokensOK
<1>3. RequestsOK
  BY DEF Init, RequestsOK, Alone, Shape, Idle
<1> QED BY <1>1, <1>2, <1>3 DEF BaseInv

\* A step of a request that leaves the accounts alone.
LEMMA QuietBase ==
    ASSUME BaseInv, RequestsOK', UNCHANGED accountVars, TokensOK',
           tenants' \in [Users -> Nat], ops' \in 0 .. MaxOps
    PROVE  BaseInv'
BY DEF BaseInv, TypeOK, accountVars

\* Signing in keeps the invariant.
LEMMA SignInBase ==
    ASSUME BaseInv, NEW r \in Requests,
           \/ \E c \in Codes : ReadCode(r, c)
           \/ \E s \in Subjects : loginWithFirebase(r, s)
           \/ \E t \in DOMAIN tokens : ReadToken(r, t)
           \/ Consume(r) \/ Resolve(r) \/ Revoke(r) \/ issueSession(r)
    PROVE  BaseInv'
<1> USE AccountsAssumption
<1>0. TypeOK /\ TokensOK /\ RequestsOK /\ Shape(req[r])
  BY DEF BaseInv, RequestsOK
<1>a. ops \in 0 .. MaxOps /\ (Begins(r) => ops' \in 0 .. MaxOps)
  BY <1>0 DEF TypeOK, Begins
<1>b. UNCHANGED accountVars /\ UNCHANGED tokens => TokensOK'
  BY <1>0 DEF TokensOK, SessionKind, accountVars
<1>1. ASSUME NEW c \in Codes, ReadCode(r, c) PROVE BaseInv'
  <2>1. PICK next : next = [pc |-> "consume", kind |-> <<"code", c>>, subject |-> PhoneOf[c]]
    OBVIOUS
  <2>2. Shape(next)'
    BY <2>1 DEF Shape, CodeKinds
  <2>3. RequestsOK'
    BY <1>0, <1>1, <2>1, <2>2, RequestMoves DEF ReadCode, accountVars, sessionVars
  <2> QED BY <1>0, <1>a, <1>b, <1>1, <2>3, QuietBase DEF ReadCode, sessionVars, TypeOK
<1>2. ASSUME NEW s \in Subjects, loginWithFirebase(r, s) PROVE BaseInv'
  <2>1. PICK next : next = Resolved(s, <<"firebase">>)
    OBVIOUS
  <2>2. Shape(next)'
    BY <1>0, <1>2, <2>1
       DEF Resolved, Shape, SessionKind, TypeOK, loginWithFirebase, accountVars
  <2>3. RequestsOK'
    BY <1>0, <1>2, <2>1, <2>2, RequestMoves DEF loginWithFirebase, accountVars, sessionVars
  <2> QED BY <1>0, <1>a, <1>b, <1>2, <2>3, QuietBase DEF loginWithFirebase, sessionVars, TypeOK
<1>3. ASSUME NEW t \in DOMAIN tokens, ReadToken(r, t) PROVE BaseInv'
  <2>1. PICK next : next = [pc |-> "revoke", kind |-> <<"token", t>>]
    OBVIOUS
  <2>2. Shape(next)'
    BY <1>3, <2>1 DEF Shape, ReadToken, sessionVars
  <2>3. RequestsOK'
    BY <1>0, <1>3, <2>1, <2>2, RequestMoves DEF ReadToken, accountVars, sessionVars
  <2> QED BY <1>0, <1>a, <1>b, <1>3, <2>3, QuietBase DEF ReadToken, sessionVars, TypeOK
<1>4. ASSUME Consume(r) PROVE BaseInv'
  <2>1. PICK next : next = [req[r] EXCEPT !.pc = "resolve"]
    OBVIOUS
  <2>2. Shape(next)' /\ next.kind = req[r].kind
    BY <1>0, <1>4, <2>1 DEF Shape, SessionKind, Consume, At
  <2>3. RequestsOK'
    BY <1>0, <1>4, <2>1, <2>2, RequestMoves DEF Consume, accountVars
  <2> QED BY <1>0, <1>a, <1>b, <1>4, <2>3, QuietBase DEF Consume, At, TypeOK
<1>5. ASSUME Resolve(r) PROVE BaseInv'
  <2>1. PICK next : next = Resolved(req[r].subject, req[r].kind)
    OBVIOUS
  <2>2. Shape(next)'
    BY <1>0, <1>5, <2>1
       DEF Resolved, Shape, SessionKind, TypeOK, Resolve, At, accountVars, sessionVars
  <2>3. RequestsOK'
    BY <1>0, <1>5, <2>1, <2>2, RequestMoves DEF Resolve, accountVars, sessionVars
  <2> QED BY <1>0, <1>a, <1>b, <1>5, <2>3, QuietBase DEF Resolve, At, sessionVars, TypeOK
<1>6. ASSUME Revoke(r) PROVE BaseInv'
  <2>1. PICK t \in DOMAIN tokens : req[r].kind = <<"token", t>>
    BY <1>0, <1>6 DEF Shape, Revoke, At
  <2>2. TokensOK' /\ DOMAIN tokens' = DOMAIN tokens /\ given' = given
    <3>1. given' = given /\ (tokens' = tokens \/ tokens' = [tokens EXCEPT ![t].revoked = TRUE])
      BY <1>6, <2>1 DEF Revoke, accountVars
    <3>2. CASE tokens' = [tokens EXCEPT ![t].revoked = TRUE]
      <4>1. tokens \in Seq(Tokens) /\ t \in 1 .. Len(tokens)
        BY <1>0 DEF TokensOK
      <4>2. PICK token : token = [tokens[t] EXCEPT !.revoked = TRUE]
        OBVIOUS
      <4>3. /\ token \in Tokens
            /\ token.user = tokens[t].user /\ token.for = tokens[t].for
        <5>1. tokens[t] \in Tokens
          BY <4>1, ElementOfSeq
        <5> QED BY <4>2, <5>1 DEF Tokens
      <4>4. tokens' = [tokens EXCEPT ![t] = token]
        BY <3>2, <4>2
      <4>5. /\ tokens' \in Seq(Tokens) /\ Len(tokens') = Len(tokens)
            /\ \A i \in 1 .. Len(tokens) : tokens'[i] = IF i = t THEN token ELSE tokens[i]
        BY <4>1, <4>3, <4>4, ExceptSeq
      <4>6. DOMAIN tokens = 1 .. Len(tokens) /\ DOMAIN tokens' = DOMAIN tokens
        BY <4>1, <4>5
      <4> QED BY <1>0, <3>1, <4>3, <4>5, <4>6 DEF TokensOK, SessionKind
    <3> QED BY <1>0, <3>1, <3>2 DEF TokensOK, SessionKind
  <2>3. tokens[t].user \in given
    BY <1>0, <2>1 DEF TokensOK
  <2>4. PICK next : next = IF tokens[t].user \in users
                             THEN [pc |-> "session", kind |-> req[r].kind, user |-> tokens[t].user]
                             ELSE Idle
    OBVIOUS
  <2>5. Shape(next)'
    BY <2>1, <2>2, <2>3, <2>4 DEF Shape, SessionKind, Idle
  <2>6. Goes(r, next) \/ (Ends(r) /\ next = Idle)
    BY <1>6, <2>1, <2>4 DEF Revoke
  <2>7. RequestsOK'
    BY <1>0, <2>2, <2>5, <2>6, RequestMoves
  <2> QED BY <1>0, <1>a, <1>6, <2>2, <2>7, QuietBase DEF Revoke, At, TypeOK
<1>7. ASSUME issueSession(r) PROVE BaseInv'
  <2>1. SessionKind(req[r].kind) /\ req[r].user \in given
    BY <1>0, <1>7 DEF Shape, issueSession, At
  <2>2. TokensOK' /\ DOMAIN tokens \subseteq DOMAIN tokens'
    <3>1. CASE req[r].user \in users
      <4>1. PICK token : token = [user |-> req[r].user, revoked |-> FALSE, for |-> req[r].kind]
        OBVIOUS
      <4>2. tokens' = Append(tokens, token) /\ tokens \in Seq(Tokens) /\ given' = given
        BY <1>0, <1>7, <3>1, <4>1 DEF issueSession, TokensOK, accountVars
      <4>3. token \in Tokens
        <5>1. req[r].kind \in Origins
          <6>1. CASE \E t \in DOMAIN tokens : req[r].kind = <<"token", t>>
            <7>1. DOMAIN tokens \subseteq Nat
              BY <4>2
            <7> QED BY <6>1, <7>1 DEF Origins
          <6> QED BY <2>1, <6>1 DEF SessionKind, Origins
        <5>2. req[r].user \in Users
          BY <1>0, <2>1 DEF TypeOK
        <5> QED BY <4>1, <5>1, <5>2 DEF Tokens
      <4>4. /\ tokens' \in Seq(Tokens) /\ Len(tokens') = Len(tokens) + 1
            /\ \A i \in 1 .. Len(tokens) : tokens'[i] = tokens[i]
            /\ tokens'[Len(tokens) + 1] = token
        BY <4>2, <4>3, AppendProperties
      <4>5. /\ DOMAIN tokens = 1 .. Len(tokens) /\ DOMAIN tokens' = 1 .. Len(tokens) + 1
            /\ Len(tokens) \in Nat
        BY <4>2, <4>4
      <4>6. \A t \in DOMAIN tokens' :
              \/ t \in DOMAIN tokens /\ tokens'[t] = tokens[t]
              \/ t = Len(tokens) + 1 /\ tokens'[t] = token
        BY <4>4, <4>5
      <4> QED BY <1>0, <2>1, <4>1, <4>2, <4>4, <4>5, <4>6 DEF TokensOK, SessionKind
    <3>2. CASE req[r].user \notin users
      <4>1. UNCHANGED <<tokens, given>>
        BY <1>7, <3>2 DEF issueSession, accountVars
      <4> QED BY <1>0, <4>1 DEF TokensOK, SessionKind
    <3> QED BY <3>1, <3>2
  <2>3. Shape(Idle)'
    BY DEF Shape, Idle
  <2>4. RequestsOK'
    BY <1>0, <1>7, <2>2, <2>3, RequestMoves DEF issueSession, accountVars
  <2> QED BY <1>0, <1>a, <1>7, <2>2, <2>4, QuietBase DEF issueSession, At, TypeOK
<1> QED BY <1>1, <1>2, <1>3, <1>4, <1>5, <1>6, <1>7

\* A step that issues no token: the account rows keep their types, and what the
\* request carries has its shape.
LEMMA MovesBase ==
    ASSUME BaseInv, NEW r \in Requests, NEW next,
           \/ Goes(r, next)
           \/ Ends(r) /\ next = Idle
           \/ req' = [req EXCEPT ![r] = next] /\ next.kind = req[r].kind /\ UNCHANGED raced,
           given \subseteq given', UNCHANGED tokens, TypeOK', Shape(next)'
    PROVE  BaseInv'
<1>1. RequestsOK'
  BY RequestMoves DEF BaseInv
<1>2. TokensOK'
  BY DEF BaseInv, TokensOK, SessionKind
<1> QED BY <1>1, <1>2 DEF BaseInv

LEMMA EndsBase ==
    ASSUME BaseInv, NEW r \in Requests, Ends(r),
           given \subseteq given', UNCHANGED tokens, TypeOK'
    PROVE  BaseInv'
<1>1. Shape(Idle)'
  BY DEF Shape, Idle
<1> QED BY <1>1, MovesBase

LEMMA SameTypes ==
    ASSUME BaseInv, UNCHANGED <<accountVars, tenants>>, ops' \in 0 .. MaxOps
    PROVE  TypeOK'
BY DEF BaseInv, TypeOK, accountVars

LEMMA OpsBound ==
    ASSUME BaseInv, NEW r \in Requests, Begins(r) \/ UNCHANGED ops
    PROVE  ops' \in 0 .. MaxOps
BY AccountsAssumption DEF BaseInv, TypeOK, Begins

\* A user is created: it was not given out before.
LEMMA CreateTypes ==
    ASSUME BaseInv, NEW u \in Users \ given, NEW s \in Subjects,
           NEW itsRole \in {"CUSTOMER", "EMPLOYEE"},
           CreateUser(u, s, itsRole), UNCHANGED <<tenants, ops>>
    PROVE  TypeOK' /\ given' = given \cup {u}
<1>1. identity' \in [Subjects -> [user: users' \cup {NoUser}, id: Nat]]
  <2>1. identity[s].id + 1 \in Nat
    BY DEF BaseInv, TypeOK
  <2> QED BY <2>1 DEF BaseInv, TypeOK, CreateUser, NewIdentity
<1> QED BY <1>1 DEF BaseInv, TypeOK, CreateUser

\* Linking, merging and unlinking keep the invariant.
LEMMA LoginBase ==
    ASSUME BaseInv, NEW r \in Requests,
           \/ \E u \in Users, s \in Subjects :
                linkIdentity(r, u, s) \/ unlinkIdentity(r, u, Provider[s])
           \/ Attach(r) \/ ReadBoth(r) \/ Merge(r) \/ FindIdentity(r) \/ DeleteIdentity(r)
    PROVE  BaseInv'
<1>0. TypeOK /\ Shape(req[r])
  BY DEF BaseInv, RequestsOK
<1>1. ASSUME NEW u \in Users, NEW s \in Subjects, linkIdentity(r, u, s) PROVE BaseInv'
  <2>1. PICK next : next = IF identity[s].user = NoUser
                 THEN [pc |-> "attach", kind |-> <<"attach">>, user |-> u, subject |-> s]
                 ELSE [pc |-> "fold", kind |-> <<"merge">>, user |-> u,
                       other |-> identity[s].user]
    OBVIOUS
  <2>2. Shape(next)'
    BY <1>0, <1>1, <2>1 DEF Shape, TypeOK, linkIdentity, accountVars
  <2>3. TypeOK'
    BY <1>1, SameTypes, OpsBound DEF linkIdentity
  <2> QED BY <1>1, <2>1, <2>2, <2>3, MovesBase DEF linkIdentity, accountVars, sessionVars
<1>2. ASSUME NEW u \in Users, NEW s \in Subjects, unlinkIdentity(r, u, Provider[s]) PROVE BaseInv'
  <2>1. PICK next : next = [pc |-> "find", kind |-> <<"unlink">>, user |-> u,
                            provider |-> Provider[s]]
    OBVIOUS
  <2>2. Shape(next)'
    BY <1>0, <1>2, <2>1 DEF Shape, TypeOK, unlinkIdentity, accountVars
  <2>3. TypeOK'
    BY <1>2, SameTypes, OpsBound DEF unlinkIdentity
  <2> QED BY <1>2, <2>1, <2>2, <2>3, MovesBase DEF unlinkIdentity, accountVars, sessionVars
<1>3. CASE Attach(r)
  <2>1. req[r].subject \in Subjects
    BY <1>0, <1>3 DEF Shape, Attach, At
  <2>2. identity' \in [Subjects -> [user: users \cup {NoUser}, id: Nat]]
    <3>1. identity[req[r].subject].id + 1 \in Nat
      BY <1>0, <2>1 DEF TypeOK
    <3> QED BY <1>0, <1>3, <2>1, <3>1 DEF TypeOK, Attach, NewIdentity
  <2>3. TypeOK'
    BY <1>0, <1>3, <2>2, OpsBound DEF TypeOK, Attach, At
  <2> QED BY <1>3, <2>3, EndsBase DEF Attach, sessionVars
<1>4. CASE ReadBoth(r)
  <2>1. PICK next : next = [pc |-> "merge", kind |-> <<"merge">>, user |-> req[r].user,
                other |-> req[r].other, theirs |-> RowsOf(req[r].other),
                mine |-> RowsOf(req[r].user)]
    OBVIOUS
  <2>2. Shape(next)'
    BY <1>0, <1>4, <2>1 DEF Shape, RowsOf, ReadBoth, At, accountVars
  <2>3. TypeOK'
    BY <1>4, SameTypes, OpsBound DEF ReadBoth, At
  <2> QED BY <1>4, <2>1, <2>2, <2>3, MovesBase DEF ReadBoth, accountVars, sessionVars
<1>5. CASE Merge(r)
  <2>1. PICK home : /\ \A m \in DOMAIN home : home[m] \in Users
                    /\ Fold(r, home)
    <3>1. \A m \in req[r].theirs : Twins(req[r], m) # {} =>
              (CHOOSE d \in Twins(req[r], m) : TRUE) \in Users
      BY <1>0, <1>5 DEF Shape, Merge, Fold, At, Twins
    <3> QED BY <1>5, <3>1 DEF Merge
  <2>2. CASE ~MergeCommits(req[r])
    <3>1. UNCHANGED <<accountVars, sessionVars, tenants, ops>> /\ Ends(r)
      BY <2>1, <2>2 DEF Fold, At, accountVars
    <3> QED BY <3>1, SameTypes, OpsBound, EndsBase DEF accountVars, sessionVars
  <2>3. CASE MergeCommits(req[r])
    <3> DEFINE q == req[r]
               newUser == [m \in Users |->
                   IF m \in q.theirs THEN (IF Twins(q, m) = {} THEN q.user ELSE NoUser)
                   ELSE IF rowUser[m] = q.other THEN NoUser ELSE rowUser[m]]
    <3>1. /\ rowUser' = newUser
          /\ owner' = [v \in Vehicles |->
               LET m == IF owner[v] \in DOMAIN home THEN home[owner[v]] ELSE owner[v] IN
               IF m \in Users /\ newUser[m] = NoUser THEN Lost ELSE m]
          /\ identity' = [s \in Subjects |->
               IF identity[s].user = q.other THEN [identity[s] EXCEPT !.user = q.user]
               ELSE identity[s]]
          /\ users' = users \ {q.other}
          /\ UNCHANGED <<given, role, tokens, tenants, ops>> /\ Ends(r)
      BY <2>1, <2>3 DEF Fold, At, sessionVars
    <3>2. q.user \in users' /\ q.user # q.other
      BY <1>0, <2>1, <2>3, <3>1 DEF MergeCommits, Shape, Fold, At
    <3>3. rowUser' \in [Users -> users' \cup {NoUser}]
      BY <1>0, <3>1, <3>2 DEF TypeOK
    <3>4. owner' \in [Vehicles -> Users \cup {NoUser, Lost, Gone}]
      <4> HIDE DEF newUser
      <4> QED BY <1>0, <2>1, <3>1 DEF TypeOK
    <3>5. identity' \in [Subjects -> [user: users' \cup {NoUser}, id: Nat]]
      BY <1>0, <3>1, <3>2 DEF TypeOK
    <3>6. TypeOK'
      BY <1>0, <3>1, <3>3, <3>4, <3>5 DEF TypeOK
    <3> QED BY <3>1, <3>6, EndsBase
  <2> QED BY <2>2, <2>3
<1>6. CASE FindIdentity(r)
  <2>1. TypeOK'
    BY <1>6, SameTypes, OpsBound DEF FindIdentity, At
  <2>2. CASE Ends(r)
    BY <1>6, <2>1, <2>2, EndsBase DEF FindIdentity, accountVars, sessionVars
  <2>3. ASSUME NEW s \in Subjects,
               Goes(r, [pc |-> "delete", kind |-> <<"unlink">>, subject |-> s,
                        id |-> identity[s].id])
        PROVE  BaseInv'
    <3>1. PICK next : next = [pc |-> "delete", kind |-> <<"unlink">>, subject |-> s,
                              id |-> identity[s].id]
      OBVIOUS
    <3>2. Shape(next)'
      BY <3>1 DEF Shape
    <3> QED BY <1>6, <2>1, <2>3, <3>1, <3>2, MovesBase DEF FindIdentity, accountVars, sessionVars
  <2> QED BY <1>6, <2>2, <2>3 DEF FindIdentity, Identities
<1>7. CASE DeleteIdentity(r)
  <2>1. identity' \in [Subjects -> [user: users \cup {NoUser}, id: Nat]]
    BY <1>0, <1>7 DEF TypeOK, DeleteIdentity, At
  <2>2. TypeOK'
    BY <1>0, <1>7, <2>1, OpsBound DEF TypeOK, DeleteIdentity, At
  <2> QED BY <1>7, <2>2, EndsBase DEF DeleteIdentity, sessionVars
<1> QED BY <1>1, <1>2, <1>3, <1>4, <1>5, <1>6, <1>7

\* Provisioning, hiring and dismissing keep the invariant.
LEMMA StaffBase ==
    ASSUME BaseInv, NEW r \in Requests,
           \/ \E s \in Subjects : createEmployee(r, s)
           \/ \E m \in Users : removeEmployee(r, m)
           \/ Provision(r) \/ Hire(r) \/ Dismiss(r) \/ CountRest(r) \/ RevokeLogin(r)
    PROVE  BaseInv'
<1>0. TypeOK /\ Shape(req[r])
  BY DEF BaseInv, RequestsOK
<1>1. ASSUME NEW s \in Subjects, createEmployee(r, s) PROVE BaseInv'
  <2>1. PICK next : next = [pc |-> "hire", kind |-> <<"hire">>, subject |-> s]
    OBVIOUS
  <2>2. Shape(next)'
    BY <2>1 DEF Shape
  <2>3. TypeOK'
    BY <1>1, SameTypes, OpsBound DEF createEmployee
  <2> QED BY <1>1, <2>1, <2>2, <2>3, MovesBase DEF createEmployee, accountVars, sessionVars
<1>2. ASSUME NEW m \in Users, removeEmployee(r, m) PROVE BaseInv'
  <2>1. PICK next : next = [pc |-> "dismiss", kind |-> <<"merge">>, row |-> m,
                            user |-> rowUser[m]]
    OBVIOUS
  <2>2. rowUser[m] \in given'
    BY <1>0, <1>2 DEF TypeOK, removeEmployee, accountVars
  <2>3. Shape(next)'
    BY <2>1, <2>2 DEF Shape
  <2>4. TypeOK'
    BY <1>2, SameTypes, OpsBound DEF removeEmployee
  <2> QED BY <1>2, <2>1, <2>3, <2>4, MovesBase DEF removeEmployee, accountVars, sessionVars
<1>3. CASE Provision(r)
  <2>1. SessionKind(req[r].kind) /\ req[r].subject \in Subjects
    BY <1>0, <1>3 DEF Shape, Provision, At
  <2>2. CASE IdentityTaken(r, req[r].subject)
    BY <1>3, <2>2, SameTypes, OpsBound, EndsBase
       DEF Provision, At, IdentityTaken, accountVars, sessionVars
  <2>3. ASSUME NEW u \in Users \ given, CreateUser(u, req[r].subject, "CUSTOMER"),
               Goes(r, [pc |-> "session", kind |-> req[r].kind, user |-> u])
        PROVE  BaseInv'
    <3>1. PICK next : next = [pc |-> "session", kind |-> req[r].kind, user |-> u]
      OBVIOUS
    <3>2. TypeOK' /\ given' = given \cup {u} /\ UNCHANGED tokens
      BY <1>3, <2>1, <2>3, CreateTypes DEF Provision, At, sessionVars
    <3>3. Shape(next)'
      BY <2>1, <3>1, <3>2 DEF Shape, SessionKind
    <3> QED BY <2>3, <3>1, <3>2, <3>3, MovesBase
  <2> QED BY <1>3, <2>2, <2>3 DEF Provision
<1>4. CASE Hire(r)
  <2>1. req[r].subject \in Subjects
    BY <1>0, <1>4 DEF Shape, Hire, At
  <2>2. CASE IdentityTaken(r, req[r].subject)
    BY <1>4, <2>2, SameTypes, OpsBound, EndsBase
       DEF Hire, At, IdentityTaken, accountVars, sessionVars
  <2>3. ASSUME NEW u \in Users \ given, CreateUser(u, req[r].subject, "EMPLOYEE"), Ends(r)
        PROVE  BaseInv'
    <3>1. TypeOK' /\ given' = given \cup {u} /\ UNCHANGED tokens
      BY <1>4, <2>1, <2>3, CreateTypes DEF Hire, At, sessionVars
    <3> QED BY <2>3, <3>1, EndsBase
  <2> QED BY <1>4, <2>2, <2>3 DEF Hire
<1>5. CASE Dismiss(r)
  <2>0. UNCHANGED <<users, given, identity, role, tokens, tenants, ops>>
    BY <1>5 DEF Dismiss, At, sessionVars
  <2>1. CASE rowUser[req[r].row] # NoUser
    <3>1. PICK next : next = [req[r] EXCEPT !.pc = "count"]
      OBVIOUS
    <3>2. Shape(next)' /\ next.kind = req[r].kind /\ req[r].row \in Users
      BY <1>0, <1>5, <2>0, <3>1 DEF Shape, Dismiss, At
    <3>3. /\ rowUser' \in [Users -> users' \cup {NoUser}]
          /\ owner' \in [Vehicles -> Users \cup {NoUser, Lost, Gone}]
      BY <1>0, <1>5, <2>0, <2>1, <3>2 DEF Dismiss, TypeOK
    <3>4. TypeOK'
      BY <1>0, <2>0, <3>3 DEF TypeOK
    <3> QED BY <1>5, <2>0, <2>1, <3>1, <3>2, <3>4, MovesBase DEF Dismiss
  <2>2. CASE rowUser[req[r].row] = NoUser
    <3>1. UNCHANGED <<accountVars, tenants, ops>> /\ Ends(r)
      BY <1>5, <2>0, <2>2 DEF Dismiss, accountVars
    <3> QED BY <2>0, <3>1, SameTypes, OpsBound, EndsBase
  <2> QED BY <2>1, <2>2
<1>6. CASE CountRest(r)
  <2>1. TypeOK'
    BY <1>6, SameTypes, OpsBound DEF CountRest, At
  <2>2. CASE Ends(r)
    BY <1>6, <2>1, <2>2, EndsBase DEF CountRest, accountVars, sessionVars
  <2>3. CASE req' = [req EXCEPT ![r].pc = "revokeLogin"] /\ UNCHANGED raced
    <3>1. PICK next : next = [req[r] EXCEPT !.pc = "revokeLogin"]
      OBVIOUS
    <3>2. Shape(next)' /\ next.kind = req[r].kind
      BY <1>0, <1>6, <3>1 DEF Shape, CountRest, At, accountVars
    <3> QED BY <1>6, <2>1, <2>3, <3>1, <3>2, MovesBase DEF CountRest, accountVars, sessionVars
  <2> QED BY <1>6, <2>2, <2>3 DEF CountRest
<1>7. CASE RevokeLogin(r)
  <2>0. UNCHANGED <<given, role, tokens, tenants, ops>> /\ Ends(r)
    BY <1>7 DEF RevokeLogin, At, sessionVars
  <2>1. /\ users' \subseteq given
        /\ identity' \in [Subjects -> [user: users' \cup {NoUser}, id: Nat]]
        /\ rowUser' \in [Users -> users' \cup {NoUser}]
        /\ owner' \in [Vehicles -> Users \cup {NoUser, Lost, Gone}]
    BY <1>0, <1>7 DEF RevokeLogin, TypeOK
  <2>2. TypeOK'
    BY <1>0, <2>0, <2>1 DEF TypeOK
  <2> QED BY <2>0, <2>2, EndsBase
<1> QED BY <1>1, <1>2, <1>3, <1>4, <1>5, <1>6, <1>7

\* Vehicles, organisations and one-time codes keep the invariant.
LEMMA RestBase ==
    ASSUME BaseInv, NEW r \in Requests,
           \/ \E u \in Users, v \in Vehicles, pc \in {"add", "remove"} : forVehicle(r, pc, u, v)
           \/ \E u \in Users : createTenant(r, u)
           \/ AddVehicle(r) \/ RemoveVehicle(r) \/ FoundTenant(r)
    PROVE  BaseInv'
<1>0. TypeOK /\ Shape(req[r])
  BY DEF BaseInv, RequestsOK
<1>1. ASSUME NEW u \in Users, NEW v \in Vehicles, NEW pc \in {"add", "remove"},
             forVehicle(r, pc, u, v)
      PROVE  BaseInv'
  <2>1. PICK m \in Users : Goes(r, [pc |-> pc, kind |-> <<"vehicle", v>>, row |-> m])
    BY <1>1 DEF forVehicle, RowsOf
  <2>2. PICK next : next = [pc |-> pc, kind |-> <<"vehicle", v>>, row |-> m]
    OBVIOUS
  <2>3. Shape(next)'
    BY <2>2 DEF Shape
  <2>4. TypeOK'
    BY <1>1, SameTypes, OpsBound DEF forVehicle
  <2> QED BY <1>1, <2>1, <2>2, <2>3, <2>4, MovesBase DEF forVehicle, accountVars, sessionVars
<1>2. ASSUME NEW u \in Users, createTenant(r, u) PROVE BaseInv'
  <2>1. PICK next : next = [pc |-> "found", kind |-> <<"tenant", u>>]
    OBVIOUS
  <2>2. Shape(next)'
    BY <2>1 DEF Shape
  <2>3. TypeOK'
    BY <1>2, SameTypes, OpsBound DEF createTenant
  <2> QED BY <1>2, <2>1, <2>2, <2>3, MovesBase DEF createTenant, accountVars, sessionVars
<1>3. CASE AddVehicle(r)
  <2>1. req[r].row \in Users
    BY <1>0, <1>3 DEF Shape, AddVehicle, At
  <2>2. TypeOK'
    BY <1>0, <1>3, <2>1, OpsBound DEF TypeOK, AddVehicle, At
  <2> QED BY <1>3, <2>2, EndsBase DEF AddVehicle, sessionVars
<1>4. CASE RemoveVehicle(r)
  <2>1. TypeOK'
    BY <1>0, <1>4, OpsBound DEF TypeOK, RemoveVehicle, At
  <2> QED BY <1>4, <2>1, EndsBase DEF RemoveVehicle, sessionVars
<1>5. CASE FoundTenant(r)
  <2>1. tenants' \in [Users -> Nat]
    BY <1>0, <1>5 DEF TypeOK, FoundTenant
  <2>2. TypeOK'
    BY <1>0, <1>5, <2>1, OpsBound DEF TypeOK, FoundTenant, At, accountVars
  <2> QED BY <1>5, <2>2, EndsBase DEF FoundTenant, accountVars, sessionVars
<1> QED BY <1>1, <1>2, <1>3, <1>4, <1>5

\* Every step keeps the invariant.
LEMMA BaseStep == BaseInv /\ [Next]_vars => BaseInv'
<1> SUFFICES ASSUME BaseInv, [Next]_vars PROVE BaseInv'
  OBVIOUS
<1>1. ASSUME UNCHANGED <<accountVars, tokens, tenants, req, ops, raced>> PROVE BaseInv'
  BY <1>1 DEF BaseInv, TypeOK, TokensOK, RequestsOK, Shape, Alone, SessionKind, accountVars
<1>2. ASSUME UNCHANGED vars PROVE BaseInv'
  BY <1>1, <1>2 DEF vars, sessionVars
<1>3. ASSUME NEW c \in Codes, requestOtp(c) PROVE BaseInv'
  BY <1>1, <1>3 DEF requestOtp
<1>4. ASSUME NEW r \in Requests, Start(r) PROVE BaseInv'
  BY <1>4, SignInBase, LoginBase, StaffBase, RestBase DEF Start
<1>5. ASSUME NEW r \in Requests, Continue(r) PROVE BaseInv'
  BY <1>5, SignInBase, LoginBase, StaffBase, RestBase DEF Continue
<1> QED BY <1>2, <1>3, <1>4, <1>5 DEF Next

\* The rows keep their types, and every reference to a user is to one that
\* exists: no identity or membership outlives its user.
THEOREM AccountsTyped == Spec => []TypeOK
<1>1. BaseInv => TypeOK
  BY DEF BaseInv
<1> QED BY <1>1, InitBase, BaseStep, PTL DEF Spec

-----------------------------------------------------------------------------
(* Steps in general. *)

Quiet(r) ==
    \/ Attach(r) \/ ReadBoth(r) \/ Merge(r)
    \/ Hire(r) \/ Dismiss(r) \/ CountRest(r) \/ RevokeLogin(r)
    \/ AddVehicle(r) \/ RemoveVehicle(r)
    \/ \E s \in Subjects : createEmployee(r, s) \/ \E u \in Users : linkIdentity(r, u, s)
    \/ \E u \in Users :
        \/ removeEmployee(r, u)
        \/ \E v \in Vehicles, pc \in {"add", "remove"} : forVehicle(r, pc, u, v)

SignsIn(r) ==
    \/ Consume(r) \/ Resolve(r) \/ Provision(r) \/ Revoke(r) \/ issueSession(r)
    \/ \E c \in Codes : ReadCode(r, c)
    \/ \E s \in Subjects : loginWithFirebase(r, s)
    \/ \E t \in DOMAIN tokens : ReadToken(r, t)

Unlinks(r) ==
    \/ \E u \in Users, s \in Subjects : unlinkIdentity(r, u, Provider[s])
    \/ FindIdentity(r) \/ DeleteIdentity(r)

Founds(r) == FoundTenant(r) \/ \E u \in Users : createTenant(r, u)

SpendingPcs == {"consume", "revoke", "resolve", "provision", "session"}

\* Every step is a new code or a step of one request, of one of four sorts.
LEMMA NextSorts ==
    ASSUME Next
    PROVE  \/ \E c \in Codes : requestOtp(c)
           \/ \E r \in Requests : Quiet(r) \/ SignsIn(r) \/ Unlinks(r) \/ Founds(r)
BY DEF Next, Start, Continue, Quiet, SignsIn, Unlinks, Founds

\* A step of a request leaves what the others carry, and what has been noticed.
LEMMA OnlyOneMoves ==
    ASSUME BaseInv, NEW r \in Requests, Quiet(r) \/ SignsIn(r) \/ Unlinks(r) \/ Founds(r)
    PROVE  /\ \A o \in Requests \ {r} : req'[o] = req[o]
           /\ raced \subseteq raced'
<1>1. req = [o \in Requests |-> req[o]]
  BY DEF BaseInv, RequestsOK
<1>2. ASSUME \/ \E record : Goes(r, record)
             \/ Ends(r)
             \/ (\E pc : req' = [req EXCEPT ![r].pc = pc]) /\ UNCHANGED raced
      PROVE  /\ \A o \in Requests \ {r} : req'[o] = req[o]
             /\ raced \subseteq raced'
  BY <1>1, <1>2 DEF Goes, Ends
<1>3. CASE Quiet(r)
  BY <1>2, <1>3
     DEF Quiet, Attach, ReadBoth, Merge, Fold, Hire, IdentityTaken, Dismiss, CountRest,
         RevokeLogin, AddVehicle, RemoveVehicle, createEmployee, linkIdentity, removeEmployee,
         forVehicle
<1>4. CASE SignsIn(r)
  BY <1>2, <1>4
     DEF SignsIn, Consume, Resolve, Provision, IdentityTaken, Revoke, issueSession, ReadCode,
         loginWithFirebase, ReadToken
<1>5. CASE Unlinks(r)
  BY <1>2, <1>5 DEF Unlinks, unlinkIdentity, FindIdentity, DeleteIdentity
<1>6. CASE Founds(r)
  BY <1>2, <1>6 DEF Founds, FoundTenant, createTenant
<1> QED BY <1>3, <1>4, <1>5, <1>6

\* After a quiet step the request is at none of the steps the properties are about.
LEMMA QuietStep ==
    ASSUME BaseInv, NEW r \in Requests, Quiet(r)
    PROVE  /\ req'[r].pc \notin SpendingPcs \cup {"find", "delete", "found"}
           /\ UNCHANGED <<tokens, code, tenants>>
<1> DEFINE Apart(pc) == pc \notin SpendingPcs \cup {"find", "delete", "found"}
<1>0. req = [o \in Requests |-> req[o]] /\ Shape(req[r])
  BY DEF BaseInv, RequestsOK
<1>1. ASSUME NEW record, Goes(r, record), Apart(record.pc) PROVE Apart(req'[r].pc)
  BY <1>0, <1>1 DEF Goes
<1>2. ASSUME Ends(r) PROVE Apart(req'[r].pc)
  BY <1>0, <1>2 DEF Ends, Idle, SpendingPcs
<1>3. Apart(req'[r].pc)
  <2>1. CASE Attach(r) \/ Merge(r) \/ RevokeLogin(r) \/ AddVehicle(r) \/ RemoveVehicle(r)
    BY <1>2, <2>1 DEF Attach, Merge, Fold, RevokeLogin, AddVehicle, RemoveVehicle
  <2>2. CASE ReadBoth(r)
    BY <1>0, <2>2 DEF ReadBoth, Goes, SpendingPcs
  <2>3. CASE Hire(r)
    BY <1>2, <2>3 DEF Hire, IdentityTaken
  <2>4. CASE Dismiss(r)
    <3>1. CASE req' = [req EXCEPT ![r].pc = "count"]
      BY <1>0, <2>4, <3>1 DEF Dismiss, At, Shape, SpendingPcs
    <3> QED BY <1>2, <2>4, <3>1 DEF Dismiss
  <2>5. CASE CountRest(r)
    <3>1. CASE req' = [req EXCEPT ![r].pc = "revokeLogin"]
      BY <1>0, <2>5, <3>1 DEF CountRest, At, Shape, SpendingPcs
    <3> QED BY <1>2, <2>5, <3>1 DEF CountRest
  <2>6. ASSUME NEW s \in Subjects, createEmployee(r, s) PROVE Apart(req'[r].pc)
    BY <1>0, <2>6 DEF createEmployee, Goes, SpendingPcs
  <2>7. ASSUME NEW u \in Users, NEW s \in Subjects, linkIdentity(r, u, s)
        PROVE  Apart(req'[r].pc)
    BY <1>0, <2>7 DEF linkIdentity, Goes, SpendingPcs
  <2>8. ASSUME NEW u \in Users, removeEmployee(r, u) PROVE Apart(req'[r].pc)
    BY <1>0, <2>8 DEF removeEmployee, Goes, SpendingPcs
  <2>9. ASSUME NEW u \in Users, NEW v \in Vehicles, NEW pc \in {"add", "remove"},
               forVehicle(r, pc, u, v)
        PROVE  Apart(req'[r].pc)
    BY <1>0, <2>9 DEF forVehicle, Goes, SpendingPcs
  <2> HIDE DEF Apart
  <2> QED BY <2>1, <2>2, <2>3, <2>4, <2>5, <2>6, <2>7, <2>8, <2>9 DEF Quiet
<1>4. UNCHANGED <<tokens, code, tenants>>
  BY DEF Quiet, Attach, ReadBoth, Merge, Fold, Hire, Dismiss, CountRest, RevokeLogin, AddVehicle,
         RemoveVehicle, createEmployee, linkIdentity, removeEmployee, forVehicle, sessionVars
<1> QED BY <1>3, <1>4

\* Nor is a request that unlinks or founds at a step of signing in, and conversely.
LEMMA SignInStep ==
    ASSUME BaseInv, NEW r \in Requests, SignsIn(r)
    PROVE  req'[r].pc \in SpendingPcs \cup {"idle"} /\ UNCHANGED tenants
<1>0. req = [o \in Requests |-> req[o]] /\ Shape(req[r])
  BY DEF BaseInv, RequestsOK
<1>1. UNCHANGED tenants
  BY DEF SignsIn, Consume, Resolve, Provision, Revoke, issueSession, ReadCode,
         loginWithFirebase, ReadToken
<1>2. CASE Consume(r)
  BY <1>0, <1>1, <1>2 DEF Consume, At, Shape, SpendingPcs
<1>3. CASE Resolve(r) \/ Provision(r) \/ Revoke(r)
  BY <1>0, <1>1, <1>3
     DEF Resolve, Resolved, Provision, IdentityTaken, Revoke, Goes, Ends, Idle, SpendingPcs
<1>4. CASE issueSession(r)
  BY <1>0, <1>1, <1>4 DEF issueSession, Ends, Idle
<1>5. CASE \/ \E c \in Codes : ReadCode(r, c)
           \/ \E s \in Subjects : loginWithFirebase(r, s)
           \/ \E t \in DOMAIN tokens : ReadToken(r, t)
  BY <1>0, <1>1, <1>5 DEF ReadCode, loginWithFirebase, Resolved, ReadToken, Goes, SpendingPcs
<1> QED BY <1>2, <1>3, <1>4, <1>5 DEF SignsIn

LEMMA UnlinkStep ==
    ASSUME BaseInv, NEW r \in Requests, Unlinks(r)
    PROVE  /\ req'[r].pc \in {"find", "delete", "idle"}
           /\ UNCHANGED <<tokens, code, tenants, users>>
<1>0. req = [o \in Requests |-> req[o]]
  BY DEF BaseInv, RequestsOK
<1> QED BY <1>0
     DEF Unlinks, unlinkIdentity, FindIdentity, DeleteIdentity, Goes, Ends, Idle, sessionVars,
         accountVars

LEMMA FoundStep ==
    ASSUME BaseInv, NEW r \in Requests, Founds(r)
    PROVE  /\ req'[r].pc \in {"found", "idle"}
           /\ UNCHANGED <<accountVars, tokens, code>>
<1>0. req = [o \in Requests |-> req[o]]
  BY DEF BaseInv, RequestsOK
<1> QED BY <1>0 DEF Founds, FoundTenant, createTenant, Goes, Ends, Idle, sessionVars

-----------------------------------------------------------------------------
(* The cap on organisations. *)

\* A request that has counted, alone, still finds a place.
CapInv ==
    \A u \in Users : <<"tenant", u>> \notin raced =>
        /\ tenants[u] <= MAX_MEMBERSHIPS
        /\ \A r \in Requests : req[r].pc = "found" /\ req[r].kind = <<"tenant", u>> =>
               tenants[u] < MAX_MEMBERSHIPS

LEMMA CapFrame ==
    ASSUME CapInv, UNCHANGED tenants, raced \subseteq raced',
           \A r \in Requests : req'[r] = req[r] \/ req'[r].pc # "found"
    PROVE  CapInv'
BY DEF CapInv

LEMMA CapStep == BaseInv /\ BaseInv' /\ CapInv /\ [Next]_vars => CapInv'
<1> SUFFICES ASSUME BaseInv, BaseInv', CapInv, [Next]_vars PROVE CapInv'
  OBVIOUS
<1>1. CASE UNCHANGED vars \/ \E c \in Codes : requestOtp(c)
  BY <1>1 DEF vars, requestOtp, CapInv
<1>2. ASSUME NEW r \in Requests, Quiet(r) \/ SignsIn(r) \/ Unlinks(r) PROVE CapInv'
  <2>1. req'[r].pc # "found" /\ UNCHANGED tenants
    BY <1>2, QuietStep, SignInStep, UnlinkStep DEF SpendingPcs
  <2> QED BY <1>2, <2>1, OnlyOneMoves, CapFrame
<1>3. ASSUME NEW r \in Requests, Founds(r) PROVE CapInv'
  <2>0. /\ \A o \in Requests \ {r} : req'[o] = req[o]
        /\ raced \subseteq raced'
        /\ tenants \in [Users -> Nat] /\ MAX_MEMBERSHIPS \in Nat
    BY <1>3, OnlyOneMoves, AccountsAssumption DEF BaseInv, TypeOK
  <2>1. ASSUME NEW u \in Users, createTenant(r, u) PROVE CapInv'
    <3>1. UNCHANGED tenants /\ tenants[u] < MAX_MEMBERSHIPS
      BY <2>1 DEF createTenant, BelowCap
    <3>2. req'[r].kind = <<"tenant", u>>
      BY <2>1 DEF createTenant, Goes, BaseInv, RequestsOK
    <3> QED BY <2>0, <3>1, <3>2 DEF CapInv
  <2>2. CASE FoundTenant(r)
    <3>1. PICK u \in Users : req[r].kind = <<"tenant", u>> /\ req[r].pc = "found"
      BY <2>2 DEF FoundTenant, At, BaseInv, RequestsOK, Shape
    <3>2. tenants' = tenants \/ tenants' = [tenants EXCEPT ![u] = @ + 1]
      BY <2>2, <3>1 DEF FoundTenant
    <3>3. req'[r] = Idle
      BY <2>2 DEF FoundTenant, Ends, BaseInv, RequestsOK
    <3>4. ASSUME NEW w \in Users, <<"tenant", w>> \notin raced',
                 NEW o \in Requests, req'[o].pc = "found", req'[o].kind = <<"tenant", w>>
          PROVE  w # u /\ o # r
      <4>1. o # r
        BY <3>3, <3>4 DEF Idle
      <4> QED BY <2>0, <3>1, <3>4, <4>1 DEF BaseInv, RequestsOK, Alone
    <3>5. ASSUME NEW w \in Users, <<"tenant", w>> \notin raced'
          PROVE  tenants'[w] <= MAX_MEMBERSHIPS
      BY <2>0, <3>1, <3>2, <3>5 DEF CapInv
    <3>6. ASSUME NEW w \in Users, <<"tenant", w>> \notin raced',
                 NEW o \in Requests, req'[o].pc = "found", req'[o].kind = <<"tenant", w>>
          PROVE  tenants'[w] < MAX_MEMBERSHIPS
      BY <2>0, <3>2, <3>4, <3>6 DEF CapInv
    <3> QED BY <3>5, <3>6 DEF CapInv
  <2> QED BY <1>3, <2>1, <2>2 DEF Founds
<1> QED BY <1>1, <1>2, <1>3, NextSorts

\* Nobody founds more organisations than the cap allows, unless two requests of
\* one user are counted at once.
THEOREM CapIsKept == Spec => []CapKept
<1>1. Init => CapInv
  BY AccountsAssumption DEF Init, CapInv, Idle
<1>2. CapInv => CapKept
  BY DEF CapInv, CapKept
<1> QED BY <1>1, <1>2, CapStep, InitBase, BaseStep, PTL DEF Spec

-----------------------------------------------------------------------------
(* Codes and refresh tokens are good for one session. *)

\* What a session was given for is used up.
Spent(k) ==
    \/ \E c \in Codes : k = <<"code", c>> /\ code[c] = "consumed"
    \/ \E t \in DOMAIN tokens : k = <<"token", t>> /\ tokens[t].revoked

\* Two requests were noticed, or anything goes.
Exempt(k) == k = <<"firebase">> \/ k \in raced

SpentInv ==
    /\ code = [c \in Codes |-> code[c]]
    /\ \A i \in DOMAIN tokens : Exempt(tokens[i].for) \/ Spent(tokens[i].for)
    /\ \A r \in Requests :
        /\ req[r].pc \in {"resolve", "provision", "session"} =>
               Exempt(req[r].kind) \/ Spent(req[r].kind)
        /\ req[r].pc \in SpendingPcs =>
               \A i \in DOMAIN tokens : tokens[i].for = req[r].kind => Exempt(req[r].kind)
    /\ SpentOnce

\* What is used up stays so, and other requests keep what they carry.
LEMMA SpentFrame ==
    ASSUME SpentInv, NEW r \in Requests, raced \subseteq raced', UNCHANGED tokens,
           \A o \in Requests \ {r} : req'[o] = req[o],
           code' = [c \in Codes |-> code'[c]],
           \A c \in Codes : code[c] = "consumed" => code'[c] = "consumed",
           req'[r].pc \in {"resolve", "provision", "session"} =>
               Exempt(req[r].kind)' \/ Spent(req[r].kind)',
           req'[r].pc \in SpendingPcs =>
               \/ req[r].pc \in SpendingPcs /\ req'[r].kind = req[r].kind
               \/ \A i \in DOMAIN tokens : tokens[i].for = req'[r].kind => Exempt(req[r].kind)'
    PROVE  SpentInv'
<1>1. \A k : (Spent(k) => Spent(k)') /\ (Exempt(k) => Exempt(k)')
  BY DEF Spent, Exempt
<1>2. \A i \in DOMAIN tokens' : Exempt(tokens[i].for)' \/ Spent(tokens[i].for)'
  BY <1>1 DEF SpentInv
<1>3. \A o \in Requests : req'[o].pc \in {"resolve", "provision", "session"} =>
          Exempt(req[o].kind)' \/ Spent(req[o].kind)'
  BY <1>1 DEF SpentInv
<1>4. \A o \in Requests : req'[o].pc \in SpendingPcs =>
          \A i \in DOMAIN tokens' : tokens'[i].for = req'[o].kind => Exempt(req[o].kind)'
  BY <1>1 DEF SpentInv
<1>5. SpentOnce'
  BY DEF SpentInv, SpentOnce
<1> QED BY <1>2, <1>3, <1>4, <1>5 DEF SpentInv

\* A session is issued: the only one for what it was given for.
LEMMA SpentIssue ==
    ASSUME BaseInv, BaseInv', SpentInv, NEW r \in Requests, issueSession(r)
    PROVE  SpentInv'
<1> DEFINE k == req[r].kind
<1>0. /\ req[r].pc = "session" /\ UNCHANGED <<code, raced>>
      /\ req'[r] = Idle /\ \A o \in Requests \ {r} : req'[o] = req[o]
  BY DEF issueSession, At, Ends, BaseInv, RequestsOK
<1>1. CASE UNCHANGED tokens
  BY <1>0, <1>1, SpentFrame DEF Idle, SpendingPcs, SpentInv
<1>2. CASE req[r].user \in users
  <2>1. PICK token : token = [user |-> req[r].user, revoked |-> FALSE, for |-> k]
    OBVIOUS
  <2>2. tokens' = Append(tokens, token) /\ tokens \in Seq(Tokens)
    BY <1>2, <2>1 DEF issueSession, BaseInv, TokensOK
  <2>3. PICK n \in Nat : /\ DOMAIN tokens = 1 .. n /\ DOMAIN tokens' = 1 .. n + 1
                         /\ tokens'[n + 1] = token
                         /\ \A i \in 1 .. n : tokens'[i] = tokens[i]
    <3>1. tokens' \in Seq(Tokens)
      BY DEF BaseInv, TokensOK
    <3>2. /\ Len(tokens') = Len(tokens) + 1
          /\ \A i \in 1 .. Len(tokens) : tokens'[i] = tokens[i]
          /\ tokens'[Len(tokens) + 1] = token
      BY <2>2
    <3> QED BY <2>2, <3>1, <3>2
  <2>4. \A x : (Spent(x) => Spent(x)') /\ (Exempt(x) <=> Exempt(x)')
    BY <1>0, <2>3 DEF Spent, Exempt
  <2>5. Exempt(k) \/ (Spent(k) /\ \A i \in DOMAIN tokens : tokens[i].for # k)
    BY <1>0 DEF SpentInv, SpendingPcs
  <2>6. \A i \in DOMAIN tokens' : Exempt(tokens[i].for)' \/ Spent(tokens[i].for)'
    BY <2>1, <2>3, <2>4, <2>5 DEF SpentInv
  <2>7. \A o \in Requests : req'[o].pc \in {"resolve", "provision", "session"} =>
            Exempt(req[o].kind)' \/ Spent(req[o].kind)'
    BY <1>0, <2>4 DEF SpentInv, Idle
  <2>8. ASSUME NEW o \in Requests, req'[o].pc \in SpendingPcs,
               NEW i \in DOMAIN tokens', tokens'[i].for = req'[o].kind
        PROVE  Exempt(req[o].kind)'
    <3>1. o # r
      BY <1>0, <2>8 DEF Idle, SpendingPcs
    <3>2. CASE i = n + 1
      <4>1. req[o].kind = k
        BY <1>0, <2>1, <2>3, <2>8, <3>1, <3>2
      <4>2. k # <<>>
        <5>1. SessionKind(k)
          BY <1>0 DEF BaseInv, RequestsOK, Shape
        <5>2. \A x : <<"code", x>> # <<>> /\ <<"token", x>> # <<>> /\ <<"firebase">> # <<>>
          OBVIOUS
        <5> HIDE DEF k
        <5> QED BY <5>1, <5>2 DEF SessionKind, CodeKinds
      <4> QED BY <1>0, <3>1, <4>1, <4>2 DEF BaseInv, RequestsOK, Alone, Exempt
    <3>3. CASE i # n + 1
      BY <1>0, <2>3, <2>4, <2>8, <3>1, <3>3 DEF SpentInv
    <3> QED BY <3>2, <3>3
  <2>9. SpentOnce'
    BY <1>0, <2>1, <2>3, <2>5 DEF SpentInv, SpentOnce, Exempt
  <2> QED BY <1>0, <2>6, <2>7, <2>8, <2>9 DEF SpentInv
<1> QED BY <1>1, <1>2 DEF issueSession

\* An old token is revoked, and the request goes on to its session.
LEMMA SpentRevoke ==
    ASSUME BaseInv, BaseInv', SpentInv, NEW r \in Requests, Revoke(r)
    PROVE  SpentInv'
<1>0. /\ req[r].pc = "revoke" /\ UNCHANGED code
      /\ \A o \in Requests \ {r} : req'[o] = req[o]
      /\ raced \subseteq raced'
  BY OnlyOneMoves DEF Revoke, At, SignsIn
<1>1. PICK t \in DOMAIN tokens : req[r].kind = <<"token", t>>
  BY <1>0 DEF BaseInv, RequestsOK, Shape
<1>2. CASE tokens[t].user \in users
  <2>1. /\ tokens' = [tokens EXCEPT ![t].revoked = TRUE]
        /\ req'[r] = [pc |-> "session", kind |-> req[r].kind, user |-> tokens[t].user]
    BY <1>1, <1>2 DEF Revoke, Goes, BaseInv, RequestsOK
  <2>2. tokens[t] \in Tokens /\ DOMAIN tokens' = DOMAIN tokens
    <3>1. tokens \in Seq(Tokens) /\ DOMAIN tokens = 1 .. Len(tokens)
      BY DEF BaseInv, TokensOK
    <3> QED BY <2>1, <3>1, ElementOfSeq
  <2>a. \A i \in DOMAIN tokens : tokens'[i] =
            IF i = t THEN [tokens[t] EXCEPT !.revoked = TRUE] ELSE tokens[i]
    BY <2>1
  <2>3. /\ tokens'[t].revoked
        /\ \A i \in DOMAIN tokens : /\ tokens'[i].for = tokens[i].for
                                    /\ tokens[i].revoked => tokens'[i].revoked
    BY <2>2, <2>a DEF Tokens
  <2>4. \A k : (Spent(k) => Spent(k)') /\ (Exempt(k) => Exempt(k)')
    BY <1>0, <2>2, <2>3 DEF Spent, Exempt
  <2>5. Spent(req[r].kind)' /\ req'[r].kind = req[r].kind
    BY <1>1, <2>1, <2>2, <2>3 DEF Spent
  <2>6. \A i \in DOMAIN tokens' : Exempt(tokens[i].for)' \/ Spent(tokens[i].for)'
    BY <2>2, <2>3, <2>4 DEF SpentInv
  <2>7. \A o \in Requests : req'[o].pc \in {"resolve", "provision", "session"} =>
            Exempt(req[o].kind)' \/ Spent(req[o].kind)'
    BY <1>0, <2>4, <2>5 DEF SpentInv
  <2>8. \A o \in Requests : req'[o].pc \in SpendingPcs =>
            \A i \in DOMAIN tokens' : tokens'[i].for = req'[o].kind => Exempt(req[o].kind)'
    BY <1>0, <2>2, <2>3, <2>4, <2>5 DEF SpentInv, SpendingPcs
  <2>9. SpentOnce'
    BY <1>0, <2>2, <2>3 DEF SpentInv, SpentOnce
  <2> QED BY <1>0, <2>6, <2>7, <2>8, <2>9 DEF SpentInv
<1>3. CASE tokens[t].user \notin users
  <2>1. req'[r] = Idle /\ UNCHANGED tokens
    BY <1>1, <1>3 DEF Revoke, Ends, BaseInv, RequestsOK
  <2> QED BY <1>0, <2>1, SpentFrame DEF Idle, SpendingPcs, SpentInv
<1> QED BY <1>2, <1>3

LEMMA SpentStep == BaseInv /\ BaseInv' /\ SpentInv /\ [Next]_vars => SpentInv'
<1> SUFFICES ASSUME BaseInv, BaseInv', SpentInv, [Next]_vars PROVE SpentInv'
  OBVIOUS
<1>1. CASE UNCHANGED vars
  BY <1>1 DEF vars, sessionVars, SpentInv, SpentOnce, Spent, Exempt
<1>2. ASSUME NEW c \in Codes, requestOtp(c) PROVE SpentInv'
  BY <1>2 DEF requestOtp, SpentInv, SpentOnce, Spent, Exempt
<1>3. ASSUME NEW r \in Requests, Quiet(r) \/ Unlinks(r) \/ Founds(r) PROVE SpentInv'
  <2>1. req'[r].pc \notin SpendingPcs /\ UNCHANGED <<tokens, code>>
    BY <1>3, QuietStep, UnlinkStep, FoundStep DEF SpendingPcs
  <2> QED BY <1>3, <2>1, OnlyOneMoves, SpentFrame DEF SpendingPcs, SpentInv
<1>4. ASSUME NEW r \in Requests, SignsIn(r) PROVE SpentInv'
  <2>0. /\ \A o \in Requests \ {r} : req'[o] = req[o]
        /\ raced \subseteq raced'
        /\ req = [o \in Requests |-> req[o]] /\ Shape(req[r])
        /\ code = [c \in Codes |-> code[c]]
    BY <1>4, OnlyOneMoves DEF BaseInv, RequestsOK, SpentInv
  <2>1. CASE Consume(r)
    <3>1. PICK c \in Codes : req[r].kind = <<"code", c>>
      BY <2>0, <2>1 DEF Consume, At, Shape, CodeKinds
    <3>2. code' = [code EXCEPT ![c] = "consumed"] /\ UNCHANGED tokens /\ req[r].pc = "consume"
      BY <2>1, <3>1 DEF Consume, At
    <3>3. req'[r].kind = req[r].kind /\ Spent(req[r].kind)'
      BY <2>0, <2>1, <3>1, <3>2 DEF Consume, Shape, Spent
    <3> QED BY <2>0, <3>2, <3>3, SpentFrame DEF SpendingPcs
  <2>2. CASE Resolve(r) \/ Provision(r)
    <3>1. /\ UNCHANGED <<tokens, code>>
          /\ req[r].pc \in {"resolve", "provision"}
          /\ req'[r].kind = req[r].kind \/ req'[r] = Idle
      BY <2>0, <2>2
         DEF Resolve, Resolved, Provision, IdentityTaken, At, Goes, Ends, sessionVars
    <3>2. \A k : (Spent(k) => Spent(k)') /\ (Exempt(k) => Exempt(k)')
      BY <2>0, <3>1 DEF Spent, Exempt
    <3>3. Exempt(req[r].kind) \/ Spent(req[r].kind)
      BY <3>1 DEF SpentInv
    <3> QED BY <2>0, <3>1, <3>2, <3>3, SpentFrame DEF Idle, SpendingPcs
  <2>3. CASE Revoke(r) \/ issueSession(r)
    BY <2>3, SpentRevoke, SpentIssue
  <2>4. ASSUME NEW c \in Codes, ReadCode(r, c) PROVE SpentInv'
    <3>1. /\ req'[r].pc = "consume" /\ req'[r].kind = <<"code", c>>
          /\ UNCHANGED <<tokens, code>> /\ code[c] = "open"
      BY <2>0, <2>4 DEF ReadCode, Goes, sessionVars
    <3>2. ~Spent(<<"code", c>>)
      BY <3>1 DEF Spent
    <3>3. \A i \in DOMAIN tokens : tokens[i].for = req'[r].kind => Exempt(req[r].kind)'
      BY <2>0, <3>1, <3>2 DEF SpentInv, Exempt
    <3> QED BY <2>0, <3>1, <3>3, SpentFrame
  <2>5. ASSUME NEW s \in Subjects, loginWithFirebase(r, s) PROVE SpentInv'
    <3>1. req'[r].kind = <<"firebase">> /\ UNCHANGED <<tokens, code>>
      BY <2>0, <2>5 DEF loginWithFirebase, Resolved, Goes, sessionVars
    <3> QED BY <2>0, <3>1, SpentFrame DEF Exempt
  <2>6. ASSUME NEW t \in DOMAIN tokens, ReadToken(r, t) PROVE SpentInv'
    <3>1. /\ req'[r].pc = "revoke" /\ req'[r].kind = <<"token", t>>
          /\ UNCHANGED <<tokens, code>> /\ ~tokens[t].revoked
      BY <2>0, <2>6 DEF ReadToken, Live, Goes, sessionVars
    <3>2. ~Spent(<<"token", t>>)
      BY <3>1 DEF Spent
    <3>3. \A i \in DOMAIN tokens : tokens[i].for = req'[r].kind => Exempt(req[r].kind)'
      BY <2>0, <3>1, <3>2 DEF SpentInv, Exempt
    <3> QED BY <2>0, <3>1, <3>3, SpentFrame
  <2> QED BY <1>4, <2>1, <2>2, <2>3, <2>4, <2>5, <2>6 DEF SignsIn
<1> QED BY <1>1, <1>2, <1>3, <1>4, NextSorts

\* A code and a refresh token are good for one session each, unless two requests
\* present the same one at once.
THEOREM SpentForOne == Spec => []SpentOnce
<1>1. Init => SpentInv
  BY DEF Init, SpentInv, SpentOnce, SpendingPcs, Idle
<1>2. SpentInv => SpentOnce
  BY DEF SpentInv
<1> QED BY <1>1, <1>2, SpentStep, InitBase, BaseStep, PTL DEF Spec

-----------------------------------------------------------------------------
(* Every account keeps a way to sign in. *)

\* Two login methods of u.
HasTwo(u) == \E s, o \in Subjects : s # o /\ identity[s].user = u /\ identity[o].user = u

\* The identity that an unlink is about to delete, if it still is what was
\* found, is not the only one of its user.
Spare(s, id) ==
    /\ id \in Nat /\ id <= identity[s].id
    /\ identity[s].id = id /\ identity[s].user # NoUser =>
         \E o \in Subjects \ {s} : identity[o].user = identity[s].user

UnlinkInv ==
    <<"unlink">> \notin raced =>
        /\ \A u \in users : \E s \in Subjects : identity[s].user = u
        /\ \A r \in Requests :
            /\ req[r].pc = "find" /\ req[r].user \in users => HasTwo(req[r].user)
            /\ req[r].pc = "delete" => Spare(req[r].subject, req[r].id)

\* What a step may do to the identities: rows of one user move together, a user
\* that stays keeps its rows, and a new one has some.
Evolves ==
    /\ \A s \in Subjects :
        /\ identity[s].id <= identity'[s].id
        /\ identity'[s].id = identity[s].id /\ identity'[s].user # NoUser =>
             identity[s].user # NoUser
    /\ \A s, o \in Subjects :
        identity[s].user = identity[o].user /\ identity[s].user # NoUser =>
            identity'[s].user = identity'[o].user
    /\ \A u \in users' :
        \/ u \in users /\ \A s \in Subjects : identity[s].user = u => identity'[s].user = u
        \/ u \notin given /\ \E s \in Subjects : identity'[s].user = u

LEMMA CreateEvolves ==
    ASSUME BaseInv, NEW u \in Users \ given, NEW s \in Subjects, NEW itsRole,
           CreateUser(u, s, itsRole)
    PROVE  Evolves
<1>1. /\ identity \in [Subjects -> [user: users \cup {NoUser}, id: Nat]]
      /\ identity[s].user = NoUser
      /\ identity' = [identity EXCEPT ![s] = NewIdentity(s, u)]
      /\ users' = users \cup {u} /\ users \subseteq given
      /\ NoUser \notin Users /\ given \subseteq Users
  BY AccountsAssumption DEF BaseInv, TypeOK, CreateUser
<1>2. /\ identity'[s] = [user |-> u, id |-> identity[s].id + 1]
      /\ \A o \in Subjects \ {s} : identity'[o] = identity[o]
  BY <1>1 DEF NewIdentity
<1>3. \A o \in Subjects : identity[o].id \in Nat
  BY <1>1
<1> QED BY <1>1, <1>2, <1>3 DEF Evolves

\* Only an unlink takes a login method from a user that stays.
LEMMA IdentitiesEvolve ==
    ASSUME BaseInv, NEW r \in Requests,
           Quiet(r) \/ SignsIn(r) \/ Founds(r) \/ UNCHANGED <<users, identity>>
    PROVE  Evolves
<1>0. /\ identity \in [Subjects -> [user: users \cup {NoUser}, id: Nat]]
      /\ users \subseteq given /\ given \subseteq Users /\ NoUser \notin Users
      /\ \A s \in Subjects : identity[s].id \in Nat
      /\ Shape(req[r])
  BY AccountsAssumption DEF BaseInv, TypeOK, RequestsOK
<1>1. CASE UNCHANGED <<users, identity>>
  BY <1>0, <1>1 DEF Evolves
<1>2. CASE Provision(r) \/ Hire(r)
  <2>1. req[r].subject \in Subjects
    BY <1>0, <1>2 DEF Provision, Hire, At, Shape
  <2>2. CASE IdentityTaken(r, req[r].subject)
    BY <1>1, <2>2 DEF IdentityTaken, accountVars
  <2> QED BY <1>2, <2>1, <2>2, CreateEvolves DEF Provision, Hire
<1>3. CASE Attach(r)
  <2>1. req[r].subject \in Subjects /\ UNCHANGED users
    BY <1>0, <1>3 DEF Attach, At, Shape
  <2>2. CASE identity' # identity
    <3> DEFINE s == req[r].subject
    <3>1. /\ identity[s].user = NoUser
          /\ identity' = [identity EXCEPT ![s] = NewIdentity(s, req[r].user)]
      BY <1>3, <2>2 DEF Attach
    <3>2. /\ identity'[s].id = identity[s].id + 1
          /\ \A o \in Subjects \ {s} : identity'[o] = identity[o]
      BY <1>0, <2>1, <3>1 DEF NewIdentity
    <3> HIDE DEF s
    <3> QED BY <1>0, <2>1, <3>1, <3>2 DEF Evolves
  <2> QED BY <1>1, <2>1, <2>2
<1>4. CASE Merge(r)
  <2>1. CASE MergeCommits(req[r])
    <3> DEFINE q == req[r]
    <3>1. /\ identity' = [s \in Subjects |->
               IF identity[s].user = q.other THEN [identity[s] EXCEPT !.user = q.user]
               ELSE identity[s]]
          /\ users' = users \ {q.other} /\ req[r].pc = "merge"
      BY <1>4, <2>1 DEF Merge, Fold, At
    <3>2. q.other \in users /\ q.user \in users
      BY <2>1 DEF MergeCommits
    <3>3. \A s \in Subjects :
            /\ identity'[s].id = identity[s].id
            /\ identity'[s].user = IF identity[s].user = q.other THEN q.user ELSE identity[s].user
      BY <1>0, <3>1
    <3> QED BY <1>0, <3>1, <3>2, <3>3 DEF Evolves
  <2> QED BY <1>1, <1>4, <2>1 DEF Merge, Fold
<1>5. CASE RevokeLogin(r)
  <2> DEFINE u == req[r].user
  <2>1. /\ identity' = [s \in Subjects |->
             IF identity[s].user = u THEN [identity[s] EXCEPT !.user = NoUser] ELSE identity[s]]
        /\ users' = users \ {u}
    BY <1>5 DEF RevokeLogin
  <2>2. \A s \in Subjects :
          /\ identity'[s].id = identity[s].id
          /\ identity'[s].user = IF identity[s].user = u THEN NoUser ELSE identity[s].user
    BY <1>0, <2>1
  <2> QED BY <1>0, <2>1, <2>2 DEF Evolves
<1>6. CASE \/ ReadBoth(r) \/ Dismiss(r) \/ CountRest(r) \/ AddVehicle(r) \/ RemoveVehicle(r)
           \/ \E s \in Subjects : createEmployee(r, s) \/ \E u \in Users : linkIdentity(r, u, s)
           \/ \E u \in Users :
                \/ removeEmployee(r, u)
                \/ \E v \in Vehicles, pc \in {"add", "remove"} : forVehicle(r, pc, u, v)
  BY <1>1, <1>6
     DEF ReadBoth, Dismiss, CountRest, AddVehicle, RemoveVehicle, createEmployee, linkIdentity,
         removeEmployee, forVehicle, accountVars
<1>7. CASE \/ Consume(r) \/ Resolve(r) \/ Revoke(r) \/ issueSession(r)
           \/ \E c \in Codes : ReadCode(r, c)
           \/ \E s \in Subjects : loginWithFirebase(r, s)
           \/ \E t \in DOMAIN tokens : ReadToken(r, t)
  BY <1>1, <1>7
     DEF Consume, Resolve, Revoke, issueSession, ReadCode, loginWithFirebase, ReadToken,
         accountVars
<1>8. CASE Founds(r)
  BY <1>1, <1>8, FoundStep DEF accountVars
<1> QED BY <1>1, <1>2, <1>3, <1>4, <1>5, <1>6, <1>7, <1>8 DEF Quiet, SignsIn

\* Such a step keeps the invariant, if the request that makes it comes to no
\* step of an unlink.
LEMMA UnlinkFrame ==
    ASSUME BaseInv, BaseInv', UnlinkInv, Evolves, raced \subseteq raced',
           \A r \in Requests : req'[r] = req[r] \/ req'[r].pc \notin {"find", "delete"}
    PROVE  UnlinkInv'
<1> SUFFICES ASSUME <<"unlink">> \notin raced' PROVE UnlinkInv'
  BY DEF UnlinkInv
<1>0. /\ identity \in [Subjects -> [user: users \cup {NoUser}, id: Nat]]
      /\ users \subseteq given /\ given \subseteq Users /\ NoUser \notin Users
      /\ \A r \in Requests : Shape(req[r])
  BY AccountsAssumption DEF BaseInv, TypeOK, RequestsOK
<1>1. ASSUME NEW u \in users' PROVE \E s \in Subjects : identity'[s].user = u
  BY <1>1 DEF UnlinkInv, Evolves
<1>2. ASSUME NEW r \in Requests, req'[r].pc = "find", req'[r].user \in users'
      PROVE  HasTwo(req[r].user)'
  <2>1. req'[r] = req[r] /\ req[r].user \in given
    BY <1>0, <1>2 DEF Shape
  <2>2. /\ req[r].user \in users
        /\ \A s \in Subjects : identity[s].user = req[r].user => identity'[s].user = req[r].user
    BY <1>2, <2>1 DEF Evolves
  <2>3. HasTwo(req[r].user)
    BY <1>2, <2>1, <2>2 DEF UnlinkInv
  <2> QED BY <2>1, <2>2, <2>3 DEF HasTwo
<1>3. ASSUME NEW r \in Requests, req'[r].pc = "delete"
      PROVE  Spare(req[r].subject, req[r].id)'
  <2>1. /\ req'[r] = req[r] /\ req[r].subject \in Subjects
        /\ Spare(req[r].subject, req[r].id)
    BY <1>0, <1>3 DEF Shape, UnlinkInv
  <2>2. PICK s \in Subjects : s = req[r].subject
    BY <2>1
  <2>3. PICK id \in Nat : id = req[r].id
    BY <2>1 DEF Spare
  <2>4. /\ identity[s].id \in Nat /\ identity[s].id <= identity'[s].id
        /\ identity'[s].id \in Nat
    BY <1>0 DEF Evolves, BaseInv, TypeOK
  <2> QED BY <2>1, <2>2, <2>3, <2>4 DEF Spare, Evolves
<1> QED BY <1>1, <1>2, <1>3 DEF UnlinkInv

\* More than one login method is at least two.
LEMMA AtLeastTwo ==
    ASSUME NEW u, MayUnlink(u)
    PROVE  HasTwo(u)
<1>0. Cardinality({}) = 0 /\ \A s : Cardinality({s}) = 1
  BY FS_EmptySet, FS_Singleton
<1>1. Identities(u) # {} /\ \A s : Identities(u) # {s}
  <2>1. Cardinality(Identities(u)) > 1
    BY DEF MayUnlink
  <2>2. Identities(u) # {}
    BY <1>0, <2>1
  <2>3. ASSUME NEW s, Identities(u) = {s} PROVE FALSE
    <3>1. Cardinality(Identities(u)) = Cardinality({s})
      BY <2>3, Zenon
    <3>2. Cardinality({s}) = 1
      BY <1>0
    <3> QED BY <2>1, <3>1, <3>2
  <2> QED BY <2>2, <2>3
<1> QED BY <1>1 DEF HasTwo, Identities

LEMMA UnlinkInvStep == BaseInv /\ BaseInv' /\ UnlinkInv /\ [Next]_vars => UnlinkInv'
<1> SUFFICES ASSUME BaseInv, BaseInv', UnlinkInv, [Next]_vars PROVE UnlinkInv'
  OBVIOUS
<1>1. CASE UNCHANGED vars \/ \E c \in Codes : requestOtp(c)
  BY <1>1 DEF vars, accountVars, requestOtp, UnlinkInv, HasTwo, Spare
<1>2. ASSUME NEW r \in Requests, Quiet(r) \/ SignsIn(r) \/ Founds(r) PROVE UnlinkInv'
  <2>1. req'[r].pc \notin {"find", "delete"}
    BY <1>2, QuietStep, SignInStep, FoundStep DEF SpendingPcs
  <2> QED BY <1>2, <2>1, OnlyOneMoves, IdentitiesEvolve, UnlinkFrame
<1>3. ASSUME NEW r \in Requests, Unlinks(r) PROVE UnlinkInv'
  <2> SUFFICES ASSUME <<"unlink">> \notin raced' PROVE UnlinkInv'
    BY DEF UnlinkInv
  <2>0. /\ \A o \in Requests \ {r} : req'[o] = req[o]
        /\ raced \subseteq raced' /\ UNCHANGED users
        /\ req = [o \in Requests |-> req[o]] /\ Shape(req[r])
        /\ identity \in [Subjects -> [user: users \cup {NoUser}, id: Nat]]
        /\ users \subseteq Users /\ NoUser \notin Users /\ given \subseteq Users
    BY <1>3, OnlyOneMoves, UnlinkStep, AccountsAssumption DEF BaseInv, RequestsOK, TypeOK
  <2>1. \A u \in users : \E s \in Subjects : identity[s].user = u
    BY <2>0 DEF UnlinkInv
  <2>2. ASSUME req'[r].kind = <<"unlink">> \/ req[r].kind = <<"unlink">>,
               NEW o \in Requests \ {r}
        PROVE  req'[o].pc \notin {"find", "delete"}
    <3>1. Shape(req[o]) /\ Alone /\ Alone' /\ <<"unlink">> # <<>>
      BY DEF BaseInv, RequestsOK
    <3>2. req[o].pc \in {"find", "delete"} => req[o].kind = <<"unlink">>
      BY <3>1 DEF Shape
    <3> QED BY <2>0, <2>2, <3>1, <3>2 DEF Alone
  <2>3. ASSUME NEW u \in Users, NEW s \in Subjects, unlinkIdentity(r, u, Provider[s])
        PROVE  UnlinkInv'
    <3>1. /\ req'[r] = [pc |-> "find", kind |-> <<"unlink">>, user |-> u,
                        provider |-> Provider[s]]
          /\ UNCHANGED identity /\ HasTwo(u)
      BY <2>0, <2>3, AtLeastTwo DEF unlinkIdentity, Goes, accountVars
    <3> QED BY <2>0, <2>1, <2>2, <3>1 DEF UnlinkInv, HasTwo
  <2>4. CASE FindIdentity(r)
    <3>1. /\ req[r].pc = "find" /\ req[r].kind = <<"unlink">> /\ req[r].user \in given
          /\ UNCHANGED identity
      BY <2>0, <2>4 DEF FindIdentity, At, Shape, accountVars
    <3>2. CASE req'[r] = Idle
      BY <2>0, <2>1, <2>2, <3>1, <3>2 DEF UnlinkInv, Idle
    <3>3. ASSUME NEW s \in Subjects, identity[s].user = req[r].user,
                 req'[r] = [pc |-> "delete", kind |-> <<"unlink">>, subject |-> s,
                            id |-> identity[s].id]
          PROVE  UnlinkInv'
      <4>1. HasTwo(req[r].user) /\ identity[s].user # NoUser /\ identity[s].id \in Nat
        BY <2>0, <3>1, <3>3 DEF UnlinkInv
      <4>2. Spare(req[r].subject, req[r].id)'
        BY <3>1, <3>3, <4>1 DEF Spare, HasTwo
      <4> QED BY <2>0, <2>1, <2>2, <3>1, <3>3, <4>2 DEF UnlinkInv
    <3> QED BY <2>0, <2>4, <3>2, <3>3 DEF FindIdentity, Goes, Ends, Identities
  <2>5. CASE DeleteIdentity(r)
    <3> DEFINE s == req[r].subject
    <3>1. /\ req[r].pc = "delete" /\ req[r].kind = <<"unlink">> /\ s \in Subjects
          /\ req'[r] = Idle
      BY <2>0, <2>5 DEF DeleteIdentity, At, Shape, Ends
    <3>2. /\ Spare(s, req[r].id)
          /\ \/ UNCHANGED identity
             \/ identity[s].id = req[r].id /\ identity' = [identity EXCEPT ![s].user = NoUser]
      BY <2>0, <2>5, <3>1 DEF DeleteIdentity, UnlinkInv
    <3>3. \A u \in users : \E o \in Subjects : identity'[o].user = u
      <4> HIDE DEF s
      <4>1. CASE identity[s].id = req[r].id /\ identity' = [identity EXCEPT ![s].user = NoUser]
        <5>1. \A o \in Subjects \ {s} : identity'[o] = identity[o]
          BY <2>0, <4>1
        <5> QED BY <2>0, <2>1, <3>1, <3>2, <4>1, <5>1 DEF Spare
      <4> QED BY <2>1, <3>2, <4>1
    <3> QED BY <2>0, <2>2, <3>1, <3>3 DEF UnlinkInv, Idle
  <2> QED BY <1>3, <2>3, <2>4, <2>5 DEF Unlinks
<1> QED BY <1>1, <1>2, <1>3, NextSorts

\* Every account keeps a way to sign in, however logins, links, merges, hires and
\* dismissals interleave with an unlink; only two unlinks at once can take the
\* last two.
THEOREM SignInIsKept == Spec => []SignInKept
<1>1. Init => UnlinkInv
  BY AccountsAssumption DEF Init, UnlinkInv, Idle
<1>2. UnlinkInv => SignInKept
  BY DEF UnlinkInv, SignInKept, Identities
<1> QED BY <1>1, <1>2, UnlinkInvStep, InitBase, BaseStep, PTL DEF Spec

-----------------------------------------------------------------------------
(* No merge or dismissal loses a vehicle. *)

\* A customer's membership of an account that exists.
Homed(v) == \E m \in given : owner[v] = m /\ rowUser[m] \in users /\ role[m] = "CUSTOMER"

\* What a request has read of the memberships still holds.
Holds(q) ==
    /\ q.pc = "add" => q.row \in given /\ role[q.row] = "CUSTOMER"
    /\ q.pc = "dismiss" => q.row \in given /\ role[q.row] = "EMPLOYEE"
    /\ q.pc = "revokeLogin" => RowsOf(q.user) = {}
    /\ q.pc = "merge" => q.theirs = RowsOf(q.other) /\ q.mine = RowsOf(q.user)

VehicleInv ==
    /\ \A m \in Users : rowUser[m] # NoUser => m \in given
    /\ <<"merge">> \notin raced =>
        /\ \A v \in Vehicles : owner[v] \in {NoUser, Gone} \/ Homed(v)
        /\ \A r \in Requests : Holds(req[r])

\* Memberships that were there stay as they are.
RowsStay ==
    /\ users \subseteq users' /\ given \subseteq given' /\ UNCHANGED owner
    /\ \A m \in given : rowUser'[m] = rowUser[m] /\ role'[m] = role[m]
    /\ \A m \in Users \ given : rowUser'[m] # NoUser => m \in given' /\ rowUser'[m] \notin given

LEMMA HoldsOn ==
    ASSUME BaseInv, VehicleInv, RowsStay, NEW q, Shape(q), Holds(q)
    PROVE  Holds(q)'
<1>0. /\ given \subseteq Users /\ given \subseteq given' /\ NoUser \notin Users
      /\ \A m \in Users \ given : rowUser[m] = NoUser
      /\ \A m \in given : rowUser'[m] = rowUser[m] /\ role'[m] = role[m]
      /\ \A m \in Users \ given : rowUser'[m] # NoUser => rowUser'[m] \notin given
  BY AccountsAssumption DEF BaseInv, TypeOK, VehicleInv, RowsStay
<1>1. ASSUME NEW u \in given PROVE RowsOf(u)' = RowsOf(u)
  <2>1. \A m \in Users : rowUser'[m] = u <=> rowUser[m] = u
    BY <1>0
  <2> QED BY <2>1 DEF RowsOf
<1>2. /\ q.pc = "revokeLogin" => q.user \in given
      /\ q.pc = "merge" => q.user \in given /\ q.other \in given
  BY DEF Shape
<1>3. q.pc = "revokeLogin" => RowsOf(q.user)' = {}
  BY <1>1, <1>2 DEF Holds
<1>4. q.pc = "merge" => q.theirs = RowsOf(q.other)' /\ q.mine = RowsOf(q.user)'
  BY <1>1, <1>2 DEF Holds
<1>5. /\ q.pc = "add" => q.row \in given' /\ role'[q.row] = "CUSTOMER"
      /\ q.pc = "dismiss" => q.row \in given' /\ role'[q.row] = "EMPLOYEE"
  BY <1>0 DEF Holds
<1> QED BY <1>3, <1>4, <1>5 DEF Holds

\* Such a step keeps the invariant, if what its request has read now holds.
LEMMA VehicleFrame ==
    ASSUME BaseInv, VehicleInv, RowsStay, NEW r \in Requests, raced \subseteq raced',
           \A o \in Requests \ {r} : req'[o] = req[o],
           <<"merge">> \notin raced' => Holds(req[r])'
    PROVE  VehicleInv'
<1>1. \A m \in Users : rowUser'[m] # NoUser => m \in given'
  BY DEF VehicleInv, RowsStay
<1>2. ASSUME <<"merge">> \notin raced', NEW v \in Vehicles
      PROVE  owner'[v] \in {NoUser, Gone} \/ Homed(v)'
  BY <1>2 DEF VehicleInv, RowsStay, Homed
<1>3. ASSUME <<"merge">> \notin raced', NEW o \in Requests PROVE Holds(req[o])'
  <2>1. CASE o # r
    <3>1. PICK q : q = req[o]
      OBVIOUS
    <3>2. Holds(q)'
      BY <1>3, <3>1, HoldsOn DEF BaseInv, RequestsOK, VehicleInv
    <3>3. q = req'[o]
      BY <2>1, <3>1
    <3> QED BY <3>2, <3>3
  <2> QED BY <1>3, <2>1
<1> QED BY <1>1, <1>2, <1>3 DEF VehicleInv

\* A step that takes memberships away, alone among merges and dismissals.
LEMMA VehicleWrites ==
    ASSUME BaseInv, VehicleInv, NEW r \in Requests, req'[r] = Idle,
           \A o \in Requests \ {r} : req'[o] = req[o],
           req[r].kind = <<"merge">>, UNCHANGED <<given, role, raced>>,
           \A m \in Users : rowUser'[m] # NoUser => rowUser[m] # NoUser,
           <<"merge">> \notin raced =>
               \A v \in Vehicles : owner'[v] \in {NoUser, Gone} \/ Homed(v)'
    PROVE  VehicleInv'
<1>1. ASSUME <<"merge">> \notin raced, NEW o \in Requests PROVE Holds(req[o])'
  <2>1. CASE o # r
    <3>1. req[o].kind # <<"merge">>
      <4>1. <<"merge">> # <<>>
        OBVIOUS
      <4> QED BY <1>1, <2>1, <4>1 DEF BaseInv, RequestsOK, Alone
    <3>2. req[o].pc \notin {"dismiss", "revokeLogin", "merge"}
      <4>1. Shape(req[o])
        BY DEF BaseInv, RequestsOK
      <4> QED BY <3>1, <4>1 DEF Shape
    <3> QED BY <1>1, <2>1, <3>2 DEF VehicleInv, Holds
  <2>2. CASE o = r
    BY <2>2 DEF Holds, Idle
  <2> QED BY <2>1, <2>2
<1> QED BY <1>1 DEF VehicleInv

LEMMA VehicleMerge ==
    ASSUME BaseInv, VehicleInv, NEW r \in Requests, Merge(r)
    PROVE  VehicleInv'
<1> DEFINE q == req[r]
<1>0. /\ given \subseteq Users /\ users \subseteq given /\ NoUser \notin Users
      /\ Gone \notin Users
      /\ rowUser \in [Users -> users \cup {NoUser}]
      /\ req = [o \in Requests |-> req[o]] /\ Shape(q)
  BY AccountsAssumption DEF BaseInv, TypeOK, RequestsOK
<1>1. /\ q.pc = "merge" /\ q.kind = <<"merge">> /\ q.user # q.other
      /\ UNCHANGED <<given, role, raced>> /\ req'[r] = Idle
      /\ \A o \in Requests \ {r} : req'[o] = req[o]
  BY <1>0 DEF Merge, Fold, At, Ends, Shape
<1>2. CASE ~MergeCommits(q)
  <2>1. UNCHANGED <<rowUser, owner, users>>
    BY <1>2 DEF Merge, Fold
  <2> QED BY <1>1, <2>1, VehicleWrites DEF VehicleInv, Homed
<1>3. CASE MergeCommits(q)
  <2>1. PICK home, newUser :
          /\ home = [m \in {m \in q.theirs : Twins(q, m) # {}} |->
                       CHOOSE d \in Twins(q, m) : TRUE]
          /\ newUser = [m \in Users |->
                IF m \in q.theirs THEN (IF Twins(q, m) = {} THEN q.user ELSE NoUser)
                ELSE IF rowUser[m] = q.other THEN NoUser ELSE rowUser[m]]
    OBVIOUS
  <2>2. /\ rowUser' = newUser
        /\ owner' = [v \in Vehicles |->
             LET m == IF owner[v] \in DOMAIN home THEN home[owner[v]] ELSE owner[v] IN
             IF m \in Users /\ newUser[m] = NoUser THEN Lost ELSE m]
        /\ users' = users \ {q.other} /\ q.user \in users'
    <3>1. Fold(r, home)
      BY <2>1 DEF Merge
    <3>2. /\ rowUser' = newUser
          /\ owner' = [v \in Vehicles |->
               LET m == IF owner[v] \in DOMAIN home THEN home[owner[v]] ELSE owner[v] IN
               IF m \in Users /\ newUser[m] = NoUser THEN Lost ELSE m]
      BY <1>3, <2>1, <3>1 DEF Fold
    <3>3. users' = users \ {q.other} /\ q.user \in users'
      BY <1>1, <1>3, <3>1 DEF Fold, MergeCommits
    <3> QED BY <3>2, <3>3
  <2>3. ASSUME <<"merge">> \notin raced
        PROVE  q.theirs = RowsOf(q.other) /\ q.mine = RowsOf(q.user)
    BY <1>1, <2>3 DEF VehicleInv, Holds
  <2>4. \A m \in Users : rowUser'[m] # NoUser => rowUser[m] # NoUser
    <3>1. \A m \in q.theirs : rowUser[m] # NoUser
      BY <1>3 DEF MergeCommits
    <3> QED BY <2>1, <2>2, <3>1
  <2>5. ASSUME <<"merge">> \notin raced, NEW v \in Vehicles
        PROVE  owner'[v] \in {NoUser, Gone} \/ Homed(v)'
    <3>1. CASE owner[v] \in {NoUser, Gone}
      <4>1. owner[v] \notin Users /\ DOMAIN home \subseteq Users
        BY <1>0, <2>1, <2>3, <2>5, <3>1 DEF RowsOf
      <4> QED BY <2>2, <3>1, <4>1
    <3>2. ASSUME NEW m \in given, owner[v] = m, rowUser[m] \in users, role[m] = "CUSTOMER"
          PROVE  Homed(v)'
      <4>1. CASE m \in q.theirs /\ Twins(q, m) # {}
        <5>1. PICK d : d = home[m]
          OBVIOUS
        <5>2. d \in Twins(q, m) /\ m \in DOMAIN home
          BY <2>1, <4>1, <5>1
        <5>3. d \in Users /\ rowUser[d] = q.user /\ role[d] = "CUSTOMER"
          BY <2>3, <2>5, <3>2, <5>2 DEF Twins, RowsOf
        <5>4. d \notin q.theirs /\ newUser[d] = q.user
          BY <1>1, <2>1, <2>3, <2>5, <5>3 DEF RowsOf
        <5>5. owner'[v] = d
          BY <1>0, <2>2, <3>2, <5>1, <5>2, <5>4
        <5>6. d \in given
          BY <1>0, <2>2, <5>3 DEF VehicleInv
        <5> QED BY <1>1, <2>2, <5>3, <5>4, <5>5, <5>6 DEF Homed
      <4>2. CASE m \notin q.theirs \/ Twins(q, m) = {}
        <5>1. m \notin DOMAIN home /\ m \in Users
          BY <1>0, <2>1, <4>2
        <5>2. newUser[m] \in users'
          BY <1>0, <1>1, <2>1, <2>2, <2>3, <2>5, <3>2, <4>2, <5>1 DEF RowsOf
        <5>3. owner'[v] = m
          BY <1>0, <2>2, <3>2, <5>1, <5>2
        <5> QED BY <1>1, <2>2, <3>2, <5>2, <5>3 DEF Homed
      <4> QED BY <4>1, <4>2
    <3> QED BY <2>5, <3>1, <3>2 DEF VehicleInv, Homed
  <2> QED BY <1>1, <2>4, <2>5, VehicleWrites
<1> QED BY <1>2, <1>3

LEMMA VehicleDismissal ==
    ASSUME BaseInv, VehicleInv, NEW r \in Requests, RevokeLogin(r)
    PROVE  VehicleInv'
<1> DEFINE u == req[r].user
<1>0. /\ NoUser \notin Users /\ rowUser \in [Users -> users \cup {NoUser}]
      /\ given \subseteq Users /\ users \subseteq given
      /\ req = [o \in Requests |-> req[o]] /\ Shape(req[r])
  BY AccountsAssumption DEF BaseInv, TypeOK, RequestsOK
<1>1. /\ req[r].kind = <<"merge">> /\ req[r].pc = "revokeLogin" /\ u \in given
      /\ UNCHANGED <<given, role, raced>> /\ req'[r] = Idle
      /\ \A o \in Requests \ {r} : req'[o] = req[o]
  BY <1>0 DEF RevokeLogin, At, Ends, Shape
<1>2. /\ users' = users \ {u}
      /\ rowUser' = [m \in Users |-> IF rowUser[m] = u THEN NoUser ELSE rowUser[m]]
      /\ owner' = [v \in Vehicles |-> IF owner[v] \in RowsOf(u) THEN Lost ELSE owner[v]]
  BY DEF RevokeLogin
<1>3. \A m \in Users : rowUser'[m] # NoUser => rowUser[m] # NoUser
  BY <1>0, <1>2
<1>4. ASSUME <<"merge">> \notin raced, NEW v \in Vehicles
      PROVE  owner'[v] \in {NoUser, Gone} \/ Homed(v)'
  <2>1. RowsOf(u) = {}
    BY <1>1, <1>4 DEF VehicleInv, Holds
  <2>2. UNCHANGED <<rowUser, role, given>> /\ owner'[v] = owner[v]
    BY <1>0, <1>1, <1>2, <2>1 DEF RowsOf
  <2>3. \A m \in Users : rowUser[m] # u
    BY <2>1 DEF RowsOf
  <2> QED BY <1>0, <1>2, <1>4, <2>2, <2>3 DEF VehicleInv, Homed
<1> QED BY <1>1, <1>3, <1>4, VehicleWrites

LEMMA VehicleDismiss ==
    ASSUME BaseInv, BaseInv', VehicleInv, NEW r \in Requests, Dismiss(r)
    PROVE  VehicleInv'
<1> DEFINE q == req[r]
<1>0. /\ req = [o \in Requests |-> req[o]] /\ Shape(q) /\ Shape(req[r])'
      /\ rowUser \in [Users -> users \cup {NoUser}] /\ given \subseteq Users
      /\ owner \in [Vehicles -> Users \cup {NoUser, Lost, Gone}]
  BY DEF BaseInv, TypeOK, RequestsOK
<1>1. /\ q.pc = "dismiss" /\ q.kind = <<"merge">> /\ q.row \in Users
      /\ UNCHANGED <<users, given, role, raced>> /\ req'[r].pc \in {"idle", "count"}
      /\ \A o \in Requests \ {r} : req'[o] = req[o]
  BY <1>0 DEF Dismiss, At, Ends, Idle, Shape
<1>2. CASE UNCHANGED <<rowUser, owner>>
  <2>1. RowsStay
    BY <1>1, <1>2 DEF RowsStay, VehicleInv
  <2>2. Holds(req[r])'
    BY <1>1 DEF Holds
  <2> QED BY <1>1, <2>1, <2>2, VehicleFrame
<1>3. CASE /\ rowUser' = [rowUser EXCEPT ![q.row] = NoUser]
           /\ owner' = [v \in Vehicles |-> IF owner[v] = q.row THEN Lost ELSE owner[v]]
  <2>1. \A m \in Users : rowUser'[m] # NoUser => m \in given'
    BY <1>0, <1>1, <1>3 DEF VehicleInv
  <2>2. ASSUME <<"merge">> \notin raced, NEW v \in Vehicles
        PROVE  owner'[v] \in {NoUser, Gone} \/ Homed(v)'
    <3>1. role[q.row] = "EMPLOYEE"
      BY <1>1, <2>2 DEF VehicleInv, Holds
    <3>2. CASE owner[v] \in {NoUser, Gone}
      <4>1. owner[v] # q.row
        BY <1>1, <3>2, AccountsAssumption
      <4> QED BY <1>3, <3>2, <4>1
    <3>3. ASSUME NEW m \in given, owner[v] = m, rowUser[m] \in users, role[m] = "CUSTOMER"
          PROVE  Homed(v)'
      <4>1. m # q.row
        BY <3>1, <3>3
      <4>2. owner'[v] = m /\ rowUser'[m] = rowUser[m]
        BY <1>0, <1>3, <3>3, <4>1
      <4> QED BY <1>1, <3>3, <4>2 DEF Homed
    <3> QED BY <2>2, <3>2, <3>3 DEF VehicleInv, Homed
  <2>3. ASSUME <<"merge">> \notin raced, NEW o \in Requests PROVE Holds(req[o])'
    <3>1. CASE o = r
      BY <1>1, <3>1 DEF Holds
    <3>2. CASE o # r
      <4>1. Shape(req[o]) /\ Alone /\ <<"merge">> # <<>>
        BY DEF BaseInv, RequestsOK
      <4>2. req[o].kind # <<"merge">>
        BY <1>1, <2>3, <3>2, <4>1 DEF Alone
      <4>3. req[o].pc \notin {"dismiss", "revokeLogin", "merge"}
        BY <4>1, <4>2 DEF Shape
      <4> QED BY <1>1, <2>3, <3>2, <4>3 DEF VehicleInv, Holds
    <3> QED BY <3>1, <3>2
  <2> QED BY <1>1, <2>1, <2>2, <2>3 DEF VehicleInv
<1> QED BY <1>2, <1>3 DEF Dismiss

\* A user is created: with a membership of its own.
LEMMA CreateStays ==
    ASSUME BaseInv, VehicleInv, NEW u \in Users \ given, NEW s, NEW itsRole,
           CreateUser(u, s, itsRole)
    PROVE  RowsStay
<1>1. /\ rowUser' = [rowUser EXCEPT ![u] = u] /\ role' = [role EXCEPT ![u] = itsRole]
      /\ rowUser \in [Users -> users \cup {NoUser}]
      /\ role \in [Users -> {"CUSTOMER", "EMPLOYEE"}]
      /\ users' = users \cup {u} /\ given' = given \cup {u} /\ UNCHANGED owner
  BY DEF CreateUser, BaseInv, TypeOK
<1> QED BY <1>1 DEF RowsStay, VehicleInv

LEMMA SameRowsStay ==
    ASSUME VehicleInv, UNCHANGED <<users, given, rowUser, role, owner>>
    PROVE  RowsStay
BY DEF RowsStay, VehicleInv

LEMMA VehicleInvStep == BaseInv /\ BaseInv' /\ VehicleInv /\ [Next]_vars => VehicleInv'
<1> SUFFICES ASSUME BaseInv, BaseInv', VehicleInv, [Next]_vars PROVE VehicleInv'
  OBVIOUS
<1>0. /\ req = [o \in Requests |-> req[o]] /\ \A r \in Requests : Shape(req[r])
      /\ given \subseteq Users /\ users \subseteq given /\ NoUser \notin Users
      /\ owner \in [Vehicles -> Users \cup {NoUser, Lost, Gone}]
  BY AccountsAssumption DEF BaseInv, TypeOK, RequestsOK
<1>1. CASE UNCHANGED vars \/ \E c \in Codes : requestOtp(c)
  <2>1. UNCHANGED <<accountVars, req, raced>>
    BY <1>1 DEF vars, requestOtp
  <2> QED BY <2>1 DEF accountVars, VehicleInv, Homed, Holds, RowsOf
<1>2. ASSUME NEW r \in Requests, Quiet(r) \/ SignsIn(r) \/ Unlinks(r) \/ Founds(r),
             RowsStay, req'[r].pc \notin {"add", "dismiss", "revokeLogin", "merge"}
      PROVE  VehicleInv'
  BY <1>2, OnlyOneMoves, VehicleFrame DEF Holds
<1>3. ASSUME NEW r \in Requests, Quiet(r), UNCHANGED <<users, given, rowUser, role, owner>>,
             <<"merge">> \notin raced' => Holds(req[r])'
      PROVE  VehicleInv'
  BY <1>3, OnlyOneMoves, VehicleFrame, SameRowsStay
<1>4. ASSUME NEW r \in Requests, SignsIn(r) PROVE VehicleInv'
  <2>1. RowsStay
    <3>1. CASE Provision(r)
      BY <3>1, CreateStays, SameRowsStay DEF Provision, IdentityTaken, accountVars
    <3>2. CASE \/ Consume(r) \/ Resolve(r) \/ Revoke(r) \/ issueSession(r)
               \/ \E c \in Codes : ReadCode(r, c)
               \/ \E s \in Subjects : loginWithFirebase(r, s)
               \/ \E t \in DOMAIN tokens : ReadToken(r, t)
      BY <3>2, SameRowsStay
         DEF Consume, Resolve, Revoke, issueSession, ReadCode, loginWithFirebase, ReadToken,
             accountVars
    <3> QED BY <1>4, <3>1, <3>2 DEF SignsIn
  <2> QED BY <1>2, <1>4, <2>1, SignInStep DEF SpendingPcs
<1>5. ASSUME NEW r \in Requests, Unlinks(r) \/ Founds(r) PROVE VehicleInv'
  <2>1. RowsStay
    BY <1>5, SameRowsStay, FoundStep
       DEF Unlinks, unlinkIdentity, FindIdentity, DeleteIdentity, accountVars
  <2> QED BY <1>2, <1>5, <2>1, UnlinkStep, FoundStep
<1>6. ASSUME NEW r \in Requests, Quiet(r) PROVE VehicleInv'
  <2>1. CASE Merge(r) \/ Dismiss(r) \/ RevokeLogin(r)
    BY <2>1, VehicleMerge, VehicleDismiss, VehicleDismissal
  <2>2. CASE Attach(r)
    <3>1. UNCHANGED <<users, given, rowUser, role, owner>> /\ req'[r].pc = "idle"
      BY <1>0, <2>2 DEF Attach, Ends, Idle
    <3> QED BY <1>3, <1>6, <3>1 DEF Holds
  <2>3. CASE Hire(r)
    <3>1. req'[r].pc = "idle"
      BY <1>0, <2>3 DEF Hire, IdentityTaken, Ends, Idle
    <3>2. RowsStay
      BY <2>3, CreateStays, SameRowsStay DEF Hire, IdentityTaken, accountVars
    <3> QED BY <1>2, <1>6, <3>1, <3>2
  <2>4. CASE ReadBoth(r)
    <3>1. /\ UNCHANGED accountVars
          /\ req'[r] = [pc |-> "merge", kind |-> <<"merge">>, user |-> req[r].user,
                        other |-> req[r].other, theirs |-> RowsOf(req[r].other),
                        mine |-> RowsOf(req[r].user)]
      BY <1>0, <2>4 DEF ReadBoth, Goes
    <3>2. /\ UNCHANGED <<users, given, rowUser, role, owner>>
          /\ req'[r].theirs = RowsOf(req'[r].other) /\ req'[r].mine = RowsOf(req'[r].user)
          /\ req'[r].pc = "merge"
      BY <3>1 DEF accountVars
    <3>3. Holds(req[r])'
      BY <3>2 DEF Holds, RowsOf
    <3> QED BY <1>3, <1>6, <3>2, <3>3
  <2>5. CASE CountRest(r)
    <3>1. /\ UNCHANGED <<users, given, rowUser, role, owner>>
          /\ \/ req'[r].pc = "idle"
             \/ /\ req'[r].pc = "revokeLogin" /\ req'[r].user = req[r].user
                /\ RowsOf(req[r].user) = {}
      <4>1. req[r] \in [pc: {"dismiss", "count", "revokeLogin"}, kind: {<<"merge">>},
                        row: Users, user: given]
        BY <1>0, <2>5 DEF CountRest, At, Shape
      <4> QED BY <1>0, <2>5, <4>1 DEF CountRest, Ends, Idle, accountVars
    <3>2. Holds(req[r])'
      BY <3>1 DEF Holds, RowsOf
    <3> QED BY <1>3, <1>6, <3>1, <3>2
  <2>6. CASE AddVehicle(r)
    <3>1. PICK v \in Vehicles : req[r].kind = <<"vehicle", v>>
      BY <1>0, <2>6 DEF AddVehicle, At, Shape
    <3>2. /\ UNCHANGED <<users, given, rowUser, role, raced>> /\ req[r].pc = "add"
          /\ req'[r].pc = "idle" /\ \A o \in Requests \ {r} : req'[o] = req[o]
      BY <1>0, <2>6 DEF AddVehicle, At, Ends, Idle
    <3>3. \/ UNCHANGED owner
          \/ rowUser[req[r].row] # NoUser /\ owner' = [owner EXCEPT ![v] = req[r].row]
      BY <2>6, <3>1 DEF AddVehicle
    <3>4. \A o \in Requests : Holds(req[o]) => Holds(req[o])'
      BY <3>2 DEF Holds, RowsOf
    <3>5. ASSUME <<"merge">> \notin raced, NEW w \in Vehicles
          PROVE  owner'[w] \in {NoUser, Gone} \/ Homed(w)'
      <4>1. CASE owner'[w] = owner[w]
        BY <3>2, <3>5, <4>1 DEF VehicleInv, Homed
      <4>2. CASE /\ rowUser[req[r].row] # NoUser /\ w = v
                 /\ owner' = [owner EXCEPT ![v] = req[r].row]
        <5>1. req[r].row \in given /\ role[req[r].row] = "CUSTOMER"
          BY <3>2, <3>5 DEF VehicleInv, Holds
        <5>2. rowUser[req[r].row] \in users /\ owner'[w] = req[r].row
          BY <1>0, <4>2, <5>1 DEF BaseInv, TypeOK
        <5> QED BY <3>2, <5>1, <5>2 DEF Homed
      <4> QED BY <1>0, <3>3, <4>1, <4>2
    <3> QED BY <3>2, <3>4, <3>5 DEF VehicleInv
  <2>7. CASE RemoveVehicle(r)
    <3>1. PICK v \in Vehicles : req[r].kind = <<"vehicle", v>>
      BY <1>0, <2>7 DEF RemoveVehicle, At, Shape
    <3>2. /\ UNCHANGED <<users, given, rowUser, role, raced>>
          /\ req'[r].pc = "idle" /\ \A o \in Requests \ {r} : req'[o] = req[o]
      BY <1>0, <2>7 DEF RemoveVehicle, At, Ends, Idle
    <3>3. UNCHANGED owner \/ owner' = [owner EXCEPT ![v] = Gone]
      BY <2>7, <3>1 DEF RemoveVehicle
    <3>4. \A w \in Vehicles : owner'[w] = owner[w] \/ owner'[w] = Gone
      BY <1>0, <3>3
    <3>5. \A o \in Requests : Holds(req[o]) => Holds(req[o])'
      BY <3>2 DEF Holds, RowsOf
    <3> QED BY <3>2, <3>4, <3>5 DEF VehicleInv, Homed
  <2>8. ASSUME NEW u \in Users, removeEmployee(r, u) PROVE VehicleInv'
    <3>1. /\ UNCHANGED <<users, given, rowUser, role, owner>>
          /\ req'[r] = [pc |-> "dismiss", kind |-> <<"merge">>, row |-> u, user |-> rowUser[u]]
          /\ rowUser[u] # NoUser /\ role[u] = "EMPLOYEE"
      BY <1>0, <2>8 DEF removeEmployee, Goes, accountVars
    <3>2. Holds(req[r])'
      BY <3>1 DEF Holds, VehicleInv
    <3> QED BY <1>3, <1>6, <3>1, <3>2
  <2>9. ASSUME NEW u \in Users, NEW v \in Vehicles, NEW pc \in {"add", "remove"},
               forVehicle(r, pc, u, v)
        PROVE  VehicleInv'
    <3>1. PICK m \in RowsOf(u) :
            role[m] = "CUSTOMER" /\ Goes(r, [pc |-> pc, kind |-> <<"vehicle", v>>, row |-> m])
      BY <2>9 DEF forVehicle
    <3>2. /\ UNCHANGED <<users, given, rowUser, role, owner>>
          /\ req'[r] = [pc |-> pc, kind |-> <<"vehicle", v>>, row |-> m]
          /\ u \in users /\ m \in Users /\ rowUser[m] = u
      BY <1>0, <2>9, <3>1 DEF forVehicle, Goes, accountVars, RowsOf
    <3>3. m \in given
      BY <1>0, <3>2 DEF VehicleInv
    <3>4. Holds(req[r])'
      BY <3>1, <3>2, <3>3 DEF Holds
    <3> QED BY <1>3, <1>6, <3>2, <3>4
  <2>10. ASSUME NEW s \in Subjects,
                createEmployee(r, s) \/ \E u \in Users : linkIdentity(r, u, s)
         PROVE  VehicleInv'
    <3>1. /\ UNCHANGED <<users, given, rowUser, role, owner>>
          /\ req'[r].pc \in {"hire", "attach", "fold"}
      BY <1>0, <2>10 DEF createEmployee, linkIdentity, Goes, accountVars
    <3>2. Holds(req[r])'
      BY <3>1 DEF Holds
    <3> QED BY <1>3, <1>6, <3>1, <3>2
  <2> QED BY <1>6, <2>1, <2>2, <2>3, <2>4, <2>5, <2>6, <2>7, <2>8, <2>9, <2>10 DEF Quiet
<1> QED BY <1>1, <1>4, <1>5, <1>6, NextSorts

\* No merge or dismissal loses a customer's vehicle, though vehicles are added
\* meanwhile (merges and dismissals one at a time).
THEOREM VehiclesAreKept == Spec => []VehiclesKept
<1>1. Init => VehicleInv
  <2> SUFFICES ASSUME Init PROVE VehicleInv
    OBVIOUS
  <2>1. \A m \in Users : rowUser[m] # NoUser => m \in given
    BY DEF Init
  <2>2. ASSUME NEW v \in Vehicles PROVE owner[v] \in {NoUser, Gone} \/ Homed(v)
    BY AccountsAssumption DEF Init, Homed
  <2>3. \A r \in Requests : Holds(req[r])
    BY DEF Init, Idle, Holds
  <2> QED BY <2>1, <2>2, <2>3 DEF VehicleInv
<1>2. BaseInv /\ VehicleInv => VehiclesKept
  BY DEF BaseInv, TypeOK, VehicleInv, VehiclesKept, Homed
<1> QED BY <1>1, <1>2, VehicleInvStep, InitBase, BaseStep, PTL DEF Spec
=============================================================================
