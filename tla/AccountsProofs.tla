--------------------------- MODULE AccountsProofs ---------------------------
(***************************************************************************)
(* Proofs about Accounts, for every set of names, passwords and tokens,    *)
(* every life of a token and whatever the clock does.                      *)
(***************************************************************************)
EXTENDS Accounts, TLAPS

ServicesOK ==
    /\ service \in [Service -> Job \cup {Idle}]
    /\ \A s \in Service : service[s].at # "idle" =>
         /\ service[s].user \in Id \cup {NoUser}
         /\ service[s].at \in {"issue", "profile"} => service[s].user \in Id

\* Every row of tokens is the only one of its token, belongs to the account
\* the token was issued to, and was not refused yet; a refused token had one.
TokensMatchOwners ==
    /\ \A r \in tokens : owner[r.token] = r.user
    /\ \A r, q \in tokens : r.token = q.token => r = q
    /\ \A r \in tokens : r.token \notin aged
    /\ \A t \in aged : owner[t] # NoUser

-----------------------------------------------------------------------------
\* Type correctness.

\* A request that is being worked on is a Job.
LEMMA Working ==
    ASSUME TypeOK, NEW s \in Service, service[s].at # "idle"
    PROVE  service[s] \in Job
  BY DEF TypeOK, Idle

\* One service goes on to j, and the accounts there were are still there.
LEMMA Served ==
    ASSUME TypeOK, Id \subseteq Id', NEW s \in Service, NEW j \in Job \cup {Idle},
           j.at # "idle" => /\ j.user \in Id' \cup {NoUser}
                            /\ j.at \in {"issue", "profile"} => j.user \in Id',
           service' = [service EXCEPT ![s] = j]
    PROVE  ServicesOK'
<1>1. service' \in [Service -> Job \cup {Idle}]
  BY DEF TypeOK
<1>2. ASSUME NEW q \in Service, service'[q].at # "idle"
      PROVE  /\ service'[q].user \in Id' \cup {NoUser}
             /\ service'[q].at \in {"issue", "profile"} => service'[q].user \in Id'
  <2>1. CASE q = s
    BY <1>2, <2>1 DEF TypeOK
  <2>2. CASE q # s
    BY <1>2, <2>2 DEF TypeOK
  <2> QED
    BY <2>1, <2>2
<1> QED
  BY <1>1, <1>2 DEF ServicesOK

LEMMA Answered ==
    ASSUME TypeOK, Id \subseteq Id', NEW s \in Service, service' = Answer(s)
    PROVE  ServicesOK'
<1>1. Idle \in Job \cup {Idle} /\ Idle.at = "idle"
  BY DEF Idle
<1> QED
  BY <1>1, Served DEF Answer

\* A job keeps its type when it goes on to another step.
LEMMA WentTo ==
    ASSUME TypeOK, NEW s \in Service, service[s].at # "idle",
           NEW at \in Step \ {"idle"}, Id \subseteq Id',
           at \in {"issue", "profile"} => service[s].user \in Id',
           service' = Goto(s, at)
    PROVE  ServicesOK'
<1> DEFINE j == [service[s] EXCEPT !.at = at, !.now = 0, !.shown = Bare(NoToken)]
<1>1. service[s] \in Job /\ service[s].user \in Id \cup {NoUser}
  BY Working DEF TypeOK
<1>2. Bare(NoToken) \in Shown
  BY DEF Shown
<1>3. j \in Job
  BY <1>1, <1>2 DEF Job
<1>4. j.at = at /\ j.user = service[s].user
  BY <1>1 DEF Job
<1>5. service' = [service EXCEPT ![s] = j]
  BY DEF Goto, TypeOK
<1> HIDE DEF j
<1> QED
  BY <1>1, <1>3, <1>4, <1>5, Served

\* A job learns its account.
LEMMA GotUser ==
    ASSUME TypeOK, NEW s \in Service, service[s].at # "idle",
           NEW at \in Step \ {"idle"}, NEW i \in Id', Id \subseteq Id', i \in Nat,
           service' = [service EXCEPT ![s].at = at, ![s].user = i]
    PROVE  ServicesOK'
<1> DEFINE j == [service[s] EXCEPT !.at = at, !.user = i]
<1>1. service[s] \in Job
  BY Working
<1>2. j \in Job /\ j.at = at /\ j.user = i
  BY <1>1 DEF Job
<1>3. service' = [service EXCEPT ![s] = j]
  BY DEF TypeOK
<1> HIDE DEF j
<1> QED
  BY <1>2, <1>3, Served

LEMMA ServicesStay ==
    ASSUME TypeOK, Id \subseteq Id', UNCHANGED service
    PROVE  ServicesOK'
  BY DEF TypeOK, ServicesOK

\* What a step may do to the rows of users: change some, or add one.
LEMMA RowsChanged ==
    ASSUME TypeOK, NEW f \in [Id -> UserRow], users' = f
    PROVE  users' \in Seq(UserRow) /\ Id' = Id
<1>1. Len(users) \in Nat /\ Id = 1..Len(users)
  BY DEF TypeOK, Id
<1>2. f \in [1..Len(users) -> UserRow]
  BY <1>1
<1>3. f \in Seq(UserRow) /\ Len(f) = Len(users)
  BY <1>1, <1>2
<1> QED
  BY <1>3 DEF Id

LEMMA RowAdded ==
    ASSUME TypeOK, NEW name \in Spelling, NEW password \in Password,
           users' = Append(users, NewUser(name, password))
    PROVE  /\ users' \in Seq(UserRow)
           /\ Len(users') = Len(users) + 1
           /\ Id' = Id \cup {Len(users) + 1}
           /\ \A i \in Id : users'[i] = users[i]
           /\ users'[Len(users) + 1] = NewUser(name, password)
<1>1. NewUser(name, password) \in UserRow
  BY DEF NewUser, UserRow
<1>2. users \in Seq(UserRow) /\ Len(users) \in Nat
  BY DEF TypeOK
<1>3. /\ users' \in Seq(UserRow)
      /\ Len(users') = Len(users) + 1
      /\ \A i \in 1..Len(users) : users'[i] = users[i]
      /\ users'[Len(users) + 1] = NewUser(name, password)
  BY <1>1, <1>2
<1>4. 1..(Len(users) + 1) = (1..Len(users)) \cup {Len(users) + 1}
  BY <1>2
<1> QED
  BY <1>3, <1>4 DEF Id

\* A step that stays away from the tokens, the clock and the account command.
LEMMA TypeFrame ==
    ASSUME TypeOK, users' \in Seq(UserRow), Id \subseteq Id', ServicesOK',
           UNCHANGED <<tokens, clock, cli, owner, aged>>
    PROVE  TypeOK'
<1>1. \A r \in tokens' : r.user \in Id'
  BY DEF TypeOK
<1>2. owner' \in [Token -> Id' \cup {NoUser}]
  BY DEF TypeOK
<1> QED
  BY <1>1, <1>2 DEF TypeOK, ServicesOK

LEMMA TypeStep == TypeOK /\ [Next]_vars => TypeOK'
<1> SUFFICES ASSUME TypeOK, [Next]_vars
             PROVE  TypeOK'
  OBVIOUS
<1> USE DEF Service
<1>0. UNCHANGED users => users' \in Seq(UserRow) /\ Id' = Id
  BY DEF TypeOK, Id
<1>1. ASSUME NEW s \in Service, NEW op \in Request, NEW c \in Shown,
             NEW n \in Spelling, NEW p \in Password,
             NEW k \in Nickname \cup {NoNickname}, Begin(s, op, c, n, p, k)
      PROVE  TypeOK'
  <2> DEFINE j == [at |-> First(op), op |-> op, shown |-> c, name |-> n,
                   password |-> p, nickname |-> k, now |-> 0, user |-> NoUser]
  <2>1. First(op) \in {"password", "create", "clock"}
    BY DEF First
  <2>2. j \in Job /\ j.user = NoUser /\ j.at \in {"password", "create", "clock"}
    BY <2>1 DEF Job, Step, NoUser
  <2>3. service' = [service EXCEPT ![s] = j]
    BY <1>1 DEF Begin
  <2> HIDE DEF j
  <2>4. ServicesOK'
    BY <1>0, <1>1, <2>2, <2>3, Served DEF Begin
  <2> QED
    BY <1>0, <1>1, <2>4, TypeFrame DEF Begin
<1>2. ASSUME NEW s \in Service, ReadClock(s) PROVE TypeOK'
  <2> DEFINE j == [service[s] EXCEPT !.at = "look", !.now = clock]
  <2>1. service[s] \in Job /\ service[s].user \in Id \cup {NoUser}
    BY <1>2, Working DEF ReadClock, TypeOK
  <2>2. j \in Job /\ j.at = "look" /\ j.user = service[s].user
    BY <2>1 DEF Job, Step, TypeOK
  <2>3. service' = [service EXCEPT ![s] = j]
    BY <1>2 DEF ReadClock, TypeOK
  <2> HIDE DEF j
  <2>4. ServicesOK'
    BY <1>0, <1>2, <2>1, <2>2, <2>3, Served DEF ReadClock
  <2> QED
    BY <1>0, <1>2, <2>4, TypeFrame DEF ReadClock
<1>3. ASSUME NEW s \in Service, LookUp(s) PROVE TypeOK'
  <2> DEFINE req == service[s]
             rows == Rows(req.shown)
             expired == {r \in rows : Expired(r, req.now)}
             valid == rows \ expired
  <2>1. req.at = "look" /\ req \in Job
    BY <1>3, Working DEF LookUp
  <2>2. rows \subseteq tokens
    BY DEF Rows
  <2>3. tokens' \subseteq tokens /\ aged' \subseteq Token
    BY <1>3, <2>2 DEF LookUp, Purged, TypeOK, TokenRow
  <2>4. Id' = Id /\ users' \in Seq(UserRow) /\ UNCHANGED <<clock, cli, owner>>
    BY <1>0, <1>3 DEF LookUp
  <2>5. ServicesOK'
    <3>1. CASE service' = Answer(s)
      BY <2>4, <3>1, Answered
    <3>2. CASE service' = Goto(s, "password")
      BY <2>1, <2>4, <3>2, WentTo DEF Step
    <3>3. CASE req.user = NoUser
               /\ \E r \in valid :
                     service' = [service EXCEPT ![s].at = "clock", ![s].user = r.user]
      <4>1. PICK r \in valid :
                service' = [service EXCEPT ![s].at = "clock", ![s].user = r.user]
        BY <3>3
      <4>2. r.user \in Id /\ r.user \in Nat
        BY <2>2 DEF TypeOK, TokenRow
      <4> QED
        BY <2>1, <2>4, <4>1, <4>2, GotUser DEF Step
    <3>4. CASE req.user # NoUser /\ service' = Goto(s, "profile")
      <4>1. req.user \in Id'
        BY <2>1, <2>4, <3>4 DEF TypeOK
      <4> QED
        BY <2>1, <2>4, <3>4, <4>1, WentTo DEF Step
    <3> QED
      BY <1>3, <3>1, <3>2, <3>3, <3>4 DEF LookUp
  <2> HIDE DEF req, rows, expired, valid
  <2> QED
    BY <2>3, <2>4, <2>5 DEF TypeOK, ServicesOK
<1>4. ASSUME NEW s \in Service, WriteProfile(s) PROVE TypeOK'
  <2> DEFINE u == service[s].user
             row == [users[u] EXCEPT !.nickname = service[s].nickname]
  <2>1. service[s] \in Job /\ u \in Id
    BY <1>4, Working DEF WriteProfile, TypeOK
  <2>2. users \in [Id -> UserRow]
    BY DEF TypeOK, Id
  <2>3. row \in UserRow
    BY <2>1, <2>2 DEF UserRow, Job
  <2>4. users' = [users EXCEPT ![u] = row]
    BY <1>4 DEF WriteProfile
  <2> HIDE DEF u, row
  <2>5. [users EXCEPT ![u] = row] \in [Id -> UserRow]
    BY <2>1, <2>2, <2>3
  <2>6. users' \in Seq(UserRow) /\ Id' = Id
    BY <2>4, <2>5, RowsChanged
  <2>7. ServicesOK'
    BY <1>4, <2>6, Answered DEF WriteProfile
  <2> QED
    BY <1>4, <2>6, <2>7, TypeFrame DEF WriteProfile
<1>5. ASSUME NEW s \in Service, Authenticate(s) PROVE TypeOK'
  <2>1. ServicesOK'
    <3>1. CASE service' = Answer(s)
      BY <1>0, <1>5, <3>1, Answered DEF Authenticate
    <3>2. CASE \E i \in Matches(service[s].name, service[s].password) :
                 service' = [service EXCEPT ![s].at = "issue", ![s].user = i]
      <4>1. PICK i \in Matches(service[s].name, service[s].password) :
                   service' = [service EXCEPT ![s].at = "issue", ![s].user = i]
        BY <3>2
      <4>2. i \in Id /\ i \in Nat
        BY DEF Matches, Alike, Id, TypeOK
      <4> QED
        BY <1>0, <1>5, <4>1, <4>2, GotUser DEF Authenticate, Step
    <3> QED
      BY <1>5, <3>1, <3>2 DEF Authenticate
  <2> QED
    BY <1>0, <1>5, <2>1, TypeFrame DEF Authenticate
<1>6. ASSUME NEW s \in Service, Create(s) PROVE TypeOK'
  <2>1. service[s].at = "create" /\ service[s] \in Job
    BY <1>6, Working DEF Create
  <2>2. CASE UNCHANGED users /\ service' = Answer(s)
    BY <1>0, <1>6, <2>2, Answered, TypeFrame DEF Create
  <2>3. CASE users' = Append(users, NewUser(service[s].name, service[s].password))
             /\ \/ service' = Answer(s)
                \/ service' = [service EXCEPT ![s].at = "issue", ![s].user = Len(users) + 1]
    <3>1. service[s].name \in Spelling /\ service[s].password \in Password
      BY <2>1 DEF Job
    <3>2. /\ users' \in Seq(UserRow) /\ Id \subseteq Id'
          /\ Len(users) + 1 \in Id' /\ Len(users) + 1 \in Nat
      BY <2>3, <3>1, RowAdded DEF TypeOK
    <3>3. ServicesOK'
      BY <2>1, <2>3, <3>2, Answered, GotUser DEF Step
    <3> QED
      BY <1>6, <3>2, <3>3, TypeFrame DEF Create
  <2> QED
    BY <1>6, <2>2, <2>3 DEF Create
<1>7. ASSUME NEW s \in Service, Issue(s) PROVE TypeOK'
  <2> DEFINE u == service[s].user
  <2>1. service[s] \in Job /\ u \in Id /\ u \in Nat \ {0}
    BY <1>7, Working DEF Issue, TypeOK, Id
  <2>2. PICK t \in Token :
          /\ tokens' = tokens \cup {[token |-> t, user |-> u, expires |-> clock + Ttl]}
          /\ owner' = [owner EXCEPT ![t] = u]
    BY <1>7 DEF Issue
  <2>3. [token |-> t, user |-> u, expires |-> clock + Ttl] \in TokenRow
    BY <2>1, AccountAssumption DEF TokenRow, TypeOK
  <2>4. Id' = Id /\ users' \in Seq(UserRow) /\ UNCHANGED <<clock, cli, aged>>
    BY <1>0, <1>7 DEF Issue
  <2>5. ServicesOK'
    BY <1>7, <2>4, Answered DEF Issue
  <2> HIDE DEF u
  <2>6. tokens' \subseteq TokenRow /\ \A r \in tokens' : r.user \in Id'
    BY <2>1, <2>2, <2>3, <2>4 DEF TypeOK
  <2>7. owner' \in [Token -> Id' \cup {NoUser}]
    BY <2>1, <2>2, <2>4 DEF TypeOK
  <2> QED
    BY <2>4, <2>5, <2>6, <2>7 DEF TypeOK, ServicesOK
<1>8. ASSUME NEW s \in Service, Crash(s) PROVE TypeOK'
  BY <1>0, <1>8, Answered, TypeFrame DEF Crash
<1>9. ASSUME NEW n \in Spelling, NEW p \in Password, CliCreate(n, p) PROVE TypeOK'
  <2>1. users' \in Seq(UserRow) /\ Id \subseteq Id'
    BY <1>9, RowAdded DEF CliCreate
  <2>2. ServicesOK'
    BY <1>9, <2>1, ServicesStay DEF CliCreate
  <2> QED
    BY <1>9, <2>1, <2>2, TypeFrame DEF CliCreate
<1>10. ASSUME NEW n \in Spelling, NEW p \in Password, CliFind(n, p) PROVE TypeOK'
  <2>1. ServicesOK'
    BY <1>0, <1>10, ServicesStay DEF CliFind
  <2>2. cli' \in [at: {"set"}, name: Spelling, password: Password]
    BY <1>10 DEF CliFind
  <2> QED
    BY <1>0, <1>10, <2>1, <2>2 DEF CliFind, TypeOK, ServicesOK
<1>11. CASE CliSetPassword
  <2>1. cli \in [at: {"set"}, name: Spelling, password: Password]
    BY <1>11 DEF CliSetPassword, TypeOK, Idle
  <2> DEFINE f == [i \in Id |-> IF i \in Alike(cli.name)
                                THEN [users[i] EXCEPT !.password = cli.password]
                                ELSE users[i]]
  <2>2. ASSUME NEW i \in Id PROVE f[i] \in UserRow
    <3>1. users[i] \in UserRow
      BY DEF TypeOK, Id
    <3>2. [users[i] EXCEPT !.password = cli.password] \in UserRow
      BY <2>1, <3>1 DEF UserRow
    <3> QED
      BY <3>1, <3>2
  <2>3. f \in [Id -> UserRow]
    BY <2>2
  <2>4. users' = f
    BY <1>11 DEF CliSetPassword
  <2> HIDE DEF f
  <2>5. users' \in Seq(UserRow) /\ Id' = Id
    BY <2>3, <2>4, RowsChanged
  <2>6. ServicesOK'
    BY <1>11, <2>5, ServicesStay DEF CliSetPassword
  <2> QED
    BY <1>11, <2>5, <2>6 DEF CliSetPassword, TypeOK, ServicesOK
<1>12. CASE Tick
  <2>1. clock' \in Nat
    BY <1>12, AccountAssumption DEF Tick
  <2>2. ServicesOK'
    BY <1>0, <1>12, ServicesStay DEF Tick
  <2> QED
    BY <1>0, <1>12, <2>1, <2>2 DEF Tick, TypeOK, ServicesOK
<1>13. CASE UNCHANGED vars
  <2>1. ServicesOK'
    BY <1>0, <1>13, ServicesStay DEF vars
  <2> QED
    BY <1>0, <1>13, <2>1, TypeFrame DEF vars
<1>14. CASE Receive
  <2>1. Bare(NoToken) \in Shown /\ TestName \in Spelling /\ TestPassword \in Password
    BY AccountAssumption DEF Shown
  <2> QED
    BY <1>1, <1>14, <2>1 DEF Receive, Request
<1> QED
  BY <1>2, <1>3, <1>4, <1>5, <1>6, <1>7, <1>8, <1>9, <1>10, <1>11, <1>12,
     <1>13, <1>14 DEF Next, Serve, Account

\* Type correctness: a row, a token and a request refer to accounts that exist.
THEOREM TypeCorrect == Spec => []TypeOK
<1>1. Init => TypeOK
  <2> SUFFICES ASSUME Init PROVE TypeOK
    OBVIOUS
  <2>1. NewUser(TestName, TestPassword) \in UserRow
    BY AccountAssumption DEF NewUser, UserRow
  <2>2. users \in Seq(UserRow) /\ Id = {1}
    BY <2>1 DEF Init, Id
  <2>3. service = [s \in Service |-> Idle] /\ Idle.at = "idle"
    BY DEF Init, Idle
  <2> QED
    BY <2>2, <2>3 DEF Init, TypeOK
<1>2. TypeOK /\ [Next]_vars => TypeOK'
  BY TypeStep
<1> QED
  BY <1>1, <1>2, PTL DEF Spec

-----------------------------------------------------------------------------
\* Names.

\* Rows that keep their names keep them apart.
LEMMA SameNames ==
    ASSUME NameIsOneAccount, Id' = Id, \A i \in Id : users'[i].name = users[i].name
    PROVE  NameIsOneAccount'
  BY DEF NameIsOneAccount

LEMMA NewName ==
    ASSUME TypeOK, NameIsOneAccount, NEW n \in Spelling, NEW p \in Password,
           ~Taken(n), users' = Append(users, NewUser(n, p))
    PROVE  NameIsOneAccount'
<1> DEFINE new == Len(users) + 1
<1>1. /\ Id' = Id \cup {new} /\ \A i \in Id : users'[i] = users[i]
      /\ users'[new] = NewUser(n, p)
  BY RowAdded
<1>2. users'[new].name = n
  BY <1>1 DEF NewUser
<1>3. \A i \in Id : Fold[users[i].name] # Fold[n]
  BY DEF Taken, Alike
<1> HIDE DEF new
<1> SUFFICES ASSUME NEW i \in Id', NEW j \in Id',
                    Fold[users'[i].name] = Fold[users'[j].name]
             PROVE  i = j
  BY DEF NameIsOneAccount
<1>4. CASE i \in Id /\ j \in Id
  <2>1. users'[i] = users[i] /\ users'[j] = users[j]
    BY <1>1, <1>4
  <2>2. Fold[users[i].name] = Fold[users[j].name]
    BY <2>1
  <2> QED
    BY <2>2, <1>4 DEF NameIsOneAccount
<1>5. CASE i = new \/ j = new
  BY <1>1, <1>2, <1>3, <1>5
<1> QED
  BY <1>1, <1>4, <1>5

LEMMA NameStep == TypeOK /\ NameIsOneAccount /\ [Next]_vars => NameIsOneAccount'
<1> SUFFICES ASSUME TypeOK, NameIsOneAccount, [Next]_vars
             PROVE  NameIsOneAccount'
  OBVIOUS
<1>1. CASE UNCHANGED users
  BY <1>1 DEF NameIsOneAccount, Id
<1>2. ASSUME NEW s \in Service, WriteProfile(s) PROVE NameIsOneAccount'
  <2> DEFINE u == service[s].user
             row == [users[u] EXCEPT !.nickname = service[s].nickname]
  <2>1. u \in Id /\ users \in [Id -> UserRow] /\ Len(users) \in Nat
    BY <1>2 DEF WriteProfile, TypeOK, Id
  <2>2. row.name = users[u].name
    BY <2>1 DEF UserRow
  <2>3. users' = [users EXCEPT ![u] = row]
    BY <1>2 DEF WriteProfile
  <2> HIDE DEF u, row
  <2>4. DOMAIN users' = Id /\ Len(users') = Len(users)
    BY <2>1, <2>3 DEF Id
  <2>5. \A i \in Id : users'[i].name = users[i].name
    BY <2>1, <2>2, <2>3
  <2> QED
    BY <2>4, <2>5, SameNames DEF Id
<1>3. CASE CliSetPassword
  <2>1. users \in [Id -> UserRow] /\ Len(users) \in Nat
    BY DEF TypeOK, Id
  <2>2. \A i \in Id : users'[i].name = users[i].name
    BY <1>3, <2>1 DEF CliSetPassword, UserRow
  <2>3. Len(users') = Len(users)
    BY <1>3, <2>1 DEF CliSetPassword, Id
  <2> QED
    BY <2>2, <2>3, SameNames DEF Id
<1>4. ASSUME NEW s \in Service, Create(s), users' # users PROVE NameIsOneAccount'
  <2>1. service[s].name \in Spelling /\ service[s].password \in Password
    BY <1>4, Working DEF Create, Job
  <2> QED
    BY <1>4, <2>1, NewName DEF Create
<1>5. ASSUME NEW n \in Spelling, NEW p \in Password, CliCreate(n, p)
      PROVE  NameIsOneAccount'
  BY <1>5, NewName DEF CliCreate
<1>6. ASSUME NEW s \in Service, Serve(s), ~WriteProfile(s), ~Create(s)
      PROVE  UNCHANGED users
  BY <1>6 DEF Serve, ReadClock, LookUp, Authenticate, Issue, Crash
<1>7. CASE Receive
  BY <1>1, <1>7 DEF Receive, Begin
<1>8. CASE Tick \/ UNCHANGED vars
  BY <1>1, <1>8 DEF Tick, vars
<1>9. ASSUME NEW n \in Spelling, NEW p \in Password, CliFind(n, p)
      PROVE  UNCHANGED users
  BY <1>9 DEF CliFind
<1> QED
  BY <1>1, <1>2, <1>3, <1>4, <1>5, <1>6, <1>7, <1>8, <1>9 DEF Next, Account

\* A name is one account, however it is spelled and whoever registers it.
THEOREM NamesAreAccounts == Spec => []NameIsOneAccount
<1>1. Init => NameIsOneAccount
  BY DEF Init, NameIsOneAccount, Id
<1> QED
  BY <1>1, NameStep, TypeCorrect, PTL DEF Spec

-----------------------------------------------------------------------------
\* Tokens.

Safe == TokensMatchOwners /\ SessionIsOwners /\ RefusedStaysRefused

\* A step that opens no session is safe when the tokens and what is known of
\* them stay.
LEMMA TokensStay ==
    ASSUME TokensMatchOwners, opened' = NoSession, UNCHANGED <<tokens, owner, aged>>
    PROVE  Safe'
  BY DEF TokensMatchOwners, Safe, SessionIsOwners, RefusedStaysRefused

LEMMA LookUpSafe ==
    ASSUME TypeOK, TokensMatchOwners, NEW s \in Service, LookUp(s)
    PROVE  Safe'
<1> DEFINE req == service[s]
           rows == Rows(req.shown)
           expired == {r \in rows : Expired(r, req.now)}
           valid == rows \ expired
<1>1. rows \subseteq tokens
  BY DEF Rows
<1>2. /\ tokens' = tokens \ expired /\ UNCHANGED owner
      /\ aged' = aged \cup {r.token : r \in expired}
  BY DEF LookUp, Purged
<1>3. \A r \in tokens : r.user # NoUser /\ r.user \in Nat
  BY DEF TypeOK, TokenRow, NoUser
<1>4. \A r \in tokens \ expired : r.token \notin aged'
  BY <1>1, <1>2 DEF TokensMatchOwners
<1>5. TokensMatchOwners'
  BY <1>1, <1>2, <1>3, <1>4 DEF TokensMatchOwners
<1>6. \/ opened' = NoSession
      \/ \E r \in valid :
           opened' = [token |-> r.token, suffix |-> req.shown.suffix, user |-> r.user]
  BY DEF LookUp
<1>7. CASE opened' = NoSession
  BY <1>5, <1>7 DEF Safe, SessionIsOwners, RefusedStaysRefused
<1>8. ASSUME NEW r \in valid,
             opened' = [token |-> r.token, suffix |-> req.shown.suffix, user |-> r.user]
      PROVE  Safe'
  <2>1. r \in tokens \ expired
    BY <1>1
  <2>2. opened'.user = owner'[opened'.token]
    BY <1>2, <1>8, <2>1 DEF TokensMatchOwners
  <2>3. opened'.suffix \in {NoUser, opened'.user}
    BY <1>8 DEF Rows
  <2>4. opened'.token \notin aged'
    BY <1>4, <1>8, <2>1
  <2> QED
    BY <1>5, <2>2, <2>3, <2>4 DEF Safe, SessionIsOwners, RefusedStaysRefused
<1> QED
  BY <1>6, <1>7, <1>8

LEMMA IssueSafe ==
    ASSUME TypeOK, TokensMatchOwners, NEW s \in Service, Issue(s)
    PROVE  Safe'
<1>1. service[s].user \in Id /\ service[s].user # NoUser
  BY DEF Issue, TypeOK, Id, NoUser
<1>2. PICK t \in Token :
        /\ owner[t] = NoUser
        /\ tokens' = tokens \cup
             {[token |-> t, user |-> service[s].user, expires |-> clock + Ttl]}
        /\ owner' = [owner EXCEPT ![t] = service[s].user]
  BY DEF Issue
<1>3. \A r \in tokens : r.user # NoUser /\ r.token \in Token
  BY DEF TypeOK, TokenRow, NoUser
<1>4. \A r \in tokens : r.token # t
  BY <1>2, <1>3 DEF TokensMatchOwners
<1>5. t \notin aged /\ UNCHANGED aged /\ opened' = NoSession
  BY <1>2 DEF TokensMatchOwners, Issue
<1>6. owner \in [Token -> Id \cup {NoUser}]
  BY DEF TypeOK
<1>7. \A q \in Token : owner'[q] = IF q = t THEN service[s].user ELSE owner[q]
  BY <1>2, <1>6
<1>8. /\ \A r \in tokens' : owner'[r.token] = r.user
      /\ \A r, q \in tokens' : r.token = q.token => r = q
      /\ \A r \in tokens' : r.token \notin aged'
  BY <1>2, <1>3, <1>4, <1>5, <1>7 DEF TokensMatchOwners
<1>9. \A q \in aged' : owner'[q] # NoUser
  BY <1>1, <1>5, <1>7 DEF TokensMatchOwners, TypeOK
<1> QED
  BY <1>5, <1>8, <1>9 DEF Safe, TokensMatchOwners, SessionIsOwners, RefusedStaysRefused

LEMMA SafeStep == TypeOK /\ Safe /\ [Next]_vars => Safe'
<1> SUFFICES ASSUME TypeOK, Safe, [Next]_vars
             PROVE  Safe'
  OBVIOUS
<1>1. TokensMatchOwners
  BY DEF Safe
<1>2. CASE Receive
  BY <1>1, <1>2, TokensStay DEF Receive, Begin
<1>3. ASSUME NEW s \in Service, Serve(s) PROVE Safe'
  <2>1. CASE LookUp(s)
    BY <1>1, <2>1, LookUpSafe
  <2>2. CASE Issue(s)
    BY <1>1, <2>2, IssueSafe
  <2>3. CASE ReadClock(s) \/ WriteProfile(s) \/ Authenticate(s) \/ Create(s) \/ Crash(s)
    BY <1>1, <2>3, TokensStay DEF ReadClock, WriteProfile, Authenticate, Create, Crash
  <2> QED
    BY <1>3, <2>1, <2>2, <2>3 DEF Serve
<1>4. CASE Account
  BY <1>1, <1>4, TokensStay DEF Account, CliCreate, CliFind, CliSetPassword
<1>5. CASE Tick
  BY <1>1, <1>5, TokensStay DEF Tick
<1>6. CASE UNCHANGED vars
  BY <1>6 DEF vars, Safe, TokensMatchOwners, SessionIsOwners, RefusedStaysRefused
<1> QED
  BY <1>2, <1>3, <1>4, <1>5, <1>6 DEF Next

\* A session is its owner's, and a token refused once for its age is refused
\* for ever, whatever the requests of the services and the clock do.
THEOREM SessionsAreSafe == Spec => [](SessionIsOwners /\ RefusedStaysRefused)
<1>1. Init => Safe
  BY DEF Init, Safe, TokensMatchOwners, SessionIsOwners, RefusedStaysRefused
<1>2. TypeOK /\ Safe /\ [Next]_vars => Safe'
  BY SafeStep
<1>3. Safe => SessionIsOwners /\ RefusedStaysRefused
  BY DEF Safe
<1> QED
  BY <1>1, <1>2, <1>3, TypeCorrect, PTL DEF Spec

\* A token that was refused for its age once opens no session any more, though
\* the services read the clock at different times.
THEOREM RefusedTokensStayRefused == Spec => []RefusedStaysRefused
  BY SessionsAreSafe, PTL

=============================================================================
