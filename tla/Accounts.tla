------------------------------ MODULE Accounts ------------------------------
(***************************************************************************)
(* Accounts, passwords and tokens (server/storage.py), as the SDK service  *)
(* (server/main.py), the game service's login (server/game_tcp.py) and the *)
(* account command (server/cli.py) use them.                               *)
(*                                                                         *)
(* The three are processes on one database.  A step is one transaction, or *)
(* one reading of the clock: get_session reads the clock before it asks    *)
(* for the row, so that another process may come in between.  A service    *)
(* handles one request at a time, for nothing in these handlers awaits.    *)
(*                                                                         *)
(* A name is one of its spellings.  A password is compared, not hashed; a  *)
(* token is a fresh value.  Of a profile the nickname is kept.             *)
(***************************************************************************)
EXTENDS Integers, Sequences

CONSTANTS
    Spelling,   \* spellings of user names, without blanks around them
    Fold,       \* what NOCASE compares of a spelling
    Lower,      \* what the account command compares of it
    Password,
    Nickname,
    Token,
    NoToken,    \* an empty string, or one that never was a token
    TestName, TestPassword,  \* the account that a new database has
    NoNickname,
    Ttl,        \* token_ttl_seconds
    MaxClock,   \* the last instant (bound)
    MaxUsers    \* accounts (bound)

ASSUME AccountAssumption ==
    /\ Fold \in [Spelling -> Spelling] /\ Lower \in [Spelling -> Spelling]
    /\ TestName \in Spelling /\ TestPassword \in Password
    /\ Ttl \in Nat \ {0} /\ MaxClock \in Nat /\ MaxUsers \in Nat \ {0}

VARIABLES
    users,    \* the rows of users, by id
    tokens,   \* the rows of tokens
    clock,    \* the time of day, which may be set back
    service,  \* what each service is doing
    cli,      \* what the account command is doing
    owner,    \* whom a token was issued to; 0: nobody yet (history)
    aged,     \* tokens that were refused for their age (history)
    opened    \* the session that the last step opened (history)

vars == <<users, tokens, clock, service, cli, owner, aged, opened>>

Service == {"http", "tcp"}
Id == 1..Len(users)

NoUser == 0
NoSession == [user |-> NoUser]

\* A token as it is sent: alone, or with "_" and a user id after it.
Bare(t) == [token |-> t, suffix |-> NoUser]
Shown == [token: Token, suffix: 0..MaxUsers] \cup {Bare(NoToken)}

Step == {"idle", "clock", "look", "password", "create", "issue", "profile"}

\* The requests: what a service does with a session, a name and a password.
Request == {"login", "register", "quick", "session", "update", "verify", "enter"}

Idle == [at |-> "idle"]

-----------------------------------------------------------------------------
\* storage.py

Alike(name) == {i \in Id : Fold[users[i].name] = Fold[name]}

\* Mutant of Taken: the name is looked up as it is spelled.
TakenExactly(name) == \E i \in Id : users[i].name = name

\* The UNIQUE constraint of users.username, which ignores case.
Taken(name) == Alike(name) # {}

NewUser(name, password) ==
    [name |-> name, password |-> password, nickname |-> NoNickname]

\* authenticate.
Matches(name, password) == {i \in Alike(name) : users[i].password = password}

\* Mutant of Rows: the user id after a token is not compared.
RowsAnySuffix(shown) == {r \in tokens : r.token = shown.token}

\* The row that get_session finds.
Rows(shown) ==
    {r \in tokens : r.token = shown.token /\ shown.suffix \in {NoUser, r.user}}

Expired(r, now) == r.expires <= now

\* Mutant of Purged: the row of a token that was refused stays.
PurgedNever(expired) == tokens

Purged(expired) == tokens \ expired

-----------------------------------------------------------------------------
\* The services.

\* The handler of a request starts; those for an account or a session do so
\* with different first steps.
First(op) ==
    CASE op = "login" -> "password"
      [] op \in {"register", "quick"} -> "create"
      [] OTHER -> "clock"

Begin(s, op, shown, name, password, nickname) ==
    /\ service[s].at = "idle"
    /\ service' = [service EXCEPT ![s] =
         [at |-> First(op), op |-> op, shown |-> shown, name |-> name, password |-> password,
          nickname |-> nickname, now |-> 0, user |-> NoUser]]
    /\ opened' = NoSession
    /\ UNCHANGED <<users, tokens, clock, cli, owner, aged>>

\* Mutant of Goto: the account is forgotten.
GotoNobody(s, at) == [service EXCEPT ![s].at = at, ![s].user = NoUser]

Goto(s, at) == [service EXCEPT ![s].at = at, ![s].now = 0, ![s].shown = Bare(NoToken)]
Answer(s) == [service EXCEPT ![s] = Idle]

\* get_session, up to its reading of the clock.
ReadClock(s) ==
    /\ service[s].at = "clock"
    /\ service' = [service EXCEPT ![s].at = "look", ![s].now = clock]
    /\ opened' = NoSession
    /\ UNCHANGED <<users, tokens, clock, cli, owner, aged>>

\* get_session: an expired row is deleted, in the step that reads it: nobody
\* makes the row valid between the SELECT and the DELETE.  A profile is updated
\* by a second get_session of the same token; a verification goes on with the
\* password.
LookUp(s) ==
    LET req == service[s]
        rows == Rows(req.shown)
        expired == {r \in rows : Expired(r, req.now)}
        valid == rows \ expired
    IN /\ req.at = "look"
       /\ tokens' = Purged(expired)
       /\ aged' = aged \cup {r.token : r \in expired}
       /\ \/ /\ valid = {}
             /\ service' = IF req.op = "verify" THEN Goto(s, "password") ELSE Answer(s)
             /\ opened' = NoSession
          \/ \E r \in valid :
             /\ service' =
                  IF req.op # "update" THEN Answer(s)
                  ELSE IF req.user = NoUser
                       THEN [service EXCEPT ![s].at = "clock", ![s].user = r.user]
                       ELSE Goto(s, "profile")
             /\ opened' = [token |-> r.token, suffix |-> req.shown.suffix, user |-> r.user]
       /\ UNCHANGED <<users, clock, cli, owner>>

\* update_profile, after its session.
WriteProfile(s) ==
    LET req == service[s]
    IN /\ req.at = "profile"
       /\ users' = [users EXCEPT ![req.user].nickname = req.nickname]
       /\ service' = Answer(s)
       /\ opened' = NoSession
       /\ UNCHANGED <<tokens, clock, cli, owner, aged>>

\* authenticate.
Authenticate(s) ==
    LET req == service[s]
        found == Matches(req.name, req.password)
    IN /\ req.at = "password"
       /\ \/ found = {} /\ service' = Answer(s)
          \/ \E i \in found :
               service' = [service EXCEPT ![s].at = "issue", ![s].user = i]
       /\ opened' = NoSession
       /\ UNCHANGED <<users, tokens, clock, cli, owner, aged>>

\* create_user; a quick account has no session yet.
Create(s) ==
    LET req == service[s]
    IN /\ req.at = "create"
       /\ \/ /\ Taken(req.name)
             /\ service' = Answer(s)
             /\ UNCHANGED users
          \/ /\ ~Taken(req.name)
             /\ Len(users) < MaxUsers
             /\ users' = Append(users, NewUser(req.name, req.password))
             /\ service' = IF req.op = "quick" THEN Answer(s)
                           ELSE [service EXCEPT ![s].at = "issue", ![s].user = Len(users) + 1]
       /\ opened' = NoSession
       /\ UNCHANGED <<tokens, clock, cli, owner, aged>>

\* issue_token, and the answer with it.  The clock is read and the row inserted
\* in one step: nobody knows the token until it is answered, so a clock that
\* moves in between might as well move after.
Issue(s) ==
    /\ service[s].at = "issue"
    /\ \E t \in Token :
         /\ owner[t] = NoUser
         /\ tokens' = tokens \cup
              {[token |-> t, user |-> service[s].user, expires |-> clock + Ttl]}
         /\ owner' = [owner EXCEPT ![t] = service[s].user]
    /\ service' = Answer(s)
    /\ opened' = NoSession
    /\ UNCHANGED <<users, clock, cli, aged>>

\* The service goes down in a request and is started again.
Crash(s) ==
    /\ service[s].at # "idle"
    /\ service' = Answer(s)
    /\ opened' = NoSession
    /\ UNCHANGED <<users, tokens, clock, cli, owner, aged>>

-----------------------------------------------------------------------------
\* The account command.

CliCreate(name, password) ==
    /\ cli.at = "idle"
    /\ Len(users) < MaxUsers
    /\ ~Taken(name)
    /\ users' = Append(users, NewUser(name, password))
    /\ opened' = NoSession
    /\ UNCHANGED <<tokens, clock, service, cli, owner, aged>>

\* _find_user_id, which compares names in its own way.
CliFind(name, password) ==
    /\ cli.at = "idle"
    /\ \E i \in Id : Lower[users[i].name] = Lower[name]
    /\ cli' = [at |-> "set", name |-> name, password |-> password]
    /\ opened' = NoSession
    /\ UNCHANGED <<users, tokens, clock, service, owner, aged>>

\* set_password; no row may match the name, and no token is touched.
CliSetPassword ==
    /\ cli.at = "set"
    /\ users' = [i \in Id |-> IF i \in Alike(cli.name)
                              THEN [users[i] EXCEPT !.password = cli.password]
                              ELSE users[i]]
    /\ cli' = Idle
    /\ opened' = NoSession
    /\ UNCHANGED <<tokens, clock, service, owner, aged>>

-----------------------------------------------------------------------------

\* Time passes, or the clock of the machine is set back.
Tick ==
    /\ clock' \in 0..MaxClock
    /\ opened' = NoSession
    /\ UNCHANGED <<users, tokens, service, cli, owner, aged>>

\* initialize, on a new database.
Init ==
    /\ users = << NewUser(TestName, TestPassword) >>
    /\ tokens = {}
    /\ clock = 0
    /\ service = [s \in Service |-> Idle]
    /\ cli = Idle
    /\ owner = [t \in Token |-> NoUser]
    /\ aged = {}
    /\ opened = NoSession

Receive ==
    \/ \E n \in Spelling, p \in Password :
         \E op \in {"login", "register", "quick"} :
           Begin("http", op, Bare(NoToken), n, p, NoNickname)
    \/ \E c \in Shown : Begin("http", "session", c, TestName, TestPassword, NoNickname)
    \/ \E c \in Shown, k \in Nickname : Begin("http", "update", c, TestName, TestPassword, k)
    \/ \E c \in Shown, n \in Spelling, p \in Password :
         Begin("http", "verify", c, n, p, NoNickname)
    \/ \E c \in Shown : Begin("tcp", "enter", c, TestName, TestPassword, NoNickname)

Serve(s) ==
    \/ ReadClock(s) \/ LookUp(s) \/ WriteProfile(s)
    \/ Authenticate(s) \/ Create(s) \/ Issue(s) \/ Crash(s)

Account ==
    \/ \E n \in Spelling, p \in Password : CliCreate(n, p) \/ CliFind(n, p)
    \/ CliSetPassword

Next == Receive \/ (\E s \in Service : Serve(s)) \/ Account \/ Tick

Spec == Init /\ [][Next]_vars

-----------------------------------------------------------------------------
(* Properties *)

UserRow == [name: Spelling, password: Password, nickname: Nickname \cup {NoNickname}]
TokenRow == [token: Token, user: Nat \ {0}, expires: Nat]
Job == [at: Step \ {"idle"}, op: Request, shown: Shown, name: Spelling, password: Password,
        nickname: Nickname \cup {NoNickname}, now: Nat, user: Nat]

\* Type correctness.  What refers to an account refers to one that exists,
\* and a request that is past its session or its password has its account.
TypeOK ==
    /\ users \in Seq(UserRow) /\ clock \in Nat
    /\ tokens \subseteq TokenRow /\ \A r \in tokens : r.user \in Id
    /\ service \in [Service -> Job \cup {Idle}]
    /\ \A s \in Service : service[s].at # "idle" =>
         /\ service[s].user \in Id \cup {NoUser}
         /\ service[s].at \in {"issue", "profile"} => service[s].user \in Id
    /\ cli \in [at: {"set"}, name: Spelling, password: Password] \cup {Idle}
    /\ owner \in [Token -> Id \cup {NoUser}]
    /\ aged \subseteq Token

\* A name is one account, however it is spelled: of two registrations, of a
\* quick account and of the account command, one gets the name, so that a
\* password opens and a change of password changes one account.
NameIsOneAccount ==
    \A i, j \in Id : Fold[users[i].name] = Fold[users[j].name] => i = j

\* A session is its owner's: a service works for the account that a token was
\* issued to, and refuses a token with the id of another after it.
SessionIsOwners ==
    opened # NoSession =>
      /\ opened.user = owner[opened.token]
      /\ opened.suffix \in {NoUser, opened.user}

\* A token that a service refused for its age is refused by all from then on,
\* by a request that read the clock before, and when the clock is set back.
RefusedStaysRefused ==
    opened # NoSession => opened.token \notin aged

=============================================================================
