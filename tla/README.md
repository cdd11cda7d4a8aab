# Verification of peach-haven

TLA+ modules of the parts of this server (and of the relay it ships for the
patched client) whose correctness depends on an order of events, the TLC runs
that check them on small instances, and TLAPS proofs of what matters most for
instances of every size.  Every definition is translated from the source;
`PROJECT.json` ("map") names the lines of each.

## The system

Two Python processes share one SQLite file.  The **HTTP process**
(`server/main.py`, FastAPI) serves the SDK: login, tokens, payments.  The
**game TCP server** (`server/game_tcp.py`, asyncio) serves the game protocol on
21001: login, captured answers, gameplay, game orders.  Both go through
`server/storage.py`, in which one method is one connection and, mostly, one
transaction.  A **command line tool** (`server/cli.py`) starts both and edits
users and wallets.  On the phone, the **local relay**
(`tools/apk-relay`, Java) listens on two loopback ports and forwards to them.

| component | state | operations | how it meets others | what is hard | what makes it correct |
|---|---|---|---|---|---|
| Payments: `create_spend` and the storage methods it calls | `payment_orders`, `wallet_accounts`, `wallet_transactions`, `product_grants`, `game_orders`, `game_diamond_transactions`, `game_events`, `game_roles` | record, find the order, settle goods or diamonds, reject; create an order; rebind a role; credit a wallet | the TCP server creates orders, rebinds roles and writes their diamonds and versions in gameplay, the command line credits wallets | four or more transactions per request; crash between any two; retries and changed retries; two order numbers in one request; dedupe by number or by body | one settlement per order, ledgers chain, no debit without a grant, one first-purchase bonus, success answered only for what was granted, a retry settles |
| Role state: gameplay handlers and `merge_game_state` | the row of `game_roles`: diamond column, JSON document, version | battle, gacha, hero level up, edits; RoleBase frames of a captured answer | settlement writes the same row from the other process; two connections of a role share the handler code | the row is read before awaits and before the write transaction; whole-document write-back | column and document agree, receipts and effects together, a body once, a level's reward once, nothing made from nothing |
| Event delivery: `_event_loop`, `_handle_login`, `_handle_client` | the outbox `game_events`, `sessions` | poll, push, mark; login with startup frames; replace and close sessions | settlement fills the outbox; gameplay answers show the row too | login races the poll; reconnects; broken peers; crash after the send | at least once delivery, newest login has the session, every event goes out |
| Local relay: `RelayController` | state, active attempt, listeners, posted timeout, preferences | start, ensureStarted, stop, restart; bind, accept, fail; time out; recover | Android main thread, one thread per listener, kills of the process | LOCK given up between check and use; late callbacks of older attempts; close() before the socket exists | no leaked listener, running means both listeners or a recovery at hand, saved means it ran once, every attempt ends |
| Accounts, sessions, tokens | `users`, `tokens` | register, log in, change a password, issue and look up tokens, update a profile | HTTP login, TCP login, the account command | the clock is read before the row; a token in two forms; a name in many spellings; two transactions per request | a name is one account, a session is its owner's, a refused token stays refused |
| Game state document (`game_state.py`) | the JSON document, the RoleBase bytes | normalise, merge, aliases, patches of the start-up frames | read and written by every gameplay handler, by settlements and by the login's migration | a field lives in a section and under an alias, and reading and storing disagree which one wins | reading is stable, a merge changes what it names, the start-up frames show what is stored |
| Guide save | the document's guide part | `_apply_guide_save` | gameplay | pure | progress never goes back |
| Capture replay and fixtures | captured frames | select an answer for a request, patch it | gameplay, start-up | wrong answer selected | the exact request wins |
| Protocol codec | none | frame, encode, decode, patch a field in place | TCP server | a length that takes one more byte moves everything after it | decode inverts encode, a patch leaves the other fields alone |
| Process control | PID files, the schema | start, foreground start, stop, restart | both processes, which migrate one database | stale PID files; both services add the same column; a port that is not free yet | a stop stops what was started, nothing serves on half a schema |
| Configuration, encryption, product catalogue | none | parse, decrypt, look up | HTTP | pure | - |
| Tracks, profiles, domain, health | log rows | append, answer constants | HTTP | none | - |
| Smoke client, analysis tools | none | offline | - | - | - |

The hazards of this code, each at its line with the properties that would
catch it, are in `PROJECT.json` ("hazards").

## Modules

| module | models | checked by |
|---|---|---|
| `Payments` | payments, game orders, wallet | `MCPayments` (three configurations), `PaymentsProofs` |
| `Settlement` | what payments promise the game; abstract | implemented by `Payments` (`ImplementsSettlement`) |
| `RoleState` | one row of `game_roles` and its writers, await by await | `MCRoleState`, `RoleStateProofs` |
| `RoleDocument` | the contents of that row, handler by handler | `MCRoleDocument` (two configurations), `RoleDocumentProofs` |
| `GameProto` | the wire codec, as operators | through `MCRoleDocument`, byte for byte; `GameProtoProofs` |
| `EventDelivery` | outbox, sessions, event loop, login | `MCEventDelivery` (two configurations), `EventDeliveryProofs` |
| `Accounts` | accounts, passwords, tokens | `MCAccounts`, `AccountsProofs` |
| `ProcessControl` | the commands, the services' start, the schema | `MCProcessControl` (two configurations), `ProcessControlProofs` |
| `Relay` | the relay controller | `MCRelay`, `RelayProofs` |

The components meet at a few transactions, which each model contains as its
environment: `Settle` in `RoleState` and `EventDelivery` is what
`settle_game_payment` does to that component's tables, and in `Payments` it is
`GrantDiamonds`.  `RebindRole` is the login, `CreateGameOrder` the order
handler, `CreditWallet` the command line, and `MergeGameState` what the gameplay
handlers write of what a settlement writes (`merge_game_state`,
`update_game_role_progress`): any diamonds they may have computed, under any
version up to the one after the row's, so also diamonds and a version of before
a settlement.  `RoleState` and `RoleDocument` are
two views of one row: the first has every await and every transaction and few
fields, the second every aliased field and the bytes, and handlers as single
steps.

### Payments

A table is a function from its unique key to its rows; the ledger of an account
is a sequence.  One SQLite transaction is one action: `RecordPaymentOrder`,
`FindMatchingOrder` / `FindMismatchedOrder` / `FindNoOrder` / `FindNothing`
(`find_game_order_for_payment` and what `create_spend` decides on it),
`GrantGoods` / `GoodsAlreadyGranted` / `InsufficientBalance`
(`settle_payment_order`), `GrantDiamonds` / `DiamondsAlreadyGranted`
(`settle_game_payment`), `MarkPaymentOrderRejected`.  `create_spend` does not
await once its body is read, so one request is served at a time (`http.pc`),
and `HttpCrash` may come between any two transactions.  A rollback is a step
that does not happen.

Abstracted: an amount is the product with that price; a request is its two
order numbers, whether its `extra` names the role and server, and its amount;
the dedupe digest of a body is the body; wallet description texts, timestamps
and client addresses are left out.

`Settlement` has four variables: the orders placed, the payment of each settled
order, the product of each payment for goods, the diamonds of each role.  An
order is placed, or settled by one unspent payment of its account, which
credits its role in the same step; a payment delivers goods; or the game leaves
a role with other diamonds (`Play`).  `Payments` reads them off its tables
(`Placed`, `Settled`, `grants`, `Diamond`); requests, retries, statuses, the
wallet, the events, rebinding and crashes are stutters.  So the refinement says
what one settlement adds to the diamonds it finds, not what a role has in the
end: since gameplay may put back what was there before a settlement, neither the
column nor the versions can be told from the transactions.  What becomes of a
role's diamonds between the two is `DiamondsAddUp` of `RoleState`.

### RoleState

The document keeps the diamonds, the completed levels, one hero's level, the
length of the draw history, the guide segments and story flags that are set,
and the receipts.  Each handler that writes the row is an action of its own
(`HandleRiskWin`, `HandleGacha`, `HandleHeroLevelUp`, `HandleLineup`,
`HandleChangeNickname`, `HandleGuideSave`, `HandleSimpleGameplayRequest`,
`HandleRiskStart`): the part from the request to its patch, which has no await.
`MergedDoc` is what each patch does to the document.  `MergeRead` and
`MergeWrite` are the two halves of `merge_game_state`: its SELECT runs in
autocommit, the write transaction begins with the UPDATE, and `Settle` may
commit in between.  `GameplayEvent` selects the captured answer, and
`SendFrame` is one frame of it, an await, before which
`_persist_captured_role_base` writes back the state the handler holds.  The
event loop gives `running` to one handler at a time.  The login's migration,
which is in `RoleDocument`, has already run in `Init`.

`crossed` is a history variable: whether another handler began, or a payment
was settled, while a handler held what it had read.  What the code keeps only in
histories without such a crossing is stated so (`BodyAppliedOnce`,
`LevelPaidOnce`, `ProgressKept`, the second half of `DiamondsAddUp`); the rest
holds of every history, two connections and stale write-backs included.

Left out: coin, strength, bag and equipment (written in the same patches and by
the same steps as what is kept), the values of lineups, nicknames and
preferences, and requests that write nothing.  Message 153, the nickname and the
guide save have no captured answer: `PLAY_REQUEST_RESPONSE_IDS` does not list
them.

### EventDelivery

A role row is known by its version, and an event by the version it was written
with.  The await points are the steps: `Login`, `SendStartup`, `FinishLogin`
(marks the events of the version that was sent, installs the session) for the
login; `ListPending`, `Push`, `MarkDelivered` / `PushFails` / `Skip` for the
loop.  `Drop` is the peer going away, `Close` the handler's finally block,
`TcpCrash` a restart of the server, which forgets sessions and connections.

### RoleDocument and GameProto

`GameProto` translates the codec as functions on sequences of bytes: varints,
the fields of a message with their places, replacement of the first field or
appending, maps, and the messages that a role's state is made from.
`RoleDocument` keeps the document's sections (`model`), its old top-level
aliases (`alias`), the heroes and lineups, the diamonds column and the RoleBase
message as bytes.  `Normalize` is `normalize_role_state` (defaults from the
bytes, then the sections, then the aliases, then the capture's heroes), `Merge`
is `merge_role_state`, `SyncAliases` ends both.  Every writer of the row is an
action: the login's migration, six gameplay handlers, the write-back of a
captured RoleBase, settlement.  `Init` has rows of an older server too, with any of
its documents and any diamonds in the column: `initialize` adds columns and
reconciles nothing, so the column may be ahead of the RoleBase.  `wrote` remembers
which fields a step was to write, so that `MergeIsNarrow` can say that a reader
finds these and, of all other fields, what he found before.  `StartupShowsState`
parses the start-up messages that `_send_startup` patches and finds the state in
them.  `DiamondsStayInStep` says that a step after which column and document differ
started from a row in which they did, and wrote no diamonds.

Of what `patch_role_base_from_state` patches, the model has the fields 1, 7, 8 and 9
(with its level); nickname, signature, gender, head, hero experience, area and the
daily fields (2, 3, 4, 16, 26, 29, 130, 149, 150, 153) and the experience beside the
level (9.2) are patched by the same two functions, one after the other, and are left
out.  So what `StartupShowsState` says of a field the model does not patch, that it
is where it was, is said of the modelled patches.

The heroes of the capture, which a new role starts with, are the constant
`HeroSeed`, assumed equal to what `DecodeRoleHero` reads in `HeroFrame`.

### Accounts

One transaction, or one reading of the clock, is a step, and both services and
the account command take steps in any order.  `get_session` reads the clock
before it asks for the row (`ReadClock`, `LookUp`), and `doUpdate` calls it
twice.  Two pairs of statements are one step because nothing can come between
them that matters: the SELECT of an expired row and its DELETE, and the clock's
reading and the INSERT in `issue_token`, whose token nobody knows yet.  The clock
may be set back.  `Fold` is what SQLite's NOCASE compares and
`Lower` what `_find_user_id` compares; they differ outside ASCII, and the
instance has a spelling on which they do.

### ProcessControl

A command's statements that touch a process, a pid file or nothing else are
steps of their own, and so are the statements of `initialize` that change the
schema, for Python's `sqlite3` opens no transaction for them.  A service looks
for missing columns, adds them one by one (and dies if the other one has added
the same column in between), and binds its port (and ends if it is taken).  The
SDK service ends some time after its signal.  `overlaps` and `again` count, for
the properties, the commands that began in the middle of another and the starts
that were given while something lived.

### Relay

What happens under LOCK is one step.  A method that gives LOCK up and takes it
again is two (`EnsureStarted`, `EnsureBegins`; `TimeoutFires`, `TimeoutFails`,
`TimeoutRecovers`; `ListenerFailed`, `Recover`), and so is one that reads the
preferences before it takes LOCK (`Call`).  The main thread runs the calls and
the timeout one at a time; each listener is a thread whose socket exists
(`Bind`) before `close()` can see it (`ListenerBound`).  The public operations
may come in any order: the dialog greys its button out during a start that it
knows of, but a start made by the activity's lifecycle is not announced to it.

`RunningIsWhole` is about what `getState` and `getStatus` answer.  A relay that says
it runs has both listeners, with one exception that the property names:
`failAttempt` closes both under LOCK, leaves the state `RUNNING`, gives LOCK up and
only then starts the previous configuration.  In that window there is no active
attempt, and a thread (`Recovering`) is about to make one; the run reaches it.

## Runs

| run | question | bounds |
|---|---|---|
| `payments_wallet` | Do goods payments keep the wallet ledger, the grants and the bonus right under retries, crashes, both top-up settings and concurrent credit? | 2 accounts, 2 products, 4 requests, 2 credits |
| `payments_diamond` | Is a game order settled once, whole, by the right payment, and do the tables implement `Settlement`? | 2 accounts, 1 role, 2 products, 2 order numbers, 6 requests, gameplay that writes 1 diamond under version 1 (before and after settlements that gave more, under a later one) |
| `payments_retry` | Does a repeated request settle in the end? | 1 account, 1 order number, 3 requests |
| `role_state` | What survives two connections, settlements and crashes, and what does without a crossing? | 2 connections, 2 wins of one level, a loss, a level up, a draw, 2 guide saves and one request of every other kind, 2 payments, version 5 |
| `role_document` | Does the document read back as it was written, through the bytes too, and do its diamonds stay the column's? | a new role, an empty and a flat document of an older server, with 120 diamonds in the bytes and 132 in the column, 2 captured RoleBases, 2 heroes, version 3; varints of one and two bytes and lengths that cross 127 |
| `role_document_level` | (violated) Does a patch change the fields it names only? | the same |
| `event_delivery` | At least once, newest session, and eventual delivery under reconnects, broken peers and crashes? | 2 connections, 2 settlements, batch 2 with 1 foreign event, 2 faults |
| `event_delivery_shown` | (violated) Has the online client seen each delivered event? | no faults |
| `accounts` | Is a name one account, a session its owner's, a refused token refused for good? | 3 spellings of 2 names, 2 accounts, 2 passwords, 1 token, a clock of 2 instants with a lifetime of 1 |
| `process_control` | Is the schema whole before anything serves, is every service named by its pid file, does a start end with both serving? | a start, a foreground start, a stop and a restart, one after the other; 4 pids, 1 crash, databases without 0, 2 and 3 of the columns of two tables |
| `process_control_stop` | (violated) Does a stop stop all background services? | 2 starts, 1 stop |
| `relay` | Do listeners leak, does a relay that says it runs have both, has what is saved run, does every attempt end? | 2 calls, 2 faults, targets: the looping default and two others |

The bounds give each hazard its actors.  Two accounts and one role are what
rebinding needs, two products are what a changed amount needs, two order
numbers are what a request with two numbers needs, and every request can be
repeated without a bound because a repetition adds no row.  Two connections are
an old and a new one, and the third would repeat the part of the second.  Two
settlements give the loop an event that is listed and one that came later.  Two
relay calls can put three attempts in flight (the first, the second, and a
recovery); 3 calls with one fault were explored once, without liveness, with
the same result.  The batch limit of 100 is 1 or 2 here: only whether the batch
is full matters.  One token is enough for accounts, since tokens never meet:
what can go wrong with one is its form, its age and its account.  One SDK and
one game service per start are the two that migrate at once; `process_control`
gives its commands one after the other, `process_control_stop` starts twice,
and what holds of commands that overlap is proved instead
(`ProcessControlProofs`).  The fixture's RoleBase is 127 bytes long, so that a
patch takes the length of the message around it from one byte to two.

`CHECK_DEADLOCK FALSE` is given where a bound ends the behaviour: `RoleState`
and `RoleDocument` accept nothing past `MaxVersion`, `Relay` no call past
`MaxCalls`, and `ProcessControl` gives each command once, so all four come to
rest.  The real programs go on.

### Fairness

* `payments_retry`: the HTTP process runs the handler it is in (weak), a client
  repeats an unanswered request, and a process that is started again after a
  crash does not die at the same step of the same request for ever (strong,
  per request).  Nothing is assumed of the other processes.
* `event_delivery`: the server's tasks run (asyncio
  schedules every ready task), and a client whose newest connection is gone
  connects and logs in again.  Faults are finite by their bound.
* `relay`: the main thread's looper runs, and a thread that failed goes on to
  recover.  Nothing is assumed of the listeners' binds: they may hang, which is
  what the start timeout is for.
* `process_control`: the system runs every process that can go on (weak, per
  service and per command).  `StartedServe` still has to be told that nothing
  crashes and no other command begins meanwhile.

### What the violated runs show

* `event_delivery_shown`: the loop sends the diamonds its batch was listed
  with, which may be older than what the client last saw, or sends them to a
  session that a login replaces.
* `role_document_level`: the level of a captured RoleBase is stored under its
  alias only.  Readers see it, until the next merge of any other field puts the
  old level of the section back over the alias.
* `process_control_stop`: a start looks for no running service and overwrites
  the pid files, so that the next stop leaves the first services alive, with
  the ports.

### What the properties leave out on purpose

The following interleavings are reached by the models and break what one might
want; the properties name the condition under which they hold instead.

* `merge_game_state` reads the row before its write transaction: a settlement
  committed in between is overwritten, its diamonds are gone, and two rows carry
  one `role_version` (`DiamondsAddUp` bounds the diamonds from above always, and
  is exact when nothing crossed).
* A handler suspended at a send overwrites the row with the state it read, the
  receipts of another connection included, so that a body may take effect again
  (`BodyAppliedOnce`, `LevelPaidOnce`, `ProgressKept` speak of histories in which
  no second handler crossed).
* As many events of absent roles as a batch holds keep all others from being
  listed (`EventuallyDelivered` is checked with room in the batch).
* A role of an older server whose column was raised by payments while its RoleBase
  was not is read with the RoleBase's diamonds, and the first reward or captured
  RoleBase writes these over the column (`DiamondsStayInStep` starts from rows that
  agree, and from every step that writes the diamonds; nothing in the repository
  says what such a row must become).
* The relay's start timeout looks at its attempt and fails it under two locks;
  a relay that became running in between is taken down (`StatusSettles` holds
  all the same).
* A service that lost the race for a column has died, and a restart's SDK service
  may find its port not free yet (`StartedServe` speaks of an up-to-date schema
  and of a start where nothing is about to end).

## What is proved

Each theorem holds for every value of the constants that the named assumptions
of its module allow; TLC evaluates the assumptions on every run.

| theorem | property | assumptions |
|---|---|---|
| `PaymentsProofs!TypeCorrect` | `TypeOK` | catalogue, numbers, requests, amounts |
| `PaymentsProofs!OrdersSettledOnce` | `OrderSettledWhole`, `PaymentSettlesOneOrder`, `OneKindOfGoods`, `SettlementNeverRejects` | the same |
| `PaymentsProofs!BonusExactlyOnce`, `BonusNotLost` | `FirstBonusOnce`, `FirstBonusGiven` | none |
| `PaymentsProofs!AnswersAreTrue`, `StatusesAreTrue` | `AckedIsGranted`, `StatusTrue` | those of `TypeCorrect` |
| `PaymentsProofs!PaymentsImplementSettlement` | `ImplementsSettlement` | the same |
| `PaymentsProofs!LedgerAddsUp`, `DebitsAreGrants`, `TopUpIsSpent` | `LedgerChain`, `DebitPerGrant`, `AutoCreditIsSpent` | the same |
| `RoleStateProofs!DiamondsAgree` | `ColumnAgreesWithDocument` | requests, row |
| `RoleStateProofs!AppliedOnce`, `LevelsPayOnce` | `BodyAppliedOnce`, `LevelPaidOnce` | the same |
| `RoleStateProofs!ProgressStays` | `ProgressKept` | the same |
| `RoleStateProofs!TypeCorrect` | `TypeOK` | the same |
| `RoleStateProofs!EffectsHaveReceipts` | `EffectsMatchReceipts` | the same |
| `RoleStateProofs!DiamondsAreAccounted` | `DiamondsAddUp` | the same |
| `RoleDocumentProofs!ReadingStable` | `ReadingIsStable` | the documents, the fixture |
| `RoleDocumentProofs!DiamondsInStep` | `DiamondsStayInStep` | the same |
| `RoleDocumentProofs!MergesAreNarrow` | `MergeIsNarrow` | the same |
| `RoleDocumentProofs!TypeCorrect` | `TypeOK` | the same, and `Representable` |
| `RoleDocumentProofs!StartupIsTrue` | `StartupShowsState` | the same, `HeroesFit`, and the fixture's bag |
| `GameProtoProofs!PatchedNumber`, `PatchedBytes` | (lemmas of the two above) | none |
| `EventDeliveryProofs!TypeCorrect` | `TypeOK` | bounds are naturals |
| `EventDeliveryProofs!DeliveredAtLeastOnce` | `DeliveredWasSent` | the same |
| `EventDeliveryProofs!NewestLoginHasSession` | `LatestLoginHasSession` | the same |
| `AccountsProofs!TypeCorrect` | `TypeOK` | accounts |
| `AccountsProofs!NamesAreAccounts` | `NameIsOneAccount` | the same |
| `AccountsProofs!SessionsAreSafe`, `RefusedTokensStayRefused` | `SessionIsOwners`, `RefusedStaysRefused` | the same |
| `ProcessControlProofs!ServedSchemaIsWhole` | `ServesOnWholeSchema` | commands |
| `ProcessControlProofs!ServicesAreNamed` | `EveryServiceIsNamed` | commands |
| `RelayProofs!TypeCorrect` | `TypeOK` | targets, bounds |
| `RelayProofs!RunsWhole` | `RunningIsWhole` | the same |
| `RelayProofs!ListenersAreClosed` | `NoListenerLeaks` | the same |
| `RelayProofs!SavedTargetsRan` | `SavedWasRunning` | the same |
| `RelayProofs!StopsLast` | `OnlyRecoveryUndoesStop` | the same |

All are by induction over the steps, one case per action, the temporal step by
`PTL`.  What had to be found are the invariants that are inductive.

**One settlement per order.**  `OrderSettledWhole` alone is not inductive:
whether a second payment may reach a settled order, or a payment be turned into
goods after it was turned into diamonds, depends on what the numbers in
`payment_orders` can name.  `OrderIInv` adds that a number a payment supplies
was issued before (`NumbersIssued`: order numbers exist before anybody can pay
them), that a settled order's payment supplies that order's number and no other
(`SettledByName`), that a payment with goods has no candidate order
(`GoodsHaveNoOrder`), and that the request in progress holds the order it should
(`WorkOnTheRightOrder`).  The refinement rests on it: at the step that settles,
the payment is one that `Settlement` calls unspent.

**True answers.**  A payment refused for its price has neither a grant nor a
candidate order (`StatusKnown`), and no later step gives it an order: `Kept` says
what every step keeps of a stored payment, an entitlement and the set of its
candidates.

**The ledgers.**  `Chain`, `Spent` and `Debited` say of one user's log what the
three wallet properties say of all, and each has a lemma for a row appended to
the log; a purchase appends one row or two.  The bonus is inductive by itself, for
the lookup and the insert share a transaction.

**The row.**  However stale what a handler holds is, both diamonds of it agree
(`Agree`).  As long as no second handler crossed, what a handler has read is what
the row still has, but for the diamonds, which settlements may have raised
(`Quiet`); from this follow the receipts, the levels and that nothing is lost.

**Delivery.**  `SentInv`: what a login or the loop is about to mark has been told.

**Tokens.**  `TokensMatchOwners`: a row of `tokens` has the owner its token was
issued to, no two rows have one token, no row has a token that was refused for its
age, and every refused token was issued once, so that it is never issued again.

**Services.**  `Stage` gives, for each place in `initialize`, the columns that
exist by then whoever added them.  `EveryServiceIsNamed` is proved of calm
histories from an order of the commands (`Alone`), what the one at work has done
to the processes and the pid files (`Phase`), and what the files name otherwise
(`Named`).

**The relay.**  `ActiveIsWhole`: a thread of the active attempt is not closed and
has nothing to restore, and a side is in `bound` once its thread accepts.
`GapIsRecovery`: with no attempt and the state still running, a thread recovers, and
it is on the main thread or a listener's, which nothing else takes from it.
`StopIsWhole`: after a stop there is no attempt left, so that no listener's step
can change the state.

**The row's accounts.**  `TypeOK` of `RoleState` needs the event loop's discipline:
the thread is held between a read and the first send by one handler and no other
(`Threads`), and what a handler holds fits its request (`Fit`).  Its sums are over
finite sets of positions and of requests; what is needed of them (a sum over a set
with one more element, or with one value changed) is proved by counting the units
of each, from the theorem that a set of numbers that is not empty has a least one.
That is how everything is proved here that takes an induction over data: the
library's induction theorems cannot be instantiated, but the least-number
principle for one named set (`LeastNumber`, `Upward`, `Downward`) can.

**The document.**  `Rows`: the row is typed and, while the role plays, whole, so that
a patch never finds a section missing.  `DiamondStep` then takes each way a step may
write the diamonds (a merge that names them, a settlement, a captured RoleBase, the
creation of a role) and each that does not, and says what column, section and alias
have after it.

**The bytes.**  The encoding of a number is a code: its last byte is the first one
below 128, and it gives the number back (`VarintIsCode`), so that a number, a
field, and what follows are read from their own bytes wherever they stand
(`DecodeLocal`, `FieldLocal`).  The fields of a message are a chain, each starting
where the one before it ends.  Replacing the bytes of one field by those of
another leaves the chain before it as it is and moves the one after it
(`SameStart`, `SameEnd`), so that every field is where it was in the order and has
what it had (`ReplacedIsEdited`); and this is all that `patch_varint` and
`patch_bytes` can do, also to messages that are patched into other messages.

The maps of messages 25 and 27 are proved over the keys instead: an encoding is a
recursive function over finite sets of keys that writes the greatest one last, so
that what holds of it without its greatest key, and is kept by one more entry,
holds of it whole (`Carries`, `MapReads`, by the same least-number principle over
the size of the set).  What is read back is read again number by number: an item,
a line of heroes, a hero's level (`ItemReads`, `LineReads`, `HeroReads`), then the
bag and the heroes (`BagReads`, `MapsRead`).  `Of` and `EncodeMap` are written as
recursive functions for this; `SelectSeq` and `SetToSortSeq` take an operator,
which the prover cannot expand.

`_decode_varint` gives up after ten bytes while `_encode_varint` writes as many as
a number takes, so a number of 71 bits or more, once patched into a message, makes
the rest of it unreadable.  `TypeCorrect` and `StartupIsTrue` of `RoleDocument`
therefore speak of behaviours in which every number of the state, and the length of
the RoleBase, takes at most ten bytes (`Representable`, `Fits`), and `StartupIsTrue`
also of those in which the heroes' levels and the lengths of their encodings do
(`HeroesFit`).  A number that was read from ten bytes fits into them again
(`GotFits`), so that nothing is asked of what the capture holds.  Nothing in
`game_state.py` bounds the others, but SQLite keeps the diamonds in 64 bits, and the
rewards would have to be counted up to 2^70; both hold in all states of
`role_document`.  The assumptions on the fixture say what the capture is: its
messages 25 and 27, the RoleBase and the level message in it can be parsed to
their ends, message 25 has the fields 4, 5 and 125 that start-up replaces, and its
field 5 is the fixture's bag, of positive ids and quantities and of a length that
fits.  TLC evaluates them on the instance's capture.

Only model-checked: the liveness properties (`RetriesSettle`, `EventuallyDelivered`,
`StatusSettles`, `StartedServe`), which the prover cannot do.  Every invariant and
every action property of a passing run is stated by a theorem.

## Not modelled

* Configuration, encryption, the catalogue's contents, game tracks, domain and
  health endpoints, and the offline tools: conversions of an input, or log rows
  on which no modelled state depends.
* A database that stays locked past its timeout.  It ends the event loop's task,
  which nothing restarts (a hazard without a property).
* The eviction of the oldest of more than 256 receipts, by a clock in seconds (a
  hazard without a property).
* The bag, equipment and item deltas of the document, which the same patches
  write by the same steps; the frame header of the protocol, and the messages that
  are answered and not stored.
* Which fixture a login is given and the start-up template: they read, and no
  state depends on them.
* The relay's status dialogs, latency probes and byte pipes.
* That the relay's `restart` saves a disabled configuration before it stops, so
  that a listener which binds in between saves the enabled one over it: the
  model reaches this, but nothing in the repository says what must hold, so it
  is a hazard without a property.
* The reuse of a pid by an unrelated process, and commands given for other ports.

## Plan

The modules were written in the order of the table above: payments, the role's
row, delivery, the relay, and then the document with its codec, accounts, process
control and the abstract `Settlement`.  What is left:

1. An outbox specification (each event is told at least once, in the end) that
   `EventDelivery` implements by a refinement mapping.
2. `RoleState` and `EventDelivery` composed over one row, with the login's
   migration of `RoleDocument` as a step of two transactions.
3. Receipt eviction in `RoleDocument`, with a clock and a small limit.
4. The bag and the item deltas of a battle's reward.
