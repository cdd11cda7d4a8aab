------------------------------ MODULE Payments ------------------------------
(***************************************************************************)
(* The payment half of the database: POST /api/sdk/spend/create2           *)
(* (server/main.py, create_spend) and the storage transactions it runs     *)
(* (server/storage.py), together with the two other processes that write   *)
(* the same tables: the game TCP server, which creates game orders,        *)
(* rebinds a role to the SDK account that logs in and writes the role when *)
(* it is played, and the command line tool, which credits a wallet.        *)
(*                                                                         *)
(* create_spend never awaits once its body is read, so the HTTP process    *)
(* serves one payment at a time; but every Storage method is a SQLite      *)
(* transaction of its own, so the other processes run between any two of   *)
(* them, and the HTTP process may die between any two of them.  One        *)
(* transaction is one action here; the program counter of the handler is   *)
(* http.pc.                                                                *)
(*                                                                         *)
(* A row is a record and a table a function from its unique key to its     *)
(* rows.  A payment row's key is (user_id, dedupe_key); a game order's is  *)
(* its game_order_no, which also keys the diamond transaction and the      *)
(* event made for it.  An amount is the product whose price it is, or      *)
(* NoProduct: the catalogue of server/products.py maps prices to products  *)
(* one to one.                                                             *)
(***************************************************************************)
EXTENDS Integers, Sequences

CONSTANTS
    User,            \* rows of users
    Role,            \* rows of game_roles
    Product,         \* PRODUCTS_BY_AMOUNT
    Price,           \* ProductSpec.price
    Quantity,        \* ProductSpec.quantity
    Bonus,           \* ProductSpec.first_purchase_bonus
    OrderNo,         \* order numbers the game server issues
    ClientNo,        \* order numbers the SDK makes up by itself
    NoNum,           \* a missing order number
    NoProduct,       \* an amount that is nobody's price
    Request,         \* the decoded create2 requests the clients send
    AutoCredit,      \* the values sdk.auto_credit_g_points takes
    CreditRef,       \* reference keys of account credit (bound)
    CreditAmount,    \* the amount each of them adds
    InitialDiamond,  \* the diamonds each role starts with
    PlayedDiamond,   \* the diamonds a gameplay handler may write
    PlayedVersion    \* a handler writes versions up to this one (bound)

Num == OrderNo \cup ClientNo
Amount == Product \cup {NoProduct}
Extra == [orderNo: Num \cup {NoNum}, scope: BOOLEAN]
Body == [extra: Extra, amount: Amount]
PayKey == [user: User, dedupe: Num \cup Body]

ASSUME CatalogAssumption ==
    /\ Price \in [Product -> Nat \ {0}]
    /\ Quantity \in [Product -> Nat \ {0}]
    /\ Bonus \in [Product -> Nat]
    /\ NoProduct \notin Product

ASSUME NumberAssumption ==
    /\ OrderNo \cap ClientNo = {}
    /\ NoNum \notin Num
    /\ Num \cap Body = {}

ASSUME RequestAssumption ==
    /\ Request \subseteq [user: User, num: Num \cup {NoNum},
                          extra: Extra, amount: Amount]
    /\ AutoCredit \subseteq BOOLEAN

ASSUME AmountAssumption ==
    /\ CreditAmount \in [CreditRef -> Nat \ {0}]
    /\ InitialDiamond \in [Role -> Nat]
    /\ PlayedDiamond \subseteq Nat /\ PlayedVersion \in Nat

VARIABLES
    payments,     \* payment_orders
    balance,      \* wallet_accounts.balance, 0 for a missing account
    walletLog,    \* wallet_transactions of each user, in id order
    grants,       \* product_grants, by payment
    gameOrders,   \* game_orders, by game_order_no
    diamondTxns,  \* game_diamond_transactions, by game_order_no
    events,       \* game_events, by game_order_no
    roles,        \* the columns of game_roles a settlement reads or writes
    http,         \* where the HTTP process is in create_spend
    acked         \* payments the client has been answered success for

vars == <<payments, balance, walletLog, grants, gameOrders, diamondTxns,
          events, roles, http, acked>>
wallet == <<balance, walletLog>>
gameTables == <<gameOrders, diamondTxns, events, roles>>

Idle == [pc |-> "idle"]

\* The table f with the row v stored under the key k.
Put(f, k, v) == [x \in DOMAIN f \cup {k} |-> IF x = k THEN v ELSE f[x]]

\* dedupe_key: the order number, else a digest of the whole body.
Key(q) ==
    [user |-> q.user,
     dedupe |-> IF q.num = NoNum
                THEN [extra |-> q.extra, amount |-> q.amount]
                ELSE q.num]

-----------------------------------------------------------------------------

\* A client sends an order number the game server issued only after the
\* server has acknowledged it, which it does after the row is committed.
Known(n) == n \in OrderNo => n \in DOMAIN gameOrders

\* record_payment_order: insert the row, or mark the stored one duplicate.
\* The stored order number, extra and amount stay those of the first request.
RecordPaymentOrder(q) ==
    LET k == Key(q) IN
    /\ http = Idle
    /\ Known(q.num) /\ Known(q.extra.orderNo)
    /\ payments' = Put(payments, k,
         IF k \in DOMAIN payments
         THEN [payments[k] EXCEPT !.status = "duplicate"]
         ELSE [num |-> q.num, extra |-> q.extra, amount |-> q.amount,
               status |-> "unresolved"])
    /\ http' = [pc |-> "find", req |-> q, order |-> NoNum]
    /\ UNCHANGED <<wallet, grants, gameTables, acked>>

\* The payment row the handler is working on.
Current == Key(http.req)

\* The order numbers the stored row supplies.
Supplied(row) == {row.num, row.extra.orderNo} \ {NoNum}

\* Mutant of Candidates: settled orders are left out, so that a retry finds
\* none.
PendingCandidates(k) ==
    {o \in DOMAIN gameOrders \cap Supplied(payments[k]) :
        gameOrders[o].user = k.user /\ gameOrders[o].payment = {}}

\* find_game_order_for_payment: an order of the paying account, under either
\* of the numbers.
Candidates(k) ==
    {o \in DOMAIN gameOrders : /\ gameOrders[o].user = k.user
                               /\ o \in Supplied(payments[k])}

\* The checks of create_spend on the order it found: every supplied number
\* is the order's, serverId and userId agree, and THIS request's amount is
\* the order's price.
Acceptable(o, row, amount) ==
    /\ Supplied(row) = {o}
    /\ row.extra.scope
    /\ amount = gameOrders[o].product

\* Mutant of FindMatchingOrder: a repeated request is not settled.
FindFreshOrder ==
    /\ http.pc = "find"
    /\ payments[Current].status = "unresolved"
    /\ \E o \in Candidates(Current) :
         /\ Acceptable(o, payments[Current], http.req.amount)
         /\ http' = [http EXCEPT !.pc = "game", !.order = o]
    /\ UNCHANGED <<payments, wallet, grants, gameTables, acked>>

FindMatchingOrder ==
    /\ http.pc = "find"
    /\ \E o \in Candidates(Current) :
         /\ Acceptable(o, payments[Current], http.req.amount)
         /\ http' = [http EXCEPT !.pc = "game", !.order = o]
    /\ UNCHANGED <<payments, wallet, grants, gameTables, acked>>

FindMismatchedOrder ==
    /\ http.pc = "find"
    /\ \E o \in Candidates(Current) :
         /\ ~Acceptable(o, payments[Current], http.req.amount)
         /\ http' = [http EXCEPT !.pc = "reject"]
    /\ UNCHANGED <<payments, wallet, grants, gameTables, acked>>

\* Mutant of FindNoOrder: the product is not looked up.
FindNoOrderUnresolved ==
    /\ http.pc = "find"
    /\ Candidates(Current) = {}
    /\ http' = [http EXCEPT !.pc = "goods"]
    /\ UNCHANGED <<payments, wallet, grants, gameTables, acked>>

\* No game order: the STORED amount selects a product.
FindNoOrder ==
    /\ http.pc = "find"
    /\ Candidates(Current) = {}
    /\ payments[Current].amount \in Product
    /\ http' = [http EXCEPT !.pc = "goods"]
    /\ UNCHANGED <<payments, wallet, grants, gameTables, acked>>

\* Mutant of FindNothing: whatever is no game order is a success.
FindNothingAtAll ==
    /\ http.pc = "find"
    /\ Candidates(Current) = {}
    /\ http' = Idle
    /\ acked' = acked \cup {Current}
    /\ UNCHANGED <<payments, wallet, grants, gameTables>>

\* Neither a game order nor a product: answer success, grant nothing.
FindNothing ==
    /\ http.pc = "find"
    /\ Candidates(Current) = {}
    /\ payments[Current].amount \notin Product
    /\ http' = Idle
    /\ acked' = acked \cup {Current}
    /\ UNCHANGED <<payments, wallet, grants, gameTables>>

\* mark_payment_order_rejected, then the error reply.
MarkPaymentOrderRejected ==
    /\ http.pc = "reject"
    /\ payments' = [payments EXCEPT ![Current].status = "rejected"]
    /\ http' = Idle
    /\ UNCHANGED <<wallet, grants, gameTables, acked>>

-----------------------------------------------------------------------------

\* Mutant of FirstGoods: a purchase of any product counts.
FirstOfAny(u, p) == \A k \in DOMAIN grants : k.user # u

\* settle_payment_order: no prior grant of this product to this user.
FirstGoods(u, p) ==
    \A k \in DOMAIN grants : ~(k.user = u /\ grants[k].product = p)

Entry(kind, ref, amount, before) ==
    [kind |-> kind, ref |-> ref, amount |-> amount,
     before |-> before, after |-> before + amount]

\* Mutants of PurchaseEntries: the debit starts from the balance read before
\* the top-up; the debit takes what is there instead of a top-up; the top-up
\* is the whole price.
StaleEntries(k, p) ==
    LET b == balance[k.user] IN
    IF b < Price[p]
    THEN << Entry("auto_credit", k, Price[p] - b, b), Entry("spend", k, -Price[p], b) >>
    ELSE << Entry("spend", k, -Price[p], b) >>
CheapEntries(k, p) ==
    LET b == balance[k.user]
        paid == IF b < Price[p] THEN b ELSE Price[p]
    IN << Entry("spend", k, -paid, b) >>
WholePriceEntries(k, p) ==
    LET b == balance[k.user] IN
    IF b < Price[p]
    THEN << Entry("auto_credit", k, Price[p], b),
            Entry("spend", k, -Price[p], b + Price[p]) >>
    ELSE << Entry("spend", k, -Price[p], b) >>

\* The wallet rows a purchase of p adds: the missing points if the balance
\* is short, then the debit.
PurchaseEntries(k, p) ==
    LET b == balance[k.user] IN
    IF b < Price[p]
    THEN << Entry("auto_credit", k, Price[p] - b, b),
            Entry("spend", k, -Price[p], Price[p]) >>
    ELSE << Entry("spend", k, -Price[p], b) >>

\* No product_grants row of this payment.
NotGranted(k) == k \notin DOMAIN grants

GrantGoods(auto) ==
    LET k == Current
        p == payments[k].amount
    IN
    /\ http.pc = "goods"
    /\ NotGranted(k)
    /\ balance[k.user] >= Price[p] \/ auto
    /\ balance' = [balance EXCEPT ![k.user] =
                     IF @ < Price[p] THEN 0 ELSE @ - Price[p]]
    /\ walletLog' = [walletLog EXCEPT ![k.user] = @ \o PurchaseEntries(k, p)]
    /\ grants' = Put(grants, k,
                     [product |-> p, first |-> FirstGoods(k.user, p)])
    /\ payments' = [payments EXCEPT ![k].status = "completed"]
    /\ acked' = acked \cup {k}
    /\ http' = Idle
    /\ UNCHANGED gameTables

\* Already granted: the status stays what record_payment_order made it.
GoodsAlreadyGranted ==
    /\ http.pc = "goods"
    /\ Current \in DOMAIN grants
    /\ acked' = acked \cup {Current}
    /\ http' = Idle
    /\ UNCHANGED <<payments, wallet, grants, gameTables>>

\* Mutant of InsufficientBalance: the balance is compared before the grant is
\* looked up.
InsufficientFirst(auto) ==
    /\ http.pc = "goods"
    /\ balance[Current.user] < Price[payments[Current].amount]
    /\ ~auto
    /\ payments' = [payments EXCEPT ![Current].status = "insufficient_balance"]
    /\ http' = Idle
    /\ UNCHANGED <<wallet, grants, gameTables, acked>>

InsufficientBalance(auto) ==
    LET k == Current IN
    /\ http.pc = "goods"
    /\ NotGranted(k)
    /\ balance[k.user] < Price[payments[k].amount]
    /\ ~auto
    /\ payments' = [payments EXCEPT ![k].status = "insufficient_balance"]
    /\ http' = Idle
    /\ UNCHANGED <<wallet, grants, gameTables, acked>>

-----------------------------------------------------------------------------

\* Mutant of FirstDiamonds: every payment is the first.
FirstAnyway(r, p) == TRUE

\* settle_game_payment: no prior diamond transaction of this product for
\* this role.
FirstDiamonds(r, p) ==
    \A o \in DOMAIN diamondTxns :
        ~(diamondTxns[o].role = r /\ diamondTxns[o].product = p)

\* The role row with its new diamonds.
Credited(role, after) == [role EXCEPT !.diamond = after, !.version = @ + 1]

\* Mutant of PaidBy: the order does not learn who paid it.
PaidByNobody(order, k) == order

\* The game order's row, completed by the payment k.
PaidBy(order, k) == [order EXCEPT !.payment = {k}]

\* settle_game_payment, an order not settled yet: one transaction credits
\* the role, logs the transaction, completes both orders, and queues the
\* event that tells the client.
GrantDiamonds ==
    LET k == Current
        o == http.order
        r == gameOrders[o].role
        p == gameOrders[o].product
        first == FirstDiamonds(r, p)
        after == roles[r].diamond + Quantity[p] + (IF first THEN Bonus[p] ELSE 0)
    IN
    /\ http.pc = "game"
    /\ o \notin DOMAIN diamondTxns
    /\ gameOrders[o].user = k.user
    /\ gameOrders[o].payment \subseteq {k}
    /\ roles' = [roles EXCEPT ![r] = Credited(@, after)]
    /\ diamondTxns' = Put(diamondTxns, o,
         [role |-> r, payment |-> k, product |-> p, first |-> first,
          before |-> roles[r].diamond, after |-> after])
    /\ gameOrders' = [gameOrders EXCEPT ![o] = PaidBy(@, k)]
    /\ payments' = [payments EXCEPT ![k].status = "completed"]
    /\ events' = Put(events, o,
         [role |-> r, version |-> roles[r].version + 1, status |-> "pending"])
    /\ acked' = acked \cup {k}
    /\ http' = Idle
    /\ UNCHANGED <<wallet, grants>>

\* settle_game_payment's own "rejected" returns (another account's order, an
\* order that carries another payment) have no action: SettlementNeverRejects
\* below states that they are never taken.

\* settle_game_payment, an order settled before: whichever payment asks, it
\* is completed and nothing is granted.
DiamondsAlreadyGranted ==
    /\ http.pc = "game"
    /\ http.order \in DOMAIN diamondTxns
    /\ gameOrders[http.order].user = Current.user
    /\ payments' = [payments EXCEPT ![Current].status = "completed"]
    /\ acked' = acked \cup {Current}
    /\ http' = Idle
    /\ UNCHANGED <<wallet, grants, gameTables>>

\* The HTTP process dies between two transactions and is started again: the
\* tables keep what was committed, the client gets no answer.
HttpCrash ==
    /\ http # Idle
    /\ http' = Idle
    /\ UNCHANGED <<payments, wallet, grants, gameTables, acked>>

-----------------------------------------------------------------------------

\* create_game_order, run by the game TCP server for the role's account of
\* the moment.  (A number already taken changes nothing.)
CreateGameOrder(r, o, p) ==
    /\ o \notin DOMAIN gameOrders
    /\ gameOrders' = Put(gameOrders, o,
         [role |-> r, user |-> roles[r].user, product |-> p, payment |-> {}])
    /\ UNCHANGED <<payments, wallet, grants, diamondTxns, events, roles,
                   http, acked>>

\* ensure_game_role on a role that exists: it follows the account that
\* logged in and keeps its game state.
RebindRole(r, u) ==
    /\ u # roles[r].user
    /\ roles' = [roles EXCEPT ![r].user = u]
    /\ UNCHANGED <<payments, wallet, grants, gameOrders, diamondTxns, events,
                   http, acked>>

\* merge_game_state and update_game_role_progress, run by a gameplay handler of
\* the game TCP server: the diamonds it computed from the row as it had read
\* it, and the version after the one of then.  Settlements may have been
\* committed since, and are overwritten.  (RoleState has what a handler
\* computes, and when.)
MergeGameState(r, d, v) ==
    /\ v <= roles[r].version + 1
    /\ roles' = [roles EXCEPT ![r].diamond = d, ![r].version = v]
    /\ UNCHANGED <<payments, wallet, grants, gameOrders, diamondTxns, events,
                   http, acked>>

\* No wallet row has this reference key, of whichever account.
Unused(u, ref) ==
    \A v \in User : \A i \in 1..Len(walletLog[v]) :
        ~(walletLog[v][i].kind = "credit" /\ walletLog[v][i].ref = ref)

\* credit_wallet, run by the command line tool; a reference key used before
\* changes nothing.
CreditWallet(u, ref) ==
    /\ Unused(u, ref)
    /\ balance' = [balance EXCEPT ![u] = @ + CreditAmount[ref]]
    /\ walletLog' = [walletLog EXCEPT ![u] =
          Append(@, Entry("credit", ref, CreditAmount[ref], balance[u]))]
    /\ UNCHANGED <<payments, grants, gameTables, http, acked>>

-----------------------------------------------------------------------------

Init ==
    /\ payments = << >>
    /\ balance = [u \in User |-> 0]
    /\ walletLog = [u \in User |-> << >>]
    /\ grants = << >>
    /\ gameOrders = << >>
    /\ diamondTxns = << >>
    /\ events = << >>
    /\ \E owner \in [Role -> User] :
         roles = [r \in Role |-> [user |-> owner[r],
                                  diamond |-> InitialDiamond[r], version |-> 0]]
    /\ http = Idle
    /\ acked = {}

FindGameOrder ==
    FindMatchingOrder \/ FindMismatchedOrder \/ FindNoOrder \/ FindNothing

SettlePaymentOrder ==
    \/ GoodsAlreadyGranted
    \/ \E auto \in AutoCredit : GrantGoods(auto) \/ InsufficientBalance(auto)

SettleGamePayment == GrantDiamonds \/ DiamondsAlreadyGranted

\* The HTTP process.
CreateSpend ==
    \/ \E q \in Request : RecordPaymentOrder(q)
    \/ FindGameOrder
    \/ SettlePaymentOrder
    \/ SettleGamePayment
    \/ MarkPaymentOrderRejected

\* The game TCP server and the command line tool.
OtherProcesses ==
    \/ \E r \in Role, o \in OrderNo, p \in Product : CreateGameOrder(r, o, p)
    \/ \E r \in Role, u \in User : RebindRole(r, u)
    \/ \E r \in Role, d \in PlayedDiamond, v \in 1..PlayedVersion : MergeGameState(r, d, v)
    \/ \E u \in User, ref \in CreditRef : CreditWallet(u, ref)

Next == CreateSpend \/ HttpCrash \/ OtherProcesses

Spec == Init /\ [][Next]_vars

\* The HTTP process runs the handler it is in; a client repeats its request
\* until it is answered; and the process, started again after a crash, does
\* not die at the same step of the same request for ever.
FairSpec ==
    /\ Spec
    /\ WF_vars(FindGameOrder \/ SettlePaymentOrder \/ SettleGamePayment
               \/ MarkPaymentOrderRejected)
    /\ \A q \in Request :
         /\ SF_vars(RecordPaymentOrder(q))
         /\ SF_vars(FindGameOrder /\ http.req = q)
         /\ SF_vars((SettlePaymentOrder \/ SettleGamePayment) /\ http.req = q)

-----------------------------------------------------------------------------
(* Properties *)

Status == {"unresolved", "duplicate", "insufficient_balance", "completed",
           "rejected"}
PaymentRow == [num: Num \cup {NoNum}, extra: Extra, amount: Amount, status: Status]
WalletRow == [kind: {"credit", "auto_credit", "spend"}, ref: PayKey \cup CreditRef,
              amount: Int, before: Int, after: Int]
GrantRow == [product: Product, first: BOOLEAN]
OrderRow == [role: Role, user: User, product: Product, payment: SUBSET PayKey]
DiamondRow == [role: Role, payment: PayKey, product: Product, first: BOOLEAN,
               before: Nat, after: Nat]
EventRow == [role: Role, version: Nat, status: {"pending"}]
RoleRow == [user: User, diamond: Nat, version: Nat]
Working == [pc: {"find", "goods", "game", "reject"}, req: Request,
            order: OrderNo \cup {NoNum}]

\* Type correctness: every table holds rows of its schema, and every key the
\* rows refer to (a REFERENCES clause) is a row of the table it refers to.
TypeOK ==
    /\ DOMAIN payments \subseteq PayKey
    /\ \A k \in DOMAIN payments : payments[k] \in PaymentRow
    /\ balance \in [User -> Int]
    /\ walletLog \in [User -> Seq(WalletRow)]
    /\ DOMAIN grants \subseteq DOMAIN payments
    /\ \A k \in DOMAIN grants : grants[k] \in GrantRow
    /\ DOMAIN gameOrders \subseteq OrderNo
    /\ \A o \in DOMAIN gameOrders : gameOrders[o] \in OrderRow
    /\ DOMAIN diamondTxns \subseteq DOMAIN gameOrders
    /\ \A o \in DOMAIN diamondTxns :
         /\ diamondTxns[o] \in DiamondRow
         /\ diamondTxns[o].payment \in DOMAIN payments
    /\ DOMAIN events \subseteq DOMAIN gameOrders
    /\ \A o \in DOMAIN events : events[o] \in EventRow
    /\ roles \in [Role -> RoleRow]
    /\ http = Idle \/ (http \in Working /\ Current \in DOMAIN payments)
    /\ http.pc = "goods" => payments[Current].amount \in Product
    /\ http.pc = "game" => http.order \in DOMAIN gameOrders
    /\ acked \subseteq DOMAIN payments

\* The wallet is the end of its own ledger: every row starts where the row
\* before it ended, the first one at nothing, no row leaves a debt, and the
\* last one ends at the balance.  settle_payment_order and credit_wallet,
\* run by two processes, both read the balance and write it back.
LedgerChain ==
    \A u \in User :
      LET log == walletLog[u]
          n == Len(log)
      IN /\ \A i \in 1..n :
              /\ log[i].before = (IF i = 1 THEN 0 ELSE log[i - 1].after)
              /\ log[i].after = log[i].before + log[i].amount
              /\ log[i].after >= 0
         /\ balance[u] = (IF n = 0 THEN 0 ELSE log[n].after)

\* The G points of an account are debited for what it is granted, and only
\* for that: every debit is of a grant of this account at its price, and
\* every grant has its debit.
DebitPerGrant ==
    /\ \A u \in User : \A i \in 1..Len(walletLog[u]) :
         LET e == walletLog[u][i] IN
         e.kind = "spend" => /\ e.ref \in DOMAIN grants
                             /\ e.ref.user = u
                             /\ e.amount = -Price[grants[e.ref].product]
    /\ \A k \in DOMAIN grants : \E i \in 1..Len(walletLog[k.user]) :
         /\ walletLog[k.user][i].kind = "spend"
         /\ walletLog[k.user][i].ref = k

\* The automatic top-up is never left in the wallet: the row after it is the
\* debit of the same payment, which takes everything.
AutoCreditIsSpent ==
    \A u \in User : \A i \in 1..Len(walletLog[u]) :
      LET log == walletLog[u] IN
      log[i].kind = "auto_credit" =>
        /\ i < Len(log)
        /\ log[i + 1].kind = "spend"
        /\ log[i + 1].ref = log[i].ref
        /\ log[i + 1].after = 0

\* The first purchase bonus is given once per account and product, and the
\* diamond bonus once per role and product: whichever purchase came first
\* has it and no other does, however payments, retries and role rebinding
\* interleave.
FirstBonusOnce ==
    /\ \A k, l \in DOMAIN grants :
         /\ k.user = l.user /\ grants[k].product = grants[l].product
         /\ grants[k].first /\ grants[l].first
         => k = l
    /\ \A o, q \in DOMAIN diamondTxns :
         /\ diamondTxns[o].role = diamondTxns[q].role
         /\ diamondTxns[o].product = diamondTxns[q].product
         /\ diamondTxns[o].first /\ diamondTxns[q].first
         => o = q

\* A product bought at all was bought a first time: dropping the bonus for
\* everyone would be as wrong as giving it twice.
FirstBonusGiven ==
    /\ \A k \in DOMAIN grants : \E l \in DOMAIN grants :
         /\ l.user = k.user /\ grants[l].product = grants[k].product
         /\ grants[l].first
    /\ \A o \in DOMAIN diamondTxns : \E q \in DOMAIN diamondTxns :
         /\ diamondTxns[q].role = diamondTxns[o].role
         /\ diamondTxns[q].product = diamondTxns[o].product
         /\ diamondTxns[q].first

\* The four tables a diamond settlement writes agree about every order: a
\* completed order names the payment of its transaction, that payment is of
\* the account the order was made for, and the event that will tell the
\* client is there with it.
OrderSettledWhole ==
    /\ DOMAIN events = DOMAIN diamondTxns
    /\ \A o \in DOMAIN gameOrders :
         gameOrders[o].payment =
           IF o \in DOMAIN diamondTxns THEN {diamondTxns[o].payment} ELSE {}
    /\ \A o \in DOMAIN diamondTxns :
         LET t == diamondTxns[o] IN
         /\ t.role = gameOrders[o].role /\ t.role = events[o].role
         /\ t.product = gameOrders[o].product
         /\ t.payment.user = gameOrders[o].user

\* A payment order settles at most one game order: the UNIQUE payment_order_id
\* of game_diamond_transactions never fires.
PaymentSettlesOneOrder ==
    \A o, q \in DOMAIN diamondTxns :
        diamondTxns[o].payment = diamondTxns[q].payment => o = q

\* One payment is never turned into both a product grant and diamonds, even
\* when it is retried after its first request settled.
OneKindOfGoods ==
    \A o \in DOMAIN diamondTxns : diamondTxns[o].payment \notin DOMAIN grants

\* settle_game_payment is only called on an order it will not reject.
SettlementNeverRejects ==
    http.pc = "game" =>
        /\ gameOrders[http.order].user = Current.user
        /\ http.order \in DOMAIN diamondTxns \/ gameOrders[http.order].payment = {}

NumbersIssued ==
    \A k \in DOMAIN payments :
        Supplied(payments[k]) \cap OrderNo \subseteq DOMAIN gameOrders
SettledByName ==
    \A o \in DOMAIN diamondTxns : Supplied(payments[diamondTxns[o].payment]) = {o}
GoodsHaveNoOrder == \A k \in DOMAIN grants : Candidates(k) = {}
WorkOnTheRightOrder ==
    /\ http.pc = "game" => /\ Supplied(payments[Current]) = {http.order}
                           /\ gameOrders[http.order].user = Current.user
    /\ http.pc = "goods" => Candidates(Current) = {}

\* Why a game order is settled once, whole, and by one payment: every number
\* a payment supplies was issued before, a settled order's payment supplies
\* that number and no other, and a payment granted goods, or about to be, has
\* no order, nor will it get one.  OrderIInv is inductive.
OrderIInv ==
    /\ OrderSettledWhole
    /\ NumbersIssued
    /\ SettledByName
    /\ GoodsHaveNoOrder
    /\ WorkOnTheRightOrder

\* The payment has its goods, or an order of its account that it names has
\* its diamonds.
Entitled(k) ==
    \/ k \in DOMAIN grants
    \/ \E o \in DOMAIN diamondTxns :
         /\ gameOrders[o].user = k.user
         /\ Supplied(payments[k]) = {o}

\* What the client is told is what is stored: a payment answered with
\* success has its goods or its diamonds, unless it never had a price.
AckedIsGranted ==
    \A k \in acked : Entitled(k) \/ payments[k].amount = NoProduct

\* The stored payment k matches a game order at the amount requested, or has
\* no order and a price.
Deserves(k, amount) ==
    IF Candidates(k) = {} THEN payments[k].amount \in Product
    ELSE \E o \in Candidates(k) : Acceptable(o, payments[k], amount)

\* The goods of a request that was received once are granted in the end,
\* whichever step of create_spend a crash interrupted and however many
\* duplicates came before: record_payment_order's "duplicate" never stops a
\* settlement.  (Under FairSpec and automatic top-up.)
RetriesSettle ==
    \A q \in Request :
        Key(q) \in {k \in DOMAIN payments : Deserves(k, q.amount)}
        ~> Key(q) \in {k \in DOMAIN payments : Entitled(k)}

\* A status that reports an outcome is true: completed means granted, and
\* insufficient_balance means not granted.
StatusTrue ==
    \A k \in DOMAIN payments :
        /\ payments[k].status = "completed" => Entitled(k)
        /\ payments[k].status = "insufficient_balance" => ~Entitled(k)

\* The variables of Settlement, read off the tables.
Placed ==
    [o \in DOMAIN gameOrders |->
        [role |-> gameOrders[o].role, user |-> gameOrders[o].user,
         product |-> gameOrders[o].product]]
Settled == [o \in DOMAIN diamondTxns |-> diamondTxns[o].payment]
Diamond == [r \in Role |-> roles[r].diamond]

Promise == INSTANCE Settlement WITH
    Order <- OrderNo,
    Payment <- {Key(q) : q \in Request},
    placed <- Placed,
    settled <- Settled,
    goods <- grants,
    diamond <- Diamond

\* Whatever is retried, rebound, played or interrupted between the transactions
\* of create_spend, the tables go through nothing but placing an order, settling
\* it by one unspent payment of its account, which adds its worth to whatever
\* diamonds the role has then, delivering goods, and playing.
ImplementsSettlement == Promise!Spec

=============================================================================
