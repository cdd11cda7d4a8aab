--------------------------- MODULE PaymentsProofs ---------------------------
(***************************************************************************)
(* Proofs about Payments, for every set of accounts, roles, products and   *)
(* requests: what a payment does and how often; that what the client is    *)
(* answered and what its status says are true, and that all that its       *)
(* transactions do is what Settlement promises, whatever the game writes   *)
(* in between; and that the wallet is the end of its own ledger.           *)
(***************************************************************************)
EXTENDS Payments, SequenceTheorems, TLAPS

\* The key of a request is a key of payment_orders.
LEMMA KeyType == \A q \in Request : Key(q) \in PayKey /\ Key(q).user = q.user
  BY RequestAssumption DEF Key, PayKey, Body

\* While a request is served, its row is there.
LEMMA CurrentRow ==
    ASSUME TypeOK, http.pc \in {"find", "goods", "game", "reject"}
    PROVE  /\ http \in Working
           /\ Current \in DOMAIN payments
           /\ Current \in PayKey
           /\ payments[Current] \in PaymentRow
  BY DEF TypeOK, Idle, Working

\* A row whose status changes keeps its other columns.
LEMMA RowStatus ==
    ASSUME NEW row \in PaymentRow, NEW s \in Status
    PROVE  /\ [row EXCEPT !.status = s] \in PaymentRow
           /\ [row EXCEPT !.status = s].num = row.num
           /\ [row EXCEPT !.status = s].extra = row.extra
           /\ [row EXCEPT !.status = s].amount = row.amount
           /\ [row EXCEPT !.status = s].status = s
  BY DEF PaymentRow

\* Each row of payments keeps its type when only its status changes.
LEMMA StatusChange ==
    ASSUME TypeOK, NEW k \in DOMAIN payments, NEW s \in Status,
           payments' = [payments EXCEPT ![k].status = s]
    PROVE  /\ DOMAIN payments' = DOMAIN payments
           /\ \A j \in DOMAIN payments :
                /\ payments'[j] \in PaymentRow
                /\ payments'[j].num = payments[j].num
                /\ payments'[j].extra = payments[j].extra
                /\ payments'[j].amount = payments[j].amount
                /\ j # k => payments'[j] = payments[j]
           /\ payments'[k].status = s
<1>1. DOMAIN payments' = DOMAIN payments
  OBVIOUS
<1>2. payments[k] \in PaymentRow
  BY DEF TypeOK
<1>3. payments'[k] = [payments[k] EXCEPT !.status = s]
  OBVIOUS
<1>4. \A j \in DOMAIN payments : j # k => payments'[j] = payments[j]
  OBVIOUS
<1>5. \A j \in DOMAIN payments : payments[j] \in PaymentRow
  BY DEF TypeOK
<1>6. /\ payments'[k] \in PaymentRow
      /\ payments'[k].num = payments[k].num
      /\ payments'[k].extra = payments[k].extra
      /\ payments'[k].amount = payments[k].amount
      /\ payments'[k].status = s
  BY <1>2, <1>3, RowStatus
<1> QED
  BY <1>1, <1>4, <1>5, <1>6

\* A transaction that ends the request and changes no more than the status
\* of its row keeps every table well typed.
LEMMA StatusStep ==
    ASSUME TypeOK, NEW k \in DOMAIN payments, NEW s \in Status,
           payments' = [payments EXCEPT ![k].status = s],
           http' = Idle, acked' \subseteq DOMAIN payments,
           UNCHANGED <<wallet, grants, gameTables>>
    PROVE  TypeOK'
<1>1. /\ DOMAIN payments' = DOMAIN payments
      /\ \A j \in DOMAIN payments : payments'[j] \in PaymentRow
  BY StatusChange
<1> QED
  BY <1>1 DEF TypeOK, wallet, gameTables, Idle

LEMMA EntryType ==
    ASSUME NEW kind \in {"credit", "auto_credit", "spend"},
           NEW ref \in PayKey \cup CreditRef, NEW a \in Int, NEW b \in Int
    PROVE  Entry(kind, ref, a, b) \in WalletRow
<1>1. b + a \in Int
  OBVIOUS
<1> QED
  BY <1>1 DEF Entry, WalletRow

\* A purchase adds wallet rows, and never more than it can pay.
LEMMA PurchaseType ==
    ASSUME NEW k \in PayKey, NEW p \in Product, balance \in [User -> Int]
    PROVE  PurchaseEntries(k, p) \in Seq(WalletRow)
<1> DEFINE b == balance[k.user]
<1>1. b \in Int /\ Price[p] \in Int
  BY CatalogAssumption DEF PayKey
<1>2. /\ Entry("auto_credit", k, Price[p] - b, b) \in WalletRow
      /\ Entry("spend", k, -Price[p], Price[p]) \in WalletRow
      /\ Entry("spend", k, -Price[p], b) \in WalletRow
  <2>1. Price[p] - b \in Int /\ -Price[p] \in Int /\ k \in PayKey \cup CreditRef
    BY <1>1
  <2> HIDE DEF b
  <2> QED
    BY <1>1, <2>1, EntryType
<1> QED
  BY <1>2 DEF PurchaseEntries

-----------------------------------------------------------------------------

\* Every action keeps the tables well typed.
LEMMA TypeStep == TypeOK /\ [Next]_vars => TypeOK'
<1> SUFFICES ASSUME TypeOK, [Next]_vars PROVE TypeOK'
  OBVIOUS
<1> USE CatalogAssumption, NumberAssumption, AmountAssumption
<1>1. ASSUME NEW q \in Request, RecordPaymentOrder(q) PROVE TypeOK'
  <2> DEFINE k == Key(q)
             fresh == [num |-> q.num, extra |-> q.extra, amount |-> q.amount,
                       status |-> "unresolved"]
             again == [payments[k] EXCEPT !.status = "duplicate"]
             row == IF k \in DOMAIN payments THEN again ELSE fresh
  <2>1. k \in PayKey
    BY KeyType
  <2>2. fresh \in PaymentRow
    BY RequestAssumption DEF PaymentRow, Status
  <2>3. k \in DOMAIN payments => again \in PaymentRow
    BY RowStatus DEF TypeOK, Status
  <2>4. row \in PaymentRow /\ payments' = Put(payments, k, row)
    BY <1>1, <2>2, <2>3 DEF RecordPaymentOrder
  <2>5. http' = [pc |-> "find", req |-> q, order |-> NoNum]
    BY <1>1 DEF RecordPaymentOrder
  <2> HIDE DEF k, row
  <2>6. /\ DOMAIN payments' = DOMAIN payments \cup {k}
        /\ payments'[k] \in PaymentRow
        /\ \A j \in DOMAIN payments : j # k => payments'[j] = payments[j]
    BY <2>4 DEF Put
  <2>0. http'.req = q /\ Current' = k
    BY <2>5 DEF Current, k
  <2>7. http' \in Working /\ Current' = k /\ http'.pc = "find"
    BY <2>5, <2>0 DEF Working
  <2>8. UNCHANGED <<wallet, grants, gameTables, acked>>
    BY <1>1 DEF RecordPaymentOrder
  <2> QED
    BY <2>1, <2>6, <2>7, <2>8 DEF TypeOK, wallet, gameTables, Idle
<1>2. CASE FindMatchingOrder
  <2>1. /\ http' \in Working /\ Current' = Current
        /\ Current \in DOMAIN payments /\ http'.pc = "game"
        /\ http'.order \in DOMAIN gameOrders
    BY <1>2, CurrentRow DEF FindMatchingOrder, Candidates, TypeOK, Working, Current
  <2>2. UNCHANGED <<payments, wallet, grants, gameTables, acked>>
    BY <1>2 DEF FindMatchingOrder
  <2> QED
    BY <2>1, <2>2 DEF TypeOK, wallet, gameTables
<1>3. CASE FindMismatchedOrder
  <2>1. /\ http' \in Working /\ Current' = Current
        /\ Current \in DOMAIN payments /\ http'.pc = "reject"
    BY <1>3, CurrentRow DEF FindMismatchedOrder, Candidates, TypeOK, Working, Current
  <2>2. UNCHANGED <<payments, wallet, grants, gameTables, acked>>
    BY <1>3 DEF FindMismatchedOrder
  <2> QED
    BY <2>1, <2>2 DEF TypeOK, wallet, gameTables
<1>4. CASE FindNoOrder
  <2>1. /\ http' \in Working /\ Current' = Current
        /\ Current \in DOMAIN payments /\ http'.pc = "goods"
        /\ payments[Current].amount \in Product
    BY <1>4, CurrentRow DEF FindNoOrder, Candidates, TypeOK, Working, Current
  <2>2. UNCHANGED <<payments, wallet, grants, gameTables, acked>>
    BY <1>4 DEF FindNoOrder
  <2> QED
    BY <2>1, <2>2 DEF TypeOK, wallet, gameTables
<1>5. CASE FindNothing
  BY <1>5, CurrentRow DEF FindNothing, TypeOK, wallet, gameTables, Idle
<1>6. CASE MarkPaymentOrderRejected
  <2>1. "rejected" \in Status
    BY DEF Status
  <2>2. acked' \subseteq DOMAIN payments
    BY <1>6, CurrentRow DEF MarkPaymentOrderRejected, TypeOK
  <2> QED
    BY <1>6, <2>1, <2>2, CurrentRow, StatusStep DEF MarkPaymentOrderRejected
<1>7. ASSUME NEW auto \in AutoCredit, GrantGoods(auto) PROVE TypeOK'
  <2> DEFINE k == Current
             p == payments[k].amount
  <2>1. /\ k \in DOMAIN payments /\ k \in PayKey /\ k.user \in User
        /\ p \in Product
    BY <1>7, CurrentRow DEF GrantGoods, PayKey, TypeOK
  <2>2. balance' \in [User -> Int]
    <3>1. Price[p] \in Int
      BY <2>1
    <3> QED
      BY <1>7, <2>1, <3>1 DEF GrantGoods, TypeOK
  <2>3. walletLog' \in [User -> Seq(WalletRow)]
    <3>1. PurchaseEntries(k, p) \in Seq(WalletRow)
      BY <2>1, PurchaseType DEF TypeOK
    <3>2. walletLog' = [walletLog EXCEPT ![k.user] = @ \o PurchaseEntries(k, p)]
      BY <1>7 DEF GrantGoods
    <3> HIDE DEF k, p
    <3> QED
      BY <2>1, <3>1, <3>2 DEF TypeOK
  <2>4. /\ DOMAIN grants' = DOMAIN grants \cup {k}
        /\ \A j \in DOMAIN grants' : grants'[j] \in GrantRow
    <3> DEFINE row == [product |-> p, first |-> FirstGoods(k.user, p)]
    <3>1. row \in GrantRow
      BY <2>1 DEF GrantRow, FirstGoods
    <3>2. grants' = Put(grants, k, row)
      BY <1>7 DEF GrantGoods
    <3> HIDE DEF row
    <3> QED
      BY <3>1, <3>2, TypeOK DEF TypeOK, Put
  <2>5. /\ DOMAIN payments' = DOMAIN payments
        /\ \A j \in DOMAIN payments' : payments'[j] \in PaymentRow
    BY <1>7, <2>1, StatusChange DEF GrantGoods, Status
  <2>6. http' = Idle /\ acked' = acked \cup {k} /\ UNCHANGED gameTables
    BY <1>7 DEF GrantGoods
  <2> HIDE DEF k, p
  <2> QED
    BY <2>1, <2>2, <2>3, <2>4, <2>5, <2>6 DEF TypeOK, gameTables, Idle
<1>8. CASE GoodsAlreadyGranted
  <2>1. acked' \subseteq DOMAIN payments
    BY <1>8, CurrentRow DEF GoodsAlreadyGranted, TypeOK
  <2> QED
    BY <1>8, <2>1 DEF GoodsAlreadyGranted, TypeOK, wallet, gameTables, Idle
<1>9. ASSUME NEW auto \in AutoCredit, InsufficientBalance(auto) PROVE TypeOK'
  <2>1. "insufficient_balance" \in Status
    BY DEF Status
  <2>2. acked' \subseteq DOMAIN payments
    BY <1>9, CurrentRow DEF InsufficientBalance, TypeOK
  <2> QED
    BY <1>9, <2>1, <2>2, CurrentRow, StatusStep DEF InsufficientBalance
<1>10. CASE GrantDiamonds
  <2> DEFINE k == Current
             o == http.order
             r == gameOrders[o].role
             p == gameOrders[o].product
             first == FirstDiamonds(r, p)
             after == roles[r].diamond + Quantity[p]
                      + (IF first THEN Bonus[p] ELSE 0)
             txn == [role |-> r, payment |-> k, product |-> p, first |-> first,
                     before |-> roles[r].diamond, after |-> after]
             event == [role |-> r, version |-> roles[r].version + 1,
                       status |-> "pending"]
  <2>1. k \in DOMAIN payments /\ k \in PayKey
    BY <1>10, CurrentRow DEF GrantDiamonds
  <2>2. /\ o \in DOMAIN gameOrders
        /\ r \in Role /\ p \in Product
        /\ gameOrders[o] \in OrderRow
    BY <1>10 DEF GrantDiamonds, TypeOK, OrderRow
  <2>3. roles[r] \in RoleRow /\ after \in Nat
    <3>1. roles[r].diamond \in Nat /\ roles[r] \in RoleRow
      BY <2>2 DEF TypeOK, RoleRow
    <3>2. Quantity[p] \in Nat /\ Bonus[p] \in Nat
      BY <2>2
    <3> HIDE DEF r, p, first
    <3> QED
      BY <3>1, <3>2
  <2>4. txn \in DiamondRow
    <3>1. first \in BOOLEAN
      BY DEF FirstDiamonds
    <3>2. roles[r].diamond \in Nat
      BY <2>3 DEF RoleRow
    <3> HIDE DEF k, r, p, first, after
    <3> QED
      BY <2>1, <2>2, <2>3, <3>1, <3>2 DEF DiamondRow
  <2>5. event \in EventRow
    BY <2>2, <2>3 DEF EventRow, RoleRow
  <2>6. diamondTxns' = Put(diamondTxns, o, txn) /\ events' = Put(events, o, event)
    BY <1>10 DEF GrantDiamonds
  <2>7. roles' \in [Role -> RoleRow]
    <3>1. [roles[r] EXCEPT !.diamond = after, !.version = @ + 1] \in RoleRow
      <4>1. roles[r].version + 1 \in Nat
        BY <2>3 DEF RoleRow
      <4> HIDE DEF r, after
      <4> QED
        BY <2>3, <4>1 DEF RoleRow
    <3>2. roles' = [roles EXCEPT ![r] =
                      [roles[r] EXCEPT !.diamond = after, !.version = @ + 1]]
      BY <1>10, <2>2 DEF GrantDiamonds, TypeOK, Credited
    <3> HIDE DEF r, after
    <3> QED
      BY <2>2, <3>1, <3>2 DEF TypeOK
  <2>8. /\ DOMAIN gameOrders' = DOMAIN gameOrders
        /\ \A q \in DOMAIN gameOrders' : gameOrders'[q] \in OrderRow
    <3>1. gameOrders' = [gameOrders EXCEPT ![o] = [gameOrders[o] EXCEPT !.payment = {k}]]
      BY <1>10 DEF GrantDiamonds, PaidBy
    <3>2. [gameOrders[o] EXCEPT !.payment = {k}] \in OrderRow
      <4> HIDE DEF k, o
      <4> QED
        BY <2>1, <2>2 DEF OrderRow
    <3> HIDE DEF k, o
    <3> QED
      BY <2>2, <3>1, <3>2 DEF TypeOK
  <2>9. /\ DOMAIN payments' = DOMAIN payments
        /\ \A j \in DOMAIN payments' : payments'[j] \in PaymentRow
    BY <1>10, <2>1, StatusChange DEF GrantDiamonds, Status
  <2>10. http' = Idle /\ acked' = acked \cup {k} /\ UNCHANGED <<wallet, grants>>
    BY <1>10 DEF GrantDiamonds
  <2> HIDE DEF k, o, txn, event
  <2>11. /\ DOMAIN diamondTxns' = DOMAIN diamondTxns \cup {o}
         /\ \A q \in DOMAIN diamondTxns' :
              /\ diamondTxns'[q] \in DiamondRow
              /\ diamondTxns'[q].payment \in DOMAIN payments
    <3>1. txn.payment = k
      BY DEF txn
    <3> QED
      BY <2>1, <2>4, <2>6, <3>1, TypeOK DEF TypeOK, Put
  <2>12. /\ DOMAIN events' = DOMAIN events \cup {o}
         /\ \A q \in DOMAIN events' : events'[q] \in EventRow
    BY <2>5, <2>6, TypeOK DEF TypeOK, Put
  <2> QED
    BY <2>1, <2>2, <2>7, <2>8, <2>9, <2>10, <2>11, <2>12
       DEF TypeOK, wallet, Idle
<1>11. CASE DiamondsAlreadyGranted
  <2>1. "completed" \in Status
    BY DEF Status
  <2>2. acked' \subseteq DOMAIN payments
    BY <1>11, CurrentRow DEF DiamondsAlreadyGranted, TypeOK
  <2> QED
    BY <1>11, <2>1, <2>2, CurrentRow, StatusStep DEF DiamondsAlreadyGranted
<1>12. CASE HttpCrash
  BY <1>12 DEF HttpCrash, TypeOK, wallet, gameTables, Idle
<1>13. ASSUME NEW r \in Role, NEW o \in OrderNo, NEW p \in Product,
              CreateGameOrder(r, o, p)
       PROVE  TypeOK'
  <2> DEFINE row == [role |-> r, user |-> roles[r].user, product |-> p,
                     payment |-> {}]
  <2>1. row \in OrderRow
    BY DEF OrderRow, TypeOK, RoleRow
  <2>2. gameOrders' = Put(gameOrders, o, row)
    BY <1>13 DEF CreateGameOrder
  <2> HIDE DEF row
  <2>3. /\ DOMAIN gameOrders' = DOMAIN gameOrders \cup {o}
        /\ \A q \in DOMAIN gameOrders' : gameOrders'[q] \in OrderRow
    BY <2>1, <2>2, TypeOK DEF TypeOK, Put
  <2>4. UNCHANGED <<payments, wallet, grants, diamondTxns, events, roles, http, acked>>
    BY <1>13 DEF CreateGameOrder
  <2> QED
    BY <2>3, <2>4 DEF TypeOK, wallet, Current
<1>14. ASSUME NEW r \in Role, NEW u \in User, RebindRole(r, u) PROVE TypeOK'
  <2>1. roles' \in [Role -> RoleRow]
    <3>1. roles[r] \in RoleRow /\ [roles[r] EXCEPT !.user = u] \in RoleRow
      BY DEF TypeOK, RoleRow
    <3> QED
      BY <1>14, <3>1 DEF RebindRole, TypeOK
  <2>2. UNCHANGED <<payments, wallet, grants, gameOrders, diamondTxns, events,
                    http, acked>>
    BY <1>14 DEF RebindRole
  <2> QED
    BY <2>1, <2>2 DEF TypeOK, wallet, Current
<1>15. ASSUME NEW u \in User, NEW ref \in CreditRef, CreditWallet(u, ref)
       PROVE  TypeOK'
  <2>1. /\ balance[u] \in Int /\ CreditAmount[ref] \in Int
        /\ walletLog[u] \in Seq(WalletRow)
    BY DEF TypeOK
  <2>2. Entry("credit", ref, CreditAmount[ref], balance[u]) \in WalletRow
    BY <2>1, EntryType
  <2>3. balance' \in [User -> Int]
    BY <1>15, <2>1 DEF CreditWallet, TypeOK
  <2>4. walletLog' \in [User -> Seq(WalletRow)]
    BY <1>15, <2>1, <2>2 DEF CreditWallet, TypeOK
  <2>5. UNCHANGED <<payments, grants, gameTables, http, acked>>
    BY <1>15 DEF CreditWallet
  <2> QED
    BY <2>3, <2>4, <2>5 DEF TypeOK, gameTables, Current
<1>16. ASSUME NEW r \in Role, NEW d \in PlayedDiamond, NEW v \in 1..PlayedVersion,
              MergeGameState(r, d, v)
       PROVE  TypeOK'
  <2>1. roles' \in [Role -> RoleRow]
    <3>1. d \in Nat /\ v \in Nat
      BY AmountAssumption
    <3>2. [roles[r] EXCEPT !.diamond = d, !.version = v] \in RoleRow
      BY <3>1 DEF TypeOK, RoleRow
    <3>3. roles' = [roles EXCEPT ![r] = [roles[r] EXCEPT !.diamond = d, !.version = v]]
      BY <1>16 DEF MergeGameState, TypeOK, RoleRow
    <3> QED
      BY <3>2, <3>3 DEF TypeOK
  <2>2. UNCHANGED <<payments, wallet, grants, gameOrders, diamondTxns, events,
                    http, acked>>
    BY <1>16 DEF MergeGameState
  <2> QED
    BY <2>1, <2>2 DEF TypeOK, wallet, Current
<1>17. CASE UNCHANGED vars
  BY <1>17 DEF vars, TypeOK, Current
<1> QED
  BY <1>1, <1>2, <1>3, <1>4, <1>5, <1>6, <1>7, <1>8, <1>9, <1>10, <1>11,
     <1>12, <1>13, <1>14, <1>15, <1>16, <1>17
     DEF Next, CreateSpend, FindGameOrder, SettlePaymentOrder,
         SettleGamePayment, OtherProcesses

\* Type correctness of the payment tables: every row of every table is of its
\* schema and every reference finds its row, whatever the processes do.
THEOREM TypeCorrect == Spec => []TypeOK
<1>1. Init => TypeOK
  <2> SUFFICES ASSUME Init PROVE TypeOK
    OBVIOUS
  <2>1. roles \in [Role -> RoleRow]
    BY AmountAssumption DEF Init, RoleRow
  <2>2. walletLog \in [User -> Seq(WalletRow)]
    BY DEF Init
  <2> QED
    BY <2>1, <2>2 DEF Init, TypeOK, Idle
<1>2. TypeOK /\ [Next]_vars => TypeOK'
  BY TypeStep
<1> QED
  BY <1>1, <1>2, PTL DEF Spec

-----------------------------------------------------------------------------

LEMMA SameNumbers ==
    ASSUME NEW row, NEW old, row.num = old.num, row.extra = old.extra
    PROVE  Supplied(row) = Supplied(old)
  BY DEF Supplied

\* A step that touches no game order, transaction, event or grant, and stores
\* no number that was not issued, keeps what OrderIInv says of the tables.
LEMMA OrderFrame ==
    ASSUME TypeOK, OrderIInv,
           DOMAIN payments \subseteq DOMAIN payments',
           \A k \in DOMAIN payments :
               Supplied(payments'[k]) = Supplied(payments[k]),
           \A k \in DOMAIN payments' \ DOMAIN payments :
               Supplied(payments'[k]) \cap OrderNo \subseteq DOMAIN gameOrders,
           UNCHANGED <<grants, gameOrders, diamondTxns, events>>
    PROVE  /\ OrderSettledWhole' /\ NumbersIssued'
           /\ SettledByName' /\ GoodsHaveNoOrder'
<1>1. OrderSettledWhole'
  BY DEF OrderIInv, OrderSettledWhole
<1>2. NumbersIssued'
  BY DEF OrderIInv, NumbersIssued
<1>3. SettledByName'
  BY DEF OrderIInv, SettledByName, TypeOK
<1>4. GoodsHaveNoOrder'
  BY DEF OrderIInv, GoodsHaveNoOrder, Candidates, TypeOK
<1> QED
  BY <1>1, <1>2, <1>3, <1>4

LEMMA StatusKeepsNumbers ==
    ASSUME TypeOK, NEW k \in DOMAIN payments, NEW s \in Status,
           payments' = [payments EXCEPT ![k].status = s]
    PROVE  /\ DOMAIN payments' = DOMAIN payments
           /\ \A j \in DOMAIN payments :
                Supplied(payments'[j]) = Supplied(payments[j])
<1>1. /\ DOMAIN payments' = DOMAIN payments
      /\ \A j \in DOMAIN payments : /\ payments'[j].num = payments[j].num
                                    /\ payments'[j].extra = payments[j].extra
  BY StatusChange
<1> QED
  BY <1>1, SameNumbers

\* A transaction that only changes the status of the row it works on and
\* ends the request.
LEMMA OrderStatusStep ==
    ASSUME TypeOK, OrderIInv, NEW k \in DOMAIN payments, NEW s \in Status,
           payments' = [payments EXCEPT ![k].status = s],
           http' = Idle,
           UNCHANGED <<grants, gameOrders, diamondTxns, events>>
    PROVE  OrderIInv'
<1>1. /\ DOMAIN payments' = DOMAIN payments
      /\ \A j \in DOMAIN payments : Supplied(payments'[j]) = Supplied(payments[j])
  BY StatusKeepsNumbers
<1>2. WorkOnTheRightOrder'
  BY DEF WorkOnTheRightOrder, Idle
<1> QED
  BY <1>1, <1>2, OrderFrame DEF OrderIInv

\* What record_payment_order leaves in the table.
LEMMA RecordedRow ==
    ASSUME TypeOK, NEW q \in Request, RecordPaymentOrder(q)
    PROVE  LET k == Key(q) IN
           /\ DOMAIN payments' = DOMAIN payments \cup {k}
           /\ \A j \in DOMAIN payments : Supplied(payments'[j]) = Supplied(payments[j])
           /\ k \notin DOMAIN payments =>
                Supplied(payments'[k]) = {q.num, q.extra.orderNo} \ {NoNum}
<1> DEFINE k == Key(q)
           fresh == [num |-> q.num, extra |-> q.extra, amount |-> q.amount,
                     status |-> "unresolved"]
           again == [payments[k] EXCEPT !.status = "duplicate"]
<1>1. payments' = Put(payments, k, IF k \in DOMAIN payments THEN again ELSE fresh)
  BY DEF RecordPaymentOrder
<1>2. k \in DOMAIN payments => Supplied(again) = Supplied(payments[k])
  <2>1. k \in DOMAIN payments => payments[k] \in PaymentRow
    BY DEF TypeOK
  <2>2. "duplicate" \in Status
    BY DEF Status
  <2> QED
    BY <2>1, <2>2, RowStatus, SameNumbers
<1>3. Supplied(fresh) = {q.num, q.extra.orderNo} \ {NoNum}
  BY DEF Supplied
<1> HIDE DEF k, fresh, again
<1>4. DOMAIN payments' = DOMAIN payments \cup {k}
  BY <1>1 DEF Put
<1>5. k \in DOMAIN payments => payments'[k] = again
  BY <1>1 DEF Put
<1>6. k \notin DOMAIN payments => payments'[k] = fresh
  BY <1>1 DEF Put
<1>7. \A j \in DOMAIN payments : j # k => payments'[j] = payments[j]
  BY <1>1 DEF Put
<1>8. \A j \in DOMAIN payments : Supplied(payments'[j]) = Supplied(payments[j])
  BY <1>2, <1>5, <1>7
<1>9. k \notin DOMAIN payments =>
        Supplied(payments'[k]) = {q.num, q.extra.orderNo} \ {NoNum}
  BY <1>3, <1>6
<1> QED
  BY <1>4, <1>8, <1>9 DEF k

\* Every action keeps OrderIInv.
LEMMA OrderStep == TypeOK /\ OrderIInv /\ [Next]_vars => OrderIInv'
<1> SUFFICES ASSUME TypeOK, OrderIInv, [Next]_vars PROVE OrderIInv'
  OBVIOUS
<1> USE NumberAssumption
<1>1. ASSUME NEW q \in Request, RecordPaymentOrder(q) PROVE OrderIInv'
  <2>1. UNCHANGED <<grants, gameOrders, diamondTxns, events>>
    BY <1>1 DEF RecordPaymentOrder, gameTables
  <2>2. ({q.num, q.extra.orderNo} \ {NoNum}) \cap OrderNo \subseteq DOMAIN gameOrders
    BY <1>1 DEF RecordPaymentOrder, Known
  <2>3. WorkOnTheRightOrder'
    <3>1. http'.pc = "find"
      BY <1>1 DEF RecordPaymentOrder
    <3> QED
      BY <3>1 DEF WorkOnTheRightOrder
  <2>4. /\ DOMAIN payments \subseteq DOMAIN payments'
        /\ \A j \in DOMAIN payments :
             Supplied(payments'[j]) = Supplied(payments[j])
        /\ \A j \in DOMAIN payments' \ DOMAIN payments :
             Supplied(payments'[j]) \cap OrderNo \subseteq DOMAIN gameOrders
    BY <1>1, <2>2, RecordedRow
  <2> QED
    BY <2>1, <2>3, <2>4, OrderFrame DEF OrderIInv
<1>2. CASE FindMatchingOrder
  <2>1. /\ UNCHANGED <<payments, grants, gameOrders, diamondTxns, events>>
    BY <1>2 DEF FindMatchingOrder, gameTables
  <2>2. /\ http'.pc = "game" /\ Current' = Current
        /\ http'.order \in Candidates(Current)
        /\ Supplied(payments[Current]) = {http'.order}
    BY <1>2, CurrentRow DEF FindMatchingOrder, Acceptable, Current, Working
  <2>3. WorkOnTheRightOrder'
    BY <2>1, <2>2 DEF WorkOnTheRightOrder, Candidates
  <2> QED
    BY <2>1, <2>3, OrderFrame DEF OrderIInv
<1>3. CASE FindMismatchedOrder
  <2>1. /\ UNCHANGED <<payments, grants, gameOrders, diamondTxns, events>>
    BY <1>3 DEF FindMismatchedOrder, gameTables
  <2>2. http'.pc = "reject"
    BY <1>3, CurrentRow DEF FindMismatchedOrder, Working
  <2>3. WorkOnTheRightOrder'
    BY <2>2 DEF WorkOnTheRightOrder
  <2> QED
    BY <2>1, <2>3, OrderFrame DEF OrderIInv
<1>4. CASE FindNoOrder
  <2>1. /\ UNCHANGED <<payments, grants, gameOrders, diamondTxns, events>>
    BY <1>4 DEF FindNoOrder, gameTables
  <2>2. http'.pc = "goods" /\ Current' = Current /\ Candidates(Current) = {}
    BY <1>4, CurrentRow DEF FindNoOrder, Current, Working
  <2>3. WorkOnTheRightOrder'
    BY <2>1, <2>2 DEF WorkOnTheRightOrder, Candidates
  <2> QED
    BY <2>1, <2>3, OrderFrame DEF OrderIInv
<1>5. CASE FindNothing \/ GoodsAlreadyGranted \/ HttpCrash
  <2>1. /\ UNCHANGED <<payments, grants, gameOrders, diamondTxns, events>>
        /\ http' = Idle
    BY <1>5 DEF FindNothing, GoodsAlreadyGranted, HttpCrash, gameTables
  <2>2. WorkOnTheRightOrder'
    BY <2>1 DEF WorkOnTheRightOrder, Idle
  <2> QED
    BY <2>1, <2>2, OrderFrame DEF OrderIInv
<1>6. CASE MarkPaymentOrderRejected
  BY <1>6, CurrentRow, OrderStatusStep
     DEF MarkPaymentOrderRejected, gameTables, Status
<1>7. ASSUME NEW auto \in AutoCredit, GrantGoods(auto) PROVE OrderIInv'
  <2> DEFINE k == Current
  <2>1. /\ UNCHANGED <<gameOrders, diamondTxns, events>>
        /\ http' = Idle
    BY <1>7 DEF GrantGoods, gameTables
  <2>2. k \in DOMAIN payments /\ Candidates(k) = {}
    BY <1>7, CurrentRow DEF GrantGoods, OrderIInv, WorkOnTheRightOrder
  <2>3. DOMAIN grants' = DOMAIN grants \cup {k}
    BY <1>7 DEF GrantGoods, Put
  <2>4. /\ DOMAIN payments' = DOMAIN payments
        /\ \A j \in DOMAIN payments : Supplied(payments'[j]) = Supplied(payments[j])
    <3>1. payments' = [payments EXCEPT ![k].status = "completed"]
      BY <1>7 DEF GrantGoods
    <3>2. "completed" \in Status
      BY DEF Status
    <3> HIDE DEF k
    <3> QED
      BY <2>2, <3>1, <3>2, StatusKeepsNumbers
  <2> HIDE DEF k
  <2>5. OrderSettledWhole' /\ NumbersIssued' /\ SettledByName'
    BY <2>1, <2>4
       DEF OrderIInv, OrderSettledWhole, NumbersIssued, SettledByName, TypeOK
  <2>6. GoodsHaveNoOrder'
    BY <2>1, <2>2, <2>3, <2>4 DEF OrderIInv, GoodsHaveNoOrder, Candidates, TypeOK
  <2>7. WorkOnTheRightOrder'
    BY <2>1 DEF WorkOnTheRightOrder, Idle
  <2> QED
    BY <2>5, <2>6, <2>7 DEF OrderIInv
<1>9. ASSUME NEW auto \in AutoCredit, InsufficientBalance(auto) PROVE OrderIInv'
  BY <1>9, CurrentRow, OrderStatusStep DEF InsufficientBalance, gameTables, Status
<1>10. CASE GrantDiamonds
  <2> DEFINE k == Current
             o == http.order
  <2>1. /\ k \in DOMAIN payments /\ k \in PayKey
        /\ o \in DOMAIN gameOrders /\ o \notin DOMAIN diamondTxns
        /\ Supplied(payments[k]) = {o}
        /\ gameOrders[o].user = k.user
        /\ gameOrders[o] \in OrderRow
    BY <1>10, CurrentRow DEF GrantDiamonds, OrderIInv, WorkOnTheRightOrder, TypeOK
  <2>2. UNCHANGED grants /\ http' = Idle
    BY <1>10 DEF GrantDiamonds
  <2>3. /\ DOMAIN diamondTxns' = DOMAIN diamondTxns \cup {o}
        /\ \A q \in DOMAIN diamondTxns : q # o => diamondTxns'[q] = diamondTxns[q]
        /\ diamondTxns'[o].payment = k
        /\ diamondTxns'[o].role = gameOrders[o].role
        /\ diamondTxns'[o].product = gameOrders[o].product
    BY <1>10 DEF GrantDiamonds, Put
  <2>4. /\ DOMAIN events' = DOMAIN events \cup {o}
        /\ \A q \in DOMAIN events : q # o => events'[q] = events[q]
        /\ events'[o].role = gameOrders[o].role
    BY <1>10 DEF GrantDiamonds, Put
  <2>5. /\ DOMAIN gameOrders' = DOMAIN gameOrders
        /\ \A q \in DOMAIN gameOrders : q # o => gameOrders'[q] = gameOrders[q]
        /\ gameOrders'[o] = PaidBy(gameOrders[o], k)
    <3>1. gameOrders' = [gameOrders EXCEPT ![o] = PaidBy(@, k)]
      BY <1>10 DEF GrantDiamonds
    <3> HIDE DEF k, o
    <3> QED
      BY <2>1, <3>1
  <2>6. /\ DOMAIN payments' = DOMAIN payments
        /\ \A j \in DOMAIN payments : Supplied(payments'[j]) = Supplied(payments[j])
    <3>1. payments' = [payments EXCEPT ![k].status = "completed"]
      BY <1>10 DEF GrantDiamonds
    <3>2. "completed" \in Status
      BY DEF Status
    <3> HIDE DEF k
    <3> QED
      BY <2>1, <3>1, <3>2, StatusKeepsNumbers
  <2> HIDE DEF k, o
  <2>7. /\ gameOrders'[o].payment = {k}
        /\ \A q \in DOMAIN gameOrders : /\ gameOrders'[q].role = gameOrders[q].role
                                        /\ gameOrders'[q].user = gameOrders[q].user
                                        /\ gameOrders'[q].product = gameOrders[q].product
    BY <2>1, <2>5 DEF OrderRow, PaidBy
  <2>8. OrderSettledWhole'
    <3>1. DOMAIN events' = DOMAIN diamondTxns'
      BY <2>3, <2>4 DEF OrderIInv, OrderSettledWhole
    <3>2. \A q \in DOMAIN gameOrders' :
            gameOrders'[q].payment =
              IF q \in DOMAIN diamondTxns' THEN {diamondTxns'[q].payment} ELSE {}
      BY <2>3, <2>5, <2>7 DEF OrderIInv, OrderSettledWhole
    <3>3. \A q \in DOMAIN diamondTxns' :
            /\ diamondTxns'[q].role = gameOrders'[q].role
            /\ diamondTxns'[q].role = events'[q].role
            /\ diamondTxns'[q].product = gameOrders'[q].product
            /\ diamondTxns'[q].payment.user = gameOrders'[q].user
      BY <2>1, <2>3, <2>4, <2>7 DEF OrderIInv, OrderSettledWhole, TypeOK
    <3> QED
      BY <3>1, <3>2, <3>3 DEF OrderSettledWhole
  <2>9. NumbersIssued'
    BY <2>5, <2>6 DEF OrderIInv, NumbersIssued
  <2>10. SettledByName'
    BY <2>1, <2>3, <2>6 DEF OrderIInv, SettledByName, TypeOK
  <2>11. GoodsHaveNoOrder'
    BY <2>2, <2>5, <2>6, <2>7 DEF OrderIInv, GoodsHaveNoOrder, Candidates, TypeOK
  <2>12. WorkOnTheRightOrder'
    BY <2>2 DEF WorkOnTheRightOrder, Idle
  <2> QED
    BY <2>8, <2>9, <2>10, <2>11, <2>12 DEF OrderIInv
<1>11. CASE DiamondsAlreadyGranted
  BY <1>11, CurrentRow, OrderStatusStep
     DEF DiamondsAlreadyGranted, gameTables, Status
<1>13. ASSUME NEW r \in Role, NEW o \in OrderNo, NEW p \in Product,
              CreateGameOrder(r, o, p)
       PROVE  OrderIInv'
  <2>1. UNCHANGED <<payments, grants, diamondTxns, events, http>>
    BY <1>13 DEF CreateGameOrder
  <2>2. /\ o \notin DOMAIN gameOrders
        /\ DOMAIN gameOrders' = DOMAIN gameOrders \cup {o}
        /\ \A q \in DOMAIN gameOrders : gameOrders'[q] = gameOrders[q]
        /\ gameOrders'[o].payment = {}
    BY <1>13 DEF CreateGameOrder, Put
  <2>3. OrderSettledWhole' /\ NumbersIssued' /\ SettledByName'
    BY <2>1, <2>2
       DEF OrderIInv, OrderSettledWhole, NumbersIssued, SettledByName, TypeOK
  <2>4. \A k \in DOMAIN payments : Candidates(k)' = Candidates(k)
    <3>1. \A k \in DOMAIN payments : o \notin Supplied(payments[k])
      BY <2>2 DEF OrderIInv, NumbersIssued
    <3> QED
      BY <2>1, <2>2, <3>1 DEF Candidates
  <2>5. GoodsHaveNoOrder'
    BY <2>1, <2>4 DEF OrderIInv, GoodsHaveNoOrder, TypeOK
  <2>6. WorkOnTheRightOrder'
    <3>1. Current' = Current
      BY <2>1 DEF Current
    <3>2. http.pc = "goods" => Current \in DOMAIN payments
      BY CurrentRow
    <3>3. http.pc = "game" => http.order \in DOMAIN gameOrders
      BY DEF TypeOK
    <3> QED
      BY <2>1, <2>2, <2>4, <3>1, <3>2, <3>3 DEF OrderIInv, WorkOnTheRightOrder
  <2> QED
    BY <2>3, <2>5, <2>6 DEF OrderIInv
<1>14. ASSUME NEW r \in Role, NEW u \in User, RebindRole(r, u) PROVE OrderIInv'
  <2>1. UNCHANGED <<payments, grants, gameOrders, diamondTxns, events, http>>
    BY <1>14 DEF RebindRole
  <2> QED
    BY <2>1 DEF OrderIInv, OrderSettledWhole, NumbersIssued, SettledByName,
                GoodsHaveNoOrder, WorkOnTheRightOrder, Candidates, Current
<1>15. ASSUME NEW u \in User, NEW ref \in CreditRef, CreditWallet(u, ref)
       PROVE  OrderIInv'
  <2>1. UNCHANGED <<payments, grants, gameOrders, diamondTxns, events, http>>
    BY <1>15 DEF CreditWallet, gameTables
  <2> QED
    BY <2>1 DEF OrderIInv, OrderSettledWhole, NumbersIssued, SettledByName,
                GoodsHaveNoOrder, WorkOnTheRightOrder, Candidates, Current
<1>16. ASSUME NEW r \in Role, NEW d \in PlayedDiamond, NEW v \in 1..PlayedVersion,
              MergeGameState(r, d, v)
       PROVE  OrderIInv'
  <2>1. UNCHANGED <<payments, grants, gameOrders, diamondTxns, events, http>>
    BY <1>16 DEF MergeGameState
  <2> QED
    BY <2>1 DEF OrderIInv, OrderSettledWhole, NumbersIssued, SettledByName,
                GoodsHaveNoOrder, WorkOnTheRightOrder, Candidates, Current
<1>17. CASE UNCHANGED vars
  BY <1>17 DEF vars, OrderIInv, OrderSettledWhole, NumbersIssued, SettledByName,
               GoodsHaveNoOrder, WorkOnTheRightOrder, Candidates, Current
<1> QED
  BY <1>1, <1>2, <1>3, <1>4, <1>5, <1>6, <1>7, <1>9, <1>10, <1>11,
     <1>13, <1>14, <1>15, <1>16, <1>17
     DEF Next, CreateSpend, FindGameOrder, SettlePaymentOrder,
         SettleGamePayment, OtherProcesses

LEMMA OrderInit == Init => OrderIInv
  BY DEF Init, OrderIInv, OrderSettledWhole, NumbersIssued, SettledByName,
         GoodsHaveNoOrder, WorkOnTheRightOrder, Idle

LEMMA OrdersHold == Spec => [](TypeOK /\ OrderIInv)
  BY OrderInit, OrderStep, TypeCorrect, PTL DEF Spec

\* A game order is settled once and whole, by one payment of the account it
\* was made for; that payment settles no other order and is granted no goods;
\* and settle_game_payment never has to refuse.
THEOREM OrdersSettledOnce ==
    Spec => [](/\ OrderSettledWhole
               /\ PaymentSettlesOneOrder
               /\ OneKindOfGoods
               /\ SettlementNeverRejects)
<1>1. TypeOK /\ OrderIInv =>
        /\ OrderSettledWhole /\ PaymentSettlesOneOrder
        /\ OneKindOfGoods /\ SettlementNeverRejects
  <2> SUFFICES ASSUME TypeOK, OrderIInv
               PROVE  /\ OrderSettledWhole /\ PaymentSettlesOneOrder
                      /\ OneKindOfGoods /\ SettlementNeverRejects
    OBVIOUS
  <2>1. OrderSettledWhole
    BY DEF OrderIInv
  <2>2. PaymentSettlesOneOrder
    BY DEF OrderIInv, SettledByName, PaymentSettlesOneOrder
  <2>3. OneKindOfGoods
    <3> SUFFICES ASSUME NEW o \in DOMAIN diamondTxns,
                        diamondTxns[o].payment \in DOMAIN grants
                 PROVE  FALSE
      BY DEF OneKindOfGoods
    <3>1. o \in Candidates(diamondTxns[o].payment)
      BY DEF OrderIInv, SettledByName, OrderSettledWhole, Candidates, TypeOK
    <3> QED
      BY <3>1 DEF OrderIInv, GoodsHaveNoOrder
  <2>4. SettlementNeverRejects
    BY DEF OrderIInv, WorkOnTheRightOrder, OrderSettledWhole,
           SettlementNeverRejects, TypeOK
  <2> QED
    BY <2>1, <2>2, <2>3, <2>4
<1> QED
  BY <1>1, OrdersHold, PTL

-----------------------------------------------------------------------------

\* Only the two settlements write grants and diamond transactions.
LEMMA GrantFrame ==
    ASSUME Next,
           ~ \E auto \in AutoCredit : GrantGoods(auto),
           ~ GrantDiamonds
    PROVE  UNCHANGED <<grants, diamondTxns>>
  BY DEF Next, CreateSpend, FindGameOrder, SettlePaymentOrder,
         SettleGamePayment, OtherProcesses, RecordPaymentOrder,
         FindMatchingOrder, FindMismatchedOrder, FindNoOrder, FindNothing,
         MarkPaymentOrderRejected, GoodsAlreadyGranted, InsufficientBalance,
         DiamondsAlreadyGranted, HttpCrash, CreateGameOrder, RebindRole,
         MergeGameState, CreditWallet, gameTables

LEMMA BonusStep ==
    FirstBonusOnce /\ FirstBonusGiven /\ [Next]_vars
      => FirstBonusOnce' /\ FirstBonusGiven'
<1> SUFFICES ASSUME FirstBonusOnce, FirstBonusGiven, [Next]_vars
             PROVE  FirstBonusOnce' /\ FirstBonusGiven'
  OBVIOUS
<1>1. ASSUME NEW auto \in AutoCredit, GrantGoods(auto)
      PROVE  FirstBonusOnce' /\ FirstBonusGiven'
  <2> DEFINE k == Current
             p == payments[k].amount
  <2>1. UNCHANGED diamondTxns /\ k \notin DOMAIN grants
    BY <1>1 DEF GrantGoods, NotGranted, gameTables
  <2>2. /\ DOMAIN grants' = DOMAIN grants \cup {k}
        /\ \A j \in DOMAIN grants : j # k => grants'[j] = grants[j]
        /\ grants'[k].product = p
        /\ grants'[k].first <=> \A j \in DOMAIN grants :
                                   ~(j.user = k.user /\ grants[j].product = p)
    BY <1>1 DEF GrantGoods, Put, FirstGoods
  <2> HIDE DEF k, p
  <2>3. FirstBonusOnce'
    BY <2>1, <2>2 DEF FirstBonusOnce
  <2>4. FirstBonusGiven'
    BY <2>1, <2>2 DEF FirstBonusGiven
  <2> QED
    BY <2>3, <2>4
<1>2. CASE GrantDiamonds
  <2> DEFINE o == http.order
             r == gameOrders[o].role
             p == gameOrders[o].product
  <2>1. UNCHANGED grants /\ o \notin DOMAIN diamondTxns
    BY <1>2 DEF GrantDiamonds
  <2>2. /\ DOMAIN diamondTxns' = DOMAIN diamondTxns \cup {o}
        /\ \A q \in DOMAIN diamondTxns : q # o => diamondTxns'[q] = diamondTxns[q]
        /\ diamondTxns'[o].role = r
        /\ diamondTxns'[o].product = p
        /\ diamondTxns'[o].first <=> \A q \in DOMAIN diamondTxns :
              ~(diamondTxns[q].role = r /\ diamondTxns[q].product = p)
    BY <1>2 DEF GrantDiamonds, Put, FirstDiamonds
  <2> HIDE DEF o, r, p
  <2>3. FirstBonusOnce'
    BY <2>1, <2>2 DEF FirstBonusOnce
  <2>4. FirstBonusGiven'
    BY <2>1, <2>2 DEF FirstBonusGiven
  <2> QED
    BY <2>3, <2>4
<1>3. CASE UNCHANGED <<grants, diamondTxns>>
  BY <1>3 DEF FirstBonusOnce, FirstBonusGiven
<1>4. UNCHANGED vars => UNCHANGED <<grants, diamondTxns>>
  BY DEF vars
<1> QED
  BY <1>1, <1>2, <1>3, <1>4, GrantFrame

\* The first purchase bonus is given exactly once per account and product, and
\* exactly once per role and product.
THEOREM BonusExactlyOnce == Spec => [](FirstBonusOnce /\ FirstBonusGiven)
<1>1. Init => FirstBonusOnce /\ FirstBonusGiven
  BY DEF Init, FirstBonusOnce, FirstBonusGiven
<1> QED
  BY <1>1, BonusStep, PTL DEF Spec

\* Whoever buys a product at all has its bonus, from one purchase of it.
THEOREM BonusNotLost == Spec => []FirstBonusGiven
  BY BonusExactlyOnce, PTL

-----------------------------------------------------------------------------
(* Outcomes.                                                                 *)

\* What a step keeps of a payment that was recorded.
Kept(k) ==
    /\ k \in DOMAIN payments'
    /\ payments'[k].amount = payments[k].amount
    /\ Entitled(k) => Entitled(k)'
    /\ Candidates(k)' = Candidates(k)

\* A stored status is true.  That a payment refused for its price stays without
\* an order is what makes the refusal last: no settlement can reach it.
StatusKnown ==
    \A k \in DOMAIN payments :
      /\ payments[k].status = "completed" => Entitled(k)
      /\ payments[k].status = "insufficient_balance" =>
           k \notin DOMAIN grants /\ Candidates(k) = {}

Outcome == StatusKnown /\ AckedIsGranted

-----------------------------------------------------------------------------

\* The tables an entitlement is read from only grow.
LEMMA TablesGrow ==
    ASSUME TypeOK, OrderIInv, NEW k \in DOMAIN payments, k \in DOMAIN payments',
           payments'[k].amount = payments[k].amount,
           Supplied(payments'[k]) = Supplied(payments[k]),
           DOMAIN grants \subseteq DOMAIN grants',
           DOMAIN diamondTxns \subseteq DOMAIN diamondTxns',
           DOMAIN gameOrders \subseteq DOMAIN gameOrders',
           \A o \in DOMAIN gameOrders : gameOrders'[o].user = gameOrders[o].user,
           \A o \in DOMAIN gameOrders' :
             o \in DOMAIN gameOrders \/ o \notin Supplied(payments[k])
    PROVE  Kept(k)
<1>1. Candidates(k)' = Candidates(k)
  BY DEF Candidates
<1>2. Entitled(k) => Entitled(k)'
  BY DEF Entitled, TypeOK
<1> QED
  BY <1>1, <1>2 DEF Kept

\* The same, when no order is new and no table but payments may shrink.
LEMMA OrdersStay ==
    ASSUME TypeOK, OrderIInv, NEW k \in DOMAIN payments, k \in DOMAIN payments',
           payments'[k].amount = payments[k].amount,
           Supplied(payments'[k]) = Supplied(payments[k]),
           DOMAIN grants \subseteq DOMAIN grants',
           UNCHANGED <<diamondTxns, gameOrders>>
    PROVE  Kept(k)
  BY TablesGrow

LEMMA StatusKeeps ==
    ASSUME TypeOK, OrderIInv, NEW j \in DOMAIN payments, NEW s \in Status,
           payments' = [payments EXCEPT ![j].status = s],
           DOMAIN grants \subseteq DOMAIN grants',
           UNCHANGED <<diamondTxns, gameOrders>>
    PROVE  /\ DOMAIN payments' = DOMAIN payments
           /\ payments'[j].status = s
           /\ \A k \in DOMAIN payments : Kept(k) /\ (k # j => payments'[k] = payments[k])
<1>1. /\ DOMAIN payments' = DOMAIN payments
      /\ payments'[j].status = s
      /\ \A k \in DOMAIN payments : /\ payments'[k].amount = payments[k].amount
                                    /\ k # j => payments'[k] = payments[k]
  BY StatusChange
<1>2. \A k \in DOMAIN payments : Supplied(payments'[k]) = Supplied(payments[k])
  BY StatusKeepsNumbers
<1> QED
  BY <1>1, <1>2, OrdersStay

\* Of payments that are kept, what was true of a status or an answer is true.
LEMMA OutcomeKept ==
    ASSUME TypeOK, OrderIInv, Outcome,
           \A k \in DOMAIN payments : Kept(k),
           \A k \in DOMAIN payments' :
             \/ /\ k \in DOMAIN payments /\ payments'[k].status = payments[k].status
                /\ payments[k].status = "insufficient_balance" => k \notin DOMAIN grants'
             \/ payments'[k].status \notin {"completed", "insufficient_balance"}
             \/ payments'[k].status = "completed" /\ Entitled(k)'
             \/ /\ payments'[k].status = "insufficient_balance"
                /\ k \notin DOMAIN grants' /\ Candidates(k)' = {},
           \A k \in acked' :
             \/ k \in acked
             \/ k \in DOMAIN payments' /\ (Entitled(k)' \/ payments'[k].amount = NoProduct)
    PROVE  Outcome'
<1>1. StatusKnown'
  BY DEF Outcome, StatusKnown, Kept
<1>2. AckedIsGranted'
  BY DEF Outcome, AckedIsGranted, Kept, TypeOK
<1> QED
  BY <1>1, <1>2 DEF Outcome

LEMMA OutcomeStep == TypeOK /\ OrderIInv /\ Outcome /\ [Next]_vars => Outcome'
<1> SUFFICES ASSUME TypeOK, OrderIInv, Outcome, [Next]_vars
             PROVE  Outcome'
  OBVIOUS
<1>0. /\ "duplicate" \in Status /\ "rejected" \in Status /\ "completed" \in Status
      /\ "insufficient_balance" \in Status /\ "unresolved" \in Status
  BY DEF Status
<1>1. ASSUME NEW q \in Request, RecordPaymentOrder(q) PROVE Outcome'
  <2> DEFINE k == Key(q)
  <2>1. UNCHANGED <<grants, gameOrders, diamondTxns, acked>>
    BY <1>1 DEF RecordPaymentOrder, gameTables
  <2>2. CASE k \in DOMAIN payments
    <3>1. payments' = [payments EXCEPT ![k].status = "duplicate"]
      <4>1. payments' = Put(payments, k, [payments[k] EXCEPT !.status = "duplicate"])
        BY <1>1, <2>2 DEF RecordPaymentOrder
      <4> HIDE DEF k
      <4>2. DOMAIN payments \cup {k} = DOMAIN payments
        BY <2>2
      <4> QED
        BY <4>1, <4>2 DEF Put
    <3> HIDE DEF k
    <3>2. /\ DOMAIN payments' = DOMAIN payments
          /\ payments'[k].status = "duplicate"
          /\ \A j \in DOMAIN payments : Kept(j) /\ (j # k => payments'[j] = payments[j])
      BY <1>0, <2>1, <2>2, <3>1, StatusKeeps
    <3> QED
      BY <2>1, <3>2, OutcomeKept DEF Outcome, StatusKnown
  <2>3. CASE k \notin DOMAIN payments
    <3>1. payments' = Put(payments, k, [num |-> q.num, extra |-> q.extra,
                                        amount |-> q.amount, status |-> "unresolved"])
      BY <1>1, <2>3 DEF RecordPaymentOrder
    <3> HIDE DEF k
    <3>2. /\ DOMAIN payments' = DOMAIN payments \cup {k}
          /\ payments'[k].status = "unresolved"
          /\ \A j \in DOMAIN payments : payments'[j] = payments[j]
      BY <2>3, <3>1 DEF Put
    <3>3. \A j \in DOMAIN payments : Kept(j)
      BY <2>1, <3>2, OrdersStay
    <3> QED
      BY <2>1, <2>3, <3>2, <3>3, OutcomeKept DEF Outcome, StatusKnown
  <2> QED
    BY <2>2, <2>3
<1>2. ASSUME UNCHANGED <<payments, grants, gameOrders, diamondTxns>>,
             \A k \in acked' :
               \/ k \in acked
               \/ k \in DOMAIN payments /\ (Entitled(k) \/ payments[k].amount = NoProduct)
      PROVE  Outcome'
  <2>1. \A k \in DOMAIN payments : Kept(k)
    BY <1>2, OrdersStay
  <2> QED
    BY <1>2, <2>1, OutcomeKept DEF Outcome, StatusKnown, Kept
<1>3. CASE FindMatchingOrder \/ FindMismatchedOrder \/ FindNoOrder
  BY <1>2, <1>3 DEF FindMatchingOrder, FindMismatchedOrder, FindNoOrder, gameTables
<1>4. CASE FindNothing
  <2>1. Current \in DOMAIN payments /\ payments[Current] \in PaymentRow
    BY <1>4, CurrentRow DEF FindNothing
  <2>2. payments[Current].amount = NoProduct
    BY <1>4, <2>1 DEF FindNothing, PaymentRow, Amount
  <2> QED
    BY <1>2, <1>4, <2>1, <2>2 DEF FindNothing, gameTables
<1>5. CASE GoodsAlreadyGranted
  <2>1. Current \in DOMAIN payments /\ Entitled(Current)
    BY <1>5, CurrentRow DEF GoodsAlreadyGranted, Entitled
  <2> QED
    BY <1>2, <1>5, <2>1 DEF GoodsAlreadyGranted, gameTables
<1>6. CASE MarkPaymentOrderRejected
  <2> DEFINE k == Current
  <2>1. /\ k \in DOMAIN payments /\ payments' = [payments EXCEPT ![k].status = "rejected"]
        /\ UNCHANGED <<grants, gameOrders, diamondTxns, acked>>
    BY <1>6, CurrentRow DEF MarkPaymentOrderRejected, gameTables
  <2> HIDE DEF k
  <2>2. /\ DOMAIN payments' = DOMAIN payments
        /\ payments'[k].status = "rejected"
        /\ \A j \in DOMAIN payments : Kept(j) /\ (j # k => payments'[j] = payments[j])
    BY <1>0, <2>1, StatusKeeps
  <2> QED
    BY <2>1, <2>2, OutcomeKept DEF Outcome, StatusKnown
<1>7. ASSUME NEW auto \in AutoCredit, GrantGoods(auto) PROVE Outcome'
  <2>p. PICK k : k = Current
    OBVIOUS
  <2>1. /\ k \in DOMAIN payments /\ payments' = [payments EXCEPT ![k].status = "completed"]
        /\ UNCHANGED <<gameOrders, diamondTxns>> /\ acked' = acked \cup {k}
    BY <1>7, <2>p, CurrentRow DEF GrantGoods, gameTables
  <2>2. DOMAIN grants' = DOMAIN grants \cup {k}
    BY <1>7, <2>p DEF GrantGoods, Put
  <2>3. /\ DOMAIN payments' = DOMAIN payments
        /\ payments'[k].status = "completed"
        /\ \A j \in DOMAIN payments : Kept(j) /\ (j # k => payments'[j] = payments[j])
    BY <1>0, <2>1, <2>2, StatusKeeps
  <2>4. Entitled(k)'
    BY <2>2 DEF Entitled
  <2> QED
    BY <2>1, <2>2, <2>3, <2>4, OutcomeKept DEF Outcome, StatusKnown
<1>8. ASSUME NEW auto \in AutoCredit, InsufficientBalance(auto) PROVE Outcome'
  <2>p. PICK k : k = Current
    OBVIOUS
  <2>1. /\ k \in DOMAIN payments
        /\ payments' = [payments EXCEPT ![k].status = "insufficient_balance"]
        /\ UNCHANGED <<grants, gameOrders, diamondTxns, acked>>
        /\ k \notin DOMAIN grants
    BY <1>8, <2>p, CurrentRow DEF InsufficientBalance, gameTables, NotGranted
  <2>2. Candidates(k) = {}
    BY <1>8, <2>p DEF InsufficientBalance, OrderIInv, WorkOnTheRightOrder
  <2>3. /\ DOMAIN payments' = DOMAIN payments
        /\ payments'[k].status = "insufficient_balance"
        /\ \A j \in DOMAIN payments : Kept(j) /\ (j # k => payments'[j] = payments[j])
    BY <1>0, <2>1, StatusKeeps
  <2>4. Candidates(k)' = {}
    BY <2>1, <2>2, <2>3 DEF Kept
  <2> QED
    BY <2>1, <2>3, <2>4, OutcomeKept DEF Outcome, StatusKnown
<1>9. CASE GrantDiamonds
  <2>p. PICK k : k = Current
    OBVIOUS
  <2>o. PICK o : o = http.order
    OBVIOUS
  <2>1. /\ k \in DOMAIN payments /\ o \in DOMAIN gameOrders
        /\ gameOrders[o] \in OrderRow
        /\ Supplied(payments[k]) = {o} /\ gameOrders[o].user = k.user
        /\ payments' = [payments EXCEPT ![k].status = "completed"]
        /\ UNCHANGED grants /\ acked' = acked \cup {k}
    BY <1>9, <2>p, <2>o, CurrentRow DEF GrantDiamonds, OrderIInv, WorkOnTheRightOrder, TypeOK
  <2>2. DOMAIN diamondTxns' = DOMAIN diamondTxns \cup {o}
    BY <1>9, <2>o DEF GrantDiamonds, Put
  <2>3. /\ DOMAIN gameOrders' = DOMAIN gameOrders
        /\ \A q \in DOMAIN gameOrders : gameOrders'[q].user = gameOrders[q].user
    <3>1. gameOrders' = [gameOrders EXCEPT ![o] = PaidBy(@, k)]
      BY <1>9, <2>p, <2>o DEF GrantDiamonds
    <3>2. PaidBy(gameOrders[o], k).user = gameOrders[o].user
      BY <2>1 DEF PaidBy, OrderRow
    <3> QED
      BY <2>1, <3>1, <3>2
  <2>4. /\ DOMAIN payments' = DOMAIN payments
        /\ payments'[k].status = "completed"
        /\ \A j \in DOMAIN payments : /\ payments'[j].amount = payments[j].amount
                                      /\ j # k => payments'[j] = payments[j]
    BY <1>0, <2>1, StatusChange
  <2>5. \A j \in DOMAIN payments : Supplied(payments'[j]) = Supplied(payments[j])
    BY <1>0, <2>1, StatusKeepsNumbers
  <2>6. \A j \in DOMAIN payments : Kept(j)
    BY <2>1, <2>2, <2>3, <2>4, <2>5, TablesGrow
  <2>7. Entitled(k)'
    BY <2>1, <2>2, <2>3, <2>5 DEF Entitled
  <2> QED
    BY <2>1, <2>4, <2>6, <2>7, OutcomeKept DEF Outcome, StatusKnown
<1>10. CASE DiamondsAlreadyGranted
  <2>p. PICK k : k = Current
    OBVIOUS
  <2>1. /\ k \in DOMAIN payments /\ payments' = [payments EXCEPT ![k].status = "completed"]
        /\ UNCHANGED <<grants, gameOrders, diamondTxns>> /\ acked' = acked \cup {k}
    BY <1>10, <2>p, CurrentRow DEF DiamondsAlreadyGranted, gameTables
  <2>2. Entitled(k)
    BY <1>10, <2>p DEF DiamondsAlreadyGranted, OrderIInv, WorkOnTheRightOrder, Entitled
  <2>3. /\ DOMAIN payments' = DOMAIN payments
        /\ payments'[k].status = "completed"
        /\ \A j \in DOMAIN payments : Kept(j) /\ (j # k => payments'[j] = payments[j])
    BY <1>0, <2>1, StatusKeeps
  <2>4. Entitled(k)'
    BY <2>1, <2>2, <2>3 DEF Kept
  <2> QED
    BY <2>1, <2>3, <2>4, OutcomeKept DEF Outcome, StatusKnown
<1>11. ASSUME NEW r \in Role, NEW o \in OrderNo, NEW p \in Product, CreateGameOrder(r, o, p)
       PROVE  Outcome'
  <2>1. UNCHANGED <<payments, grants, diamondTxns, acked>>
    BY <1>11 DEF CreateGameOrder
  <2>2. /\ DOMAIN gameOrders' = DOMAIN gameOrders \cup {o}
        /\ \A q \in DOMAIN gameOrders : gameOrders'[q] = gameOrders[q]
        /\ o \notin DOMAIN gameOrders
    BY <1>11 DEF CreateGameOrder, Put
  <2>3. \A k \in DOMAIN payments : o \notin Supplied(payments[k])
    BY <2>2 DEF OrderIInv, NumbersIssued
  <2>4. \A k \in DOMAIN payments : Kept(k)
    BY <2>1, <2>2, <2>3, TablesGrow
  <2> QED
    BY <2>1, <2>4, OutcomeKept DEF Outcome, StatusKnown
<1>12. CASE HttpCrash \/ (\E r \in Role, u \in User : RebindRole(r, u))
            \/ (\E r \in Role, d \in PlayedDiamond, v \in 1..PlayedVersion :
                  MergeGameState(r, d, v))
            \/ (\E u \in User, ref \in CreditRef : CreditWallet(u, ref)) \/ UNCHANGED vars
  BY <1>2, <1>12 DEF HttpCrash, RebindRole, MergeGameState, CreditWallet, gameTables, vars
<1> QED
  BY <1>1, <1>3, <1>4, <1>5, <1>6, <1>7, <1>8, <1>9, <1>10, <1>11, <1>12
     DEF Next, CreateSpend, FindGameOrder, SettlePaymentOrder, SettleGamePayment,
         OtherProcesses

LEMMA OutcomeInit == Init => Outcome
  BY DEF Init, Outcome, StatusKnown, AckedIsGranted

\* Whatever a client is answered, through retries, duplicates and crashes: a
\* payment answered with success has its goods or its diamonds (create_spend).
THEOREM AnswersAreTrue == Spec => []AckedIsGranted
<1>1. Outcome => AckedIsGranted
  BY DEF Outcome
<1> QED
  BY <1>1, OrdersHold, OutcomeInit, OutcomeStep, PTL DEF Spec

\* The status of a stored payment is true: completed has its goods, and
\* insufficient_balance has none and gets none behind its back.
THEOREM StatusesAreTrue == Spec => []StatusTrue
<1>1. TypeOK /\ OrderIInv /\ Outcome => StatusTrue
  <2> SUFFICES ASSUME TypeOK, OrderIInv, Outcome, NEW k \in DOMAIN payments,
                      payments[k].status = "insufficient_balance"
               PROVE  ~Entitled(k)
    BY DEF StatusTrue, Outcome, StatusKnown
  <2>1. k \notin DOMAIN grants /\ Candidates(k) = {}
    BY DEF Outcome, StatusKnown
  <2> QED
    BY <2>1 DEF Entitled, Candidates, TypeOK
<1> QED
  BY <1>1, OrdersHold, OutcomeInit, OutcomeStep, PTL DEF Spec

-----------------------------------------------------------------------------
(* Payments implements Settlement, under the mapping of Promise. *)

\* A step that leaves orders, transactions, grants and diamonds alone changes
\* nothing that Settlement sees.
LEMMA Unseen ==
    ASSUME UNCHANGED <<gameOrders, diamondTxns, grants>>,
           \A r \in Role : roles'[r].diamond = roles[r].diamond
    PROVE  UNCHANGED Promise!vars
  BY DEF Promise!vars, Placed, Settled, Diamond

\* The payment a request works on is one Settlement knows of, and it is free
\* as long as it has neither a grant nor an order.
LEMMA WorkingPayment ==
    ASSUME TypeOK, http \in Working
    PROVE  /\ Current \in {Key(q) : q \in Request}
           /\ /\ Current \notin DOMAIN grants
              /\ \A o \in DOMAIN diamondTxns : diamondTxns[o].payment # Current
              => Promise!Unspent(Current)
<1>1. http.req \in Request
  BY DEF Working
<1>2. Current \in {Key(q) : q \in Request}
  BY <1>1 DEF Current
<1> QED
  BY <1>2 DEF Promise!Unspent, Settled

LEMMA PlaceStep ==
    ASSUME TypeOK, NEW r \in Role, NEW o \in OrderNo, NEW p \in Product,
           CreateGameOrder(r, o, p)
    PROVE  Promise!Next
<1> DEFINE row == [role |-> r, user |-> roles[r].user, product |-> p]
<1>1. row \in [role: Role, user: User, product: Product]
  BY DEF TypeOK, RoleRow
<1>2. o \notin DOMAIN Placed
  BY DEF CreateGameOrder, Placed
<1>3. Placed' = Promise!With(Placed, o, row)
  BY DEF CreateGameOrder, Put, Placed, Promise!With
<1>4. UNCHANGED <<Settled, grants, Diamond>>
  BY DEF CreateGameOrder, Settled, Diamond
<1>5. Promise!Place(o, row)
  BY <1>2, <1>3, <1>4 DEF Promise!Place
<1> QED
  BY <1>1, <1>5 DEF Promise!Next

LEMMA DeliverStep ==
    ASSUME TypeOK, OrderIInv, NEW auto \in AutoCredit, GrantGoods(auto)
    PROVE  Promise!Next
<1> DEFINE k == Current
           p == payments[k].amount
<1>1. http.pc = "goods" /\ k \notin DOMAIN grants
  BY DEF GrantGoods, NotGranted
<1>2. http \in Working
  BY <1>1, CurrentRow
<1>3. p \in Product
  BY <1>1 DEF TypeOK
<1>4. \A o \in DOMAIN diamondTxns : diamondTxns[o].payment # k
  <2> SUFFICES ASSUME NEW o \in DOMAIN diamondTxns, diamondTxns[o].payment = k
               PROVE  FALSE
    OBVIOUS
  <2>1. o \in Candidates(k)
    BY DEF OrderIInv, SettledByName, OrderSettledWhole, Candidates, TypeOK
  <2> QED
    BY <1>1, <2>1 DEF OrderIInv, WorkOnTheRightOrder
<1>5. k \in {Key(q) : q \in Request} /\ Promise!Unspent(k)
  BY <1>1, <1>2, <1>4, WorkingPayment
<1>6. FirstGoods(k.user, p) <=> Promise!FirstForUser(k.user, p)
  BY DEF FirstGoods, Promise!FirstForUser
<1>7. grants' = Promise!With(grants, k,
                  [product |-> p, first |-> Promise!FirstForUser(k.user, p)])
  BY <1>6 DEF GrantGoods, Put, Promise!With, FirstGoods, Promise!FirstForUser
<1>8. UNCHANGED <<Placed, Settled, Diamond>>
  BY DEF GrantGoods, gameTables, Placed, Settled, Diamond
<1>9. Promise!Deliver(k, p)
  BY <1>5, <1>7, <1>8 DEF Promise!Deliver
<1> QED
  BY <1>3, <1>5, <1>9 DEF Promise!Next

LEMMA SettleStep ==
    ASSUME TypeOK, OrderIInv, GrantDiamonds
    PROVE  Promise!Next
<1> DEFINE k == Current
           o == http.order
           r == gameOrders[o].role
           p == gameOrders[o].product
           after == roles[r].diamond + Quantity[p]
                      + (IF FirstDiamonds(r, p) THEN Bonus[p] ELSE 0)
<1>1. http.pc = "game" /\ o \notin DOMAIN diamondTxns /\ gameOrders[o].user = k.user
  BY DEF GrantDiamonds
<1>2. http \in Working /\ o \in DOMAIN gameOrders /\ r \in Role /\ p \in Product
  BY <1>1, CurrentRow DEF TypeOK, OrderRow
<1>3. Supplied(payments[k]) = {o}
  BY <1>1 DEF OrderIInv, WorkOnTheRightOrder
<1>4. \A q \in DOMAIN diamondTxns : diamondTxns[q].payment # k
  BY <1>1, <1>3 DEF OrderIInv, SettledByName
<1>5. k \notin DOMAIN grants
  <2>1. o \in Candidates(k)
    BY <1>1, <1>2, <1>3 DEF Candidates
  <2> QED
    BY <2>1 DEF OrderIInv, GoodsHaveNoOrder
<1>6. k \in {Key(q) : q \in Request} /\ Promise!Unspent(k)
  BY <1>2, <1>4, <1>5, WorkingPayment
<1>7. o \in DOMAIN Placed \ DOMAIN Settled
  BY <1>1, <1>2 DEF Placed, Settled
<1>8. Placed[o].user = k.user /\ Placed[o].role = r /\ Placed[o].product = p
  BY <1>1, <1>2 DEF Placed
<1>9. FirstDiamonds(r, p) <=> Promise!FirstForRole(r, p)
  BY DEF FirstDiamonds, Promise!FirstForRole, Placed, Settled,
         OrderIInv, OrderSettledWhole, TypeOK
<1>10. after = Diamond[r] + Promise!Worth(r, p)
  <2>1. Diamond[r] = roles[r].diamond /\ roles[r].diamond \in Nat
    BY <1>2 DEF Diamond, TypeOK, RoleRow
  <2>2. Quantity[p] \in Nat /\ Bonus[p] \in Nat
    BY <1>2, CatalogAssumption
  <2> QED
    BY <1>9, <2>1, <2>2 DEF Promise!Worth
<1>11. Settled' = Promise!With(Settled, o, k)
  BY <1>1 DEF GrantDiamonds, Put, Settled, Promise!With
<1>12. Diamond' = [Diamond EXCEPT ![r] = after]
  <2>1. roles' = [roles EXCEPT ![r] = Credited(@, after)]
    BY DEF GrantDiamonds
  <2>2. roles \in [Role -> RoleRow]
    BY DEF TypeOK
  <2>3. roles'[r].diamond = after
    BY <1>2, <2>1, <2>2 DEF Credited, RoleRow
  <2>4. \A s \in Role : s # r => roles'[s] = roles[s]
    BY <2>1, <2>2
  <2> HIDE DEF after
  <2> QED
    BY <1>2, <2>3, <2>4 DEF Diamond
<1>13. Placed' = Placed /\ UNCHANGED grants
  <2>1. gameOrders' = [gameOrders EXCEPT ![o] = PaidBy(@, k)] /\ UNCHANGED grants
    BY DEF GrantDiamonds
  <2>2. gameOrders[o] \in OrderRow
    BY <1>2 DEF TypeOK
  <2>3. DOMAIN gameOrders' = DOMAIN gameOrders
    BY <2>1
  <2>4. \A q \in DOMAIN gameOrders : /\ gameOrders'[q].role = gameOrders[q].role
                                     /\ gameOrders'[q].user = gameOrders[q].user
                                     /\ gameOrders'[q].product = gameOrders[q].product
    BY <2>1, <2>2 DEF PaidBy, OrderRow
  <2> QED
    BY <2>1, <2>3, <2>4 DEF Placed
<1> HIDE DEF k, o, r, p, after
<1>14. Promise!Settle(o, k)
  BY <1>6, <1>7, <1>8, <1>10, <1>11, <1>12, <1>13 DEF Promise!Settle
<1>15. o \in DOMAIN Placed
  BY <1>7
<1> QED
  BY <1>6, <1>14, <1>15 DEF Promise!Next

LEMMA PlayStep ==
    ASSUME TypeOK, NEW r \in Role, NEW d \in PlayedDiamond, NEW v \in 1..PlayedVersion,
           MergeGameState(r, d, v)
    PROVE  Promise!Next
<1>1. Diamond' = [Diamond EXCEPT ![r] = d]
  <2>1. roles' = [roles EXCEPT ![r] = [roles[r] EXCEPT !.diamond = d, !.version = v]]
    BY DEF MergeGameState, TypeOK, RoleRow
  <2>2. roles'[r].diamond = d
    BY <2>1 DEF TypeOK, RoleRow
  <2>3. \A s \in Role : s # r => roles'[s] = roles[s]
    BY <2>1 DEF TypeOK
  <2> QED
    BY <2>2, <2>3 DEF Diamond
<1>2. UNCHANGED <<Placed, Settled, grants>>
  BY DEF MergeGameState, Placed, Settled
<1>3. Promise!Play(r, d)
  BY <1>1, <1>2 DEF Promise!Play
<1> QED
  BY <1>3 DEF Promise!Next

\* Every transaction is a step of Settlement or changes nothing it sees.
LEMMA PromiseStep ==
    TypeOK /\ OrderIInv /\ [Next]_vars => [Promise!Next]_(Promise!vars)
<1> SUFFICES ASSUME TypeOK, OrderIInv, [Next]_vars
             PROVE  Promise!Next \/ UNCHANGED Promise!vars
  OBVIOUS
<1> DEFINE Seen == <<gameOrders, diamondTxns, grants, roles>>
<1>1. ASSUME NEW q \in Request, RecordPaymentOrder(q) PROVE UNCHANGED Seen
  BY <1>1 DEF RecordPaymentOrder, gameTables
<1>2. CASE FindGameOrder
  BY <1>2, Unseen DEF FindGameOrder, FindMatchingOrder, FindMismatchedOrder,
                      FindNoOrder, FindNothing, gameTables
<1>3. CASE SettlePaymentOrder
  <2>1. CASE GoodsAlreadyGranted
    BY <2>1, Unseen DEF GoodsAlreadyGranted, gameTables
  <2>2. ASSUME NEW auto \in AutoCredit, InsufficientBalance(auto)
        PROVE  UNCHANGED Seen
    BY <2>2 DEF InsufficientBalance, gameTables
  <2>3. ASSUME NEW auto \in AutoCredit, GrantGoods(auto)
        PROVE  Promise!Next
    BY <2>3, DeliverStep
  <2> QED
    BY <1>3, <2>1, <2>2, <2>3, Unseen DEF SettlePaymentOrder
<1>4. CASE SettleGamePayment
  <2>1. CASE DiamondsAlreadyGranted
    BY <2>1, Unseen DEF DiamondsAlreadyGranted, gameTables
  <2>2. CASE GrantDiamonds
    BY <2>2, SettleStep
  <2> QED
    BY <1>4, <2>1, <2>2 DEF SettleGamePayment
<1>5. CASE MarkPaymentOrderRejected
  BY <1>5, Unseen DEF MarkPaymentOrderRejected, gameTables
<1>6. CASE HttpCrash
  BY <1>6, Unseen DEF HttpCrash, gameTables
<1>7. ASSUME NEW r \in Role, NEW o \in OrderNo, NEW p \in Product,
             CreateGameOrder(r, o, p)
      PROVE  Promise!Next
  BY <1>7, PlaceStep
<1>8. ASSUME NEW r \in Role, NEW u \in User, RebindRole(r, u)
      PROVE  UNCHANGED Promise!vars
  <2>1. \A s \in Role : roles'[s].diamond = roles[s].diamond
    BY <1>8 DEF RebindRole, TypeOK, RoleRow
  <2> QED
    BY <1>8, <2>1, Unseen DEF RebindRole
<1>9. ASSUME NEW u \in User, NEW ref \in CreditRef, CreditWallet(u, ref)
      PROVE  UNCHANGED Seen
  BY <1>9 DEF CreditWallet, gameTables
<1>10. ASSUME NEW r \in Role, NEW d \in PlayedDiamond, NEW v \in 1..PlayedVersion,
              MergeGameState(r, d, v)
       PROVE  Promise!Next
  BY <1>10, PlayStep
<1>11. CASE UNCHANGED vars
  BY <1>11, Unseen DEF vars
<1> QED
  BY <1>1, <1>2, <1>3, <1>4, <1>5, <1>6, <1>7, <1>8, <1>9, <1>10, <1>11, Unseen
     DEF Next, CreateSpend, OtherProcesses

\* However requests, retries, crashes, rebinding of roles, account credits and
\* the writes of gameplay handlers interleave, the tables behave as Settlement
\* promises.
THEOREM PaymentsImplementSettlement == Spec => ImplementsSettlement
<1>1. Init => Promise!Init
  <2> SUFFICES ASSUME Init PROVE Promise!Init
    OBVIOUS
  <2>1. Diamond = InitialDiamond
    BY AmountAssumption DEF Init, Diamond
  <2>2. gameOrders = << >> /\ diamondTxns = << >> /\ grants = << >>
    BY DEF Init
  <2>3. Placed = << >> /\ Settled = << >>
    BY <2>2 DEF Placed, Settled
  <2> QED
    BY <2>1, <2>2, <2>3 DEF Promise!Init
<1>2. TypeOK /\ OrderIInv /\ [Next]_vars => [Promise!Next]_(Promise!vars)
  BY PromiseStep
<1> QED
  BY <1>1, <1>2, OrdersHold, PTL DEF Spec, ImplementsSettlement, Promise!Spec

-----------------------------------------------------------------------------
(* The G points of an account. *)

\* What LedgerChain says of one user's log.
Chain(log, b) ==
    /\ \A i \in 1..Len(log) :
         /\ log[i].before = (IF i = 1 THEN 0 ELSE log[i - 1].after)
         /\ log[i].after = log[i].before + log[i].amount
         /\ log[i].after >= 0
    /\ b = (IF Len(log) = 0 THEN 0 ELSE log[Len(log)].after)

\* What AutoCreditIsSpent says of it.
Spent(log) ==
    \A i \in 1..Len(log) :
      log[i].kind = "auto_credit" =>
        /\ i < Len(log)
        /\ log[i + 1].kind = "spend"
        /\ log[i + 1].ref = log[i].ref
        /\ log[i + 1].after = 0

\* What DebitPerGrant says of one user's log, of the grants g.
Debited(u, log, g) ==
    /\ \A i \in 1..Len(log) :
         log[i].kind = "spend" => /\ log[i].ref \in DOMAIN g
                                  /\ log[i].ref.user = u
                                  /\ log[i].amount = -Price[g[log[i].ref].product]
    /\ \A k \in DOMAIN g :
         k.user = u => \E i \in 1..Len(log) : log[i].kind = "spend" /\ log[i].ref = k

\* The wallet of one user; and of all of them, which is inductive.
Wallet(u, log, b, g) == Chain(log, b) /\ Spent(log) /\ Debited(u, log, g)

LedgerInv == \A u \in User : Wallet(u, walletLog[u], balance[u], grants)

LEMMA Appended ==
    ASSUME NEW log \in Seq(WalletRow), NEW e \in WalletRow
    PROVE  /\ Append(log, e) \in Seq(WalletRow)
           /\ Len(Append(log, e)) = Len(log) + 1
           /\ \A i \in 1..Len(log) : Append(log, e)[i] = log[i]
           /\ Append(log, e)[Len(log) + 1] = e
  BY AppendProperties

LEMMA ConcatTwo ==
    ASSUME NEW log \in Seq(WalletRow), NEW d \in WalletRow, NEW e \in WalletRow
    PROVE  log \o <<d, e>> = Append(Append(log, d), e)
  BY AppendIsConcat, ConcatAssociative, ConcatProperties, AppendProperties

LEMMA ChainAppend ==
    ASSUME NEW log \in Seq(WalletRow), NEW e \in WalletRow, NEW b \in Int,
           Chain(log, b), e.before = b, e.after = b + e.amount, e.after >= 0
    PROVE  Chain(Append(log, e), e.after)
<1> DEFINE new == Append(log, e)
           n == Len(log)
<1>1. /\ n \in Nat /\ Len(new) = n + 1 /\ new[n + 1] = e
      /\ \A i \in 1..n : new[i] = log[i]
  BY Appended
<1>2. b = IF n = 0 THEN 0 ELSE new[n].after
  BY <1>1 DEF Chain
<1>3. ASSUME NEW i \in 1..n
      PROVE  /\ new[i].before = (IF i = 1 THEN 0 ELSE new[i - 1].after)
             /\ new[i].after = new[i].before + new[i].amount
             /\ new[i].after >= 0
  BY <1>1, <1>3 DEF Chain
<1> HIDE DEF new, n
<1>4. ASSUME NEW i \in 1..(n + 1)
      PROVE  /\ new[i].before = (IF i = 1 THEN 0 ELSE new[i - 1].after)
             /\ new[i].after = new[i].before + new[i].amount
             /\ new[i].after >= 0
  <2>1. CASE i = n + 1
    BY <1>1, <1>2, <2>1
  <2>2. CASE i # n + 1
    BY <1>1, <1>3, <2>2
  <2> QED
    BY <2>1, <2>2
<1>5. e.after = IF Len(new) = 0 THEN 0 ELSE new[Len(new)].after
  BY <1>1
<1> QED
  BY <1>1, <1>4, <1>5 DEF Chain, new

\* A row that is no top-up may follow any row but a top-up, and there is none.
LEMMA SpentAppend ==
    ASSUME NEW log \in Seq(WalletRow), NEW e \in WalletRow,
           Spent(log), e.kind # "auto_credit"
    PROVE  Spent(Append(log, e))
<1> DEFINE new == Append(log, e)
           n == Len(log)
<1>1. /\ n \in Nat /\ Len(new) = n + 1 /\ new[n + 1] = e
      /\ \A i \in 1..n : new[i] = log[i]
  BY Appended
<1> HIDE DEF new
<1> SUFFICES ASSUME NEW i \in 1..(n + 1), new[i].kind = "auto_credit"
             PROVE  /\ i < n + 1
                    /\ new[i + 1].kind = "spend"
                    /\ new[i + 1].ref = new[i].ref
                    /\ new[i + 1].after = 0
  BY <1>1 DEF Spent, new
<1>2. i \in 1..n
  BY <1>1
<1>3. /\ i < n /\ log[i + 1].kind = "spend" /\ log[i + 1].ref = log[i].ref
      /\ log[i + 1].after = 0
  BY <1>1, <1>2 DEF Spent
<1> QED
  BY <1>1, <1>2, <1>3

\* A top-up and the debit that takes it.
LEMMA SpentPair ==
    ASSUME NEW log \in Seq(WalletRow), NEW d \in WalletRow, NEW e \in WalletRow,
           Spent(log), e.kind = "spend", e.ref = d.ref, e.after = 0
    PROVE  Spent(Append(Append(log, d), e))
<1> DEFINE mid == Append(log, d)
           new == Append(mid, e)
           n == Len(log)
<1>1. /\ n \in Nat /\ mid \in Seq(WalletRow) /\ Len(mid) = n + 1 /\ mid[n + 1] = d
      /\ \A i \in 1..n : mid[i] = log[i]
  BY Appended
<1> HIDE DEF mid
<1>2. /\ Len(new) = n + 2 /\ new[n + 2] = e
      /\ \A i \in 1..(n + 1) : new[i] = mid[i]
  <2>1. /\ Len(new) = Len(mid) + 1 /\ new[Len(mid) + 1] = e
        /\ \A i \in 1..Len(mid) : new[i] = mid[i]
    BY <1>1, Appended
  <2> HIDE DEF new
  <2> QED
    BY <1>1, <2>1
<1> HIDE DEF new
<1> SUFFICES ASSUME NEW i \in 1..(n + 2), new[i].kind = "auto_credit"
             PROVE  /\ i < n + 2
                    /\ new[i + 1].kind = "spend"
                    /\ new[i + 1].ref = new[i].ref
                    /\ new[i + 1].after = 0
  BY <1>2 DEF Spent, new, mid
<1>3. CASE i \in 1..n
  <2>1. /\ i < n /\ log[i + 1].kind = "spend" /\ log[i + 1].ref = log[i].ref
        /\ log[i + 1].after = 0
    BY <1>1, <1>2, <1>3 DEF Spent
  <2>2. new[i] = log[i] /\ new[i + 1] = log[i + 1]
    BY <1>1, <1>2, <1>3, <2>1
  <2> QED
    BY <1>1, <1>3, <2>1, <2>2
<1>4. CASE i = n + 1
  <2>1. new[n + 1] = d /\ new[i + 1] = e
    BY <1>1, <1>2, <1>4
  <2> QED
    BY <1>1, <1>4, <2>1
<1>5. CASE i = n + 2
  BY <1>2, <1>5
<1> QED
  BY <1>1, <1>3, <1>4, <1>5

\* A row that is no debit, when nothing is granted.
LEMMA DebitedAppend ==
    ASSUME NEW u, NEW log \in Seq(WalletRow), NEW e \in WalletRow, NEW g,
           Debited(u, log, g), e.kind # "spend"
    PROVE  Debited(u, Append(log, e), g)
<1> DEFINE new == Append(log, e)
           n == Len(log)
<1>1. /\ n \in Nat /\ Len(new) = n + 1 /\ new[n + 1] = e
      /\ \A i \in 1..n : new[i] = log[i]
  BY Appended
<1> HIDE DEF new
<1>2. ASSUME NEW i \in 1..(n + 1), new[i].kind = "spend"
      PROVE  /\ new[i].ref \in DOMAIN g
             /\ new[i].ref.user = u
             /\ new[i].amount = -Price[g[new[i].ref].product]
  <2>1. i \in 1..n /\ new[i] = log[i]
    BY <1>1, <1>2
  <2> QED
    BY <1>2, <2>1 DEF Debited
<1>3. ASSUME NEW k \in DOMAIN g, k.user = u
      PROVE  \E i \in 1..(n + 1) : new[i].kind = "spend" /\ new[i].ref = k
  <2>1. PICK i \in 1..n : log[i].kind = "spend" /\ log[i].ref = k
    BY <1>3 DEF Debited
  <2> QED
    BY <1>1, <2>1
<1> QED
  BY <1>1, <1>2, <1>3 DEF Debited, new

\* The debit of a new grant.
LEMMA DebitedGrant ==
    ASSUME NEW u, NEW log \in Seq(WalletRow), NEW e \in WalletRow,
           NEW g, NEW h, NEW k, Debited(u, log, g),
           DOMAIN h = DOMAIN g \cup {k}, \A j \in DOMAIN g : h[j] = g[j],
           k.user = u, e.kind = "spend", e.ref = k, e.amount = -Price[h[k].product]
    PROVE  Debited(u, Append(log, e), h)
<1> DEFINE new == Append(log, e)
           n == Len(log)
<1>1. /\ n \in Nat /\ Len(new) = n + 1 /\ new[n + 1] = e
      /\ \A i \in 1..n : new[i] = log[i]
  BY Appended
<1> HIDE DEF new
<1>2. ASSUME NEW i \in 1..(n + 1), new[i].kind = "spend"
      PROVE  /\ new[i].ref \in DOMAIN h
             /\ new[i].ref.user = u
             /\ new[i].amount = -Price[h[new[i].ref].product]
  <2>1. CASE i \in 1..n
    <3>1. /\ log[i].ref \in DOMAIN g /\ log[i].ref.user = u
          /\ log[i].amount = -Price[g[log[i].ref].product]
      BY <1>1, <1>2, <2>1 DEF Debited
    <3> QED
      BY <1>1, <2>1, <3>1
  <2>2. CASE i = n + 1
    BY <1>1, <2>2
  <2> QED
    BY <1>1, <2>1, <2>2
<1>3. ASSUME NEW j \in DOMAIN h, j.user = u
      PROVE  \E i \in 1..(n + 1) : new[i].kind = "spend" /\ new[i].ref = j
  <2>1. CASE j = k
    BY <1>1, <2>1
  <2>2. CASE j # k
    <3>1. PICK i \in 1..n : log[i].kind = "spend" /\ log[i].ref = j
      BY <1>3, <2>2 DEF Debited
    <3> QED
      BY <1>1, <3>1
  <2> QED
    BY <2>1, <2>2
<1> QED
  BY <1>1, <1>2, <1>3 DEF Debited, new

\* Every action keeps the ledger.
LEMMA LedgerStep == TypeOK /\ LedgerInv /\ [Next]_vars => LedgerInv'
<1> SUFFICES ASSUME TypeOK, LedgerInv, [Next]_vars, NEW u \in User
             PROVE  Wallet(u, walletLog'[u], balance'[u], grants')
  BY DEF LedgerInv
<1>0. /\ walletLog[u] \in Seq(WalletRow) /\ balance[u] \in Int
      /\ Wallet(u, walletLog[u], balance[u], grants)
  BY DEF TypeOK, LedgerInv
<1>1. ASSUME NEW auto \in AutoCredit, GrantGoods(auto)
      PROVE  Wallet(u, walletLog'[u], balance'[u], grants')
  <2>k. PICK k : k = Current
    OBVIOUS
  <2>p. PICK p : p = payments[k].amount
    OBVIOUS
  <2>1. /\ k \in PayKey /\ k.user \in User /\ p \in Product /\ k \notin DOMAIN grants
    BY <1>1, <2>k, <2>p, CurrentRow DEF GrantGoods, NotGranted, PayKey, TypeOK
  <2>2. Price[p] \in Nat
    BY <2>1, CatalogAssumption
  <2>3. /\ DOMAIN grants' = DOMAIN grants \cup {k}
        /\ \A j \in DOMAIN grants : grants'[j] = grants[j]
        /\ grants'[k].product = p
    <3>1. grants' = Put(grants, k, [product |-> p, first |-> FirstGoods(k.user, p)])
      BY <1>1, <2>k, <2>p DEF GrantGoods
    <3> QED
      BY <2>1, <3>1 DEF Put
  <2>4. CASE u # k.user
    <3>1. walletLog'[u] = walletLog[u] /\ balance'[u] = balance[u]
      BY <1>1, <2>k, <2>4 DEF GrantGoods, TypeOK
    <3>2. Debited(u, walletLog[u], grants')
      BY <1>0, <2>3, <2>4 DEF Wallet, Debited
    <3> QED
      BY <1>0, <3>1, <3>2 DEF Wallet
  <2>5. CASE u = k.user
    <3> DEFINE log == walletLog[u]
               b == balance[u]
               d == Entry("auto_credit", k, Price[p] - b, b)
               e == Entry("spend", k, -Price[p], IF b < Price[p] THEN Price[p] ELSE b)
    <3>1. /\ balance'[u] = IF b < Price[p] THEN 0 ELSE b - Price[p]
          /\ walletLog'[u] = log \o PurchaseEntries(k, p)
      BY <1>1, <2>k, <2>p, <2>5 DEF GrantGoods, TypeOK
    <3>2. d \in WalletRow /\ e \in WalletRow
      BY <1>0, <2>1, <2>2, EntryType
    <3>3. /\ d.kind = "auto_credit" /\ d.ref = k /\ d.before = b
          /\ d.after = b + d.amount /\ d.after = Price[p]
          /\ e.kind = "spend" /\ e.ref = k /\ e.amount = -Price[p]
          /\ e.before = (IF b < Price[p] THEN Price[p] ELSE b)
          /\ e.after = e.before + e.amount /\ e.after = balance'[u]
      BY <1>0, <2>2, <3>1 DEF Entry
    <3>4. CASE b < Price[p]
      <4>1. walletLog'[u] = Append(Append(log, d), e)
        <5>1. PurchaseEntries(k, p) = <<d, e>>
          BY <2>5, <3>4 DEF PurchaseEntries
        <5> HIDE DEF d, e, log
        <5> QED
          BY <1>0, <3>1, <3>2, <5>1, ConcatTwo DEF log
      <4> HIDE DEF d, e
      <4>2. Append(log, d) \in Seq(WalletRow) /\ Chain(Append(log, d), d.after)
        BY <1>0, <2>2, <3>2, <3>3, Appended, ChainAppend DEF Wallet
      <4>3. Chain(Append(Append(log, d), e), e.after)
        <5>1. e.before = d.after /\ e.after = d.after + e.amount /\ e.after >= 0 /\ d.after \in Int
          BY <2>2, <3>1, <3>3, <3>4
        <5> DEFINE mid == Append(log, d)
        <5>2. mid \in Seq(WalletRow) /\ Chain(mid, d.after)
          BY <4>2
        <5> HIDE DEF mid
        <5>3. Chain(Append(mid, e), e.after)
          BY <3>2, <5>1, <5>2, ChainAppend
        <5> QED
          BY <5>3 DEF mid
      <4>4. Spent(Append(Append(log, d), e))
        BY <1>0, <3>1, <3>2, <3>3, <3>4, SpentPair DEF Wallet
      <4>5. Debited(u, Append(Append(log, d), e), grants')
        <5>1. Debited(u, Append(log, d), grants)
          BY <1>0, <3>2, <3>3, DebitedAppend DEF Wallet
        <5> QED
          BY <2>3, <2>5, <3>2, <3>3, <4>2, <5>1, DebitedGrant
      <4> QED
        BY <3>3, <4>1, <4>3, <4>4, <4>5 DEF Wallet
    <3>5. CASE ~(b < Price[p])
      <4>1. walletLog'[u] = Append(log, e)
        <5>1. PurchaseEntries(k, p) = <<e>>
          BY <2>5, <3>5 DEF PurchaseEntries
        <5> HIDE DEF e, log
        <5> QED
          BY <1>0, <3>1, <3>2, <5>1, AppendIsConcat DEF log
      <4> HIDE DEF d, e
      <4>2. Chain(Append(log, e), e.after)
        <5>1. e.before = b /\ e.after = b + e.amount /\ e.after >= 0
          BY <1>0, <2>2, <3>1, <3>3, <3>5
        <5> QED
          BY <1>0, <3>2, <5>1, ChainAppend DEF Wallet
      <4>3. Spent(Append(log, e))
        BY <1>0, <3>2, <3>3, SpentAppend DEF Wallet
      <4>4. Debited(u, Append(log, e), grants')
        BY <1>0, <2>3, <2>5, <3>2, <3>3, DebitedGrant DEF Wallet
      <4> QED
        BY <3>3, <4>1, <4>2, <4>3, <4>4 DEF Wallet
    <3> QED
      BY <3>4, <3>5
  <2> QED
    BY <2>4, <2>5
<1>2. ASSUME NEW v \in User, NEW ref \in CreditRef, CreditWallet(v, ref)
      PROVE  Wallet(u, walletLog'[u], balance'[u], grants')
  <2> DEFINE b == balance[v]
             e == Entry("credit", ref, CreditAmount[ref], b)
  <2>1. grants' = grants
    BY <1>2 DEF CreditWallet
  <2>2. CASE u # v
    <3>1. walletLog'[u] = walletLog[u] /\ balance'[u] = balance[u]
      BY <1>2, <2>2 DEF CreditWallet, TypeOK
    <3> QED
      BY <1>0, <2>1, <3>1
  <2>3. CASE u = v
    <3>0. CreditAmount[ref] \in Nat
      BY AmountAssumption
    <3>1. /\ walletLog'[u] = Append(walletLog[u], e)
          /\ balance'[u] = b + CreditAmount[ref]
      BY <1>2, <2>3 DEF CreditWallet, TypeOK
    <3>2. e \in WalletRow
      BY <1>0, <2>3, <3>0, EntryType
    <3>3. /\ e.kind = "credit" /\ e.before = b /\ e.after = b + e.amount
          /\ e.after = balance'[u] /\ e.amount = CreditAmount[ref]
      BY <3>1 DEF Entry
    <3>4. b >= 0
      <4>1. Len(walletLog[u]) \in Nat
        BY <1>0
      <4> QED
        BY <1>0, <2>3, <4>1 DEF Wallet, Chain
    <3> HIDE DEF e
    <3>5. Chain(Append(walletLog[u], e), e.after)
      <4>1. e.after >= 0
        BY <1>0, <2>3, <3>0, <3>3, <3>4
      <4> QED
        BY <1>0, <2>3, <3>2, <3>3, <4>1, ChainAppend DEF Wallet
    <3> QED
      BY <1>0, <2>1, <3>1, <3>2, <3>3, <3>5, SpentAppend, DebitedAppend DEF Wallet
  <2> QED
    BY <2>2, <2>3
<1>3. ASSUME UNCHANGED <<walletLog, balance, grants>>
      PROVE  Wallet(u, walletLog'[u], balance'[u], grants')
  BY <1>0, <1>3
<1> QED
  BY <1>1, <1>2, <1>3
     DEF Next, CreateSpend, FindGameOrder, SettlePaymentOrder, SettleGamePayment,
         OtherProcesses, RecordPaymentOrder, FindMatchingOrder, FindMismatchedOrder,
         FindNoOrder, FindNothing, GoodsAlreadyGranted, InsufficientBalance,
         GrantDiamonds, DiamondsAlreadyGranted, MarkPaymentOrderRejected, HttpCrash,
         CreateGameOrder, RebindRole, MergeGameState, wallet, vars

LEMMA LedgerInit == Init => LedgerInv
<1> SUFFICES ASSUME Init, NEW u \in User
             PROVE  Wallet(u, walletLog[u], balance[u], grants)
  BY DEF LedgerInv
<1>1. balance[u] = 0 /\ walletLog[u] = << >> /\ DOMAIN grants = {}
  BY DEF Init
<1>2. Len(walletLog[u]) = 0
  BY <1>1
<1> QED
  BY <1>1, <1>2 DEF Wallet, Chain, Spent, Debited

LEMMA Ledger == Spec => []LedgerInv
  BY TypeCorrect, LedgerInit, LedgerStep, PTL DEF Spec

\* Whatever the HTTP process and the command line tool write, interleaved and
\* crashed: the wallet is the end of its own ledger (settle_payment_order,
\* credit_wallet).
THEOREM LedgerAddsUp == Spec => []LedgerChain
<1>1. LedgerInv => LedgerChain
  BY DEF LedgerInv, Wallet, Chain, LedgerChain
<1> QED
  BY <1>1, Ledger, PTL

\* G points are debited once for each product granted, and for nothing else.
THEOREM DebitsAreGrants == Spec => []DebitPerGrant
<1>1. TypeOK /\ LedgerInv => DebitPerGrant
  <2> SUFFICES ASSUME TypeOK, LedgerInv PROVE DebitPerGrant
    OBVIOUS
  <2>1. \A u \in User : Debited(u, walletLog[u], grants)
    BY DEF LedgerInv, Wallet
  <2>2. \A k \in DOMAIN grants : k.user \in User
    BY DEF TypeOK, PayKey
  <2> QED
    BY <2>1, <2>2 DEF Debited, DebitPerGrant
<1> QED
  BY <1>1, Ledger, TypeCorrect, PTL

\* An automatic top-up is taken by the debit it was made for.
THEOREM TopUpIsSpent == Spec => []AutoCreditIsSpent
<1>1. LedgerInv => AutoCreditIsSpent
  BY DEF LedgerInv, Wallet, Spent, AutoCreditIsSpent
<1> QED
  BY <1>1, Ledger, PTL

=============================================================================
