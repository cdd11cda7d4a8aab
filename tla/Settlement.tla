----------------------------- MODULE Settlement -----------------------------
(***************************************************************************)
(* What the payment half of the database promises the game: an order that  *)
(* was placed is settled at most once, by a payment of the account it was  *)
(* placed for, which credits the order's role in the same step; a payment  *)
(* buys one thing, goods or one order's diamonds; and the first purchase   *)
(* of a product carries the bonus.  Between two settlements the game may   *)
(* leave a role with other diamonds: it is played, and a handler that read *)
(* the role before a settlement writes back what it read.  How requests,   *)
(* retries, statuses, the wallet and the events lead there is the business *)
(* of Payments, which implements this specification                        *)
(* (Payments!ImplementsSettlement).                                        *)
(***************************************************************************)
EXTENDS Integers

CONSTANTS User, Role, Product, Quantity, Bonus, Order,
    Payment,          \* keys of payments, with the paying account as .user
    InitialDiamond,   \* the diamonds each role starts with
    PlayedDiamond     \* the diamonds the game may leave a role with

VARIABLES
    placed,    \* the orders placed: for which role, account and product
    settled,   \* the payment of each order that is settled
    goods,     \* the product each payment for goods bought
    diamond    \* the diamonds of each role

vars == <<placed, settled, goods, diamond>>

With(f, k, v) == [x \in DOMAIN f \cup {k} |-> IF x = k THEN v ELSE f[x]]

\* The payment has bought nothing.
Unspent(k) == k \notin DOMAIN goods /\ \A o \in DOMAIN settled : settled[o] # k

Place(o, row) ==
    /\ o \notin DOMAIN placed
    /\ placed' = With(placed, o, row)
    /\ UNCHANGED <<settled, goods, diamond>>

FirstForRole(r, p) ==
    \A o \in DOMAIN settled : ~(placed[o].role = r /\ placed[o].product = p)

Worth(r, p) == Quantity[p] + (IF FirstForRole(r, p) THEN Bonus[p] ELSE 0)

Settle(o, k) ==
    /\ o \in DOMAIN placed \ DOMAIN settled
    /\ Unspent(k)
    /\ placed[o].user = k.user
    /\ settled' = With(settled, o, k)
    /\ diamond' = [diamond EXCEPT ![placed[o].role] =
                     @ + Worth(placed[o].role, placed[o].product)]
    /\ UNCHANGED <<placed, goods>>

\* The game writes a role.
Play(r, d) ==
    /\ diamond' = [diamond EXCEPT ![r] = d]
    /\ UNCHANGED <<placed, settled, goods>>

FirstForUser(u, p) ==
    \A k \in DOMAIN goods : ~(k.user = u /\ goods[k].product = p)

Deliver(k, p) ==
    /\ Unspent(k)
    /\ goods' = With(goods, k, [product |-> p, first |-> FirstForUser(k.user, p)])
    /\ UNCHANGED <<placed, settled, diamond>>

Init ==
    /\ placed = << >>
    /\ settled = << >>
    /\ goods = << >>
    /\ diamond = InitialDiamond

Next ==
    \/ \E o \in Order, row \in [role: Role, user: User, product: Product] : Place(o, row)
    \/ \E o \in DOMAIN placed, k \in Payment : Settle(o, k)
    \/ \E k \in Payment, p \in Product : Deliver(k, p)
    \/ \E r \in Role, d \in PlayedDiamond : Play(r, d)

Spec == Init /\ [][Next]_vars

=============================================================================
