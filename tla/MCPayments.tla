----------------------------- MODULE MCPayments -----------------------------
(* Payments on two accounts that share one role. *)
EXTENDS Payments, TLC

CONSTANTS u1, u2, r1, p1, p2, o1, o2, c1, c2, k1, k2

MCPrice == (p1 :> 2) @@ (p2 :> 3)
MCQuantity == (p1 :> 1) @@ (p2 :> 2)
MCBonus == (p1 :> 1) @@ (p2 :> 2)
MCInitialDiamond == (r1 :> 1)
NoDiamond == << >>
Req(u, n, x, s, a) ==
    [user |-> u, num |-> n, extra |-> [orderNo |-> x, scope |-> s], amount |-> a]

\* The wallet alone, without game orders: the same product bought twice under
\* two order numbers, a dearer one without a number, and an amount that is no
\* price.
WalletRequest ==
    { Req(u1, c1, NoNum, TRUE, p1), Req(u1, c2, NoNum, TRUE, p1),
      Req(u1, NoNum, NoNum, TRUE, p2), Req(u2, NoNum, NoNum, TRUE, NoProduct) }
WalletCredit == (k1 :> 4) @@ (k2 :> 1)

\* Game orders paid under their own number, and without orderNum (so under
\* the digest of the body); a retry of a stored number with another amount or
\* with less in extra; a request whose two numbers disagree; and an account
\* that pays, for another server, an order that may be another one's.
DiamondRequest ==
    { Req(u1, o1, o1, TRUE, p1), Req(u1, o1, NoNum, TRUE, p2),
      Req(u1, NoNum, o1, TRUE, p1),
      Req(u1, o2, o1, TRUE, p1), Req(u1, o2, NoNum, TRUE, p1),
      Req(u2, o1, NoNum, FALSE, p1) }
DiamondCredit == << >>

\* Retries: one order paid under its number, with a wrong amount between, and
\* goods paid under the digest of the body.
RetryRequest ==
    { Req(u1, o1, o1, TRUE, p1), Req(u1, o1, o1, TRUE, p2),
      Req(u1, NoNum, NoNum, TRUE, p1) }

=============================================================================
