---------------------------- MODULE CoinExchange ----------------------------
(* What charging coins promises to both sides: coins are given only for      *)
(* money that was paid and has brought none yet; money goes back only for    *)
(* coins that were taken first, at most as much; and coins that were taken   *)
(* come back only while their money has not gone.                            *)
EXTENDS Integers

CONSTANTS
    Orders,
    Amount     \* what each order is worth, in coins and in money

VARIABLES
    coins,     \* what an order has brought its owner
    taken,     \* coins taken for money that has not gone back
    money      \* what was paid for an order and has not gone back

\* The account of one order changes by these amounts.
Changes(o, c, t, m) ==
    /\ coins' = [coins EXCEPT ![o] = @ + c]
    /\ taken' = [taken EXCEPT ![o] = @ + t]
    /\ money' = [money EXCEPT ![o] = @ + m]

-----------------------------------------------------------------------------

Pays(o)     == Changes(o, 0, 0, Amount[o])
Receives(o) == /\ coins[o] + taken[o] + Amount[o] <= money[o]
               /\ Changes(o, Amount[o], 0, 0)
\* By a bank transfer, which is entered when the coins are given.
Buys(o)     == Changes(o, Amount[o], 0, Amount[o])

GivesIn(o, n)     == Changes(o, -n, n, 0)
IsRefused(o, n)   == n <= taken[o] /\ Changes(o, n, -n, 0)
IsPaid(o, n, m)   == n <= taken[o] /\ Changes(o, 0, -n, -m)
\* A clawback.
Loses(o, n)       == Changes(o, -n, 0, 0)

AbstractInit ==
    /\ coins = [o \in Orders |-> 0]
    /\ taken = [o \in Orders |-> 0]
    /\ money = [o \in Orders |-> 0]

Exchange ==
    \E o \in Orders :
        \/ Pays(o) \/ Receives(o) \/ Buys(o)
        \/ \E n \in 1..Amount[o] :
              \/ GivesIn(o, n) \/ IsRefused(o, n) \/ Loses(o, n)
              \/ \E m \in 0..n : IsPaid(o, n, m)

AbstractSpec == AbstractInit /\ [][Exchange]_<<coins, taken, money>>
=============================================================================
