--------------------------- MODULE MCTossPayments ---------------------------
(* Small instances of TossPayments: one user, one or two orders.           *)
EXTENDS TossPayments

CONSTANTS o1, o2, u1, k1, k2

OneOwner    == [o \in Orders |-> u1]
OneOrder    == [k \in Keys |-> o1]
OrderPerKey == [k \in Keys |-> IF k = k1 THEN o1 ELSE o2]
Two   == [o \in Orders |-> 2]
FourAndOne == [o \in Orders |-> IF o = o1 THEN 4 ELSE 1]
ThreeAndOne == [o \in Orders |-> IF o = o1 THEN 3 ELSE 1]
Three == [o \in Orders |-> 3]
=============================================================================
