---------------------------- MODULE MCOrderChase ----------------------------
(* Constants for the runs of OrderChase: a buy and a sell on one symbol.   *)
EXTENDS OrderChase

CONSTANTS buy, sell

MCOrders == {buy, sell}
MCSideOf == [o \in MCOrders |-> IF o = buy THEN "LONG" ELSE "SHORT"]
MCQty    == [o \in MCOrders |-> IF o = buy THEN 2 ELSE 1]
=============================================================================
