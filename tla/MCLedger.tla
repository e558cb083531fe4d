------------------------------- MODULE MCLedger -------------------------------
(* Orders that buy and sell one symbol and buy another, amounts large       *)
(* enough to overflow.                                                      *)
EXTENDS Ledger

Buy(symbol, price4) == [symbol |-> symbol, side |-> 1, price4 |-> price4]
Sell(symbol, price4) == [symbol |-> symbol, side |-> -1, price4 |-> price4]

TwoSymbols == [bid |-> Buy(1, 2), offer |-> Sell(1, 3), other |-> Sell(2, 2)]

TwoSymbolOrders == DOMAIN TwoSymbols

LockedAndWide == {<<2, 2>>, <<2, 3>>}
Rebate == -10
===============================================================================
