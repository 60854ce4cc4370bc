------------------------------ MODULE Accounting ------------------------------
(***************************************************************************)
(* The arithmetic every movement of fuel goes through                      *)
(* (common/delivery-accounting.ts and common/tank-inventory.ts).  One unit *)
(* stands for a quantity of litres far above the 0.001 L tolerance and the *)
(* 1 L threshold of the code, so those disappear and the numbers are       *)
(* integers.  A guard that throws in the code is a predicate here.         *)
(***************************************************************************)
EXTENDS Integers

\* Litres of a batch still to dispatch: declared - delivered - reserved, and
\* nothing for a batch that declares nothing.
RemainingBatchLiters(declared, delivered, reserved) ==
    IF declared > 0 /\ declared - delivered - reserved > 0
    THEN declared - delivered - reserved
    ELSE 0

\* assertCisternCanLoad
CisternCanLoad(capacity, load, liters) == liters > 0 /\ load + liters <= capacity

\* What accept takes out of the cistern: never more than it holds.
Unload(received, load) == IF received < load THEN received ELSE load

\* Slip: no capacity check.
StockAcceptsAnyLevel(stock, received, capacity) == received > 0

\* applyStockDelta: a reception is a positive delta that fits the tank.
StockAccepts(stock, received, capacity) == received > 0 /\ stock + received <= capacity

\* applyStockWithdraw: the depot never goes below zero.
StockCovers(stock, liters) == liters > 0 /\ liters <= stock

===============================================================================
