------------------------------ MODULE PaperBook -----------------------------
(***************************************************************************)
(* OrderManager of layer5_execution as a book: orders that are filled at   *)
(* once, the position they make, its average price, and what is realised.  *)
(* Against it stand the cash and the net amount that the same fills make.  *)
(***************************************************************************)
EXTENDS Integers, Sequences

CONSTANTS Prices, Sizes, \* above 0
          MaxOrders \* bound: orders

All == 0 \* close without a size

VARIABLES
  size, entry_price, unrealised, \* positions[symbol]
  realised,                      \* the sum of order.pnl
  cash, net,                     \* what the fills come to
  mark,                          \* the last price
  orders,
  deviations                     \* history: what has made the book deviate

vars == <<size, entry_price, unrealised, realised, cash, net, mark, orders, deviations>>

Init ==
  /\ size = 0 /\ entry_price = 0 /\ unrealised = 0 /\ realised = 0
  /\ cash = 0 /\ net = 0 /\ mark \in Prices
  /\ orders = 0 /\ deviations = {}

Abs(n) == IF n < 0 THEN -n ELSE n
Sign(n) == IF n > 0 THEN 1 ELSE IF n < 0 THEN -1 ELSE 0

\* A fill on the market: the amount is positive for a buy.
Filled(amount, price) ==
  /\ orders < MaxOrders /\ orders' = orders + 1
  /\ cash' = cash - amount * price
  /\ net' = net + amount
  /\ mark' = price

-----------------------------------------------------------------------------
\* Mutant of Averaged: the price of the last order.
AveragedLast(amount, price) == price

\* The average price of a position that grows, which may have to be rounded.
Paid(amount, price) == entry_price * Abs(size) + price * Abs(amount)
Averaged(amount, price) == Paid(amount, price) \div Abs(size + amount)
Rounded(amount, price) == Sign(amount) = Sign(size) /\ Paid(amount, price) % Abs(size + amount) # 0

\* The position that an order leaves: a larger one of the other side replaces it by all
\* of its own size instead of what remains of it.
Updated(amount) == IF Sign(amount) # -Sign(size) \/ Abs(amount) <= Abs(size) THEN size + amount ELSE amount

\* _update_position
UpdatePosition(amount, price) ==
  /\ size' = Updated(amount)
  /\ entry_price' =
       IF size = 0 THEN price
       ELSE IF Sign(amount) = Sign(size) THEN Averaged(amount, price)
       ELSE IF size' = 0 THEN 0
       ELSE IF Abs(amount) <= Abs(size) THEN entry_price
       ELSE price
  /\ deviations' = deviations \cup
       {d \in {"not realised"} : Sign(amount) = -Sign(size)} \cup
       {d \in {"turned"} : Sign(amount) = -Sign(size) /\ Abs(amount) > Abs(size)} \cup
       {d \in {"rounded"} : Rounded(amount, price)}

\* _open_long and _open_short: nothing of a position that the order reduces is realised.
Open(amount, price) ==
  /\ Filled(amount, price)
  /\ UpdatePosition(amount, price)
  /\ UNCHANGED <<unrealised, realised>>

Pnl(amount, price) == IF size > 0 THEN (price - entry_price) * amount ELSE (entry_price - price) * amount

\* _close_position: an order of the other side, of any size, and its profit; and
\* _reduce_position, which takes the size from a short position as well.
Close(requested, price) ==
  /\ size # 0
  /\ LET amount == IF requested = All THEN Abs(size) ELSE requested
     IN /\ Filled(-Sign(size) * amount, price)
        /\ realised' = realised + Pnl(amount, price)
        /\ size' = size - amount
        /\ entry_price' = IF size' = 0 THEN 0 ELSE entry_price
        /\ deviations' = deviations \cup
             {d \in {"short closed"} : size < 0} \cup
             {d \in {"closed beyond"} : amount > Abs(size)}
  /\ UNCHANGED unrealised

\* update_unrealized_pnl: a position of size 0 keeps what it had.
Mark(price) ==
  /\ mark' = price
  /\ unrealised' = IF size = 0 THEN unrealised ELSE Pnl(Abs(size), price)
  /\ UNCHANGED <<size, entry_price, realised, cash, net, orders, deviations>>

Next ==
  \E price \in Prices :
    \/ \E s \in Sizes, side \in {-1, 1} : Open(side * s, price)
    \/ \E s \in Sizes \cup {All} : Close(s, price)
    \/ Mark(price)

-----------------------------------------------------------------------------
\* The position is the sum of the fills, unless an order has turned it, a short position
\* was closed, or more than it was.
PositionIsSum == deviations \subseteq {"not realised", "rounded"} => size = net

\* What is realised and what the position is worth come to the cash and the value of
\* the fills at every price, unless an order of the other side reduced the position
\* without a profit, an average was rounded, or the position is not their sum.
MoneyIsKept == deviations = {} => realised + Pnl(Abs(size), mark) = cash + net * mark
=============================================================================
