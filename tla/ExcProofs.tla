------------------------------ MODULE ExcProofs ------------------------------
(***************************************************************************)
(* Theorems about the exchange, for every set of traders, tokens, prices   *)
(* and amounts and any number of orders in the books.                      *)
(***************************************************************************)
EXTENDS Exc, FiniteSetTheorems, SequenceTheorems, TLAPS

Plus(a, b) == a + b

L == INSTANCE FoldFacts WITH Op <- Fill    \* the loop of a market order
Q == INSTANCE FoldFacts WITH Op <- Quote   \* the loop of get_cheapest_price
Total == INSTANCE FoldFacts WITH Op <- Plus \* the sum of balances

\* Something of the order can still be traded, or it was made for nothing.
Open(o) == o.filled < o.amount \/ (o.amount = 0 /\ o.filled = 0)

\* What a loop never changes in an order.
Same(o, p) == o.id = p.id /\ o.trader = p.trader /\ o.amount = p.amount /\ o.price = p.price

Balances(T) == [Traders -> [Tickers -> T]]
Trades == [tradeId : Nat, orderId : Nat, trader1 : Traders, trader2 : Traders,
           price : Nat, amount : Nat]
Accs == [who : Traders, ticker : Tickers, side : Sides, left : Nat, ok : BOOLEAN,
         bal : Balances(Int), book : Seq(Orders), events : Seq(Trades)]
-----------------------------------------------------------------------------
(* One trade *)

\* n of a ticker go from one trader to another.
Move(bal, ticker, from, to, n) ==
    [bal EXCEPT ![to][ticker] = @ + n, ![from][ticker] = @ - n]

LEMMA MoveType ==
    ASSUME NEW bal \in Balances(Int), NEW k \in Tickers, NEW a \in Traders, NEW b \in Traders,
           a # b, NEW n \in Nat
    PROVE  /\ Move(bal, k, a, b, n) \in Balances(Int)
           /\ Move(bal, k, a, b, n)[b][k] = bal[b][k] + n
           /\ Move(bal, k, a, b, n)[a][k] = bal[a][k] - n
           /\ \A c \in Traders, j \in Tickers :
                 j # k \/ c \notin {a, b} => Move(bal, k, a, b, n)[c][j] = bal[c][j]
<1> DEFINE new == Move(bal, k, a, b, n)
           rb == [bal[b] EXCEPT ![k] = @ + n]
           ra == [bal[a] EXCEPT ![k] = @ - n]
<1>1. \A c \in Traders : bal[c] \in [Tickers -> Int]
  BY DEF Balances
<1>2. new = [bal EXCEPT ![b] = rb, ![a] = ra]
  BY DEF Move, Balances
<1>3. /\ rb \in [Tickers -> Int] /\ rb[k] = bal[b][k] + n
      /\ \A j \in Tickers : j # k => rb[j] = bal[b][j]
  BY <1>1
<1>4. /\ ra \in [Tickers -> Int] /\ ra[k] = bal[a][k] - n
      /\ \A j \in Tickers : j # k => ra[j] = bal[a][j]
  BY <1>1
<1> HIDE DEF ra, rb, new
<1>5. /\ new \in Balances(Int) /\ new[b] = rb /\ new[a] = ra
      /\ \A c \in Traders : c \notin {a, b} => new[c] = bal[c]
  BY <1>2, <1>3, <1>4 DEF Balances
<1>6. /\ new[b][k] = bal[b][k] + n
      /\ new[a][k] = bal[a][k] - n
      /\ \A c \in Traders, j \in Tickers : j # k \/ c \notin {a, b} => new[c][j] = bal[c][j]
  BY <1>3, <1>4, <1>5
<1> USE DEF new
<1> QED BY <1>5, <1>6

LEMMA SettleMoves ==
    ASSUME NEW bal \in Balances(Int), NEW k \in Tickers, k # PIN, NEW a \in Traders,
           NEW b \in Traders, a # b, NEW n \in Nat, NEW p \in Nat
    PROVE  /\ n * p \in Nat
           /\ Settle(bal, k, b, a, n, p) = Move(Move(bal, k, a, b, n), PIN, b, a, n * p)
<1> DEFINE v == n * p
<1>1. v \in Nat
  OBVIOUS
<1> HIDE DEF v
<1> DEFINE new == [bal EXCEPT ![b][k] = @ + n, ![b][PIN] = @ - v,
                              ![a][k] = @ - n, ![a][PIN] = @ + v]
           mid == Move(bal, k, a, b, n)
           mov == Move(mid, PIN, b, a, v)
           rb == [bal[b] EXCEPT ![k] = @ + n, ![PIN] = @ - v]
           ra == [bal[a] EXCEPT ![k] = @ - n, ![PIN] = @ + v]
<1>2. \A c \in Traders : bal[c] \in [Tickers -> Int]
  BY DEF Balances
<1>3. new = [bal EXCEPT ![b] = rb, ![a] = ra]
  BY DEF Balances
<1>4. /\ rb \in [Tickers -> Int] /\ rb[k] = bal[b][k] + n /\ rb[PIN] = bal[b][PIN] - v
      /\ \A j \in Tickers : j \notin {k, PIN} => rb[j] = bal[b][j]
  BY <1>2, <1>1, ExcAssumption
<1>5. /\ ra \in [Tickers -> Int] /\ ra[k] = bal[a][k] - n /\ ra[PIN] = bal[a][PIN] + v
      /\ \A j \in Tickers : j \notin {k, PIN} => ra[j] = bal[a][j]
  BY <1>2, <1>1, ExcAssumption
<1> HIDE DEF ra, rb, new
<1>6. /\ new \in Balances(Int) /\ new[b] = rb /\ new[a] = ra
      /\ \A c \in Traders : c \notin {a, b} => new[c] = bal[c]
  BY <1>3, <1>4, <1>5 DEF Balances
<1>7. /\ mid \in Balances(Int)
      /\ mid[b][k] = bal[b][k] + n
      /\ mid[a][k] = bal[a][k] - n
      /\ \A c \in Traders, j \in Tickers : j # k \/ c \notin {a, b} => mid[c][j] = bal[c][j]
  BY MoveType
<1> HIDE DEF mid
<1>8. /\ mov \in Balances(Int)
      /\ mov[a][PIN] = mid[a][PIN] + v
      /\ mov[b][PIN] = mid[b][PIN] - v
      /\ \A c \in Traders, j \in Tickers : j # PIN \/ c \notin {a, b} => mov[c][j] = mid[c][j]
  BY <1>1, <1>7, MoveType, ExcAssumption
<1> HIDE DEF mov
<1>9. \A c \in Traders, j \in Tickers : mov[c][j] = new[c][j]
  BY <1>4, <1>5, <1>6, <1>7, <1>8, ExcAssumption
<1>10. new = mov
  <2>1. \A c \in Traders : mov[c] = new[c]
    BY <1>6, <1>8, <1>9 DEF Balances
  <2> QED BY <1>6, <1>8, <2>1 DEF Balances
<1> USE DEF mov, mid, new
<1> USE DEF v
<1> QED BY <1>1, <1>10 DEF Settle

\* A trade that does not revert leaves no balance below zero, touches the
\* balances of the traded token and PIN only, and those of PIN only if there are
\* any.
Settled(bal, new, k, a, b, n, p) ==
    /\ new \in Balances(Int)
    /\ \A c \in Traders, j \in Tickers : j \notin {k, PIN} => new[c][j] = bal[c][j]
    /\ a # b => new[b][PIN] = bal[b][PIN] - n * p
    /\ bal \in Balances(Nat) /\ (a # b => bal[b][PIN] >= n * p /\ bal[a][k] >= n)
       => /\ new \in Balances(Nat)
          /\ (\A c \in Traders : bal[c][PIN] = 0) => \A c \in Traders : new[c][PIN] = 0

LEMMA SettleType ==
    ASSUME NEW bal \in Balances(Int), NEW k \in Tickers, k # PIN, NEW a \in Traders,
           NEW b \in Traders, NEW n \in Nat, NEW p \in Nat
    PROVE  Settled(bal, Settle(bal, k, b, a, n, p), k, a, b, n, p)
<1> DEFINE new == Settle(bal, k, b, a, n, p)
           mid == Move(bal, k, a, b, n)
           v == n * p
<1>1. CASE a = b
  BY <1>1 DEF Settle, Settled
<1>2. CASE a # b
  <2>1. v \in Nat /\ new = Move(mid, PIN, b, a, v)
    BY <1>2, SettleMoves
  <2>2. /\ mid \in Balances(Int)
        /\ mid[b][k] = bal[b][k] + n
        /\ mid[a][k] = bal[a][k] - n
        /\ \A c \in Traders, j \in Tickers : j # k \/ c \notin {a, b} => mid[c][j] = bal[c][j]
    BY <1>2, MoveType
  <2> HIDE DEF v, mid, new
  <2>3. /\ new \in Balances(Int)
        /\ new[a][PIN] = mid[a][PIN] + v
        /\ new[b][PIN] = mid[b][PIN] - v
        /\ \A c \in Traders, j \in Tickers : j # PIN \/ c \notin {a, b} => new[c][j] = mid[c][j]
    BY <1>2, <2>1, <2>2, MoveType, ExcAssumption
  <2>4. /\ \A c \in Traders, j \in Tickers : j \notin {k, PIN} => new[c][j] = bal[c][j]
        /\ new[b][PIN] = bal[b][PIN] - v /\ new[a][PIN] = bal[a][PIN] + v
        /\ new[b][k] = bal[b][k] + n /\ new[a][k] = bal[a][k] - n
        /\ \A c \in Traders, j \in Tickers : c \notin {a, b} => new[c][j] = bal[c][j]
    BY <1>2, <2>2, <2>3, ExcAssumption
  <2>5. ASSUME bal \in Balances(Nat), bal[b][PIN] >= v, bal[a][k] >= n
        PROVE  /\ new \in Balances(Nat)
               /\ (\A c \in Traders : bal[c][PIN] = 0) => \A c \in Traders : new[c][PIN] = 0
    <3>1. \A c \in Traders, j \in Tickers : bal[c][j] \in Nat
      BY <2>5 DEF Balances
    <3>2. bal[b][PIN] - v \in Nat /\ bal[a][PIN] + v \in Nat /\ bal[b][k] + n \in Nat
          /\ bal[a][k] - n \in Nat
      BY <2>1, <2>5, <3>1, ExcAssumption
    <3>3. \A c \in Traders, j \in Tickers : new[c][j] \in Nat
      BY <2>4, <3>1, <3>2
    <3>4. new \in Balances(Nat)
      BY <2>3, <3>3 DEF Balances
    <3>5. ASSUME \A c \in Traders : bal[c][PIN] = 0, NEW c \in Traders PROVE new[c][PIN] = 0
      <4>1. v = 0
        BY <2>1, <2>5, <3>5
      <4> QED BY <2>4, <3>5, <4>1, ExcAssumption
    <3> QED BY <3>4, <3>5
  <2> USE DEF v, mid, new
  <2> QED BY <1>2, <2>3, <2>4, <2>5 DEF Settled
<1> QED BY <1>1, <1>2
-----------------------------------------------------------------------------
(* One round of the loop *)

\* What is traded with an order, what the taker and the maker of the order are.
Traded(o, left) == IF IsPartial(o, left) THEN left ELSE Available(o)
Buyer(o, acc) == IF acc.side = "BUY" THEN acc.who ELSE o.trader
Seller(o, acc) == IF acc.side = "BUY" THEN o.trader ELSE acc.who
Rest(o, left) == IF IsPartial(o, left) THEN <<[o EXCEPT !.filled = @ + left]>> ELSE <<>>

LEMMA TradedType ==
    ASSUME NEW o \in Orders, Open(o), NEW left \in Nat
    PROVE  /\ Traded(o, left) \in Nat /\ left - Traded(o, left) \in Nat
           /\ IsPartial(o, left) => left - Traded(o, left) = 0
           /\ left = 0 => Traded(o, left) = 0
           /\ Rest(o, left) \in Seq(Orders) /\ Len(Rest(o, left)) \in {0, 1}
           /\ Len(Rest(o, left)) = 1 <=> IsPartial(o, left)
           /\ IsPartial(o, left) => /\ Same(Rest(o, left)[1], o)
                                    /\ Open(Rest(o, left)[1])
<1>1. /\ Traded(o, left) \in Nat /\ left - Traded(o, left) \in Nat
      /\ IsPartial(o, left) => left - Traded(o, left) = 0
      /\ left = 0 => Traded(o, left) = 0
  BY DEF Orders, Open, Traded, IsPartial, Available
<1>2. CASE IsPartial(o, left)
  <2> DEFINE r == [o EXCEPT !.filled = @ + left]
  <2>1. r \in Orders /\ Same(r, o) /\ Open(r)
    BY <1>2 DEF Orders, Open, Same, IsPartial, Available
  <2> HIDE DEF r
  <2>2. <<r>> \in Seq(Orders) /\ Len(<<r>>) = 1 /\ <<r>>[1] = r
    BY <2>1
  <2>3. Rest(o, left) = <<r>>
    BY <1>2 DEF Rest, r
  <2> QED BY <1>1, <1>2, <2>1, <2>2, <2>3
<1>3. CASE ~ IsPartial(o, left)
  BY <1>1, <1>3 DEF Rest
<1> QED BY <1>2, <1>3

LEMMA FillFields ==
    ASSUME NEW o \in Orders, Open(o), NEW acc \in Accs, acc.ticker # PIN,
           nextTradeID \in Nat, nextOrderID \in Nat
    PROVE  LET new == Fill(o, acc)
               n == Traded(o, acc.left)
           IN  /\ new \in Accs
               /\ new.who = acc.who /\ new.ticker = acc.ticker /\ new.side = acc.side
               /\ acc.left = 0 =>
                     /\ new.left = 0 /\ new.ok = acc.ok /\ new.bal = acc.bal
                     /\ new.book = <<o>> \o acc.book
               /\ acc.left # 0 =>
                     /\ new.left = acc.left - n
                     /\ new.ok = (acc.ok /\ CanSettle(acc, Buyer(o, acc), Seller(o, acc), n, o.price))
                     /\ new.bal = Settle(acc.bal, acc.ticker, Buyer(o, acc), Seller(o, acc), n, o.price)
                     /\ new.book = Rest(o, acc.left) \o acc.book
<1> DEFINE new == Fill(o, acc)
           n == Traded(o, acc.left)
           event == [tradeId |-> nextTradeID + Len(acc.events), orderId |-> nextOrderID,
                     trader1 |-> acc.who, trader2 |-> o.trader, price |-> o.price,
                     amount |-> IF IsPartial(o, acc.left) THEN 0 ELSE n]
           ok == acc.ok /\ CanSettle(acc, Buyer(o, acc), Seller(o, acc), n, o.price)
           bal == Settle(acc.bal, acc.ticker, Buyer(o, acc), Seller(o, acc), n, o.price)
           rest == Rest(o, acc.left)
<1>1. /\ acc.who \in Traders /\ acc.ticker \in Tickers /\ acc.side \in Sides /\ acc.left \in Nat
      /\ acc.ok \in BOOLEAN /\ acc.bal \in Balances(Int) /\ acc.book \in Seq(Orders)
      /\ acc.events \in Seq(Trades) /\ o.trader \in Traders /\ o.price \in Nat
  BY DEF Accs, Orders
<1>2. CASE acc.left = 0
  <2>1. new = [acc EXCEPT !.book = <<o>> \o @]
    BY <1>2 DEF Fill
  <2>2. <<o>> \o acc.book \in Seq(Orders)
    BY <1>1
  <2> HIDE DEF new
  <2>3. new \in Accs /\ new.book = <<o>> \o acc.book
    BY <2>1, <2>2 DEF Accs
  <2>4. /\ new.who = acc.who /\ new.ticker = acc.ticker /\ new.side = acc.side
        /\ new.left = acc.left /\ new.ok = acc.ok /\ new.bal = acc.bal
    BY <2>1 DEF Accs
  <2> USE DEF new
  <2> QED BY <1>2, <2>3, <2>4
<1>3. CASE acc.left # 0
  <2>1. new = [acc EXCEPT !.ok = ok, !.bal = bal, !.book = rest \o @, !.left = @ - n,
                          !.events = Append(@, event)]
    <3>1. rest = IF IsPartial(o, acc.left) THEN <<[o EXCEPT !.filled = @ + n]>> ELSE <<>>
      BY DEF Rest, Traded
    <3> QED BY <1>3, <3>1 DEF Fill, Traded, Buyer, Seller
  <2>2. n \in Nat /\ acc.left - n \in Nat /\ rest \in Seq(Orders)
    BY <1>1, TradedType
  <2>3. ok \in BOOLEAN
    BY <1>1
  <2>4. Buyer(o, acc) \in Traders /\ Seller(o, acc) \in Traders
    BY <1>1 DEF Buyer, Seller
  <2>5. bal \in Balances(Int)
    BY <1>1, <2>2, <2>4, SettleType DEF Settled
  <2>6. event \in Trades
    BY <1>1, <2>2 DEF Trades
  <2> HIDE DEF n, ok, bal, rest, event, new
  <2>7. rest \o acc.book \in Seq(Orders) /\ Append(acc.events, event) \in Seq(Trades)
    BY <1>1, <2>2, <2>6
  <2>8. /\ new.who = acc.who /\ new.ticker = acc.ticker /\ new.side = acc.side
        /\ new.left = acc.left - n /\ new.ok = ok /\ new.bal = bal
        /\ new.book = rest \o acc.book
    BY <2>1 DEF Accs
  <2>9. new \in Accs
    BY <2>1, <2>2, <2>3, <2>5, <2>7 DEF Accs
  <2> USE DEF n, ok, bal, rest, event, new
  <2> QED BY <1>3, <2>8, <2>9
<1> QED BY <1>2, <1>3
-----------------------------------------------------------------------------
(* The loop of a market order *)

\* Nobody has a balance of a token that was not added.
Unlisted(bal) == \A a \in Traders, k \in Tickers : tokens[k] = NoAddr => bal[a][k] = 0

\* The accumulator after the rounds for the orders behind position i of B: the
\* new book is a copy of the orders from there on, up to the first one that was
\* used up, and is empty as long as something is left to trade.
Loop(acc, B, i, who, ticker, side) ==
    /\ acc \in Accs /\ acc.who = who /\ acc.ticker = ticker /\ acc.side = side
    /\ acc.left # 0 => acc.book = <<>>
    /\ i + Len(acc.book) <= Len(B)
    /\ \A j \in DOMAIN acc.book : Same(acc.book[j], B[i + j]) /\ Open(acc.book[j])
    /\ acc.ok => acc.bal \in Balances(Nat) /\ Unlisted(acc.bal)

LEMMA LoopStep ==
    ASSUME NEW B \in Seq(Orders), \A i \in DOMAIN B : Open(B[i]), NEW i \in 1 .. Len(B),
           NEW who \in Traders, NEW ticker \in Tickers, ticker # PIN, exist(ticker),
           NEW side \in Sides,
           NEW acc, Loop(acc, B, i, who, ticker, side),
           nextTradeID \in Nat, nextOrderID \in Nat
    PROVE  Loop(Fill(B[i], acc), B, i - 1, who, ticker, side)
<1> DEFINE o == B[i]
           new == Fill(o, acc)
           n == Traded(o, acc.left)
           q == acc.book
<1>1. o \in Orders /\ Open(o) /\ o.price \in Nat /\ o.trader \in Traders
  <2>1. i \in DOMAIN B /\ o \in Orders
    OBVIOUS
  <2>2. Open(o)
    BY <2>1
  <2> HIDE DEF o
  <2> QED BY <2>1, <2>2 DEF Orders
<1>2. /\ acc \in Accs /\ acc.ticker # PIN /\ acc.left \in Nat /\ q \in Seq(Orders)
      /\ acc.bal \in Balances(Int) /\ acc.ok \in BOOLEAN
  BY DEF Loop, Accs
<1>3. /\ new \in Accs
      /\ new.who = acc.who /\ new.ticker = acc.ticker /\ new.side = acc.side
      /\ acc.left = 0 => /\ new.left = 0 /\ new.ok = acc.ok /\ new.bal = acc.bal
                         /\ new.book = <<o>> \o q
      /\ acc.left # 0 =>
            /\ new.left = acc.left - n
            /\ new.ok = (acc.ok /\ CanSettle(acc, Buyer(o, acc), Seller(o, acc), n, o.price))
            /\ new.bal = Settle(acc.bal, acc.ticker, Buyer(o, acc), Seller(o, acc), n, o.price)
            /\ new.book = Rest(o, acc.left) \o q
  BY <1>1, <1>2, FillFields
<1>4. n \in Nat /\ acc.left - n \in Nat
  BY <1>1, <1>2, TradedType
<1> HIDE DEF o, new, n
<1>5. new.who = who /\ new.ticker = ticker /\ new.side = side
  BY <1>3 DEF Loop
<1>6. ASSUME NEW r, Same(r, o), Open(r), new.book = <<r>> \o q, r \in Orders
      PROVE  /\ (i - 1) + Len(new.book) <= Len(B)
             /\ \A j \in DOMAIN new.book :
                   Same(new.book[j], B[(i - 1) + j]) /\ Open(new.book[j])
  <2>1. Len(new.book) = 1 + Len(q) /\ DOMAIN new.book = 1 .. 1 + Len(q) /\ new.book[1] = r
    BY <1>6, <1>2
  <2>2. \A j \in 2 .. 1 + Len(q) : new.book[j] = q[j - 1] /\ j - 1 \in DOMAIN q
                                   /\ i + (j - 1) = (i - 1) + j
    BY <1>6, <1>2
  <2>3. \A j \in DOMAIN q : Same(q[j], B[i + j]) /\ Open(q[j])
    BY DEF Loop
  <2>4. i + Len(q) <= Len(B)
    BY DEF Loop
  <2>5. Same(new.book[1], B[(i - 1) + 1]) /\ Open(new.book[1])
    BY <1>6, <2>1 DEF o
  <2>6. ASSUME NEW j \in 2 .. 1 + Len(q)
        PROVE  Same(new.book[j], B[(i - 1) + j]) /\ Open(new.book[j])
    <3>1. new.book[j] = q[j - 1] /\ j - 1 \in DOMAIN q /\ i + (j - 1) = (i - 1) + j
      BY <2>2
    <3>2. Same(q[j - 1], B[i + (j - 1)]) /\ Open(q[j - 1])
      BY <2>3, <3>1
    <3> QED BY <3>1, <3>2
  <2>7. \A j \in DOMAIN new.book : j = 1 \/ j \in 2 .. 1 + Len(q)
    BY <2>1, <1>2
  <2>8. (i - 1) + Len(new.book) <= Len(B)
    <3>1. Len(q) \in Nat /\ Len(B) \in Nat
      BY <1>2
    <3> QED BY <2>1, <2>4, <3>1
  <2> QED BY <2>5, <2>6, <2>7, <2>8
<1>7. CASE acc.left = 0
  <2>1. Same(o, o)
    BY DEF Same
  <2>2. /\ (i - 1) + Len(new.book) <= Len(B)
        /\ \A j \in DOMAIN new.book : Same(new.book[j], B[(i - 1) + j]) /\ Open(new.book[j])
    BY <1>1, <1>3, <1>6, <1>7, <2>1
  <2>3. new.ok => new.bal \in Balances(Nat) /\ Unlisted(new.bal)
    BY <1>3, <1>7 DEF Loop
  <2> QED BY <1>3, <1>5, <1>7, <2>2, <2>3 DEF Loop, o, new
<1>8. CASE acc.left # 0
  <2>1. q = <<>>
    BY <1>8 DEF Loop
  <2>2. /\ new.left # 0 => new.book = <<>>
        /\ (i - 1) + Len(new.book) <= Len(B)
        /\ \A j \in DOMAIN new.book : Same(new.book[j], B[(i - 1) + j]) /\ Open(new.book[j])
    <3>1. CASE IsPartial(o, acc.left)
      <4> DEFINE r == Rest(o, acc.left)[1]
      <4>1. /\ Rest(o, acc.left) \in Seq(Orders) /\ Len(Rest(o, acc.left)) = 1
            /\ Same(r, o) /\ Open(r) /\ acc.left - n = 0
        BY <3>1, <1>1, <1>2, TradedType DEF n
      <4>2. Rest(o, acc.left) = <<r>> /\ r \in Orders
        BY <4>1
      <4> HIDE DEF r
      <4> QED BY <1>3, <1>6, <1>8, <4>1, <4>2
    <3>2. CASE ~ IsPartial(o, acc.left)
      <4>1. new.book = <<>>
        BY <3>2, <1>3, <1>8, <2>1 DEF Rest
      <4> QED BY <4>1
    <3> QED BY <3>1, <3>2
  <2>3. ASSUME new.ok PROVE new.bal \in Balances(Nat) /\ Unlisted(new.bal)
    <3> DEFINE b == Buyer(o, acc)
               a == Seller(o, acc)
    <3>1. a \in Traders /\ b \in Traders
      BY <1>1, <1>3 DEF Buyer, Seller, Loop
    <3>2. acc.ok /\ CanSettle(acc, b, a, n, o.price)
      BY <1>3, <1>8, <2>3
    <3> HIDE DEF a, b
    <3>3. a # b => acc.bal[b][PIN] >= n * o.price /\ acc.bal[a][ticker] >= n
      BY <3>2 DEF CanSettle, Loop
    <3>4. acc.bal \in Balances(Nat) /\ Unlisted(acc.bal)
      BY <3>2 DEF Loop
    <3>5. new.bal = Settle(acc.bal, ticker, b, a, n, o.price)
      BY <1>3, <1>8 DEF a, b, Loop
    <3>6. /\ \A c \in Traders, j \in Tickers : j \notin {ticker, PIN} => new.bal[c][j] = acc.bal[c][j]
          /\ new.bal \in Balances(Nat)
          /\ (\A c \in Traders : acc.bal[c][PIN] = 0) => \A c \in Traders : new.bal[c][PIN] = 0
      <4>1. Settled(acc.bal, new.bal, ticker, a, b, n, o.price)
        BY <1>1, <1>2, <1>4, <3>1, <3>5, SettleType
      <4> QED BY <3>3, <3>4, <4>1 DEF Settled
    <3>7. Unlisted(new.bal)
      BY <3>4, <3>6 DEF Unlisted, exist
    <3> QED BY <3>6, <3>7
  <2> QED BY <1>3, <1>5, <2>2, <2>3 DEF Loop, o, new
<1> QED BY <1>2, <1>7, <1>8

\* The accumulators of a market order, and the loop invariant for each.
Rounds(g, B, amount, who, ticker, side) ==
    /\ g[Len(B)] = [who |-> who, ticker |-> ticker, side |-> side, left |-> amount, ok |-> TRUE,
                    bal |-> traderBalances, book |-> <<>>, events |-> <<>>]
    /\ \A i \in 1 .. Len(B) : g[i - 1] = Fill(B[i], g[i])
    /\ Execute(who, ticker, amount, side) = g[0]

BooksOpen == \A k \in Tickers, s \in Sides : \A i \in DOMAIN orderBook[k][s] :
                LET o == orderBook[k][s][i] IN Open(o) /\ o.id < nextOrderID

LEMMA ExecuteRounds ==
    ASSUME TypeOK, BooksOpen, Unlisted(traderBalances),
           NEW who \in Traders, NEW ticker \in Tickers, ticker # PIN, exist(ticker),
           NEW side \in Sides, NEW amount \in Nat
    PROVE  \E g : /\ Rounds(g, orderBook[ticker][Other(side)], amount, who, ticker, side)
                  /\ \A i \in 0 .. Len(orderBook[ticker][Other(side)]) :
                        Loop(g[i], orderBook[ticker][Other(side)], i, who, ticker, side)
<1> DEFINE B == orderBook[ticker][Other(side)]
           base == [who |-> who, ticker |-> ticker, side |-> side, left |-> amount, ok |-> TRUE,
                    bal |-> traderBalances, book |-> <<>>, events |-> <<>>]
<1>1. Other(side) \in Sides
  BY DEF Other, Sides
<1>2. B \in Seq(Orders) /\ (\A i \in DOMAIN B : Open(B[i])) /\ Len(B) \in Nat
  BY <1>1 DEF TypeOK, BooksOpen
<1>3. base \in Accs /\ base.bal = traderBalances /\ base.book = <<>>
  <2>1. traderBalances \in Balances(Int) /\ <<>> \in Seq(Orders) /\ <<>> \in Seq(Trades)
    BY DEF TypeOK, Balances
  <2> QED BY <2>1 DEF Accs
<1>4. Loop(base, B, Len(B), who, ticker, side)
  <2>1. traderBalances \in Balances(Nat)
    BY DEF TypeOK, Balances
  <2>2. base.who = who /\ base.ticker = ticker /\ base.side = side
    OBVIOUS
  <2> HIDE DEF base
  <2> QED BY <1>2, <1>3, <2>1, <2>2 DEF Loop
<1>5. PICK g : L!RightRounds(g, B, base)
  <2> HIDE DEF B, base
  <2> QED BY <1>2, L!FoldRightRounds
<1>6. Rounds(g, B, amount, who, ticker, side)
  <2>1. Execute(who, ticker, amount, side) = L!RightFold(B, base)
    BY DEF Execute, FoldRight, MapThenFoldSet, Min,
           L!RightFold, L!FoldRight, L!MapThenFoldSet, L!Min
  <2> QED BY <1>5, <2>1 DEF Rounds, L!RightRounds
<1> DEFINE T == {i \in 0 .. Len(B) : Loop(g[i], B, i, who, ticker, side)}
<1>7. Len(B) \in T
  BY <1>2, <1>4, <1>6 DEF Rounds
<1>8. ASSUME NEW i \in 1 .. Len(B), i \in T PROVE i - 1 \in T
  <2>1. Loop(g[i], B, i, who, ticker, side) /\ g[i - 1] = Fill(B[i], g[i])
    BY <1>6, <1>8 DEF Rounds
  <2>2. nextTradeID \in Nat /\ nextOrderID \in Nat
    BY DEF TypeOK
  <2> HIDE DEF B
  <2>3. Loop(g[i - 1], B, i - 1, who, ticker, side)
    BY <1>2, <2>1, <2>2, LoopStep
  <2> QED BY <1>2, <2>3
<1>9. 0 .. Len(B) \subseteq T
  <2> HIDE DEF T, B
  <2> QED BY <1>2, <1>7, <1>8, L!DownInduction
<1> QED BY <1>6, <1>9
-----------------------------------------------------------------------------
(* The books *)

Sorted(book, s) == \A i, j \in DOMAIN book : i < j =>
                      \/ Ahead(book[i], book[j].price, s)
                      \/ book[i].price = book[j].price /\ book[i].id > book[j].id

\* A book of a side, all of whose orders were made before the order id.
GoodBook(book, s, id) == /\ book \in Seq(Orders)
                         /\ \A i \in DOMAIN book : Open(book[i]) /\ book[i].id < id
                         /\ Sorted(book, s)

LEMMA InsertElements ==
    ASSUME NEW X, NEW b \in Seq(X), NEW p \in 1 .. Len(b) + 1, NEW o \in X
    PROVE  LET new == InsertAt(b, p, o)
           IN  /\ new \in Seq(X) /\ Len(new) = Len(b) + 1 /\ DOMAIN new = 1 .. Len(b) + 1
               /\ \A j \in 1 .. p - 1 : new[j] = b[j] /\ j \in DOMAIN b
               /\ new[p] = o
               /\ \A j \in p + 1 .. Len(b) + 1 : new[j] = b[j - 1] /\ j - 1 \in DOMAIN b
<1> DEFINE u == SubSeq(b, 1, p - 1)
           v == SubSeq(b, p, Len(b))
           w == u \o <<o>>
           new == w \o v
<1>1. u \in Seq(X) /\ Len(u) = p - 1 /\ \A j \in 1 .. p - 1 : u[j] = b[j]
  OBVIOUS
<1>2. v \in Seq(X) /\ Len(v) = Len(b) - p + 1 /\ \A j \in 1 .. Len(b) - p + 1 : v[j] = b[p + j - 1]
  OBVIOUS
<1> HIDE DEF u, v
<1>3. w \in Seq(X) /\ Len(w) = p /\ w[p] = o /\ \A j \in 1 .. p - 1 : w[j] = b[j]
  BY <1>1, SMTT(30)
<1> HIDE DEF w
<1>4. new \in Seq(X) /\ Len(new) = Len(b) + 1 /\ DOMAIN new = 1 .. Len(b) + 1
  <2>1. new \in Seq(X) /\ Len(new) = Len(w) + Len(v)
    BY <1>2, <1>3, ConcatProperties
  <2>2. Len(w) + Len(v) = Len(b) + 1
    BY <1>2, <1>3
  <2> HIDE DEF new
  <2> QED BY <2>1, <2>2
<1>5. \A j \in 1 .. p : new[j] = w[j]
  BY <1>2, <1>3
<1>6. \A j \in p + 1 .. Len(b) + 1 : new[j] = v[j - p]
  BY <1>2, <1>3
<1>7. ASSUME NEW j \in p + 1 .. Len(b) + 1 PROVE new[j] = b[j - 1]
  <2>1. j - p \in 1 .. Len(b) - p + 1 /\ p + (j - p) - 1 = j - 1
    OBVIOUS
  <2>2. v[j - p] = b[p + (j - p) - 1]
    BY <1>2, <2>1
  <2> QED BY <1>6, <2>1, <2>2
<1>8. (\A j \in 1 .. p - 1 : j \in DOMAIN b) /\ \A j \in p + 1 .. Len(b) + 1 : j - 1 \in DOMAIN b
  OBVIOUS
<1>9. InsertAt(b, p, o) = new
  BY DEF InsertAt, u, v, w
<1>10. (\A j \in 1 .. p - 1 : new[j] = b[j]) /\ new[p] = o
  BY <1>3, <1>5
<1> HIDE DEF new
<1> QED BY <1>4, <1>7, <1>8, <1>9, <1>10

LEMMA RemoveElements ==
    ASSUME NEW X, NEW b \in Seq(X), NEW p \in 1 .. Len(b)
    PROVE  LET new == RemoveAt(b, p)
           IN  /\ new \in Seq(X) /\ Len(new) = Len(b) - 1 /\ DOMAIN new = 1 .. Len(b) - 1
               /\ \A j \in 1 .. Len(b) - 1 : new[j] = IF j < p THEN b[j] ELSE b[j + 1]
<1> DEFINE u == SubSeq(b, 1, p - 1)
           v == SubSeq(b, p + 1, Len(b))
           new == u \o v
<1>1. u \in Seq(X) /\ Len(u) = p - 1 /\ \A j \in 1 .. p - 1 : u[j] = b[j]
  OBVIOUS
<1>2. v \in Seq(X) /\ Len(v) = Len(b) - p /\ \A j \in 1 .. Len(b) - p : v[j] = b[p + j]
  OBVIOUS
<1> HIDE DEF u, v
<1>3. new \in Seq(X) /\ Len(new) = Len(b) - 1 /\ DOMAIN new = 1 .. Len(b) - 1
  BY <1>1, <1>2
<1>4. \A j \in 1 .. p - 1 : new[j] = b[j]
  BY <1>1, <1>2
<1>5. ASSUME NEW j \in p .. Len(b) - 1 PROVE new[j] = b[j + 1]
  <2>1. new[j] = v[j - p + 1]
    BY <1>1, <1>2
  <2>2. j - p + 1 \in 1 .. Len(b) - p /\ p + (j - p + 1) = j + 1
    OBVIOUS
  <2>3. v[j - p + 1] = b[p + (j - p + 1)]
    BY <1>2, <2>2
  <2> QED BY <2>1, <2>2, <2>3
<1>6. RemoveAt(b, p) = new
  BY DEF RemoveAt, u, v
<1> HIDE DEF new
<1> QED BY <1>3, <1>4, <1>5, <1>6

LEMMA RemoveGood ==
    ASSUME NEW s \in Sides, NEW id \in Nat, NEW b, GoodBook(b, s, id), NEW p \in DOMAIN b
    PROVE  GoodBook(RemoveAt(b, p), s, id)
<1> DEFINE new == RemoveAt(b, p)
           at(j) == IF j < p THEN j ELSE j + 1
<1>1. b \in Seq(Orders) /\ p \in 1 .. Len(b) /\ DOMAIN b = 1 .. Len(b) /\ Len(b) \in Nat
  BY DEF GoodBook
<1>2. /\ new \in Seq(Orders) /\ DOMAIN new = 1 .. Len(b) - 1
      /\ \A j \in DOMAIN new : new[j] = b[at(j)]
  BY <1>1, RemoveElements
<1>3. \A j \in DOMAIN new : at(j) \in DOMAIN b
  BY <1>1, <1>2
<1>4. \A i, j \in DOMAIN new : i < j => at(i) < at(j)
  BY <1>1, <1>2
<1> HIDE DEF new, at
<1>5. Sorted(new, s)
  BY <1>2, <1>3, <1>4 DEF GoodBook, Sorted
<1>6. \A j \in DOMAIN new : Open(new[j]) /\ new[j].id < id
  BY <1>2, <1>3 DEF GoodBook
<1>7. GoodBook(new, s, id)
  BY <1>2, <1>5, <1>6 DEF GoodBook
<1> QED BY <1>7 DEF new

\* What a market order leaves of a book.
LEMMA CopyGood ==
    ASSUME NEW s \in Sides, NEW id \in Nat, NEW b, GoodBook(b, s, id), NEW q \in Seq(Orders),
           Len(q) <= Len(b), \A j \in DOMAIN q : Same(q[j], b[j]) /\ Open(q[j])
    PROVE  GoodBook(q, s, id)
<1>1. \A j \in DOMAIN q : j \in DOMAIN b
  BY DEF GoodBook
<1>2. \A j \in DOMAIN q : q[j].price = b[j].price /\ q[j].id = b[j].id
  BY DEF Same
<1>3. Sorted(q, s)
  BY <1>1, <1>2 DEF GoodBook, Sorted, Ahead
<1>4. \A j \in DOMAIN q : q[j].id < id
  BY <1>1, <1>2 DEF GoodBook
<1> QED BY <1>3, <1>4 DEF GoodBook

\* The new order comes behind the orders ahead of it, and before the older ones
\* with its price.
LEMMA InsertGood ==
    ASSUME NEW s \in Sides, NEW id \in Nat, NEW b, GoodBook(b, s, id),
           NEW o \in Orders, Open(o), o.id = id
    PROVE  GoodBook(Insert(b, o, s), s, id + 1)
<1> DEFINE stop == {0} \cup {i \in DOMAIN b : Ahead(b[i], o.price, s)}
           p == Max(stop) + 1
           new == InsertAt(b, p, o)
<1>1. b \in Seq(Orders) /\ DOMAIN b = 1 .. Len(b) /\ Len(b) \in Nat
  BY DEF GoodBook
<1>2. Max(stop) \in stop /\ \A y \in stop : Max(stop) >= y
  <2>1. stop \in SUBSET (0 .. Len(b)) /\ stop # {}
    BY <1>1
  <2> HIDE DEF stop
  <2> QED BY <1>1, <2>1, L!MinMax DEF Max, L!Max
<1>3. p \in 1 .. Len(b) + 1 /\ (p = 1 \/ (p - 1 \in DOMAIN b /\ Ahead(b[p - 1], o.price, s)))
  BY <1>1, <1>2
<1>4. \A i \in DOMAIN b : i >= p => ~ Ahead(b[i], o.price, s)
  BY <1>1, <1>2
<1> HIDE DEF p, stop
<1>5. /\ new \in Seq(Orders) /\ DOMAIN new = 1 .. Len(b) + 1
      /\ \A j \in 1 .. p - 1 : new[j] = b[j] /\ j \in DOMAIN b
      /\ new[p] = o
      /\ \A j \in p + 1 .. Len(b) + 1 : new[j] = b[j - 1] /\ j - 1 \in DOMAIN b
  <2>1. b \in Seq(Orders) /\ p \in 1 .. Len(b) + 1
    BY <1>1, <1>3
  <2> QED BY <2>1, InsertElements
<1> HIDE DEF new
<1>6. \A i \in DOMAIN b : b[i].price \in Nat /\ b[i].id \in Nat /\ b[i].id < id
  <2>1. \A i \in DOMAIN b : b[i] \in Orders
    BY <1>1
  <2> QED BY <2>1 DEF Orders, GoodBook
<1>7. o.price \in Nat
  BY DEF Orders
<1>8. \A i \in DOMAIN b : i < p => Ahead(b[i], o.price, s)
  <2> SUFFICES ASSUME NEW i \in DOMAIN b, i < p - 1, p # 1 PROVE Ahead(b[i], o.price, s)
    BY <1>1, <1>3
  <2>1. \/ Ahead(b[i], b[p - 1].price, s)
        \/ b[i].price = b[p - 1].price
    BY <1>3 DEF GoodBook, Sorted
  <2>2. b[i].price \in Nat /\ b[p - 1].price \in Nat
    BY <1>3, <1>6
  <2> QED BY <1>3, <1>7, <2>1, <2>2 DEF Ahead
<1>9. ASSUME NEW i \in DOMAIN new, NEW j \in DOMAIN new, i < j
      PROVE  \/ Ahead(new[i], new[j].price, s)
             \/ new[i].price = new[j].price /\ new[i].id > new[j].id
  <2>1. CASE i < p /\ j = p
    <3>1. new[i] = b[i] /\ i \in DOMAIN b /\ new[j] = o
      BY <1>1, <1>3, <1>5, <2>1
    <3> QED BY <1>8, <2>1, <3>1
  <2>2. CASE i = p /\ j > p
    <3>1. j \in p + 1 .. Len(b) + 1 /\ j - 1 >= p
      BY <1>1, <1>3, <1>5, <2>2
    <3>2. new[i] = o /\ new[j] = b[j - 1] /\ j - 1 \in DOMAIN b
      BY <1>5, <2>2, <3>1
    <3>3. ~ Ahead(b[j - 1], o.price, s)
      BY <1>4, <3>1, <3>2
    <3>4. b[j - 1].price \in Nat /\ b[j - 1].id \in Nat /\ b[j - 1].id < id
      BY <1>6, <3>2
    <3> QED BY <1>7, <3>2, <3>3, <3>4 DEF Ahead, Sides
  <2>3. CASE i # p /\ j # p
    <3> DEFINE at(m) == IF m < p THEN m ELSE m - 1
    <3>1. /\ at(i) \in DOMAIN b /\ new[i] = b[at(i)]
          /\ at(j) \in DOMAIN b /\ new[j] = b[at(j)]
      BY <1>1, <1>3, <1>5, <2>3
    <3>2. at(i) < at(j)
      BY <1>1, <1>3, <1>5, <1>9, <2>3
    <3> HIDE DEF at
    <3> QED BY <3>1, <3>2 DEF GoodBook, Sorted
  <2> QED BY <1>1, <1>3, <1>5, <1>9, <2>1, <2>2, <2>3
<1>10. ASSUME NEW j \in DOMAIN new PROVE Open(new[j]) /\ new[j].id < id + 1
  <2>1. \A i \in DOMAIN b : Open(b[i]) /\ b[i].id < id + 1
    BY <1>6 DEF GoodBook
  <2>2. j \in 1 .. p - 1 \/ j = p \/ j \in p + 1 .. Len(b) + 1
    BY <1>1, <1>3, <1>5
  <2> QED BY <1>5, <2>1, <2>2
<1>11. GoodBook(new, s, id + 1)
  BY <1>5, <1>9, <1>10 DEF GoodBook, Sorted
<1>12. Insert(b, o, s) = new
  BY DEF Insert, new, p, stop
<1> QED BY <1>11, <1>12
-----------------------------------------------------------------------------
(* The inductive invariant *)

Books == \A k \in Tickers, s \in Sides : GoodBook(orderBook[k][s], s, nextOrderID)

ExcInv == TypeOK /\ Books /\ Unlisted(traderBalances)

LEMMA InitInv == Init => ExcInv
<1> SUFFICES ASSUME Init PROVE ExcInv
  OBVIOUS
<1>1. TypeOK
  BY ExcAssumption DEF Init, TypeOK
<1>2. ASSUME NEW k \in Tickers, NEW s \in Sides PROVE GoodBook(orderBook[k][s], s, nextOrderID)
  <2>1. orderBook[k][s] = <<>>
    BY DEF Init
  <2> QED BY <2>1 DEF GoodBook, Sorted
<1>3. Unlisted(traderBalances)
  BY DEF Init, Unlisted
<1> QED BY <1>1, <1>2, <1>3 DEF ExcInv, Books

\* An update of one entry of a table of tables.
LEMMA Update2 ==
    ASSUME NEW A, NEW B, NEW T, NEW f \in [A -> [B -> T]], NEW a \in A, NEW b \in B, NEW v
    PROVE  LET new == [f EXCEPT ![a][b] = v]
           IN  /\ v \in T => new \in [A -> [B -> T]]
               /\ new[a][b] = v
               /\ \A c \in A, d \in B : c # a \/ d # b => new[c][d] = f[c][d]
<1> DEFINE r == [f[a] EXCEPT ![b] = v]
           new == [f EXCEPT ![a] = r]
<1>1. f[a] \in [B -> T]
  OBVIOUS
<1>2. r[b] = v /\ (\A d \in B : d # b => r[d] = f[a][d]) /\ (v \in T => r \in [B -> T])
  BY <1>1
<1> HIDE DEF r
<1>3. new[a] = r /\ (\A c \in A : c # a => new[c] = f[c]) /\ (v \in T => new \in [A -> [B -> T]])
  BY <1>2
<1> HIDE DEF new
<1>4. new[a][b] = v /\ \A c \in A, d \in B : c # a \/ d # b => new[c][d] = f[c][d]
  BY <1>2, <1>3
<1> USE DEF new, r
<1> QED BY <1>3, <1>4

LEMMA AddTokenInv ==
    ASSUME ExcInv, NEW l \in Listings, addToken(l[1], l[2]) PROVE ExcInv'
<1> USE DEF ExcInv
<1>1. l[1] \in Tickers /\ l[2] \in Addrs
  BY ExcAssumption DEF Addrs
<1>2. TypeOK'
  BY <1>1 DEF TypeOK, addToken
<1>3. Books'
  BY DEF Books, addToken, GoodBook
<1>4. Unlisted(traderBalances)'
  <2>1. l[2] # NoAddr
    BY <1>1, ExcAssumption
  <2> QED BY <1>1, <2>1 DEF addToken, Unlisted, TypeOK
<1> QED BY <1>2, <1>3, <1>4

LEMMA DepositInv ==
    ASSUME ExcInv, NEW who \in Traders, NEW k \in Tickers, NEW n \in Amounts,
           deposit(who, n, k)
    PROVE  ExcInv'
<1> USE DEF ExcInv
<1> DEFINE x == tokens[k]
<1>1. n \in Nat /\ x \in Addrs /\ x # NoAddr
  BY ExcAssumption DEF deposit, exist, TypeOK
<1>2. /\ purse' = [purse EXCEPT ![who][x] = purse[who][x] - n]
      /\ traderBalances' = [traderBalances EXCEPT ![who][k] = traderBalances[who][k] + n]
      /\ held' = [held EXCEPT ![x] = @ + n] /\ purse[who][x] >= n
      /\ UNCHANGED <<tokenList, tokens, orderBook, nextOrderID, nextTradeID>>
  BY DEF deposit
<1> HIDE DEF x
<1>3. /\ purse[who][x] - n \in Nat /\ traderBalances[who][k] + n \in Nat
      /\ held' \in [Addrs -> Nat]
  BY <1>1, <1>2 DEF TypeOK
<1>4. purse' \in [Traders -> [Addrs -> Nat]]
  BY <1>1, <1>2, <1>3, Update2 DEF TypeOK
<1>5. /\ traderBalances' \in [Traders -> [Tickers -> Nat]]
      /\ \A c \in Traders, j \in Tickers : j # k => traderBalances'[c][j] = traderBalances[c][j]
  BY <1>2, <1>3, Update2 DEF TypeOK
<1>6. TypeOK'
  BY <1>2, <1>3, <1>4, <1>5 DEF TypeOK
<1>7. Books'
  BY <1>2 DEF Books, GoodBook
<1>8. Unlisted(traderBalances)'
  BY <1>1, <1>2, <1>5 DEF Unlisted, x
<1> QED BY <1>6, <1>7, <1>8

LEMMA WithdrawInv ==
    ASSUME ExcInv, NEW who \in Traders, NEW k \in Tickers, NEW n \in Amounts,
           withdraw(who, n, k)
    PROVE  ExcInv'
<1> USE DEF ExcInv
<1> DEFINE x == tokens[k]
<1>1. n \in Nat /\ x \in Addrs /\ x # NoAddr
  BY ExcAssumption DEF withdraw, exist, TypeOK
<1>2. /\ purse' = [purse EXCEPT ![who][x] = purse[who][x] + n]
      /\ traderBalances' = [traderBalances EXCEPT ![who][k] = traderBalances[who][k] - n]
      /\ held' = [held EXCEPT ![x] = @ - n] /\ held[x] >= n /\ traderBalances[who][k] >= n
      /\ UNCHANGED <<tokenList, tokens, orderBook, nextOrderID, nextTradeID>>
  BY DEF withdraw
<1> HIDE DEF x
<1>3. /\ purse[who][x] + n \in Nat /\ traderBalances[who][k] - n \in Nat
      /\ held' \in [Addrs -> Nat]
  BY <1>1, <1>2 DEF TypeOK
<1>4. purse' \in [Traders -> [Addrs -> Nat]]
  BY <1>1, <1>2, <1>3, Update2 DEF TypeOK
<1>5. /\ traderBalances' \in [Traders -> [Tickers -> Nat]]
      /\ \A c \in Traders, j \in Tickers : j # k => traderBalances'[c][j] = traderBalances[c][j]
  BY <1>2, <1>3, Update2 DEF TypeOK
<1>6. TypeOK'
  BY <1>2, <1>3, <1>4, <1>5 DEF TypeOK
<1>7. Books'
  BY <1>2 DEF Books, GoodBook
<1>8. Unlisted(traderBalances)'
  BY <1>1, <1>2, <1>5 DEF Unlisted, x
<1> QED BY <1>6, <1>7, <1>8

\* A call that replaces one book, and moves no token.
LEMMA BookInv ==
    ASSUME ExcInv, NEW k \in Tickers, NEW s \in Sides, NEW b, nextOrderID' \in Nat,
           nextOrderID <= nextOrderID', GoodBook(b, s, nextOrderID'),
           orderBook' = [orderBook EXCEPT ![k][s] = b]
    PROVE  /\ orderBook' \in [Tickers -> [Sides -> Seq(Orders)]]
           /\ Books'
<1> USE DEF ExcInv
<1>1. b \in Seq(Orders)
  BY DEF GoodBook
<1>2. /\ orderBook' \in [Tickers -> [Sides -> Seq(Orders)]]
      /\ orderBook'[k][s] = b
      /\ \A c \in Tickers, d \in Sides : c # k \/ d # s => orderBook'[c][d] = orderBook[c][d]
  BY <1>1, Update2 DEF TypeOK
<1>3. ASSUME NEW c \in Tickers, NEW d \in Sides
      PROVE  GoodBook(orderBook'[c][d], d, nextOrderID')
  <2>1. CASE c = k /\ d = s
    BY <1>2, <2>1
  <2>2. CASE c # k \/ d # s
    <3> DEFINE q == orderBook[c][d]
    <3>1. orderBook'[c][d] = q /\ GoodBook(q, d, nextOrderID)
      BY <1>2, <2>2 DEF Books
    <3>2. \A i \in DOMAIN q : q[i].id \in Nat
      <4>1. \A i \in DOMAIN q : q[i] \in Orders
        BY <3>1 DEF GoodBook
      <4> QED BY <4>1 DEF Orders
    <3> HIDE DEF q
    <3>3. \A i \in DOMAIN q : q[i].id < nextOrderID'
      BY <3>1, <3>2 DEF GoodBook, TypeOK
    <3> QED BY <3>1, <3>3 DEF GoodBook
  <2> QED BY <2>1, <2>2
<1> QED BY <1>2, <1>3 DEF Books

LEMMA LimitInv ==
    ASSUME ExcInv, NEW who \in Traders, NEW k \in Tickers, NEW n \in Amounts, NEW p \in Prices,
           NEW s \in Sides, makeLimitOrder(who, k, n, p, s)
    PROVE  ExcInv'
<1> USE DEF ExcInv
<1> DEFINE o == [id |-> nextOrderID, trader |-> who, amount |-> n, filled |-> 0, price |-> p]
           b == Insert(orderBook[k][s], o, s)
<1>1. n \in Nat /\ p \in Nat /\ nextOrderID \in Nat
  BY ExcAssumption DEF TypeOK
<1>2. o \in Orders /\ Open(o) /\ o.id = nextOrderID
  BY <1>1 DEF Orders, Open
<1>3. /\ orderBook' = [orderBook EXCEPT ![k][s] = b]
      /\ nextOrderID' = nextOrderID + 1
      /\ UNCHANGED <<tokenList, tokens, traderBalances, nextTradeID, purse, held>>
  BY DEF makeLimitOrder
<1> HIDE DEF o
<1>4. GoodBook(b, s, nextOrderID + 1)
  BY <1>1, <1>2, InsertGood DEF Books
<1> HIDE DEF b
<1>5. orderBook' \in [Tickers -> [Sides -> Seq(Orders)]] /\ Books'
  <2>1. nextOrderID' \in Nat /\ nextOrderID <= nextOrderID' /\ GoodBook(b, s, nextOrderID')
    BY <1>1, <1>3, <1>4
  <2> QED BY <1>3, <2>1, BookInv
<1>6. TypeOK'
  BY <1>1, <1>3, <1>5 DEF TypeOK
<1>7. Unlisted(traderBalances)'
  BY <1>3 DEF Unlisted
<1> QED BY <1>5, <1>6, <1>7

LEMMA DeleteInv ==
    ASSUME ExcInv, NEW who \in Traders, NEW k \in Tickers, NEW s \in Sides, NEW id,
           deleteLimitOrder(who, id, k, s)
    PROVE  ExcInv'
<1> USE DEF ExcInv
<1>1. PICK i \in DOMAIN orderBook[k][s] :
         orderBook' = [orderBook EXCEPT ![k][s] = RemoveAt(orderBook[k][s], i)]
  BY DEF deleteLimitOrder
<1> DEFINE b == RemoveAt(orderBook[k][s], i)
<1>2. UNCHANGED <<tokenList, tokens, traderBalances, nextOrderID, nextTradeID, purse, held>>
  BY DEF deleteLimitOrder
<1>3. GoodBook(b, s, nextOrderID)
  BY RemoveGood DEF Books, TypeOK
<1>4. orderBook' = [orderBook EXCEPT ![k][s] = b]
  BY <1>1
<1> HIDE DEF b
<1>5. orderBook' \in [Tickers -> [Sides -> Seq(Orders)]] /\ Books'
  <2>1. nextOrderID' \in Nat /\ nextOrderID <= nextOrderID' /\ GoodBook(b, s, nextOrderID')
    BY <1>2, <1>3 DEF TypeOK
  <2> QED BY <1>4, <2>1, BookInv
<1>6. TypeOK'
  BY <1>2, <1>5 DEF TypeOK
<1>7. Unlisted(traderBalances)'
  BY <1>2 DEF Unlisted
<1> QED BY <1>5, <1>6, <1>7

LEMMA BooksAreOpen == ASSUME Books PROVE BooksOpen
BY DEF Books, BooksOpen, GoodBook

LEMMA MarketInv ==
    ASSUME ExcInv, NEW who \in Traders, NEW k \in Tickers, NEW n \in Amounts, NEW s \in Sides,
           makeMarketOrder(who, k, n, s)
    PROVE  ExcInv'
<1> USE DEF ExcInv
<1> DEFINE B == orderBook[k][Other(s)]
           r == Execute(who, k, n, s)
<1>1. n \in Nat /\ k # PIN /\ exist(k) /\ Other(s) \in Sides
  BY ExcAssumption DEF makeMarketOrder, notPine, Other, Sides
<1>2. PICK g : /\ Rounds(g, B, n, who, k, s)
               /\ \A i \in 0 .. Len(B) : Loop(g[i], B, i, who, k, s)
  BY <1>1, ExecuteRounds, BooksAreOpen
<1>3. r = g[0] /\ Loop(r, B, 0, who, k, s)
  <2>1. B \in Seq(Orders) /\ 0 \in 0 .. Len(B)
    BY <1>1 DEF TypeOK
  <2> QED BY <1>2, <2>1 DEF Rounds
<1>4. /\ r.ok /\ traderBalances' = r.bal /\ nextTradeID' = nextTradeID + Len(r.events)
      /\ orderBook' = [orderBook EXCEPT ![k][Other(s)] = r.book]
      /\ UNCHANGED <<tokenList, tokens, nextOrderID, purse, held>>
  BY DEF makeMarketOrder, Succeeds
<1>5. GoodBook(B, Other(s), nextOrderID) /\ nextOrderID \in Nat /\ Len(B) \in Nat
  BY <1>1 DEF Books, TypeOK, GoodBook
<1> HIDE DEF r, B
<1>6. /\ r.book \in Seq(Orders) /\ Len(r.book) <= Len(B) /\ r.events \in Seq(Trades)
      /\ \A j \in DOMAIN r.book : Same(r.book[j], B[j]) /\ Open(r.book[j])
      /\ r.bal \in Balances(Nat) /\ Unlisted(r.bal)
  <2>1. r.book \in Seq(Orders) /\ r.events \in Seq(Trades)
    BY <1>3 DEF Loop, Accs
  <2>2. Len(r.book) <= Len(B) /\ \A j \in DOMAIN r.book : 0 + j = j
    BY <1>3, <1>5, <2>1 DEF Loop
  <2> QED BY <1>3, <1>4, <2>1, <2>2 DEF Loop
<1> DEFINE q == r.book
<1>7. GoodBook(q, Other(s), nextOrderID')
  BY <1>1, <1>4, <1>5, <1>6, CopyGood
<1>8. orderBook' \in [Tickers -> [Sides -> Seq(Orders)]] /\ Books'
  <2>1. nextOrderID' \in Nat /\ nextOrderID <= nextOrderID'
    BY <1>4, <1>5
  <2>2. orderBook' = [orderBook EXCEPT ![k][Other(s)] = q]
    BY <1>4
  <2> HIDE DEF q
  <2> QED BY <1>1, <1>7, <2>1, <2>2, BookInv
<1>9. TypeOK'
  <2>1. nextTradeID' \in Nat
    BY <1>4, <1>6 DEF TypeOK
  <2> QED BY <1>4, <1>6, <1>8, <2>1 DEF TypeOK, Balances
<1>10. Unlisted(traderBalances)'
  BY <1>4, <1>6 DEF Unlisted
<1> QED BY <1>8, <1>9, <1>10

LEMMA StepInv == ExcInv /\ [Next]_excVars => ExcInv'
<1> SUFFICES ASSUME ExcInv, [Next]_excVars PROVE ExcInv'
  OBVIOUS
<1>1. CASE UNCHANGED excVars
  BY <1>1 DEF excVars, ExcInv, TypeOK, Books, Unlisted
<1>2. CASE Next
  BY <1>2, AddTokenInv, DepositInv, WithdrawInv, LimitInv, MarketInv, DeleteInv DEF Next
<1> QED BY <1>1, <1>2

LEMMA Invariance == Spec => []ExcInv
BY InitInv, StepInv, PTL DEF Spec

\* Every variable of the exchange keeps its type.  No balance, no purse and
\* nothing the exchange owns falls below zero, and what a market order leaves of
\* a book is a book.
THEOREM Typed == Spec => []TypeOK
<1>1. ExcInv => TypeOK
  BY DEF ExcInv
<1> QED BY Invariance, <1>1, PTL

\* A book only holds orders with something left to trade (makeBUY, makeSELL).
THEOREM FilledOrdersLeave == Spec => []OrdersOpen
<1>1. ExcInv => OrdersOpen
  BY DEF ExcInv, Books, GoodBook, Open, OrdersOpen
<1> QED BY Invariance, <1>1, PTL

\* The books stay sorted through makeLimitOrder, deleteLimitOrder and the loops
\* of makeBUY and makeSELL.
THEOREM BooksStaySorted == Spec => []BooksSorted
<1>1. ExcInv => BooksSorted
  BY DEF ExcInv, Books, GoodBook, Sorted, BooksSorted
<1> QED BY Invariance, <1>1, PTL
-----------------------------------------------------------------------------
(* The price of a market order *)

\* The loop of a market BUY order and that of get_cheapest_price go together.
Paid(acc, quote, who, ticker) ==
    /\ acc \in Accs /\ acc.who = who /\ acc.ticker = ticker /\ acc.side = "BUY"
    /\ quote = [left |-> acc.left, price |-> quote.price] /\ quote.price \in Nat
    /\ acc.bal[who][PIN] = traderBalances[who][PIN] - quote.price

LEMMA PaidStep ==
    ASSUME TypeOK, NEW who \in Traders, NEW ticker \in Tickers, ticker # PIN,
           NEW o \in Orders, Open(o), o.trader # who, NEW acc, NEW quote,
           Paid(acc, quote, who, ticker)
    PROVE  Paid(Fill(o, acc), Quote(o, quote), who, ticker)
<1> DEFINE new == Fill(o, acc)
           n == Traded(o, acc.left)
           v == n * o.price
<1>1. /\ acc \in Accs /\ acc.left \in Nat /\ acc.bal \in Balances(Int) /\ acc.ticker # PIN
      /\ o.price \in Nat /\ o.trader \in Traders
      /\ traderBalances[who][PIN] \in Nat /\ nextTradeID \in Nat /\ nextOrderID \in Nat
  BY ExcAssumption DEF Paid, Accs, Orders, TypeOK
<1>2. n \in Nat /\ acc.left - n \in Nat /\ (acc.left = 0 => n = 0)
  BY <1>1, TradedType
<1>3. Quote(o, quote) = [left |-> acc.left - n, price |-> quote.price + v]
  <2>1. quote.left = acc.left
    BY DEF Paid
  <2> QED BY <2>1 DEF Quote, Traded
<1>4. v \in Nat /\ (n = 0 => v = 0)
  BY <1>1, <1>2
<1>5. /\ new \in Accs /\ new.who = who /\ new.ticker = ticker /\ new.side = "BUY"
      /\ acc.left = 0 => new.left = 0 /\ new.bal = acc.bal
      /\ acc.left # 0 => /\ new.left = acc.left - n
                         /\ new.bal = Settle(acc.bal, ticker, who, o.trader, n, o.price)
  <2>1. Buyer(o, acc) = who /\ Seller(o, acc) = o.trader /\ acc.ticker = ticker /\ acc.who = who
        /\ acc.side = "BUY"
    BY DEF Buyer, Seller, Paid
  <2>2. /\ new \in Accs
        /\ new.who = acc.who /\ new.ticker = acc.ticker /\ new.side = acc.side
        /\ acc.left = 0 => new.left = 0 /\ new.bal = acc.bal
        /\ acc.left # 0 =>
              /\ new.left = acc.left - n
              /\ new.bal = Settle(acc.bal, acc.ticker, Buyer(o, acc), Seller(o, acc), n, o.price)
    BY <1>1, FillFields
  <2> HIDE DEF new, n
  <2> QED BY <2>1, <2>2
<1> DEFINE a == o.trader
           p == o.price
<1>6. new.left = acc.left - n /\ new.bal[who][PIN] = acc.bal[who][PIN] - v
  <2>1. CASE acc.left = 0
    <3>1. acc.bal[who][PIN] \in Int
      BY <1>1, ExcAssumption DEF Balances
    <3> HIDE DEF v, n, new
    <3> QED BY <1>2, <1>4, <1>5, <2>1, <3>1
  <2>2. CASE acc.left # 0
    <3>1. a \in Traders /\ p \in Nat /\ a # who
      BY <1>1
    <3>2. Settled(acc.bal, new.bal, ticker, a, who, n, p)
      <4> HIDE DEF n, new
      <4> QED BY <1>1, <1>2, <1>5, <2>2, SettleType
    <3> HIDE DEF n, new
    <3> QED BY <1>5, <2>2, <3>1, <3>2 DEF Settled
  <2> QED BY <2>1, <2>2
<1> DEFINE w == quote.price + v
           qq == [left |-> acc.left - n, price |-> w]
<1>7. /\ quote.price \in Nat /\ acc.bal[who][PIN] = traderBalances[who][PIN] - quote.price
  BY DEF Paid
<1> HIDE DEF v, n, new
<1>8. w \in Nat /\ new.bal[who][PIN] = traderBalances[who][PIN] - w
  BY <1>1, <1>4, <1>6, <1>7
<1> HIDE DEF w
<1>9. Paid(new, qq, who, ticker)
  BY <1>5, <1>6, <1>8 DEF Paid
<1> QED BY <1>3, <1>9 DEF new, n, v, w

\* What a state of the exchange promises about a market BUY order.
LEMMA PaidAsQuoted ==
    ASSUME ExcInv, NEW who \in Traders, NEW k \in Tickers, k # PIN, NEW n \in Amounts,
           Succeeds(Execute(who, k, n, "BUY")),
           \A i \in DOMAIN orderBook[k]["SELL"] : orderBook[k]["SELL"][i].trader # who
    PROVE  traderBalances[who][PIN] - Execute(who, k, n, "BUY").bal[who][PIN]
           = get_cheapest_price(k, n)
<1> USE DEF ExcInv
<1> DEFINE B == orderBook[k]["SELL"]
           r == Execute(who, k, n, "BUY")
           base == [who |-> who, ticker |-> k, side |-> "BUY", left |-> n, ok |-> TRUE,
                    bal |-> traderBalances, book |-> <<>>, events |-> <<>>]
           start == [left |-> n, price |-> 0]
<1>1. n \in Nat /\ "SELL" \in Sides /\ "BUY" \in Sides
  BY ExcAssumption DEF Sides
<1>2. /\ B \in Seq(Orders) /\ Len(B) \in Nat
      /\ \A i \in DOMAIN B : B[i] \in Orders /\ Open(B[i]) /\ B[i].trader # who
  <2>1. B \in Seq(Orders)
    BY <1>1 DEF TypeOK
  <2>2. \A i \in DOMAIN B : Open(B[i])
    BY <1>1 DEF Books, GoodBook
  <2> QED BY <2>1, <2>2
<1>3. PICK g : L!RightRounds(g, B, base)
  <2> HIDE DEF B, base
  <2> QED BY <1>2, L!FoldRightRounds
<1>4. PICK h : Q!RightRounds(h, B, start)
  <2> HIDE DEF B, start
  <2> QED BY <1>2, Q!FoldRightRounds
<1>5. r = L!RightFold(B, base)
  <2>1. Other("BUY") = "SELL"
    BY DEF Other
  <2>2. r = L!RightFold(orderBook[k][Other("BUY")], base)
    BY DEF Execute, FoldRight, MapThenFoldSet, Min,
           L!RightFold, L!FoldRight, L!MapThenFoldSet, L!Min
  <2> QED BY <2>1, <2>2
<1>6. get_cheapest_price(k, n) = IF Q!RightFold(B, start).left = 0
                                 THEN Q!RightFold(B, start).price ELSE -1
  BY DEF get_cheapest_price, FoldRight, MapThenFoldSet, Min,
         Q!RightFold, Q!FoldRight, Q!MapThenFoldSet, Q!Min
<1>7. Paid(base, start, who, k)
  <2>1. traderBalances \in Balances(Int) /\ <<>> \in Seq(Orders) /\ <<>> \in Seq(Trades)
    BY DEF TypeOK, Balances
  <2>2. base \in Accs
    BY <1>1, <2>1 DEF Accs
  <2>3. traderBalances[who][PIN] \in Nat
    BY ExcAssumption DEF TypeOK
  <2> QED BY <2>2, <2>3 DEF Paid
<1> DEFINE T == {i \in 0 .. Len(B) : Paid(g[i], h[i], who, k)}
<1>8. Len(B) \in T
  <2>1. g[Len(B)] = base /\ h[Len(B)] = start
    BY <1>3, <1>4 DEF L!RightRounds, Q!RightRounds
  <2> HIDE DEF B, base, start
  <2> QED BY <1>2, <1>7, <2>1
<1>9. ASSUME NEW i \in 1 .. Len(B), i \in T PROVE i - 1 \in T
  <2>1. g[i - 1] = Fill(B[i], g[i]) /\ h[i - 1] = Quote(B[i], h[i])
    BY <1>3, <1>4 DEF L!RightRounds, Q!RightRounds
  <2>2. B[i] \in Orders /\ Open(B[i]) /\ B[i].trader # who
    BY <1>2
  <2> HIDE DEF B
  <2>3. Paid(g[i - 1], h[i - 1], who, k)
    BY <1>9, <2>1, <2>2, PaidStep
  <2> QED BY <1>2, <2>3
<1>10. Paid(g[0], h[0], who, k)
  <2>1. 0 .. Len(B) \subseteq T
    <3> HIDE DEF T, B
    <3> QED BY <1>2, <1>8, <1>9, L!DownInduction
  <2> QED BY <1>2, <2>1
<1>11. r = g[0] /\ h[0] = Q!RightFold(B, start)
  BY <1>3, <1>4, <1>5 DEF L!RightRounds, Q!RightRounds
<1>12. h[0].left = r.left /\ r.left = 0
  BY <1>10, <1>11 DEF Paid, Succeeds
<1>13. get_cheapest_price(k, n) = h[0].price
  <2> HIDE DEF B, start, r
  <2> QED BY <1>6, <1>11, <1>12
<1>14. r.bal[who][PIN] = traderBalances[who][PIN] - h[0].price /\ h[0].price \in Nat
       /\ traderBalances[who][PIN] \in Nat
  BY <1>10, <1>11, ExcAssumption DEF Paid, TypeOK
<1> HIDE DEF r
<1>15. traderBalances[who][PIN] - r.bal[who][PIN] = get_cheapest_price(k, n)
  BY <1>13, <1>14
<1> QED BY <1>15 DEF r

\* A market BUY order costs what get_cheapest_price answers in the same state,
\* for books of any length, unless an order of the caller itself is in the book.
THEOREM PricesAsQuoted == Spec => []QuotePaid
<1>1. ASSUME ExcInv PROVE QuotePaid
  <2> SUFFICES ASSUME NEW who \in Traders, NEW k \in Tickers \ {PIN}, NEW n \in Amounts,
                      Succeeds(Execute(who, k, n, "BUY")),
                      {i \in DOMAIN orderBook[k]["SELL"] : orderBook[k]["SELL"][i].trader = who} = {}
               PROVE  traderBalances[who][PIN] - Execute(who, k, n, "BUY").bal[who][PIN]
                      = get_cheapest_price(k, n)
    BY DEF QuotePaid
  <2> QED BY <1>1, PaidAsQuoted
<1> QED BY Invariance, <1>1, PTL
-----------------------------------------------------------------------------
(* Sums *)

\* The sum is a fold of the loops above, and so has their facts.
LEMMA SumIsFold ==
    /\ Total!Adds
    /\ \A f, D : SumFunctionOnSet(f, D) = Total!SumOver(f, D)
    /\ \A D : IsFiniteSet(D) => Total!IsFiniteSet(D)
<1>1. Total!Adds
  BY DEF Total!Adds, Plus
<1>2. \A f, D : SumFunctionOnSet(f, D) = Total!SumOver(f, D)
  BY DEF SumFunctionOnSet, FoldFunctionOnSet, MapThenFoldSet, Plus,
         Total!SumOver, Total!FoldFunctionOnSet, Total!MapThenFoldSet
<1>3. \A D : IsFiniteSet(D) => Total!IsFiniteSet(D)
  BY DEF IsFiniteSet, Total!IsFiniteSet
<1> QED BY <1>1, <1>2, <1>3

\* Any element may be taken out of a sum first.
LEMMA SumTakeOut ==
    ASSUME NEW D, IsFiniteSet(D), NEW f, \A x \in D : f[x] \in Int
    PROVE  /\ SumFunctionOnSet(f, D) \in Int
           /\ SumFunctionOnSet(f, {}) = 0
           /\ \A x \in D : SumFunctionOnSet(f, D) = f[x] + SumFunctionOnSet(f, D \ {x})
BY SumIsFold, Total!SumTakeOut

\* Sums over a set and a part of it are equal when the values are zero outside
\* the part.
LEMMA SumSame ==
    ASSUME NEW D, IsFiniteSet(D), NEW E \in SUBSET D, NEW f, NEW e,
           \A x \in E : f[x] \in Int /\ e[x] = f[x], \A x \in D \ E : f[x] = 0
    PROVE  SumFunctionOnSet(f, D) = SumFunctionOnSet(e, E)
BY SumIsFold, Total!SumSame

\* The sum changes by what one value changes by.
LEMMA SumChange ==
    ASSUME NEW D, IsFiniteSet(D), NEW f, NEW e, NEW x \in D, f[x] \in Int, e[x] \in Int,
           \A y \in D : y # x => f[y] \in Int /\ e[y] = f[y]
    PROVE  SumFunctionOnSet(e, D) = SumFunctionOnSet(f, D) + (e[x] - f[x])
<1>1. Total!SumOver(e, D) = Total!SumOver(f, D) + (e[x] - f[x])
  BY SumIsFold, Total!SumChange
<1> QED BY <1>1, SumIsFold
-----------------------------------------------------------------------------
(* Solvency *)

Coins(bal) == [c \in Traders \X Tickers |-> bal[c[1]][c[2]]]
OfToken(x) == {c \in Traders \X Tickers : tokens[c[2]] = x}
SumOf(bal, x) == SumFunctionOnSet(Coins(bal), OfToken(x))

LEMMA CoinsType ==
    ASSUME IsFiniteSet(Traders), IsFiniteSet(Tickers), NEW x, NEW bal \in Balances(Int)
    PROVE  /\ IsFiniteSet(OfToken(x))
           /\ \A c \in OfToken(x) : Coins(bal)[c] \in Int
           /\ SumOf(bal, x) \in Int
<1>1. IsFiniteSet(OfToken(x))
  <2>1. IsFiniteSet(Traders \X Tickers)
    BY FS_Product
  <2>2. OfToken(x) \in SUBSET (Traders \X Tickers)
    BY DEF OfToken
  <2> QED BY <2>1, <2>2, FS_Subset
<1>2. \A c \in OfToken(x) : Coins(bal)[c] \in Int
  BY DEF OfToken, Coins, Balances
<1> QED BY <1>1, <1>2, SumTakeOut DEF SumOf

\* A new balance of one trader changes the sum of its token by as much, and no
\* other.
LEMMA SumUpdate ==
    ASSUME IsFiniteSet(Traders), IsFiniteSet(Tickers), NEW x,
           NEW bal \in Balances(Int), NEW new \in Balances(Int),
           NEW a \in Traders, NEW k \in Tickers, NEW n \in Int, new[a][k] = bal[a][k] + n,
           \A c \in Traders, j \in Tickers : c # a \/ j # k => new[c][j] = bal[c][j]
    PROVE  SumOf(new, x) = SumOf(bal, x) + (IF tokens[k] = x THEN n ELSE 0)
<1> DEFINE D == OfToken(x)
           f == Coins(bal)
           e == Coins(new)
<1>1. /\ IsFiniteSet(D) /\ (\A c \in D : f[c] \in Int) /\ \A c \in D : e[c] \in Int
      /\ SumOf(bal, x) \in Int
  BY CoinsType
<1>2. \A c \in D : c # <<a, k>> => e[c] = f[c]
  BY DEF OfToken, Coins
<1>3. CASE tokens[k] = x
  <2> DEFINE y == <<a, k>>
  <2>1. y \in D /\ e[y] = new[a][k] /\ f[y] = bal[a][k]
    BY <1>3 DEF OfToken, Coins
  <2>2. bal[a][k] \in Int /\ new[a][k] \in Int
    BY DEF Balances
  <2> HIDE DEF D, e, f
  <2>3. SumFunctionOnSet(e, D) = SumFunctionOnSet(f, D) + (e[y] - f[y])
    <3>1. \A c \in D : c # y => f[c] \in Int /\ e[c] = f[c]
      BY <1>1, <1>2
    <3>2. f[y] \in Int /\ e[y] \in Int
      BY <1>1, <2>1
    <3> HIDE DEF y
    <3> QED BY <1>1, <2>1, <3>1, <3>2, SumChange
  <2> QED BY <1>3, <2>1, <2>2, <2>3 DEF SumOf, D, e, f
<1>4. CASE tokens[k] # x
  <2>1. \A c \in D : e[c] = f[c]
    BY <1>4, <1>2 DEF OfToken
  <2>2. D \in SUBSET D /\ \A c \in D \ D : f[c] = 0
    OBVIOUS
  <2> HIDE DEF D, e, f
  <2>3. SumFunctionOnSet(f, D) = SumFunctionOnSet(e, D)
    BY <1>1, <2>1, <2>2, SumSame
  <2> QED BY <1>1, <1>4, <2>3 DEF SumOf, D, e, f
<1> QED BY <1>3, <1>4

LEMMA MoveSum ==
    ASSUME IsFiniteSet(Traders), IsFiniteSet(Tickers), NEW x,
           NEW bal \in Balances(Int), NEW k \in Tickers, NEW a \in Traders, NEW b \in Traders,
           a # b, NEW n \in Nat
    PROVE  SumOf(Move(bal, k, a, b, n), x) = SumOf(bal, x)
<1> DEFINE new == Move(bal, k, a, b, n)
           v == bal[b][k] + n
           mid == [bal EXCEPT ![b][k] = v]
<1>1. /\ new \in Balances(Int)
      /\ new[b][k] = bal[b][k] + n /\ new[a][k] = bal[a][k] - n
      /\ \A c \in Traders, j \in Tickers : j # k \/ c \notin {a, b} => new[c][j] = bal[c][j]
  BY MoveType
<1>2. v \in Int /\ bal[b][k] \in Int /\ bal[a][k] \in Int
  BY DEF Balances
<1>3. /\ mid \in Balances(Int) /\ mid[b][k] = bal[b][k] + n
      /\ \A c \in Traders, j \in Tickers : c # b \/ j # k => mid[c][j] = bal[c][j]
  <2>1. bal \in [Traders -> [Tickers -> Int]]
    BY DEF Balances
  <2> QED BY <1>2, <2>1, Update2 DEF Balances
<1> HIDE DEF mid, new, v
<1>4. SumOf(mid, x) = SumOf(bal, x) + (IF tokens[k] = x THEN n ELSE 0)
  BY <1>3, SumUpdate
<1>5. SumOf(new, x) = SumOf(mid, x) + (IF tokens[k] = x THEN -n ELSE 0)
  <2>1. /\ -n \in Int /\ new[a][k] = mid[a][k] + (-n)
        /\ \A c \in Traders, j \in Tickers : c # a \/ j # k => new[c][j] = mid[c][j]
    BY <1>1, <1>2, <1>3
  <2> QED BY <1>1, <1>3, <2>1, SumUpdate
<1>6. SumOf(bal, x) \in Int
  BY CoinsType
<1> QED BY <1>4, <1>5, <1>6 DEF new

LEMMA SettleSum ==
    ASSUME IsFiniteSet(Traders), IsFiniteSet(Tickers), NEW x,
           NEW bal \in Balances(Int), NEW k \in Tickers, k # PIN, NEW a \in Traders,
           NEW b \in Traders, NEW n \in Nat, NEW p \in Nat
    PROVE  SumOf(Settle(bal, k, b, a, n, p), x) = SumOf(bal, x)
<1>1. CASE a = b
  BY <1>1 DEF Settle
<1>2. CASE a # b
  <2> DEFINE mid == Move(bal, k, a, b, n)
             v == n * p
  <2>1. v \in Nat /\ Settle(bal, k, b, a, n, p) = Move(mid, PIN, b, a, v)
    BY <1>2, SettleMoves
  <2>2. mid \in Balances(Int) /\ SumOf(mid, x) = SumOf(bal, x)
    BY <1>2, MoveType, MoveSum
  <2> HIDE DEF mid, v
  <2>3. SumOf(Move(mid, PIN, b, a, v), x) = SumOf(mid, x)
    BY <1>2, <2>1, <2>2, MoveSum, ExcAssumption
  <2> QED BY <2>1, <2>2, <2>3
<1> QED BY <1>1, <1>2

LEMMA MarketSum ==
    ASSUME IsFiniteSet(Traders), IsFiniteSet(Tickers), NEW x, ExcInv,
           NEW who \in Traders, NEW k \in Tickers, NEW n \in Amounts, NEW s \in Sides,
           makeMarketOrder(who, k, n, s)
    PROVE  SumOf(traderBalances', x) = SumOf(traderBalances, x)
<1> USE DEF ExcInv
<1> DEFINE B == orderBook[k][Other(s)]
           sum == SumOf(traderBalances, x)
<1>1. n \in Nat /\ k # PIN /\ exist(k) /\ Other(s) \in Sides
  BY ExcAssumption DEF makeMarketOrder, notPine, Other, Sides
<1>2. PICK g : /\ Rounds(g, B, n, who, k, s)
               /\ \A i \in 0 .. Len(B) : Loop(g[i], B, i, who, k, s)
  BY <1>1, ExecuteRounds, BooksAreOpen
<1>3. B \in Seq(Orders) /\ Len(B) \in Nat /\ \A i \in DOMAIN B : B[i] \in Orders /\ Open(B[i])
  <2>1. B \in Seq(Orders)
    BY <1>1 DEF TypeOK
  <2>2. \A i \in DOMAIN B : Open(B[i])
    BY <1>1 DEF Books, GoodBook
  <2> QED BY <2>1, <2>2
<1> DEFINE T == {i \in 0 .. Len(B) : SumOf(g[i].bal, x) = sum}
<1>4. Len(B) \in T
  <2>1. g[Len(B)].bal = traderBalances
    BY <1>2 DEF Rounds
  <2> HIDE DEF B
  <2> QED BY <1>3, <2>1
<1>5. ASSUME NEW i \in 1 .. Len(B), i \in T PROVE i - 1 \in T
  <2> DEFINE acc == g[i]
             new == g[i - 1]
             o == B[i]
             m == Traded(o, acc.left)
  <2>1. new = Fill(o, acc) /\ Loop(acc, B, i, who, k, s) /\ o \in Orders /\ Open(o)
    BY <1>2, <1>3 DEF Rounds
  <2>2. SumOf(acc.bal, x) = sum
    BY <1>5
  <2> HIDE DEF acc, new, o, B
  <2>3. /\ acc \in Accs /\ acc.left \in Nat /\ acc.bal \in Balances(Int) /\ acc.ticker = k
        /\ Buyer(o, acc) \in Traders /\ Seller(o, acc) \in Traders /\ o.price \in Nat
    BY <2>1 DEF Loop, Accs, Orders, Buyer, Seller
  <2>4. /\ acc.left = 0 => new.bal = acc.bal
        /\ acc.left # 0 => new.bal = Settle(acc.bal, k, Buyer(o, acc), Seller(o, acc), m, o.price)
    <3>1. acc.ticker # PIN /\ nextTradeID \in Nat /\ nextOrderID \in Nat
      BY <1>1, <2>3 DEF TypeOK
    <3>2. /\ acc.left = 0 => new.bal = acc.bal
          /\ acc.left # 0 => new.bal = Settle(acc.bal, acc.ticker, Buyer(o, acc), Seller(o, acc), m, o.price)
      BY <2>1, <2>3, <3>1, FillFields
    <3> QED BY <2>3, <3>2
  <2>5. m \in Nat
    BY <2>1, <2>3, TradedType
  <2> HIDE DEF m
  <2>6. SumOf(new.bal, x) = sum
    <3>1. CASE acc.left = 0
      BY <2>2, <2>4, <3>1
    <3>2. CASE acc.left # 0
      <4>1. SumOf(Settle(acc.bal, k, Buyer(o, acc), Seller(o, acc), m, o.price), x) = SumOf(acc.bal, x)
        BY <1>1, <2>3, <2>5, SettleSum
      <4> QED BY <2>2, <2>4, <3>2, <4>1
    <3> QED BY <3>1, <3>2
  <2> QED BY <1>3, <2>6 DEF new
<1>6. 0 \in T
  <2>1. 0 .. Len(B) \subseteq T
    <3> HIDE DEF T, B
    <3> QED BY <1>3, <1>4, <1>5, L!DownInduction
  <2> QED BY <1>3, <2>1
<1>7. traderBalances' = g[0].bal
  BY <1>2 DEF Rounds, makeMarketOrder
<1> QED BY <1>6, <1>7

\* Every ticker is listed with one address, as the tests of the repository
\* do.  The contract does not require it, and an address that is replaced
\* leaves what was deposited behind.
OneAddress == \A l, m \in Listings : l[1] = m[1] => l[2] = m[2]

Listed == \A k \in Tickers : tokens[k] # NoAddr => \E l \in Listings : l[1] = k /\ l[2] = tokens[k]

SolventInv == ExcInv /\ Listed /\ Solvent

LEMMA StepSolvent ==
    ASSUME IsFiniteSet(Traders), IsFiniteSet(Tickers), OneAddress, SolventInv,
           [Next]_excVars
    PROVE  SolventInv'
<1> USE DEF SolventInv
<1>1. ExcInv'
  BY StepInv
<1>2. traderBalances \in Balances(Int) /\ traderBalances' \in Balances(Int)
      /\ traderBalances \in Balances(Nat)
  BY <1>1 DEF ExcInv, TypeOK, Balances
<1>3. \A x \in Addrs : held[x] = SumOf(traderBalances, x) /\ held[x] \in Nat
  BY DEF Solvent, SumBalances, SumOf, Coins, OfToken, ExcInv, TypeOK
<1>4. ASSUME UNCHANGED tokens, \A x \in Addrs : held'[x] = SumOf(traderBalances', x)
      PROVE  Listed' /\ Solvent'
  <2>1. Listed'
    BY <1>4 DEF Listed
  <2>2. \A x \in Addrs : SumBalances(x)' = SumOf(traderBalances', x)
    BY <1>4 DEF SumBalances, SumOf, Coins, OfToken
  <2> QED BY <1>4, <2>1, <2>2 DEF Solvent
<1>5. ASSUME NEW l \in Listings, addToken(l[1], l[2]) PROVE Listed' /\ Solvent'
  <2> DEFINE k == l[1]
  <2>1. /\ k \in Tickers /\ l[2] \in Addrs /\ l[2] # NoAddr
        /\ tokens' = [tokens EXCEPT ![k] = l[2]] /\ UNCHANGED <<traderBalances, held>>
        /\ tokens'[k] = l[2] /\ \A j \in Tickers : j # k => tokens'[j] = tokens[j]
    BY <1>5, ExcAssumption DEF addToken, Addrs, ExcInv, TypeOK
  <2>2. Listed'
    BY <2>1 DEF Listed
  <2>3. CASE tokens[k] # NoAddr
    <3>1. tokens[k] = l[2]
      BY <2>1, <2>3 DEF Listed, OneAddress
    <3>2. UNCHANGED tokens
      BY <2>1, <3>1 DEF ExcInv, TypeOK
    <3>3. \A x \in Addrs : held'[x] = SumOf(traderBalances', x)
      BY <1>3, <2>1
    <3> QED BY <1>4, <3>2, <3>3
  <2>4. CASE tokens[k] = NoAddr
    <3> DEFINE f == Coins(traderBalances)
               D(x) == {c \in Traders \X Tickers : tokens'[c[2]] = x}
    <3>1. ASSUME NEW x \in Addrs PROVE SumFunctionOnSet(f, D(x)) = SumFunctionOnSet(f, OfToken(x))
      <4>1. OfToken(x) \in SUBSET D(x)
        BY <2>1, <2>4, ExcAssumption DEF OfToken
      <4>2. \A c \in D(x) \ OfToken(x) : f[c] = 0
        <5> SUFFICES ASSUME NEW c \in D(x) \ OfToken(x) PROVE f[c] = 0
          OBVIOUS
        <5>1. c \in Traders \X Tickers /\ c[2] = k
          BY <2>1 DEF OfToken
        <5>2. traderBalances[c[1]][c[2]] = 0
          BY <2>4, <5>1 DEF ExcInv, Unlisted
        <5> QED BY <5>1, <5>2 DEF Coins
      <4>3. IsFiniteSet(D(x))
        <5>1. IsFiniteSet(Traders \X Tickers)
          BY FS_Product
        <5>2. D(x) \in SUBSET (Traders \X Tickers)
          OBVIOUS
        <5> HIDE DEF D
        <5> QED BY <5>1, <5>2, FS_Subset
      <4>4. \A c \in OfToken(x) : f[c] \in Int
        BY <1>2, CoinsType
      <4> HIDE DEF D, f
      <4> QED BY <4>1, <4>2, <4>3, <4>4, SumSame
    <3>2. \A x \in Addrs : SumBalances(x)' = SumFunctionOnSet(f, D(x))
      BY <2>1 DEF SumBalances, Coins
    <3>3. \A x \in Addrs : held'[x] = SumFunctionOnSet(f, OfToken(x))
      BY <1>3, <2>1 DEF SumOf
    <3> HIDE DEF f, D
    <3>4. Solvent'
      BY <3>1, <3>2, <3>3 DEF Solvent
    <3> QED BY <2>2, <3>4
  <2> QED BY <2>3, <2>4
<1>6. ASSUME NEW who \in Traders, NEW k \in Tickers, NEW n \in Amounts, deposit(who, n, k)
      PROVE  Listed' /\ Solvent'
  <2>1. /\ n \in Int /\ traderBalances' = [traderBalances EXCEPT ![who][k] = traderBalances[who][k] + n]
        /\ held' = [held EXCEPT ![tokens[k]] = held[tokens[k]] + n] /\ UNCHANGED tokens
        /\ tokens[k] \in Addrs /\ held \in [Addrs -> Nat]
    BY <1>6, ExcAssumption DEF deposit, exist, ExcInv, TypeOK
  <2>2. /\ traderBalances'[who][k] = traderBalances[who][k] + n
        /\ \A c \in Traders, j \in Tickers : c # who \/ j # k => traderBalances'[c][j] = traderBalances[c][j]
    BY <1>2, <2>1, Update2 DEF Balances
  <2>3. \A x \in Addrs : SumOf(traderBalances', x)
                         = SumOf(traderBalances, x) + (IF tokens[k] = x THEN n ELSE 0)
    <3> DEFINE new == traderBalances'
               m == n
    <3>1. /\ m \in Int /\ new \in Balances(Int) /\ new[who][k] = traderBalances[who][k] + m
          /\ \A c \in Traders, j \in Tickers : c # who \/ j # k => new[c][j] = traderBalances[c][j]
      BY <1>2, <2>1, <2>2
    <3> HIDE DEF new, m
    <3>2. \A x \in Addrs : SumOf(new, x)
                           = SumOf(traderBalances, x) + (IF tokens[k] = x THEN m ELSE 0)
      BY <1>2, <3>1, SumUpdate
    <3> QED BY <3>2 DEF new, m
  <2>4. \A x \in Addrs : held'[x] = held[x] + (IF tokens[k] = x THEN n ELSE 0)
    BY <2>1
  <2>5. \A x \in Addrs : held'[x] = SumOf(traderBalances', x)
    BY <1>3, <2>3, <2>4
  <2> QED BY <1>4, <2>1, <2>5
<1>7. ASSUME NEW who \in Traders, NEW k \in Tickers, NEW n \in Amounts, withdraw(who, n, k)
      PROVE  Listed' /\ Solvent'
  <2>1. /\ -n \in Int /\ n \in Nat
        /\ traderBalances' = [traderBalances EXCEPT ![who][k] = traderBalances[who][k] - n]
        /\ held' = [held EXCEPT ![tokens[k]] = held[tokens[k]] - n] /\ UNCHANGED tokens
        /\ tokens[k] \in Addrs /\ held \in [Addrs -> Nat]
    BY <1>7, ExcAssumption DEF withdraw, exist, ExcInv, TypeOK
  <2>2. /\ traderBalances'[who][k] = traderBalances[who][k] + (-n)
        /\ \A c \in Traders, j \in Tickers : c # who \/ j # k => traderBalances'[c][j] = traderBalances[c][j]
    <3>1. /\ traderBalances'[who][k] = traderBalances[who][k] - n
          /\ \A c \in Traders, j \in Tickers : c # who \/ j # k => traderBalances'[c][j] = traderBalances[c][j]
      BY <1>2, <2>1, Update2 DEF Balances
    <3>2. traderBalances[who][k] \in Int
      BY <1>2 DEF Balances
    <3> QED BY <2>1, <3>1, <3>2
  <2>3. \A x \in Addrs : SumOf(traderBalances', x)
                         = SumOf(traderBalances, x) + (IF tokens[k] = x THEN -n ELSE 0)
    <3> DEFINE new == traderBalances'
               m == -n
    <3>1. /\ m \in Int /\ new \in Balances(Int) /\ new[who][k] = traderBalances[who][k] + m
          /\ \A c \in Traders, j \in Tickers : c # who \/ j # k => new[c][j] = traderBalances[c][j]
      BY <1>2, <2>1, <2>2
    <3> HIDE DEF new, m
    <3>2. \A x \in Addrs : SumOf(new, x)
                           = SumOf(traderBalances, x) + (IF tokens[k] = x THEN m ELSE 0)
      BY <1>2, <3>1, SumUpdate
    <3> QED BY <3>2 DEF new, m
  <2>4. \A x \in Addrs : held'[x] = held[x] + (IF tokens[k] = x THEN -n ELSE 0)
    BY <2>1
  <2>5. \A x \in Addrs : held'[x] = SumOf(traderBalances', x)
    BY <1>3, <2>3, <2>4
  <2> QED BY <1>4, <2>1, <2>5
<1>8. ASSUME NEW who \in Traders, NEW k \in Tickers, NEW n \in Amounts, NEW s \in Sides,
             makeMarketOrder(who, k, n, s)
      PROVE  Listed' /\ Solvent'
  <2>1. UNCHANGED <<tokens, held>>
    BY <1>8 DEF makeMarketOrder
  <2>2. \A x \in Addrs : SumOf(traderBalances', x) = SumOf(traderBalances, x)
    BY <1>8, MarketSum
  <2> QED BY <1>3, <1>4, <2>1, <2>2
<1>9. ASSUME UNCHANGED <<tokens, held, traderBalances>> PROVE Listed' /\ Solvent'
  BY <1>3, <1>4, <1>9
<1>10. CASE UNCHANGED excVars
  BY <1>1, <1>9, <1>10 DEF excVars
<1>11. CASE Next
  <2>1. ASSUME NEW who \in Traders, NEW k \in Tickers, NEW n \in Amounts, NEW s \in Sides,
               NEW p \in Prices, makeLimitOrder(who, k, n, p, s)
        PROVE  Listed' /\ Solvent'
    BY <1>9, <2>1 DEF makeLimitOrder
  <2>2. ASSUME NEW who \in Traders, NEW k \in Tickers, NEW s \in Sides, NEW id,
               deleteLimitOrder(who, id, k, s)
        PROVE  Listed' /\ Solvent'
    BY <1>9, <2>2 DEF deleteLimitOrder
  <2> QED BY <1>1, <1>5, <1>6, <1>7, <1>8, <1>11, <2>1, <2>2 DEF Next
<1> QED BY <1>10, <1>11

\* The exchange owns of every token what its traders' balances add up to, for
\* any number of traders, tokens and trades, when each ticker has one address.
THEOREM ExchangeSolvent ==
    ASSUME IsFiniteSet(Traders), IsFiniteSet(Tickers), OneAddress
    PROVE  Spec => []Solvent
<1>1. ASSUME Init PROVE SolventInv
  <2>1. ExcInv
    BY <1>1, InitInv
  <2>2. Listed
    BY <1>1 DEF Init, Listed
  <2>3. ASSUME NEW x \in Addrs PROVE held[x] = SumBalances(x)
    <3> DEFINE f == [c \in Traders \X Tickers |-> traderBalances[c[1]][c[2]]]
    <3>1. {c \in Traders \X Tickers : tokens[c[2]] = x} = {}
      BY <1>1, ExcAssumption DEF Init
    <3>2. SumFunctionOnSet(f, {}) = 0
      <4> HIDE DEF f
      <4> QED BY SumTakeOut, FS_EmptySet
    <3>3. SumBalances(x) = 0
      BY <3>1, <3>2 DEF SumBalances
    <3> QED BY <1>1, <3>3 DEF Init
  <2> QED BY <2>1, <2>2, <2>3 DEF SolventInv, Solvent
<1>2. SolventInv /\ [Next]_excVars => SolventInv'
  BY StepSolvent
<1>3. SolventInv => Solvent
  BY DEF SolventInv
<1> QED BY <1>1, <1>2, <1>3, PTL DEF Spec
=============================================================================
