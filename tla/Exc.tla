--------------------------------- MODULE Exc ---------------------------------
(***************************************************************************)
(* The Redwood exchange (Redwood/contracts/Exc.sol).  A call to the        *)
(* contract is one step; a call that reverts changes nothing, so its       *)
(* conditions are guards.  SafeMath reverts where uint256 would wrap, so   *)
(* amounts are natural numbers.  The ERC20 tokens are external: a purse    *)
(* holds what a trader or the exchange owns of a token.                    *)
(***************************************************************************)
EXTENDS Integers, Sequences, FiniteSets, SequencesExt

CONSTANTS Traders,    \* addresses that call the contract
          Tickers,    \* tickers of tokens, PIN among them
          PIN,        \* ticker of the token that prices are in
          Listings,   \* <<ticker, address>> that addToken may be called with
          NoAddr,     \* the zero address, of a ticker that was not added
          Funds,      \* trader -> address of a token -> what it owns at the start
          Amounts,    \* amounts that calls may pass
          Prices,     \* prices that calls may pass
          MaxOrders,  \* bound on the limit orders that are made
          MaxTrades,  \* bound on the trades that are made
          MaxList     \* bound on the calls of addToken

Addrs == {l[2] : l \in Listings}

ASSUME ExcAssumption == /\ PIN \in Tickers /\ Funds \in [Traders -> [Addrs -> Nat]]
                        /\ {l[1] : l \in Listings} \subseteq Tickers /\ NoAddr \notin Addrs
                        /\ Amounts \subseteq Nat /\ Prices \subseteq Nat
                        /\ MaxOrders \in Nat /\ MaxTrades \in Nat /\ MaxList \in Nat

VARIABLES tokenList,       \* tickers in the order of addToken
          tokens,          \* ticker -> tokenAddress
          traderBalances,  \* trader -> ticker -> amount
          orderBook,       \* ticker -> side -> sequence of orders
          nextOrderID,
          nextTradeID,
          events,          \* NewTrade events of the last call
          purse,           \* ERC20: trader -> address of a token -> amount
          held             \* ERC20: address of a token -> what the exchange owns

excVars == <<tokenList, tokens, traderBalances, orderBook, nextOrderID, nextTradeID,
             events, purse, held>>

Sides == {"BUY", "SELL"}

\* The modifiers.
exist(ticker) == tokens[ticker] # NoAddr
notPine(ticker) == ticker # PIN

Init == /\ tokenList = <<>>
        /\ tokens = [k \in Tickers |-> NoAddr]
        /\ traderBalances = [a \in Traders |-> [k \in Tickers |-> 0]]
        /\ orderBook = [k \in Tickers |-> [s \in Sides |-> <<>>]]
        /\ nextOrderID = 0 /\ nextTradeID = 0 /\ events = <<>>
        /\ purse = Funds
        /\ held = [x \in Addrs |-> 0]

\* A ticker may be added again, and its address be replaced.
addToken(ticker, tokenAddress) ==
    /\ Len(tokenList) < MaxList
    /\ tokenList' = Append(tokenList, ticker)
    /\ tokens' = [tokens EXCEPT ![ticker] = tokenAddress]
    /\ events' = <<>>
    /\ UNCHANGED <<traderBalances, orderBook, nextOrderID, nextTradeID, purse, held>>

\* transferFrom reverts if the trader does not own the amount.
deposit(who, amount, ticker) ==
    /\ exist(ticker)
    /\ purse[who][tokens[ticker]] >= amount
    /\ purse' = [purse EXCEPT ![who][tokens[ticker]] = @ - amount]
    /\ held' = [held EXCEPT ![tokens[ticker]] = @ + amount]
    /\ traderBalances' = [traderBalances EXCEPT ![who][ticker] = @ + amount]
    /\ events' = <<>>
    /\ UNCHANGED <<tokenList, tokens, orderBook, nextOrderID, nextTradeID>>

\* Mutant of withdraw: the balance is not tested.
withdrawUnchecked(who, amount, ticker) ==
    /\ exist(ticker)
    /\ held[tokens[ticker]] >= amount
    /\ purse' = [purse EXCEPT ![who][tokens[ticker]] = @ + amount]
    /\ held' = [held EXCEPT ![tokens[ticker]] = @ - amount]
    /\ traderBalances' = [traderBalances EXCEPT ![who][ticker] = @ - amount]
    /\ events' = <<>>
    /\ UNCHANGED <<tokenList, tokens, orderBook, nextOrderID, nextTradeID>>

withdraw(who, amount, ticker) ==
    /\ exist(ticker)
    /\ traderBalances[who][ticker] >= amount
    /\ held[tokens[ticker]] >= amount
    /\ purse' = [purse EXCEPT ![who][tokens[ticker]] = @ + amount]
    /\ held' = [held EXCEPT ![tokens[ticker]] = @ - amount]
    /\ traderBalances' = [traderBalances EXCEPT ![who][ticker] = @ - amount]
    /\ events' = <<>>
    /\ UNCHANGED <<tokenList, tokens, orderBook, nextOrderID, nextTradeID>>
-----------------------------------------------------------------------------
(* Limit orders *)

\* The new order at the end of the array moves forward past every order that
\* is not strictly ahead of it.
Ahead(o, price, side) == IF side = "BUY" THEN o.price > price ELSE o.price < price

\* Mutant of Insert: the new order stays at the end.
InsertLast(book, o, side) == Append(book, o)

Insert(book, o, side) ==
    LET stop == {0} \cup {i \in DOMAIN book : Ahead(book[i], o.price, side)}
    IN  InsertAt(book, Max(stop) + 1, o)

\* Only the balance of this moment is tested; nothing is set aside.
makeLimitOrder(who, ticker, amount, price, side) ==
    LET o == [id |-> nextOrderID, trader |-> who, amount |-> amount, filled |-> 0,
              price |-> price]
    IN  /\ exist(ticker) /\ notPine(ticker)
        /\ nextOrderID < MaxOrders
        /\ IF side = "BUY" THEN traderBalances[who][PIN] >= amount * price
                           ELSE traderBalances[who][ticker] >= amount
        /\ orderBook' = [orderBook EXCEPT ![ticker][side] = Insert(@, o, side)]
        /\ nextOrderID' = nextOrderID + 1
        /\ events' = <<>>
        /\ UNCHANGED <<tokenList, tokens, traderBalances, nextTradeID, purse, held>>

\* The call that finds the order; one that does not returns false and does
\* nothing.
deleteLimitOrder(who, id, ticker, side) ==
    LET book == orderBook[ticker][side]
    IN  /\ exist(ticker) /\ notPine(ticker)
        /\ \E i \in DOMAIN book :
              /\ book[i].id = id /\ \A j \in 1 .. i - 1 : book[j].id # id
              /\ book[i].trader = who
              /\ orderBook' = [orderBook EXCEPT ![ticker][side] = RemoveAt(book, i)]
        /\ events' = <<>>
        /\ UNCHANGED <<tokenList, tokens, traderBalances, nextOrderID, nextTradeID, purse, held>>
-----------------------------------------------------------------------------
(* Market orders *)

\* Mutant of Settle: the seller's tokens are not taken.
SettleFree(bal, ticker, buyer, seller, n, price) ==
    [bal EXCEPT ![buyer][ticker] = @ + n, ![buyer][PIN] = @ - n * price,
                ![seller][PIN] = @ + n * price]

\* The four updates of the balances for one trade of n at the given price.
\* The order of the updates matters only when a trader trades with itself.
Settle(bal, ticker, buyer, seller, n, price) ==
    IF buyer = seller THEN bal
    ELSE [bal EXCEPT ![buyer][ticker] = @ + n, ![buyer][PIN] = @ - n * price,
                     ![seller][ticker] = @ - n, ![seller][PIN] = @ + n * price]

\* No SafeMath.sub of the four reverts.  The caller's balance is tested; in a
\* trade with itself what it gives has just grown by as much.
CanSettle(acc, buyer, seller, n, price) ==
    /\ acc.side = "BUY" \/ seller # buyer => acc.bal[buyer][PIN] >= n * price
    /\ acc.side = "SELL" \/ seller # buyer => acc.bal[seller][acc.ticker] >= n

Available(o) == o.amount - o.filled

\* Mutant of IsPartial: an order that is just used up stays in the book.
IsPartialOrFull(o, left) == Available(o) >= left

\* "if (available > left)": the order stays in the book, partly filled.
IsPartial(o, left) == Available(o) > left

\* One round of the loops of makeBUY and makeSELL.  Once nothing is left the
\* loop has ended, and the order stays.  A partial fill sets left to 0 BEFORE
\* it emits the event with it.
Fill(o, acc) ==
    LET n == IF IsPartial(o, acc.left) THEN acc.left ELSE Available(o)
        buyer == IF acc.side = "BUY" THEN acc.who ELSE o.trader
        seller == IF acc.side = "BUY" THEN o.trader ELSE acc.who
        rest == IF IsPartial(o, acc.left) THEN <<[o EXCEPT !.filled = @ + n]>> ELSE <<>>
        event == [tradeId |-> nextTradeID + Len(acc.events), orderId |-> nextOrderID,
                  trader1 |-> acc.who, trader2 |-> o.trader, price |-> o.price,
                  amount |-> IF IsPartial(o, acc.left) THEN 0 ELSE n]
    IN  IF acc.left = 0 THEN [acc EXCEPT !.book = <<o>> \o @]
        ELSE [acc EXCEPT !.ok = @ /\ CanSettle(acc, buyer, seller, n, o.price),
                         !.bal = Settle(@, acc.ticker, buyer, seller, n, o.price),
                         !.book = rest \o @,
                         !.left = @ - n,
                         !.events = Append(@, event)]

Other(side) == IF side = "BUY" THEN "SELL" ELSE "BUY"

\* The loop over the orders of the other side, from the END of the array.
\* If something is left after the first order, the index wraps and the next
\* access is out of bounds: the call reverts.
Execute(who, ticker, amount, side) ==
    FoldRight(Fill, orderBook[ticker][Other(side)],
              [who |-> who, ticker |-> ticker, side |-> side, left |-> amount, ok |-> TRUE,
               bal |-> traderBalances, book |-> <<>>, events |-> <<>>])

Succeeds(result) == result.ok /\ result.left = 0

makeMarketOrder(who, ticker, amount, side) ==
    LET result == Execute(who, ticker, amount, side)
    IN  /\ exist(ticker) /\ notPine(ticker)
        /\ side = "SELL" => traderBalances[who][ticker] >= amount
        /\ Succeeds(result)
        /\ nextTradeID + Len(result.events) <= MaxTrades
        /\ traderBalances' = result.bal
        /\ orderBook' = [orderBook EXCEPT ![ticker][Other(side)] = result.book]
        /\ nextTradeID' = nextTradeID + Len(result.events)
        /\ events' = result.events
        /\ UNCHANGED <<tokenList, tokens, nextOrderID, purse, held>>

\* Mutant of Quote: an order that is only needed in part is paid for in whole.
QuoteWhole(o, acc) == LET n == Min({Available(o), acc.left})
                      IN  IF n = 0 THEN acc
                          ELSE [left |-> acc.left - n, price |-> acc.price + Available(o) * o.price]

\* get_cheapest_price: the same loop over the SELL orders, without the trades.
\* It reverts, here -1, when there is not enough.
Quote(o, acc) == LET n == IF IsPartial(o, acc.left) THEN acc.left ELSE Available(o)
                 IN  [left |-> acc.left - n, price |-> acc.price + n * o.price]
get_cheapest_price(ticker, amount) ==
    LET result == FoldRight(Quote, orderBook[ticker]["SELL"], [left |-> amount, price |-> 0])
    IN  IF result.left = 0 THEN result.price ELSE -1
-----------------------------------------------------------------------------
Next ==
    \/ \E l \in Listings : addToken(l[1], l[2])
    \/ \E who \in Traders, k \in Tickers, n \in Amounts :
          \/ deposit(who, n, k)
          \/ withdraw(who, n, k)
          \/ \E s \in Sides : \/ \E p \in Prices : makeLimitOrder(who, k, n, p, s)
                              \/ makeMarketOrder(who, k, n, s)
    \/ \E who \in Traders, k \in Tickers, s \in Sides, id \in 0 .. MaxOrders :
          deleteLimitOrder(who, id, k, s)

Spec == Init /\ [][Next]_excVars
-----------------------------------------------------------------------------
(* Properties *)

Orders == [id : Nat, trader : Traders, amount : Nat, filled : Nat, price : Nat]
TypeOK ==
    /\ tokenList \in Seq(Tickers) /\ tokens \in [Tickers -> Addrs \cup {NoAddr}]
    /\ traderBalances \in [Traders -> [Tickers -> Nat]]
    /\ orderBook \in [Tickers -> [Sides -> Seq(Orders)]]
    /\ nextOrderID \in Nat /\ nextTradeID \in Nat
    /\ purse \in [Traders -> [Addrs -> Nat]] /\ held \in [Addrs -> Nat]

\* The exchange can always pay everybody: what it owns of a token is what the
\* balances of its traders add up to, whatever was traded at which prices.
SumBalances(x) == SumFunctionOnSet([c \in Traders \X Tickers |-> traderBalances[c[1]][c[2]]],
                                   {c \in Traders \X Tickers : tokens[c[2]] = x})
Solvent == \A x \in Addrs : held[x] = SumBalances(x)

\* Both books stay sorted, the BUY orders by falling and the SELL orders by
\* rising price, through insertions, deletions and fills; of orders with one
\* price the newer one comes first.
BooksSorted ==
    \A k \in Tickers, s \in Sides : LET book == orderBook[k][s]
        IN  \A i, j \in DOMAIN book : i < j =>
                \/ Ahead(book[i], book[j].price, s)
                \/ book[i].price = book[j].price /\ book[i].id > book[j].id

\* A market order gets "rid of completely filled limit orders" (Exc.sol), and
\* fills none beyond its amount: every order in a book has something to give,
\* unless it was made for nothing.
OrdersOpen == \A k \in Tickers, s \in Sides : \A i \in DOMAIN orderBook[k][s] :
                 LET o == orderBook[k][s][i] IN o.filled < o.amount \/ o.amount = 0

\* A market BUY order costs what get_cheapest_price said, as long as none of
\* the caller's own orders is in the book.
QuotePaid ==
    \A who \in Traders, k \in Tickers \ {PIN}, n \in Amounts :
        LET result == Execute(who, k, n, "BUY")
            mine == {i \in DOMAIN orderBook[k]["SELL"] : orderBook[k]["SELL"][i].trader = who}
        IN  Succeeds(result) /\ mine = {} =>
                traderBalances[who][PIN] - result.bal[who][PIN] = get_cheapest_price(k, n)
=============================================================================
