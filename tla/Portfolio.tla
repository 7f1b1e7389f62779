------------------------------- MODULE Portfolio ------------------------------
(***************************************************************************)
(* The advisor's two portfolio calculators as functions of the positions   *)
(* and the latest closes.  The table holds decimals; the calculators turn  *)
(* them into floats and compute with those, so a sum or a difference of    *)
(* shares is rounded: .1 + .7 falls short of .8.                           *)
(*                                                                         *)
(* Amounts of shares and of money are integers, in a unit fine enough for  *)
(* the decimals and the floats alike, and fl[x] is the float nearest to x. *)
(* Prices are in a power of two of a dollar, which leaves the floats of    *)
(* money where those of shares are.  Of a lot only its shares matter here: *)
(* gain, term and tax are formulas over the shares taken from each lot.    *)
(* Nothing in the repository writes a position: the rows are put into the  *)
(* table from outside.                                                     *)
(***************************************************************************)
EXTENDS Integers, Sequences, FiniteSetsExt, SequencesExt

CONSTANTS
    MaxPositions,   \* bound: open positions
    MaxTrades,      \* bound: trades of one simulation
    MaxShares,      \* bound: shares of a position, of a trade
    LotSizes,       \* the shares of a position, decimals
    Asked,          \* the shares a client asks to sell or trade, floats
    MaxPrice,       \* bound: prices
    Tolerance,      \* how much more than is held a trade may sell (1e-9)
    Limit,          \* bound: amounts are -Limit .. Limit
    Ulp,            \* how far the float nearest to an amount may be
    fl              \* fl[x]: the float nearest to x

Amounts == -Limit .. Limit

\* Rounding is monotone, leaves floats alone and goes no further than Ulp.
ASSUME RoundingAssumption ==
    /\ Limit \in Nat /\ Ulp \in Nat
    /\ fl \in [Amounts -> Amounts]
    /\ fl[0] = 0
    /\ \A x \in Amounts : fl[fl[x]] = fl[x] /\ x - Ulp <= fl[x] /\ fl[x] <= x + Ulp
    /\ \A x \in -Limit .. Limit - 1 : fl[x] <= fl[x + 1]

\* The client's schema has a positive number of shares (exclusiveMinimum 0).  Nothing
\* overflows.
ASSUME BookAssumption ==
    /\ MaxPositions \in Nat /\ MaxTrades \in Nat /\ MaxShares \in Nat /\ MaxPrice \in Nat
    /\ Tolerance \in Nat
    /\ LotSizes \subseteq 1 .. MaxShares /\ Asked \subseteq 1 .. MaxShares
    /\ MaxShares * MaxPrice <= Limit
    /\ \A x \in Asked : fl[x] = x
    /\ (MaxPositions + MaxTrades + 1) * (MaxShares + 2 * Ulp) + Tolerance <= Limit
    /\ MaxTrades * (MaxShares * MaxPrice + 2 * Ulp) <= Limit

Symbols == {"held", "other"}
Lots    == [symbol : Symbols, shares : LotSizes]

VARIABLES
    positions,   \* the user's open positions, oldest first
    close        \* close[s]: the latest close of s; 0 when there is none

bookVars == <<positions, close>>

BookInit == positions = <<>> /\ close = [s \in Symbols |-> 0]

OpenPosition ==
    /\ Len(positions) < MaxPositions
    /\ \E lot \in Lots : positions' = Append(positions, lot)
    /\ UNCHANGED close

NewClose ==
    /\ \E s \in Symbols, price \in 1 .. MaxPrice : close' = [close EXCEPT ![s] = price]
    /\ UNCHANGED positions

BookNext == OpenPosition \/ NewClose

Smaller(a, b) == IF a < b THEN a ELSE b

Total(amounts) == MapThenSumSet(LAMBDA i : amounts[i], DOMAIN amounts)

-----------------------------------------------------------------------------
(* calculate_tax_loss_harvest: lots, oldest first, are sold until the      *)
(* wanted number of shares is reached                                      *)

\* Mutant: a lot is always sold whole.
take_whole(avail, remaining) == avail

take(avail, remaining) == Smaller(avail, remaining)

\* sold[i] is what was taken from the i-th position.  The query selects the lots of
\* the symbol: the others are passed over.
ConsumeLot(sale, lot) ==
    LET n == IF sale.remaining <= 0 \/ lot.symbol # sale.symbol THEN 0
             ELSE take(fl[lot.shares], sale.remaining)
    IN  [sale EXCEPT !.remaining = fl[@ - n], !.sold = Append(@, n)]

Sale(symbol, wanted) ==
    FoldLeft(ConsumeLot, [symbol |-> symbol, remaining |-> wanted, sold |-> <<>>], positions)

TaxLossHarvest(symbol, wanted) ==
    LET sale == Sale(symbol, wanted) IN
    IF \A i \in DOMAIN positions : positions[i].symbol # symbol THEN [status |-> "no_position"]
    ELSE IF close[symbol] = 0 THEN [status |-> "no_price"]
    ELSE IF sale.remaining > 0
    THEN [status |-> "insufficient_shares", available |-> fl[wanted - sale.remaining]]
    ELSE [status |-> "ok", lots |-> sale.sold]

\* The shares of the symbol, position by position, as the table has them.
Held(symbol) ==
    [i \in DOMAIN positions |-> IF positions[i].symbol = symbol THEN positions[i].shares ELSE 0]

\* Whatever positions the user holds, the calculator takes the oldest shares of the
\* symbol first: from no lot more than it has, and from a lot only when all older ones
\* are gone.  What it sells is what was asked for, and what it refuses is more than is
\* held, but for the rounding of one sum and one difference per position: the residue
\* is compared with 0, so that a sale of all that is held may be refused
\* (advisor/tools.py:451-477).
SellsOldestShares ==
    \A s \in Symbols, wanted \in Asked :
        LET lots   == Held(s)
            sold   == Sale(s, wanted).sold
            answer == TaxLossHarvest(s, wanted)
            none   == \A i \in DOMAIN lots : lots[i] = 0
            dust   == Len(positions) * Ulp
        IN  /\ none => answer.status = "no_position"
            /\ ~none /\ close[s] = 0 => answer.status = "no_price"
            /\ ~none /\ close[s] # 0 =>
                  /\ \A i \in DOMAIN lots : sold[i] \in 0 .. fl[lots[i]]
                  /\ \A i, j \in DOMAIN lots : i < j /\ sold[j] > 0 => sold[i] = fl[lots[i]]
                  /\ \/ /\ answer.status = "ok"
                        /\ Total(sold) \in wanted - dust .. wanted + dust
                     \/ /\ answer.status = "insufficient_shares"
                        /\ \A i \in DOMAIN lots : sold[i] = fl[lots[i]]
                        /\ Total(lots) <= wanted + 2 * dust
                        /\ answer.available \in
                              Total(lots) - 2 * dust - Ulp .. Total(lots) + 2 * dust + Ulp

-----------------------------------------------------------------------------
(* calculate_portfolio_impact: trades at the latest close, in order        *)

Trades == [symbol : Symbols, side : {"buy", "sell"}, shares : Asked]

TradeLists == SeqOf(Trades, MaxTrades)

\* Mutant: a sale is paid for the shares left instead of the shares sold.
proceeds_of_rest(n, left, price) == fl[left * price]

proceeds(n, left, price) == fl[n * price]

\* A symbol without a close, or a sale of more than is held and the tolerance, ends
\* the simulation.
ApplyTrade(sim, t) ==
    LET have == sim.book[t.symbol]
        n    == t.shares
        left == fl[have - n]
    IN
    IF sim.status # "ok" THEN sim
    ELSE IF close[t.symbol] = 0 THEN [sim EXCEPT !.status = "no_price"]
    ELSE IF t.side = "buy"
    THEN [sim EXCEPT !.book[t.symbol] = fl[have + n],
                     !.cash = fl[@ - fl[n * close[t.symbol]]]]
    ELSE IF n > fl[have + Tolerance] THEN [sim EXCEPT !.status = "insufficient_shares"]
    ELSE [sim EXCEPT !.book[t.symbol] = left,
                     !.cash = fl[@ + proceeds(n, left, close[t.symbol])]]

\* The positions of a symbol are added up first; the query has them in no order, and
\* neither have the positions here.
AddPosition(book, p) == [book EXCEPT ![p.symbol] = fl[@ + fl[p.shares]]]

Book == FoldLeft(AddPosition, [s \in Symbols |-> 0], positions)

PortfolioImpact(cash, trades) ==
    FoldLeft(ApplyTrade, [status |-> "ok", book |-> Book, cash |-> cash], trades)

\* What a book and the cash are worth, exactly.
Worth(book, cash) == cash + Total([s \in Symbols |-> book[s] * close[s]])

\* Trades at the close move value between cash and positions and make none: however
\* many there are and in whatever order, a simulation that is not refused ends with
\* the value it began with but for the rounding of each trade, and no holding falls
\* below nothing by more than the tolerance and its rounding: what one sale may take
\* too much, the next does not add to (advisor/tools.py:516-572).
TradesConserveValue ==
    \A trades \in TradeLists :
        LET end   == PortfolioImpact(0, trades)
            worth == Worth(Book, 0)
            dust  == Len(trades) * ((MaxPrice + 2) * Ulp)
        IN  /\ \A s \in Symbols : end.book[s] >= - (Tolerance + 2 * Ulp)
            /\ end.status = "ok" => Worth(end.book, end.cash) \in worth - dust .. worth + dust

=============================================================================
