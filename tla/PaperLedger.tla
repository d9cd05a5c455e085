-------------------------------- MODULE PaperLedger --------------------------------
(***************************************************************************)
(* paper_trading/service.py and storage.py for one virtual account: orders *)
(* frozen after a session, executed at the open of the next one, and the   *)
(* three ledgers an execution appends to one after the other - positions,  *)
(* equity, trades.  Commands run one at a time under the production lock;  *)
(* a kill or an I/O error may fall between two appends, and nothing but    *)
(* the ledgers is remembered.                                              *)
(*                                                                         *)
(* Shares are counted in lots, money in hundredths, and a session has one  *)
(* price per code (0: no row), so that costs in percent are exact.  The    *)
(* account files, reports, average cost and drawdown are left out, and so  *)
(* is the T+1 rejection, which no position read before the session meets.  *)
(***************************************************************************)
EXTENDS Integers, Sequences, FiniteSets, FiniteSetsExt, Functions

CONSTANTS Codes,
          TopN,          \* portfolio.top_n: targets of equal weight
          LastSession,   \* bound: sessions; its own orders would never be due
          Markets,       \* what a session may look like
          InitialCash,
          BuyRate,       \* commission and slippage, in percent
          SellRate,      \* the same with stamp duty
          Replayed,      \* whether an interrupted session is replayed before the next
          None

Sessions == 1..LastSession

ASSUME PaperAssumption ==
    /\ IsFiniteSet(Codes)
    /\ LastSession \in Nat
    /\ TopN \in Nat \ {0}
    /\ Markets \subseteq [Codes -> [price : Nat, buy : BOOLEAN, sell : BOOLEAN]]
    /\ \A m \in Markets : \A c \in Codes : m[c].buy \/ m[c].sell => m[c].price > 0
    /\ InitialCash \in Nat
    /\ BuyRate \in 0..99 /\ SellRate \in 0..99
    /\ Replayed \in BOOLEAN

\* The equity row of a session.
EquityRecords == [cash : Int, holdings : Nat, previous : Int, closed : Nat]

ASSUME NoneAssumption == None \notin Sessions \cup EquityRecords

\* The best TopN codes of a signal, in the order of their ranks.
Rankings == {r \in UNION {[1..n -> Codes] : n \in 0..TopN} : IsInjective(r)}

VARIABLES market,      \* the sessions that have been: today is the last
          orders,      \* the orders frozen at each session, or None
          positions,   \* position rows of each session, by code
          equity,      \* the equity row of each session, or None
          trades,      \* trade rows of each session, by code: one per order
          at,          \* the session being executed, or None
          step         \* the last ledger it has appended to

ledgers == <<orders, positions, equity, trades>>
vars == <<market, ledgers, at, step>>

NoRows == [c \in {} |-> None]
today == Len(market)

Init ==
    /\ market = <<>>
    /\ orders = [s \in Sessions |-> None]
    /\ positions = [s \in Sessions |-> NoRows]
    /\ equity = [s \in Sessions |-> None]
    /\ trades = [s \in Sessions |-> NoRows]
    /\ at = None
    /\ step = "none"

-----------------------------------------------------------------------------
(* What the ledgers say before a session *)

\* The last row of a code in the sessions given; a sold code is dropped.
LatestRow(sessions, c) ==
    LET dates == {t \in sessions : c \in DOMAIN positions[t]}
        row == positions[Max(dates)][c]
    IN  IF dates = {} \/ row.lots = 0 THEN [lots |-> 0, mark |-> 0] ELSE row

\* Mutant of Held: the session's own rows are eligible.
HeldOrToday(s, c) == LatestRow((1..s) \cap Sessions, c)

\* _current_positions
Held(s, c) == LatestRow(1..(s - 1), c)

\* _current_cash
Cash(s) == InitialCash + SumFunction([t \in 1..(s - 1) |-> SumFunction([c \in DOMAIN trades[t] |-> trades[t][c].delta])])

-----------------------------------------------------------------------------
(* _execute_portfolio, from those rows and the session's prices *)

Price(s, c) == market[s][c].price
Due(s) == orders[s - 1].codes
Targets(s) == orders[s - 1].ranking

\* A missing price is replaced by the last mark, for valuation only.
Mark(s, c) == IF Price(s, c) > 0 THEN Price(s, c) ELSE Held(s, c).mark
Account(s) == Cash(s) + 100 * SumFunction([c \in Codes |-> Held(s, c).lots * Mark(s, c)])

\* _desired_shares
Desired(s, c) ==
    CASE c \notin Range(Targets(s)) -> 0
      [] c \in Range(Targets(s)) /\ Price(s, c) = 0 -> Held(s, c).lots + 1
      [] OTHER -> IF Account(s) > 0 THEN Account(s) \div (TopN * 100 * Price(s, c)) ELSE 0

\* Mutant of Sold: one lot too many.
SoldTooMany(s, c) ==
    IF c \in Due(s) /\ Desired(s, c) < Held(s, c).lots /\ market[s][c].sell
    THEN Held(s, c).lots - Desired(s, c) + 1 ELSE 0

\* Lots of an order that sells, unless the code cannot be sold.
Sold(s, c) ==
    IF c \in Due(s) /\ Desired(s, c) < Held(s, c).lots /\ market[s][c].sell
    THEN Held(s, c).lots - Desired(s, c) ELSE 0

Proceeds(s, c) == Sold(s, c) * Price(s, c) * (100 - SellRate)

\* Mutants of Spent: a rebate instead of a cost; and of Affordable: costs forgotten.
SpentWithRebate(s, c, lots) == lots * Price(s, c) * (100 - BuyRate)
AffordableGross(s, c, cash) == cash \div (100 * Price(s, c))

Spent(s, c, lots) == lots * Price(s, c) * (100 + BuyRate)
Affordable(s, c, cash) == cash \div (Price(s, c) * (100 + BuyRate))

\* Lots bought of a target when this much cash is left.
Buy(s, c, cash) ==
    IF Desired(s, c) > Held(s, c).lots /\ market[s][c].buy
    THEN Max({0, Min({Desired(s, c) - Held(s, c).lots, Affordable(s, c, cash)})})
    ELSE 0

\* Cash after all sales and the first n purchases, in the order of ranks.
CashAfter(s) ==
    LET ranking == Targets(s)
        cash[n \in 0..Len(ranking)] ==
            IF n = 0 THEN Cash(s) + SumFunction([c \in Codes |-> Proceeds(s, c)])
            ELSE LET left == cash[n - 1]
                 IN  left - Spent(s, ranking[n], Buy(s, ranking[n], left))
    IN  cash

Bought(s, c) ==
    IF c \notin Range(Targets(s)) THEN 0
    ELSE LET n == CHOOSE n \in 1..Len(Targets(s)) : Targets(s)[n] = c
         IN  Buy(s, c, CashAfter(s)[n - 1])

Status(s, c) ==
    CASE Desired(s, c) = Held(s, c).lots -> "noop"
      [] Desired(s, c) # Held(s, c).lots /\ Sold(s, c) + Bought(s, c) = 0 -> "rejected"
      [] OTHER -> "filled"

TradeRows(s) ==
    [c \in Due(s) |->
        [status |-> Status(s, c),
         lots   |-> Bought(s, c) - Sold(s, c),
         delta  |-> Proceeds(s, c) - Spent(s, c, Bought(s, c))]]

After(s, c) == Held(s, c).lots + Bought(s, c) - Sold(s, c)

\* Mutant of PositionRows: a code that has been sold gets no row.
RowsOfHoldings(s) ==
    [c \in {d \in Codes : After(s, d) > 0} |-> [lots |-> After(s, c), mark |-> Mark(s, c)]]

\* _position_rows: what was held, and what an order tried to change.
PositionRows(s) ==
    LET held == {c \in Codes : Held(s, c).lots > 0}
        touched == {c \in Due(s) : Desired(s, c) # Held(s, c).lots}
    IN  [c \in held \cup touched |-> [lots |-> After(s, c), mark |-> Mark(s, c)]]

\* _equity_row; win_rate is over all sales, in whatever session.
Value(row) == row.cash + 100 * row.holdings
EquityRow(s) ==
    LET earlier == {t \in 1..(s - 1) : equity[t] # None}
        sales(rows) == {c \in DOMAIN rows : rows[c].lots < 0}
    IN  [cash     |-> CashAfter(s)[Len(Targets(s))],
         holdings |-> SumFunction([c \in Codes |-> After(s, c) * Mark(s, c)]),
         previous |-> IF earlier = {} THEN InitialCash ELSE Value(equity[Max(earlier)]),
         closed   |-> SumFunction([t \in Sessions |->
                                Cardinality(sales(IF t = s THEN TradeRows(s) ELSE trades[t]))])]

\* append_ledger: an identity that is there already must have the same payload.
Agree(old, new) == \A c \in DOMAIN old \cap DOMAIN new : old[c] = new[c]
Merge(old, new) == [c \in DOMAIN old \cup DOMAIN new |-> IF c \in DOMAIN old THEN old[c] ELSE new[c]]

-----------------------------------------------------------------------------
(* Commands *)

\* The daily data of a session arrives.
NewSession(m) ==
    /\ at = None
    /\ today < LastSession
    /\ market' = Append(market, m)
    /\ UNCHANGED <<ledgers, at, step>>

\* rebalance: targets, and an exit for what is held.  A second one for the session
\* finds the orders frozen and changes nothing.
Rebalance(s, ranking) ==
    LET codes == Range(ranking) \cup {c \in Codes : LatestRow(1..s, c).lots > 0}
    IN  /\ at = None
        /\ s \in 1..today
        /\ s < LastSession
        /\ orders[s] = None
        /\ codes # {}
        /\ orders' = [orders EXCEPT ![s] = [ranking |-> ranking, codes |-> codes]]
        /\ UNCHANGED <<market, positions, equity, trades, at, step>>

HasRows(s) == positions[s] # NoRows \/ equity[s] # None
Unfinished(s) == HasRows(s) /\ trades[s] = NoRows

\* The environment: the timer goes from session to session, so none is executed
\* after a later one; an interrupted one may have been replayed before, or not.
InTurn(s) ==
    \A t \in Sessions : /\ t > s => ~HasRows(t)
                        /\ Replayed /\ t < s => ~Unfinished(t)

\* execute: orders of the preceding session that have no trade yet.
AppendPositions(s) ==
    /\ at = None
    /\ s \in 2..today
    /\ orders[s - 1] # None
    /\ trades[s] = NoRows
    /\ InTurn(s)
    /\ LET rows == PositionRows(s)
       IN  Agree(positions[s], rows) /\ positions' = [positions EXCEPT ![s] = Merge(@, rows)]
    /\ at' = s
    /\ step' = "positions"
    /\ UNCHANGED <<market, orders, equity, trades>>

AppendEquity ==
    /\ step = "positions"
    /\ LET row == EquityRow(at)
       IN  equity[at] \in {None, row} /\ equity' = [equity EXCEPT ![at] = row]
    /\ step' = "equity"
    /\ UNCHANGED <<market, orders, positions, trades, at>>

\* The commit marker.
AppendTrades ==
    /\ step = "equity"
    /\ trades' = [trades EXCEPT ![at] = TradeRows(at)]
    /\ at' = None
    /\ step' = "none"
    /\ UNCHANGED <<market, orders, positions, equity>>

\* A conflict, an I/O error or a kill.
Interrupt ==
    /\ at # None
    /\ at' = None
    /\ step' = "none"
    /\ UNCHANGED <<market, ledgers>>

Next ==
    \/ \E m \in Markets : NewSession(m)
    \/ \E s \in Sessions : \E ranking \in Rankings : Rebalance(s, ranking)
    \/ \E s \in Sessions : AppendPositions(s)
    \/ AppendEquity \/ AppendTrades \/ Interrupt

Spec == Init /\ [][Next]_vars

-----------------------------------------------------------------------------
(* Properties *)

OrderRecords == [ranking : Rankings, codes : SUBSET Codes]
AreRows(rows, Record) == DOMAIN rows \subseteq Codes /\ rows \in [DOMAIN rows -> Record]

TypeOK ==
    /\ market \in Seq(Markets) /\ today <= LastSession
    /\ orders \in [Sessions -> OrderRecords \cup {None}]
    /\ DOMAIN positions = Sessions /\ DOMAIN trades = Sessions
    /\ \A s \in Sessions : AreRows(positions[s], [lots : Nat, mark : Nat])
    /\ equity \in [Sessions -> EquityRecords \cup {None}]
    /\ \A s \in Sessions : AreRows(trades[s], [status : {"filled", "rejected", "noop"},
                                                lots : Int, delta : Int])
    /\ at \in Sessions \cup {None}
    /\ step \in {"none", "positions", "equity"}

\* Lots of a code that the trades before a session account for.
Traded(s, c) == SumFunction([t \in 1..(s - 1) |-> IF c \in DOMAIN trades[t] THEN trades[t][c].lots ELSE 0])

\* The three ledgers tell one story: with nothing interrupted, the holdings are
\* what the trades bought and did not sell, and the last equity row has the cash
\* the trades left, although they are written apart and read back apart.
LedgersAgree ==
    LET valued == {s \in Sessions : equity[s] # None}
    IN  at = None /\ (\A s \in Sessions : ~Unfinished(s))
          => /\ \A c \in Codes : Held(today + 1, c).lots = Traded(today + 1, c)
             /\ valued # {} => equity[Max(valued)].cash = Cash(today + 1)

\* Purchases are made one by one with the cash that is left, costs included,
\* after whatever sales the market let through: it is never overdrawn.
CashIsCovered ==
    /\ \A s \in 1..(today + 1) : Cash(s) >= 0
    /\ \A s \in Sessions : equity[s] # None => equity[s].cash >= 0

\* service.py: "If an earlier ledger write fails, the deterministic position/equity
\* events can be replayed safely": an interrupted session computes again exactly
\* what it has already written, so append_ledger does not refuse it.
ReplayIsSafe ==
    \A s \in Sessions :
        Unfinished(s) => /\ positions[s] = PositionRows(s)
                         /\ equity[s] \in {None, EquityRow(s)}

\* Trading at the session's price only ever costs: after an execution the account
\* is worth what it was before, less commission, slippage and duty on each fill.
TradingCreatesNoValue ==
    step = "equity" => Value(equity[at]) =
        Account(at) - SumFunction([c \in Codes |-> Sold(at, c) * Price(at, c) * SellRate
                                               + Bought(at, c) * Price(at, c) * BuyRate])

\* docs/paper_trading.md: "Cash and positions are reconstructed by replaying prior
\* trade and position events": an execution that commits held what prior trades
\* account for, so that every share it values or sells has been paid for.
HoldingsArePaidFor ==
    \A s \in Sessions :
        trades[s] # NoRows => \A c \in Codes : Held(s, c).lots = Traded(s, c)
=============================================================================
