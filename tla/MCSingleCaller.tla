----------------------------- MODULE MCSingleCaller -----------------------------
(* The parts that one caller uses at a time, and that share nothing: the    *)
(* three backtesters of backtesting/, a paper runner's tick, the domain     *)
(* objects, the fetching of bars, the strategies that read a frame of bars, *)
(* the option chain and the sizers.  A behaviour is one of one of them.     *)
EXTENDS TradeSimulator, PortfolioEngine, WalkForward, BarTrader, Domain, MarketData,
        Signals, OptionChain, Sizing, TLC

vars == <<simVars, pfVars, wfVars, barVars, domainVars, feedVars, signalVars, chainVars,
          sizingVars>>

Init == /\ SimInit /\ PfInit /\ WfInit /\ BarInit /\ DomainInit /\ FeedInit
        /\ SignalsInit /\ ChainInit /\ SizingInit

\* The parts in use; a step is one of the part in use, or begins to use one.
SimUsed == bar # -1
PfUsed == date # 0
WfUsed == wfAt # "idle"
BarUsed == strategy # ""
DomainUsed == orders # 0
FeedUsed == phase # "idle"
SignalsUsed == assembled
ChainUsed == query # NoQuery
SizingUsed == steps # 0

BacktestUsed == SimUsed \/ PfUsed \/ WfUsed
ObjectsUsed == BarUsed \/ DomainUsed \/ FeedUsed
FramesUsed == SignalsUsed \/ ChainUsed \/ SizingUsed

backtestVars == <<simVars, pfVars, wfVars>>
objectVars == <<barVars, domainVars, feedVars>>
frameVars == <<signalVars, chainVars, sizingVars>>

Next ==
  \/ /\ ~ObjectsUsed /\ ~FramesUsed
     /\ UNCHANGED <<objectVars, frameVars>>
     /\ \/ ~PfUsed /\ ~WfUsed /\ SimNext /\ UNCHANGED <<pfVars, wfVars>>
        \/ ~SimUsed /\ ~WfUsed /\ PfNext /\ UNCHANGED <<simVars, wfVars>>
        \/ ~SimUsed /\ ~PfUsed /\ WfNext /\ UNCHANGED <<simVars, pfVars>>
  \/ /\ ~BacktestUsed /\ ~FramesUsed
     /\ UNCHANGED <<backtestVars, frameVars>>
     /\ \/ ~DomainUsed /\ ~FeedUsed /\ BarNext /\ UNCHANGED <<domainVars, feedVars>>
        \/ ~BarUsed /\ ~FeedUsed /\ DomainNext /\ UNCHANGED <<barVars, feedVars>>
        \/ ~BarUsed /\ ~DomainUsed /\ FeedNext /\ UNCHANGED <<barVars, domainVars>>
  \/ /\ ~BacktestUsed /\ ~ObjectsUsed
     /\ UNCHANGED <<backtestVars, objectVars>>
     /\ \/ ~ChainUsed /\ ~SizingUsed /\ SignalsNext /\ UNCHANGED <<chainVars, sizingVars>>
        \/ ~SignalsUsed /\ ~SizingUsed /\ ChainNext /\ UNCHANGED <<signalVars, sizingVars>>
        \/ ~SignalsUsed /\ ~ChainUsed /\ SizingNext /\ UNCHANGED <<signalVars, chainVars>>

Spec == Init /\ [][Next]_vars

TypeOK ==
  /\ SimTypeOK /\ PfTypeOK /\ WfTypeOK /\ BarTypeOK /\ DomainTypeOK /\ FeedTypeOK
  /\ SignalsTypeOK /\ ChainTypeOK /\ SizingTypeOK

\* A backtest of one symbol or of a portfolio accounts for its money: its capital is
\* the initial one and the profits of its trades, no purchase is on credit, and
\* no allocation is passed (backtesting/engine.py, portfolio_engine.py).
BacktestsAccount == SimAccounts /\ SimCashFloor /\ PfAccounts /\ PfExposure

\* A size asked for is safe, and so is a chain of options (risk/sizer.py,
\* risk/manager.py, backtesting/multi_runner.py, derivatives/options.py).
ComputationsSound == SizesCapped /\ ChainSound

\* The slots of orders are alike, and so are the symbols.
Alike == Permutations(Slots) \cup Permutations(Symbols)

MCClosePrices == {-5, 0, 2, 5}

Asks(i, p, w) == [interval |-> i, period |-> p, min |-> 1, weekend |-> w]
MCRequests == {Asks("1d", "2d", TRUE), Asks("5m", "3y", FALSE), Asks("1d", "3y", FALSE)}

ABar(l, h, c, v, r) == [low |-> l, high |-> h, close |-> c, volume |-> v, rv |-> r]
MCShapes == {ABar(10, 12, 11, 1, NoRv), ABar(11, 13, 13, 2, 1), ABar(9, 10, 9, 0, 3)}
MCWeights == {[orb |-> 2, vwap |-> 2, covered_call |-> 1]}

C(e, ks) == {[expiry |-> e, strike |-> k] : k \in ks}
MCContracts == {{}, C(1, {100}), C(1, {50, 100, 150, 200, 250}), C(2, {100, 150, 250}),
                C(1, {100, 150}) \cup C(2, {100, 200, 300})}
Day(d, w, l) == [date |-> d, weekday |-> w, length |-> l]
MCCalendar == {Day(10, 3, 30), Day(27, 0, 30), Day(27, 3, 30), Day(28, 6, 30), Day(24, 3, 31)}

Edge(w, a, l) == [win_rate |-> w, avg_win |-> a, avg_loss |-> l]
MCEdges == {Edge(60, 8, 5), Edge(50, 2, 1), Edge(40, 2, 2), Edge(55, 1, 0), Edge(5, 100, 1)}
=============================================================================
