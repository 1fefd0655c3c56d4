------------------------------- MODULE BarTrader -------------------------------
(***************************************************************************)
(* A paper runner in a tick (live/runner.py): the strategy's on_bar()      *)
(* (strategies/ema_cross.py, strategies/triple_ema.py), then the signal to *)
(* PaperExecutor.execute() and the cash and position checks of the         *)
(* portfolio.  The strategy sets its own position as it signals and never  *)
(* hears what became of the order.                                         *)
(*                                                                         *)
(* Both strategies signal when the fast average crosses the medium one     *)
(* (ema_cross calls it slow); triple_ema demands that the slow one be      *)
(* beyond both.  Averages are in units of 1/Unit, a power of (Slow + 1)/2  *)
(* and of (Medium + 1)/2 large enough for every division to be exact.      *)
(***************************************************************************)
EXTENDS Integers, Sequences

CONSTANTS
  Strategies,   \* a subset of {"ema_cross", "triple_ema"}
  Closes,       \* closes of the bars that have one
  NaN,
  Fast, Medium, Slow,  \* the three spans
  Unit,
  CrossHistory, TripleHistory, \* closes that each strategy's deque keeps, _MAX_HISTORY
  Capital, Stake,      \* capital, and the share of it in one position
  Slippage,            \* per share, in PaperExecutor
  MaxBars

ASSUME BarTraderAssumption ==
  /\ Strategies \subseteq {"ema_cross", "triple_ema"}
  /\ Closes \subseteq Nat \ {0} /\ NaN \notin Int
  /\ Fast \in Nat \ {0} /\ Medium \in Nat /\ Slow \in Nat /\ Fast < Medium /\ Medium < Slow
  /\ Unit \in Nat \ {0} /\ MaxBars \in Nat
  /\ CrossHistory \in Nat \ {0} /\ TripleHistory \in Nat \ {0}
  /\ Capital \in Nat /\ Stake \in 0..Capital
  /\ Slippage \in Nat /\ \A c \in Closes : Slippage < c

VARIABLES
  strategy,       \* which one, "" before it is constructed
  closes,         \* the closes on_bar() took
  ema, prevEma,   \* of each span
  side,           \* the sign of _position
  signal,         \* what on_bar() returned: side and qty, of the last close
  funds, owned    \* cash and the position book's shares

barVars == <<strategy, closes, ema, prevEma, side, signal, funds, owned>>

Spans == {Fast, Medium, Slow}
NoAverage == [p \in Spans |-> 0]
NoSignal == [side |-> 0, qty |-> 0]

BarInit ==
  /\ strategy = ""
  /\ closes = <<>> /\ ema = NoAverage /\ prevEma = NoAverage
  /\ side = 0 /\ signal = NoSignal
  /\ funds = 0 /\ owned = 0

Construct(s) ==
  /\ strategy = ""
  /\ strategy' = s /\ funds' = Capital
  /\ UNCHANGED <<closes, ema, prevEma, side, signal, owned>>

LastOf(s) == s[Len(s)]

\* _update_ema(): the first close seeds it, and a NaN spreads for good.
UpdateEma(p, close) ==
  IF close = NaN \/ ema[p] = NaN THEN NaN
  ELSE IF closes = <<>> THEN Unit * close
  ELSE (2 * Unit * close + (p - 1) * ema[p]) \div (p + 1)

\* Comparisons with NaN are false.
Above(e, p, q) == e[p] # NaN /\ e[q] # NaN /\ e[p] > e[q]
AtMost(e, p, q) == e[p] # NaN /\ e[q] # NaN /\ e[p] <= e[q]

WarmUp_Medium == Medium \* mutant: of the spans that cross

WarmUp == IF strategy = "triple_ema" THEN Slow ELSE Medium

History == IF strategy = "triple_ema" THEN TripleHistory ELSE CrossHistory

\* len(self._closes): a full deque drops its oldest close for a new one.
Retained == IF Len(closes') < History THEN Len(closes') ELSE History

\* ema_cross does not look at a third average.
Aligned(p, q, r) == strategy = "triple_ema" => Above(ema', p, q) /\ Above(ema', q, r)

CrossedAbove == AtMost(prevEma', Fast, Medium) /\ Above(ema', Fast, Medium)
                /\ Aligned(Fast, Medium, Slow)
CrossedBelow == AtMost(prevEma', Medium, Fast) /\ Above(ema', Medium, Fast)
                /\ Aligned(Slow, Medium, Fast)

CalcQty(close) == Stake \div close

\* _check_crossover(), _check_signal(): the side that is signalled, 0 for none
Side(close) ==
  IF Retained < WarmUp \/ closes = <<>> \/ close = NaN THEN 0
  ELSE IF CrossedAbove /\ side <= 0 THEN 1
  ELSE IF CrossedBelow /\ side >= 0 THEN -1
  ELSE 0

\* on_bar(): a bar without a positive close is skipped, and changes nothing.
OnBar(close) ==
  /\ strategy # "" /\ signal = NoSignal /\ Len(closes) < MaxBars
  /\ closes' = Append(closes, close)
  /\ prevEma' = ema
  /\ ema' = [p \in Spans |-> UpdateEma(p, close)]
  /\ LET s == Side(close) IN
     IF s # 0 /\ CalcQty(close) > 0
       THEN signal' = [side |-> s, qty |-> CalcQty(close)] /\ side' = s
       ELSE UNCHANGED <<signal, side>>
  /\ UNCHANGED <<strategy, funds, owned>>

\* _execute_signal(): filled at the close and the slippage, or rejected
ExecuteSignal ==
  /\ signal # NoSignal
  /\ signal' = NoSignal
  /\ LET price == LastOf(closes) + signal.side * Slippage
         filled == IF signal.side = 1 THEN signal.qty * price <= funds
                                      ELSE owned >= signal.qty
     IN IF filled
          THEN /\ funds' = funds - signal.side * signal.qty * price
               /\ owned' = owned + signal.side * signal.qty
          ELSE UNCHANGED <<funds, owned>>
  /\ UNCHANGED <<strategy, closes, ema, prevEma, side>>

BarNext ==
  \/ \E s \in Strategies : Construct(s)
  \/ \E close \in Closes \cup {NaN} : OnBar(close)
  \/ ExecuteSignal

BarSpec == BarInit /\ [][BarNext]_barVars

-----------------------------------------------------------------------------

\* generate_signals() of triple_ema over a frame of numbers: close.ewm(span), the
\* crossing and the alignment, with the first Slow rows set to nothing.  (At a
\* NaN ewm() repeats its last value and goes on from there, unlike on_bar().)
Ewm(h, p) ==
  LET e[i \in 1..Len(h)] ==
        IF i = 1 THEN Unit * h[1] ELSE (2 * Unit * h[i] + (p - 1) * e[i - 1]) \div (p + 1)
  IN e

GenerateSignal(h, i) ==
  LET f == Ewm(h, Fast) m == Ewm(h, Medium) s == Ewm(h, Slow) IN
  IF i <= Slow THEN 0
  ELSE IF f[i] > m[i] /\ m[i] > s[i] /\ f[i - 1] <= m[i - 1] THEN 1
  ELSE IF f[i] < m[i] /\ m[i] < s[i] /\ f[i - 1] >= m[i - 1] THEN -1
  ELSE 0

-----------------------------------------------------------------------------

BarTypeOK ==
  /\ strategy \in {""} \cup Strategies
  /\ Len(closes) <= MaxBars
  /\ \A i \in 1..Len(closes) : closes[i] \in Closes \cup {NaN}
  /\ \A p \in Spans : ema[p] = NaN \/ ema[p] \in Nat
  /\ side \in -1..1 /\ signal \in [side : -1..1, qty : 0..Stake]
  /\ signal # NoSignal => signal.side = side /\ signal.qty > 0
  /\ funds \in Nat /\ owned \in Nat

Clean == \A i \in 1..Len(closes) : closes[i] # NaN

\* Where the strategy that trades is the one that was backtested, namely on
\* closes that are numbers and with a deque that holds as many as the warm-up
\* asks for: what triple_ema signals live on a bar is what generate_signals() has
\* there, but for the very bar that ends the warm-up, which the backtest leaves
\* out; and what the backtest has and the live strategy does not is a repetition
\* of the side it signalled last, or a price above the stake.  After a close that
\* is not a number, and with a shorter deque, on_bar() never signals, though "Retain
\* 3x slow period for warm-up safety" (triple_ema.py:69) is said of its fixed length.
SignalsAgree ==
  strategy = "triple_ema" /\ closes # <<>> =>
    LET n == Len(closes)
        tested == GenerateSignal(closes, n)
    IN /\ signal.side # 0 =>
            Clean /\ Slow <= TripleHistory /\ (signal.side = tested \/ n = Slow)
       /\ Clean /\ Slow <= TripleHistory =>
            (tested # 0 => side = tested \/ CalcQty(LastOf(closes)) = 0)

\* "Will not open a new position if one is already open in same direction"
\* (ema_cross.py:12, triple_ema.py:19): shares are bought only when none are held.
NoStacking == [][owned' > owned => owned = 0]_barVars

=============================================================================
