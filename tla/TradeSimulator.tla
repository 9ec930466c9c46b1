--------------------------- MODULE TradeSimulator ---------------------------
(***************************************************************************)
(* MockTradeSimulatorService: a moving-average strategy replayed over the  *)
(* candles of one asset.  One step is one candle: first an open trade may  *)
(* exit, then a new one may be entered at the close.  Prices are whole     *)
(* numbers, a moving average is compared by cross-multiplying, and what a  *)
(* trade gains is counted for one unit of quantity, before costs.          *)
(***************************************************************************)
EXTENDS Integers, Sequences, FiniteSetsExt

CONSTANTS
    Shapes,         \* the candles: records [low, high, close]
    MaxCandles,     \* bound: the candles of a run
    FastWindow, SlowWindow, RiskReward, HoldBars

ASSUME SimulatorAssumption ==
    /\ \A c \in Shapes : /\ c.low \in Nat \ {0} /\ c.high \in Nat /\ c.close \in Nat
                         /\ c.low <= c.close /\ c.close <= c.high
    /\ MaxCandles \in Nat
    /\ FastWindow \in Nat \ {0}
    /\ SlowWindow \in Nat /\ SlowWindow > FastWindow
    /\ RiskReward \in Nat \ {0}
    /\ HoldBars \in Nat \ {0}

VARIABLES
    candles,    \* the last SlowWindow + 1 candles read, oldest first
    read,       \* how many were read
    trade,      \* the open trade, or none
    exit        \* the trade that exited at the last candle, or none

simVars == <<candles, read, trade, exit>>

NoTrade == [side |-> "none", entry |-> 0, stop |-> 0, target |-> 0, at |-> 0]

(* against is what the stop of the trade that exited was. *)
NoExit == [reason |-> "none", side |-> "none", gain |-> 0, against |-> 0, held |-> 0]

SimInit ==
    /\ candles = <<>>
    /\ read = 0
    /\ trade = NoTrade
    /\ exit = NoExit

-----------------------------------------------------------------------------

SumOf(prices) == FoldFunction(+, 0, prices)

Closes(cs) == [k \in 1..Len(cs) |-> cs[k].close]

(* _sma over the candles up to and including position n of cs: the sum, to *)
(* be divided by the number of closes in it.                               *)
Window(cs, n, size) == SubSeq(Closes(cs), IF n > size THEN n - size + 1 ELSE 1, n)

(* How the fast average stands to the slow one. *)
Spread(cs, n) ==
    LET fast == Window(cs, n, FastWindow)
        slow == Window(cs, n, SlowWindow)
    IN  SumOf(fast) * Len(slow) - SumOf(slow) * Len(fast)

Signal(cs) ==
    LET now == Spread(cs, Len(cs))
        before == Spread(cs, Len(cs) - 1)
    IN  IF before <= 0 /\ now > 0 THEN "long"
        ELSE IF before >= 0 /\ now < 0 THEN "short" ELSE "none"

(* The swing low or high of the SlowWindow candles before this one.        *)
StopPrice(cs, side) ==
    LET past == SubSeq(cs, 1, Len(cs) - 1)
    IN  IF side = "long" THEN Min({past[k].low : k \in 1..Len(past)})
                         ELSE Max({past[k].high : k \in 1..Len(past)})

Distance(a, b) == IF a > b THEN a - b ELSE b - a

(* Entered at the close, unless there is no distance to the stop.          *)
Entry(cs, n) ==
    LET side == Signal(cs)
        close == cs[Len(cs)].close
        stop == StopPrice(cs, side)
        reach == Distance(close, stop) * RiskReward
    IN  IF side = "none" \/ stop = close THEN NoTrade
        ELSE [side |-> side, entry |-> close, stop |-> stop, at |-> n,
              target |-> IF side = "long" THEN close + reach ELSE close - reach]

StopHit(t, c) == IF t.side = "long" THEN c.low <= t.stop ELSE c.high >= t.stop
TargetHit(t, c) == IF t.side = "long" THEN c.high >= t.target ELSE c.low <= t.target

(* Looks at the target first. *)
ExitReasonTargetFirst(t, c, n) ==
    CASE TargetHit(t, c) -> "target"
      [] ~ TargetHit(t, c) /\ StopHit(t, c) -> "stop"
      [] OTHER -> IF n - t.at >= HoldBars THEN "hold" ELSE "none"

(* Why the open trade exits at candle n.  The stop comes first.            *)
ExitReason(t, c, n) ==
    CASE StopHit(t, c) -> "stop"
      [] ~ StopHit(t, c) /\ TargetHit(t, c) -> "target"
      [] OTHER -> IF n - t.at >= HoldBars THEN "hold" ELSE "none"

Exited(t, reason, c, n) ==
    LET price == CASE reason = "stop" -> t.stop
                   [] reason = "target" -> t.target
                   [] OTHER -> c.close
    IN  [reason |-> reason, side |-> t.side, against |-> t.stop, held |-> n - t.at,
         gain |-> IF t.side = "long" THEN price - t.entry ELSE t.entry - price]

-----------------------------------------------------------------------------

(* The averages need SlowWindow + 1 candles; the simulation starts then.   *)
ReadCandle ==
    /\ read < MaxCandles
    /\ read' = read + 1
    /\ \E c \in Shapes :
        LET cs == IF Len(candles) > SlowWindow THEN Append(Tail(candles), c)
                                               ELSE Append(candles, c)
            reason == IF trade = NoTrade THEN "none" ELSE ExitReason(trade, c, read + 1)
            left == IF reason = "none" THEN trade ELSE NoTrade
        IN  /\ candles' = cs
            /\ exit' = IF reason = "none" THEN NoExit ELSE Exited(trade, reason, c, read + 1)
            /\ trade' = IF left = NoTrade /\ Len(cs) > SlowWindow
                        THEN Entry(cs, read + 1) ELSE left

(* A trade still open exits at the last close. *)
EndOfData ==
    /\ read = MaxCandles /\ trade # NoTrade
    /\ exit' = Exited(trade, "end_of_data", candles[Len(candles)], read)
    /\ trade' = NoTrade
    /\ UNCHANGED <<candles, read>>

SimNext == ReadCandle \/ EndOfData

SimSpec == SimInit /\ [][SimNext]_simVars

-----------------------------------------------------------------------------

SimTypeOK ==
    /\ candles \in Seq(Shapes) /\ Len(candles) <= SlowWindow + 1
    /\ read \in 0..MaxCandles
    /\ trade \in [side : {"none", "long", "short"}, entry : Nat, stop : Nat,
                  target : Int, at : 0..MaxCandles]
    /\ exit \in [reason : {"none", "stop", "target", "hold", "end_of_data"},
                 side : {"none", "long", "short"}, gain : Int, against : Nat,
                 held : 0..MaxCandles]

(* A trade that took its target gained, in a candle that stayed clear of   *)
(* its stop: within a candle that went through both, the simulator does    *)
(* not assume the favourable order.                                        *)
TargetsAreEarned ==
    exit.reason = "target" =>
        /\ exit.gain > 0
        /\ IF exit.side = "long" THEN candles[Len(candles)].low > exit.against
                                 ELSE candles[Len(candles)].high < exit.against

=============================================================================
