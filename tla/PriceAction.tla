----------------------------- MODULE PriceAction -----------------------------
(***************************************************************************)
(* PriceActionEngine.analyze() and PriceStructureAnalyzer of               *)
(* backend/analysis/price_action_engine.py.  An analysis follows each      *)
(* closed bar.  The candle patterns are functions of the last bars         *)
(* (CandlePatterns); the structures also read what earlier analyses left   *)
(* in the analyzer: the breakouts, which are never pruned, and the time of *)
(* the last compression.  compression_lookback is 2 bars, so that the four *)
(* bars of the window are all that any detector reads.                     *)
(***************************************************************************)
EXTENDS CandlePatterns, FiniteSetsExt, SequencesExt

CONSTANTS MaxBreakouts,   \* bound: recent_breakouts
          Fresh,          \* the four hours of a compression, in bars
          RetestBars      \* the five candles of a recent breakout

ASSUME ActionAssumption ==
    MaxBreakouts \in Nat /\ Fresh \in Nat /\ RetestBars \in Nat

VARIABLES
    window,         \* the last four candles of the data
    context,        \* the MarketContext of the last analysis
    breakouts,      \* recent_breakouts: [level, direction, behind, age], where
                    \* behind is curr.index - candle_index and age is in bars
    compressed,     \* bars since compression_detected_time; Fresh + 1 for None
    expanded,       \* the last analysis reported an expansion
    calm,           \* bars since an analysis of a market that compresses
    spent           \* bars since an analysis before this reported an expansion

actionVars == <<window, context, breakouts, compressed, expanded, calm, spent>>

Never == Fresh + 1        \* bound: how far back a compression is counted,
Past  == Fresh + 2        \* and an expansion,
Old   == RetestBars + 1   \* and a breakout

ActionTypeOK ==
    /\ window \in Windows
    /\ context \in Contexts
    /\ breakouts \in BoundedSeq([level : 0..Top, direction : Sides,
                                 behind : 0..Old, age : 0..Old], MaxBreakouts)
    /\ compressed \in 0..Never
    /\ expanded \in BOOLEAN
    /\ calm \in 0..Never /\ spent \in 1..Past

ActionInit == /\ window \in Windows /\ context \in Contexts
              /\ breakouts = <<>> /\ compressed = Never
              /\ expanded = FALSE
              /\ calm = Never /\ spent = Past
-----------------------------------------------------------------------------
(* _detect_breakout: the highest level that the last close crossed, of the *)
(* first five of each kind; resistances before supports.                   *)
Crossed(w, ctx) ==
    LET prev == w[3]  curr == w[4]
        up   == {r \in Highest(5, ctx.resistances) : prev.close < r /\ r < curr.close
                                                     /\ BodyAtLeast(curr, 5) /\ Bullish(curr)}
        down == {s \in Highest(5, ctx.supports) : s < prev.close /\ curr.close < s
                                                  /\ BodyAtLeast(curr, 5) /\ ~Bullish(curr)}
        at(level, d) == [level |-> level, direction |-> d, behind |-> 0, age |-> 0]
    IN  IF up # {} THEN <<at(Max(up), "bullish")>>
        ELSE IF down # {} THEN <<at(Max(down), "bearish")>> ELSE <<>>

(* _detect_retest: the first of the recent breakouts whose level is within *)
(* 0.3 of the atr of the close of a candle of its direction.               *)
Recent(b) == b.behind <= RetestBars

Retested(b, c, ctx) ==
    LET off == 10 * (c.close - b.level)
    IN  /\ off < 3 * ctx.atr /\ -off < 3 * ctx.atr
        /\ b.direction = IF Bullish(c) THEN "bullish" ELSE "bearish"

FirstRetest(bs, c, ctx) ==
    LET hits == {i \in DOMAIN bs : Recent(bs[i]) /\ Retested(bs[i], c, ctx)}
    IN  IF hits = {} THEN {} ELSE {bs[Min(hits)]}

(* _detect_compression: the mean range of the last two bars is under half  *)
(* of that of the two before, which is not 0.                              *)
Compresses(w) == LET before == TotalRange(w[1]) + TotalRange(w[2])
                     last   == TotalRange(w[3]) + TotalRange(w[4])
                 IN  2 * last < before

(* _detect_expansion: the mean range of the last three is 1.5 avg_range.   *)
Expands(w, ctx) == /\ ctx.atr > 0
                   /\ 10 * (TotalRange(w[2]) + TotalRange(w[3]) + TotalRange(w[4])) >= 45 * ctx.atr
-----------------------------------------------------------------------------
(* One bar later, as the next call sees it: the data may have grown by the *)
(* bar, or a fetch of the last n bars has dropped one for it, and then     *)
(* every candle_index means a bar later than it did.                       *)
Aged(b, grown) == [level |-> b.level, direction |-> b.direction,
                   behind |-> Least(b.behind + grown, Old), age |-> Least(b.age + 1, Old)]

AgedBreakouts(grown) == [i \in 1..Len(breakouts) |-> Aged(breakouts[i], grown)]

(* A mutant: an expansion leaves the compression standing.                 *)
MutStructures(w, ctx, grown) ==
    LET since  == IF Compresses(w) THEN 0 ELSE Least(compressed + 1, Never)
        fires  == since <= Fresh /\ Expands(w, ctx)
    IN  /\ breakouts' = AgedBreakouts(grown) \o Crossed(w, ctx)
        /\ Len(breakouts') <= MaxBreakouts
        /\ expanded' = fires
        /\ compressed' = since

(* PriceStructureAnalyzer.analyze: breakout, retest, compression and, if   *)
(* there has been a compression (perhaps this one), expansion.             *)
Structures(w, ctx, grown) ==
    LET since  == IF Compresses(w) THEN 0 ELSE Least(compressed + 1, Never)
        fires  == since <= Fresh /\ Expands(w, ctx)
    IN  /\ breakouts' = AgedBreakouts(grown) \o Crossed(w, ctx)
        /\ Len(breakouts') <= MaxBreakouts
        /\ expanded' = fires
        /\ compressed' = IF fires THEN Never ELSE since

(* analyze(): when a detector raises, the structures are not reached.      *)
Analyze(c, ctx, grown) ==
    LET w == [i \in 1..4 |-> IF i = 4 THEN c ELSE window[i + 1]]
    IN  /\ window' = w /\ context' = ctx
        /\ IF Raises(w)
           THEN /\ breakouts' = AgedBreakouts(grown)
                /\ compressed' = Least(compressed + 1, Never)
                /\ expanded' = FALSE
           ELSE Structures(w, ctx, grown)
        /\ calm' = IF Compresses(w) THEN 0 ELSE Least(calm + 1, Never)
        /\ spent' = IF expanded THEN 1 ELSE Least(spent + 1, Past)

ActionNext == \E c \in Candles, ctx \in Contexts, grown \in {0, 1} : Analyze(c, ctx, grown)
ActionSpec == ActionInit /\ [][ActionNext]_actionVars

(* The breakout that the last analysis reported, with its invalidation.    *)
Structure(pattern, d, stop) == [pattern |-> pattern, direction |-> d, stop10 |-> 10 * stop]

(* A mutant: the bearish branch keeps the minus of the bullish one.        *)
MutBreakoutStop(b) == b.level - context.atr

BreakoutStop(b) ==
    IF b.direction = "bullish" THEN b.level - context.atr ELSE b.level + context.atr

BreakoutSignals == {Structure("breakout", b.direction, BreakoutStop(b)) :
                       b \in {b \in Range(breakouts) : b.age = 0}}
-----------------------------------------------------------------------------
(* The same market seen upside down: highs and lows change places, and so  *)
(* do the two directions.                                                  *)
Opposite(d) == CASE d = "bullish" -> "bearish" [] d = "bearish" -> "bullish" [] OTHER -> d

MirrorCandle(c) == [open |-> Top - c.open, high |-> Top - c.low,
                    low |-> Top - c.high, close |-> Top - c.close]

MirrorWindow(w) == [i \in 1..4 |-> MirrorCandle(w[i])]

MirrorGap(z) == [low |-> Top - z.high, high |-> Top - z.low]

MirrorBlock(z) == [low |-> Top - z.high, high |-> Top - z.low, direction |-> Opposite(z.direction)]

MirrorContext(ctx) ==
    [trend       |-> Opposite(ctx.trend),
     supports    |-> {Top - r : r \in ctx.resistances},
     resistances |-> {Top - r : r \in ctx.supports},
     atr         |-> ctx.atr,
     blocks      |-> [i \in 1..Len(ctx.blocks) |-> MirrorBlock(ctx.blocks[i])],
     fvgs        |-> {MirrorGap(f) : f \in ctx.fvgs},
     swept       |-> CASE ctx.swept = "buy_side_hit" -> "sell_side_hit"
                       [] ctx.swept = "sell_side_hit" -> "buy_side_hit" [] OTHER -> ctx.swept,
     killzone    |-> ctx.killzone,
     zone        |-> CASE ctx.zone = "premium" -> "discount"
                       [] ctx.zone = "discount" -> "premium" [] OTHER -> ctx.zone,
     strong      |-> ctx.strong]

(* A doji comes without an invalidation: the 0 of the dataclass stays.     *)
MirrorSignal(s) ==
    [pattern |-> s.pattern, direction |-> Opposite(s.direction), confidence |-> s.confidence,
     stop10 |-> IF s.pattern = "doji" THEN s.stop10 ELSE 10 * Top - s.stop10]

(* The patterns for which one side comes first: a bar that closes where it *)
(* opened counts as bullish (line 197), so that only the bearish engulfing *)
(* takes it for its first bar, and of the two breaks of an inside bar the  *)
(* bearish fakey is tried first (line 812).                                *)
Tied(w) ==
    {"engulfing" : x \in {x \in {w[3]} : Body(x) = 0}}
    \cup {"fakey" : x \in {x \in {w} : /\ FalseUp(w[1], w[2], w[3], w[4])
                                      /\ FalseDown(w[1], w[2], w[3], w[4])}}

Untied(signals, w) == {s \in signals : s.pattern \notin Tied(w)}

FewLevels(ctx) == Cardinality(ctx.supports) <= 3 /\ Cardinality(ctx.resistances) <= 3

(* The engine has no side while it sees all the levels there are: what it  *)
(* reports of a market, it reports of the market upside down with the      *)
(* sides exchanged, as strongly and with the invalidation at the mirrored  *)
(* price - but for the ties, which the bearish side wins both times.       *)
MirrorSymmetry ==
    LET market == Reported(window, context)
        mirror == Reported(MirrorWindow(window), MirrorContext(context))
    IN  /\ ActionTypeOK
        /\ FewLevels(context) =>
              /\ Untied(mirror, window) = {MirrorSignal(s) : s \in Untied(market, window)}
              /\ \A s \in market \cup mirror :
                    s.pattern \in Tied(window) => s.direction = "bearish"

(* Each direction that a candle pattern or a breakout reports comes with   *)
(* an invalidation on its losing side of the last close: a stop put there  *)
(* is not hit as it is placed.  (Not the retests, whose invalidation is    *)
(* that of an earlier bar, nor the expansions, which have none.)           *)
Protects(s) == /\ s.direction = "bullish" => s.stop10 < 10 * window[4].close
               /\ s.direction = "bearish" => s.stop10 > 10 * window[4].close

StopsProtect == \A s \in Reported(window, context) \cup BreakoutSignals : Protects(s)

(* An expansion spends the compression it follows: whenever one is         *)
(* reported, the market has compressed within Fresh bars, and since the    *)
(* last expansion that was reported.                                       *)
ExpansionSpendsCompression == expanded => calm <= Fresh /\ calm < spent
-----------------------------------------------------------------------------
(* A statement of the repository the code does not meet.                   *)

(* A retest is of a breakout at most five candles before ("only recent     *)
(* breakouts (at most 5 candles before)", in the comment over the filter). *)
RetestIsRecent ==
    \A b \in FirstRetest(breakouts, window[4], context) : Raises(window) \/ b.age <= RetestBars
=============================================================================
