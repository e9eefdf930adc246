--------------------------- MODULE CandlePatterns ---------------------------
(***************************************************************************)
(* CandlePatternDetector of backend/analysis/price_action_engine.py: what  *)
(* each detector says of the last four candles in a market context.  Both  *)
(* branches of every detector are written out as the code has them, so     *)
(* that whether they mirror each other is a question and not a definition. *)
(* Prices are whole ticks and ratios are cross-multiplied; a level that    *)
(* the code computes with atr * 0.3 or atr * 0.5 is kept in tenths.        *)
(* A detector's answer is a set: empty when nothing is detected.           *)
(***************************************************************************)
EXTENDS Integers, Sequences, FiniteSets

CONSTANTS Candles,        \* what a bar may be: [open, high, low, close]
          Contexts,       \* what ContextAnalyzer may say of the market
          Top             \* an axis: the mirror image of price p is Top - p

ASSUME CandleAssumption ==
    /\ Top \in Nat
    /\ \A c \in Candles : /\ c \in [open : Nat, high : Nat, low : Nat, close : Nat]
                          /\ c.low <= c.open /\ c.open <= c.high /\ c.high <= Top
                          /\ c.low <= c.close /\ c.close <= c.high

Sides == {"bullish", "bearish"}

(* MarketContext, with the levels and zones that the bonuses read.         *)
MarketContext ==
    [trend : Sides \cup {"neutral"}, supports : SUBSET Int, resistances : SUBSET Int, atr : Nat,
     blocks : Seq([low : Int, high : Int, direction : Sides]), fvgs : SUBSET [low : Int, high : Int],
     swept : {"none", "buy_side_hit", "sell_side_hit"}, killzone : BOOLEAN,
     zone : {"premium", "discount", "equilibrium"}, strong : BOOLEAN]

(* _find_key_levels() keeps ten levels of each kind.                       *)
ASSUME ContextAssumption ==
    /\ Contexts \subseteq MarketContext
    /\ \A ctx \in Contexts : /\ IsFiniteSet(ctx.supports) /\ IsFiniteSet(ctx.resistances)
                             /\ Cardinality(ctx.supports) <= 10
                             /\ Cardinality(ctx.resistances) <= 10

Windows     == [1..4 -> Candles]
-----------------------------------------------------------------------------
Least(a, b) == IF a < b THEN a ELSE b
Most(a, b)  == IF a < b THEN b ELSE a

Body(c)      == Most(c.open, c.close) - Least(c.open, c.close)
TotalRange(c)     == c.high - c.low
UpperWick(c) == c.high - Most(c.open, c.close)
LowerWick(c) == Least(c.open, c.close) - c.low
Bullish(c)   == c.close >= c.open

(* body_ratio >= tenths / 10; the ratio of a candle without range is 0.    *)
BodyAtLeast(c, tenths) == TotalRange(c) > 0 /\ 10 * Body(c) >= tenths * TotalRange(c)

(* The if/elif of a detector: the bullish branch is tried first.           *)
Found(bullish, bearish) == IF bullish THEN {"bullish"} ELSE IF bearish THEN {"bearish"} ELSE {}

PinBar(c) ==
    LET small == 100 * Body(c) <= 35 * TotalRange(c)
    IN  IF TotalRange(c) = 0 THEN {}
        ELSE Found(10 * LowerWick(c) >= 6 * TotalRange(c) /\ small /\ 100 * UpperWick(c) <= 15 * TotalRange(c),
                   10 * UpperWick(c) >= 6 * TotalRange(c) /\ small /\ 100 * LowerWick(c) <= 15 * TotalRange(c))

(* A mutant: the bearish branch forgets body_ratio_threshold.              *)
MutEngulfing(prev, curr) ==
    LET covers == /\ Least(curr.open, curr.close) <= Least(prev.open, prev.close)
                  /\ Most(curr.open, curr.close) >= Most(prev.open, prev.close)
    IN  Found(Bullish(curr) /\ ~Bullish(prev) /\ covers /\ 10 * Body(curr) >= 12 * Body(prev),
              ~Bullish(curr) /\ Bullish(prev) /\ covers)

Engulfing(prev, curr) ==
    LET covers == /\ Least(curr.open, curr.close) <= Least(prev.open, prev.close)
                  /\ Most(curr.open, curr.close) >= Most(prev.open, prev.close)
                  /\ 10 * Body(curr) >= 12 * Body(prev)
    IN  Found(Bullish(curr) /\ ~Bullish(prev) /\ covers,
              ~Bullish(curr) /\ Bullish(prev) /\ covers)

Inside(mother, c) == c.high <= mother.high /\ c.low >= mother.low

(* A break of the inside bar that the signal candle takes back.  The       *)
(* bearish branch is the first.                                            *)
FalseUp(mother, inside, test, signal) ==
    test.high > inside.high /\ signal.close < inside.high /\ signal.close < mother.high
FalseDown(mother, inside, test, signal) ==
    test.low < inside.low /\ signal.close > inside.low /\ signal.close > mother.low

Fakey(mother, inside, test, signal, ctx) ==
    IF \/ ~Inside(mother, inside) \/ ~BodyAtLeast(mother, 4)
       \/ 10 * TotalRange(mother) < 8 * ctx.atr
    THEN {}
    ELSE Found(~FalseUp(mother, inside, test, signal) /\ FalseDown(mother, inside, test, signal),
               FalseUp(mother, inside, test, signal))

OutsideBar(prev, curr) ==
    IF curr.high > prev.high /\ curr.low < prev.low /\ BodyAtLeast(curr, 5)
    THEN Found(Bullish(curr), ~Bullish(curr)) ELSE {}

Doji(c) == 10 * Body(c) <= TotalRange(c) /\ TotalRange(c) > 0

Star(first, middle, last) ==
    LET shape == 10 * Body(middle) < 4 * Body(first) /\ Body(last) > 2 * Body(middle)
        mid2  == first.open + first.close
    IN  Found(~Bullish(first) /\ shape /\ Bullish(last) /\ 2 * last.close > mid2,
              Bullish(first) /\ shape /\ ~Bullish(last) /\ 2 * last.close < mid2)

ThreeSoldiersCrows(c1, c2, c3) ==
    LET three == {c1, c2, c3}
        rising  == (\A c \in three : Bullish(c)) /\ c2.close > c1.close /\ c3.close > c2.close
        falling == (\A c \in three : ~Bullish(c)) /\ c2.close < c1.close /\ c3.close < c2.close
    IN  Found(rising  /\ \A c \in three : 2 * UpperWick(c) < Body(c),
              falling /\ \A c \in three : 2 * LowerWick(c) < Body(c))
-----------------------------------------------------------------------------
(* _apply_context_bonuses: the sum of context_bonuses for direction d at   *)
(* the signal candle c.  Zones are compared with twice its middle.         *)
Near(c, level, atr) == LET off == c.high + c.low - 2 * level IN off < atr /\ -off < atr
Holds(zone, c)      == 2 * zone.low <= c.high + c.low /\ c.high + c.low <= 2 * zone.high
If(condition, n)    == IF condition THEN n ELSE 0

(* levels[:n]: both lists of levels are sorted from above, so that these   *)
(* are the n highest - the nearest supports, but the farthest resistances. *)
Highest(n, levels) == {l \in levels : Cardinality({m \in levels : m > l}) < n}

(* Only the first block that holds the middle is asked for its direction.  *)
FirstHolding(blocks, c, i) ==
    Holds(blocks[i], c) /\ \A j \in 1..(i - 1) : ~Holds(blocks[j], c)

ContextBonus(d, c, ctx) ==
    If(ctx.trend = d /\ d # "neutral", 15) + If(ctx.trend # d /\ "neutral" \notin {ctx.trend, d}, 5)
    + If(d = "bullish" /\ \E s \in Highest(3, ctx.supports) : Near(c, s, ctx.atr), 15)
    + If(d = "bearish" /\ \E r \in Highest(3, ctx.resistances) : Near(c, r, ctx.atr), 15)
    + If(\E i \in DOMAIN ctx.blocks : FirstHolding(ctx.blocks, c, i) /\ ctx.blocks[i].direction = d, 15)
    + If(\E f \in ctx.fvgs : Holds(f, c), 10)
    + If(ctx.swept = "sell_side_hit" /\ d = "bullish", 20)
    + If(ctx.swept = "buy_side_hit" /\ d = "bearish", 20)
    + If(ctx.killzone, 10)
    + If(BodyAtLeast(c, 7), 10)

(* _calculate_final_scores                                                 *)
Confidence(base, bonus) == Least(Least(4 * base, 60) + bonus, 100)

Signal(pattern, d, base, bonus, stop) ==
    [pattern |-> pattern, direction |-> d, confidence |-> Confidence(base, bonus), stop10 |-> stop]

(* Three levels that the detectors put their invalidation at, in tenths.   *)
Beyond(d, low, high, atr10) == IF d = "bullish" THEN 10 * low - atr10 ELSE 10 * high + atr10
-----------------------------------------------------------------------------
(* The detectors whose answer has a direction, in the order of             *)
(* _detect_all_patterns(); min_pattern_confidence, 30, is below every base *)
(* confidence there is but inside_bar's and doji's, which are neutral.     *)
Directed(w, ctx) ==
    LET c1 == w[1]  c2 == w[2]  c3 == w[3]  c4 == w[4]
        bonus(d) == ContextBonus(d, c4, ctx)
        against(d) == ctx.trend \notin {d, "neutral"}
        zone(d) == (d = "bullish" /\ ctx.zone = "discount") \/ (d = "bearish" /\ ctx.zone = "premium")
    IN  {Signal("pin_bar", d, 8, bonus(d), Beyond(d, c4.low, c4.high, 5 * ctx.atr)) : d \in PinBar(c4)}
        \cup {Signal("engulfing", d, 10, bonus(d) + If(BodyAtLeast(c4, 7), 10),
                     Beyond(d, c4.low, c4.high, 5 * ctx.atr)) : d \in Engulfing(c3, c4)}
        \cup {Signal("fakey", d, 15, bonus(d) + If(against(d), 15),
                     Beyond(d, c1.low, c1.high, 3 * ctx.atr)) : d \in Fakey(c1, c2, c3, c4, ctx)}
        \cup {Signal("outside_bar", d, 9, bonus(d),
                     Beyond(d, c4.low, c4.high, 5 * ctx.atr)) : d \in OutsideBar(c3, c4)}
        \cup {Signal("star", d, 12, bonus(d) + If(zone(d), 10),
                     Beyond(d, Least(c2.low, Least(c3.low, c4.low)),
                               Most(c2.high, Most(c3.high, c4.high)), 3 * ctx.atr)) : d \in Star(c2, c3, c4)}
        \cup {Signal("three", d, 11, bonus(d) + If(ctx.trend = d, 15),
                     Beyond(d, c2.open, c2.open, 5 * ctx.atr)) : d \in ThreeSoldiersCrows(c2, c3, c4)}

(* The neutral ones: base confidence 20 and 16, so that only the context   *)
(* carries them over the 30 that is reported.  An inside bar less than     *)
(* 0.3 of its mother makes detect_inside_bar() name a reason code that     *)
(* does not exist, and analyze() raises: see Raises.                       *)
Neutral(w, ctx) ==
    LET c3 == w[3]  c4 == w[4]
    IN  {Signal("inside_bar", "neutral", 5,
                ContextBonus("neutral", c4, ctx) + If(10 * TotalRange(c3) > 12 * ctx.atr, 10),
                5 * (c3.high + c3.low)) : x \in {y \in {c4} : Inside(c3, y)}}
        \cup {Signal("doji", "neutral", 4,
                If(\E s \in Highest(3, ctx.supports) : Near(c4, s, ctx.atr), 10)
                + If(\E r \in Highest(3, ctx.resistances) : Near(c4, r, ctx.atr), 10)
                + If(ctx.strong, 10), 0) : x \in {y \in {c4} : Doji(y)}}

Raises(w) == Inside(w[3], w[4]) /\ 10 * TotalRange(w[4]) < 3 * TotalRange(w[3])

(* _detect_all_patterns                                                    *)
Reported(w, ctx) == IF Raises(w) THEN {}
                    ELSE {s \in Directed(w, ctx) \cup Neutral(w, ctx) : s.confidence >= 30}

=============================================================================
