-------------------------- MODULE SignalPathProofs --------------------------
(***************************************************************************)
(* Proofs about PriceAction, for any candles, contexts and bounds.  And    *)
(* about SignalPath: it keeps what is proved of its two parts.             *)
(***************************************************************************)
EXTENDS SignalPath, OrderExecutionProofs, FiniteSetTheorems, SequenceTheorems, WellFoundedInduction, TLAPS

Directions == Sides \cup {"neutral"}

(* A bar as CandleAssumption has it.                                       *)
Bars == {c \in [open : Nat, high : Nat, low : Nat, close : Nat] :
            /\ c.low <= c.open /\ c.open <= c.high /\ c.high <= Top
            /\ c.low <= c.close /\ c.close <= c.high}

LEMMA BarFacts ==
    ASSUME NEW c \in Candles
    PROVE  /\ c \in Bars
           /\ c.open \in Nat /\ c.high \in Nat /\ c.low \in Nat /\ c.close \in Nat
           /\ c.low <= c.open /\ c.open <= c.high /\ c.high <= Top
           /\ c.low <= c.close /\ c.close <= c.high
           /\ Top \in Nat
  BY CandleAssumption DEF Bars

LEMMA LeastMost ==
    ASSUME NEW a \in Int, NEW b \in Int
    PROVE  /\ Least(a, b) \in Int /\ Least(a, b) <= a /\ Least(a, b) <= b
           /\ Most(a, b) \in Int /\ a <= Most(a, b) /\ b <= Most(a, b)
           /\ Least(a, b) \in {a, b} /\ Most(a, b) \in {a, b}
           /\ Least(a, b) <= Most(a, b)
           /\ Least(Top - a, Top - b) = Top - Most(a, b)
           /\ Most(Top - a, Top - b) = Top - Least(a, b)
  BY CandleAssumption DEF Least, Most

(* What the detectors read of a bar.                                       *)
LEMMA BarParts ==
    ASSUME NEW c \in Candles
    PROVE  /\ Body(c) \in Nat /\ TotalRange(c) \in Nat
           /\ UpperWick(c) \in Nat /\ LowerWick(c) \in Nat
           /\ Bullish(c) => Body(c) = c.close - c.open
           /\ ~Bullish(c) => Body(c) = c.open - c.close
           /\ LowerWick(c) <= c.close - c.low
           /\ UpperWick(c) <= c.high - c.close
           /\ TotalRange(c) = c.high - c.low
  BY BarFacts DEF Body, TotalRange, UpperWick, LowerWick, Bullish, Least, Most

(* The mirror exchanges the wicks and, of a bar with a body, the sides.    *)
LEMMA MirrorParts ==
    ASSUME NEW c \in Candles
    PROVE  LET m == MirrorCandle(c)
           IN  /\ m.open = Top - c.open /\ m.close = Top - c.close
               /\ m.high = Top - c.low /\ m.low = Top - c.high
               /\ Body(m) = Body(c) /\ TotalRange(m) = TotalRange(c)
               /\ UpperWick(m) = LowerWick(c) /\ LowerWick(m) = UpperWick(c)
               /\ Least(m.open, m.close) = Top - Most(c.open, c.close)
               /\ Most(m.open, m.close) = Top - Least(c.open, c.close)
               /\ Body(c) > 0 => (Bullish(m) <=> ~Bullish(c))
               /\ \A n : BodyAtLeast(m, n) <=> BodyAtLeast(c, n)
  <1> DEFINE m == MirrorCandle(c)
  <1>1. /\ m.open = Top - c.open /\ m.close = Top - c.close
        /\ m.high = Top - c.low /\ m.low = Top - c.high
    BY DEF MirrorCandle
  <1> HIDE DEF m
  <1>2. /\ Body(m) = Body(c) /\ TotalRange(m) = TotalRange(c)
        /\ UpperWick(m) = LowerWick(c) /\ LowerWick(m) = UpperWick(c)
        /\ Least(m.open, m.close) = Top - Most(c.open, c.close)
        /\ Most(m.open, m.close) = Top - Least(c.open, c.close)
    BY <1>1, BarFacts DEF Body, TotalRange, UpperWick, LowerWick, Least, Most
  <1>3. Body(c) > 0 => (Bullish(m) <=> ~Bullish(c))
    BY <1>1, BarFacts DEF Body, Bullish, Least, Most
  <1>4. \A n : BodyAtLeast(m, n) <=> BodyAtLeast(c, n)
    BY <1>2 DEF BodyAtLeast
  <1> QED BY <1>1, <1>2, <1>3, <1>4 DEF m

LEMMA OppositeFacts ==
    /\ Opposite("bullish") = "bearish" /\ Opposite("bearish") = "bullish"
    /\ Opposite("neutral") = "neutral"
    /\ \A d \in Directions : Opposite(d) \in Directions /\ Opposite(Opposite(d)) = d
    /\ \A d \in Sides : Opposite(d) \in Sides
    /\ \A d, e \in Directions : Opposite(d) = Opposite(e) <=> d = e
  <1>1. /\ Opposite("bullish") = "bearish" /\ Opposite("bearish") = "bullish"
        /\ Opposite("neutral") = "neutral"
    BY DEF Opposite
  <1> QED BY <1>1 DEF Directions, Sides

(* A detector whose branches exclude and mirror each other has no side.    *)
LEMMA FoundMirror ==
    ASSUME NEW up \in BOOLEAN, NEW down \in BOOLEAN, ~(up /\ down)
    PROVE  /\ Found(down, up) = {Opposite(d) : d \in Found(up, down)}
           /\ Found(up, down) \subseteq Sides
  <1>1. CASE up
    <2>1. Found(down, up) = {"bearish"} /\ Found(up, down) = {"bullish"}
      BY <1>1 DEF Found
    <2> QED BY <2>1, OppositeFacts DEF Sides
  <1>2. CASE ~up /\ down
    <2>1. Found(down, up) = {"bullish"} /\ Found(up, down) = {"bearish"}
      BY <1>2 DEF Found
    <2> QED BY <2>1, OppositeFacts DEF Sides
  <1>3. CASE ~up /\ ~down
    BY <1>3 DEF Found
  <1> QED BY <1>1, <1>2, <1>3

Mirrored(D) == {Opposite(d) : d \in D}

LEMMA PinBarMirror ==
    ASSUME NEW c \in Candles
    PROVE  PinBar(MirrorCandle(c)) = Mirrored(PinBar(c)) /\ PinBar(c) \subseteq Sides
  <1> DEFINE m == MirrorCandle(c)
             small(b) == 100 * Body(b) <= 35 * TotalRange(b)
             up(b) == 10 * LowerWick(b) >= 6 * TotalRange(b) /\ small(b) /\ 100 * UpperWick(b) <= 15 * TotalRange(b)
             down(b) == 10 * UpperWick(b) >= 6 * TotalRange(b) /\ small(b) /\ 100 * LowerWick(b) <= 15 * TotalRange(b)
  <1>1. /\ Body(m) = Body(c) /\ TotalRange(m) = TotalRange(c)
        /\ UpperWick(m) = LowerWick(c) /\ LowerWick(m) = UpperWick(c)
    BY MirrorParts
  <1>2. PinBar(c) = IF TotalRange(c) = 0 THEN {} ELSE Found(up(c), down(c))
    BY DEF PinBar
  <1>3. PinBar(m) = IF TotalRange(m) = 0 THEN {} ELSE Found(up(m), down(m))
    BY DEF PinBar
  <1>4. up(m) = down(c) /\ down(m) = up(c)
    BY <1>1
  <1>5. TotalRange(c) # 0 => ~(up(c) /\ down(c))
    BY BarParts
  <1>6. up(c) \in BOOLEAN /\ down(c) \in BOOLEAN
    OBVIOUS
  <1> HIDE DEF up, down, m
  <1>7. CASE TotalRange(c) = 0
    BY <1>1, <1>2, <1>3, <1>7 DEF Mirrored, m
  <1>8. CASE TotalRange(c) # 0
    <2>1. PinBar(m) = Found(down(c), up(c)) /\ PinBar(c) = Found(up(c), down(c))
      BY <1>1, <1>2, <1>3, <1>4, <1>8
    <2> QED BY <2>1, <1>5, <1>6, <1>8, FoundMirror DEF Mirrored, m
  <1> QED BY <1>7, <1>8

Bodied == {c \in Candles : Body(c) > 0}

(* A first bar with a body: the second then has one, or nothing is found.  *)
LEMMA EngulfingMirror ==
    ASSUME NEW p \in Bodied, NEW c \in Candles
    PROVE  /\ Engulfing(MirrorCandle(p), MirrorCandle(c)) = Mirrored(Engulfing(p, c))
           /\ Engulfing(p, c) \subseteq Sides
  <1> DEFINE covers(a, b) == /\ Least(b.open, b.close) <= Least(a.open, a.close)
                             /\ Most(b.open, b.close) >= Most(a.open, a.close)
                             /\ 10 * Body(b) >= 12 * Body(a)
             up(a, b)   == Bullish(b) /\ ~Bullish(a) /\ covers(a, b)
             down(a, b) == ~Bullish(b) /\ Bullish(a) /\ covers(a, b)
             m == MirrorCandle(p)
             n == MirrorCandle(c)
  <1>1. /\ Bullish(m) <=> ~Bullish(p)
        /\ covers(p, c) => (Bullish(n) <=> ~Bullish(c))
    <2>1. Bullish(m) <=> ~Bullish(p)
      BY MirrorParts DEF Bodied
    <2>2. covers(p, c) => Body(c) > 0
      <3>1. Body(p) \in Nat /\ Body(c) \in Nat /\ Body(p) > 0
        BY BarParts DEF Bodied
      <3> QED BY <3>1
    <2>3. Body(c) > 0 => (Bullish(n) <=> ~Bullish(c))
      BY MirrorParts
    <2> QED BY <2>1, <2>2, <2>3
  <1>2. /\ Body(m) = Body(p) /\ Body(n) = Body(c)
        /\ Least(m.open, m.close) = Top - Most(p.open, p.close)
        /\ Most(m.open, m.close) = Top - Least(p.open, p.close)
        /\ Least(n.open, n.close) = Top - Most(c.open, c.close)
        /\ Most(n.open, n.close) = Top - Least(c.open, c.close)
    BY MirrorParts DEF Bodied
  <1>3. /\ Least(p.open, p.close) \in Int /\ Most(p.open, p.close) \in Int
        /\ Least(c.open, c.close) \in Int /\ Most(c.open, c.close) \in Int
        /\ Top \in Int
    <2>1. /\ p.open \in Int /\ p.close \in Int /\ c.open \in Int /\ c.close \in Int
          /\ Top \in Int
      BY BarFacts DEF Bodied
    <2> QED BY <2>1, LeastMost
  <1>4. covers(m, n) <=> covers(p, c)
    BY <1>2, <1>3
  <1>5. /\ Engulfing(p, c) = Found(up(p, c), down(p, c))
        /\ Engulfing(m, n) = Found(up(m, n), down(m, n))
    BY DEF Engulfing
  <1>6. /\ up(m, n) = down(p, c) /\ down(m, n) = up(p, c)
        /\ ~(up(p, c) /\ down(p, c))
        /\ up(p, c) \in BOOLEAN /\ down(p, c) \in BOOLEAN
    <2> HIDE DEF covers, m, n
    <2>1. /\ up(m, n) <=> down(p, c)
          /\ down(m, n) <=> up(p, c)
      BY <1>1, <1>4
    <2>2. /\ up(m, n) \in BOOLEAN /\ down(p, c) \in BOOLEAN
          /\ down(m, n) \in BOOLEAN /\ up(p, c) \in BOOLEAN
      OBVIOUS
    <2> QED BY <2>1, <2>2
  <1> HIDE DEF up, down, m, n
  <1>7. Engulfing(m, n) = Found(down(p, c), up(p, c))
    BY <1>5, <1>6
  <1> QED BY <1>5, <1>6, <1>7, FoundMirror DEF Mirrored, m, n

LEMMA InsideMirror ==
    ASSUME NEW p \in Candles, NEW c \in Candles
    PROVE  /\ Inside(MirrorCandle(p), MirrorCandle(c)) <=> Inside(p, c)
           /\ Doji(MirrorCandle(c)) <=> Doji(c)
  BY MirrorParts, BarFacts DEF Inside, Doji

LEMMA FakeyMirror ==
    ASSUME NEW a \in Candles, NEW b \in Candles, NEW c \in Candles, NEW e \in Candles,
           ~(FalseUp(a, b, c, e) /\ FalseDown(a, b, c, e)),
           NEW ctx, NEW ctx2, ctx2.atr = ctx.atr
    PROVE  /\ Fakey(MirrorCandle(a), MirrorCandle(b), MirrorCandle(c), MirrorCandle(e), ctx2)
                = Mirrored(Fakey(a, b, c, e, ctx))
           /\ Fakey(a, b, c, e, ctx) \subseteq Sides
  <1> DEFINE ma == MirrorCandle(a)
             mb == MirrorCandle(b)
             mc == MirrorCandle(c)
             me == MirrorCandle(e)
             up   == FalseUp(a, b, c, e)
             down == FalseDown(a, b, c, e)
  <1>1. FalseUp(ma, mb, mc, me) = down /\ FalseDown(ma, mb, mc, me) = up
    BY MirrorParts, BarFacts DEF FalseUp, FalseDown
  <1>2. /\ Inside(ma, mb) = Inside(a, b)
        /\ BodyAtLeast(ma, 4) = BodyAtLeast(a, 4)
        /\ TotalRange(ma) = TotalRange(a)
    <2>1. Inside(ma, mb) \in BOOLEAN /\ Inside(a, b) \in BOOLEAN
      BY DEF Inside
    <2>2. BodyAtLeast(ma, 4) \in BOOLEAN /\ BodyAtLeast(a, 4) \in BOOLEAN
      BY DEF BodyAtLeast
    <2> QED BY <2>1, <2>2, MirrorParts, InsideMirror
  <1>3. up \in BOOLEAN /\ down \in BOOLEAN /\ ~(up /\ down)
    BY DEF FalseUp, FalseDown
  <1> DEFINE none == ~Inside(a, b) \/ ~BodyAtLeast(a, 4) \/ 10 * TotalRange(a) < 8 * ctx.atr
  <1>4. Fakey(a, b, c, e, ctx) = IF none THEN {} ELSE Found(~up /\ down, up)
    BY DEF Fakey
  <1>5. Fakey(ma, mb, mc, me, ctx2) = IF none THEN {} ELSE Found(~down /\ up, down)
    BY <1>1, <1>2 DEF Fakey
  <1> HIDE DEF none, up, down, ma, mb, mc, me
  <1>6. (~up /\ down) = down /\ (~down /\ up) = up
    BY <1>3
  <1>7. CASE none
    BY <1>4, <1>5, <1>7 DEF Mirrored, ma, mb, mc, me
  <1>8. CASE ~none
    <2>1. /\ Fakey(a, b, c, e, ctx) = Found(down, up)
          /\ Fakey(ma, mb, mc, me, ctx2) = Found(up, down)
      BY <1>4, <1>5, <1>6, <1>8
    <2> QED BY <2>1, <1>3, FoundMirror DEF Mirrored, ma, mb, mc, me
  <1> QED BY <1>7, <1>8

LEMMA OutsideBarMirror ==
    ASSUME NEW p \in Candles, NEW c \in Candles
    PROVE  /\ OutsideBar(MirrorCandle(p), MirrorCandle(c)) = Mirrored(OutsideBar(p, c))
           /\ OutsideBar(p, c) \subseteq Sides
  <1> DEFINE m == MirrorCandle(p)
             n == MirrorCandle(c)
             is(a, b) == b.high > a.high /\ b.low < a.low /\ BodyAtLeast(b, 5)
  <1>1. is(m, n) <=> is(p, c)
    BY MirrorParts, BarFacts
  <1>2. is(p, c) => Bullish(n) = ~Bullish(c)
    <2>1. Bullish(n) \in BOOLEAN /\ (~Bullish(c)) \in BOOLEAN
      BY DEF Bullish
    <2>2. is(p, c) => Body(c) > 0
      BY BarParts DEF BodyAtLeast
    <2>3. Body(c) > 0 => (Bullish(n) <=> ~Bullish(c))
      BY MirrorParts
    <2> HIDE DEF is, n
    <2> QED BY <2>1, <2>2, <2>3
  <1>3. is(p, c) => (~Bullish(n)) = Bullish(c)
    <2>1. Bullish(c) \in BOOLEAN
      BY DEF Bullish
    <2> QED BY <2>1, <1>2
  <1>4. /\ OutsideBar(p, c) = IF is(p, c) THEN Found(Bullish(c), ~Bullish(c)) ELSE {}
        /\ OutsideBar(m, n) = IF is(m, n) THEN Found(Bullish(n), ~Bullish(n)) ELSE {}
    BY DEF OutsideBar
  <1> HIDE DEF is, m, n
  <1>5. CASE ~is(p, c)
    BY <1>1, <1>4, <1>5 DEF Mirrored, m, n
  <1>6. CASE is(p, c)
    <2>1. /\ OutsideBar(p, c) = Found(Bullish(c), ~Bullish(c))
          /\ OutsideBar(m, n) = Found(~Bullish(c), Bullish(c))
      BY <1>1, <1>2, <1>3, <1>4, <1>6
    <2>2. Bullish(c) \in BOOLEAN /\ (~Bullish(c)) \in BOOLEAN
      BY DEF Bullish
    <2> QED BY <2>1, <2>2, FoundMirror DEF Mirrored, m, n
  <1> QED BY <1>5, <1>6

LEMMA StarMirror ==
    ASSUME NEW a \in Candles, NEW b \in Candles, NEW c \in Candles
    PROVE  /\ Star(MirrorCandle(a), MirrorCandle(b), MirrorCandle(c)) = Mirrored(Star(a, b, c))
           /\ Star(a, b, c) \subseteq Sides
  <1> DEFINE ma == MirrorCandle(a)
             mb == MirrorCandle(b)
             mc == MirrorCandle(c)
             shape(x, y, z) == 10 * Body(y) < 4 * Body(x) /\ Body(z) > 2 * Body(y)
             up(x, y, z)   == ~Bullish(x) /\ shape(x, y, z) /\ Bullish(z) /\ 2 * z.close > x.open + x.close
             down(x, y, z) == Bullish(x) /\ shape(x, y, z) /\ ~Bullish(z) /\ 2 * z.close < x.open + x.close
  <1>1. /\ Star(a, b, c) = Found(up(a, b, c), down(a, b, c))
        /\ Star(ma, mb, mc) = Found(up(ma, mb, mc), down(ma, mb, mc))
    BY DEF Star
  <1>2. shape(ma, mb, mc) <=> shape(a, b, c)
    BY MirrorParts
  <1>3. /\ 2 * mc.close > ma.open + ma.close <=> 2 * c.close < a.open + a.close
        /\ 2 * mc.close < ma.open + ma.close <=> 2 * c.close > a.open + a.close
    BY MirrorParts, BarFacts
  <1>4. shape(a, b, c) => (Bullish(ma) <=> ~Bullish(a)) /\ (Bullish(mc) <=> ~Bullish(c))
    <2>1. shape(a, b, c) => Body(a) > 0 /\ Body(c) > 0
      <3>1. Body(a) \in Nat /\ Body(b) \in Nat /\ Body(c) \in Nat
        BY BarParts
      <3> QED BY <3>1
    <2>2. /\ Body(a) > 0 => (Bullish(ma) <=> ~Bullish(a))
          /\ Body(c) > 0 => (Bullish(mc) <=> ~Bullish(c))
      BY MirrorParts
    <2> HIDE DEF shape, ma, mc
    <2> QED BY <2>1, <2>2
  <1>5. /\ up(ma, mb, mc) = down(a, b, c) /\ down(ma, mb, mc) = up(a, b, c)
        /\ ~(up(a, b, c) /\ down(a, b, c))
        /\ up(a, b, c) \in BOOLEAN /\ down(a, b, c) \in BOOLEAN
    <2> HIDE DEF shape, ma, mb, mc
    <2>1. (up(ma, mb, mc) <=> down(a, b, c)) /\ (down(ma, mb, mc) <=> up(a, b, c))
      BY <1>2, <1>3, <1>4
    <2> QED BY <2>1
  <1> HIDE DEF up, down, ma, mb, mc
  <1>6. Star(ma, mb, mc) = Found(down(a, b, c), up(a, b, c))
    BY <1>1, <1>5
  <1> QED BY <1>1, <1>5, <1>6, FoundMirror DEF Mirrored, ma, mb, mc

LEMMA ThreeMirror ==
    ASSUME NEW a \in Candles, NEW b \in Candles, NEW c \in Candles
    PROVE  /\ ThreeSoldiersCrows(MirrorCandle(a), MirrorCandle(b), MirrorCandle(c))
                = Mirrored(ThreeSoldiersCrows(a, b, c))
           /\ ThreeSoldiersCrows(a, b, c) \subseteq Sides
  <1> DEFINE ma == MirrorCandle(a)
             mb == MirrorCandle(b)
             mc == MirrorCandle(c)
             up(x, y, z) == ((\A d \in {x, y, z} : Bullish(d)) /\ y.close > x.close /\ z.close > y.close)
                            /\ \A d \in {x, y, z} : 2 * UpperWick(d) < Body(d)
             down(x, y, z) == ((\A d \in {x, y, z} : ~Bullish(d)) /\ y.close < x.close /\ z.close < y.close)
                              /\ \A d \in {x, y, z} : 2 * LowerWick(d) < Body(d)
  <1>1. /\ ThreeSoldiersCrows(a, b, c) = Found(up(a, b, c), down(a, b, c))
        /\ ThreeSoldiersCrows(ma, mb, mc) = Found(up(ma, mb, mc), down(ma, mb, mc))
    BY DEF ThreeSoldiersCrows
  <1>2. (\A d \in {a, b, c} : Body(d) > 0) => /\ Bullish(ma) <=> ~Bullish(a)
                                              /\ Bullish(mb) <=> ~Bullish(b)
                                              /\ Bullish(mc) <=> ~Bullish(c)
    BY MirrorParts
  <1>3. /\ mb.close > ma.close <=> b.close < a.close
        /\ mb.close < ma.close <=> b.close > a.close
        /\ mc.close > mb.close <=> c.close < b.close
        /\ mc.close < mb.close <=> c.close > b.close
    BY MirrorParts, BarFacts
  <1>4. /\ Body(ma) = Body(a) /\ Body(mb) = Body(b) /\ Body(mc) = Body(c)
        /\ UpperWick(ma) = LowerWick(a) /\ LowerWick(ma) = UpperWick(a)
        /\ UpperWick(mb) = LowerWick(b) /\ LowerWick(mb) = UpperWick(b)
        /\ UpperWick(mc) = LowerWick(c) /\ LowerWick(mc) = UpperWick(c)
    BY MirrorParts
  <1>5. /\ up(ma, mb, mc) = down(a, b, c) /\ down(ma, mb, mc) = up(a, b, c)
        /\ ~(up(a, b, c) /\ down(a, b, c))
        /\ up(a, b, c) \in BOOLEAN /\ down(a, b, c) \in BOOLEAN
    <2> HIDE DEF ma, mb, mc
    <2>0. /\ UpperWick(a) \in Nat /\ UpperWick(b) \in Nat /\ UpperWick(c) \in Nat
          /\ LowerWick(a) \in Nat /\ LowerWick(b) \in Nat /\ LowerWick(c) \in Nat
          /\ Body(a) \in Nat /\ Body(b) \in Nat /\ Body(c) \in Nat
      BY BarParts
    <2>a. up(a, b, c) \/ down(a, b, c) => \A d \in {a, b, c} : Body(d) > 0
      BY <2>0
    <2>b. up(ma, mb, mc) \/ down(ma, mb, mc) => \A d \in {a, b, c} : Body(d) > 0
      BY <2>0, <1>4
    <2>c. (\A d \in {a, b, c} : Body(d) > 0)
             => (up(ma, mb, mc) <=> down(a, b, c)) /\ (down(ma, mb, mc) <=> up(a, b, c))
      BY <1>2, <1>3, <1>4
    <2>1. (up(ma, mb, mc) <=> down(a, b, c)) /\ (down(ma, mb, mc) <=> up(a, b, c))
      <3> HIDE DEF up, down
      <3> QED BY <2>a, <2>b, <2>c
    <2>2. ~(up(a, b, c) /\ down(a, b, c))
      OBVIOUS
    <2> QED BY <2>1, <2>2
  <1> HIDE DEF up, down, ma, mb, mc
  <1>6. ThreeSoldiersCrows(ma, mb, mc) = Found(down(a, b, c), up(a, b, c))
    BY <1>1, <1>5
  <1> QED BY <1>1, <1>5, <1>6, FoundMirror DEF Mirrored, ma, mb, mc

LEMMA RaisesMirror ==
    ASSUME NEW w \in Windows
    PROVE  Raises(MirrorWindow(w)) <=> Raises(w)
  <1>1. w[3] \in Candles /\ w[4] \in Candles
    BY DEF Windows
  <1>2. MirrorWindow(w)[3] = MirrorCandle(w[3]) /\ MirrorWindow(w)[4] = MirrorCandle(w[4])
    BY DEF MirrorWindow
  <1> QED BY <1>1, <1>2, MirrorParts, InsideMirror DEF Raises
-----------------------------------------------------------------------------
(* The bonuses of a context are those of the mirrored one on the other     *)
(* side.                                                                   *)
LEMMA NearMirror ==
    ASSUME NEW c \in Candles, NEW level \in Int, NEW atr \in Int
    PROVE  Near(MirrorCandle(c), Top - level, atr) <=> Near(c, level, atr)
  BY MirrorParts, BarFacts DEF Near

LEMMA HoldsMirror ==
    ASSUME NEW c \in Candles, NEW z, NEW y, z.low \in Int, z.high \in Int,
           y.low = Top - z.high, y.high = Top - z.low
    PROVE  Holds(y, MirrorCandle(c)) <=> Holds(z, c)
  BY MirrorParts, BarFacts DEF Holds

LEMMA ContextType ==
    ASSUME NEW ctx \in Contexts
    PROVE  /\ ctx.trend \in Directions /\ ctx.atr \in Nat
           /\ ctx.supports \subseteq Int /\ ctx.resistances \subseteq Int
           /\ ctx.blocks \in Seq([low : Int, high : Int, direction : Sides])
           /\ ctx.fvgs \subseteq [low : Int, high : Int]
           /\ ctx.swept \in {"none", "buy_side_hit", "sell_side_hit"}
           /\ ctx.zone \in {"premium", "discount", "equilibrium"}
           /\ ctx.killzone \in BOOLEAN /\ ctx.strong \in BOOLEAN
           /\ IsFiniteSet(ctx.supports) /\ IsFiniteSet(ctx.resistances)
  BY ContextAssumption DEF MarketContext, Directions

(* The cut of the lists of levels leaves a list of three as it is.         *)
LEMMA HighestOfFew ==
    ASSUME NEW S \in SUBSET Int, IsFiniteSet(S), Cardinality(S) <= 3
    PROVE  Highest(3, S) = S
  <1>1. ASSUME NEW l \in S PROVE Cardinality({m \in S : m > l}) < 3
    <2> DEFINE above == {m \in S : m > l}
    <2>1. above \in SUBSET (S \ {l})
      OBVIOUS
    <2>2. IsFiniteSet(S \ {l}) /\ Cardinality(S \ {l}) = Cardinality(S) - 1
      BY FS_RemoveElement
    <2>3. IsFiniteSet(above) /\ Cardinality(above) <= Cardinality(S \ {l})
      BY <2>1, <2>2, FS_Subset
    <2>4. Cardinality(above) \in Nat /\ Cardinality(S) \in Nat
      BY <2>3, FS_CardinalityType
    <2> HIDE DEF above
    <2>5. Cardinality(above) < 3
      BY <2>2, <2>3, <2>4
    <2> QED BY <2>5 DEF above
  <1> QED BY <1>1 DEF Highest

LEMMA MirrorOfFew ==
    ASSUME NEW S \in SUBSET Int, IsFiniteSet(S), Cardinality(S) <= 3
    PROVE  LET T == {Top - s : s \in S}
           IN  T \in SUBSET Int /\ IsFiniteSet(T) /\ Cardinality(T) <= 3
  <1> DEFINE T == {Top - s : s \in S}
             f == [s \in S |-> Top - s]
  <1>1. f \in Surjection(S, T)
    <2>1. f \in [S -> T] /\ \A s \in S : f[s] = Top - s
      OBVIOUS
    <2>2. \A y \in T : \E s \in S : y = Top - s
      OBVIOUS
    <2> HIDE DEF f, T
    <2>3. \A y \in T : \E s \in S : f[s] = y
      BY <2>1, <2>2
    <2> QED BY <2>1, <2>3 DEF Surjection
  <1>2. IsFiniteSet(T) /\ Cardinality(T) <= Cardinality(S)
    BY <1>1, FS_Surjection
  <1>3. T \in SUBSET Int
    <2>1. Top \in Int /\ \A s \in S : s \in Int
      BY CandleAssumption
    <2>2. \A s \in S : Top - s \in Int
      BY <2>1
    <2> QED BY <2>2
  <1>4. Cardinality(S) \in Nat /\ Cardinality(T) \in Nat
    BY <1>2, FS_CardinalityType
  <1> HIDE DEF T
  <1> QED BY <1>2, <1>3, <1>4 DEF T

LEMMA LevelsOfFew ==
    ASSUME NEW ctx \in Contexts, FewLevels(ctx)
    PROVE  LET m == MirrorContext(ctx)
           IN  /\ Highest(3, ctx.supports) = ctx.supports
               /\ Highest(3, ctx.resistances) = ctx.resistances
               /\ Highest(3, m.supports) = {Top - r : r \in ctx.resistances}
               /\ Highest(3, m.resistances) = {Top - s : s \in ctx.supports}
  <1>1. /\ ctx.supports \in SUBSET Int /\ IsFiniteSet(ctx.supports) /\ Cardinality(ctx.supports) <= 3
        /\ ctx.resistances \in SUBSET Int /\ IsFiniteSet(ctx.resistances)
        /\ Cardinality(ctx.resistances) <= 3
    BY ContextType DEF FewLevels
  <1>2. /\ Highest(3, {Top - r : r \in ctx.resistances}) = {Top - r : r \in ctx.resistances}
        /\ Highest(3, {Top - s : s \in ctx.supports}) = {Top - s : s \in ctx.supports}
    BY <1>1, MirrorOfFew, HighestOfFew
  <1>3. /\ MirrorContext(ctx).supports = {Top - r : r \in ctx.resistances}
        /\ MirrorContext(ctx).resistances = {Top - s : s \in ctx.supports}
    BY Zenon DEF MirrorContext
  <1>4. Highest(3, ctx.supports) = ctx.supports /\ Highest(3, ctx.resistances) = ctx.resistances
    BY <1>1, HighestOfFew
  <1> QED BY <1>2, <1>3, <1>4

LEMMA LevelsMirror ==
    ASSUME NEW ctx \in Contexts, NEW c \in Candles, NEW S \in SUBSET Int
    PROVE  (\E r \in {Top - s : s \in S} : Near(MirrorCandle(c), r, ctx.atr))
              <=> \E s \in S : Near(c, s, ctx.atr)
  <1>1. \A s \in S : Near(MirrorCandle(c), Top - s, ctx.atr) <=> Near(c, s, ctx.atr)
    BY NearMirror, ContextType
  <1> QED BY <1>1

LEMMA GapsMirror ==
    ASSUME NEW ctx \in Contexts, NEW c \in Candles
    PROVE  (\E f \in {MirrorGap(g) : g \in ctx.fvgs} : Holds(f, MirrorCandle(c)))
              <=> \E g \in ctx.fvgs : Holds(g, c)
  <1>1. ASSUME NEW g \in ctx.fvgs
        PROVE  Holds(MirrorGap(g), MirrorCandle(c)) <=> Holds(g, c)
    <2>1. g.low \in Int /\ g.high \in Int
      BY ContextType
    <2>2. MirrorGap(g).low = Top - g.high /\ MirrorGap(g).high = Top - g.low
      BY DEF MirrorGap
    <2> QED BY <2>1, <2>2, HoldsMirror
  <1> QED BY <1>1

LEMMA BlocksMirror ==
    ASSUME NEW ctx \in Contexts, NEW c \in Candles, NEW d \in Directions
    PROVE  LET mirrored == [i \in 1..Len(ctx.blocks) |-> MirrorBlock(ctx.blocks[i])]
           IN  (\E i \in DOMAIN mirrored : /\ FirstHolding(mirrored, MirrorCandle(c), i)
                                           /\ mirrored[i].direction = Opposite(d))
                  <=> \E i \in DOMAIN ctx.blocks : /\ FirstHolding(ctx.blocks, c, i)
                                                   /\ ctx.blocks[i].direction = d
  <1> DEFINE bs == ctx.blocks
             ms == [i \in 1..Len(bs) |-> MirrorBlock(bs[i])]
  <1>1. DOMAIN bs = 1..Len(bs) /\ DOMAIN ms = 1..Len(bs) /\ Len(bs) \in Nat
    BY ContextType
  <1>2. ASSUME NEW i \in 1..Len(bs)
        PROVE  /\ Holds(ms[i], MirrorCandle(c)) <=> Holds(bs[i], c)
               /\ ms[i].direction = Opposite(d) <=> bs[i].direction = d
    <2>0. bs \in Seq([low : Int, high : Int, direction : Sides])
      BY ContextType
    <2>1. bs[i] \in [low : Int, high : Int, direction : Sides]
      BY <2>0, ElementOfSeq
    <2>2. /\ ms[i].low = Top - bs[i].high /\ ms[i].high = Top - bs[i].low
          /\ ms[i].direction = Opposite(bs[i].direction)
      BY DEF MirrorBlock
    <2>3. bs[i].direction \in Directions /\ bs[i].low \in Int /\ bs[i].high \in Int
      BY <2>1 DEF Directions
    <2> HIDE DEF bs, ms
    <2> QED BY <2>2, <2>3, HoldsMirror, OppositeFacts
  <1> HIDE DEF bs, ms
  <1>3. ASSUME NEW i \in 1..Len(bs)
        PROVE  FirstHolding(ms, MirrorCandle(c), i) <=> FirstHolding(bs, c, i)
    <2>1. \A j \in 1..(i - 1) : j \in 1..Len(bs)
      BY <1>1
    <2> QED BY <1>2, <2>1 DEF FirstHolding
  <1>4. (\E i \in DOMAIN ms : FirstHolding(ms, MirrorCandle(c), i) /\ ms[i].direction = Opposite(d))
           <=> \E i \in DOMAIN bs : FirstHolding(bs, c, i) /\ bs[i].direction = d
    BY <1>1, <1>2, <1>3
  <1> QED BY <1>4 DEF bs, ms

LEMMA MirrorContextFields ==
    ASSUME NEW ctx \in Contexts
    PROVE  LET m == MirrorContext(ctx)
           IN  /\ m.trend = Opposite(ctx.trend) /\ m.atr = ctx.atr
               /\ m.supports = {Top - r : r \in ctx.resistances}
               /\ m.resistances = {Top - r : r \in ctx.supports}
               /\ m.blocks = [i \in 1..Len(ctx.blocks) |-> MirrorBlock(ctx.blocks[i])]
               /\ m.fvgs = {MirrorGap(f) : f \in ctx.fvgs}
               /\ m.swept = "sell_side_hit" <=> ctx.swept = "buy_side_hit"
               /\ m.swept = "buy_side_hit" <=> ctx.swept = "sell_side_hit"
               /\ m.zone = "discount" <=> ctx.zone = "premium"
               /\ m.zone = "premium" <=> ctx.zone = "discount"
               /\ m.killzone = ctx.killzone /\ m.strong = ctx.strong
  <1> DEFINE m == MirrorContext(ctx)
  <1>1. /\ m.swept = CASE ctx.swept = "buy_side_hit" -> "sell_side_hit"
                       [] ctx.swept = "sell_side_hit" -> "buy_side_hit" [] OTHER -> ctx.swept
        /\ m.zone = CASE ctx.zone = "premium" -> "discount"
                      [] ctx.zone = "discount" -> "premium" [] OTHER -> ctx.zone
        /\ m.trend = Opposite(ctx.trend) /\ m.atr = ctx.atr
        /\ m.supports = {Top - r : r \in ctx.resistances}
        /\ m.resistances = {Top - r : r \in ctx.supports}
        /\ m.blocks = [i \in 1..Len(ctx.blocks) |-> MirrorBlock(ctx.blocks[i])]
        /\ m.fvgs = {MirrorGap(f) : f \in ctx.fvgs}
        /\ m.killzone = ctx.killzone /\ m.strong = ctx.strong
    BY Zenon DEF MirrorContext
  <1> HIDE DEF m
  <1>2. /\ m.swept = "sell_side_hit" <=> ctx.swept = "buy_side_hit"
        /\ m.swept = "buy_side_hit" <=> ctx.swept = "sell_side_hit"
    BY <1>1, ContextType
  <1>3. /\ m.zone = "discount" <=> ctx.zone = "premium"
        /\ m.zone = "premium" <=> ctx.zone = "discount"
    BY <1>1, ContextType
  <1> QED BY <1>1, <1>2, <1>3, Zenon DEF m

LEMMA BonusMirror ==
    ASSUME NEW d \in Directions, NEW c \in Candles, NEW ctx \in Contexts, FewLevels(ctx)
    PROVE  ContextBonus(Opposite(d), MirrorCandle(c), MirrorContext(ctx)) = ContextBonus(d, c, ctx)
  <1> DEFINE m == MirrorContext(ctx)
             n == MirrorCandle(c)
             o == Opposite(d)
             with(e, x)        == x.trend = e /\ e # "neutral"
             against(e, x)     == x.trend # e /\ "neutral" \notin {x.trend, e}
             support(e, b, x)  == e = "bullish" /\ \E s \in Highest(3, x.supports) : Near(b, s, x.atr)
             resist(e, b, x)   == e = "bearish" /\ \E r \in Highest(3, x.resistances) : Near(b, r, x.atr)
             block(e, b, x)    == \E i \in DOMAIN x.blocks : FirstHolding(x.blocks, b, i) /\ x.blocks[i].direction = e
             gap(b, x)         == \E f \in x.fvgs : Holds(f, b)
             sold(e, x)        == x.swept = "sell_side_hit" /\ e = "bullish"
             bought(e, x)      == x.swept = "buy_side_hit" /\ e = "bearish"
             sum(e, b, x) == If(with(e, x), 15) + If(against(e, x), 5)
                             + If(support(e, b, x), 15) + If(resist(e, b, x), 15)
                             + If(block(e, b, x), 15) + If(gap(b, x), 10)
                             + If(sold(e, x), 20) + If(bought(e, x), 20)
                             + If(x.killzone, 10) + If(BodyAtLeast(b, 7), 10)
  <1>1. /\ ContextBonus(d, c, ctx) = sum(d, c, ctx)
        /\ ContextBonus(o, n, m) = sum(o, n, m)
    BY DEF ContextBonus
  <1>2. /\ with(o, m) <=> with(d, ctx)
        /\ against(o, m) <=> against(d, ctx)
    <2>1. m.trend = Opposite(ctx.trend)
      BY MirrorContextFields
    <2>2. ctx.trend \in Directions /\ "neutral" \in Directions
      BY ContextType DEF Directions
    <2>3. m.trend = o <=> ctx.trend = d
      BY <2>1, <2>2, OppositeFacts
    <2>4. /\ o = "neutral" <=> d = "neutral"
          /\ m.trend = "neutral" <=> ctx.trend = "neutral"
      BY <2>1, <2>2, OppositeFacts
    <2> HIDE DEF o, m
    <2> QED BY <2>3, <2>4
  <1>3. support(o, n, m) <=> resist(d, c, ctx)
    <2>0. /\ Highest(3, m.supports) = {Top - r : r \in ctx.resistances} /\ m.atr = ctx.atr
          /\ Highest(3, ctx.resistances) = ctx.resistances /\ ctx.resistances \in SUBSET Int
      BY MirrorContextFields, LevelsOfFew, ContextType
    <2>1. (\E s \in Highest(3, m.supports) : Near(n, s, m.atr))
             <=> \E r \in Highest(3, ctx.resistances) : Near(c, r, ctx.atr)
      <3> HIDE DEF m
      <3> QED BY <2>0, LevelsMirror, Zenon
    <2>2. o = "bullish" <=> d = "bearish"
      BY OppositeFacts DEF Directions, Sides
    <2> QED BY <2>1, <2>2
  <1>4. resist(o, n, m) <=> support(d, c, ctx)
    <2>0. /\ Highest(3, m.resistances) = {Top - s : s \in ctx.supports} /\ m.atr = ctx.atr
          /\ Highest(3, ctx.supports) = ctx.supports /\ ctx.supports \in SUBSET Int
      BY MirrorContextFields, LevelsOfFew, ContextType
    <2>1. (\E r \in Highest(3, m.resistances) : Near(n, r, m.atr))
             <=> \E s \in Highest(3, ctx.supports) : Near(c, s, ctx.atr)
      <3> HIDE DEF m
      <3> QED BY <2>0, LevelsMirror, Zenon
    <2>2. o = "bearish" <=> d = "bullish"
      BY OppositeFacts DEF Directions, Sides
    <2> QED BY <2>1, <2>2
  <1>5. block(o, n, m) <=> block(d, c, ctx)
    <2> DEFINE ms == [i \in 1..Len(ctx.blocks) |-> MirrorBlock(ctx.blocks[i])]
    <2>1. m.blocks = ms
      BY MirrorContextFields
    <2>2. (\E i \in DOMAIN ms : FirstHolding(ms, n, i) /\ ms[i].direction = o)
             <=> block(d, c, ctx)
      BY BlocksMirror, Zenon
    <2> HIDE DEF m, ms
    <2> QED BY <2>1, <2>2, Zenon
  <1>6. gap(n, m) <=> gap(c, ctx)
    BY MirrorContextFields, GapsMirror
  <1>7. /\ sold(o, m) <=> bought(d, ctx)
        /\ bought(o, m) <=> sold(d, ctx)
    <2>1. /\ o = "bullish" <=> d = "bearish"
          /\ o = "bearish" <=> d = "bullish"
      BY OppositeFacts DEF Directions, Sides
    <2> QED BY <2>1, MirrorContextFields
  <1>8. m.killzone = ctx.killzone /\ (BodyAtLeast(n, 7) <=> BodyAtLeast(c, 7))
    BY MirrorContextFields, MirrorParts
  <1> HIDE DEF m, n, o, with, against, support, resist, block, gap, sold, bought
  <1>9. sum(o, n, m) = sum(d, c, ctx)
    BY <1>2, <1>3, <1>4, <1>5, <1>6, <1>7, <1>8 DEF If
  <1> QED BY <1>1, <1>9 DEF m, n, o
-----------------------------------------------------------------------------
(* The signals of each detector, and what the mirror makes of them.        *)
LEMMA MirrorOfSignal ==
    ASSUME NEW p, p # "doji", NEW d, NEW base, NEW bonus, NEW stop
    PROVE  MirrorSignal(Signal(p, d, base, bonus, stop))
              = Signal(p, Opposite(d), base, bonus, 10 * Top - stop)
  BY DEF MirrorSignal, Signal

LEMMA BeyondMirror ==
    ASSUME NEW d \in Sides, NEW low \in Int, NEW high \in Int, NEW atr10 \in Int
    PROVE  Beyond(Opposite(d), Top - high, Top - low, atr10) = 10 * Top - Beyond(d, low, high, atr10)
  <1>1. d = "bullish" \/ d = "bearish"
    BY DEF Sides
  <1> QED BY <1>1, OppositeFacts, CandleAssumption DEF Beyond

PinBarSignal(d, w, ctx) ==
    Signal("pin_bar", d, 8, ContextBonus(d, w[4], ctx), Beyond(d, w[4].low, w[4].high, 5 * ctx.atr))

EngulfingSignal(d, w, ctx) ==
    Signal("engulfing", d, 10, ContextBonus(d, w[4], ctx) + If(BodyAtLeast(w[4], 7), 10),
           Beyond(d, w[4].low, w[4].high, 5 * ctx.atr))

FakeySignal(d, w, ctx) ==
    Signal("fakey", d, 15, ContextBonus(d, w[4], ctx) + If(ctx.trend \notin {d, "neutral"}, 15),
           Beyond(d, w[1].low, w[1].high, 3 * ctx.atr))

OutsideBarSignal(d, w, ctx) ==
    Signal("outside_bar", d, 9, ContextBonus(d, w[4], ctx), Beyond(d, w[4].low, w[4].high, 5 * ctx.atr))

StarLow(w)  == Least(w[2].low, Least(w[3].low, w[4].low))
StarHigh(w) == Most(w[2].high, Most(w[3].high, w[4].high))

StarSignal(d, w, ctx) ==
    Signal("star", d, 12,
           ContextBonus(d, w[4], ctx)
               + If((d = "bullish" /\ ctx.zone = "discount") \/ (d = "bearish" /\ ctx.zone = "premium"), 10),
           Beyond(d, StarLow(w), StarHigh(w), 3 * ctx.atr))

ThreeSignal(d, w, ctx) ==
    Signal("three", d, 11, ContextBonus(d, w[4], ctx) + If(ctx.trend = d, 15),
           Beyond(d, w[2].open, w[2].open, 5 * ctx.atr))

InsideSignal(w, ctx) ==
    Signal("inside_bar", "neutral", 5,
           ContextBonus("neutral", w[4], ctx) + If(10 * TotalRange(w[3]) > 12 * ctx.atr, 10),
           5 * (w[3].high + w[3].low))

DojiSignal(w, ctx) ==
    Signal("doji", "neutral", 4,
           If(\E s \in Highest(3, ctx.supports) : Near(w[4], s, ctx.atr), 10)
           + If(\E r \in Highest(3, ctx.resistances) : Near(w[4], r, ctx.atr), 10)
           + If(ctx.strong, 10), 0)

LEMMA SignalsSplit ==
    ASSUME NEW w, NEW ctx
    PROVE  /\ Directed(w, ctx) =
                 {PinBarSignal(d, w, ctx) : d \in PinBar(w[4])}
                 \cup {EngulfingSignal(d, w, ctx) : d \in Engulfing(w[3], w[4])}
                 \cup {FakeySignal(d, w, ctx) : d \in Fakey(w[1], w[2], w[3], w[4], ctx)}
                 \cup {OutsideBarSignal(d, w, ctx) : d \in OutsideBar(w[3], w[4])}
                 \cup {StarSignal(d, w, ctx) : d \in Star(w[2], w[3], w[4])}
                 \cup {ThreeSignal(d, w, ctx) : d \in ThreeSoldiersCrows(w[2], w[3], w[4])}
           /\ Neutral(w, ctx) =
                 {InsideSignal(w, ctx) : x \in {y \in {w[4]} : Inside(w[3], y)}}
                 \cup {DojiSignal(w, ctx) : x \in {y \in {w[4]} : Doji(y)}}
  <1>1. Directed(w, ctx) =
                 {PinBarSignal(d, w, ctx) : d \in PinBar(w[4])}
                 \cup {EngulfingSignal(d, w, ctx) : d \in Engulfing(w[3], w[4])}
                 \cup {FakeySignal(d, w, ctx) : d \in Fakey(w[1], w[2], w[3], w[4], ctx)}
                 \cup {OutsideBarSignal(d, w, ctx) : d \in OutsideBar(w[3], w[4])}
                 \cup {StarSignal(d, w, ctx) : d \in Star(w[2], w[3], w[4])}
                 \cup {ThreeSignal(d, w, ctx) : d \in ThreeSoldiersCrows(w[2], w[3], w[4])}
    BY Zenon DEF Directed, PinBarSignal, EngulfingSignal, FakeySignal, OutsideBarSignal, StarSignal,
                 StarLow, StarHigh, ThreeSignal
  <1>2. Neutral(w, ctx) =
                 {InsideSignal(w, ctx) : x \in {y \in {w[4]} : Inside(w[3], y)}}
                 \cup {DojiSignal(w, ctx) : x \in {y \in {w[4]} : Doji(y)}}
    BY Zenon DEF Neutral, InsideSignal, DojiSignal
  <1> QED BY <1>1, <1>2

LEMMA WindowFacts ==
    ASSUME NEW w \in Windows
    PROVE  /\ \A i \in 1..4 : w[i] \in Candles /\ MirrorWindow(w)[i] = MirrorCandle(w[i])
           /\ w[1] \in Candles /\ w[2] \in Candles /\ w[3] \in Candles /\ w[4] \in Candles
           /\ MirrorWindow(w)[1] = MirrorCandle(w[1]) /\ MirrorWindow(w)[2] = MirrorCandle(w[2])
           /\ MirrorWindow(w)[3] = MirrorCandle(w[3]) /\ MirrorWindow(w)[4] = MirrorCandle(w[4])
  BY DEF Windows, MirrorWindow

LEMMA BonusOfWindow ==
    ASSUME NEW w \in Windows, NEW ctx \in Contexts, FewLevels(ctx), NEW d \in Directions
    PROVE  ContextBonus(Opposite(d), MirrorWindow(w)[4], MirrorContext(ctx)) = ContextBonus(d, w[4], ctx)
  BY WindowFacts, BonusMirror

(* The level of a signal at one bar of the window.                         *)
LEMMA BeyondOfBar ==
    ASSUME NEW w \in Windows, NEW ctx \in Contexts, NEW d \in Sides, NEW i \in 1..4, NEW k \in Nat
    PROVE  Beyond(Opposite(d), MirrorWindow(w)[i].low, MirrorWindow(w)[i].high, k * MirrorContext(ctx).atr)
              = 10 * Top - Beyond(d, w[i].low, w[i].high, k * ctx.atr)
  <1>1. /\ w[i] \in Candles
        /\ MirrorWindow(w)[i].low = Top - w[i].high
        /\ MirrorWindow(w)[i].high = Top - w[i].low
    BY WindowFacts, MirrorParts
  <1>2. w[i].low \in Int /\ w[i].high \in Int
    BY <1>1, BarFacts
  <1>3. MirrorContext(ctx).atr = ctx.atr /\ k * ctx.atr \in Int
    <2>1. ctx.atr \in Nat
      BY ContextType
    <2>2. k * ctx.atr \in Int
      BY <2>1
    <2> QED BY <2>2, MirrorContextFields
  <1> QED BY <1>1, <1>2, <1>3, BeyondMirror

LEMMA PinBarSignalMirror ==
    ASSUME NEW w \in Windows, NEW ctx \in Contexts, FewLevels(ctx), NEW d \in Sides
    PROVE  /\ MirrorSignal(PinBarSignal(d, w, ctx))
                = PinBarSignal(Opposite(d), MirrorWindow(w), MirrorContext(ctx))
           /\ MirrorSignal(OutsideBarSignal(d, w, ctx))
                = OutsideBarSignal(Opposite(d), MirrorWindow(w), MirrorContext(ctx))
  <1>1. ContextBonus(Opposite(d), MirrorWindow(w)[4], MirrorContext(ctx)) = ContextBonus(d, w[4], ctx)
    BY BonusOfWindow DEF Directions
  <1>2. Beyond(Opposite(d), MirrorWindow(w)[4].low, MirrorWindow(w)[4].high, 5 * MirrorContext(ctx).atr)
              = 10 * Top - Beyond(d, w[4].low, w[4].high, 5 * ctx.atr)
    BY BeyondOfBar
  <1>3. "pin_bar" # "doji" /\ "outside_bar" # "doji"
    OBVIOUS
  <1> QED BY <1>1, <1>2, <1>3, MirrorOfSignal DEF PinBarSignal, OutsideBarSignal

LEMMA EngulfingSignalMirror ==
    ASSUME NEW w \in Windows, NEW ctx \in Contexts, FewLevels(ctx), NEW d \in Sides
    PROVE  MirrorSignal(EngulfingSignal(d, w, ctx))
                = EngulfingSignal(Opposite(d), MirrorWindow(w), MirrorContext(ctx))
  <1>1. ContextBonus(Opposite(d), MirrorWindow(w)[4], MirrorContext(ctx)) = ContextBonus(d, w[4], ctx)
    BY BonusOfWindow DEF Directions
  <1>2. Beyond(Opposite(d), MirrorWindow(w)[4].low, MirrorWindow(w)[4].high, 5 * MirrorContext(ctx).atr)
              = 10 * Top - Beyond(d, w[4].low, w[4].high, 5 * ctx.atr)
    BY BeyondOfBar
  <1>3. If(BodyAtLeast(MirrorWindow(w)[4], 7), 10) = If(BodyAtLeast(w[4], 7), 10)
    BY WindowFacts, MirrorParts DEF If
  <1>4. "engulfing" # "doji"
    OBVIOUS
  <1> QED BY <1>1, <1>2, <1>3, <1>4, MirrorOfSignal DEF EngulfingSignal

LEMMA FakeySignalMirror ==
    ASSUME NEW w \in Windows, NEW ctx \in Contexts, FewLevels(ctx), NEW d \in Sides
    PROVE  MirrorSignal(FakeySignal(d, w, ctx))
                = FakeySignal(Opposite(d), MirrorWindow(w), MirrorContext(ctx))
  <1>1. ContextBonus(Opposite(d), MirrorWindow(w)[4], MirrorContext(ctx)) = ContextBonus(d, w[4], ctx)
    BY BonusOfWindow DEF Directions
  <1>2. Beyond(Opposite(d), MirrorWindow(w)[1].low, MirrorWindow(w)[1].high, 3 * MirrorContext(ctx).atr)
              = 10 * Top - Beyond(d, w[1].low, w[1].high, 3 * ctx.atr)
    BY BeyondOfBar
  <1>3. If(MirrorContext(ctx).trend \notin {Opposite(d), "neutral"}, 15) = If(ctx.trend \notin {d, "neutral"}, 15)
    <2>1. /\ MirrorContext(ctx).trend = Opposite(ctx.trend)
          /\ ctx.trend \in Directions /\ d \in Directions /\ "neutral" \in Directions
      BY MirrorContextFields, ContextType DEF Directions
    <2>2. MirrorContext(ctx).trend \notin {Opposite(d), "neutral"} <=> ctx.trend \notin {d, "neutral"}
      BY <2>1, OppositeFacts
    <2> QED BY <2>2 DEF If
  <1>4. "fakey" # "doji"
    OBVIOUS
  <1> QED BY <1>1, <1>2, <1>3, <1>4, MirrorOfSignal DEF FakeySignal

LEMMA StarSignalMirror ==
    ASSUME NEW w \in Windows, NEW ctx \in Contexts, FewLevels(ctx), NEW d \in Sides
    PROVE  MirrorSignal(StarSignal(d, w, ctx))
                = StarSignal(Opposite(d), MirrorWindow(w), MirrorContext(ctx))
  <1> DEFINE m == MirrorWindow(w)
             x == MirrorContext(ctx)
             bonus(e, y) == If((e = "bullish" /\ y.zone = "discount") \/ (e = "bearish" /\ y.zone = "premium"), 10)
  <1>1. ContextBonus(Opposite(d), m[4], x) = ContextBonus(d, w[4], ctx)
    BY BonusOfWindow DEF Directions
  <1>2. bonus(Opposite(d), x) = bonus(d, ctx)
    <2>1. d = "bullish" \/ d = "bearish"
      BY DEF Sides
    <2>2. /\ x.zone = "discount" <=> ctx.zone = "premium"
          /\ x.zone = "premium" <=> ctx.zone = "discount"
      BY MirrorContextFields
    <2> HIDE DEF x
    <2> QED BY <2>1, <2>2, OppositeFacts DEF If
  <1>3. /\ m[2].low = Top - w[2].high /\ m[2].high = Top - w[2].low
        /\ m[3].low = Top - w[3].high /\ m[3].high = Top - w[3].low
        /\ m[4].low = Top - w[4].high /\ m[4].high = Top - w[4].low
    BY WindowFacts, MirrorParts
  <1>4. /\ w[2].low \in Int /\ w[2].high \in Int
        /\ w[3].low \in Int /\ w[3].high \in Int
        /\ w[4].low \in Int /\ w[4].high \in Int
    BY WindowFacts, BarFacts
  <1>5. /\ StarLow(m) = Top - StarHigh(w) /\ StarHigh(m) = Top - StarLow(w)
        /\ StarLow(w) \in Int /\ StarHigh(w) \in Int
    BY <1>3, <1>4, CandleAssumption DEF StarLow, StarHigh, Least, Most
  <1>6. x.atr = ctx.atr /\ 3 * ctx.atr \in Int
    <2>1. ctx.atr \in Nat
      BY ContextType
    <2>2. 3 * ctx.atr \in Int
      BY <2>1
    <2> QED BY <2>2, MirrorContextFields
  <1>7. Beyond(Opposite(d), StarLow(m), StarHigh(m), 3 * x.atr)
              = 10 * Top - Beyond(d, StarLow(w), StarHigh(w), 3 * ctx.atr)
    BY <1>5, <1>6, BeyondMirror
  <1>8. /\ StarSignal(d, w, ctx) = Signal("star", d, 12, ContextBonus(d, w[4], ctx) + bonus(d, ctx),
                                          Beyond(d, StarLow(w), StarHigh(w), 3 * ctx.atr))
        /\ StarSignal(Opposite(d), m, x) =
               Signal("star", Opposite(d), 12, ContextBonus(Opposite(d), m[4], x) + bonus(Opposite(d), x),
                      Beyond(Opposite(d), StarLow(m), StarHigh(m), 3 * x.atr))
    BY DEF StarSignal
  <1>9. "star" # "doji"
    OBVIOUS
  <1> HIDE DEF bonus
  <1> QED BY <1>1, <1>2, <1>7, <1>8, <1>9, MirrorOfSignal

LEMMA ThreeSignalMirror ==
    ASSUME NEW w \in Windows, NEW ctx \in Contexts, FewLevels(ctx), NEW d \in Sides
    PROVE  MirrorSignal(ThreeSignal(d, w, ctx))
                = ThreeSignal(Opposite(d), MirrorWindow(w), MirrorContext(ctx))
  <1>1. ContextBonus(Opposite(d), MirrorWindow(w)[4], MirrorContext(ctx)) = ContextBonus(d, w[4], ctx)
    BY BonusOfWindow DEF Directions
  <1>2. MirrorWindow(w)[2].open = Top - w[2].open /\ w[2].open \in Int
    BY WindowFacts, MirrorParts, BarFacts
  <1>3. MirrorContext(ctx).atr = ctx.atr /\ 5 * ctx.atr \in Int
    <2>1. ctx.atr \in Nat
      BY ContextType
    <2>2. 5 * ctx.atr \in Int
      BY <2>1
    <2> QED BY <2>2, MirrorContextFields
  <1>4. Beyond(Opposite(d), MirrorWindow(w)[2].open, MirrorWindow(w)[2].open, 5 * MirrorContext(ctx).atr)
              = 10 * Top - Beyond(d, w[2].open, w[2].open, 5 * ctx.atr)
    BY <1>2, <1>3, BeyondMirror
  <1>5. If(MirrorContext(ctx).trend = Opposite(d), 15) = If(ctx.trend = d, 15)
    <2>1. /\ MirrorContext(ctx).trend = Opposite(ctx.trend)
          /\ ctx.trend \in Directions /\ d \in Directions
      BY MirrorContextFields, ContextType DEF Directions
    <2>2. MirrorContext(ctx).trend = Opposite(d) <=> ctx.trend = d
      BY <2>1, OppositeFacts
    <2> QED BY <2>2 DEF If
  <1>6. "three" # "doji"
    OBVIOUS
  <1> QED BY <1>1, <1>4, <1>5, <1>6, MirrorOfSignal DEF ThreeSignal

LEMMA NeutralSignalMirror ==
    ASSUME NEW w \in Windows, NEW ctx \in Contexts, FewLevels(ctx)
    PROVE  /\ MirrorSignal(InsideSignal(w, ctx)) = InsideSignal(MirrorWindow(w), MirrorContext(ctx))
           /\ MirrorSignal(DojiSignal(w, ctx)) = DojiSignal(MirrorWindow(w), MirrorContext(ctx))
  <1> DEFINE m == MirrorWindow(w)
             x == MirrorContext(ctx)
  <1>1. MirrorSignal(InsideSignal(w, ctx)) = InsideSignal(m, x)
    <2>1. ContextBonus("neutral", m[4], x) = ContextBonus("neutral", w[4], ctx)
      BY BonusOfWindow, OppositeFacts DEF Directions
    <2>2. If(10 * TotalRange(m[3]) > 12 * x.atr, 10) = If(10 * TotalRange(w[3]) > 12 * ctx.atr, 10)
      <3>1. TotalRange(m[3]) = TotalRange(w[3])
        BY WindowFacts, MirrorParts
      <3>2. x.atr = ctx.atr
        BY MirrorContextFields
      <3> HIDE DEF m, x
      <3> QED BY <3>1, <3>2
    <2>3. 5 * (m[3].high + m[3].low) = 10 * Top - 5 * (w[3].high + w[3].low)
      <3>1. /\ m[3].low = Top - w[3].high /\ m[3].high = Top - w[3].low
            /\ w[3].low \in Int /\ w[3].high \in Int
        BY WindowFacts, MirrorParts, BarFacts
      <3> HIDE DEF m
      <3> QED BY <3>1, CandleAssumption
    <2>4. "inside_bar" # "doji" /\ Opposite("neutral") = "neutral"
      BY OppositeFacts
    <2> HIDE DEF m, x
    <2> QED BY <2>1, <2>2, <2>3, <2>4, MirrorOfSignal DEF InsideSignal
  <1>2. MirrorSignal(DojiSignal(w, ctx)) = DojiSignal(m, x)
    <2> DEFINE at(S) == \E s \in S : Near(w[4], s, ctx.atr)
               bonus == If(at(Highest(3, ctx.supports)), 10) + If(at(Highest(3, ctx.resistances)), 10) + If(ctx.strong, 10)
               bonus2 == If(\E s \in Highest(3, x.supports) : Near(m[4], s, x.atr), 10)
                         + If(\E r \in Highest(3, x.resistances) : Near(m[4], r, x.atr), 10)
                         + If(x.strong, 10)
    <2>1. /\ Highest(3, x.supports) = {Top - r : r \in ctx.resistances}
          /\ Highest(3, x.resistances) = {Top - r : r \in ctx.supports}
          /\ Highest(3, ctx.supports) = ctx.supports
          /\ Highest(3, ctx.resistances) = ctx.resistances
          /\ x.atr = ctx.atr /\ x.strong = ctx.strong
          /\ m[4] = MirrorCandle(w[4]) /\ w[4] \in Candles
          /\ ctx.supports \in SUBSET Int /\ ctx.resistances \in SUBSET Int
      BY MirrorContextFields, LevelsOfFew, WindowFacts, ContextType
    <2>2. /\ (\E s \in Highest(3, x.supports) : Near(m[4], s, x.atr)) <=> at(Highest(3, ctx.resistances))
          /\ (\E r \in Highest(3, x.resistances) : Near(m[4], r, x.atr)) <=> at(Highest(3, ctx.supports))
      <3> HIDE DEF m, x
      <3>1. (\E s \in Highest(3, x.supports) : Near(m[4], s, x.atr)) <=> at(Highest(3, ctx.resistances))
        <4>1. (\E r \in {Top - s : s \in ctx.resistances} : Near(MirrorCandle(w[4]), r, ctx.atr))
                 <=> at(ctx.resistances)
          BY <2>1, LevelsMirror
        <4> QED BY <2>1, <4>1
      <3>2. (\E r \in Highest(3, x.resistances) : Near(m[4], r, x.atr)) <=> at(Highest(3, ctx.supports))
        <4>1. (\E r \in {Top - s : s \in ctx.supports} : Near(MirrorCandle(w[4]), r, ctx.atr))
                 <=> at(ctx.supports)
          BY <2>1, LevelsMirror
        <4> QED BY <2>1, <4>1
      <3> QED BY <3>1, <3>2
    <2>3. bonus2 = bonus
      <3> HIDE DEF m, x, at
      <3> QED BY <2>1, <2>2 DEF If
    <2>4. DojiSignal(w, ctx) = Signal("doji", "neutral", 4, bonus, 0)
          /\ DojiSignal(m, x) = Signal("doji", "neutral", 4, bonus2, 0)
      BY Zenon DEF DojiSignal
    <2>5. MirrorSignal(Signal("doji", "neutral", 4, bonus, 0)) = Signal("doji", "neutral", 4, bonus, 0)
      <3> HIDE DEF bonus
      <3> QED BY OppositeFacts DEF MirrorSignal, Signal
    <2> HIDE DEF bonus, bonus2, m, x
    <2> QED BY <2>3, <2>4, <2>5
  <1> QED BY <1>1, <1>2

Image(S) == {MirrorSignal(s) : s \in S}

LEMMA ImageOfUnion ==
    ASSUME NEW S, NEW T
    PROVE  Image(S \cup T) = Image(S) \cup Image(T)
  BY DEF Image

(* A signal keeps its pattern in the mirror, so that the tied ones are     *)
(* left out before or after.                                               *)
LEMMA UntiedImage ==
    ASSUME NEW w, NEW S
    PROVE  Untied(Image(S), w) = Image(Untied(S, w))
  <1>1. \A s : MirrorSignal(s).pattern = s.pattern
    BY DEF MirrorSignal
  <1> QED BY <1>1 DEF Untied, Image

LEMMA UntiedOfUnion ==
    ASSUME NEW w, NEW S, NEW T
    PROVE  Untied(S \cup T, w) = Untied(S, w) \cup Untied(T, w)
  BY DEF Untied

LEMMA TiedIs ==
    ASSUME NEW w
    PROVE  /\ "engulfing" \in Tied(w) <=> Body(w[3]) = 0
           /\ "fakey" \in Tied(w) <=> /\ FalseUp(w[1], w[2], w[3], w[4])
                                     /\ FalseDown(w[1], w[2], w[3], w[4])
           /\ Tied(w) \subseteq {"engulfing", "fakey"}
  BY DEF Tied

LEMMA PatternOf ==
    ASSUME NEW p, NEW d, NEW base, NEW bonus, NEW stop
    PROVE  Signal(p, d, base, bonus, stop).pattern = p
  BY DEF Signal

(* Detector by detector: what is found in the mirrored window are the      *)
(* mirror images of what is found in the window.                           *)
LEMMA SignalsMirror ==
    ASSUME NEW w \in Windows, NEW ctx \in Contexts, FewLevels(ctx)
    PROVE  Untied(Directed(MirrorWindow(w), MirrorContext(ctx)), w) = Image(Untied(Directed(w, ctx), w))
  <1> DEFINE m == MirrorWindow(w)
             x == MirrorContext(ctx)
  <1>0. x.atr = ctx.atr
    BY MirrorContextFields
  <1>1. {PinBarSignal(d, m, x) : d \in PinBar(m[4])} = Image({PinBarSignal(d, w, ctx) : d \in PinBar(w[4])})
    <2>1. PinBar(m[4]) = Mirrored(PinBar(w[4])) /\ PinBar(w[4]) \subseteq Sides
      BY <1>0, WindowFacts, PinBarMirror
    <2>2. \A d \in PinBar(w[4]) : MirrorSignal(PinBarSignal(d, w, ctx)) = PinBarSignal(Opposite(d), m, x)
      BY <2>1, PinBarSignalMirror
    <2> HIDE DEF m, x
    <2> QED BY <2>1, <2>2 DEF Mirrored, Image
  <1>2. Untied({EngulfingSignal(d, m, x) : d \in Engulfing(m[3], m[4])}, w)
           = Untied(Image({EngulfingSignal(d, w, ctx) : d \in Engulfing(w[3], w[4])}), w)
    <2>1. CASE Body(w[3]) = 0
      <3>1. "engulfing" \in Tied(w)
        BY <2>1, TiedIs
      <3>2. \A d : MirrorSignal(EngulfingSignal(d, w, ctx)).pattern = "engulfing"
        BY DEF MirrorSignal, EngulfingSignal, Signal
      <3>3. \A d : EngulfingSignal(d, m, x).pattern = "engulfing"
        BY PatternOf DEF EngulfingSignal
      <3> HIDE DEF m, x
      <3> QED BY <3>1, <3>2, <3>3 DEF Untied, Image
    <2>2. CASE Body(w[3]) # 0
      <3>1. w[3] \in Bodied /\ w[4] \in Candles /\ m[3] = MirrorCandle(w[3]) /\ m[4] = MirrorCandle(w[4])
        BY <2>2, WindowFacts, BarParts DEF Bodied
      <3>2. Engulfing(m[3], m[4]) = Mirrored(Engulfing(w[3], w[4])) /\ Engulfing(w[3], w[4]) \subseteq Sides
        BY <3>1, EngulfingMirror
      <3>3. \A d \in Engulfing(w[3], w[4]) : MirrorSignal(EngulfingSignal(d, w, ctx)) = EngulfingSignal(Opposite(d), m, x)
        BY <3>2, EngulfingSignalMirror
      <3> HIDE DEF m, x
      <3>4. {EngulfingSignal(d, m, x) : d \in Engulfing(m[3], m[4])}
               = Image({EngulfingSignal(d, w, ctx) : d \in Engulfing(w[3], w[4])})
        BY <3>2, <3>3 DEF Mirrored, Image
      <3> QED BY <3>4
    <2> QED BY <2>1, <2>2
  <1>3. Untied({FakeySignal(d, m, x) : d \in Fakey(m[1], m[2], m[3], m[4], x)}, w)
           = Untied(Image({FakeySignal(d, w, ctx) : d \in Fakey(w[1], w[2], w[3], w[4], ctx)}), w)
    <2> DEFINE both == FalseUp(w[1], w[2], w[3], w[4]) /\ FalseDown(w[1], w[2], w[3], w[4])
    <2>1. CASE both
      <3>1. "fakey" \in Tied(w)
        BY <2>1, TiedIs
      <3>2. \A d : MirrorSignal(FakeySignal(d, w, ctx)).pattern = "fakey"
        BY DEF MirrorSignal, FakeySignal, Signal
      <3>3. \A d : FakeySignal(d, m, x).pattern = "fakey"
        BY PatternOf DEF FakeySignal
      <3> HIDE DEF m, x
      <3> QED BY <3>1, <3>2, <3>3 DEF Untied, Image
    <2>2. CASE ~both
      <3>2. /\ Fakey(m[1], m[2], m[3], m[4], x) = Mirrored(Fakey(w[1], w[2], w[3], w[4], ctx))
            /\ Fakey(w[1], w[2], w[3], w[4], ctx) \subseteq Sides
        BY <1>0, <2>2, WindowFacts, FakeyMirror
      <3>3. \A d \in Fakey(w[1], w[2], w[3], w[4], ctx) : MirrorSignal(FakeySignal(d, w, ctx)) = FakeySignal(Opposite(d), m, x)
        BY <3>2, FakeySignalMirror
      <3> HIDE DEF m, x
      <3>4. {FakeySignal(d, m, x) : d \in Fakey(m[1], m[2], m[3], m[4], x)}
               = Image({FakeySignal(d, w, ctx) : d \in Fakey(w[1], w[2], w[3], w[4], ctx)})
        BY <3>2, <3>3 DEF Mirrored, Image
      <3> QED BY <3>4
    <2> QED BY <2>1, <2>2
  <1>4. {OutsideBarSignal(d, m, x) : d \in OutsideBar(m[3], m[4])} = Image({OutsideBarSignal(d, w, ctx) : d \in OutsideBar(w[3], w[4])})
    <2>1. OutsideBar(m[3], m[4]) = Mirrored(OutsideBar(w[3], w[4])) /\ OutsideBar(w[3], w[4]) \subseteq Sides
      BY <1>0, WindowFacts, OutsideBarMirror
    <2>2. \A d \in OutsideBar(w[3], w[4]) : MirrorSignal(OutsideBarSignal(d, w, ctx)) = OutsideBarSignal(Opposite(d), m, x)
      BY <2>1, PinBarSignalMirror
    <2> HIDE DEF m, x
    <2> QED BY <2>1, <2>2 DEF Mirrored, Image
  <1>5. {StarSignal(d, m, x) : d \in Star(m[2], m[3], m[4])} = Image({StarSignal(d, w, ctx) : d \in Star(w[2], w[3], w[4])})
    <2>1. Star(m[2], m[3], m[4]) = Mirrored(Star(w[2], w[3], w[4])) /\ Star(w[2], w[3], w[4]) \subseteq Sides
      BY <1>0, WindowFacts, StarMirror
    <2>2. \A d \in Star(w[2], w[3], w[4]) : MirrorSignal(StarSignal(d, w, ctx)) = StarSignal(Opposite(d), m, x)
      BY <2>1, StarSignalMirror
    <2> HIDE DEF m, x
    <2> QED BY <2>1, <2>2 DEF Mirrored, Image
  <1>6. {ThreeSignal(d, m, x) : d \in ThreeSoldiersCrows(m[2], m[3], m[4])} = Image({ThreeSignal(d, w, ctx) : d \in ThreeSoldiersCrows(w[2], w[3], w[4])})
    <2>1. ThreeSoldiersCrows(m[2], m[3], m[4]) = Mirrored(ThreeSoldiersCrows(w[2], w[3], w[4])) /\ ThreeSoldiersCrows(w[2], w[3], w[4]) \subseteq Sides
      BY <1>0, WindowFacts, ThreeMirror
    <2>2. \A d \in ThreeSoldiersCrows(w[2], w[3], w[4]) : MirrorSignal(ThreeSignal(d, w, ctx)) = ThreeSignal(Opposite(d), m, x)
      BY <2>1, ThreeSignalMirror
    <2> HIDE DEF m, x
    <2> QED BY <2>1, <2>2 DEF Mirrored, Image
  <1> DEFINE
        A1 == {PinBarSignal(d, w, ctx) : d \in PinBar(w[4])}
        A2 == {EngulfingSignal(d, w, ctx) : d \in Engulfing(w[3], w[4])}
        A3 == {FakeySignal(d, w, ctx) : d \in Fakey(w[1], w[2], w[3], w[4], ctx)}
        A4 == {OutsideBarSignal(d, w, ctx) : d \in OutsideBar(w[3], w[4])}
        A5 == {StarSignal(d, w, ctx) : d \in Star(w[2], w[3], w[4])}
        A6 == {ThreeSignal(d, w, ctx) : d \in ThreeSoldiersCrows(w[2], w[3], w[4])}
  <1>7. Directed(w, ctx) = A1 \cup A2 \cup A3 \cup A4 \cup A5 \cup A6
    BY SignalsSplit
  <1>c. Directed(m, x) =
              {PinBarSignal(d, m, x) : d \in PinBar(m[4])}
              \cup {EngulfingSignal(d, m, x) : d \in Engulfing(m[3], m[4])}
              \cup {FakeySignal(d, m, x) : d \in Fakey(m[1], m[2], m[3], m[4], x)}
              \cup {OutsideBarSignal(d, m, x) : d \in OutsideBar(m[3], m[4])}
              \cup {StarSignal(d, m, x) : d \in Star(m[2], m[3], m[4])}
              \cup {ThreeSignal(d, m, x) : d \in ThreeSoldiersCrows(m[2], m[3], m[4])}
    <2> HIDE DEF m, x
    <2> QED BY SignalsSplit
  <1> DEFINE
        M1 == {PinBarSignal(d, m, x) : d \in PinBar(m[4])}
        M2 == {EngulfingSignal(d, m, x) : d \in Engulfing(m[3], m[4])}
        M3 == {FakeySignal(d, m, x) : d \in Fakey(m[1], m[2], m[3], m[4], x)}
        M4 == {OutsideBarSignal(d, m, x) : d \in OutsideBar(m[3], m[4])}
        M5 == {StarSignal(d, m, x) : d \in Star(m[2], m[3], m[4])}
        M6 == {ThreeSignal(d, m, x) : d \in ThreeSoldiersCrows(m[2], m[3], m[4])}
  <1>8. Directed(m, x) = M1 \cup M2 \cup M3 \cup M4 \cup M5 \cup M6
    BY <1>c
  <1>a. /\ M1 = Image(A1) /\ Untied(M2, w) = Untied(Image(A2), w) /\ Untied(M3, w) = Untied(Image(A3), w)
        /\ M4 = Image(A4) /\ M5 = Image(A5) /\ M6 = Image(A6)
    <2> HIDE DEF m, x
    <2> QED BY <1>1, <1>2, <1>3, <1>4, <1>5, <1>6
  <1> HIDE DEF m, x, A1, A2, A3, A4, A5, A6, M1, M2, M3, M4, M5, M6
  <1>9. Untied(Directed(m, x), w) = Untied(Image(A1), w) \cup Untied(Image(A2), w) \cup Untied(Image(A3), w)
                                   \cup Untied(Image(A4), w) \cup Untied(Image(A5), w) \cup Untied(Image(A6), w)
    <2>1. Untied(M1 \cup M2 \cup M3 \cup M4 \cup M5 \cup M6, w)
             = Untied(M1, w) \cup Untied(M2, w) \cup Untied(M3, w)
               \cup Untied(M4, w) \cup Untied(M5, w) \cup Untied(M6, w)
      BY DEF Untied
    <2> QED BY <1>8, <1>a, <2>1
  <1>10. Image(Directed(w, ctx)) = Image(A1) \cup Image(A2) \cup Image(A3) \cup Image(A4) \cup Image(A5) \cup Image(A6)
    BY <1>7 DEF Image
  <1>11. Untied(Directed(m, x), w) = Untied(Image(Directed(w, ctx)), w)
    <2> DEFINE B1 == Image(A1)
               B2 == Image(A2)
               B3 == Image(A3)
               B4 == Image(A4)
               B5 == Image(A5)
               B6 == Image(A6)
    <2>1. Untied(B1 \cup B2 \cup B3 \cup B4 \cup B5 \cup B6, w)
             = Untied(B1, w) \cup Untied(B2, w) \cup Untied(B3, w)
               \cup Untied(B4, w) \cup Untied(B5, w) \cup Untied(B6, w)
      <3> HIDE DEF B1, B2, B3, B4, B5, B6
      <3> QED BY DEF Untied
    <2> QED BY <1>9, <1>10, <2>1
  <1> QED BY <1>11, UntiedImage DEF m, x

LEMMA NeutralMirror ==
    ASSUME NEW w \in Windows, NEW ctx \in Contexts, FewLevels(ctx)
    PROVE  Neutral(MirrorWindow(w), MirrorContext(ctx)) = Image(Neutral(w, ctx))
  <1> DEFINE m == MirrorWindow(w)
             x == MirrorContext(ctx)
  <1>1. /\ Inside(m[3], m[4]) <=> Inside(w[3], w[4])
        /\ Doji(m[4]) <=> Doji(w[4])
    BY WindowFacts, InsideMirror
  <1>2. /\ MirrorSignal(InsideSignal(w, ctx)) = InsideSignal(m, x)
        /\ MirrorSignal(DojiSignal(w, ctx)) = DojiSignal(m, x)
    BY NeutralSignalMirror
  <1>3. /\ Neutral(w, ctx) = {InsideSignal(w, ctx) : y \in {z \in {w[4]} : Inside(w[3], z)}}
                               \cup {DojiSignal(w, ctx) : y \in {z \in {w[4]} : Doji(z)}}
        /\ Neutral(m, x) = {InsideSignal(m, x) : y \in {z \in {m[4]} : Inside(m[3], z)}}
                               \cup {DojiSignal(m, x) : y \in {z \in {m[4]} : Doji(z)}}
    BY SignalsSplit
  <1> HIDE DEF m, x
  <1>4. {InsideSignal(m, x) : y \in {z \in {m[4]} : Inside(m[3], z)}}
           = Image({InsideSignal(w, ctx) : y \in {z \in {w[4]} : Inside(w[3], z)}})
    BY <1>1, <1>2 DEF Image
  <1>5. {DojiSignal(m, x) : y \in {z \in {m[4]} : Doji(z)}}
           = Image({DojiSignal(w, ctx) : y \in {z \in {w[4]} : Doji(z)}})
    BY <1>1, <1>2 DEF Image
  <1>6. Image(Neutral(w, ctx)) = Image({InsideSignal(w, ctx) : y \in {z \in {w[4]} : Inside(w[3], z)}})
                               \cup Image({DojiSignal(w, ctx) : y \in {z \in {w[4]} : Doji(z)}})
    BY <1>3, ImageOfUnion
  <1> QED BY <1>3, <1>4, <1>5, <1>6 DEF m, x

LEMMA ReportedMirror ==
    ASSUME NEW w \in Windows, NEW ctx \in Contexts, FewLevels(ctx)
    PROVE  Untied(Reported(MirrorWindow(w), MirrorContext(ctx)), w)
              = {MirrorSignal(s) : s \in Untied(Reported(w, ctx), w)}
  <1> DEFINE m == MirrorWindow(w)
             x == MirrorContext(ctx)
             all == Directed(w, ctx) \cup Neutral(w, ctx)
             found == Directed(m, x) \cup Neutral(m, x)
  <1>1. Untied(found, w) = Image(Untied(all, w))
    <2>1. Untied(Directed(m, x), w) = Image(Untied(Directed(w, ctx), w))
      BY SignalsMirror
    <2>2. Neutral(m, x) = Image(Neutral(w, ctx))
      BY NeutralMirror
    <2>3. Untied(found, w) = Image(Untied(Directed(w, ctx), w)) \cup Untied(Image(Neutral(w, ctx)), w)
      BY <2>1, <2>2, UntiedOfUnion
    <2>4. Untied(all, w) = Untied(Directed(w, ctx), w) \cup Untied(Neutral(w, ctx), w)
      BY UntiedOfUnion
    <2>5. Untied(Image(Neutral(w, ctx)), w) = Image(Untied(Neutral(w, ctx), w))
      BY UntiedImage
    <2> HIDE DEF all, found
    <2> QED BY <2>3, <2>4, <2>5, ImageOfUnion
  <1>2. \A s : MirrorSignal(s).confidence = s.confidence
    BY DEF MirrorSignal
  <1>3. /\ Reported(w, ctx) = IF Raises(w) THEN {} ELSE {s \in all : s.confidence >= 30}
        /\ Reported(m, x) = IF Raises(m) THEN {} ELSE {s \in found : s.confidence >= 30}
    BY Zenon DEF Reported
  <1>4. Raises(m) <=> Raises(w)
    BY RaisesMirror
  <1> HIDE DEF m, x, all, found
  <1>5. CASE Raises(w)
    BY <1>3, <1>4, <1>5 DEF Untied, m, x
  <1>6. CASE ~Raises(w)
    <2>1. /\ Untied(Reported(m, x), w) = {s \in Untied(found, w) : s.confidence >= 30}
          /\ Untied(Reported(w, ctx), w) = {s \in Untied(all, w) : s.confidence >= 30}
      BY <1>3, <1>4, <1>6 DEF Untied
    <2>2. Untied(Reported(m, x), w) = {MirrorSignal(s) : s \in Untied(Reported(w, ctx), w)}
      BY <1>1, <1>2, <2>1 DEF Image
    <2> QED BY <2>2 DEF m, x
  <1> QED BY <1>5, <1>6

(* A tie is the bearish side's: two bars with nothing between the open and *)
(* the close of the first, or two breaks at once.                          *)
LEMMA TieIsBearish ==
    ASSUME NEW v, NEW ctx, NEW s \in Reported(v, ctx),
           v[3].open \in Int, v[3].close \in Int,
           \/ s.pattern = "engulfing" /\ v[3].open = v[3].close
           \/ s.pattern = "fakey" /\ FalseUp(v[1], v[2], v[3], v[4])
    PROVE  s.direction = "bearish"
  <1>1. s \in Directed(v, ctx) \cup Neutral(v, ctx)
    BY Zenon DEF Reported
  <1>2. s \in {PinBarSignal(d, v, ctx) : d \in PinBar(v[4])}
             \cup {EngulfingSignal(d, v, ctx) : d \in Engulfing(v[3], v[4])}
             \cup {FakeySignal(d, v, ctx) : d \in Fakey(v[1], v[2], v[3], v[4], ctx)}
             \cup {OutsideBarSignal(d, v, ctx) : d \in OutsideBar(v[3], v[4])}
             \cup {StarSignal(d, v, ctx) : d \in Star(v[2], v[3], v[4])}
             \cup {ThreeSignal(d, v, ctx) : d \in ThreeSoldiersCrows(v[2], v[3], v[4])}
             \cup {InsideSignal(v, ctx) : y \in {z \in {v[4]} : Inside(v[3], z)}}
             \cup {DojiSignal(v, ctx) : y \in {z \in {v[4]} : Doji(z)}}
    BY <1>1, SignalsSplit
  <1>3. \A d : /\ PinBarSignal(d, v, ctx).pattern = "pin_bar"
              /\ EngulfingSignal(d, v, ctx).pattern = "engulfing"
              /\ EngulfingSignal(d, v, ctx).direction = d
              /\ FakeySignal(d, v, ctx).pattern = "fakey"
              /\ FakeySignal(d, v, ctx).direction = d
              /\ OutsideBarSignal(d, v, ctx).pattern = "outside_bar"
              /\ StarSignal(d, v, ctx).pattern = "star"
              /\ ThreeSignal(d, v, ctx).pattern = "three"
    BY DEF PinBarSignal, EngulfingSignal, FakeySignal, OutsideBarSignal, StarSignal, ThreeSignal, Signal
  <1>4. InsideSignal(v, ctx).pattern = "inside_bar" /\ DojiSignal(v, ctx).pattern = "doji"
    BY DEF InsideSignal, DojiSignal, Signal
  <1>5. CASE s.pattern = "engulfing" /\ v[3].open = v[3].close
    <2>1. PICK d \in Engulfing(v[3], v[4]) : s = EngulfingSignal(d, v, ctx)
      BY <1>2, <1>3, <1>4, <1>5
    <2>2. Bullish(v[3])
      BY <1>5 DEF Bullish
    <2>3. d = "bearish"
      BY <2>2 DEF Engulfing, Found
    <2> QED BY <1>3, <2>1, <2>3
  <1>6. CASE s.pattern = "fakey" /\ FalseUp(v[1], v[2], v[3], v[4])
    <2>1. PICK d \in Fakey(v[1], v[2], v[3], v[4], ctx) : s = FakeySignal(d, v, ctx)
      BY <1>2, <1>3, <1>4, <1>6
    <2>2. d = "bearish"
      BY <1>6 DEF Fakey, Found
    <2> QED BY <1>3, <2>1, <2>2
  <1> QED BY <1>5, <1>6

LEMMA TiesAreBearish ==
    ASSUME NEW w \in Windows, NEW ctx \in Contexts,
           NEW s \in Reported(w, ctx) \cup Reported(MirrorWindow(w), MirrorContext(ctx)),
           s.pattern \in Tied(w)
    PROVE  s.direction = "bearish"
  <1> DEFINE m == MirrorWindow(w)
             x == MirrorContext(ctx)
  <1>1. /\ w[1] \in Candles /\ w[2] \in Candles /\ w[3] \in Candles /\ w[4] \in Candles
        /\ m[1] = MirrorCandle(w[1]) /\ m[2] = MirrorCandle(w[2])
        /\ m[3] = MirrorCandle(w[3]) /\ m[4] = MirrorCandle(w[4])
    BY WindowFacts
  <1>2. /\ w[3].open \in Int /\ w[3].close \in Int
        /\ m[3].open = Top - w[3].open /\ m[3].close = Top - w[3].close
        /\ m[3].open \in Int /\ m[3].close \in Int
    BY <1>1, MirrorParts, BarFacts
  <1>3. Body(w[3]) = 0 => w[3].open = w[3].close /\ m[3].open = m[3].close
    BY <1>1, <1>2, BarParts
  <1>4. FalseDown(w[1], w[2], w[3], w[4]) => FalseUp(m[1], m[2], m[3], m[4])
    BY <1>1, MirrorParts, BarFacts DEF FalseUp, FalseDown
  <1>5. \/ s.pattern = "engulfing" /\ Body(w[3]) = 0
        \/ /\ s.pattern = "fakey"
           /\ FalseUp(w[1], w[2], w[3], w[4]) /\ FalseDown(w[1], w[2], w[3], w[4])
    BY TiedIs
  <1> HIDE DEF m, x
  <1>6. CASE s \in Reported(w, ctx)
    BY <1>2, <1>3, <1>5, <1>6, TieIsBearish
  <1>7. CASE s \in Reported(m, x)
    BY <1>2, <1>3, <1>4, <1>5, <1>7, TieIsBearish
  <1> QED BY <1>6, <1>7 DEF m, x
-----------------------------------------------------------------------------
(* The state.  A compression that stands is fresh and younger than the     *)
(* last expansion reported; one that is reported leaves none standing.     *)
(* And a breakout of this bar has its level behind the close.              *)
Breakouts == [level : 0..Top, direction : Sides, behind : 0..Old, age : 0..Old]

Spent == /\ compressed <= Fresh => calm <= compressed /\ compressed < spent
         /\ expanded => calm <= Fresh /\ calm < spent /\ compressed = Never

Broken(b, close) == /\ b.direction = "bullish" => b.level < close
                    /\ b.direction = "bearish" => b.level > close

NewAreBroken == \A i \in 1..Len(breakouts) :
                   breakouts[i].age = 0 => Broken(breakouts[i], window[4].close)

IInv == ActionTypeOK /\ Spent /\ NewAreBroken

LEMMA BoundedSeqIs ==
    ASSUME NEW S, NEW n \in Nat, NEW s
    PROVE  s \in BoundedSeq(S, n) <=> s \in Seq(S) /\ Len(s) <= n
  <1>1. ASSUME s \in BoundedSeq(S, n) PROVE s \in Seq(S) /\ Len(s) <= n
    <2>1. PICK m \in 0..n : s \in [1..m -> S]
      BY <1>1 DEF BoundedSeq, SeqOf
    <2>2. s \in Seq(S) /\ DOMAIN s = 1..m
      BY <2>1
    <2>3. Len(s) = m
      BY <2>1, <2>2, LenProperties
    <2> QED BY <2>1, <2>2, <2>3
  <1>2. ASSUME s \in Seq(S), Len(s) <= n PROVE s \in BoundedSeq(S, n)
    <2>1. Len(s) \in 0..n /\ s \in [1..Len(s) -> S]
      BY <1>2, LenProperties
    <2> QED BY <2>1 DEF BoundedSeq, SeqOf
  <1> QED BY <1>1, <1>2

LEMMA MinIsLeast ==
    ASSUME NEW I \in SUBSET Nat, I # {}
    PROVE  Min(I) \in I /\ \A j \in I : Min(I) <= j
  <1>1. PICK x \in I : \A y \in I : ~ (<<y, x>> \in OpToRel(<, Nat))
    BY NatLessThanWellFounded, WFMin
  <1>2. OpToRel(<, Nat) = {p \in Nat \X Nat : p[1] < p[2]}
    BY DEF OpToRel
  <1>3. ASSUME NEW y \in I, y < x PROVE FALSE
    <2>1. <<y, x>> \in {p \in Nat \X Nat : p[1] < p[2]}
      BY <1>3
    <2> QED BY <1>1, <1>2, <2>1, Zenon
  <1>4. \A y \in I : x <= y
    BY <1>3
  <1> QED BY <1>4 DEF Min

LEMMA MaxIsMost ==
    ASSUME NEW I \in SUBSET (0..Top), I # {}
    PROVE  Max(I) \in I
  <1> DEFINE J == {Top - r : r \in I}
  <1>0. Top \in Nat
    BY CandleAssumption
  <1>1. J \in SUBSET Nat /\ J # {}
    <2>1. ASSUME NEW r \in I PROVE Top - r \in Nat
      <3>1. r \in 0..Top
        OBVIOUS
      <3> QED BY <3>1, <1>0
    <2> QED BY <2>1
  <1>2. Min(J) \in J /\ \A j \in J : Min(J) <= j
    BY <1>1, MinIsLeast
  <1>3. PICK x \in I : Min(J) = Top - x
    BY <1>2
  <1>4. \A y \in I : x >= y
    <2>1. ASSUME NEW y \in I PROVE x >= y
      <3>1. Top - x <= Top - y
        BY <1>2, <1>3
      <3>2. x \in 0..Top /\ y \in 0..Top
        OBVIOUS
      <3> QED BY <3>1, <3>2, <1>0
    <2> QED BY <2>1
  <1> QED BY <1>4 DEF Max

(* Breakouts are never dropped, and none stays new.                        *)
LEMMA AgedFacts ==
    ASSUME ActionTypeOK, NEW grown \in {0, 1}
    PROVE  /\ AgedBreakouts(grown) \in Seq(Breakouts)
           /\ Len(AgedBreakouts(grown)) = Len(breakouts)
           /\ Len(breakouts) \in Nat /\ Len(breakouts) <= MaxBreakouts
           /\ \A i \in 1..Len(breakouts) : AgedBreakouts(grown)[i].age # 0
  <1> DEFINE n == Len(breakouts)
             aged == AgedBreakouts(grown)
  <1>1. breakouts \in Seq(Breakouts) /\ n \in Nat /\ n <= MaxBreakouts
    <2>1. breakouts \in BoundedSeq(Breakouts, MaxBreakouts)
      BY DEF ActionTypeOK, Breakouts
    <2> QED BY <2>1, BoundedSeqIs, ActionAssumption, LenProperties
  <1>2. aged = [i \in 1..n |-> Aged(breakouts[i], grown)]
    BY DEF AgedBreakouts
  <1>3. ASSUME NEW i \in 1..n
        PROVE  Aged(breakouts[i], grown) \in Breakouts /\ Aged(breakouts[i], grown).age # 0
    <2> DEFINE b == breakouts[i]
    <2>1. b \in Breakouts
      BY <1>1, ElementOfSeq
    <2>2. Old \in Nat /\ Old > 0
      BY ActionAssumption DEF Old
    <2> HIDE DEF b
    <2>3. /\ b.level \in 0..Top /\ b.direction \in Sides /\ b.behind \in 0..Old /\ b.age \in 0..Old
      BY <2>1 DEF Breakouts
    <2>4. Least(b.behind + grown, Old) \in 0..Old /\ Least(b.age + 1, Old) \in 1..Old
      BY <2>2, <2>3 DEF Least
    <2>5. Aged(b, grown) \in Breakouts /\ Aged(b, grown).age # 0
      BY <2>2, <2>3, <2>4 DEF Aged, Breakouts
    <2> QED BY <2>5 DEF b
  <1> HIDE DEF n, aged
  <1>4. aged \in [1..n -> Breakouts] /\ \A i \in 1..n : aged[i].age # 0
    BY <1>2, <1>3
  <1>5. aged \in Seq(Breakouts) /\ Len(aged) = n
    <2>1. aged \in Seq(Breakouts) /\ DOMAIN aged = 1..n
      BY <1>1, <1>4
    <2> QED BY <1>1, <2>1, LenProperties
  <1> QED BY <1>1, <1>4, <1>5 DEF n, aged

LEMMA CrossedType ==
    ASSUME NEW w \in Windows, NEW ctx \in Contexts
    PROVE  /\ Crossed(w, ctx) \in Seq(Breakouts) /\ Len(Crossed(w, ctx)) \in {0, 1}
           /\ \A i \in 1..Len(Crossed(w, ctx)) : Broken(Crossed(w, ctx)[i], w[4].close)
  <1> DEFINE p == w[3]
             c == w[4]
             up == {r \in Highest(5, ctx.resistances) : p.close < r /\ r < c.close
                                                         /\ BodyAtLeast(c, 5) /\ Bullish(c)}
             down == {s \in Highest(5, ctx.supports) : s < p.close /\ c.close < s
                                                        /\ BodyAtLeast(c, 5) /\ ~Bullish(c)}
             at(level, d) == [level |-> level, direction |-> d, behind |-> 0, age |-> 0]
  <1>1. /\ p.close \in Nat /\ c.close \in Nat /\ p.close <= Top /\ c.close <= Top
        /\ ctx.resistances \subseteq Int /\ ctx.supports \subseteq Int /\ Top \in Nat
    <2>1. p \in Candles /\ c \in Candles
      BY WindowFacts
    <2>2. /\ p.close \in Nat /\ p.close <= p.high /\ p.high <= Top /\ p.high \in Nat
          /\ c.close \in Nat /\ c.close <= c.high /\ c.high <= Top /\ c.high \in Nat /\ Top \in Nat
      BY <2>1, BarFacts
    <2> HIDE DEF p, c
    <2> QED BY <2>2, ContextType
  <1>2. Crossed(w, ctx) = IF up # {} THEN <<at(Max(up), "bullish")>>
                          ELSE IF down # {} THEN <<at(Max(down), "bearish")>> ELSE <<>>
    BY DEF Crossed
  <1>3. /\ up \in SUBSET (0..Top) /\ down \in SUBSET (0..Top)
        /\ (\A r \in up : r < c.close) /\ (\A s \in down : s > c.close)
    <2>1. Highest(5, ctx.resistances) \subseteq Int /\ Highest(5, ctx.supports) \subseteq Int
      BY <1>1 DEF Highest
    <2> HIDE DEF p, c
    <2> QED BY <1>1, <2>1
  <1> HIDE DEF up, down
  <1>4. ASSUME NEW level \in 0..Top, NEW d \in Sides
        PROVE  /\ at(level, d) \in Breakouts
               /\ at(level, d).level = level /\ at(level, d).direction = d
    BY ActionAssumption DEF Breakouts, Old
  <1>5. CASE up # {}
    <2>1. Max(up) \in up /\ Max(up) \in 0..Top
      BY <1>3, <1>5, MaxIsMost
    <2>2. "bullish" \in Sides
      BY DEF Sides
    <2>3. Crossed(w, ctx) = <<at(Max(up), "bullish")>>
      BY <1>2, <1>5
    <2>4. at(Max(up), "bullish") \in Breakouts /\ Broken(at(Max(up), "bullish"), c.close)
      <3> HIDE DEF at, c
      <3> QED BY <1>3, <1>4, <2>1, <2>2 DEF Broken
    <2> HIDE DEF at
    <2> QED BY <2>3, <2>4
  <1>6. CASE up = {} /\ down # {}
    <2>1. Max(down) \in down /\ Max(down) \in 0..Top
      BY <1>3, <1>6, MaxIsMost
    <2>2. "bearish" \in Sides
      BY DEF Sides
    <2>3. Crossed(w, ctx) = <<at(Max(down), "bearish")>>
      BY <1>2, <1>6
    <2>4. at(Max(down), "bearish") \in Breakouts /\ Broken(at(Max(down), "bearish"), c.close)
      <3> HIDE DEF at, c
      <3> QED BY <1>3, <1>4, <2>1, <2>2 DEF Broken
    <2> HIDE DEF at
    <2> QED BY <2>3, <2>4
  <1>7. CASE up = {} /\ down = {}
    BY <1>2, <1>7
  <1> QED BY <1>5, <1>6, <1>7
-----------------------------------------------------------------------------
(* Where a side is found, the last close is away from the extreme that its *)
(* invalidation is put beyond.                                             *)
SafeStop(d, stop, close) == /\ d = "bullish" => stop < 10 * close
                            /\ d = "bearish" => stop > 10 * close

LEMMA FoundIs ==
    ASSUME NEW up, NEW down, NEW d \in Found(up, down)
    PROVE  (d = "bullish" /\ up) \/ (d = "bearish" /\ down)
  BY DEF Found

LEMMA BeyondProtects ==
    ASSUME NEW d \in Sides, NEW low \in Int, NEW high \in Int, NEW atr10 \in Nat, NEW close \in Int,
           d = "bullish" => low < close, d = "bearish" => high > close
    PROVE  SafeStop(d, Beyond(d, low, high, atr10), close)
  <1>1. d = "bullish" \/ d = "bearish"
    BY DEF Sides
  <1> QED BY <1>1 DEF SafeStop, Beyond

LEMMA PinBarProtects ==
    ASSUME NEW c \in Candles, NEW d \in PinBar(c)
    PROVE  (d = "bullish" => c.low < c.close) /\ (d = "bearish" => c.high > c.close)
  <1> DEFINE small == 100 * Body(c) <= 35 * TotalRange(c)
             up == 10 * LowerWick(c) >= 6 * TotalRange(c) /\ small /\ 100 * UpperWick(c) <= 15 * TotalRange(c)
             down == 10 * UpperWick(c) >= 6 * TotalRange(c) /\ small /\ 100 * LowerWick(c) <= 15 * TotalRange(c)
  <1>1. TotalRange(c) # 0 /\ d \in Found(up, down)
    BY DEF PinBar
  <1>2. (d = "bullish" /\ up) \/ (d = "bearish" /\ down)
    BY <1>1, FoundIs
  <1>3. up => c.low < c.close
    BY <1>1, BarParts, BarFacts
  <1>4. down => c.high > c.close
    BY <1>1, BarParts, BarFacts
  <1> QED BY <1>2, <1>3, <1>4

LEMMA BodyProtects ==
    ASSUME NEW c \in Candles, Body(c) > 0
    PROVE  /\ Bullish(c) => c.low < c.close /\ c.open < c.close
           /\ ~Bullish(c) => c.high > c.close /\ c.open > c.close
  BY BarParts, BarFacts

LEMMA EngulfingProtects ==
    ASSUME NEW p \in Candles, NEW c \in Candles, NEW d \in Engulfing(p, c)
    PROVE  (d = "bullish" => c.low < c.close) /\ (d = "bearish" => c.high > c.close)
  <1> DEFINE covers == /\ Least(c.open, c.close) <= Least(p.open, p.close)
                       /\ Most(c.open, c.close) >= Most(p.open, p.close)
                       /\ 10 * Body(c) >= 12 * Body(p)
  <1>1. d \in Found(Bullish(c) /\ ~Bullish(p) /\ covers, ~Bullish(c) /\ Bullish(p) /\ covers)
    BY DEF Engulfing
  <1>2. \/ d = "bullish" /\ Bullish(c) /\ ~Bullish(p) /\ covers
        \/ d = "bearish" /\ ~Bullish(c) /\ Bullish(p) /\ covers
    BY <1>1, FoundIs
  <1>3. ~Bullish(p) /\ covers => Body(c) > 0
    <2>1. ~Bullish(p) => Body(p) > 0
      BY BarParts, BarFacts DEF Bullish
    <2>2. Body(p) \in Nat /\ Body(c) \in Nat
      BY BarParts
    <2> QED BY <2>1, <2>2
  <1>4. ~Bullish(c) => Body(c) > 0
    BY BarParts, BarFacts DEF Bullish
  <1> QED BY <1>2, <1>3, <1>4, BodyProtects

LEMMA OutsideBarProtects ==
    ASSUME NEW p \in Candles, NEW c \in Candles, NEW d \in OutsideBar(p, c)
    PROVE  (d = "bullish" => c.low < c.close) /\ (d = "bearish" => c.high > c.close)
  <1>1. BodyAtLeast(c, 5) /\ d \in Found(Bullish(c), ~Bullish(c))
    BY DEF OutsideBar
  <1>2. Body(c) > 0
    BY <1>1, BarParts DEF BodyAtLeast
  <1>3. (d = "bullish" /\ Bullish(c)) \/ (d = "bearish" /\ ~Bullish(c))
    BY <1>1 DEF Found
  <1> QED BY <1>2, <1>3, BodyProtects

LEMMA FakeyProtects ==
    ASSUME NEW a \in Candles, NEW b \in Candles, NEW c \in Candles, NEW e \in Candles, NEW ctx,
           NEW d \in Fakey(a, b, c, e, ctx)
    PROVE  (d = "bullish" => a.low < e.close) /\ (d = "bearish" => a.high > e.close)
  <1>1. d \in Found(~FalseUp(a, b, c, e) /\ FalseDown(a, b, c, e), FalseUp(a, b, c, e))
    BY DEF Fakey
  <1>2. \/ d = "bullish" /\ FalseDown(a, b, c, e)
        \/ d = "bearish" /\ FalseUp(a, b, c, e)
    BY <1>1 DEF Found
  <1> QED BY <1>2, BarFacts DEF FalseUp, FalseDown

LEMMA StarProtects ==
    ASSUME NEW a \in Candles, NEW b \in Candles, NEW c \in Candles, NEW d \in Star(a, b, c)
    PROVE  (d = "bullish" => c.low < c.close) /\ (d = "bearish" => c.high > c.close)
  <1> DEFINE shape == 10 * Body(b) < 4 * Body(a) /\ Body(c) > 2 * Body(b)
             mid2  == a.open + a.close
  <1>1. d \in Found(~Bullish(a) /\ shape /\ Bullish(c) /\ 2 * c.close > mid2,
                    Bullish(a) /\ shape /\ ~Bullish(c) /\ 2 * c.close < mid2)
    BY DEF Star
  <1>2. /\ shape
        /\ (d = "bullish" /\ Bullish(c)) \/ (d = "bearish" /\ ~Bullish(c))
    BY <1>1, FoundIs
  <1>3. Body(c) > 0
    BY <1>2, BarParts
  <1> QED BY <1>2, <1>3, BodyProtects

LEMMA ThreeProtects ==
    ASSUME NEW a \in Candles, NEW b \in Candles, NEW c \in Candles, NEW d \in ThreeSoldiersCrows(a, b, c)
    PROVE  (d = "bullish" => a.open < c.close) /\ (d = "bearish" => a.open > c.close)
  <1> DEFINE rising  == (\A x \in {a, b, c} : Bullish(x)) /\ b.close > a.close /\ c.close > b.close
             falling == (\A x \in {a, b, c} : ~Bullish(x)) /\ b.close < a.close /\ c.close < b.close
             up   == rising  /\ \A x \in {a, b, c} : 2 * UpperWick(x) < Body(x)
             down == falling /\ \A x \in {a, b, c} : 2 * LowerWick(x) < Body(x)
  <1>1. d \in Found(up, down)
    BY DEF ThreeSoldiersCrows
  <1>2. (d = "bullish" /\ up) \/ (d = "bearish" /\ down)
    BY <1>1, FoundIs
  <1>3. up => a.open < c.close
    BY BarFacts DEF Bullish
  <1>4. down => a.open > c.close
    BY BarFacts DEF Bullish
  <1> QED BY <1>2, <1>3, <1>4

SafeSignal(s, w) == SafeStop(s.direction, s.stop10, w[4].close)

LEMMA SignalFields ==
    ASSUME NEW p, NEW d, NEW base, NEW bonus, NEW stop
    PROVE  /\ Signal(p, d, base, bonus, stop).direction = d
           /\ Signal(p, d, base, bonus, stop).stop10 = stop
  BY DEF Signal

LEMMA ReportedProtects ==
    ASSUME NEW w \in Windows, NEW ctx \in Contexts, NEW s \in Reported(w, ctx)
    PROVE  SafeSignal(s, w)
  <1>1. /\ w[1] \in Candles /\ w[2] \in Candles /\ w[3] \in Candles /\ w[4] \in Candles
    BY WindowFacts
  <1>2. /\ w[1].low \in Int /\ w[1].high \in Int /\ w[2].low \in Int /\ w[2].high \in Int
        /\ w[3].low \in Int /\ w[3].high \in Int /\ w[4].low \in Int /\ w[4].high \in Int
        /\ w[2].open \in Int /\ w[4].close \in Int
    BY <1>1, BarFacts
  <1>3. 3 * ctx.atr \in Nat /\ 5 * ctx.atr \in Nat
    <2>1. ctx.atr \in Nat
      BY ContextType
    <2> QED BY <2>1
  <1>4. s \in Directed(w, ctx) \cup Neutral(w, ctx)
    BY DEF Reported
  <1>5. ASSUME NEW d \in PinBar(w[4]), s = PinBarSignal(d, w, ctx) PROVE SafeSignal(s, w)
    <2>1. d \in Sides
      BY <1>1, PinBarMirror
    <2>2. SafeStop(d, Beyond(d, w[4].low, w[4].high, 5 * ctx.atr), w[4].close)
      BY <1>1, <1>2, <1>3, <2>1, PinBarProtects, BeyondProtects
    <2> QED BY <1>5, <2>2, SignalFields DEF PinBarSignal, SafeSignal
  <1>6. ASSUME NEW d \in Engulfing(w[3], w[4]), s = EngulfingSignal(d, w, ctx) PROVE SafeSignal(s, w)
    <2>1. d \in Sides
      BY DEF Engulfing, Found, Sides
    <2>2. SafeStop(d, Beyond(d, w[4].low, w[4].high, 5 * ctx.atr), w[4].close)
      BY <1>1, <1>2, <1>3, <2>1, EngulfingProtects, BeyondProtects
    <2> QED BY <1>6, <2>2, SignalFields DEF EngulfingSignal, SafeSignal
  <1>7. ASSUME NEW d \in Fakey(w[1], w[2], w[3], w[4], ctx), s = FakeySignal(d, w, ctx) PROVE SafeSignal(s, w)
    <2>1. d \in Sides
      BY DEF Fakey, Found, Sides
    <2>2. SafeStop(d, Beyond(d, w[1].low, w[1].high, 3 * ctx.atr), w[4].close)
      BY <1>1, <1>2, <1>3, <2>1, FakeyProtects, BeyondProtects
    <2> QED BY <1>7, <2>2, SignalFields DEF FakeySignal, SafeSignal
  <1>8. ASSUME NEW d \in OutsideBar(w[3], w[4]), s = OutsideBarSignal(d, w, ctx) PROVE SafeSignal(s, w)
    <2>1. d \in Sides
      BY DEF OutsideBar, Found, Sides
    <2>2. SafeStop(d, Beyond(d, w[4].low, w[4].high, 5 * ctx.atr), w[4].close)
      BY <1>1, <1>2, <1>3, <2>1, OutsideBarProtects, BeyondProtects
    <2> QED BY <1>8, <2>2, SignalFields DEF OutsideBarSignal, SafeSignal
  <1>9. ASSUME NEW d \in Star(w[2], w[3], w[4]), s = StarSignal(d, w, ctx) PROVE SafeSignal(s, w)
    <2>1. d \in Sides
      BY DEF Star, Found, Sides
    <2>2. /\ StarLow(w) \in Int /\ StarLow(w) <= w[4].low
          /\ StarHigh(w) \in Int /\ StarHigh(w) >= w[4].high
      BY <1>2 DEF StarLow, StarHigh, Least, Most
    <2>3. (d = "bullish" => StarLow(w) < w[4].close) /\ (d = "bearish" => StarHigh(w) > w[4].close)
      BY <1>1, <1>2, <2>2, StarProtects
    <2>4. SafeStop(d, Beyond(d, StarLow(w), StarHigh(w), 3 * ctx.atr), w[4].close)
      BY <1>2, <1>3, <2>1, <2>2, <2>3, BeyondProtects
    <2> QED BY <1>9, <2>4, SignalFields DEF StarSignal, SafeSignal
  <1>10. ASSUME NEW d \in ThreeSoldiersCrows(w[2], w[3], w[4]), s = ThreeSignal(d, w, ctx) PROVE SafeSignal(s, w)
    <2>1. d \in Sides
      BY DEF ThreeSoldiersCrows, Found, Sides
    <2>2. SafeStop(d, Beyond(d, w[2].open, w[2].open, 5 * ctx.atr), w[4].close)
      BY <1>1, <1>2, <1>3, <2>1, ThreeProtects, BeyondProtects
    <2> QED BY <1>10, <2>2, SignalFields DEF ThreeSignal, SafeSignal
  <1>11. ASSUME s = InsideSignal(w, ctx) \/ s = DojiSignal(w, ctx) PROVE SafeSignal(s, w)
    <2>1. s.direction = "neutral"
      <3>1. CASE s = InsideSignal(w, ctx)
        BY <3>1 DEF InsideSignal, Signal
      <3>2. CASE s = DojiSignal(w, ctx)
        BY <3>2 DEF DojiSignal, Signal
      <3> QED BY <1>11, <3>1, <3>2
    <2> QED BY <2>1 DEF SafeSignal, SafeStop
  <1>12. CASE s \in Directed(w, ctx)
    <2>1. s \in {PinBarSignal(d, w, ctx) : d \in PinBar(w[4])}
              \cup {EngulfingSignal(d, w, ctx) : d \in Engulfing(w[3], w[4])}
              \cup {FakeySignal(d, w, ctx) : d \in Fakey(w[1], w[2], w[3], w[4], ctx)}
              \cup {OutsideBarSignal(d, w, ctx) : d \in OutsideBar(w[3], w[4])}
              \cup {StarSignal(d, w, ctx) : d \in Star(w[2], w[3], w[4])}
              \cup {ThreeSignal(d, w, ctx) : d \in ThreeSoldiersCrows(w[2], w[3], w[4])}
      BY <1>12, SignalsSplit
    <2> QED BY <2>1, <1>5, <1>6, <1>7, <1>8, <1>9, <1>10
  <1>13. CASE s \in Neutral(w, ctx)
    <2>1. s = InsideSignal(w, ctx) \/ s = DojiSignal(w, ctx)
      BY <1>13, SignalsSplit
    <2> QED BY <2>1, <1>11
  <1> QED BY <1>4, <1>12, <1>13
-----------------------------------------------------------------------------
LEMMA BreakoutProtects ==
    ASSUME IInv, NEW s \in BreakoutSignals
    PROVE  Protects(s)
  <1>1. PICK b \in Range(breakouts) : b.age = 0 /\ s = Structure("breakout", b.direction, BreakoutStop(b))
    BY DEF BreakoutSignals
  <1>2. breakouts \in Seq(Breakouts)
    <2>1. breakouts \in BoundedSeq(Breakouts, MaxBreakouts)
      BY DEF IInv, ActionTypeOK, Breakouts
    <2> QED BY <2>1, BoundedSeqIs, ActionAssumption
  <1>3. PICK i \in 1..Len(breakouts) : b = breakouts[i]
    <2>1. DOMAIN breakouts = 1..Len(breakouts)
      BY <1>2, LenProperties
    <2> QED BY <2>1 DEF Range
  <1>4. b \in Breakouts /\ Broken(b, window[4].close)
    BY <1>1, <1>2, <1>3, ElementOfSeq DEF IInv, NewAreBroken
  <1>5. b.level \in Int /\ b.direction \in Sides
    BY <1>4 DEF Breakouts
  <1>6. context.atr \in Nat /\ window[4].close \in Int
    <2>1. context \in Contexts /\ window \in Windows
      BY DEF IInv, ActionTypeOK
    <2> QED BY <2>1, ContextType, WindowFacts, BarFacts
  <1>7. s.direction = b.direction /\ s.stop10 = 10 * BreakoutStop(b)
    BY <1>1 DEF Structure
  <1>8. CASE b.direction = "bullish"
    <2>1. BreakoutStop(b) = b.level - context.atr /\ b.level < window[4].close
      BY <1>4, <1>8 DEF BreakoutStop, Broken
    <2> QED BY <1>5, <1>6, <1>7, <1>8, <2>1 DEF Protects
  <1>9. CASE b.direction = "bearish"
    <2>1. BreakoutStop(b) = b.level + context.atr /\ b.level > window[4].close
      BY <1>4, <1>9 DEF BreakoutStop, Broken
    <2> QED BY <1>5, <1>6, <1>7, <1>9, <2>1 DEF Protects
  <1> QED BY <1>5, <1>8, <1>9 DEF Sides
-----------------------------------------------------------------------------
LEMMA InitIsTyped == ActionInit => IInv
  <1> SUFFICES ASSUME ActionInit PROVE IInv
    OBVIOUS
  <1>1. Len(breakouts) = 0 /\ breakouts \in Seq(Breakouts)
    BY DEF ActionInit
  <1>2. breakouts \in BoundedSeq(Breakouts, MaxBreakouts)
    <2>1. MaxBreakouts \in Nat /\ Len(breakouts) <= MaxBreakouts
      BY <1>1, ActionAssumption
    <2> QED BY <1>1, <2>1, BoundedSeqIs
  <1>3. compressed \in 0..Never /\ calm \in 0..Never /\ spent \in 1..Past
    BY ActionAssumption DEF ActionInit, Never, Past
  <1>4. ActionTypeOK
    BY <1>2, <1>3 DEF ActionInit, ActionTypeOK, Breakouts
  <1>5. Spent
    BY ActionAssumption DEF ActionInit, Spent, Never
  <1> QED BY <1>1, <1>4, <1>5 DEF IInv, NewAreBroken

(* The breakouts that one analysis leaves.                                 *)
LEMMA BreakoutsStep ==
    ASSUME ActionTypeOK, NEW grown \in {0, 1}, NEW new \in Seq(Breakouts), NEW close,
           \A i \in 1..Len(new) : Broken(new[i], close),
           breakouts' = AgedBreakouts(grown) \o new,
           Len(breakouts') <= MaxBreakouts
    PROVE  /\ breakouts' \in BoundedSeq(Breakouts, MaxBreakouts)
           /\ \A i \in 1..Len(breakouts') : breakouts'[i].age = 0 => Broken(breakouts'[i], close)
  <1> DEFINE left == AgedBreakouts(grown)
             m == Len(left)
  <1>1. left \in Seq(Breakouts) /\ \A i \in 1..m : left[i].age # 0
    BY AgedFacts
  <1>2. m \in Nat /\ Len(new) \in Nat
    BY <1>1, LenProperties
  <1> HIDE DEF left
  <1>3. /\ breakouts' \in Seq(Breakouts) /\ Len(breakouts') = m + Len(new)
        /\ \A i \in 1..(m + Len(new)) : breakouts'[i] = IF i <= m THEN left[i] ELSE new[i - m]
    BY <1>1, ConcatProperties DEF left
  <1>4. breakouts' \in BoundedSeq(Breakouts, MaxBreakouts)
    BY <1>3, BoundedSeqIs, ActionAssumption
  <1>5. ASSUME NEW i \in 1..Len(breakouts'), breakouts'[i].age = 0
        PROVE  Broken(breakouts'[i], close)
    <2>1. i \in 1..(m + Len(new))
      BY <1>3
    <2>2. CASE i <= m
      <3>1. i \in 1..m /\ breakouts'[i] = left[i]
        BY <1>2, <1>3, <2>1, <2>2
      <3> QED BY <1>1, <1>5, <3>1
    <2>3. CASE ~(i <= m)
      <3>1. i - m \in 1..Len(new) /\ breakouts'[i] = new[i - m]
        BY <1>2, <1>3, <2>1, <2>3
      <3> QED BY <3>1
    <2> QED BY <2>2, <2>3
  <1> QED BY <1>4, <1>5

(* What an analysis makes of the compression, whether or not it raises.    *)
LEMMA SpentStep ==
    ASSUME ActionTypeOK, Spent, NEW compresses \in BOOLEAN, NEW since \in 0..Never,
           since = IF compresses THEN 0 ELSE Least(compressed + 1, Never),
           calm' = IF compresses THEN 0 ELSE Least(calm + 1, Never),
           spent' = IF expanded THEN 1 ELSE Least(spent + 1, Past)
    PROVE  /\ since <= Fresh => calm' <= since /\ since < spent'
           /\ calm' \in 0..Never /\ spent' \in 1..Past
  <1>1. /\ compressed \in 0..Never /\ expanded \in BOOLEAN /\ calm \in 0..Never /\ spent \in 1..Past
        /\ Fresh \in Nat /\ Never = Fresh + 1 /\ Past = Fresh + 2
    BY ActionAssumption DEF ActionTypeOK, Never, Past
  <1>2. calm' \in 0..Never /\ spent' \in 1..Past
    BY <1>1 DEF Least
  <1>3. CASE compresses
    BY <1>1, <1>2, <1>3
  <1>4. ASSUME ~compresses, since <= Fresh PROVE calm' <= since /\ since < spent'
    <2>1. compressed + 1 <= Fresh /\ since = compressed + 1
      BY <1>1, <1>4 DEF Least
    <2>2. calm <= compressed /\ compressed < spent /\ ~expanded
      BY <1>1, <2>1 DEF Spent
    <2>3. calm' <= calm + 1 /\ (spent' = spent + 1 \/ spent' = Past)
      BY <1>1, <1>4, <2>2 DEF Least
    <2> QED BY <1>1, <2>1, <2>2, <2>3
  <1> QED BY <1>2, <1>3, <1>4

LEMMA AnalyzeStep ==
    ASSUME IInv, NEW c \in Candles, NEW ctx \in Contexts, NEW grown \in {0, 1}, Analyze(c, ctx, grown)
    PROVE  IInv'
  <1> DEFINE w == [i \in 1..4 |-> IF i = 4 THEN c ELSE window[i + 1]]
             since == IF Compresses(w) THEN 0 ELSE Least(compressed + 1, Never)
             fires == since <= Fresh /\ Expands(w, ctx)
  <1>0. ActionTypeOK /\ Spent
    BY DEF IInv
  <1>1. w \in Windows
    BY <1>0 DEF ActionTypeOK, Windows
  <1>2. /\ window' = w /\ context' = ctx
        /\ calm' = IF Compresses(w) THEN 0 ELSE Least(calm + 1, Never)
        /\ spent' = IF expanded THEN 1 ELSE Least(spent + 1, Past)
    BY DEF Analyze
  <1>3. compressed \in 0..Never /\ expanded \in BOOLEAN /\ Fresh \in Nat /\ Never = Fresh + 1
    BY <1>0, ActionAssumption DEF ActionTypeOK, Never
  <1>4. since \in 0..Never /\ Compresses(w) \in BOOLEAN
    BY <1>3 DEF Least, Compresses
  <1>5. /\ since <= Fresh => calm' <= since /\ since < spent'
        /\ calm' \in 0..Never /\ spent' \in 1..Past
    <2> HIDE DEF w
    <2> QED BY <1>0, <1>2, <1>4, SpentStep
  <1>6. CASE Raises(w)
    <2>1. /\ breakouts' = AgedBreakouts(grown)
          /\ compressed' = Least(compressed + 1, Never) /\ expanded' = FALSE
      BY <1>6 DEF Analyze
    <2>2. compressed' \in 0..Never /\ (compressed' <= Fresh => calm' <= compressed' /\ compressed' < spent')
      <3>1. Least(compressed + 1, Never) \in 0..Never
        BY <1>3 DEF Least
      <3>2. CASE Compresses(w)
        <4>1. calm' = 0
          BY <1>2, <3>2
        <4>2. compressed' <= Fresh => compressed' < spent'
          <5> SUFFICES ASSUME compressed' <= Fresh PROVE compressed' < spent'
            OBVIOUS
          <5>1. compressed' = compressed + 1 /\ compressed <= Fresh
            BY <1>3, <2>1 DEF Least
          <5>2. compressed < spent /\ ~expanded
            BY <1>0, <1>3, <5>1 DEF Spent
          <5>3. spent' = Least(spent + 1, Past) /\ spent \in 1..Past /\ Past = Fresh + 2
            BY <1>0, <1>2, <5>2 DEF ActionTypeOK, Past
          <5> HIDE DEF w
          <5> QED BY <1>3, <5>1, <5>2, <5>3 DEF Least
        <4> QED BY <2>1, <3>1, <4>1, <4>2
      <3>3. CASE ~Compresses(w)
        <4>1. compressed' = since
          BY <2>1, <3>3
        <4> HIDE DEF since, w
        <4> QED BY <1>4, <1>5, <4>1
      <3> QED BY <3>2, <3>3
    <2>3. breakouts' \in BoundedSeq(Breakouts, MaxBreakouts) /\ NewAreBroken'
      <3>1. /\ breakouts' \in Seq(Breakouts) /\ Len(breakouts') <= MaxBreakouts
            /\ \A i \in 1..Len(breakouts') : breakouts'[i].age # 0
        BY <1>0, <2>1, AgedFacts
      <3>2. breakouts' \in BoundedSeq(Breakouts, MaxBreakouts)
        BY <3>1, BoundedSeqIs, ActionAssumption
      <3> QED BY <3>1, <3>2 DEF NewAreBroken
    <2> HIDE DEF w
    <2>4. ActionTypeOK'
      BY <1>1, <1>2, <1>5, <2>1, <2>2, <2>3 DEF ActionTypeOK, Breakouts
    <2>5. Spent'
      BY <2>1, <2>2 DEF Spent
    <2> QED BY <2>3, <2>4, <2>5 DEF IInv
  <1>7. CASE ~Raises(w)
    <2>1. Structures(w, ctx, grown)
      BY <1>7 DEF Analyze
    <2>2. /\ breakouts' = AgedBreakouts(grown) \o Crossed(w, ctx)
          /\ Len(breakouts') <= MaxBreakouts
          /\ expanded' = fires
          /\ compressed' = IF fires THEN Never ELSE since
      BY <2>1 DEF Structures
    <2>3. fires \in BOOLEAN /\ (fires => since <= Fresh)
      BY DEF Expands
    <2>4. /\ breakouts' \in BoundedSeq(Breakouts, MaxBreakouts)
          /\ \A i \in 1..Len(breakouts') : breakouts'[i].age = 0 => Broken(breakouts'[i], w[4].close)
      <3>1. /\ Crossed(w, ctx) \in Seq(Breakouts)
            /\ \A i \in 1..Len(Crossed(w, ctx)) : Broken(Crossed(w, ctx)[i], w[4].close)
        BY <1>1, CrossedType
      <3> DEFINE new == Crossed(w, ctx)
                 close == w[4].close
      <3>2. new \in Seq(Breakouts) /\ \A i \in 1..Len(new) : Broken(new[i], close)
        BY <3>1
      <3>3. breakouts' = AgedBreakouts(grown) \o new /\ Len(breakouts') <= MaxBreakouts
        BY <2>2
      <3> HIDE DEF new, close
      <3>4. /\ breakouts' \in BoundedSeq(Breakouts, MaxBreakouts)
            /\ \A i \in 1..Len(breakouts') : breakouts'[i].age = 0 => Broken(breakouts'[i], close)
        BY <1>0, <3>2, <3>3, BreakoutsStep
      <3> QED BY <3>4 DEF close
    <2> HIDE DEF fires, since, w
    <2>5. NewAreBroken'
      BY <1>2, <2>4 DEF NewAreBroken
    <2>6. compressed' \in 0..Never /\ expanded' \in BOOLEAN
      BY <1>3, <1>4, <2>2, <2>3
    <2>7. Spent'
      <3>1. CASE fires
        <4>1. compressed' = Never /\ since <= Fresh /\ calm' <= since /\ since < spent'
          BY <1>5, <2>2, <2>3, <3>1
        <4>2. ~(compressed' <= Fresh) /\ calm' <= Fresh /\ calm' < spent'
          <5>1. calm' \in Int /\ spent' \in Int /\ since \in Int
            BY <1>4, <1>5
          <5> QED BY <1>3, <4>1, <5>1
        <4>3. Never' = Never /\ Fresh' = Fresh
          BY DEF Never
        <4> QED BY <4>1, <4>2, <4>3 DEF Spent
      <3>2. CASE ~fires
        <4>1. compressed' = since /\ ~expanded'
          BY <2>2, <3>2
        <4> QED BY <1>5, <4>1 DEF Spent
      <3> QED BY <3>1, <3>2
    <2>8. ActionTypeOK'
      BY <1>1, <1>2, <1>5, <2>4, <2>6 DEF ActionTypeOK, Breakouts
    <2> QED BY <2>5, <2>7, <2>8 DEF IInv
  <1> QED BY <1>6, <1>7

LEMMA StutterStep == IInv /\ UNCHANGED actionVars => IInv'
  BY DEF IInv, ActionTypeOK, Spent, NewAreBroken, actionVars

(* The state keeps its type, a reported expansion has used up a fresh      *)
(* compression, and a new breakout has its level behind the close.         *)
THEOREM AnalysisInvariant == ActionSpec => []IInv
  <1>1. IInv /\ [ActionNext]_actionVars => IInv'
    BY AnalyzeStep, StutterStep DEF ActionNext
  <1> QED BY InitIsTyped, <1>1, PTL DEF ActionSpec

(* Where there are at most three supports and three resistances, the       *)
(* detectors, their bonuses and their invalidations have no side, but for  *)
(* the ties that the bearish side wins.                                    *)
THEOREM EngineHasNoSide == ActionSpec => []MirrorSymmetry
  <1>1. IInv => MirrorSymmetry
    <2> SUFFICES ASSUME IInv PROVE MirrorSymmetry
      OBVIOUS
    <2>1. ActionTypeOK /\ window \in Windows /\ context \in Contexts
      BY DEF IInv, ActionTypeOK
    <2>2. FewLevels(context) =>
             Untied(Reported(MirrorWindow(window), MirrorContext(context)), window)
                = {MirrorSignal(s) : s \in Untied(Reported(window, context), window)}
      BY <2>1, ReportedMirror
    <2>3. \A s \in Reported(window, context) \cup Reported(MirrorWindow(window), MirrorContext(context)) :
             s.pattern \in Tied(window) => s.direction = "bearish"
      BY <2>1, TiesAreBearish
    <2> QED BY <2>1, <2>2, <2>3 DEF MirrorSymmetry
  <1> QED BY AnalysisInvariant, <1>1, PTL

(* No invalidation of a candle pattern or a breakout is on the wrong side  *)
(* of the last close.                                                      *)
THEOREM StopsAlwaysProtect == ActionSpec => []StopsProtect
  <1>1. IInv => StopsProtect
    <2> SUFFICES ASSUME IInv PROVE StopsProtect
      OBVIOUS
    <2>1. window \in Windows /\ context \in Contexts
      BY DEF IInv, ActionTypeOK
    <2>2. \A s \in Reported(window, context) : Protects(s)
      BY <2>1, ReportedProtects DEF SafeSignal, SafeStop, Protects
    <2>3. \A s \in BreakoutSignals : Protects(s)
      BY BreakoutProtects
    <2> QED BY <2>2, <2>3 DEF StopsProtect
  <1> QED BY AnalysisInvariant, <1>1, PTL

(* A reported expansion has a compression before it, within Fresh bars and *)
(* after the last expansion that was reported.                             *)
THEOREM ExpansionsNeedCompression == ActionSpec => []ExpansionSpendsCompression
  <1>1. IInv => ExpansionSpendsCompression
    BY DEF IInv, Spent, ExpansionSpendsCompression
  <1> QED BY AnalysisInvariant, <1>1, PTL
-----------------------------------------------------------------------------
(* The composition: to either part a behaviour of SignalPath is one of its *)
(* own, in which it may also rest.                                         *)
THEOREM PathRunsEach == PathSpec => ActionSpec /\ Spec
<1>1. PathInit => ActionInit /\ Init
  BY DEF PathInit
<1>2. [PathNext]_pathVars => [ActionNext]_actionVars /\ [Next]_vars
  BY Zenon DEF PathNext, pathVars
<1> QED BY <1>1, <1>2, PTL DEF PathSpec, ActionSpec, Spec

(* So the composition keeps every property of its parts: what the run of   *)
(* SignalPath checks holds for any constants.                              *)
THEOREM PathIsSafe ==
    PathSpec => /\ []MirrorSymmetry /\ []StopsProtect /\ []ExpansionSpendsCompression
                /\ []DuplicateNeedsLostAnswer /\ []RegistryMatchesBroker
                /\ []ConfirmedCloseIsFlat
BY PathRunsEach, EngineHasNoSide, StopsAlwaysProtect, ExpansionsNeedCompression,
   DuplicatesAreLostAnswers, RegistryIsTheBrokers, ConfirmedClosesAreFlat, PTL
=============================================================================
