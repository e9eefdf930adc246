--------------------------- MODULE MCPriceAction ---------------------------
(* Candles on the prices 0..Top whose windows show every pattern, each     *)
(* with its mirror image, and contexts that give and withhold each bonus.  *)
EXTENDS PriceAction

Bar(o, h, l, c) == [open |-> o, high |-> h, low |-> l, close |-> c]

(* A pin, a marubozu and a bar so small that it raises inside of them, and *)
(* a doji that closes where it opened and is its own mirror image.         *)
Shapes == {Bar(13, 15, 4, 15), Bar(4, 16, 4, 16), Bar(8, 11, 8, 11)}
Cross  == Bar(10, 14, 6, 10)

MCCandles == Shapes \cup {MirrorCandle(c) : c \in Shapes} \cup {Cross}

FewCandles == {Bar(4, 16, 4, 16), Bar(11, 12, 10, 12), Bar(9, 11, 9, 10)}

Calm == [trend |-> "neutral", supports |-> {}, resistances |-> {}, atr |-> 4, blocks |-> <<>>,
         fvgs |-> {}, swept |-> "none", killzone |-> FALSE, zone |-> "equilibrium", strong |-> FALSE]

Zone(l, h, d) == [low |-> l, high |-> h, direction |-> d]
Gap(l, h)     == [low |-> l, high |-> h]

MCContexts == {
    [Calm EXCEPT !.trend = "bullish", !.supports = {2, 6, 10}, !.zone = "discount", !.killzone = TRUE],
    [Calm EXCEPT !.trend = "bearish", !.resistances = {10, 15, 19}, !.swept = "buy_side_hit",
                 !.zone = "premium", !.strong = TRUE],
    [Calm EXCEPT !.atr = 8, !.blocks = <<Zone(8, 12, "bullish"), Zone(6, 14, "bearish")>>,
                 !.fvgs = {Gap(9, 12)}, !.supports = {5}, !.resistances = {13}]}

FewContexts == {[Calm EXCEPT !.resistances = {11}]}
=============================================================================
