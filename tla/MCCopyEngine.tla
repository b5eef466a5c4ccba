----------------------------- MODULE MCCopyEngine -----------------------------
(* Small instances of CopyEngine. *)
EXTENDS CopyEngine

CONSTANTS m1, yesToken, noToken

MCTokenSide == [a \in {yesToken, noToken} |-> IF a = yesToken THEN "yes" ELSE "no"]

Demo(window) ==
  [enabled |-> TRUE, mode |-> "demo", buys |-> TRUE, sells |-> TRUE, window |-> window]
NoSells == [Demo(0) EXCEPT !.sells = FALSE]
Paused == [Demo(0) EXCEPT !.enabled = FALSE]

Trade(side, asset, price) ==
  [side |-> side, market |-> m1, asset |-> asset, outcome |-> None,
   price |-> price, dated |-> TRUE]
Buy == Trade("buy", yesToken, 2)
Sell == Trade("sell", yesToken, 3)

LiveSettings == {Demo(0), Paused}

\* Settings that refuse sales, and a trade whose side the feed does not say.
CoreSettings == {Demo(0), NoSells}
SidelessContent == {c \in {Buy, Sell, [Buy EXCEPT !.side = None]} : c.side = None}
CoreContent == {Buy, Sell} \cup SidelessContent

LiveContent == {Buy, Sell}
===============================================================================
