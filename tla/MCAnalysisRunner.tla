------------------------ MODULE MCAnalysisRunner ------------------------
(* A small instance of AnalysisRunner with one runner. *)
EXTENDS AnalysisRunner

CONSTANTS w1, w2, w3

\* The market's wallets trade places from one discovery to the next.
ChangingRankings == {<<w1, w2, w3>>, <<w3, w1>>, <<w2, w3, w1>>}
=============================================================================
