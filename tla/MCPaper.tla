------------------------------ MODULE MCPaper ------------------------------
(* What the paper channel may say, for TLC.  The second message is any kind of management, *)
(* the first a setup, the third a setup or an end; the first is revised after the second.  *)
EXTENDS PaperLane

Talk == [cues |-> {}, symbol |-> NoSymbol, side |-> "none", entry |-> None, stop |-> None,
         target |-> None, chart |-> FALSE]
Setup(symbol, entry) == [Talk EXCEPT !.cues = {"stop"}, !.symbol = symbol, !.side = "LONG",
                                     !.entry = entry, !.stop = 1]

MCMessageOf == <<1, 2, 1, 3>>
MCTextsOf ==
    << {Setup("BTC", 2), [Setup("BTC", None) EXCEPT !.chart = TRUE]},
       {Talk, Setup("ETH", None)} \cup
       {[Talk EXCEPT !.cues = {c}] : c \in {"untarget", "hit", "target"}} \cup
       {[Talk EXCEPT !.cues = {"again", "stop"}, !.stop = 2],
        [Talk EXCEPT !.cues = {"target"}, !.target = 3]},
       {Setup("BTC", 2), [Talk EXCEPT !.cues = {"closed"}]} >>
============================================================================
