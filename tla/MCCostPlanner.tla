---------------------------- MODULE MCCostPlanner ----------------------------
(* CostPlanner for TLC.  The deadline is 10.  Everything fits in Fast; in    *)
(* Slow no dense search does; in Crowded only a shrunk beam does.  Under the *)
(* priors only a lexical search fits.                                        *)
EXTENDS CostPlanner

Times(full, shrunk) == [encode |-> 1, full |-> full, shrunk |-> shrunk, lexical |-> 1,
                        rerank |-> 2, fetch |-> 1]
Fast == Times(4, 3)
Slow == Times(14, 12)
Crowded == Times(12, 4)

MCRegimes == {Fast, Slow}
MCRegimesCrowded == {Crowded, Slow}
MCPriors == Times(12, 9)
MCThresholds == <<1>>
==============================================================================
