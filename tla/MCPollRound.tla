----------------------------- MODULE MCPollRound -----------------------------
(* PollRound with ElastiServices that differ in what can go wrong.         *)
EXTENDS PollRound

Prom(address, valid) == [valid |-> valid, address |-> address, threshold |-> 1]
Item(ns, triggers, period, from) ==
    [namespace |-> ns, triggers |-> triggers, period |-> period, scalableFrom |-> from]

MCItems ==
    {Item("a", <<Prom("ok", TRUE), Prom("none", TRUE)>>, NoPeriod, 0),
     Item("a", <<Prom("none", TRUE)>>, [schedule |-> {1, 2}, duration |-> 3], 0),
     Item("op", <<Prom("default", TRUE), Prom("bad", TRUE)>>, [schedule |-> {}, duration |-> 0], 1),
     Item("c", <<Prom("none", TRUE)>>, [schedule |-> {2}, duration |-> -1], 0)}
MCWatches == {<<>>, <<"a", "op", "a">>}
MCMetrics == {-1, 0, 1}
=============================================================================
