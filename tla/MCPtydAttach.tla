---------------------------- MODULE MCPtydAttach ----------------------------
EXTENDS PtydAttach, TLC

CONSTANTS a, b

MCClients == {a, b}
MCWeb == {b}
MCStalling == {b}

\* Outputs with a query live or in a replay, and with each boundary cleanStart
\* looks for, and none.
MCTapes == {<<"query", "nl", "query">>, <<"esc", "seq", "query">>, <<"rune", "cont", "cont">>}
=============================================================================
