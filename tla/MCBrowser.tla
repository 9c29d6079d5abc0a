------------------------------- MODULE MCBrowser -------------------------------
EXTENDS Browser
MCFoundBy == [f \in Finding |-> IF f <= 3 THEN 1 ELSE 2]
MCPrintOf == [f \in Finding |-> IF f = 4 THEN 1 ELSE f]
Row(s, c) == [severity |-> s, cvss |-> c]
MCTables == {<<Row(2, 1), Row(2, NoScore), Row(1, 2), Row(2, 1)>>,
             <<Row(1, NoScore), Row(1, NoScore), Row(1, 1), Row(2, 2)>>,
             <<Row(1, 1), Row(1, 1), Row(1, 2), Row(1, NoScore)>>}
=============================================================================
