-------------------------- MODULE MCFilterPlacement --------------------------
EXTENDS LargestRoot, MCGraphs

\* All tables are plain scans, or some are not (a table function, an aggregate).
MCGetSets == {Tables, {0, NumTables - 1}}
=============================================================================
