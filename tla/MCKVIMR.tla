------------------------------ MODULE MCKVIMR ------------------------------
EXTENDS KVIMR

\* A table below the largest level (TOP tracks only) and one at it (BOTTOM
\* tracks first).
MCTables == {[id |-> 1, level |-> 0], [id |-> 2, level |-> 1]}
=============================================================================
