----------------------------- MODULE MCSweeper -----------------------------
\* The sweeper on three orders, with passes of two.
EXTENDS Sweeper

CONSTANTS w1, w2
MCWorkers == {w1, w2}
=============================================================================
