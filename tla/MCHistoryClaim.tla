--------------------------- MODULE MCHistoryClaim ---------------------------
EXTENDS HistoryClaim

CONSTANTS p1, p2, p3
=============================================================================
