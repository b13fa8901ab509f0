--------------------------- MODULE MCConsumerLoop ---------------------------
EXTENDS ConsumerLoop
CONSTANTS c1, c2, j1, j2, x1
=============================================================================
