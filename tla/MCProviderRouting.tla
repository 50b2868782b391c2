--------------------------- MODULE MCProviderRouting ---------------------------
EXTENDS ProviderRouting

CONSTANTS k1, k2

MCRank == [k \in Keys |-> IF k = k1 THEN 1 ELSE 2]
=============================================================================
