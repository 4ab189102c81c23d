----------------------------- MODULE MCDiscovery -----------------------------
EXTENDS DiscoveryRuns

CONSTANT k1

MCSettings == {[enabled |-> TRUE, keys |-> {k1}], [enabled |-> FALSE, keys |-> {k1}]}
=============================================================================
