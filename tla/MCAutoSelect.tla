---------------------------- MODULE MCAutoSelect ----------------------------
EXTENDS AutoSelect, TLC

CONSTANTS r1, r2, u1, u2

MCRuns == {r1, r2}
MCUrls == {u1, u2}
Sym == Permutations(MCRuns) \cup Permutations(MCUrls)
MCSettings == {[open |-> TRUE, perRun |-> 1, perDay |-> 1, candidates |-> 2],
               [open |-> TRUE, perRun |-> 1, perDay |-> 2, candidates |-> 1]}
=============================================================================
