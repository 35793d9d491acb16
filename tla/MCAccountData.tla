---------------------------- MODULE MCAccountData ----------------------------
\* Instances of AccountData for TLC.
EXTENDS AccountData, TLC

CONSTANTS b1, b2, p1

Renamings == Permutations({b1, b2})
==============================================================================
