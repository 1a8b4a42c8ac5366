----------------------------- MODULE MCPresence -----------------------------
EXTENDS Presence, TLC

CONSTANTS c1, c2, t1, t2

MCCalls == {c1, c2}
MCTabs == {t1, t2}
MCSymmetry == Permutations(MCCalls) \cup Permutations(MCTabs)
=============================================================================
