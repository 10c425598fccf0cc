----------------------------- MODULE MCCpswRx -----------------------------
EXTENDS CpswRx, TLC
MCSymmetry == Permutations(Pages)
=============================================================================
