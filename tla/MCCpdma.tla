------------------------------ MODULE MCCpdma ------------------------------
EXTENDS Cpdma, TLC
CONSTANTS tx1, rx1, poll, Quota
MCDescNum == [c \in Chans |-> Quota]
MCPollerOf == [c \in Chans |-> poll]
MCSymmetry == Permutations(Desc) \cup Permutations(Token)
=============================================================================
