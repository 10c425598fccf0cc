--------------------------- MODULE MCCpswTxQueue ---------------------------
EXTENDS CpswTxQueue
CONSTANTS ch0, Quota
MCDescNum == [c \in Chans |-> Quota]
=============================================================================
