----------------------------- MODULE DmaQueue ------------------------------
(***************************************************************************)
(* What a CPDMA channel promises its users: tokens are accepted up to a    *)
(* quota, taken back in the order they were accepted, and each is returned *)
(* to the upper layer exactly once, possibly out of order when several     *)
(* contexts return tokens at the same time.                                *)
(***************************************************************************)
EXTENDS Naturals, Sequences

CONSTANTS Chans, Token, DescNum

VARIABLES
  accepted,  \* accepted[c]: tokens accepted and not taken back, oldest first
  returning  \* tokens taken back and not yet returned

held == returning \cup UNION {{accepted[c][i] : i \in 1..Len(accepted[c])} :
                                c \in Chans}

Init == accepted = [c \in Chans |-> <<>>] /\ returning = {}

Accept(c, t) ==
  /\ t \notin held
  /\ Len(accepted[c]) < DescNum[c]
  /\ accepted' = [accepted EXCEPT ![c] = Append(@, t)]
  /\ UNCHANGED returning

TakeBack(c) ==
  /\ accepted[c] # <<>>
  /\ accepted' = [accepted EXCEPT ![c] = Tail(@)]
  /\ returning' = returning \cup {Head(accepted[c])}

Return(t) ==
  /\ t \in returning
  /\ returning' = returning \ {t}
  /\ UNCHANGED accepted

Next ==
  \/ \E c \in Chans : TakeBack(c) \/ \E t \in Token : Accept(c, t)
  \/ \E t \in Token : Return(t)

Spec == Init /\ [][Next]_<<accepted, returning>>
=============================================================================
