--------------------------- MODULE ReceiveMemory ---------------------------
(***************************************************************************)
(* What a receive window promises: a receiver that remembers every packet  *)
(* it took.  It takes a packet at most once and never one that lies Window *)
(* or more behind the newest.                                              *)
(***************************************************************************)
EXTENDS Naturals

CONSTANTS Window, SeqSpace

VARIABLES accepted, newest

Init == accepted = {} /\ newest = 0

Take(sequence) ==
    /\ sequence \notin accepted
    /\ newest = 0 \/ newest < sequence + Window
    /\ accepted' = accepted \cup {sequence}
    /\ newest' = IF sequence > newest THEN sequence ELSE newest

Next == \E sequence \in 1 .. SeqSpace - 1 : Take(sequence)

Spec == Init /\ [][Next]_<<accepted, newest>>
=============================================================================
