---------------------------- MODULE MCClientBooks ----------------------------
(***************************************************************************)
(* What the server keeps of one client besides its reliable messages and   *)
(* its wire session: the receive window, the outbound byte budget and the  *)
(* buffered inputs, instances of three modules for TLC.  They share no     *)
(* state and call nothing of each other, so an interleaving of two shows   *)
(* no state of either that its own steps do not reach: a behaviour here is *)
(* one of a single module, the others keeping still.                       *)
(***************************************************************************)
EXTENDS ReceiveWindow, BandwidthBudget, InputBuffer

booksVars == <<windowVars, vars, inputVars>>

BooksInit == WindowInit /\ Init /\ InputInit

BooksNext ==
    \/ WindowNext /\ Init /\ InputInit /\ UNCHANGED <<vars, inputVars>>
    \/ Next /\ WindowInit /\ InputInit /\ UNCHANGED <<windowVars, inputVars>>
    \/ InputNext /\ WindowInit /\ Init /\ UNCHANGED <<windowVars, vars>>

BooksSpec == BooksInit /\ [][BooksNext]_booksVars
=============================================================================
