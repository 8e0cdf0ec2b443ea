--------------------------- MODULE ReceiveWindow ---------------------------
(***************************************************************************)
(* One client's receive window in the UDP server: acceptClientRequest of   *)
(* network/udp.go, which decides for every decoded datagram whether it is  *)
(* handled or dropped and keeps the acknowledgement sent back.  Datagrams  *)
(* arrive in any order and any number of times, with any sequence number:  *)
(* the sender is not trusted to count from 1.                              *)
(***************************************************************************)
EXTENDS PacketWindow

VARIABLES ack,           \* client.ack (client.lastSeq is always the same)
          ackBits,       \* client.ackBits
          receivedSeqs,  \* client.receivedSeqs
          timesAccepted  \* history: how often each non-zero sequence was accepted

windowVars == <<ack, ackBits, receivedSeqs, timesAccepted>>

WindowTypeOK ==
    /\ ack \in Sequences
    /\ ackBits \in BitSets
    /\ receivedSeqs \subseteq Sequences
    /\ timesAccepted \in [Sequences \ {0} -> Nat]

(* getOrCreateClientLocked: a client that was never heard from. *)
WindowInit ==
    /\ ack = 0
    /\ ackBits = {}
    /\ receivedSeqs = {}
    /\ timesAccepted = [s \in Sequences \ {0} |-> 0]

(* Sequence 0 asks for no tracking: always handled, nothing recorded. *)
ReceiveUnsequenced(sequence) ==
    /\ sequence = 0
    /\ UNCHANGED windowVars

Drop(sequence) ==
    /\ sequence # 0
    /\ sequence \in receivedSeqs \/ TooOld(ack, sequence)
    /\ UNCHANGED windowVars

Accept(sequence) ==
    /\ sequence # 0
    /\ sequence \notin receivedSeqs
    /\ ~TooOld(ack, sequence)
    /\ LET newAck == Newest(ack, sequence)
           received == receivedSeqs \cup {sequence}
       IN  /\ ack' = newAck
           /\ ackBits' = AckBits(newAck, received)
           /\ receivedSeqs' = PruneReceived(newAck, received)
    /\ timesAccepted' = [timesAccepted EXCEPT ![sequence] = @ + 1]

WindowNext ==
    \E sequence \in Sequences :
        \/ ReceiveUnsequenced(sequence)
        \/ Drop(sequence)
        \/ Accept(sequence)

WindowSpec == WindowInit /\ [][WindowNext]_windowVars

-----------------------------------------------------------------------------
(* No datagram is handled twice: although the server forgets sequences, a
   sequence it has forgotten is too old to be taken again. *)
AcceptOnce == \A s \in Sequences \ {0} : timesAccepted[s] <= 1

(* ack and ack_bits name exactly the accepted sequences among ack and the
   Window sequences before it: no acknowledgement of a packet that was not
   handled, and none missing while the window still covers the packet. *)
AckExact ==
    \A s \in Sequences \ {0} :
        PacketSequenceAcked(ack, ackBits, s)
            <=> /\ timesAccepted[s] > 0
                /\ s + Window >= ack

(* The acknowledged sequence never goes back, and once the window has moved
   past a sequence nothing the client sends makes it acknowledged. *)
AckAdvances ==
    [][ /\ ack' >= ack
        /\ \A s \in Sequences \ {0} :
              s + Window < ack => timesAccepted'[s] = timesAccepted[s] ]_windowVars

-----------------------------------------------------------------------------
(* A receiver with unlimited memory; the window implements it. *)
Memory == INSTANCE ReceiveMemory
            WITH accepted <- {s \in Sequences \ {0} : timesAccepted[s] > 0},
                 newest <- ack

MemorySpec == Memory!Spec
=============================================================================
