---------------------------- MODULE PacketWindow ----------------------------
(***************************************************************************)
(* The packet-sequence window both peers of an Enserva connection keep:    *)
(* the newest sequence received, the recent ones, and the ack / ack_bits   *)
(* pair that tells the sender which of its packets arrived.                *)
(*                                                                         *)
(* ack_bits is a uint64 in the code; here it is the set of the positions   *)
(* of its one bits.  The code's width 64 is the constant Window.           *)
(***************************************************************************)
EXTENDS Naturals

CONSTANTS Window,    \* 64: bits in ack_bits, and sequences remembered
          SeqSpace   \* 2^64: sequence numbers are uint64

ASSUME WindowAssumption == Window \in Nat \ {0}
ASSUME SeqSpaceAssumption == SeqSpace \in Nat /\ SeqSpace > Window

Sequences == 0 .. SeqSpace - 1
BitSets == SUBSET (0 .. Window - 1)

(* Mutated: the last packet decides, however old it is. *)
MutNewestLatest(ack, sequence) == sequence

(* The acknowledged sequence after a packet arrived. *)
Newest(ack, sequence) == IF sequence > ack THEN sequence ELSE ack

(* Mutated: the loop runs one offset too far. *)
MutAckBitsOneMore(ack, received) ==
    {offset \in 0 .. Window : offset < ack /\ ack - offset - 1 \in received}

(* The loop over offsets stops at sequence 0, which is never received. *)
AckBits(ack, received) ==
    {offset \in 0 .. Window - 1 : offset < ack /\ ack - offset - 1 \in received}

(* Mutated: a sequence equal to ack - Window is forgotten too early. *)
MutPruneOffByOne(ack, received) ==
    IF ack <= Window THEN received ELSE {s \in received : s > ack - Window}

(* Sequences too old for ack_bits to name are forgotten. *)
PruneReceived(ack, received) ==
    IF ack <= Window THEN received ELSE {s \in received : s >= ack - Window}

(* Mutated: the guard on old sequences is missing. *)
MutTooOldNoGuard(ack, sequence) == FALSE

(* The server's test for a packet it can no longer tell from a duplicate;
   the uint64 addition wraps. *)
TooOld(ack, sequence) ==
    ack > 0 /\ (sequence + Window) % SeqSpace <= ack

(* Mutated: reads the bit of the next older sequence. *)
MutAckedBitShift(ack, ackBits, sequence) ==
    /\ sequence # 0
    /\ ack # 0
    /\ sequence = ack \/ (sequence < ack /\ ack - sequence \in ackBits)

(* What a sender reads from the ack and ack_bits of a packet of its peer. *)
PacketSequenceAcked(ack, ackBits, sequence) ==
    /\ sequence # 0
    /\ ack # 0
    /\ \/ sequence = ack
       \/ /\ sequence < ack
          /\ ack - sequence <= Window
          /\ ack - sequence - 1 \in ackBits
=============================================================================
