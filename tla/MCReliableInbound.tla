------------------------- MODULE MCReliableInbound -------------------------
(* An instance of ReliableInbound for TLC. *)
EXTENDS ReliableInbound

Scenario(unreliable, ordered, unordered, times, failures) ==
    [quota |-> [unreliable |-> unreliable, ordered |-> ordered, unordered |-> unordered],
     expiries |-> times, faults |-> failures]

(* Three ordered messages; two among unreliable traffic that moves the
   window; sessions that expire, with two ordered messages or with one of
   each reliable class; and two ordered messages with sends that fail. *)
MCScenarios ==
    {Scenario(0, 3, 0, 0, 0), Scenario(1, 2, 0, 0, 0), Scenario(0, 2, 0, 1, 0),
     Scenario(0, 1, 1, 1, 0), Scenario(0, 2, 0, 0, 2)}
=============================================================================
