----------------------------- MODULE BoundedChannel -----------------------------
(***************************************************************************)
(* What one direction of a relayed connection promises: messages are       *)
(* numbered as their source sends them, and the target receives 1, 2, 3,   *)
(* ... without a gap, a repetition or a change of order, until the channel *)
(* breaks; never more bytes than a limit wait in between.                  *)
(***************************************************************************)
EXTENDS Naturals

CONSTANT Limit

VARIABLES sent,     \* messages the source has sent
          received, \* number of the last message received
          waiting   \* bytes accepted and not handed to the target

chvars == <<sent, received, waiting>>

Bytes == 0..Limit

ChInit == sent = 0 /\ received = 0 /\ waiting = 0

Send ==
    /\ sent' = sent + 1
    /\ waiting' \in Bytes
    /\ UNCHANGED received

Receive ==
    /\ received < sent
    /\ received' = received + 1
    /\ waiting' \in Bytes
    /\ UNCHANGED sent

\* Messages are given up: the channel is breaking.
Drop ==
    /\ waiting' \in Bytes
    /\ waiting' < waiting
    /\ UNCHANGED <<sent, received>>

ChNext == Send \/ Receive \/ Drop

ChSpec == ChInit /\ [][ChNext]_chvars
=============================================================================
