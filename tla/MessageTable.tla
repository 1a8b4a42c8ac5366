---------------------------- MODULE MessageTable ----------------------------
(***************************************************************************)
(* The table of the messages of one chat, as the windows and exports that  *)
(* read it see it: rows are appended with the next seq, by which they are  *)
(* named, and deleted by a mark.  SendWindow and Paging extend it.         *)
(***************************************************************************)
EXTENDS Naturals

CONSTANTS
    MaxSeq,   \* bound: messages of the chat
    MaxFaults \* bound: requests or answers that are lost

ASSUME TableAssumption ==
    MaxSeq \in Nat /\ MaxFaults \in Nat

Msgs == 1..MaxSeq

VARIABLES
    posted,  \* Postgres: messages 1..posted are stored
    deleted, \* Postgres: messages with deleted_at
    faults   \* for the bound MaxFaults

Visible == (1..posted) \ deleted

Insert == posted < MaxSeq /\ posted' = posted + 1

Fault == faults < MaxFaults /\ faults' = faults + 1
=============================================================================
