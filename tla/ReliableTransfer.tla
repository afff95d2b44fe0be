--------------------------- MODULE ReliableTransfer ---------------------------
(* What the outbox of a device promises: the service takes a revision only after *)
(* the fact it cites, the device settles a fact only when the service has it,   *)
(* and what is settled or persisted stays so.                                  *)
CONSTANTS Items, Cited(_)    \* Cited(i): the items i refers to

VARIABLES
    recorded,   \* items committed on the device
    persisted,  \* items the service has
    delivered,  \* items the device knows the service has
    settled     \* items the device will not send again

TransferInit == recorded = {} /\ persisted = {} /\ delivered = {} /\ settled = {}

Record(i) ==
    /\ i \in Items \ recorded
    /\ Cited(i) \subseteq recorded
    /\ recorded' = recorded \cup {i}
    /\ UNCHANGED <<persisted, delivered, settled>>

(* The service commits a batch.                                                *)
Persist(S) ==
    /\ S \subseteq recorded
    /\ \A i \in S : Cited(i) \subseteq persisted
    /\ persisted' = persisted \cup S
    /\ UNCHANGED <<recorded, delivered, settled>>

(* The device confirms items it has not settled.                               *)
Confirm(S) ==
    /\ S \subseteq persisted \ settled
    /\ delivered' = delivered \cup S
    /\ settled' = settled \cup S
    /\ UNCHANGED <<recorded, persisted>>

(* A revision may be given up, even one that had been confirmed; a fact may not. *)
GiveUp(i) ==
    /\ i \in recorded /\ Cited(i) # {}
    /\ delivered' = delivered \ {i}
    /\ settled' = settled \cup {i}
    /\ UNCHANGED <<recorded, persisted>>

TransferNext ==
    \/ \E i \in Items : Record(i) \/ GiveUp(i)
    \/ \E S \in SUBSET Items : Persist(S) \/ Confirm(S)

TransferSpec == TransferInit /\ [][TransferNext]_<<recorded, persisted, delivered, settled>>
===============================================================================
