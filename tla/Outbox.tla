------------------------------- MODULE Outbox -------------------------------
(***************************************************************************)
(* What the digest promises a reader, without runs, tables, watermarks or  *)
(* clocks: an outbox that is emptied by mail.  An item on the shelf is     *)
(* due until a mailing that carried it was acknowledged; a mailing may be  *)
(* repeated, and it is never acknowledged before everything due was in it. *)
(* Workflow implements it (Workflow!KeepsThePromise).                      *)
(***************************************************************************)
CONSTANT Item

VARIABLES
    shelf,    \* items on offer
    due,      \* those the next mailing has to carry
    settled,  \* items that were mailed, or written off
    opened    \* a mailing has been acknowledged

Init == shelf = {} /\ due = {} /\ settled = {} /\ opened = FALSE

(* Items come and go.  One that comes is due, unless it was settled        *)
(* before; one that stays is as due as it was.                             *)
Restock ==
    /\ shelf' \in SUBSET Item
    /\ due' \in SUBSET shelf'
    /\ shelf' \ settled \subseteq due'
    /\ due' \cap shelf = due \cap shelf'
    /\ UNCHANGED <<settled, opened>>

(* A mailing carries all that is due.                                      *)
Mail ==
    /\ settled' = settled \cup due
    /\ UNCHANGED <<shelf, due, opened>>

(* It is acknowledged.  What is not on the shelf by then is written off.   *)
Acknowledge ==
    /\ due \subseteq settled
    /\ due' = {} /\ opened' = TRUE
    /\ settled \subseteq settled' /\ settled' \cap shelf = settled \cap shelf
    /\ UNCHANGED shelf

(* Until the first mailing an item on the shelf may be written off: a new  *)
(* reader is not sent the whole past.                                      *)
WriteOff ==
    /\ ~opened
    /\ settled \subseteq settled' /\ settled' \subseteq settled \cup shelf
    /\ UNCHANGED <<shelf, due, opened>>

Next == Restock \/ Mail \/ Acknowledge \/ WriteOff

Spec == Init /\ [][Next]_<<shelf, due, settled, opened>>
=============================================================================
