--------------------------- MODULE OperationJournal ---------------------------
(***************************************************************************)
(* What the weighing system promises about an operation, with nothing of   *)
(* how it is transported: an operation performed on the scales reaches the *)
(* journal of the center, is acknowledged to the weighing PC only then,    *)
(* carries at most one AIS number, given once, and an "OK" answered to the *)
(* AIS names an operation that is already in the journal.                  *)
(***************************************************************************)
CONSTANTS Calls, Rec, Ref, RefOf, None

VARIABLES
  performed,   \* operations that took place (local journals of the PCs)
  journal,     \* journal of the center
  acked,       \* acknowledged to the PC: it will not send them again
  number,      \* AIS number -> operation
  told         \* call -> operation it was answered with

avars == <<performed, journal, acked, number, told>>

Init ==
  /\ performed = {} /\ journal = {} /\ acked = {}
  /\ number = [f \in Ref |-> None]
  /\ told = [c \in Calls |-> None]

Perform(r) ==
  /\ performed' = performed \cup {r}
  /\ UNCHANGED <<journal, acked, number, told>>

Unnumbered(r) == \A f \in Ref : number[f] # r

(* One transaction: the record and, if it has one and it is free, its number. *)
Deliver(r) ==
  /\ r \in performed \ journal
  /\ journal' = journal \cup {r}
  /\ \/ number' = number
     \/ /\ r \in Calls
        /\ number[RefOf[r]] = None
        /\ number' = [number EXCEPT ![RefOf[r]] = r]
  /\ UNCHANGED <<performed, acked, told>>

GiveNumber(r, f) ==
  /\ r \in journal
  /\ Unnumbered(r)
  /\ number[f] = None
  /\ number' = [number EXCEPT ![f] = r]
  /\ UNCHANGED <<performed, journal, acked, told>>

Acknowledge(R) ==
  /\ R \subseteq journal
  /\ acked' = acked \cup R
  /\ UNCHANGED <<performed, journal, number, told>>

(* The call that ran the operation and the repeats that waited for it, or  *)
(* a later repeat that found the number in the journal.                    *)
Answer(C, r) ==
  /\ r \in journal
  /\ \A c \in C : told[c] = None
  /\ \/ r \in C
     \/ \A c \in C : number[RefOf[c]] = r
  /\ told' = [c \in Calls |-> IF c \in C THEN r ELSE told[c]]
  /\ UNCHANGED <<performed, journal, acked, number>>

Next ==
  \/ \E r \in Rec : Perform(r) \/ Deliver(r)
  \/ \E r \in Rec, f \in Ref : GiveNumber(r, f)
  \/ \E R \in SUBSET Rec : Acknowledge(R)
  \/ \E C \in SUBSET Calls, r \in Rec : Answer(C, r)

Spec == Init /\ [][Next]_avars
===============================================================================
