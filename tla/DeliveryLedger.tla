--------------------------- MODULE DeliveryLedger ---------------------------
(***************************************************************************)
(* What a buffered sink promises of each record, whatever it does inside.  *)
(*                                                                         *)
(* A record is refused at the door or accepted; an accepted one is pending *)
(* until it counts as delivered, which takes at least one arrival          *)
(* downstream, or as dropped.  A lossy ledger (telemetry) may drop at any  *)
(* time, one record at most to make room for a new one.  A lossless one    *)
(* (audit) drops nothing while it is open.  Arrivals may be repeated, and  *)
(* may come after the record was settled.                                  *)
(***************************************************************************)
EXTENDS Naturals

CONSTANTS
  Records,  \* the records
  Lossy     \* may the open ledger drop accepted records?

VARIABLES
  fate,      \* fate[r]: where record r stands
  received,  \* received[r]: arrivals of r downstream
  closed     \* has the ledger been closed?

ledgerVars == <<fate, received, closed>>

Fates   == {"new", "refused", "pending", "delivered", "dropped"}
Pending == {r \in Records : fate[r] = "pending"}

\* The fates once the records of S have moved to fate f.
Moved(S, f) == [r \in Records |-> IF r \in S THEN f ELSE fate[r]]

Init ==
  /\ fate = [r \in Records |-> "new"]
  /\ received = [r \in Records |-> 0]
  /\ closed = FALSE

Refuse(r) ==
  /\ fate[r] = "new"
  /\ fate' = Moved({r}, "refused")
  /\ UNCHANGED <<received, closed>>

\* Record r is accepted; D is the record pushed out to make room for it,
\* if there is one.
Accept(r, D) ==
  /\ ~ closed
  /\ fate[r] = "new"
  /\ D \subseteq Pending /\ \A c, d \in D : c = d
  /\ D # {} => Lossy
  /\ fate' = [x \in Records |-> IF x = r THEN "pending" ELSE Moved(D, "dropped")[x]]
  /\ UNCHANGED <<received, closed>>

Arrive(r) ==
  /\ fate[r] \notin {"new", "refused"}
  /\ received' = [received EXCEPT ![r] = @ + 1]
  /\ UNCHANGED <<fate, closed>>

Deliver(S) ==
  /\ S \subseteq Pending
  /\ \A r \in S : received[r] > 0
  /\ fate' = Moved(S, "delivered")
  /\ UNCHANGED <<received, closed>>

Drop(D) ==
  /\ Lossy \/ closed
  /\ D \subseteq Pending
  /\ fate' = Moved(D, "dropped")
  /\ UNCHANGED <<received, closed>>

CloseLedger ==
  /\ closed' = TRUE
  /\ UNCHANGED <<fate, received>>

Next ==
  \/ \E r \in Records : Refuse(r) \/ Arrive(r)
  \/ \E r \in Records, D \in SUBSET Records : Accept(r, D)
  \/ \E S \in SUBSET Records : Deliver(S) \/ Drop(S)
  \/ CloseLedger

Spec == Init /\ [][Next]_ledgerVars
=============================================================================
