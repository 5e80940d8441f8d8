----------------------------- MODULE SaleLedger -----------------------------
(***************************************************************************)
(* What the money side of a sale promises, whatever the pipeline's         *)
(* statuses do: only a delivered site is billed, a payment reference       *)
(* belongs to one customer, a bill is paid by money that came in under its *)
(* own reference, and a paid bill stays paid.                              *)
(***************************************************************************)
CONSTANTS Customer, Bill, Reference, Nobody, NoReference

VARIABLES
  delivered,  \* customers whose site is up
  owedBy,     \* who owes a bill, or Nobody: it was not written yet
  under,      \* the reference of a bill
  received,   \* references money came in under
  paid        \* bills that are paid

ledgerVars == <<delivered, owedBy, under, received, paid>>

Init ==
  /\ delivered = {} /\ received = {} /\ paid = {}
  /\ owedBy = [b \in Bill |-> Nobody]
  /\ under = [b \in Bill |-> NoReference]

Deliver(c) ==
  /\ delivered' = delivered \cup {c}
  /\ UNCHANGED <<owedBy, under, received, paid>>

Write(b, c, r) ==
  /\ c \in delivered
  /\ owedBy[b] = Nobody
  /\ \A o \in Bill : under[o] = r => owedBy[o] = c
  /\ owedBy' = [owedBy EXCEPT ![b] = c]
  /\ under' = [under EXCEPT ![b] = r]
  /\ UNCHANGED <<delivered, received, paid>>

Receive(r) ==
  /\ received' = received \cup {r}
  /\ UNCHANGED <<delivered, owedBy, under, paid>>

Settle(b) ==
  /\ owedBy[b] # Nobody /\ under[b] \in received
  /\ paid' = paid \cup {b}
  /\ UNCHANGED <<delivered, owedBy, under, received>>

Next ==
  \/ \E c \in Customer : Deliver(c) \/ \E b \in Bill, r \in Reference : Write(b, c, r)
  \/ \E r \in Reference : Receive(r)
  \/ \E b \in Bill : Settle(b)

Spec == Init /\ [][Next]_ledgerVars

=============================================================================
