-------------------------- MODULE DeliveryContract --------------------------
(***************************************************************************)
(* What the durable delivery list promises about messages to the model,    *)
(* whatever crashes and whatever fails to be saved: a message is accepted  *)
(* by the host at most once, and a message whose cancellation has been     *)
(* saved and acknowledged is never accepted.                               *)
(***************************************************************************)
EXTENDS Naturals

CONSTANT Deliveries

VARIABLES accepted,    \* how often the host accepted each message
          withdrawn    \* messages whose drop was saved and reported

Init == /\ accepted = [d \in Deliveries |-> 0]
        /\ withdrawn = {}

Accept(d) ==
  /\ accepted[d] = 0 /\ d \notin withdrawn
  /\ accepted' = [accepted EXCEPT ![d] = 1]
  /\ UNCHANGED withdrawn

Withdraw(D) ==
  /\ \A d \in D : accepted[d] = 0
  /\ withdrawn' = withdrawn \cup D
  /\ UNCHANGED accepted

Next == \/ \E d \in Deliveries : Accept(d)
        \/ \E D \in SUBSET Deliveries : Withdraw(D)

Spec == Init /\ [][Next]_<<accepted, withdrawn>>
=============================================================================
