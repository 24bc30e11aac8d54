-------------------------------- MODULE Outbox --------------------------------
(***************************************************************************)
(* What the writers of outbound messages are promised by the queue of the  *)
(* gateway.  A message that was written ahead is settled, which it only is *)
(* when the channel has taken every payload of it or its sender waived     *)
(* that, or it is parked, for somebody to look at; it is sent only before, *)
(* and it does not come back.  A message that was not written ahead is     *)
(* sent as it may be.  Nothing is promised for a message that a recovery   *)
(* has picked up while its own delivery, or another recovery, was at work  *)
(* on it.                                                                  *)
(***************************************************************************)
EXTENDS Naturals

CONSTANTS Deliveries, Payloads

VARIABLES
  status,  \* of each message
  sent,    \* how often the channel took each payload of it
  waived   \* the messages whose sender gave a failed payload up

Init ==
  /\ status = [d \in Deliveries |-> "new"]
  /\ sent = [d \in Deliveries |-> [p \in Payloads |-> 0]]
  /\ waived = {}

Turns(d, s) == status' = [status EXCEPT ![d] = s]

Accept(d) ==
  /\ status[d] = "new" /\ Turns(d, "queued")
  /\ UNCHANGED <<sent, waived>>

Send(d, p) ==
  /\ status[d] \in {"new", "queued", "contended"}
  /\ sent' = [sent EXCEPT ![d][p] = @ + 1]
  /\ UNCHANGED <<status, waived>>

Waive(d) ==
  /\ status[d] \in {"new", "queued", "contended"}
  /\ waived' = waived \cup {d}
  /\ UNCHANGED <<status, sent>>

Settle(d) ==
  /\ status[d] = "queued" /\ Turns(d, "settled")
  /\ d \in waived \/ \A p \in Payloads : sent[d][p] > 0
  /\ UNCHANGED <<sent, waived>>

Park(d) ==
  /\ status[d] = "queued" /\ Turns(d, "parked")
  /\ UNCHANGED <<sent, waived>>

Contend(S) ==
  /\ \A d \in S : status[d] = "queued"
  /\ status' = [d \in Deliveries |-> IF d \in S THEN "contended" ELSE status[d]]
  /\ UNCHANGED <<sent, waived>>

Next ==
  \/ \E d \in Deliveries :
       Accept(d) \/ Waive(d) \/ Settle(d) \/ Park(d) \/ \E p \in Payloads : Send(d, p)
  \/ \E S \in SUBSET Deliveries : Contend(S)

Spec == Init /\ [][Next]_<<status, sent, waived>>
=============================================================================
