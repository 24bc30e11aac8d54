------------------------------- MODULE MCParts --------------------------------
(***************************************************************************)
(* What must be kept, side by side: the settings and the two memories of   *)
(* the agent, and the write-ahead queue of the gateway.  They share no     *)
(* state and a behaviour is one of a single part.                          *)
(***************************************************************************)
EXTENDS MCKeys, VectorStore, ProfileMemory, DeliveryQueue

CONSTANTS t1, t2, m1, m2, page1, r1, r2

VARIABLE part

TwoTerms == {t1, t2}
TwoRecords == {m1, m2}
OnePage == {page1}
TwoRecoveries == {r1, r2}

\* Of two recoveries, r1 is the one that runs first.
PartsInit ==
  /\ part \in {"keys", "vectors", "memory", "delivery"}
  /\ KeyInit /\ Init /\ MemInit /\ DeliveryInit
  /\ part # "keys" => file = NoSettings /\ env = NoSettings
  /\ part # "delivery" => \A d \in Deliveries : kind[d] = "strict"
  /\ worker[r1].at = "load"

PartsNext ==
  /\ part' = part
  /\ \/ part = "keys" /\ KeyNext /\ UNCHANGED <<vars, memVars, deliveryVars>>
     \/ part = "vectors" /\ Next /\ UNCHANGED <<keyVars, memVars, deliveryVars>>
     \/ part = "memory" /\ MemNext /\ UNCHANGED <<keyVars, vars, deliveryVars>>
     \/ part = "delivery" /\ DeliveryNext /\ UNCHANGED <<keyVars, vars, memVars>>

PartsSpec == PartsInit /\ [][PartsNext]_<<part, keyVars, vars, memVars, deliveryVars>>

\* The type invariants of the parts.
PartsTypeOK ==
  /\ part = "keys" => KeyTypeOK
  /\ part = "vectors" => TypeOK
  /\ part = "memory" => MemTypeOK
  /\ part = "delivery" => DeliveryTypeOK
=============================================================================
