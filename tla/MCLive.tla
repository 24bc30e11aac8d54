-------------------------------- MODULE MCLive --------------------------------
(***************************************************************************)
(* Five parts that must make progress, side by side: the bridge to the     *)
(* gateway, the rotation of the keys, the night shift, and the run loop    *)
(* and the session lock of the gateway.  They share no state, and a        *)
(* behaviour is one of a single part, under the fairness of that part.     *)
(***************************************************************************)
EXTENDS GatewayBridge, MCKeys, NightOwl, GatewayLoop, MCLock

CONSTANTS a, b, main, cron

VARIABLE part

TwoCalls == {a, b}
AmendedClientIds == GATEWAY_CLIENT_IDS \cup {ClientId}
TwoLanes == {main, cron}

liveVars == <<part, vars, keyVars, owlVars, gatewayVars, lockVars>>

LiveInit ==
  /\ part \in {"bridge", "keys", "owl", "gateway", "lock"}
  /\ Init /\ KeyInit /\ OwlInit /\ GatewayInit /\ LockInit
  /\ part # "keys" => file = NoSettings /\ env = NoSettings
  /\ part # "owl" => present = {} /\ idle
  /\ part # "lock" => procfs

LiveNext ==
  /\ part' = part
  /\ \/ part = "bridge" /\ Next /\ UNCHANGED <<keyVars, owlVars, gatewayVars, lockVars>>
     \/ part = "keys" /\ KeyNext /\ UNCHANGED <<vars, owlVars, gatewayVars, lockVars>>
     \/ part = "owl" /\ OwlNext /\ UNCHANGED <<vars, keyVars, gatewayVars, lockVars>>
     \/ part = "gateway" /\ GatewayNext /\ UNCHANGED <<vars, keyVars, owlVars, lockVars>>
     \/ part = "lock" /\ LockNext /\ UNCHANGED <<vars, keyVars, owlVars, gatewayVars>>

\* The fairness of each part, for the behaviours that are its own.
LiveFairness ==
  /\ SF_vars(part = "bridge" /\ Reconnect /\ socket' = "connecting")
  /\ WF_vars(part = "bridge" /\ ChallengeReceived)
  /\ WF_vars(part = "bridge" /\ Closed)
  /\ WF_vars(part = "bridge" /\ Accepted)
  /\ WF_vars(part = "bridge" /\ \E auth \in BOOLEAN : HandshakeAnswered(auth))
  /\ SF_vars(part = "bridge" /\ HandshakeAnswered(TRUE))
  /\ \A m \in Frames : WF_vars(part = "bridge" /\ ResponseReceived(m))
  /\ \A c \in Calls : /\ WF_vars(part = "bridge" /\ (WaitOver(c) \/ WaitExpired(c)))
                      /\ WF_vars(part = "bridge" /\ CallTimeout(c))
  /\ WF_keyVars(part = "keys" /\ HealRateLimit)
  /\ WF_owlVars(part = "owl" /\ OnPoll)
  /\ WF_owlVars(part = "owl" /\ CooldownOver)
  /\ WF_owlVars(part = "owl" /\ Lists)
  /\ WF_owlVars(part = "owl" /\ Stats)
  /\ WF_owlVars(part = "owl" /\ Ends)
  /\ WF_gatewayVars(part = "gateway" /\ HandlerGoesOn)
  /\ \A t \in LockTasks :
       WF_lockVars(part = "lock" /\ (WriteLock(t) \/ HoldLock(t) \/ RemoveLock(t)))
  /\ \A p \in LockProcs :
       WF_lockVars(part = "lock" /\ (WatchdogReleases(p) \/ WatchdogRemoves(p)))

LiveSpec == LiveInit /\ [][LiveNext]_liveVars /\ LiveFairness

\* EventuallyConnected, of the behaviours that are the bridge's: once the gateway
\* stays up and takes the credentials, the bridge is connected.
BridgeConnects == part = "bridge" => EventuallyConnected

\* The type invariants of the parts.
LiveTypeOK == TypeOK /\ KeyTypeOK /\ OwlTypeOK /\ QueueTypeOK /\ LockTypeOK
=============================================================================
