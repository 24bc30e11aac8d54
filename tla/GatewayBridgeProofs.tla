-------------------------- MODULE GatewayBridgeProofs --------------------------
(***************************************************************************)
(* For any set of calls and any number of drops: the bridge's pictures of  *)
(* its connection agree, and it refines RpcClient.  The argument follows   *)
(* the handshake of the connection, which is at one place at a time: the   *)
(* challenge on its way, the request in the map, or passed.                *)
(***************************************************************************)
EXTENDS GatewayBridge, TLAPS

\* Before the socket is open nothing is in the map or on its way.
Quiet ==
  socket \in {"none", "connecting"} =>
    pending = {} /\ requests = {} /\ responses = {} /\ ~challenge

\* The challenge comes first, and the handshake's entry leaves the map before
\* the bridge counts as connected.
HandshakeOrder ==
  /\ challenge => ~connected /\ Handshake \notin pending
  /\ Handshake \in pending => ~connected

\* A request of a call is only sent, and only answered, on a connected bridge.
CallsConnected ==
  \A c \in Calls :
    /\ c \in pending => connected
    /\ c \in requests \/ (\E m \in responses : m.id = c) =>
         connected /\ call[c] \notin {"new", "waiting"}

IInv ==
  /\ TypeOK /\ Quiet /\ HandshakeOrder /\ CallsConnected
  /\ PendingExact /\ ConnectedMeansOpen /\ OneConnection

-----------------------------------------------------------------------------
\* Every frame is about a request, with an outcome that settles it.
LEMMA FrameFacts ==
  ASSUME NEW i \in RequestIds, NEW ok \in BOOLEAN
  PROVE  Frame(i, ok) \in Frames /\ Frame(i, ok).id = i
BY DEF Frames, Frame

LEMMA FramesHaveIds == \A m \in Frames : m.id \in RequestIds
BY DEF Frames, Frame

LEMMA OutcomesSettle == \A m : OutcomeOf(m) \in {"result", "undefined", "error"}
BY DEF OutcomeOf

LEMMA TypeInit == Init => TypeOK
<1> SUFFICES ASSUME Init PROVE TypeOK
  OBVIOUS
<1>1. /\ reconnectTimer \in BOOLEAN /\ connected \in BOOLEAN
      /\ ws \in BOOLEAN /\ challenge \in BOOLEAN
  BY Zenon DEF Init
<1>2. drops \in 0..MaxDrops
  BY BridgeAssumption DEF Init
<1>3. QED
  BY <1>1, <1>2 DEF Init, TypeOK

LEMMA TypeStep == TypeOK /\ [Next]_vars => TypeOK'
<1> SUFFICES ASSUME TypeOK, [Next]_vars PROVE TypeOK'
  OBVIOUS
<1> USE BridgeAssumption DEF TypeOK, bridge, network, RequestIds
<1>1. CASE Reconnect
  BY <1>1 DEF Reconnect
<1>2. CASE ChallengeReceived
  BY <1>2 DEF ChallengeReceived
<1>3. CASE Closed
  BY <1>3 DEF Closed, Settled
<1>4. CASE Accepted
  BY <1>4 DEF Accepted
<1>5. CASE Dropped
  BY <1>5 DEF Dropped
<1>6. ASSUME NEW auth \in BOOLEAN, HandshakeAnswered(auth) PROVE TypeOK'
  BY <1>6, FrameFacts DEF HandshakeAnswered
<1>7. ASSUME NEW m \in Frames, ResponseReceived(m) PROVE TypeOK'
  <2>1. call' \in [Calls -> {"new", "waiting", "sent"} \cup Settled]
    BY <1>7, OutcomesSettle DEF ResponseReceived, Settled
  <2>2. QED
    BY <1>7, <2>1 DEF ResponseReceived
<1>8. ASSUME NEW c \in Calls, CallIssued(c) PROVE TypeOK'
  BY <1>8 DEF CallIssued, Send
<1>9. ASSUME NEW c \in Calls, WaitOver(c) PROVE TypeOK'
  BY <1>9 DEF WaitOver, Send
<1>10. ASSUME NEW c \in Calls, WaitExpired(c) PROVE TypeOK'
  BY <1>10 DEF WaitExpired, Settled
<1>11. ASSUME NEW c \in Calls, CallTimeout(c) PROVE TypeOK'
  BY <1>11 DEF CallTimeout, Settled
<1>12. ASSUME NEW c \in Calls, Answered(c) PROVE TypeOK'
  BY <1>12, FrameFacts DEF Answered
<1>13. CASE UNCHANGED vars
  BY <1>13 DEF vars
<1>14. QED
  BY <1>1, <1>2, <1>3, <1>4, <1>5, <1>6, <1>7, <1>8, <1>9, <1>10, <1>11, <1>12, <1>13 DEF Next

\* Type correctness of the bridge, its calls and the network (gateway-bridge.ts).
THEOREM BridgeTyped == Spec => []TypeOK
BY TypeInit, TypeStep, PTL DEF Spec

-----------------------------------------------------------------------------
LEMMA InvInit == Init => IInv
<1> SUFFICES ASSUME Init PROVE IInv
  OBVIOUS
<1>1. TypeOK
  BY TypeInit
<1>2. QED
  BY <1>1 DEF Init, IInv, Quiet, HandshakeOrder, CallsConnected, PendingExact,
              ConnectedMeansOpen, OneConnection

LEMMA InvStep == IInv /\ [Next]_vars => IInv'
<1> SUFFICES ASSUME IInv, [Next]_vars PROVE IInv'
  OBVIOUS
<1>0. TypeOK /\ TypeOK'
  BY TypeStep DEF IInv
<1> USE <1>0, BridgeAssumption
    DEF IInv, Quiet, HandshakeOrder, CallsConnected, PendingExact, ConnectedMeansOpen,
        OneConnection, bridge, network
<1>1. CASE Reconnect
  BY <1>1 DEF Reconnect
<1>2. CASE ChallengeReceived
  BY <1>2 DEF ChallengeReceived
<1>3. CASE Closed
  BY <1>3 DEF Closed, TypeOK
<1>4. CASE Accepted
  BY <1>4 DEF Accepted
<1>5. CASE Dropped
  BY <1>5 DEF Dropped
<1>6. ASSUME NEW auth \in BOOLEAN, HandshakeAnswered(auth) PROVE IInv'
  BY <1>6, FrameFacts DEF HandshakeAnswered, RequestIds, TypeOK
<1>7. ASSUME NEW m \in Frames, ResponseReceived(m) PROVE IInv'
  BY <1>7, OutcomesSettle, FramesHaveIds DEF ResponseReceived, RequestIds, TypeOK
<1>8. ASSUME NEW c \in Calls, CallIssued(c) PROVE IInv'
  BY <1>8 DEF CallIssued, Send, TypeOK
<1>9. ASSUME NEW c \in Calls, WaitOver(c) PROVE IInv'
  BY <1>9 DEF WaitOver, Send, TypeOK
<1>10. ASSUME NEW c \in Calls, WaitExpired(c) PROVE IInv'
  BY <1>10 DEF WaitExpired, TypeOK
<1>11. ASSUME NEW c \in Calls, CallTimeout(c) PROVE IInv'
  BY <1>11 DEF CallTimeout, TypeOK
<1>12. ASSUME NEW c \in Calls, Answered(c) PROVE IInv'
  BY <1>12, FrameFacts DEF Answered, RequestIds, TypeOK
<1>13. CASE UNCHANGED vars
  BY <1>13 DEF vars
<1>14. QED
  BY <1>1, <1>2, <1>3, <1>4, <1>5, <1>6, <1>7, <1>8, <1>9, <1>10, <1>11, <1>12, <1>13 DEF Next

\* The map of pending requests, the flag, the socket, the timer and what is on
\* its way agree, for any calls and drops (gateway-bridge.ts:86-121).
THEOREM BridgeAgrees == Spec => []BridgeConsistent
<1>1. IInv => BridgeConsistent
  BY DEF IInv, BridgeConsistent, NoStaleFrames, Quiet, CallsConnected
<1>2. QED
  BY <1>1, InvInit, InvStep, PTL DEF Spec

-----------------------------------------------------------------------------
\* What one step tells the callers: nothing, one settlement, one more issue, or
\* the loss of everything that was pending.
LEMMA StepTold ==
  ASSUME IInv, [Next]_vars
  PROVE  \/ \A c \in Calls : Progress(c)' = Progress(c)
         \/ \E c \in Calls :
              /\ \/ Progress(c) = "none" /\ Progress(c)' = "open"
                 \/ Progress(c) = "open" /\ Progress(c)' \in Rpc!Outcomes
              /\ \A d \in Calls \ {c} : Progress(d)' = Progress(d)
         \/ \A c \in Calls :
              IF c \in pending
              THEN Progress(c) = "open" /\ Progress(c)' = "offline"
              ELSE Progress(c)' = Progress(c)
<1> DEFINE Told ==
      \/ \A c \in Calls : Progress(c)' = Progress(c)
      \/ \E c \in Calls :
           /\ \/ Progress(c) = "none" /\ Progress(c)' = "open"
              \/ Progress(c) = "open" /\ Progress(c)' \in Rpc!Outcomes
           /\ \A d \in Calls \ {c} : Progress(d)' = Progress(d)
      \/ \A c \in Calls :
           IF c \in pending
           THEN Progress(c) = "open" /\ Progress(c)' = "offline"
           ELSE Progress(c)' = Progress(c)
<1>0. TypeOK /\ PendingExact
  BY DEF IInv
<1> USE DEF Rpc!Outcomes
<1>1. ASSUME call' = call PROVE Told
  BY <1>1 DEF Progress
<1>2. CASE Closed
  <2>1. \A c \in Calls : call'[c] = IF c \in pending THEN "offline" ELSE call[c]
    BY <1>2 DEF Closed
  <2>2. \A c \in Calls : c \in pending => Progress(c) = "open" /\ Progress(c)' = "offline"
    BY <1>0, <2>1 DEF Progress, PendingExact
  <2>3. \A c \in Calls : c \notin pending => Progress(c)' = Progress(c)
    BY <2>1 DEF Progress
  <2>4. QED
    BY <2>2, <2>3
<1>3. ASSUME NEW c \in Calls, NEW to,
             call' = [call EXCEPT ![c] = to],
             \/ call[c] = "new" /\ to \in {"waiting", "sent"}
             \/ call[c] = "waiting" /\ to \in {"sent", "offline"}
             \/ call[c] = "sent" /\ to \in {"result", "undefined", "error", "timeout"}
      PROVE  Told
  <2>1. call'[c] = to /\ \A d \in Calls \ {c} : call'[d] = call[d]
    BY <1>0, <1>3 DEF TypeOK
  <2>2. \A d \in Calls \ {c} : Progress(d)' = Progress(d)
    BY <2>1 DEF Progress
  <2>3. CASE call[c] = "waiting" /\ to = "sent"
    BY <2>1, <2>2, <2>3 DEF Progress
  <2>4. CASE ~(call[c] = "waiting" /\ to = "sent")
    <3>1. \/ Progress(c) = "none" /\ Progress(c)' = "open"
          \/ Progress(c) = "open" /\ Progress(c)' \in Rpc!Outcomes
      BY <1>3, <2>1, <2>4 DEF Progress
    <3>2. QED
      BY <2>2, <3>1
  <2>5. QED
    BY <2>3, <2>4
<1>4. ASSUME NEW m \in Frames, ResponseReceived(m) PROVE Told
  <2>1. CASE call' = call
    BY <1>1, <2>1
  <2>2. CASE m.id \in Calls /\ m.id \in pending /\ call' = [call EXCEPT ![m.id] = OutcomeOf(m)]
    <3>1. call[m.id] = "sent"
      BY <1>0, <2>2 DEF PendingExact
    <3>2. QED
      BY <1>3, <2>2, <3>1, OutcomesSettle
  <2>3. QED
    BY <1>4, <2>1, <2>2 DEF ResponseReceived
<1>5. ASSUME NEW c \in Calls,
             CallIssued(c) \/ WaitOver(c) \/ WaitExpired(c) \/ CallTimeout(c)
      PROVE  Told
  BY <1>3, <1>5 DEF CallIssued, WaitOver, WaitExpired, CallTimeout, Send
<1>6. CASE Reconnect \/ ChallengeReceived \/ Accepted \/ Dropped \/ UNCHANGED vars
  BY <1>1, <1>6 DEF Reconnect, ChallengeReceived, Accepted, Dropped, vars
<1>7. ASSUME NEW auth \in BOOLEAN, HandshakeAnswered(auth) PROVE Told
  BY <1>1, <1>7 DEF HandshakeAnswered
<1>8. ASSUME NEW c \in Calls, Answered(c) PROVE Told
  BY <1>1, <1>8 DEF Answered
<1>9. QED
  BY <1>2, <1>4, <1>5, <1>6, <1>7, <1>8 DEF Next

\* The bridge implements the safety part of RpcClient: whatever the gateway does,
\* a call is settled once and only after it was issued (gateway-bridge.ts:123-155).
THEOREM BridgeImplementsRpc == Spec => Rpc!SafeSpec
<1> DEFINE bar == [c \in Calls |-> Progress(c)]
<1>1. Init => Rpc!Init
  BY DEF Init, Rpc!Init, Progress
<1>2. IInv /\ [Next]_vars => [Rpc!Next]_bar
  <2> SUFFICES ASSUME IInv, [Next]_vars PROVE [Rpc!Next]_bar
    OBVIOUS
  <2>1. CASE \A c \in Calls : Progress(c)' = Progress(c)
    BY <2>1
  <2>2. ASSUME NEW c \in Calls,
               \A d \in Calls \ {c} : Progress(d)' = Progress(d),
               Progress(c) = "none" /\ Progress(c)' = "open"
        PROVE  Rpc!Issue(c)
    BY <2>2 DEF Rpc!Issue
  <2>3. ASSUME NEW c \in Calls,
               \A d \in Calls \ {c} : Progress(d)' = Progress(d),
               Progress(c) = "open" /\ Progress(c)' \in Rpc!Outcomes
        PROVE  Rpc!Settle(c)
    <3>1. bar' = [bar EXCEPT ![c] = Progress(c)']
      BY <2>3
    <3>2. QED
      BY <2>3, <3>1 DEF Rpc!Settle
  <2>4. ASSUME \A c \in Calls :
                 IF c \in pending
                 THEN Progress(c) = "open" /\ Progress(c)' = "offline"
                 ELSE Progress(c)' = Progress(c)
        PROVE  Rpc!Drop \/ bar' = bar
    <3> DEFINE S == { c \in Calls : c \in pending }
    <3>1. S \in SUBSET { c \in Calls : bar[c] = "open" }
      BY <2>4
    <3>2. bar' = [c \in Calls |-> IF c \in S THEN "offline" ELSE bar[c]]
      BY <2>4
    <3>3. CASE S = {}
      BY <3>2, <3>3
    <3>4. CASE S # {}
      BY <3>1, <3>2, <3>4 DEF Rpc!Drop
    <3>5. QED
      BY <3>3, <3>4
  <2>5. QED
    BY <2>1, <2>2, <2>3, <2>4, StepTold DEF Rpc!Next
<1>3. QED
  BY <1>1, <1>2, InvInit, InvStep, PTL DEF Spec, Rpc!SafeSpec

-----------------------------------------------------------------------------
\* A gateway that does not admit the bridge's client id, as the one of this
\* repository, is never connected to.
NoAdmission ==
  /\ ~connected
  /\ \A m \in responses : m.id = Handshake => OutcomeOf(m) = "error"

LEMMA RefusalIsError == OutcomeOf(Frame(Handshake, FALSE)) = "error"
BY DEF OutcomeOf, Frame

\* The handshake compares the id with the gateway's list, and nothing else makes
\* the bridge count as connected: whatever the credentials, the calls and the
\* reconnects, no call ever leaves the bridge (gateway-bridge.ts:50-84).
THEOREM UnknownNeverConnects ==
  ASSUME ClientId \notin ClientIds
  PROVE  Spec => [](~connected /\ \A c \in Calls : call[c] # "sent")
<1>1. Init => NoAdmission
  BY DEF Init, NoAdmission
<1>2. IInv /\ NoAdmission /\ [Next]_vars => NoAdmission'
  <2> SUFFICES ASSUME IInv, NoAdmission, [Next]_vars PROVE NoAdmission'
    OBVIOUS
  <2> USE DEF NoAdmission, bridge, network
  <2>1. CASE Reconnect \/ ChallengeReceived \/ Closed \/ Accepted \/ Dropped \/ UNCHANGED vars
    BY <2>1 DEF Reconnect, ChallengeReceived, Closed, Accepted, Dropped, vars
  <2>2. ASSUME NEW auth \in BOOLEAN, HandshakeAnswered(auth) PROVE NoAdmission'
    <3>1. responses' = responses \cup {Frame(Handshake, FALSE)}
      BY <2>2 DEF HandshakeAnswered
    <3>2. QED
      BY <2>2, <3>1, RefusalIsError DEF HandshakeAnswered
  <2>3. ASSUME NEW m \in Frames, ResponseReceived(m) PROVE NoAdmission'
    BY <2>3 DEF ResponseReceived
  <2>4. ASSUME NEW c \in Calls, Answered(c) PROVE NoAdmission'
    BY <2>4, FrameFacts, BridgeAssumption DEF Answered, RequestIds
  <2>5. ASSUME NEW c \in Calls,
               CallIssued(c) \/ WaitOver(c) \/ WaitExpired(c) \/ CallTimeout(c)
        PROVE  NoAdmission'
    BY <2>5 DEF CallIssued, WaitOver, WaitExpired, CallTimeout
  <2>6. QED
    BY <2>1, <2>2, <2>3, <2>4, <2>5 DEF Next
<1>3. IInv /\ NoAdmission => ~connected /\ \A c \in Calls : call[c] # "sent"
  BY DEF IInv, NoAdmission, CallsConnected, PendingExact
<1>4. QED
  BY <1>1, <1>2, <1>3, InvInit, InvStep, PTL DEF Spec
=============================================================================
