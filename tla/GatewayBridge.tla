---------------------------- MODULE GatewayBridge ----------------------------
(***************************************************************************)
(* The WebSocket bridge to the local gateway daemon: one connection at a   *)
(* time, a challenge-response handshake that travels in the same map of    *)
(* pending requests as the calls, and a reconnect timer.  Calls are made   *)
(* by the /api/gateway routes, concurrently.  The gateway is another       *)
(* process: it may refuse, crash, answer in any order or not at all;       *)
(* within one connection frames are not duplicated.  Which handshakes it   *)
(* accepts and what its answers look like is taken from its source.        *)
(***************************************************************************)
EXTENDS Naturals, FiniteSets

CONSTANTS Calls,       \* the invocations of call()
          Handshake,   \* the id of the handshake request of a connection
          ClientIds,   \* the client ids of the gateway's protocol
          MaxDrops     \* bound: how often the gateway drops the connection

ASSUME BridgeAssumption ==
  /\ Handshake \notin Calls
  /\ MaxDrops \in Nat

VARIABLES
  socket,          \* the WebSocket: "none", "connecting", "open", "closing"
  reconnectTimer,  \* a reconnect is scheduled
  connected,       \* the bridge's flag
  ws,              \* this.ws is set (to the current socket)
  pending,         \* ids in the map of pending requests
  call,            \* where an invocation of call() stands
  requests,        \* ids of the frames on their way to the gateway
  responses,       \* frames on their way back
  challenge,       \* a connect.challenge frame is on its way
  drops

bridge  == <<socket, reconnectTimer, connected, ws>>
network == <<requests, responses, challenge>>
vars    == <<bridge, pending, call, network, drops>>

RequestIds == Calls \cup {Handshake}
Settled == {"result", "undefined", "error", "timeout", "offline"}

\* The client ids that the gateway of this repository admits.
GATEWAY_CLIENT_IDS ==
  { "webchat-ui", "must-b-control-ui", "webchat", "cli", "gateway-client",
    "must-b-macos", "must-b-ios", "must-b-android", "node-host", "test",
    "fingerprint", "must-b-probe" }

\* The id that the bridge presents.
ClientId == "mustb-bridge"

\* A response frame of the gateway: a payload, or an error.
Frame(i, ok) == IF ok THEN [id |-> i, payload |-> "ok"] ELSE [id |-> i, error |-> "no"]
Frames == { Frame(i, ok) : i \in RequestIds, ok \in BOOLEAN }

TypeOK ==
  /\ socket \in {"none", "connecting", "open", "closing"}
  /\ reconnectTimer \in BOOLEAN
  /\ connected \in BOOLEAN
  /\ ws \in BOOLEAN
  /\ pending \subseteq RequestIds
  /\ call \in [Calls -> {"new", "waiting", "sent"} \cup Settled]
  /\ requests \subseteq RequestIds
  /\ responses \subseteq Frames
  /\ challenge \in BOOLEAN
  /\ drops \in 0..MaxDrops

\* The constructor calls connect(), where the WebSocket constructor may throw.
Init ==
  /\ \/ socket = "connecting" /\ reconnectTimer = FALSE
     \/ socket = "none" /\ reconnectTimer = TRUE
  /\ connected = FALSE
  /\ ws = FALSE
  /\ pending = {}
  /\ call = [c \in Calls |-> "new"]
  /\ requests = {}
  /\ responses = {}
  /\ challenge = FALSE
  /\ drops = 0

-----------------------------------------------------------------------------
(* The connection *)

\* A variant with a bug: the timer is not reset.
ReconnectKeepsTimer ==
  /\ reconnectTimer
  /\ socket' = "connecting"
  /\ UNCHANGED <<reconnectTimer, connected, ws, pending, call, network, drops>>

\* connect(), from the reconnect timer; the WebSocket constructor may throw.
Reconnect ==
  /\ reconnectTimer
  /\ \/ socket' = "connecting" /\ reconnectTimer' = FALSE
     \/ reconnectTimer' = TRUE /\ UNCHANGED socket
  /\ UNCHANGED <<connected, ws, pending, call, network, drops>>

\* ws.on('message') with event connect.challenge.
ChallengeReceived ==
  /\ socket = "open"
  /\ challenge
  /\ challenge' = FALSE
  /\ pending' = pending \cup {Handshake}
  /\ requests' = requests \cup {Handshake}
  /\ UNCHANGED <<bridge, call, responses, drops>>

\* What resolve(msg['result']) or reject makes of a call.
OutcomeOf(m) ==
  CASE "error" \in DOMAIN m -> "error"
    [] "error" \notin DOMAIN m /\ "result" \in DOMAIN m -> "result"
    [] OTHER -> "undefined"

\* ws.on('message') with a response frame: the entry leaves the map and its
\* resolve or reject runs; a frame without an entry is ignored.
ResponseReceived(m) ==
  /\ socket = "open"
  /\ m \in responses
  /\ responses' = responses \ {m}
  /\ pending' = pending \ {m.id}
  /\ \/ /\ m.id \notin pending
        /\ UNCHANGED <<socket, connected, ws, call>>
     \/ /\ m.id = Handshake /\ m.id \in pending /\ OutcomeOf(m) # "error"
        /\ connected' = TRUE /\ ws' = TRUE
        /\ UNCHANGED <<socket, call>>
     \/ /\ m.id = Handshake /\ m.id \in pending /\ OutcomeOf(m) = "error"
        /\ socket' = "closing"
        /\ UNCHANGED <<connected, ws, call>>
     \/ /\ m.id \in Calls \cap pending
        /\ call' = [call EXCEPT ![m.id] = OutcomeOf(m)]
        /\ UNCHANGED <<socket, connected, ws>>
  /\ UNCHANGED <<reconnectTimer, requests, challenge, drops>>

\* Variants with a bug: no reconnect is scheduled; the pending requests are
\* dropped but not rejected.
ClosedForGood ==
  /\ socket = "closing"
  /\ socket' = "none"
  /\ connected' = FALSE
  /\ ws' = FALSE
  /\ call' = [c \in Calls |-> IF c \in pending THEN "offline" ELSE call[c]]
  /\ pending' = {}
  /\ requests' = {} /\ responses' = {} /\ challenge' = FALSE
  /\ UNCHANGED <<reconnectTimer, drops>>

ClosedInSilence ==
  /\ socket = "closing"
  /\ socket' = "none"
  /\ connected' = FALSE
  /\ ws' = FALSE
  /\ pending' = {}
  /\ reconnectTimer' = TRUE
  /\ requests' = {} /\ responses' = {} /\ challenge' = FALSE
  /\ UNCHANGED <<call, drops>>

\* ws.on('close'): every pending request is rejected, the handshake's too, and
\* a reconnect is scheduled unless one is.
Closed ==
  /\ socket = "closing"
  /\ socket' = "none"
  /\ connected' = FALSE
  /\ ws' = FALSE
  /\ call' = [c \in Calls |-> IF c \in pending THEN "offline" ELSE call[c]]
  /\ pending' = {}
  /\ reconnectTimer' = TRUE
  /\ requests' = {} /\ responses' = {} /\ challenge' = FALSE
  /\ UNCHANGED drops

-----------------------------------------------------------------------------
(* call(method, params) *)

\* From the check of this.connected to the end of the executor: the request is
\* in the map and on its way.
Send(c) ==
  /\ call' = [call EXCEPT ![c] = "sent"]
  /\ pending' = pending \cup {c}
  /\ requests' = IF socket = "open" THEN requests \cup {c} ELSE requests

CallIssued(c) ==
  /\ call[c] = "new"
  /\ \/ connected /\ ws /\ Send(c)
     \/ /\ ~connected
        /\ call' = [call EXCEPT ![c] = "waiting"]
        /\ UNCHANGED <<pending, requests>>
  /\ UNCHANGED <<bridge, responses, challenge, drops>>

\* A tick of the 100 ms poll finds the bridge connected.
WaitOver(c) ==
  /\ call[c] = "waiting"
  /\ connected
  /\ ws
  /\ Send(c)
  /\ UNCHANGED <<bridge, responses, challenge, drops>>

\* A tick after 2 s finds it still offline.
WaitExpired(c) ==
  /\ call[c] = "waiting"
  /\ ~connected
  /\ call' = [call EXCEPT ![c] = "offline"]
  /\ UNCHANGED <<bridge, pending, network, drops>>

\* The 10 s timer; it is never cleared, so it may find the entry gone.
CallTimeout(c) ==
  /\ call[c] = "sent"
  /\ c \in pending
  /\ pending' = pending \ {c}
  /\ call' = [call EXCEPT ![c] = "timeout"]
  /\ UNCHANGED <<bridge, network, drops>>

-----------------------------------------------------------------------------
(* The gateway and the network *)

\* The connection is accepted and the gateway sends its challenge.
Accepted ==
  /\ socket = "connecting"
  /\ socket' = "open"
  /\ challenge' = TRUE
  /\ UNCHANGED <<reconnectTimer, connected, ws, pending, call, requests, responses, drops>>

\* The connect request is answered: with an error if its parameters do not
\* conform to the protocol, or if the token or password is wrong.
HandshakeAnswered(auth) ==
  /\ Handshake \in requests
  /\ requests' = requests \ {Handshake}
  /\ responses' = responses \cup {Frame(Handshake, auth /\ ClientId \in ClientIds)}
  /\ UNCHANGED <<bridge, pending, call, challenge, drops>>

\* A request is answered, or its handler never responds.
Answered(c) ==
  /\ c \in requests
  /\ requests' = requests \ {c}
  /\ \/ \E ok \in BOOLEAN : responses' = responses \cup {Frame(c, ok)}
     \/ UNCHANGED responses
  /\ UNCHANGED <<bridge, pending, call, challenge, drops>>

\* Connection refused, handshake timeout of the gateway, gateway gone, network
\* error.
Dropped ==
  /\ socket \in {"connecting", "open"}
  /\ drops < MaxDrops
  /\ drops' = drops + 1
  /\ socket' = "closing"
  /\ UNCHANGED <<reconnectTimer, connected, ws, pending, call, network>>

-----------------------------------------------------------------------------
Next ==
  \/ Reconnect \/ ChallengeReceived \/ Closed
  \/ Accepted \/ Dropped
  \/ \E auth \in BOOLEAN : HandshakeAnswered(auth)
  \/ \E m \in Frames : ResponseReceived(m)
  \/ \E c \in Calls : \/ CallIssued(c) \/ WaitOver(c) \/ WaitExpired(c)
                       \/ CallTimeout(c) \/ Answered(c)

\* Timers fire, frames of an open connection are delivered, a closed socket is
\* reported.  The gateway answers a handshake (or its handshake timer closes the
\* connection), and it does not reject the credentials for ever; it owes no
\* answer to a call.
Fairness ==
  /\ SF_vars(Reconnect /\ socket' = "connecting")
  /\ WF_vars(ChallengeReceived) /\ WF_vars(Closed) /\ WF_vars(Accepted)
  /\ WF_vars(\E auth \in BOOLEAN : HandshakeAnswered(auth))
  /\ SF_vars(HandshakeAnswered(TRUE))
  /\ \A m \in Frames : WF_vars(ResponseReceived(m))
  /\ \A c \in Calls : /\ WF_vars(WaitOver(c) \/ WaitExpired(c))
                      /\ WF_vars(CallTimeout(c))

Spec == Init /\ [][Next]_vars /\ Fairness

-----------------------------------------------------------------------------
(* Properties *)

\* A call is in the map of pending requests exactly while it waits for its
\* answer, so its promise is settled once and no entry is leaked; and there are
\* only entries of the current connection (gateway-bridge.ts:86-107, 137-152).
PendingExact ==
  /\ \A c \in Calls : c \in pending <=> call[c] = "sent"
  /\ socket \in {"none", "connecting"} => pending = {}

\* The flag and the socket of the bridge go together, and the bridge counts as
\* connected only on a socket that passed the handshake and was not reported
\* closed.
ConnectedMeansOpen ==
  /\ connected = ws
  /\ connected => socket \in {"open", "closing"} /\ Handshake \notin pending

\* The bridge never runs two connections: a reconnect is scheduled exactly when
\* there is no socket (gateway-bridge.ts:41-43, 101-121).
OneConnection == reconnectTimer <=> socket = "none"

\* What arrives is an answer to what was asked on this connection: nothing of an
\* earlier connection can settle a call.
NoStaleFrames ==
  /\ \A c \in Calls : c \in requests \/ (\E m \in responses : m.id = c) =>
       connected /\ call[c] \notin {"new", "waiting"}
  /\ socket = "none" => requests = {} /\ responses = {}

\* The map of pending requests, the flag, the socket, the reconnect timer and what
\* is on its way tell the same story at every await of the bridge.
BridgeConsistent == PendingExact /\ ConnectedMeansOpen /\ OneConnection /\ NoStaleFrames

\* The bridge recovers by itself: once the gateway stays up and takes the
\* credentials, the bridge is connected (gateway-bridge.ts:4-6,
\* "a single persistent WebSocket connection to the local Must-b gateway daemon").
EventuallyConnected == []<>connected

\* A call that succeeds hands its caller what the gateway answered with
\* (gateway-bridge.ts:86, "Response frame").
PayloadDelivered == \A c \in Calls : call[c] # "undefined"

\* What the caller of a call has of it.
Progress(c) ==
  CASE call[c] = "new" -> "none"
    [] call[c] \in {"waiting", "sent"} -> "open"
    [] call[c] \in {"result", "undefined"} -> "resolved"
    [] OTHER -> call[c]

\* The bridge implements RpcClient: every call is settled, once, whatever the
\* gateway does.
Rpc == INSTANCE RpcClient WITH outcome <- [c \in Calls |-> Progress(c)]

ImplementsRpc == Rpc!Spec
=============================================================================
