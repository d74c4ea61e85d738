---------------------------- MODULE BridgeClient ----------------------------
(***************************************************************************)
(* Requests of the extension over the native bridge                        *)
(* (extension/bridge-client.js, with ReplayWindow of bridge-protocol.js    *)
(* and the handlers of service-worker.js that replace, close and feed the  *)
(* client).                                                                *)
(*                                                                         *)
(* Every handler is cut where it waits for a signature to be made or       *)
(* checked.  An envelope that is malformed, expired or signed for another  *)
(* pairing is dropped without effect, which is the same as its not coming. *)
(***************************************************************************)
EXTENDS Integers, Sequences, FiniteSets, SequencesExt

CONSTANTS
    Requests,
    WindowLimit,                       \* keys the replay window holds
    MaxCancels, MaxArrivals,           \* bounds for TLC
    MaxClients, MaxPorts

ASSUME BridgeParameters ==
    /\ IsFiniteSet(Requests)
    /\ WindowLimit \in Nat \ {0}
    /\ MaxCancels \in Nat /\ MaxArrivals \in Nat /\ MaxClients \in Nat /\ MaxPorts \in Nat

VARIABLES
    nativePort,    \* the port in use, or Absent
    ports,         \* ports opened
    bridgeClient,  \* the client in use, or Absent
    made,          \* clients made, and the port of each
    closed,        \* clients that are disconnected
    request,       \* per request, its phase and its client
    cancelling,    \* requests whose cancel is being signed
    outcomes,      \* per request, what its promise was settled with
    asked,         \* what the host was sent: requests and cancels
    wire,          \* what the host has sent
    arrivals,      \* how many messages have arrived
    handlers,      \* handlers that wait for the signature to be checked
    replayWindow,  \* keys of remembered messages, the oldest first
    handled,       \* history: how often each message was handled
    overlapped,    \* history: messages of which two copies were checked at once
    evicted,       \* history: messages that left the window
    late           \* history: requests being signed when their client was closed

clientVars == <<nativePort, ports, bridgeClient, made, closed>>
hostVars == <<asked, wire>>
handlerVars == <<arrivals, handlers, replayWindow, handled, overlapped, evicted>>
bridgeVars == <<clientVars, request, cancelling, outcomes, hostVars, handlerVars, late>>

Absent == 0
AnswerKinds == {"response", "cancelled"}
Messages == [kind : AnswerKinds, of : Requests, port : 1..MaxPorts]

PortOf(r) == made[request[r].client]

\* What a client holds in its map of pending requests.
Pending(c) == {r \in Requests : request[r].phase = "pending" /\ request[r].client = c}

\* The promises of these requests are settled.
Settle(rs, outcome) ==
    /\ request' = [r \in Requests |->
                     IF r \in rs THEN [request[r] EXCEPT !.phase = "settled"] ELSE request[r]]
    /\ outcomes' = [r \in Requests |->
                     IF r \in rs THEN Append(outcomes[r], outcome) ELSE outcomes[r]]

-----------------------------------------------------------------------------
(***************************************************************************)
(* Ports and clients                                                       *)
(***************************************************************************)
\* Mutant: the requests stay in the map.
Disconnect_Keeps(c) ==
    /\ closed' = closed \cup ({c} \ {Absent})
    /\ late' = late \cup {r \in Requests : request[r].phase = "signing" /\ request[r].client = c}
    /\ UNCHANGED <<request, outcomes>>

\* disconnect() of a client, or of none
Disconnect(c) ==
    /\ closed' = closed \cup ({c} \ {Absent})
    /\ late' = late \cup {r \in Requests : request[r].phase = "signing" /\ request[r].client = c}
    /\ Settle(Pending(c), "disconnected")

\* connectNativeBridge()
Connect ==
    /\ nativePort = Absent
    /\ ports < MaxPorts
    /\ ports' = ports + 1
    /\ nativePort' = ports'
    /\ UNCHANGED <<bridgeClient, made, closed, request, cancelling, outcomes, hostVars,
                   handlerVars, late>>

\* A handshake ends, that of this port or, late, of one before it.
Adopt ==
    /\ nativePort # Absent
    /\ Len(made) < MaxClients
    /\ Disconnect(bridgeClient)
    /\ made' = Append(made, nativePort)
    /\ bridgeClient' = Len(made')
    /\ UNCHANGED <<nativePort, ports, cancelling, hostVars, handlerVars>>

\* The port is gone, or the user stops or disconnects.
PortGone ==
    /\ nativePort # Absent
    /\ nativePort' = Absent
    /\ Disconnect(bridgeClient)
    /\ bridgeClient' = Absent
    /\ UNCHANGED <<ports, made, cancelling, hostVars, handlerVars>>

-----------------------------------------------------------------------------
(***************************************************************************)
(* Requests and cancels                                                    *)
(***************************************************************************)
\* startRequest(), up to the signature
StartRequest(r) ==
    /\ bridgeClient # Absent
    /\ request[r].phase = "none"
    /\ request' = [request EXCEPT
                     ![r] = [phase |-> "signing", client |-> bridgeClient]]
    /\ UNCHANGED <<clientVars, cancelling, outcomes, hostVars, handlerVars, late>>

Ask(kind, r) == [kind |-> kind, of |-> r, port |-> PortOf(r)]

\* ... and from there: the timer is set and the request posted, whether or not
\* the client was closed meanwhile.  A port that is gone throws.
Post(r) ==
    /\ request[r].phase = "signing"
    /\ IF PortOf(r) = nativePort
       THEN /\ request' = [request EXCEPT ![r].phase = "pending"]
            /\ asked' = asked \cup {Ask("request", r)}
            /\ UNCHANGED outcomes
       ELSE /\ Settle({r}, "unsent")
            /\ UNCHANGED asked
    /\ UNCHANGED <<clientVars, cancelling, wire, handlerVars, late>>

\* Mutant: the timer of a closed client does nothing.
Deadline_Open(r) ==
    /\ request[r].phase = "pending"
    /\ request[r].client \notin closed
    /\ Settle({r}, "deadline")
    /\ UNCHANGED <<clientVars, cancelling, hostVars, handlerVars, late>>

\* The timer, set to what signing has left of the time to live: any moment.
Deadline(r) ==
    /\ request[r].phase = "pending"
    /\ Settle({r}, "deadline")
    /\ UNCHANGED <<clientVars, cancelling, hostVars, handlerVars, late>>

\* cancel(), up to the signature and from there; the request stays pending.
Cancel(r) ==
    /\ request[r].phase \in {"pending", "settled"}
    /\ request[r].client \notin closed
    /\ r \notin cancelling
    /\ Cardinality(cancelling \cup {a \in asked : a.kind = "cancel"}) < MaxCancels
    /\ cancelling' = cancelling \cup {r}
    /\ UNCHANGED <<clientVars, request, outcomes, hostVars, handlerVars, late>>

PostCancel(r) ==
    /\ r \in cancelling
    /\ cancelling' = cancelling \ {r}
    /\ asked' = IF PortOf(r) = nativePort THEN asked \cup {Ask("cancel", r)} ELSE asked
    /\ UNCHANGED <<clientVars, request, outcomes, wire, handlerVars, late>>

-----------------------------------------------------------------------------
(***************************************************************************)
(* The host answers and acknowledges; a message may be written twice       *)
(***************************************************************************)
AnswerTo(kind) == IF kind = "request" THEN "response" ELSE "cancelled"

HostSends(a) ==
    /\ a \in asked
    /\ a.port = nativePort
    /\ wire' = wire \cup {[a EXCEPT !.kind = AnswerTo(a.kind)]}
    /\ wire' # wire
    /\ UNCHANGED <<clientVars, request, cancelling, outcomes, asked, handlerVars, late>>

\* validateBridgeEnvelope(), of envelopes that are well formed and in time.
Acceptable(m) == ~Contains(replayWindow, m)

\* handleNativeMessage() up to the check of the signature, which is made with
\* the client of this moment.
Arrive(m) ==
    /\ m \in wire
    /\ m.port = nativePort
    /\ arrivals < MaxArrivals
    /\ Acceptable(m)
    /\ bridgeClient # Absent
    /\ arrivals' = arrivals + 1
    /\ handlers' = handlers \cup {[message |-> m, nr |-> arrivals', client |-> bridgeClient]}
    /\ overlapped' = overlapped \cup {m : h \in {k \in handlers : k.message = m}}
    /\ UNCHANGED <<clientVars, request, cancelling, outcomes, hostVars, replayWindow,
                   handled, evicted, late>>

\* Mutant: the newest key is the one to go.
Remembered_Newest(m) ==
    IF Contains(replayWindow, m) \/ Len(replayWindow) = WindowLimit
    THEN replayWindow ELSE Append(replayWindow, m)

\* Mutant: a key too many is kept.
Remembered_OneMore(m) ==
    IF Contains(replayWindow, m) THEN replayWindow
    ELSE LET keys == Append(replayWindow, m)
         IN  IF Len(keys) > WindowLimit + 1 THEN Tail(keys) ELSE keys

\* ReplayWindow.add()
Remembered(m) ==
    IF Contains(replayWindow, m) THEN replayWindow
    ELSE LET keys == Append(replayWindow, m)
         IN  IF Len(keys) > WindowLimit THEN Tail(keys) ELSE keys

\* Mutant: the request was looked up when the message came.
Finds_Early(h) == request[h.message.of].client = h.client

\* Whether the client finds the request a message is about.
Finds(h) == h.message.of \in Pending(h.client)

\* An answer ends the wait, an acknowledged cancel does not.
Ends(h) == h.message.kind = "response"

\* The rest of handleMessage() and of handleNativeMessage().
Verified(h) ==
    /\ h \in handlers
    /\ handlers' = handlers \ {h}
    /\ IF Finds(h)
       THEN /\ handled' = [handled EXCEPT ![h.message] = @ + 1]
            /\ replayWindow' = Remembered(h.message)
            /\ evicted' = evicted \cup (ToSet(replayWindow) \ ToSet(replayWindow'))
            /\ Settle({r \in {h.message.of} : Ends(h)}, "answered")
       ELSE UNCHANGED <<handled, replayWindow, evicted, request, outcomes>>
    /\ UNCHANGED <<clientVars, cancelling, hostVars, arrivals, overlapped, late>>

-----------------------------------------------------------------------------
BridgeInit ==
    /\ nativePort = Absent /\ ports = 0
    /\ bridgeClient = Absent /\ made = <<>> /\ closed = {}
    /\ request = [r \in Requests |-> [phase |-> "none", client |-> Absent]]
    /\ cancelling = {}
    /\ outcomes = [r \in Requests |-> <<>>]
    /\ asked = {} /\ wire = {}
    /\ arrivals = 0
    /\ handlers = {}
    /\ replayWindow = <<>>
    /\ handled = [m \in Messages |-> 0]
    /\ overlapped = {} /\ evicted = {} /\ late = {}

BridgeNext ==
    \/ Connect \/ Adopt \/ PortGone
    \/ \E r \in Requests :
          StartRequest(r) \/ Post(r) \/ Deadline(r) \/ Cancel(r) \/ PostCancel(r)
    \/ \E a \in asked : HostSends(a)
    \/ \E m \in wire : Arrive(m)
    \/ \E h \in handlers : Verified(h)

BridgeSpec == BridgeInit /\ [][BridgeNext]_bridgeVars

\* Signatures are made and timers fire.  Nothing is asked of the
\* host, of the port or of the pairing.
Fairness == \A r \in Requests : WF_bridgeVars(Post(r)) /\ WF_bridgeVars(Deadline(r))

FairBridgeSpec == BridgeSpec /\ Fairness

-----------------------------------------------------------------------------
Clients == 1..Len(made)

BridgeTypes ==
    /\ ports \in 0..MaxPorts /\ nativePort \in {Absent, ports}
    /\ made \in Seq(1..ports) /\ bridgeClient \in {Absent, Len(made)}
    /\ closed = Clients \ {bridgeClient}
    /\ request \in [Requests -> [phase : {"none", "signing", "pending", "settled"},
                                 client : {Absent} \cup Clients]]
    /\ cancelling \subseteq Requests
    /\ asked \subseteq [kind : {"request", "cancel"}, of : Requests, port : 1..MaxPorts]
    /\ wire \subseteq Messages
    /\ arrivals \in 0..MaxArrivals
    /\ handlers \subseteq [message : wire, nr : 1..arrivals, client : Clients]
    /\ Len(replayWindow) <= WindowLimit /\ ToSet(replayWindow) \subseteq wire
    /\ IsInjective(replayWindow)

(***************************************************************************)
(* The promise of a request is settled once: answers that arrive twice and *)
(* pass the replay check together, the timer and disconnects all race to   *)
(* settle it.                                                              *)
(***************************************************************************)
OneSettlement ==
    \A r \in Requests :
       Len(outcomes[r]) = IF request[r].phase = "settled" THEN 1 ELSE 0

\* Requests, clients and the replay window agree (bridge-client.js).
BridgeInv == BridgeTypes /\ OneSettlement

(***************************************************************************)
(* A request waits for an answer that cannot come, because its client is   *)
(* closed or its port gone, only if it was being signed when the client    *)
(* was closed.  (Such requests exist: startRequest() does not look again.) *)
(***************************************************************************)
OnlyLateWaitInVain ==
    \A r \in Requests :
       request[r].phase = "pending" /\ (request[r].client \in closed \/ PortOf(r) # nativePort)
          => r \in late

(***************************************************************************)
(* A message is handled a second time only if both copies were under       *)
(* verification at once, or the window had forgotten it.                   *)
(***************************************************************************)
ReplayNeedsOverlap ==
    \A m \in Messages : handled[m] > 1 => m \in overlapped \cup evicted

(***************************************************************************)
(* Every request that is started is settled: with the host silent, the     *)
(* client replaced and the port gone, its own timer still ends it.         *)
(***************************************************************************)
EveryRequestSettles ==
    \A r \in Requests : request[r].phase = "signing" ~> request[r].phase = "settled"
=============================================================================
