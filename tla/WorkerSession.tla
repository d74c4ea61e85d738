--------------------------- MODULE WorkerSession ----------------------------
(***************************************************************************)
(* The session of the extension's service worker with the native host:     *)
(* ports, pairing handshake, control state and user actions                *)
(* (extension/service-worker.js, pairing-state.js, control-state.js),      *)
(* across host failures and worker restarts.                               *)
(*                                                                         *)
(* A handler is cut at its awaits.  A write to storage takes effect when   *)
(* it is issued: the browser outlives the worker.  A host is what          *)
(* NativeHost says; here it takes one step for a hello and ends at any     *)
(* time, and the next one starts when it has ended.                        *)
(***************************************************************************)
EXTENDS Integers, FiniteSets

CONSTANTS
    MaxPorts, MaxInstalls, MaxPairings    \* bounds for TLC

ASSUME ParametersAssumption ==
    /\ MaxPorts \in Nat /\ MaxInstalls \in Nat /\ MaxPairings \in Nat

VARIABLES
    alive,          \* the worker runs
    controlState,   \* its state in memory
    stateReady,     \* controlStateReady is resolved
    pairingState,   \* in memory; what storage held, until it is loaded
    pairingReady,
    nativePort,     \* a port number, or None
    bridgeClient,   \* the port and pairing it was made for, or NoClient
    teardowns,      \* stop and disconnect actions between their two halves
    resets,         \* reset_pairing between its two halves
    localPairing,   \* chrome.storage.local
    sessionState,   \* chrome.storage.session
    installs,       \* installation ids drawn
    ports,          \* ports opened, one host each
    open,           \* ports not disconnected, as the worker knows
    hosts,          \* ports whose host runs
    refused,        \* ports whose host gave up on a second hello
    stage,          \* how far the handshake of a port is
    hello,          \* what was sent first on a port
    answer,         \* what its host answered
    active,         \* active pairings in the host's file
    drawn,          \* pairing ids drawn
    takenOver,      \* the user took over and has not ended it
    stopped         \* stop or disconnect tore the bridge down, and none was opened since

storage == <<localPairing, sessionState>>
links   == <<ports, open, hosts, refused, stage, hello, answer, active, drawn>>
vars == <<alive, controlState, stateReady, pairingState, pairingReady, nativePort,
          bridgeClient, teardowns, resets, storage, installs, links, takenOver, stopped>>

None == 0
NoClient == [port |-> None, id |-> None]
NoPairing == [install |-> None, id |-> None]    \* no record at all

-----------------------------------------------------------------------------
(***************************************************************************)
(* The control-state machine: in which states an event moves it, and       *)
(* where to; otherwise it is ignored or refused, and nothing changes.  The *)
(* worker raises two of the bridge's events, connected and disconnected.   *)
(***************************************************************************)
States == {"disconnected", "connected-idle", "observing", "controlling",
           "approval-required", "human-control", "error"}

\* The states from which a state may be entered.
MayEnter(s) ==
    CASE s = "connected-idle"    -> States \ {s}
      [] s = "observing"         -> {"connected-idle", "controlling"}
      [] s = "controlling"       -> {"connected-idle", "observing", "approval-required"}
      [] s = "approval-required" -> {"connected-idle", "observing", "controlling"}
      [] s = "human-control"     -> {"connected-idle", "observing", "controlling",
                                     "approval-required"}

Move(from, to) == [from |-> from, to |-> to]

\* Mutant: losing the bridge ends a takeover.
Effect_DisconnectEnds(event) ==
    IF event = "bridge.disconnected"
    THEN Move(States \ {"disconnected"}, "disconnected")
    ELSE CASE event = "takeover" -> Move(MayEnter("human-control"), "human-control")
           [] event = "resume" -> Move({"human-control"}, "connected-idle")
           [] event = "bridge.connected" -> Move({"disconnected"}, "connected-idle")
           [] OTHER -> Move({}, "disconnected")

Effect(event) ==
    CASE event = "bridge.connected" -> Move({"disconnected"}, "connected-idle")
      [] event = "bridge.disconnected" ->
             Move(States \ {"disconnected", "human-control"}, "disconnected")
      [] event = "bridge.observing" -> Move(MayEnter("observing"), "observing")
      [] event = "bridge.controlling" -> Move(MayEnter("controlling"), "controlling")
      [] event = "bridge.idle" -> Move(MayEnter("connected-idle"), "connected-idle")
      [] event = "bridge.approval_required" ->
             Move(MayEnter("approval-required"), "approval-required")
      [] event = "bridge.error" -> Move(States, "error")
      [] event = "pause" ->
             Move({"observing", "controlling", "approval-required", "error"}, "connected-idle")
      [] event \in {"stop", "disconnect"} -> Move(States \ {"disconnected"}, "disconnected")
      [] event = "takeover" -> Move(MayEnter("human-control"), "human-control")
      [] event = "resume" -> Move({"human-control"}, "connected-idle")
      [] event = "approve" -> Move({"approval-required"}, "controlling")
      [] event = "deny" -> Move({"approval-required"}, "connected-idle")

\* applyControlTransition(), up to the first await of persistControlState().
Applies(event) ==
    IF controlState \in Effect(event).from
    THEN /\ controlState' = Effect(event).to
         /\ sessionState' = Effect(event).to
    ELSE UNCHANGED <<controlState, sessionState>>

-----------------------------------------------------------------------------
(***************************************************************************)
(* The worker starts and dies                                              *)
(***************************************************************************)
\* connectNativeBridge()
Opens ==
    /\ ports < MaxPorts
    /\ hosts = {}
    /\ ports' = ports + 1
    /\ nativePort' = ports'
    /\ open' = open \cup {ports'}
    /\ hosts' = {ports'}
    /\ stage' = [stage EXCEPT ![ports'] = "opening"]
    /\ stopped' = FALSE
    /\ UNCHANGED <<refused, hello, answer, active, drawn>>

\* The module is evaluated; storage is read, and a port opened.  The session
\* storage is lost with the browser, or kept.
Boot ==
    /\ ~alive
    /\ Opens
    /\ alive' = TRUE
    /\ controlState' = "disconnected"
    /\ stateReady' = FALSE
    /\ pairingState' = localPairing
    /\ pairingReady' = FALSE
    /\ \/ UNCHANGED <<sessionState, takenOver>>
       \/ sessionState' = "none" /\ takenOver' = FALSE
    /\ UNCHANGED <<bridgeClient, teardowns, resets, localPairing, installs>>

\* Mutant: the state is not looked at.
LoadState_Unchecked ==
    /\ alive /\ ~stateReady
    /\ stateReady' = TRUE
    /\ controlState' = sessionState
    /\ UNCHANGED <<alive, pairingState, pairingReady, nativePort, bridgeClient, teardowns,
                   resets, storage, installs, links, takenOver, stopped>>

LoadState ==
    /\ alive /\ ~stateReady
    /\ stateReady' = TRUE
    /\ controlState' = IF sessionState \in States THEN sessionState ELSE controlState
    /\ UNCHANGED <<alive, pairingState, pairingReady, nativePort, bridgeClient, teardowns,
                   resets, storage, installs, links, takenOver, stopped>>

\* Mutant: every worker is an installation of its own.
LoadPairing_Fresh ==
    /\ alive /\ ~pairingReady
    /\ pairingReady' = TRUE
    /\ installs < MaxInstalls
    /\ installs' = installs + 1
    /\ pairingState' = [pairingState EXCEPT !.install = installs']
    /\ localPairing' = pairingState'
    /\ UNCHANGED <<alive, controlState, stateReady, nativePort, bridgeClient, teardowns,
                   resets, sessionState, links, takenOver, stopped>>

\* loadOrCreatePairingState()
LoadPairing ==
    /\ alive /\ ~pairingReady
    /\ pairingReady' = TRUE
    /\ IF pairingState # NoPairing
       THEN UNCHANGED <<pairingState, localPairing, installs>>
       ELSE /\ installs < MaxInstalls
            /\ installs' = installs + 1
            /\ pairingState' = [install |-> installs', id |-> None]
            /\ localPairing' = pairingState'
    /\ UNCHANGED <<alive, controlState, stateReady, nativePort, bridgeClient, teardowns,
                   resets, sessionState, links, takenOver, stopped>>

\* The worker is suspended or killed: memory, handlers and ports are gone.
Die ==
    /\ alive
    /\ alive' = FALSE
    /\ controlState' = "disconnected"
    /\ stateReady' = FALSE
    /\ pairingState' = NoPairing
    /\ pairingReady' = FALSE
    /\ nativePort' = None
    /\ bridgeClient' = NoClient
    /\ teardowns' = {}
    /\ resets' = FALSE
    /\ open' = {}
    /\ stage' = [p \in DOMAIN stage |->
                   IF stage[p] \in {"off", "greeted"} THEN stage[p] ELSE "over"]
    /\ UNCHANGED <<storage, installs, ports, hosts, refused, hello, answer, active, drawn,
                   takenOver, stopped>>

\* A click on the toolbar button.
Connect ==
    /\ alive
    /\ nativePort = None
    /\ Opens
    /\ UNCHANGED <<alive, controlState, stateReady, pairingState, pairingReady, bridgeClient,
                   teardowns, resets, storage, installs, takenOver>>

-----------------------------------------------------------------------------
(***************************************************************************)
(* The handshake                                                           *)
(***************************************************************************)
\* Both hello messages go out; or there is nothing to send or no open port to
\* send it on, and the port is given up, but not nativePort.
SendHello(p) ==
    /\ alive /\ stateReady /\ pairingReady
    /\ stage[p] = "opening"
    /\ IF pairingState # NoPairing /\ p \in open
       THEN /\ stage' = [stage EXCEPT ![p] = "greeted"]
            /\ hello' = [hello EXCEPT ![p] = pairingState]
            /\ UNCHANGED open
       ELSE /\ stage' = [stage EXCEPT ![p] = "over"]
            /\ open' = open \ {p}
            /\ UNCHANGED hello
    /\ UNCHANGED <<alive, controlState, stateReady, pairingState, pairingReady, nativePort,
                   bridgeClient, teardowns, resets, storage, installs, ports, hosts, refused,
                   answer, active, drawn, takenOver, stopped>>

worker == <<alive, controlState, stateReady, pairingState, pairingReady, nativePort,
            bridgeClient, teardowns, resets, storage, installs, takenOver, stopped>>

\* The host takes the first hello: it resumes the pairing, or makes one and
\* displaces those of other installations.
HostResumes(p) ==
    /\ p \in hosts
    /\ stage[p] = "greeted"
    /\ hello[p].id # None
    /\ hello[p] \in active
    /\ answer' = [answer EXCEPT ![p] = [type |-> "bridge.ready", pairing |-> hello[p]]]
    /\ stage' = [stage EXCEPT ![p] = "answered"]
    /\ UNCHANGED <<worker, ports, open, hosts, refused, hello, active, drawn>>

HostPairs(p) ==
    /\ p \in hosts
    /\ stage[p] = "greeted"
    /\ hello[p].id = None
    /\ drawn < MaxPairings
    /\ drawn' = drawn + 1
    /\ LET pairing == [install |-> hello[p].install, id |-> drawn']
       IN  /\ active' = {q \in active : q.install = pairing.install} \cup {pairing}
           /\ answer' = [answer EXCEPT ![p] = [type |-> "bridge.paired", pairing |-> pairing]]
    /\ stage' = [stage EXCEPT ![p] = "answered"]
    /\ UNCHANGED <<worker, ports, open, hosts, refused, hello>>

\* It takes the second hello, which names no installation.
HostRefuses(p) ==
    /\ p \in hosts
    /\ stage[p] \notin {"opening", "greeted"}
    /\ hello[p] # NoPairing
    /\ refused' = refused \cup {p}
    /\ hosts' = hosts \ {p}
    /\ UNCHANGED <<worker, ports, open, stage, hello, answer, active, drawn>>

\* It ends for any other reason: its input ended, or it failed.
HostEnds(p) ==
    /\ p \in hosts
    /\ hosts' = hosts \ {p}
    /\ UNCHANGED <<worker, ports, open, refused, stage, hello, answer, active, drawn>>

\* handleNativeMessage() for the answer, up to the check of its signature.
Receive(p) ==
    /\ alive
    /\ p \in open
    /\ stage[p] = "answered"
    /\ LET fits == /\ pairingState # NoPairing
                   /\ answer[p].pairing.install = pairingState.install
                   /\ answer[p].type = "bridge.ready" =>
                         pairingState.id = answer[p].pairing.id
       IN  stage' = [stage EXCEPT ![p] = IF fits THEN "checking" ELSE "over"]
    /\ UNCHANGED <<worker, ports, open, hosts, refused, hello, answer, active, drawn>>

\* acceptPairingResponse(), from there.
Accept(p) ==
    /\ stage[p] = "checking"
    /\ stage' = [stage EXCEPT ![p] = "accepted"]
    /\ localPairing' = IF answer[p].type = "bridge.paired" THEN answer[p].pairing
                       ELSE localPairing
    /\ UNCHANGED <<alive, controlState, stateReady, pairingState, pairingReady, nativePort,
                   bridgeClient, teardowns, resets, sessionState, installs, ports, open, hosts,
                   refused, hello, answer, active, drawn, takenOver, stopped>>

\* Mutant: the client is made for the port the message came from.
Adopt_OwnPort(p) ==
    /\ stage[p] = "accepted"
    /\ pairingState' = answer[p].pairing
    /\ bridgeClient' = [port |-> p, id |-> answer[p].pairing.id]
    /\ stage' = [stage EXCEPT ![p] = "adopted"]
    /\ UNCHANGED <<alive, controlState, stateReady, pairingReady, nativePort, teardowns, resets,
                   storage, installs, ports, open, hosts, refused, hello, answer, active, drawn,
                   takenOver, stopped>>

\* A new client for the port of the day; without one its constructor throws.
Adopt(p) ==
    /\ stage[p] = "accepted"
    /\ pairingState' = answer[p].pairing
    /\ IF nativePort = None
       THEN /\ stage' = [stage EXCEPT ![p] = "over"]
            /\ UNCHANGED bridgeClient
       ELSE /\ stage' = [stage EXCEPT ![p] = "adopted"]
            /\ bridgeClient' = [port |-> nativePort, id |-> answer[p].pairing.id]
    /\ UNCHANGED <<alive, controlState, stateReady, pairingReady, nativePort, teardowns, resets,
                   storage, installs, ports, open, hosts, refused, hello, answer, active, drawn,
                   takenOver, stopped>>

\* The handler ends, when the replay window is saved.
Connected(p) ==
    /\ stage[p] = "adopted"
    /\ stage' = [stage EXCEPT ![p] = "over"]
    /\ Applies("bridge.connected")
    /\ UNCHANGED <<alive, stateReady, pairingState, pairingReady, nativePort, bridgeClient,
                   teardowns, resets, localPairing, installs, ports, open, hosts, refused, hello,
                   answer, active, drawn, takenOver, stopped>>

\* Mutant: the client is forgotten only when it is replaced.
PortGone_KeepsClient(p) ==
    /\ alive
    /\ p \in open \ hosts
    /\ stage[p] # "answered"
    /\ open' = open \ {p}
    /\ nativePort' = None
    /\ Applies("bridge.disconnected")
    /\ UNCHANGED <<alive, stateReady, pairingState, pairingReady, bridgeClient, teardowns, resets,
                   localPairing, installs, ports, hosts, refused, stage, hello, answer, active,
                   drawn, takenOver, stopped>>

\* port.onDisconnect, after the messages that came before
PortGone(p) ==
    /\ alive
    /\ p \in open \ hosts
    /\ stage[p] # "answered"
    /\ open' = open \ {p}
    /\ nativePort' = None
    /\ bridgeClient' = NoClient
    /\ Applies("bridge.disconnected")
    /\ UNCHANGED <<alive, stateReady, pairingState, pairingReady, teardowns, resets,
                   localPairing, installs, ports, hosts, refused, stage, hello, answer, active,
                   drawn, takenOver, stopped>>

-----------------------------------------------------------------------------
(***************************************************************************)
(* Control events                                                          *)
(***************************************************************************)
UserEvent(event) ==
    /\ alive
    /\ Applies(event)
    /\ takenOver' = IF event = "resume"
                    THEN takenOver /\ controlState # "human-control"
                    ELSE takenOver \/ (event = "takeover" /\ controlState' = "human-control")
    /\ UNCHANGED <<alive, stateReady, pairingState, pairingReady, nativePort, bridgeClient,
                   teardowns, resets, localPairing, installs, links, stopped>>

\* stop and disconnect, one of each at a time: the state first, ...
EndSession(event) ==
    /\ alive
    /\ event \notin teardowns
    /\ teardowns' = teardowns \cup {event}
    /\ Applies(event)
    /\ takenOver' = (takenOver /\ controlState # "human-control")
    /\ UNCHANGED <<alive, stateReady, pairingState, pairingReady, nativePort, bridgeClient,
                   resets, localPairing, installs, links, stopped>>

\* ... the bridge when that is saved and shown.
TearDown(event) ==
    /\ event \in teardowns
    /\ teardowns' = teardowns \ {event}
    /\ bridgeClient' = NoClient
    /\ open' = open \ {nativePort}
    /\ nativePort' = None
    /\ localPairing' = IF event = "stop" THEN NoPairing ELSE localPairing
    /\ stopped' = TRUE
    /\ UNCHANGED <<alive, controlState, stateReady, pairingState, pairingReady, resets,
                   sessionState, installs, ports, hosts, refused, stage, hello, answer, active,
                   drawn, takenOver>>

\* reset_pairing: the stored pairing first, then the one in memory, which is
\* overwritten if it is still being loaded.
ResetPairing ==
    /\ alive
    /\ ~resets
    /\ resets' = TRUE
    /\ localPairing' = NoPairing
    /\ UNCHANGED <<alive, controlState, stateReady, pairingState, pairingReady, nativePort,
                   bridgeClient, teardowns, sessionState, installs, links, takenOver, stopped>>

ForgetPairing ==
    /\ resets
    /\ resets' = FALSE
    /\ pairingState' = IF pairingReady THEN NoPairing ELSE pairingState
    /\ UNCHANGED <<alive, controlState, stateReady, pairingReady, nativePort, bridgeClient,
                   teardowns, storage, installs, links, takenOver, stopped>>

-----------------------------------------------------------------------------
Ports == 1..MaxPorts

Init ==
    /\ alive = FALSE
    /\ controlState = "disconnected"
    /\ stateReady = FALSE
    /\ pairingState = NoPairing
    /\ pairingReady = FALSE
    /\ nativePort = None
    /\ bridgeClient = NoClient
    /\ teardowns = {}
    /\ resets = FALSE
    /\ localPairing = NoPairing
    /\ sessionState = "none"
    /\ installs = 0
    /\ ports = 0
    /\ open = {}
    /\ hosts = {}
    /\ refused = {}
    /\ stage = [p \in Ports |-> "off"]
    /\ hello = [p \in Ports |-> NoPairing]
    /\ answer = [p \in Ports |-> [type |-> "none", pairing |-> NoPairing]]
    /\ active = {}
    /\ drawn = 0
    /\ takenOver = FALSE
    /\ stopped = FALSE

Next ==
    \/ Boot \/ LoadState \/ LoadPairing \/ Die \/ Connect
    \/ \E p \in Ports :
          \/ SendHello(p)
          \/ HostResumes(p) \/ HostPairs(p) \/ HostRefuses(p) \/ HostEnds(p)
          \/ Receive(p) \/ Accept(p) \/ Adopt(p) \/ Connected(p)
          \/ PortGone(p)
    \/ \E event \in {"pause", "takeover", "resume", "approve", "deny"} : UserEvent(event)
    \/ \E event \in {"stop", "disconnect"} : EndSession(event) \/ TearDown(event)
    \/ ResetPairing \/ ForgetPairing

Spec == Init /\ [][Next]_vars

-----------------------------------------------------------------------------
Pairings == [install : 0..MaxInstalls, id : 0..MaxPairings]

TypeOK ==
    /\ alive \in BOOLEAN /\ stateReady \in BOOLEAN /\ pairingReady \in BOOLEAN
    /\ controlState \in States
    /\ pairingState \in Pairings
    /\ nativePort \in 0..ports
    /\ bridgeClient \in [port : 0..ports, id : 0..drawn]
    /\ teardowns \subseteq {"stop", "disconnect"}
    /\ resets \in BOOLEAN
    /\ localPairing \in Pairings
    /\ sessionState \in States \cup {"none"}
    /\ installs \in 0..MaxInstalls
    /\ ports \in 0..MaxPorts
    /\ open \subseteq 1..ports
    /\ hosts \subseteq 1..ports
    /\ refused \subseteq 1..ports
    /\ stage \in [Ports -> {"off", "opening", "greeted", "answered", "checking", "accepted",
                             "adopted", "over"}]
    /\ hello \in [Ports -> Pairings]
    /\ answer \in [Ports -> [type : {"none", "bridge.paired", "bridge.ready"},
                             pairing : Pairings]]
    /\ active \subseteq Pairings
    /\ drawn \in 0..MaxPairings
    /\ takenOver \in BOOLEAN
    /\ stopped \in BOOLEAN

(***************************************************************************)
(* A takeover lasts until the user ends it: over lost and new bridges,     *)
(* handshakes that complete meanwhile, and restarts of the worker, once    *)
(* the new worker has read its state.                                      *)
(***************************************************************************)
TakeoverHolds == takenOver /\ stateReady => controlState = "human-control"

(***************************************************************************)
(* A client is for the port in use, although the handler that makes it     *)
(* ran for some time and the port may have been replaced.                  *)
(***************************************************************************)
ClientOnCurrentPort == bridgeClient # NoClient => bridgeClient.port = nativePort

(***************************************************************************)
(* Once stop or disconnect has torn the bridge down, no handshake that was *)
(* under way makes a client again.                                         *)
(***************************************************************************)
StoppedHasNoClient == stopped => bridgeClient = NoClient

\* The worker has a client exactly where it may have one (service-worker.js).
ClientInv == TypeOK /\ ClientOnCurrentPort /\ StoppedHasNoClient

(***************************************************************************)
(* The pairing the worker would present is one the host knows, for this    *)
(* installation: the two sides never lose each other for good.             *)
(***************************************************************************)
PresentsKnownPairing ==
    pairingReady /\ pairingState.id # None => pairingState \in active

(***************************************************************************)
(* A statement of the repository that the code does not keep               *)
(***************************************************************************)
\* service-worker.js, of the two hello messages of a connection: "Existing hosts
\* keep working through the pairing payload."  No host gives up on the second.
ExistingHostsKeepWorking == refused = {}
=============================================================================
