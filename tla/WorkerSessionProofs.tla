------------------------ MODULE WorkerSessionProofs ------------------------
(***************************************************************************)
(* Proofs about WorkerSession, for any number of connections, of           *)
(* installations and of pairings, over any number of restarts.             *)
(***************************************************************************)
EXTENDS WorkerSession, TLAPS

Handling == {"checking", "accepted", "adopted"}

(***************************************************************************)
(* What a worker has, it has from its own lifetime: a dead one has         *)
(* nothing, and a handler past the hello runs in the worker that sent it,  *)
(* which had loaded its state and its pairing.                             *)
(***************************************************************************)
Lifetime ==
    /\ ~alive => /\ nativePort = None
                 /\ bridgeClient = NoClient
                 /\ ~stateReady /\ ~pairingReady
                 /\ teardowns = {} /\ ~resets
                 /\ open = {}
    /\ \A p \in Ports :
          /\ stage[p] = "opening" => alive
          /\ stage[p] \in Handling => alive /\ stateReady /\ pairingReady
          /\ p \in open /\ stage[p] # "opening" => stateReady /\ pairingReady
          /\ alive /\ p \in hosts /\ stage[p] = "greeted" => pairingReady

\* A client comes with its port, and the port goes with the bridge.
ClientHere ==
    /\ bridgeClient # NoClient => bridgeClient.port = nativePort /\ nativePort # None
    /\ stopped => nativePort = None

\* A takeover is in the session storage, where the next worker finds it.
TakeoverKept ==
    /\ takenOver => sessionState = "human-control"
    /\ takenOver /\ stateReady => controlState = "human-control"
    /\ ~stateReady => controlState = "disconnected"
    /\ controlState # "disconnected" => sessionState = controlState

(***************************************************************************)
(* The pairings that may become the worker's: those it holds or stored,    *)
(* that of a hello a host may still answer, and that of an answer a        *)
(* handler may still take.  They are all of one installation, and the host *)
(* knows every one that has an id.                                         *)
(***************************************************************************)
Presents(p) == stage[p] = "greeted" /\ (p \in hosts \/ p \in open)

Brings(p) == \/ stage[p] = "answered" /\ p \in open
             \/ stage[p] \in {"checking", "accepted"}

Held == {localPairing, pairingState}
            \cup {hello[p] : p \in {q \in Ports : Presents(q)}}
            \cup {answer[p].pairing : p \in {q \in Ports : Brings(q)}}

Agree ==
    /\ \A x \in Held : /\ x.id # None => x \in active
                       /\ x.install = None => x.id = None
    /\ \A x, y \in Held :
          x.install # None /\ y.install # None => x.install = y.install

HelloNamed == \A p \in Ports : stage[p] = "greeted" => hello[p].install # None

LoadedFromStorage ==
    alive /\ ~pairingReady => localPairing \in {pairingState, NoPairing}

IdsDrawn ==
    /\ \A q \in active : q.id <= drawn
    /\ \A p \in Ports : answer[p].pairing.id <= drawn

IInv == /\ TypeOK
        /\ Lifetime
        /\ ClientHere
        /\ TakeoverKept
        /\ Agree /\ HelloNamed /\ LoadedFromStorage
        /\ IdsDrawn

-----------------------------------------------------------------------------
(***************************************************************************)
(* The events the worker raises.                                           *)
(***************************************************************************)
Events == {"bridge.connected", "bridge.disconnected", "pause", "takeover", "resume",
           "approve", "deny", "stop", "disconnect"}

\* What each event does to the control state.
LEMMA Effects ==
    /\ \A e \in Events : Effect(e).to \in States
    /\ \A e \in Events \ {"bridge.connected"} : "disconnected" \notin Effect(e).from
    /\ Effect("bridge.connected").from = {"disconnected"}
    /\ \A e \in Events \ {"resume", "stop", "disconnect"} :
          "human-control" \notin Effect(e).from
    /\ Effect("resume").from = {"human-control"}
    /\ "human-control" \in Effect("stop").from
    /\ "human-control" \in Effect("disconnect").from
    /\ \A e \in {"resume", "stop", "disconnect"} : Effect(e).to # "human-control"
    /\ Effect("takeover").to = "human-control"
    /\ \A e \in Events \ {"takeover"} : Effect(e).to # "human-control"
<1>1. /\ Effect("bridge.connected") = Move({"disconnected"}, "connected-idle")
      /\ Effect("bridge.disconnected")
             = Move(States \ {"disconnected", "human-control"}, "disconnected")
      /\ Effect("pause")
             = Move({"observing", "controlling", "approval-required", "error"}, "connected-idle")
      /\ Effect("stop") = Move(States \ {"disconnected"}, "disconnected")
      /\ Effect("disconnect") = Move(States \ {"disconnected"}, "disconnected")
      /\ Effect("takeover") = Move(MayEnter("human-control"), "human-control")
      /\ Effect("resume") = Move({"human-control"}, "connected-idle")
      /\ Effect("approve") = Move({"approval-required"}, "controlling")
      /\ Effect("deny") = Move({"approval-required"}, "connected-idle")
  BY DEF Effect
<1>2. MayEnter("human-control")
          = {"connected-idle", "observing", "controlling", "approval-required"}
  BY DEF MayEnter
<1> QED
  BY <1>1, <1>2 DEF Events, Move, States

\* An event keeps the control state and what storage has of it in step.
LEMMA AppliesFacts ==
    ASSUME NEW e \in Events, Applies(e),
           controlState \in States, sessionState \in States \cup {"none"}
    PROVE  /\ controlState' \in States
           /\ sessionState' \in States \cup {"none"}
           /\ controlState \in Effect(e).from =>
                 controlState' = Effect(e).to /\ sessionState' = Effect(e).to
           /\ controlState \notin Effect(e).from =>
                 controlState' = controlState /\ sessionState' = sessionState
BY Effects DEF Applies
-----------------------------------------------------------------------------
(***************************************************************************)
(* Types                                                                   *)
(***************************************************************************)
LEMMA TypeInit == Init => TypeOK
<1> SUFFICES ASSUME Init PROVE TypeOK
  OBVIOUS
<1>1. NoPairing \in Pairings /\ NoClient \in [port : 0..ports, id : 0..drawn]
  BY ParametersAssumption DEF Init, NoPairing, NoClient, None, Pairings
<1>2. /\ hello \in [Ports -> Pairings]
      /\ answer \in [Ports -> [type : {"none", "bridge.paired", "bridge.ready"},
                               pairing : Pairings]]
  BY <1>1 DEF Init
<1>3. stage \in [Ports -> {"off", "opening", "greeted", "answered", "checking", "accepted",
                           "adopted", "over"}]
  BY DEF Init
<1>4. /\ nativePort \in 0..ports /\ installs \in 0..MaxInstalls /\ ports \in 0..MaxPorts
      /\ drawn \in 0..MaxPairings
  BY ParametersAssumption DEF Init, None
<1> QED
  BY <1>1, <1>2, <1>3, <1>4 DEF Init, TypeOK, States

\* Opening a port keeps the types.
LEMMA OpensTypes ==
    ASSUME TypeOK, Opens
    PROVE  /\ nativePort' \in 1..ports' /\ ports' \in 1..MaxPorts /\ ports' = ports + 1
           /\ open' \subseteq 1..ports' /\ hosts' \subseteq 1..ports'
           /\ stage' \in [Ports -> {"off", "opening", "greeted", "answered", "checking",
                                    "accepted", "adopted", "over"}]
           /\ stopped' = FALSE
           /\ UNCHANGED <<refused, hello, answer, active, drawn>>
           /\ refused \subseteq 1..ports' /\ bridgeClient \in [port : 0..ports', id : 0..drawn]
<1>1. ports \in Nat /\ ports + 1 \in 1..MaxPorts
  BY ParametersAssumption DEF TypeOK, Opens
<1>2. stage \in [Ports -> {"off", "opening", "greeted", "answered", "checking", "accepted",
                           "adopted", "over"}]
  BY DEF TypeOK
<1>3. stage' = [stage EXCEPT ![ports + 1] = "opening"]
  BY DEF Opens
<1>4. stage' \in [Ports -> {"off", "opening", "greeted", "answered", "checking", "accepted",
                            "adopted", "over"}]
  BY <1>1, <1>2, <1>3
<1>5. /\ open \subseteq 1..ports /\ refused \subseteq 1..ports
      /\ bridgeClient \in [port : 0..ports, id : 0..drawn]
  BY DEF TypeOK
<1>6. ports' = ports + 1
  BY DEF Opens
<1>7. 1..ports \subseteq 1..ports' /\ 0..ports \subseteq 0..ports' /\ ports' \in 1..ports'
  BY <1>1, <1>6
<1>8. /\ refused \subseteq 1..ports' /\ open' \subseteq 1..ports' /\ hosts' \subseteq 1..ports'
      /\ bridgeClient \in [port : 0..ports', id : 0..drawn]
  BY <1>5, <1>7 DEF Opens
<1> QED
  BY <1>1, <1>4, <1>6, <1>8 DEF Opens

LEMMA TypeStep ==
    ASSUME TypeOK, IdsDrawn, [Next]_vars
    PROVE  TypeOK'
<1> USE ParametersAssumption
<1> DEFINE Stages == {"off", "opening", "greeted", "answered", "checking", "accepted",
                      "adopted", "over"}
           Answers == [type : {"none", "bridge.paired", "bridge.ready"}, pairing : Pairings]
<1>1. NoPairing \in Pairings /\ NoClient \in [port : 0..ports, id : 0..drawn]
  BY DEF NoPairing, NoClient, None, Pairings, TypeOK
<1>2. \A p \in Ports :
          /\ answer[p].pairing \in Pairings
          /\ answer[p].type \in {"none", "bridge.paired", "bridge.ready"}
                       /\ hello[p] \in Pairings /\ stage[p] \in Stages
  <2> TAKE p \in Ports
  <2>1. answer \in [Ports -> Answers] /\ hello \in [Ports -> Pairings]
            /\ stage \in [Ports -> Stages]
    BY DEF TypeOK
  <2>2. answer[p] \in Answers
    BY <2>1
  <2> QED
    BY <2>1, <2>2
<1>3. ASSUME Boot PROVE TypeOK'
  <2>1. Opens
    BY <1>3 DEF Boot
  <2>2. bridgeClient' \in [port : 0..ports', id : 0..drawn'] /\ nativePort' \in 0..ports'
        /\ refused' \subseteq 1..ports' /\ ports' \in 0..MaxPorts
    BY <1>3, <2>1, OpensTypes DEF Boot
  <2>3. /\ controlState' \in States /\ sessionState' \in States \cup {"none"}
        /\ takenOver' \in BOOLEAN
    BY <1>3 DEF Boot, TypeOK, States
  <2> QED
    BY <1>3, <2>1, <2>2, <2>3, OpensTypes DEF Boot, TypeOK
<1>4. ASSUME LoadState PROVE TypeOK'
  BY <1>4 DEF LoadState, TypeOK, storage, links, States
<1>5. ASSUME LoadPairing PROVE TypeOK'
  <2>1. /\ pairingState' \in Pairings /\ localPairing' \in Pairings
        /\ installs' \in 0..MaxInstalls
    BY <1>5 DEF LoadPairing, TypeOK, Pairings, None
  <2> QED
    BY <1>5, <2>1 DEF LoadPairing, TypeOK, links
<1>6. ASSUME Die PROVE TypeOK'
  <2>1. stage' \in [Ports -> Stages]
    BY <1>6, <1>2 DEF Die, TypeOK
  <2> QED
    <3>1. nativePort' \in 0..ports' /\ controlState' \in States
      BY <1>6 DEF Die, TypeOK, None, States
    <3> QED
      BY <1>1, <1>6, <2>1, <3>1 DEF Die, TypeOK, storage
<1>7. ASSUME Connect PROVE TypeOK'
  <2>1. Opens
    BY <1>7 DEF Connect
  <2>2. bridgeClient' \in [port : 0..ports', id : 0..drawn'] /\ nativePort' \in 0..ports'
        /\ refused' \subseteq 1..ports' /\ ports' \in 0..MaxPorts
    BY <1>7, <2>1, OpensTypes DEF Connect
  <2> QED
    BY <1>7, <2>1, <2>2, OpensTypes DEF Connect, TypeOK, storage
<1>8. ASSUME NEW p \in Ports, SendHello(p) PROVE TypeOK'
  <2>1. stage' \in [Ports -> Stages] /\ hello' \in [Ports -> Pairings] /\ open' \subseteq open
    BY <1>8 DEF SendHello, TypeOK
  <2> QED
    BY <1>8, <2>1 DEF SendHello, TypeOK, storage
<1>9. ASSUME NEW p \in Ports, HostResumes(p) PROVE TypeOK'
  <2>1. [type |-> "bridge.ready", pairing |-> hello[p]] \in Answers
    BY <1>2
  <2>2. stage' \in [Ports -> Stages] /\ answer' \in [Ports -> Answers]
    BY <1>9, <2>1 DEF HostResumes, TypeOK
  <2> QED
    BY <1>9, <2>2 DEF HostResumes, TypeOK, worker, storage
<1>10. ASSUME NEW p \in Ports, HostPairs(p) PROVE TypeOK'
  <2>1. drawn \in 0..MaxPairings /\ drawn' = drawn + 1 /\ drawn' \in 0..MaxPairings
    BY <1>10 DEF HostPairs, TypeOK
  <2>2. [install |-> hello[p].install, id |-> drawn'] \in Pairings
    BY <1>2, <2>1 DEF Pairings
  <2>3. [type |-> "bridge.paired", pairing |-> [install |-> hello[p].install, id |-> drawn']]
            \in Answers
    BY <2>2
  <2>4. stage' \in [Ports -> Stages] /\ answer' \in [Ports -> Answers] /\ active' \subseteq Pairings
    BY <1>10, <2>2, <2>3 DEF HostPairs, TypeOK
  <2>5. bridgeClient \in [port : 0..ports, id : 0..drawn']
    BY <2>1 DEF TypeOK
  <2> QED
    BY <1>10, <2>1, <2>4, <2>5 DEF HostPairs, TypeOK, worker, storage
<1>11. ASSUME NEW p \in Ports, HostRefuses(p) PROVE TypeOK'
  BY <1>11 DEF HostRefuses, TypeOK, worker, storage
<1>12. ASSUME NEW p \in Ports, HostEnds(p) PROVE TypeOK'
  BY <1>12 DEF HostEnds, TypeOK, worker, storage
<1>13. ASSUME NEW p \in Ports, Receive(p) PROVE TypeOK'
  <2>1. stage' \in [Ports -> Stages]
    BY <1>13 DEF Receive, TypeOK
  <2> QED
    BY <1>13, <2>1 DEF Receive, TypeOK, worker, storage
<1>14. ASSUME NEW p \in Ports, Accept(p) PROVE TypeOK'
  <2>1. stage' \in [Ports -> Stages] /\ localPairing' \in Pairings
    BY <1>14, <1>2 DEF Accept, TypeOK
  <2> QED
    BY <1>14, <2>1 DEF Accept, TypeOK
<1>15. ASSUME NEW p \in Ports, Adopt(p) PROVE TypeOK'
  <2>1. stage' \in [Ports -> Stages] /\ pairingState' \in Pairings
    BY <1>15, <1>2 DEF Adopt, TypeOK
  <2>2. answer[p].pairing.id \in 0..drawn
    BY <1>2 DEF IdsDrawn, Pairings, TypeOK
  <2>3. bridgeClient' \in [port : 0..ports, id : 0..drawn]
    BY <1>15, <2>2 DEF Adopt, TypeOK
  <2> QED
    BY <1>15, <2>1, <2>3 DEF Adopt, TypeOK, storage
<1>16. ASSUME NEW e \in Events, Applies(e)
       PROVE  controlState' \in States /\ sessionState' \in States \cup {"none"}
  BY <1>16, AppliesFacts DEF TypeOK
<1>17. ASSUME NEW p \in Ports, Connected(p) PROVE TypeOK'
  <2>1. stage' \in [Ports -> Stages]
    BY <1>17 DEF Connected, TypeOK
  <2>2. controlState' \in States /\ sessionState' \in States \cup {"none"}
    BY <1>17, <1>16 DEF Connected, Events
  <2> QED
    BY <1>17, <2>1, <2>2 DEF Connected, TypeOK
<1>18. ASSUME NEW p \in Ports, PortGone(p) PROVE TypeOK'
  <2>1. controlState' \in States /\ sessionState' \in States \cup {"none"}
    BY <1>18, <1>16 DEF PortGone, Events
  <2> QED
    BY <1>1, <1>18, <2>1 DEF PortGone, TypeOK, None
<1>19. ASSUME NEW e \in {"pause", "takeover", "resume", "approve", "deny"}, UserEvent(e)
       PROVE  TypeOK'
  <2>1. controlState' \in States /\ sessionState' \in States \cup {"none"}
    BY <1>19, <1>16 DEF UserEvent, Events
  <2>2. takenOver' \in BOOLEAN
    BY <1>19 DEF UserEvent, TypeOK
  <2> QED
    BY <1>19, <2>1, <2>2 DEF UserEvent, TypeOK, links
<1>20. ASSUME NEW e \in {"stop", "disconnect"}, EndSession(e) PROVE TypeOK'
  <2>1. controlState' \in States /\ sessionState' \in States \cup {"none"}
    BY <1>20, <1>16 DEF EndSession, Events
  <2>2. takenOver' \in BOOLEAN /\ teardowns' \subseteq {"stop", "disconnect"}
    BY <1>20 DEF EndSession, TypeOK
  <2> QED
    BY <1>20, <2>1, <2>2 DEF EndSession, TypeOK, links
<1>21. ASSUME NEW e \in {"stop", "disconnect"}, TearDown(e) PROVE TypeOK'
  <2>1. localPairing' \in Pairings
    BY <1>1, <1>21 DEF TearDown, TypeOK
  <2> QED
    BY <1>1, <1>21, <2>1 DEF TearDown, TypeOK, None
<1>22. ASSUME ResetPairing PROVE TypeOK'
  BY <1>1, <1>22 DEF ResetPairing, TypeOK, links
<1>23. ASSUME ForgetPairing PROVE TypeOK'
  <2>1. pairingState' \in Pairings
    BY <1>1, <1>23 DEF ForgetPairing, TypeOK
  <2> QED
    BY <1>23, <2>1 DEF ForgetPairing, TypeOK, storage, links
<1>24. ASSUME UNCHANGED vars PROVE TypeOK'
  BY <1>24 DEF vars, storage, links, TypeOK
<1> QED
  BY <1>3, <1>4, <1>5, <1>6, <1>7, <1>8, <1>9, <1>10, <1>11, <1>12, <1>13, <1>14, <1>15,
     <1>17, <1>18, <1>19, <1>20, <1>21, <1>22, <1>23, <1>24 DEF Next

LEMMA IdsDrawnStep ==
    ASSUME TypeOK, IdsDrawn, [Next]_vars
    PROVE  IdsDrawn'
<1>1. /\ answer \in [Ports -> [type : {"none", "bridge.paired", "bridge.ready"},
                               pairing : Pairings]]
      /\ hello \in [Ports -> Pairings] /\ drawn \in Nat /\ active \subseteq Pairings
  BY DEF TypeOK
<1>2. ASSUME UNCHANGED <<answer, active, drawn>> PROVE IdsDrawn'
  BY <1>2 DEF IdsDrawn
<1>3. ASSUME NEW p \in Ports, HostResumes(p) PROVE IdsDrawn'
  <2>1. /\ answer' = [answer EXCEPT ![p] = [type |-> "bridge.ready", pairing |-> hello[p]]]
        /\ UNCHANGED <<active, drawn>> /\ hello[p] \in active
    BY <1>3 DEF HostResumes
  <2>2. \A r \in Ports : answer'[r].pairing = IF r = p THEN hello[p] ELSE answer[r].pairing
    BY <1>1, <2>1
  <2> QED
    BY <2>1, <2>2 DEF IdsDrawn
<1>4. ASSUME NEW p \in Ports, HostPairs(p) PROVE IdsDrawn'
  <2> DEFINE new == [install |-> hello[p].install, id |-> drawn + 1]
  <2>1. /\ answer' = [answer EXCEPT ![p] = [type |-> "bridge.paired", pairing |-> new]]
        /\ active' \subseteq active \cup {new} /\ drawn' = drawn + 1
    BY <1>4 DEF HostPairs
  <2>2. \A r \in Ports : answer'[r].pairing = IF r = p THEN new ELSE answer[r].pairing
    BY <1>1, <2>1
  <2>3. new.id = drawn + 1
    OBVIOUS
  <2>4. \A q \in active : q.id \in Nat /\ q.id <= drawn
    BY <1>1, ParametersAssumption DEF IdsDrawn, Pairings
  <2>5. \A r \in Ports : answer[r].pairing.id \in Nat /\ answer[r].pairing.id <= drawn
    <3> TAKE r \in Ports
    <3>1. answer[r].pairing \in Pairings
      BY <1>1
    <3> QED
      BY <3>1, ParametersAssumption DEF IdsDrawn, Pairings
  <2> HIDE DEF new
  <2>6. \A q \in active' : q.id <= drawn'
    BY <1>1, <2>1, <2>3, <2>4
  <2>7. \A r \in Ports : answer'[r].pairing.id <= drawn'
    BY <1>1, <2>1, <2>2, <2>3, <2>5
  <2> QED
    BY <2>6, <2>7 DEF IdsDrawn
<1> QED
  BY <1>2, <1>3, <1>4 DEF Next, Boot, Opens, LoadState, LoadPairing, Die, Connect, SendHello,
     HostRefuses, HostEnds, Receive, Accept, Adopt, Connected, PortGone, UserEvent, EndSession,
     TearDown, ResetPairing, ForgetPairing, vars, links
-----------------------------------------------------------------------------
(***************************************************************************)
(* What belongs to a worker, and its client                                *)
(***************************************************************************)
LEMMA LifetimeStep ==
    ASSUME TypeOK, Lifetime, [Next]_vars
    PROVE  Lifetime'
<1>1. stage \in [Ports -> {"off", "opening", "greeted", "answered", "checking", "accepted",
                           "adopted", "over"}]
  BY DEF TypeOK
<1>2. ASSUME Opens, alive', alive => UNCHANGED <<stateReady, pairingReady>>
      PROVE  Lifetime'
  <2>1. stage' = [stage EXCEPT ![ports'] = "opening"] /\ ports' \in Ports
    BY <1>2, OpensTypes, ParametersAssumption DEF Opens, Ports
  <2>2. hosts' = {ports'} /\ open' = open \cup {ports'}
    BY <1>2 DEF Opens
  <2>3. \A p \in Ports : stage'[p] = IF p = ports' THEN "opening" ELSE stage[p]
    BY <1>1, <2>1
  <2>4. \A p \in Ports :
          /\ stage'[p] \in Handling => stateReady' /\ pairingReady'
          /\ p \in open' /\ stage'[p] # "opening" => stateReady' /\ pairingReady'
          /\ p \in hosts' => stage'[p] = "opening"
    BY <1>2, <2>2, <2>3 DEF Lifetime, Handling
  <2> QED
    BY <1>2, <2>4 DEF Lifetime
<1>3. ASSUME Boot PROVE Lifetime'
  BY <1>2, <1>3 DEF Boot, Lifetime
<1>4. ASSUME Connect PROVE Lifetime'
  BY <1>2, <1>4 DEF Connect
<1>5. ASSUME LoadState PROVE Lifetime'
  BY <1>5 DEF LoadState, links, Lifetime
<1>6. ASSUME LoadPairing PROVE Lifetime'
  BY <1>6 DEF LoadPairing, links, Lifetime
<1>7. ASSUME Die PROVE Lifetime'
  <2>1. \A p \in Ports : stage'[p] \in {"off", "greeted", "over"}
    BY <1>1, <1>7 DEF Die
  <2> QED
    BY <1>7, <2>1 DEF Die, Lifetime, Handling
<1>8. ASSUME NEW p \in Ports, SendHello(p) PROVE Lifetime'
  <2>1. /\ alive /\ stateReady /\ pairingReady
        /\ \A q \in Ports : stage'[q] = stage[q] \/ stage'[q] \in {"greeted", "over"}
        /\ UNCHANGED <<alive, stateReady, pairingReady>>
    BY <1>1, <1>8 DEF SendHello
  <2> QED
    BY <2>1 DEF Lifetime, Handling
<1>9. ASSUME NEW p \in Ports, HostResumes(p) \/ HostPairs(p) PROVE Lifetime'
  <2>1. /\ \A q \in Ports : IF q = p THEN stage[q] = "greeted" /\ stage'[q] = "answered"
                            ELSE stage'[q] = stage[q]
        /\ UNCHANGED <<worker, open, hosts>>
    BY <1>1, <1>9 DEF HostResumes, HostPairs
  <2> QED
    BY <2>1 DEF Lifetime, Handling, worker
<1>10. ASSUME NEW p \in Ports, HostRefuses(p) \/ HostEnds(p) PROVE Lifetime'
  BY <1>10 DEF HostRefuses, HostEnds, worker, Lifetime
<1>11. ASSUME NEW p \in Ports, Receive(p) PROVE Lifetime'
  <2>1. /\ alive /\ p \in open /\ stage[p] = "answered"
        /\ \A q \in Ports : q # p => stage'[q] = stage[q]
        /\ stage'[p] \in {"checking", "over"}
        /\ UNCHANGED <<worker, open, hosts>>
    BY <1>1, <1>11 DEF Receive
  <2> QED
    BY <2>1 DEF Lifetime, Handling, worker
<1>12. ASSUME NEW p \in Ports, Accept(p) \/ Adopt(p) \/ Connected(p) PROVE Lifetime'
  <2>1. /\ stage[p] \in Handling
        /\ \A q \in Ports : q # p => stage'[q] = stage[q]
        /\ stage'[p] \in {"accepted", "adopted", "over"}
        /\ UNCHANGED <<alive, stateReady, pairingReady, nativePort, teardowns, resets, open,
                       hosts>>
    BY <1>1, <1>12 DEF Accept, Adopt, Connected, Handling
  <2>2. alive /\ stateReady /\ pairingReady
    BY <2>1 DEF Lifetime
  <2> QED
    BY <2>1, <2>2 DEF Lifetime, Handling
<1>13. ASSUME NEW p \in Ports, PortGone(p) PROVE Lifetime'
  BY <1>13 DEF PortGone, Lifetime
<1>14. ASSUME NEW e \in {"pause", "takeover", "resume", "approve", "deny"}, UserEvent(e)
       PROVE  Lifetime'
  BY <1>14 DEF UserEvent, links, Lifetime
<1>15. ASSUME NEW e \in {"stop", "disconnect"}, EndSession(e) PROVE Lifetime'
  BY <1>15 DEF EndSession, links, Lifetime
<1>16. ASSUME NEW e \in {"stop", "disconnect"}, TearDown(e) PROVE Lifetime'
  BY <1>16 DEF TearDown, Lifetime
<1>17. ASSUME ResetPairing \/ ForgetPairing PROVE Lifetime'
  BY <1>17 DEF ResetPairing, ForgetPairing, links, Lifetime
<1>18. ASSUME UNCHANGED vars PROVE Lifetime'
  BY <1>18 DEF vars, links, Lifetime
<1> QED
  BY <1>3, <1>4, <1>5, <1>6, <1>7, <1>8, <1>9, <1>10, <1>11, <1>12, <1>13, <1>14, <1>15, <1>16,
     <1>17, <1>18 DEF Next

LEMMA ClientStep ==
    ASSUME TypeOK, Lifetime, ClientHere, [Next]_vars
    PROVE  ClientHere'
<1>1. ASSUME Boot \/ Connect PROVE ClientHere'
  <2>1. Opens /\ bridgeClient = NoClient /\ bridgeClient' = bridgeClient
    BY <1>1 DEF Boot, Connect, Lifetime, ClientHere
  <2> QED
    BY <2>1 DEF Opens, ClientHere
<1>2. ASSUME NEW p \in Ports, Adopt(p) PROVE ClientHere'
  BY <1>2 DEF Adopt, ClientHere
<1>3. ASSUME \/ Die
             \/ \E p \in Ports : PortGone(p)
             \/ \E e \in {"stop", "disconnect"} : TearDown(e)
      PROVE  ClientHere'
  BY <1>3 DEF Die, PortGone, TearDown, ClientHere
<1>4. ASSUME UNCHANGED <<nativePort, bridgeClient, stopped>> PROVE ClientHere'
  BY <1>4 DEF ClientHere
<1> QED
  BY <1>1, <1>2, <1>3, <1>4 DEF Next, LoadState, LoadPairing, SendHello, HostResumes, HostPairs,
     HostRefuses, HostEnds, Receive, Accept, Connected, UserEvent, EndSession, ResetPairing,
     ForgetPairing, vars, worker

-----------------------------------------------------------------------------
(***************************************************************************)
(* The takeover                                                            *)
(***************************************************************************)
LEMMA AppliesKeeps ==
    ASSUME TypeOK, TakeoverKept, NEW e \in Events, Applies(e),
           stateReady \/ e # "bridge.connected"
    PROVE  /\ ~stateReady => UNCHANGED <<controlState, sessionState>>
           /\ controlState' # "disconnected" => sessionState' = controlState'
           /\ takenOver /\ e \notin {"resume", "stop", "disconnect"} =>
                 UNCHANGED <<controlState, sessionState>>
<1>1. controlState \in States /\ sessionState \in States \cup {"none"}
  BY DEF TypeOK
<1> QED
  BY <1>1, Effects, AppliesFacts DEF TakeoverKept

LEMMA TakeoverStep ==
    ASSUME TypeOK, Lifetime, TakeoverKept, [Next]_vars
    PROVE  TakeoverKept'
<1>1. ASSUME Boot \/ Die PROVE TakeoverKept'
  BY <1>1 DEF Boot, Die, storage, TakeoverKept
<1>2. ASSUME LoadState PROVE TakeoverKept'
  BY <1>2 DEF LoadState, storage, States, TakeoverKept
<1>3. ASSUME NEW p \in Ports, Connected(p) PROVE TakeoverKept'
  <2>1. stateReady /\ Applies("bridge.connected") /\ UNCHANGED <<stateReady, takenOver>>
    BY <1>3 DEF Connected, Lifetime, Handling
  <2> QED
    BY <2>1, AppliesKeeps DEF Events, TakeoverKept
<1>4. ASSUME NEW p \in Ports, PortGone(p) PROVE TakeoverKept'
  <2>1. Applies("bridge.disconnected") /\ UNCHANGED <<stateReady, takenOver>>
    BY <1>4 DEF PortGone
  <2> QED
    BY <2>1, AppliesKeeps DEF Events, TakeoverKept
<1>5. ASSUME NEW e \in {"pause", "takeover", "approve", "deny"}, UserEvent(e)
      PROVE  TakeoverKept'
  <2>1. /\ Applies(e) /\ UNCHANGED stateReady
        /\ takenOver' => takenOver \/ controlState' = "human-control"
    BY <1>5 DEF UserEvent
  <2>2. /\ ~stateReady => UNCHANGED <<controlState, sessionState>>
        /\ controlState' # "disconnected" => sessionState' = controlState'
        /\ takenOver => UNCHANGED <<controlState, sessionState>>
    BY <2>1, AppliesKeeps DEF Events
  <2> QED
    BY <2>1, <2>2 DEF TakeoverKept
<1>6. ASSUME NEW e \in {"resume", "stop", "disconnect"}, UserEvent(e) \/ EndSession(e),
             takenOver' => takenOver /\ controlState # "human-control"
      PROVE  TakeoverKept'
  <2>1. Applies(e) /\ UNCHANGED stateReady
    BY <1>6 DEF UserEvent, EndSession
  <2>2. /\ ~stateReady => UNCHANGED <<controlState, sessionState>>
        /\ controlState' # "disconnected" => sessionState' = controlState'
    BY <2>1, AppliesKeeps DEF Events
  <2> QED
    BY <1>6, <2>1, <2>2 DEF TakeoverKept
<1>7. ASSUME UserEvent("resume") PROVE TakeoverKept'
  BY <1>6, <1>7 DEF UserEvent
<1>8. ASSUME NEW e \in {"stop", "disconnect"}, EndSession(e) PROVE TakeoverKept'
  BY <1>6, <1>8 DEF EndSession
<1>9. ASSUME UNCHANGED <<controlState, stateReady, sessionState, takenOver>>
      PROVE  TakeoverKept'
  BY <1>9 DEF TakeoverKept
<1> QED
  BY <1>1, <1>2, <1>3, <1>4, <1>5, <1>7, <1>8, <1>9 DEF Next, LoadPairing, Connect, SendHello,
     HostResumes, HostPairs, HostRefuses, HostEnds, Receive, Accept, Adopt, TearDown,
     ResetPairing, ForgetPairing, vars, worker, storage
-----------------------------------------------------------------------------
(***************************************************************************)
(* The pairings                                                            *)
(***************************************************************************)
\* What may become the worker's after a step, taken apart.
LEMMA HeldNext ==
    ASSUME NEW S, localPairing' \in S, pairingState' \in S,
           \A p \in Ports : Presents(p)' => hello'[p] \in S,
           \A p \in Ports : Brings(p)' => answer'[p].pairing \in S
    PROVE  Held' \subseteq S
BY DEF Held, Ports

LEMMA HeldNow ==
    /\ localPairing \in Held /\ pairingState \in Held
    /\ \A p \in Ports : Presents(p) => hello[p] \in Held
    /\ \A p \in Ports : Brings(p) => answer[p].pairing \in Held
BY DEF Held

\* As long as nothing new comes in and the host forgets nothing.
LEMMA AgreeShrinks ==
    ASSUME Agree, Held' \subseteq Held \cup {NoPairing}, UNCHANGED active
    PROVE  Agree'
BY DEF Agree, NoPairing

\* A step that makes no handshake bring anything it did not bring before.
LEMMA AgreeQuiet ==
    ASSUME TypeOK, Agree, UNCHANGED <<hello, answer, active>>,
           localPairing' \in Held \cup {NoPairing}, pairingState' \in Held \cup {NoPairing},
           \A p \in Ports : Presents(p)' => Presents(p),
           \A p \in Ports : Brings(p)' => Brings(p)
    PROVE  Agree'
<1>1. \A p \in Ports : Presents(p)' => hello'[p] \in Held \cup {NoPairing}
  BY HeldNow
<1>2. \A p \in Ports : Brings(p)' => answer'[p].pairing \in Held \cup {NoPairing}
  BY HeldNow
<1>3. Held' \subseteq Held \cup {NoPairing}
  BY <1>1, <1>2, HeldNext
<1> QED
  BY <1>3, AgreeShrinks

\* A fresh installation is drawn when nothing else is about.
LEMMA AgreeFresh ==
    ASSUME TypeOK, Lifetime, LoadedFromStorage, LoadPairing, pairingState = NoPairing
    PROVE  Agree'
<1>1. /\ alive /\ ~pairingReady /\ localPairing = NoPairing
      /\ pairingState' = [install |-> installs + 1, id |-> None] /\ localPairing' = pairingState'
      /\ UNCHANGED <<stage, hosts, open>>
  BY DEF LoadPairing, LoadedFromStorage, links
<1>2. \A p \in Ports : ~Presents(p)' /\ ~Brings(p)'
  BY <1>1 DEF Lifetime, Presents, Brings, Handling
<1>3. Held' \subseteq {pairingState'}
  BY <1>1, <1>2, HeldNext
<1>4. installs + 1 # None
  BY DEF TypeOK, None
<1>5. pairingState'.install # None /\ pairingState'.id = None
  BY <1>1, <1>4
<1> QED
  BY <1>3, <1>5 DEF Agree

\* A host makes a pairing for the installation every pairing held is of, so
\* it displaces none of them.
LEMMA AgreePairs ==
    ASSUME TypeOK, Agree, HelloNamed, NEW p \in Ports, HostPairs(p)
    PROVE  Agree'
<1> DEFINE new == [install |-> hello[p].install, id |-> drawn + 1]
<1>1. /\ p \in hosts /\ stage[p] = "greeted"
      /\ answer' = [answer EXCEPT ![p] = [type |-> "bridge.paired", pairing |-> new]]
      /\ active' = {q \in active : q.install = hello[p].install} \cup {new}
      /\ stage' = [stage EXCEPT ![p] = "answered"]
      /\ UNCHANGED <<localPairing, pairingState, hosts, open, hello>>
  BY DEF HostPairs, worker, storage
<1>2. \A r \in Ports : /\ stage'[r] = IF r = p THEN "answered" ELSE stage[r]
                       /\ answer'[r].pairing = IF r = p THEN new ELSE answer[r].pairing
  BY <1>1 DEF TypeOK
<1>3. new.install = hello[p].install /\ new.install # None
  BY <1>1 DEF HelloNamed
<1>4. hello[p] \in Held /\ hello[p].install # None
  BY <1>1, HeldNow DEF Presents, HelloNamed
<1> HIDE DEF new
<1>5. \A r \in Ports : Presents(r)' => hello'[r] \in Held \cup {new}
  BY <1>1, <1>2, HeldNow DEF Presents
<1>6. \A r \in Ports : Brings(r)' => answer'[r].pairing \in Held \cup {new}
  BY <1>1, <1>2, HeldNow DEF Brings
<1>7. Held' \subseteq Held \cup {new}
  BY <1>1, <1>5, <1>6, HeldNow, HeldNext
<1>8. \A x \in Held : x.install # None => x.install = hello[p].install
  BY <1>4 DEF Agree
<1>9. \A x \in Held \cup {new} : /\ x.id # None => x \in active'
                                 /\ x.install = None => x.id = None
                                 /\ x.install # None => x.install = hello[p].install
  BY <1>1, <1>3, <1>8 DEF Agree
<1> QED
  BY <1>7, <1>9 DEF Agree

\* The pairings that may become the worker's go on agreeing.
\* The pairings that may become the worker's go on agreeing.
LEMMA AgreeStep ==
    ASSUME TypeOK, Lifetime, Agree, HelloNamed, LoadedFromStorage, [Next]_vars
    PROVE  Agree'
<1>1. stage \in [Ports -> {"off", "opening", "greeted", "answered", "checking", "accepted",
                           "adopted", "over"}]
  BY DEF TypeOK
<1>3. ASSUME Boot \/ Connect PROVE Agree'
  <2>1. /\ stage' = [stage EXCEPT ![ports'] = "opening"] /\ ports' \in Ports
        /\ hosts' = {ports'} /\ open' = open \cup {ports'} /\ UNCHANGED <<hello, answer, active>>
    BY <1>3, OpensTypes, ParametersAssumption DEF Boot, Connect, Opens, Ports
  <2>2. \A r \in Ports : stage'[r] = IF r = ports' THEN "opening" ELSE stage[r]
    BY <1>1, <2>1
  <2>3. \A r \in Ports : /\ Presents(r)' => Presents(r)
                         /\ Brings(r)' => Brings(r)
    BY <2>1, <2>2 DEF Presents, Brings
  <2>4. localPairing' = localPairing /\ pairingState' \in {localPairing, pairingState}
    BY <1>3 DEF Boot, Connect, storage
  <2> QED
    BY <2>1, <2>3, <2>4, AgreeQuiet, HeldNow
<1>4. ASSUME LoadPairing PROVE Agree'
  <2>1. CASE pairingState = NoPairing
    BY <1>4, <2>1, AgreeFresh
  <2>2. CASE pairingState # NoPairing
    <3>1. UNCHANGED <<localPairing, pairingState, links>>
      BY <1>4, <2>2 DEF LoadPairing
    <3> QED
      BY <3>1, AgreeQuiet, HeldNow DEF links, Presents, Brings
  <2> QED
    BY <2>1, <2>2
<1>5. ASSUME Die PROVE Agree'
  <2>1. \A r \in Ports : stage'[r] = IF stage[r] \in {"off", "greeted"} THEN stage[r] ELSE "over"
    BY <1>1, <1>5 DEF Die
  <2>2. /\ UNCHANGED <<localPairing, hello, answer, active, hosts>> /\ open' = {}
        /\ pairingState' = NoPairing
    BY <1>5 DEF Die, storage
  <2>3. \A r \in Ports : /\ Presents(r)' => Presents(r)
                         /\ Brings(r)' => Brings(r)
    BY <2>1, <2>2 DEF Presents, Brings
  <2> QED
    BY <2>2, <2>3, AgreeQuiet, HeldNow
<1>6. ASSUME NEW p \in Ports, SendHello(p) PROVE Agree'
  <2>1. /\ UNCHANGED <<localPairing, pairingState, answer, active, hosts>>
        /\ open' \subseteq open
        /\ \A r \in Ports :
              /\ r # p => stage'[r] = stage[r] /\ hello'[r] = hello[r]
              /\ r = p => \/ stage'[r] = "greeted" /\ hello'[r] = pairingState
                          \/ stage'[r] = "over"
    BY <1>1, <1>6 DEF SendHello, TypeOK, storage
  <2>2. \A r \in Ports : Presents(r)' => hello'[r] \in Held \cup {NoPairing}
    BY <2>1, HeldNow DEF Presents
  <2>3. \A r \in Ports : Brings(r)' => answer'[r].pairing \in Held \cup {NoPairing}
    BY <2>1, HeldNow DEF Brings
  <2>4. Held' \subseteq Held \cup {NoPairing}
    BY <2>1, <2>2, <2>3, HeldNow, HeldNext
  <2> QED
    BY <2>1, <2>4, AgreeShrinks
<1>7. ASSUME NEW p \in Ports, HostResumes(p) PROVE Agree'
  <2>1. /\ p \in hosts /\ stage[p] = "greeted"
        /\ UNCHANGED <<localPairing, pairingState, hello, active, hosts, open>>
        /\ answer' = [answer EXCEPT ![p] = [type |-> "bridge.ready", pairing |-> hello[p]]]
        /\ stage' = [stage EXCEPT ![p] = "answered"]
    BY <1>7 DEF HostResumes, worker, storage
  <2>2. \A r \in Ports : /\ stage'[r] = IF r = p THEN "answered" ELSE stage[r]
                         /\ answer'[r].pairing = IF r = p THEN hello[p] ELSE answer[r].pairing
    BY <2>1 DEF TypeOK
  <2>3. hello[p] \in Held
    BY <2>1, HeldNow DEF Presents
  <2>4. \A r \in Ports : Presents(r)' => hello'[r] \in Held \cup {NoPairing}
    BY <2>1, <2>2, HeldNow DEF Presents
  <2>5. \A r \in Ports : Brings(r)' => answer'[r].pairing \in Held \cup {NoPairing}
    BY <2>1, <2>2, <2>3, HeldNow DEF Brings
  <2>6. Held' \subseteq Held \cup {NoPairing}
    BY <2>1, <2>4, <2>5, HeldNow, HeldNext
  <2> QED
    BY <2>1, <2>6, AgreeShrinks
<1>8. ASSUME NEW p \in Ports, HostRefuses(p) \/ HostEnds(p) PROVE Agree'
  <2>1. /\ UNCHANGED <<localPairing, pairingState, hello, answer, active, stage, open>>
        /\ hosts' \subseteq hosts
    BY <1>8 DEF HostRefuses, HostEnds, worker, storage
  <2> QED
    BY <2>1, AgreeQuiet, HeldNow DEF Presents, Brings
<1>9. ASSUME NEW p \in Ports, Receive(p) PROVE Agree'
  <2>1. /\ p \in open /\ stage[p] = "answered"
        /\ UNCHANGED <<localPairing, pairingState, hello, answer, active, hosts, open>>
        /\ \A r \in Ports : r # p => stage'[r] = stage[r]
        /\ stage'[p] \in {"checking", "over"}
    BY <1>1, <1>9 DEF Receive, worker, storage
  <2>2. \A r \in Ports : /\ Presents(r)' => Presents(r)
                         /\ Brings(r)' => Brings(r)
    BY <2>1 DEF Presents, Brings
  <2> QED
    BY <2>1, <2>2, AgreeQuiet, HeldNow
<1>10. ASSUME NEW p \in Ports, Accept(p) \/ Adopt(p) PROVE Agree'
  <2>1. /\ stage[p] \in {"checking", "accepted"}
        /\ UNCHANGED <<hello, answer, active, hosts, open>>
        /\ localPairing' \in {localPairing, answer[p].pairing}
        /\ pairingState' \in {pairingState, answer[p].pairing}
        /\ \A r \in Ports : r # p => stage'[r] = stage[r]
        /\ stage'[p] \in {"accepted", "adopted", "over"}
    BY <1>1, <1>10 DEF Accept, Adopt, storage
  <2>2. answer[p].pairing \in Held
    BY <2>1, HeldNow DEF Brings
  <2>3. \A r \in Ports : /\ Presents(r)' => Presents(r)
                         /\ Brings(r)' => Brings(r)
    BY <2>1 DEF Presents, Brings
  <2> QED
    BY <2>1, <2>2, <2>3, AgreeQuiet, HeldNow
<1>11. ASSUME NEW p \in Ports, Connected(p) PROVE Agree'
  <2>1. /\ UNCHANGED <<localPairing, pairingState, hello, answer, active, hosts, open>>
        /\ \A r \in Ports : r # p => stage'[r] = stage[r]
        /\ stage'[p] = "over"
    BY <1>1, <1>11 DEF Connected
  <2>2. \A r \in Ports : /\ Presents(r)' => Presents(r)
                         /\ Brings(r)' => Brings(r)
    BY <2>1 DEF Presents, Brings
  <2> QED
    BY <2>1, <2>2, AgreeQuiet, HeldNow
<1>12. ASSUME /\ UNCHANGED <<hello, answer, active, hosts, stage>>
              /\ open' \subseteq open
              /\ localPairing' \in {localPairing, NoPairing}
              /\ pairingState' \in {pairingState, NoPairing}
       PROVE  Agree'
  <2>1. \A r \in Ports : /\ Presents(r)' => Presents(r)
                         /\ Brings(r)' => Brings(r)
    BY <1>12 DEF Presents, Brings
  <2> QED
    BY <1>12, <2>1, AgreeQuiet, HeldNow
<1>13. ASSUME NEW e \in {"stop", "disconnect"}, EndSession(e) \/ TearDown(e) PROVE Agree'
  BY <1>12, <1>13 DEF EndSession, TearDown, links
<1>14. ASSUME NEW e \in {"pause", "takeover", "resume", "approve", "deny"}, UserEvent(e)
       PROVE  Agree'
  BY <1>12, <1>14 DEF UserEvent, links
<1>15. ASSUME ResetPairing \/ ForgetPairing PROVE Agree'
  BY <1>12, <1>15 DEF ResetPairing, ForgetPairing, links, storage
<1>16. ASSUME NEW p \in Ports, PortGone(p) PROVE Agree'
  BY <1>12, <1>16 DEF PortGone
<1>17. ASSUME LoadState \/ UNCHANGED vars PROVE Agree'
  BY <1>12, <1>17 DEF LoadState, vars, links, storage
<1> QED
  BY <1>3, <1>4, <1>5, <1>6, <1>7, <1>8, <1>9, <1>10, <1>11, <1>13, <1>14, <1>15, <1>16, <1>17,
     AgreePairs DEF Next

\* A hello names an installation; nothing to name, nothing sent.
LEMMA HelloStep ==
    ASSUME TypeOK, Agree, HelloNamed, [Next]_vars
    PROVE  HelloNamed'
<1>1. stage \in [Ports -> {"off", "opening", "greeted", "answered", "checking", "accepted",
                           "adopted", "over"}]
  BY DEF TypeOK
<1>2. ASSUME NEW p \in Ports, SendHello(p) PROVE HelloNamed'
  <2>1. /\ \A r \in Ports : r # p => stage'[r] = stage[r] /\ hello'[r] = hello[r]
        /\ stage'[p] = "greeted" => hello'[p] = pairingState /\ pairingState # NoPairing
    BY <1>1, <1>2 DEF SendHello, TypeOK
  <2>2. pairingState.install = None => pairingState = NoPairing
    BY HeldNow DEF Agree, TypeOK, Pairings, NoPairing
  <2> QED
    BY <2>1, <2>2 DEF HelloNamed
<1>3. ASSUME Opens PROVE HelloNamed'
  <2>1. ports' \in Ports /\ stage' = [stage EXCEPT ![ports'] = "opening"] /\ UNCHANGED hello
    BY <1>3, OpensTypes, ParametersAssumption DEF Opens, Ports
  <2> QED
    BY <1>1, <2>1 DEF HelloNamed
<1>4. ASSUME NEW p \in Ports, UNCHANGED hello,
             NEW s \in {"answered", "checking", "accepted", "adopted", "over"},
             stage' = [stage EXCEPT ![p] = s]
      PROVE  HelloNamed'
  BY <1>1, <1>4 DEF HelloNamed
<1>5. ASSUME Die PROVE HelloNamed'
  BY <1>1, <1>5 DEF Die, HelloNamed
<1>6. ASSUME NEW p \in Ports, Receive(p) PROVE HelloNamed'
  BY <1>4, <1>6 DEF Receive
<1>7. ASSUME NEW p \in Ports, Adopt(p) PROVE HelloNamed'
  BY <1>4, <1>7 DEF Adopt
<1>8. ASSUME NEW p \in Ports, HostResumes(p) \/ HostPairs(p) \/ Accept(p) \/ Connected(p)
      PROVE  HelloNamed'
  BY <1>4, <1>8 DEF HostResumes, HostPairs, Accept, Connected
<1>9. ASSUME UNCHANGED <<hello, stage>> PROVE HelloNamed'
  BY <1>9 DEF HelloNamed
<1> QED
  BY <1>2, <1>3, <1>5, <1>6, <1>7, <1>8, <1>9 DEF Next, Boot, Connect, LoadState, LoadPairing,
     HostRefuses, HostEnds, PortGone, UserEvent, EndSession, TearDown, ResetPairing,
     ForgetPairing, vars, links

LEMMA LoadedStep ==
    ASSUME TypeOK, Lifetime, LoadedFromStorage, [Next]_vars
    PROVE  LoadedFromStorage'
<1>1. ASSUME Boot PROVE LoadedFromStorage'
  BY <1>1 DEF Boot, LoadedFromStorage
<1>2. ASSUME LoadPairing \/ Die PROVE LoadedFromStorage'
  BY <1>2 DEF LoadPairing, Die, LoadedFromStorage
<1>3. ASSUME NEW p \in Ports, Accept(p) \/ Adopt(p) PROVE LoadedFromStorage'
  <2>1. stage[p] \in Handling /\ UNCHANGED pairingReady
    BY <1>3 DEF Accept, Adopt, Handling
  <2>2. pairingReady
    BY <2>1 DEF Lifetime
  <2> QED
    BY <2>1, <2>2 DEF LoadedFromStorage
<1>4. ASSUME /\ UNCHANGED <<alive, pairingReady>>
             /\ localPairing' \in {localPairing, NoPairing}
             /\ pairingReady \/ UNCHANGED pairingState
      PROVE  LoadedFromStorage'
  BY <1>4 DEF LoadedFromStorage
<1> QED
  BY <1>1, <1>2, <1>3, <1>4 DEF Next, LoadState, Connect, SendHello, HostResumes, HostPairs,
     HostRefuses, HostEnds, Receive, Connected, PortGone, UserEvent, EndSession, TearDown,
     ResetPairing, ForgetPairing, vars, worker, storage, links

-----------------------------------------------------------------------------
LEMMA InvInit == Init => IInv
<1> SUFFICES ASSUME Init PROVE IInv
  OBVIOUS
<1>1. \A p \in Ports : /\ stage[p] = "off" /\ hello[p] = NoPairing
                       /\ answer[p].pairing = NoPairing
  BY DEF Init
<1>2. Lifetime /\ ClientHere /\ TakeoverKept /\ HelloNamed /\ LoadedFromStorage
  BY <1>1 DEF Init, Lifetime, Handling, ClientHere, TakeoverKept, HelloNamed, LoadedFromStorage
<1>3. \A p \in Ports : ~Presents(p) /\ ~Brings(p)
  BY <1>1 DEF Presents, Brings
<1>4. Held \subseteq {NoPairing}
  BY <1>3 DEF Init, Held
<1>5. Agree
  BY <1>4 DEF Agree, NoPairing
<1>6. IdsDrawn
  BY <1>1 DEF Init, IdsDrawn, NoPairing, None
<1> QED
  BY <1>2, <1>5, <1>6, TypeInit DEF IInv

LEMMA InvStep == IInv /\ [Next]_vars => IInv'
BY TypeStep, LifetimeStep, ClientStep, TakeoverStep, AgreeStep, HelloStep, LoadedStep,
   IdsDrawnStep DEF IInv

(***************************************************************************)
(* The inductive invariant of the worker's session: what it has it has     *)
(* from its own lifetime, a takeover is in the session storage, and the    *)
(* pairings that may become its own agree with each other and with the     *)
(* host (extension/service-worker.js, pairing-state.js, control-state.js). *)
(***************************************************************************)
THEOREM Invariance == Spec => []IInv
<1>1. Init => IInv
  BY InvInit
<1>2. IInv /\ [Next]_vars => IInv'
  BY InvStep
<1> QED
  BY <1>1, <1>2, PTL DEF Spec

(***************************************************************************)
(* Every variable of the session keeps its type, and a client carries a    *)
(* pairing id the host has drawn.                                          *)
(***************************************************************************)
THEOREM TypeCorrect == Spec => []TypeOK
<1>1. IInv => TypeOK
  BY DEF IInv
<1> QED
  BY <1>1, Invariance, PTL

(***************************************************************************)
(* A handler that was on its way when its port went away makes a client    *)
(* for the port in use or none at all, and none once stop or disconnect    *)
(* has torn the bridge down (acceptPairingResponse() after its awaits).    *)
(***************************************************************************)
THEOREM ClientWhereItMayBe == Spec => []ClientInv
<1>1. IInv => ClientInv
  BY DEF IInv, ClientInv, ClientHere, ClientOnCurrentPort, StoppedHasNoClient
<1> QED
  BY <1>1, Invariance, PTL

(***************************************************************************)
(* Nobody but the user ends a takeover: no lost bridge, no handshake that  *)
(* completes late, no restart of the worker (applyControlTransition() and  *)
(* loadPersistedControlState()).                                           *)
(***************************************************************************)
THEOREM TakeoverLasts == Spec => []TakeoverHolds
<1>1. IInv => TakeoverHolds
  BY DEF IInv, TakeoverKept, TakeoverHolds
<1> QED
  BY <1>1, Invariance, PTL

(***************************************************************************)
(* The worker never presents a pairing the host has displaced, however     *)
(* resets, stops, restarts and late answers fall (loadOrCreatePairingState *)
(* and acceptPairingResponse() in service-worker.js, against the host's    *)
(* pairing file).                                                          *)
(***************************************************************************)
THEOREM PairingIsKnown == Spec => []PresentsKnownPairing
<1>1. IInv => PresentsKnownPairing
  BY HeldNow DEF IInv, Agree, PresentsKnownPairing
<1> QED
  BY <1>1, Invariance, PTL
=============================================================================
