----------------------------- MODULE NativeHost -----------------------------
(***************************************************************************)
(* The native messaging host (src/native-host.ts): processes that the      *)
(* browser starts for one connection each, and the two files they share,   *)
(* the pairing records (src/native-pairing-registry.ts, -store.ts) and the *)
(* replay journal (src/native-replay-store.ts).                            *)
(*                                                                         *)
(* Nothing locks the files: any number of processes read at once, two      *)
(* browsers or a process with input left beside its successor, each with   *)
(* its own copy of what the files held when it started.  A process handles *)
(* messages one by one, each up to the end of its handler, while calls to  *)
(* tools run on; a save is cut at the rename that makes it visible.  A     *)
(* message is named by its replay key; it may be delivered any number of   *)
(* times, at any time.  A message or frame that is refused ends the        *)
(* process, and so does a failed save (Fail).                              *)
(***************************************************************************)
EXTENDS Integers, Sequences, FiniteSets

CONSTANTS
    Hosts,          \* processes
    Installs,       \* installations of the extension, on one profile
    Requests,       \* authenticated bridge.request messages
    Cancels,        \* authenticated bridge.cancel messages
    Target,         \* the request that a cancel names
    SignedFor,      \* the pairing whose secret signs a message
    Malformed,      \* messages whose payload does not parse
    ReplayLimit,    \* DEFAULT_NATIVE_REPLAY_LIMIT
    MaxWork         \* bound for TLC: pairings drawn, messages accepted, crashes

Messages == Requests \cup Cancels

ASSUME ParametersAssumption ==
    /\ Target \in [Cancels -> Requests]
    /\ Requests \cap Cancels = {}
    /\ SignedFor \in [Messages -> Nat \ {0}]
    /\ Malformed \subseteq Messages
    /\ Messages \cap Nat = {}
    /\ ReplayLimit \in Nat \ {0}
    /\ MaxWork \in Nat

VARIABLES
    pairingFile,     \* pairing id -> record, on disk
    replayFile,      \* replay keys, oldest first, on disk
    phase,           \* of each process
    registry,        \* PairingRegistry.records
    keys,            \* replayState.keys
    activePairing,
    step,            \* what the message loop awaits, and for which message
    pending,         \* calls that run, by their number in accepted
    activeRequests,  \* calls that a cancel finds
    aborted,         \* calls whose signal was aborted
    drawn,           \* number of pairing ids drawn
    told,            \* credentials sent to the extension
    accepted,        \* messages in the order their keys reached the disk
    ran,             \* requests handed to the tools, by number, in order
    crashes,
    \* History: who wrote the files, and what they held when he read them.
    seen,            \* saves of the pairing file before a process read it
    loaded,          \* keys that had reached the disk before it read the journal
    by,              \* the process of each message in accepted
    saves            \* the saves of the pairing file

disk    == <<pairingFile, replayFile>>
calls   == <<pending, activeRequests, aborted>>
pairing == <<registry, activePairing, drawn, told>>
log     == <<accepted, ran>>
past    == <<seen, loaded, by, saves>>
vars    == <<pairingFile, replayFile, phase, registry, keys, activePairing, step,
             pending, activeRequests, aborted, drawn, told, accepted, ran, crashes,
             seen, loaded, by, saves>>

NoPairing == 0

Idle == [at |-> "idle", of |-> NoPairing]

Awaits(h, at) == phase[h] = "reading" /\ step[h].at = at

Init ==
    /\ pairingFile = <<>>
    /\ replayFile = <<>>
    /\ phase = [h \in Hosts |-> "off"]
    /\ registry = [h \in Hosts |-> <<>>]
    /\ keys = [h \in Hosts |-> <<>>]
    /\ activePairing = [h \in Hosts |-> NoPairing]
    /\ step = [h \in Hosts |-> Idle]
    /\ pending = [h \in Hosts |-> {}]
    /\ activeRequests = [h \in Hosts |-> {}]
    /\ aborted = [h \in Hosts |-> {}]
    /\ drawn = 0
    /\ told = {}
    /\ accepted = <<>>
    /\ ran = <<>>
    /\ crashes = 0
    /\ seen = [h \in Hosts |-> 0]
    /\ loaded = [h \in Hosts |-> 0]
    /\ by = <<>>
    /\ saves = <<>>

-----------------------------------------------------------------------------
(***************************************************************************)
(* A process starts, and ends                                              *)
(***************************************************************************)
\* The pairing records are read, then the journal, before any message.
Start(h) ==
    /\ phase[h] = "off"
    /\ phase' = [phase EXCEPT ![h] = "loading"]
    /\ registry' = [registry EXCEPT ![h] = pairingFile]
    /\ seen' = [seen EXCEPT ![h] = Len(saves)]
    /\ UNCHANGED <<disk, activePairing, keys, step, calls, drawn, told, log, crashes,
                   loaded, by, saves>>

LoadJournal(h) ==
    /\ phase[h] = "loading"
    /\ phase' = [phase EXCEPT ![h] = "reading"]
    /\ keys' = [keys EXCEPT ![h] = replayFile]
    /\ loaded' = [loaded EXCEPT ![h] = Len(accepted)]
    /\ UNCHANGED <<disk, pairing, step, calls, log, crashes, seen, by, saves>>

\* The message loop ends for good; what only it reads is blanked.
LeavesLoop(h) ==
    /\ registry' = [registry EXCEPT ![h] = <<>>]
    /\ keys' = [keys EXCEPT ![h] = <<>>]
    /\ activePairing' = [activePairing EXCEPT ![h] = NoPairing]
    /\ step' = [step EXCEPT ![h] = Idle]
    /\ seen' = [seen EXCEPT ![h] = 0]
    /\ loaded' = [loaded EXCEPT ![h] = 0]
    /\ UNCHANGED <<disk, drawn, told, log, by, saves>>

EndOfInput(h) ==
    /\ Awaits(h, "idle")
    /\ phase' = [phase EXCEPT ![h] = "draining"]
    /\ LeavesLoop(h)
    /\ UNCHANGED <<calls, crashes>>

\* Whatever is refused: a frame, a hello, a signature, a deadline, a key that
\* was seen before; or a file cannot be read or saved.
Fail(h) ==
    /\ \/ phase[h] = "loading"
       \/ Awaits(h, "idle")
       \/ Awaits(h, "pairing")
       \/ Awaits(h, "storing")
    /\ phase' = [phase EXCEPT ![h] = "failing"]
    /\ LeavesLoop(h)
    /\ UNCHANGED <<calls, crashes>>

\* After allSettled, or when closing the bridge has rejected what still runs.
Exit(h) ==
    /\ phase[h] \in {"draining", "failing"}
    /\ pending[h] = {}
    /\ phase' = [phase EXCEPT ![h] = "off"]
    /\ UNCHANGED <<disk, pairing, keys, step, calls, log, crashes, past>>

Crash(h) ==
    /\ drawn + Len(accepted) + crashes < MaxWork
    /\ phase[h] # "off"
    /\ phase' = [phase EXCEPT ![h] = "off"]
    /\ LeavesLoop(h)
    /\ pending' = [pending EXCEPT ![h] = {}]
    /\ activeRequests' = [activeRequests EXCEPT ![h] = {}]
    /\ aborted' = [aborted EXCEPT ![h] = {}]
    /\ crashes' = crashes + 1

-----------------------------------------------------------------------------
(***************************************************************************)
(* bridge.hello                                                            *)
(***************************************************************************)
\* Mutant: a revoked pairing is good enough.
HelloResumes_Revoked(h, install, id) ==
    /\ Awaits(h, "idle")
    /\ activePairing[h] = NoPairing
    /\ id \in DOMAIN registry[h]
    /\ registry[h][id].install = install
    /\ activePairing' = [activePairing EXCEPT ![h] = id]
    /\ UNCHANGED <<disk, phase, registry, keys, step, calls, drawn, told, log, crashes, past>>

HelloResumes(h, install, id) ==
    /\ Awaits(h, "idle")
    /\ activePairing[h] = NoPairing
    /\ id \in DOMAIN registry[h]
    /\ registry[h][id] = [install |-> install, status |-> "active"]
    /\ activePairing' = [activePairing EXCEPT ![h] = id]
    /\ UNCHANGED <<disk, phase, registry, keys, step, calls, drawn, told, log, crashes, past>>

\* The records once a new installation has displaced the others.
Displaced(records, install) ==
    [p \in DOMAIN records |->
        IF records[p].install = install THEN records[p]
        ELSE [records[p] EXCEPT !.status = "revoked"]]

WithPairing(records, install, id) ==
    [p \in DOMAIN records \cup {id} |->
        IF p = id THEN [install |-> install, status |-> "active"] ELSE records[p]]

\* Mutants: the others stay; the credential goes out before the file is saved.
HelloPairs_Beside(h, install) ==
    /\ Awaits(h, "idle")
    /\ activePairing[h] = NoPairing
    /\ drawn + Len(accepted) + crashes < MaxWork
    /\ drawn' = drawn + 1
    /\ registry' = [registry EXCEPT ![h] = WithPairing(registry[h], install, drawn + 1)]
    /\ step' = [step EXCEPT ![h] = [at |-> "pairing", of |-> drawn + 1]]
    /\ UNCHANGED <<disk, phase, keys, activePairing, calls, told, log, crashes, past>>

HelloPairs_TellsFirst(h, install) ==
    /\ Awaits(h, "idle")
    /\ activePairing[h] = NoPairing
    /\ drawn + Len(accepted) + crashes < MaxWork
    /\ drawn' = drawn + 1
    /\ registry' = [registry EXCEPT ![h] =
           WithPairing(Displaced(registry[h], install), install, drawn + 1)]
    /\ step' = [step EXCEPT ![h] = [at |-> "pairing", of |-> drawn + 1]]
    /\ told' = told \cup {[install |-> install, id |-> drawn + 1]}
    /\ UNCHANGED <<disk, phase, keys, activePairing, calls, log, crashes, past>>

\* A hello without a pairing id, up to the save.
HelloPairs(h, install) ==
    /\ Awaits(h, "idle")
    /\ activePairing[h] = NoPairing
    /\ drawn + Len(accepted) + crashes < MaxWork
    /\ drawn' = drawn + 1
    /\ registry' = [registry EXCEPT ![h] =
           WithPairing(Displaced(registry[h], install), install, drawn + 1)]
    /\ step' = [step EXCEPT ![h] = [at |-> "pairing", of |-> drawn + 1]]
    /\ UNCHANGED <<disk, phase, keys, activePairing, calls, told, log, crashes, past>>

\* The whole file is replaced by the records of this process.
SavePairing(h) ==
    /\ Awaits(h, "pairing")
    /\ pairingFile' = registry[h]
    /\ step' = [step EXCEPT ![h].at = "paired"]
    /\ saves' = Append(saves,
           [host |-> h, loaded |-> seen[h], id |-> step[h].of,
            install |-> registry[h][step[h].of].install])
    /\ UNCHANGED <<replayFile, phase, pairing, keys, calls, log, crashes, seen, loaded, by>>

AnswerPaired(h) ==
    /\ Awaits(h, "paired")
    /\ LET id == step[h].of
       IN  /\ activePairing' = [activePairing EXCEPT ![h] = id]
           /\ told' = told \cup {[install |-> registry[h][id].install, id |-> id]}
    /\ step' = [step EXCEPT ![h] = Idle]
    /\ UNCHANGED <<disk, phase, registry, keys, calls, drawn, log, crashes, past>>

-----------------------------------------------------------------------------
(***************************************************************************)
(* Authenticated messages: reserveAuthenticated, then the handler          *)
(***************************************************************************)
Reserve(h, m) ==
    /\ Awaits(h, "idle")
    /\ activePairing[h] = SignedFor[m]
    /\ \A i \in 1..Len(keys[h]) : keys[h][i] # m
    /\ step' = [step EXCEPT ![h] = [at |-> "storing", of |-> m]]
    /\ UNCHANGED <<disk, phase, pairing, keys, calls, log, crashes, past>>

\* [...keys, key].slice(-limit)
Recorded(ks, m) ==
    IF Len(ks) < ReplayLimit THEN Append(ks, m) ELSE Append(Tail(ks), m)

\* Mutant: the journal is kept in memory only.
SaveKey_Unsaved(h) ==
    /\ Awaits(h, "storing")
    /\ drawn + Len(accepted) + crashes < MaxWork
    /\ accepted' = Append(accepted, step[h].of)
    /\ by' = Append(by, [host |-> h, loaded |-> loaded[h]])
    /\ step' = [step EXCEPT ![h] = [at |-> "stored", of |-> Len(accepted) + 1]]
    /\ UNCHANGED <<disk, phase, pairing, keys, calls, ran, crashes, seen, loaded, saves>>

\* The whole journal is replaced by the keys of this process; from here the
\* message goes by its number.
SaveKey(h) ==
    /\ Awaits(h, "storing")
    /\ drawn + Len(accepted) + crashes < MaxWork
    /\ replayFile' = Recorded(keys[h], step[h].of)
    /\ accepted' = Append(accepted, step[h].of)
    /\ by' = Append(by, [host |-> h, loaded |-> loaded[h]])
    /\ step' = [step EXCEPT ![h] = [at |-> "stored", of |-> Len(accepted) + 1]]
    /\ UNCHANGED <<pairingFile, phase, pairing, keys, calls, ran, crashes, seen, loaded,
                   saves>>

\* The message loop goes on after the save.
Accepts(h, x) ==
    /\ Awaits(h, "stored")
    /\ step[h].of = x
    /\ keys' = [keys EXCEPT ![h] = Recorded(keys[h], accepted[x])]
    /\ step' = [step EXCEPT ![h] = Idle]

\* Mutant: a request that comes while another runs is dropped.
RunRequest_WhenFree(h, x) ==
    /\ Accepts(h, x)
    /\ accepted[x] \in Requests \ Malformed
    /\ IF pending[h] # {} THEN UNCHANGED <<calls, ran>>
       ELSE /\ pending' = [pending EXCEPT ![h] = {x}]
            /\ activeRequests' = [activeRequests EXCEPT ![h] = {x}]
            /\ ran' = Append(ran, x)
            /\ UNCHANGED aborted
    /\ UNCHANGED <<disk, phase, pairing, accepted, crashes, past>>

\* handleRequest() up to the call of the tool; activeRequests has one call for
\* a request id.
RunRequest(h, x) ==
    /\ Accepts(h, x)
    /\ accepted[x] \in Requests \ Malformed
    /\ pending' = [pending EXCEPT ![h] = @ \cup {x}]
    /\ activeRequests' = [activeRequests EXCEPT ![h] =
           {y \in @ : accepted[y] # accepted[x]} \cup {x}]
    /\ ran' = Append(ran, x)
    /\ UNCHANGED <<disk, phase, pairing, aborted, accepted, crashes, past>>

\* A request that does not parse is logged; it is never answered.
SkipRequest(h, x) ==
    /\ Accepts(h, x)
    /\ accepted[x] \in Requests \cap Malformed
    /\ UNCHANGED <<disk, phase, pairing, calls, log, crashes, past>>

CancelRequest(h, x) ==
    /\ Accepts(h, x)
    /\ accepted[x] \in Cancels \ Malformed
    /\ aborted' = [aborted EXCEPT ![h] =
           @ \cup {y \in activeRequests[h] : accepted[y] = Target[accepted[x]]}]
    /\ UNCHANGED <<disk, phase, pairing, pending, activeRequests, log, crashes, past>>

RefuseCancel(h, x) ==
    /\ Awaits(h, "stored")
    /\ step[h].of = x
    /\ accepted[x] \in Cancels \cap Malformed
    /\ phase' = [phase EXCEPT ![h] = "failing"]
    /\ LeavesLoop(h)
    /\ UNCHANGED <<calls, crashes>>

\* Mutant: a cancel still finds the call that has settled.
Finish_NotForgotten(h, x) ==
    /\ phase[h] # "off"
    /\ x \in pending[h]
    /\ pending' = [pending EXCEPT ![h] = @ \ {x}]
    /\ aborted' = [aborted EXCEPT ![h] = @ \ {x}]
    /\ UNCHANGED <<disk, phase, pairing, activeRequests, keys, step, log, crashes, past>>

\* A call settles; its response or its error is written.
Finish(h, x) ==
    /\ phase[h] # "off"
    /\ x \in pending[h]
    /\ pending' = [pending EXCEPT ![h] = @ \ {x}]
    /\ activeRequests' = [activeRequests EXCEPT ![h] =
           {y \in @ : accepted[y] # accepted[x]}]
    /\ aborted' = [aborted EXCEPT ![h] = @ \ {x}]
    /\ UNCHANGED <<disk, phase, pairing, keys, step, log, crashes, past>>

Next ==
    \E h \in Hosts :
        \/ Start(h)
        \/ LoadJournal(h)
        \/ EndOfInput(h)
        \/ Fail(h)
        \/ Exit(h)
        \/ Crash(h)
        \/ \E install \in Installs :
              \/ HelloPairs(h, install)
              \/ \E id \in DOMAIN registry[h] : HelloResumes(h, install, id)
        \/ SavePairing(h)
        \/ AnswerPaired(h)
        \/ SaveKey(h)
        \/ \E m \in Messages : Reserve(h, m)
        \/ \E x \in 1..Len(accepted) :
              \/ RunRequest(h, x)
              \/ SkipRequest(h, x)
              \/ CancelRequest(h, x)
              \/ RefuseCancel(h, x)
        \/ \E x \in pending[h] : Finish(h, x)

Spec == Init /\ [][Next]_vars

-----------------------------------------------------------------------------
Record == [install : Installs, status : {"active", "revoked"}]

Steps == [at : {"idle", "pairing", "paired", "stored"}, of : Nat]
            \cup [at : {"storing"}, of : Messages]

\* The records of a file or of a process.
IsRegistry(records) ==
    /\ DOMAIN records \subseteq 1..drawn
    /\ records \in [DOMAIN records -> Record]

PairingsOK ==
    /\ drawn \in Nat
    /\ IsRegistry(pairingFile)
    /\ DOMAIN registry = Hosts
    /\ \A h \in Hosts : IsRegistry(registry[h])
    /\ activePairing \in [Hosts -> 0..drawn]
    /\ told \in SUBSET [install : Installs, id : 1..drawn]
    /\ saves \in Seq([host : Hosts, loaded : Nat, id : Nat, install : Installs])
    /\ seen \in [Hosts -> 0..Len(saves)]

MessagesOK ==
    /\ phase \in [Hosts -> {"off", "loading", "reading", "draining", "failing"}]
    /\ step \in [Hosts -> Steps]
    /\ replayFile \in Seq(Messages)
    /\ keys \in [Hosts -> Seq(Messages)]
    /\ accepted \in Seq(Messages)
    /\ ran \in Seq(1..Len(accepted))
    /\ crashes \in Nat
    /\ by \in Seq([host : Hosts, loaded : Nat])
    /\ Len(by) = Len(accepted)
    /\ loaded \in [Hosts -> 0..Len(accepted)]

CallsOK ==
    /\ pending \in [Hosts -> SUBSET (1..Len(accepted))]
    /\ activeRequests \in [Hosts -> SUBSET (1..Len(accepted))]
    /\ aborted \in [Hosts -> SUBSET (1..Len(accepted))]
    /\ \A h \in Hosts : /\ activeRequests[h] \subseteq pending[h]
                        /\ aborted[h] \subseteq pending[h]

TypeOK == PairingsOK /\ MessagesOK /\ CallsOK

\* Two entries of a log that one process wrote.
SameProcess(p, q) == p.host = q.host /\ p.loaded = q.loaded

\* Up to entry y a process wrote a file that had read it before entry x of
\* another process, and so does not know of it.
Overtaken(entries, x, y) ==
    \E z \in (x + 1)..y : /\ entries[z].loaded < x
                         /\ ~SameProcess(entries[x], entries[z])

(***************************************************************************)
(* An accepted request reaches the tools once, those of one process in the *)
(* order of acceptance.  Within ReplayLimit acceptances the same message   *)
(* is accepted again only where processes overlap: another one that read   *)
(* the journal before the first acceptance accepted something after it.    *)
(* However a message is delivered, and wherever processes crash or follow  *)
(* each other, without such an overlap it is not.                          *)
(***************************************************************************)
AtMostOnce ==
    /\ \A i, j \in 1..Len(ran) :
          i < j => /\ ran[i] # ran[j]
                   /\ SameProcess(by[ran[i]], by[ran[j]]) => ran[i] < ran[j]
    /\ \A x, y \in 1..Len(accepted) :
          x < y /\ accepted[x] = accepted[y] /\ y - x <= ReplayLimit =>
              /\ ~SameProcess(by[x], by[y])
              /\ Overtaken(by, x, y)

(***************************************************************************)
(* An accepted request that parses is handed to a tool, unless a crash     *)
(* comes between the journal and the call: each crash loses at most one.   *)
(***************************************************************************)
NothingForgotten ==
    LET Started(x) == \E i \in 1..Len(ran) : ran[i] = x
        Due(x) == \E h \in Hosts : Awaits(h, "stored") /\ step[h].of = x
    IN  Cardinality({x \in 1..Len(accepted) :
            /\ accepted[x] \in Requests \ Malformed
            /\ ~Started(x)
            /\ ~Due(x)}) <= crashes

(***************************************************************************)
(* A credential that was sent out is for a record that was saved first,    *)
(* and that is on disk, of the same installation, unless a process that    *)
(* had read the records before saved its own over it: no crash or failed   *)
(* save alone leaves the extension with a pairing nobody knows.            *)
(***************************************************************************)
OnDisk(t) == t.id \in DOMAIN pairingFile /\ pairingFile[t.id].install = t.install

PairingKept ==
    \A t \in told :
        \E x \in 1..Len(saves) :
            /\ saves[x].id = t.id /\ saves[x].install = t.install
            /\ OnDisk(t) \/ Overtaken(saves, x, Len(saves))

(***************************************************************************)
(* One installation holds the active pairings of a profile, on disk and    *)
(* therefore after every restart, whoever saved last.                      *)
(***************************************************************************)
ActiveTogether(records) ==
    \A p, q \in DOMAIN records :
        records[p].status = "active" /\ records[q].status = "active"
            => records[p].install = records[q].install

OneInstallation == ActiveTogether(pairingFile)

(***************************************************************************)
(* The pairing a process accepts messages under has not been revoked on    *)
(* disk, unless another process saved its records since this one read      *)
(* them.                                                                   *)
(***************************************************************************)
OthersSaved(h) ==
    \E z \in (seen[h] + 1)..Len(saves) :
        ~SameProcess(saves[z], [host |-> h, loaded |-> seen[h]])

ServesActivePairing ==
    \A h \in Hosts :
        activePairing[h] # NoPairing /\ ~OthersSaved(h) =>
            /\ activePairing[h] \in DOMAIN pairingFile
            /\ pairingFile[activePairing[h]].status = "active"

\* The pairings in memory and on disk agree, over crashes, failed saves and
\* restarts (NativePairingRegistry, savePairingState).
PairingInv == TypeOK /\ OneInstallation /\ ServesActivePairing

(***************************************************************************)
(* A statement of the repository that the code does not keep               *)
(***************************************************************************)
\* docs/security/threat-model.md: "stale generations, malformed/unsigned
\* messages and replays are rejected before dispatch."
ReplaysRejected ==
    \A x, y \in 1..Len(accepted) :
        x < y /\ accepted[x] = accepted[y] => y - x > ReplayLimit
=============================================================================
