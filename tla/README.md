# Verification of OrchordsBrowserPilot

TLA+ specifications of the browser pilot: an MCP server that drives a browser
through Playwright (`src/src`), and a browser extension that talks to a native
messaging host (`src/extension`). Each module translates the code it names;
`PROJECT.json` maps every definition to source lines.

## 1. The system

| Component | State | Operations | What is hard |
|---|---|---|---|
| Operation queue (`operation-queue.ts`) | FIFO backlog, slot counters per lane, totals, `disposed` | `run`, end of `execute`, timer, abort, `dispose` | cancellation against dispatch; which handler drains; two lanes over one FIFO; disposal with work running |
| Session, registry (`session.ts`) | page, page generation, refs, queue; sessions by id with last use | `page`, `dispose`, page events; `getOrCreate`, `dispose`, `sweep` | state read before an await and used after it; overlapping disposal; sweep under use |
| Browser managers (`browser.ts`) | browser, context, page | `page`, `close` | two first callers, close during launch |
| Refs and primitives (`refs.ts`, `tools.ts`) | registry of refs with generation, handle, fingerprint | snapshot, navigate, click and the like | snapshot against navigation and against another snapshot |
| MCP server (`server.ts`) | sessions, proposals, audit | tool dispatch over stdio and HTTP | which state is per session, per connection, per request |
| Policy gate (`policy/gate.ts`, `approval.ts`, `tools.ts`) | proposals, approvals by id and by digest | propose, approve, dispatch | one-time use, expiry, drift between approval and dispatch |
| Policy decision (`policy/decision.ts`, `risk.ts`) | none | decide, classify | precedence among controls |
| Shutdown (`shutdown.ts`) | hooks, `draining`, drain promise | add, remove, trigger, signals | hook timeouts against the watchdog, removal while draining |
| HTTP hardening (`http-hardening.ts`) | rate windows per key, in-flight count | admit, release | eviction, window edges |
| Native host (`native-host.ts`, `native-replay-store.ts`) | replay journal, running requests | hello, request, cancel, end of input | crash between accepting and journalling; drain |
| Native pairing | pairing record, secret | pair, rotate, revoke | stale record |
| Service worker (`service-worker.js`) | native port, control state, replay window, outbound queue, registries | port messages, user actions, alarms, restart | handlers overlap at each await; restart loses memory, not storage |
| Control state (`control-state.js`) | state, approvals, pending actions | `apply(event)` | events that arrive in a state nobody expected |
| Dispatch gate, site grants, attachment | grants, denials, attachment | `enforce`, grant, revoke, attach, detach | check before an await, use after it |
| Bridge client, relay, protocol | pending requests, replay window, outbound queue | start, message, cancel, disconnect | late answers, disconnect while signing |
| Worker lifecycle (`service-worker-lifecycle.js`) | in-flight journal, heartbeat, alarm | resume, track, acknowledge, reconnect | duplicates on resume, read-modify-write of storage |
| Artifact transfer, settings, migrations, user interface, configuration | none that other parts decide by | | pure code or rendering |

How they meet: `server.ts` puts every tool call of a session through that
session's operation queue; the queued function is `dispatchTool`, which asks the
policy gate about live page state and then runs the primitive; primitives use
the session's page and ref registry, which page events invalidate. The
extension's service worker joins the native host by messages; a control-state
machine decides whether the agent may act, the dispatch gate whether it may act
on this tab and site.

JavaScript runs a handler up to its next `await` without interruption, so an
action of a module is a handler, or a segment of one between two awaits.

What makes each component correct, in order of importance:

1. the queue serves each call at most once, in order, within its slots, answers
   every caller and never idles beside a call it could start;
2. an action is dispatched only as it was approved, once, before its approval
   expires; a ref acts on the element it was taken from or fails;
3. a session's resources are released once, and a session in use is not lost;
4. shutdown runs every hook once and ends the process;
5. the agent does not act while a human is in control or after a stop; a grant
   is used on the site, and as often, as the user said; a request reaches the
   host's handler at most once, across crashes and restarts.

## 2. The modules

| Order | Module | Composes / implements | Run | Theorems in |
|---|---|---|---|---|
| 1 | `OperationQueue` | implements `OperationService` | `queue_safety` | `OperationQueueProofs` |
| 2 | `SnapshotRefs` | lanes of the queue, page, registry, primitives with refs | `snaps_safety` | `SnapshotRefsProofs` |
| 3 | `ApprovalGate` with `PolicyDecision` | proposals, approvals, live state; risk matrix, decision engine | `gate_safety`, `gate_arguments` | `PolicyProofs` |
| 4 | `NativeHost` | processes side by side, journal, pairing file | `host_crashes` | `NativeHostProofs` |
| 5 | `Shutdown` | hooks, watchdog, signals, exit | `shutdown_drain`, `shutdown_signal` | `ServerProofs` |
| 6 | `WorkerSession` | worker, port, pairing, control state; the host in short | `worker_session` | `WorkerSessionProofs` |
| 7 | `SessionPool` | registry, session, manager, request handler | `session_pool` | `SessionPoolProofs` |
| 8 | `HttpFront` | middleware stack, rate limiter, concurrency gate, deadlines | `http_front` | `ServerProofs` |
| 9 | `BridgeClient` | requests, replay window, ports of the worker | `bridge_client` | `ExtensionProofs` |
| 10 | `SiteGate` | dispatch gate, site grants and their storage, tabs | `site_gate` | `ExtensionProofs` |

Every invariant and every action property that a passing run checks is also a
theorem, for all values of the constants; so is the refinement. What a run shows
and no theorem does are the five properties of liveness: `EveryCallAnswered`,
`EofEndsProcess`, `StatelessForgotten`, `EveryRequestEnds` and
`EveryRequestSettles`.

Modules meant for proof declare named assumptions on their constants, use no
RECURSIVE operator, and describe loops by the state they stop in.

A module `M.tla` is checked through `MCM.tla` and a configuration of the
module's name. Proofs are in the modules the table names; `ServerProofs` and
`ExtensionProofs` extend two modules each, which is why `HttpFront` and
`BridgeClient` put their name into that of their specification (`FrontSpec`,
`BridgeNext`) and the others do not. Most modules end in an invariant
(`QueueInv`, `RegistryInv`, `SpendingInv`, `PairingInv`, `DrainInv`, `ClientInv`,
`PoolInv`, `FrontInv`, `BridgeInv`, `SiteInv`) that joins the types with the
properties that say that several pieces of the component's state agree; the
parts have names of their own.

Operators named after another with a suffix (`CanDispatch_OneTooMany`) are
mutants: wrong versions used to see that a property notices. No specification
uses them. A module may end in a statement that the repository makes and its
code does not keep. Two of these have a run that ends in the counterexample
(section 15); to see the others refuted, name them in the module's
configuration (section 16).

## 3. The operation queue

`OperationQueue` has one action per entry point of the event loop. `Run` is
`run()` with its five outcomes in the order of its tests (`RunDisposed`,
`RunAborted`, `RunNow`, `RunOverflow`, `RunEnqueue`); `Complete` is the
`finally` block of `execute()`; `Timeout`, `AbortQueued`, `AbortElsewhere` are
the wait timer and the abort signal; `Dispose` is `dispose()`. The handlers that
end in `drain()` contain it (`Drain`), because nothing runs in between.
`drain()`'s loop is described by the number of entries it takes: all those are
dispatchable in turn and the next is not (`DrainStops`), which determines it.

`inFlight` holds the three counters, `stats` the three totals. `enqueuedAt`
numbers arrivals where the code stores a time; `startedAs` is the
`dispatchSequence` of the started event; `outcome` is how the promise settled.
A call that is started and unsettled is running; the counters are checked
against that (`SlotsMatchRunning`), they are not defined by it. The timer and
the abort listener of an entry are installed when it enters the backlog and
removed by `cleanup()` when it leaves, so they are represented by membership of
`pending`. The callback `onEvent` is assumed not to throw: the server's pushes
onto an in-memory ring (`server.ts:324`, `audit.ts:48`).

`OperationService` is the promise to callers, without backlog, counters, timers
or signals: slots are kept, a reader is not admitted beside a mutating call that
stays, a call is served once and answered once, and a closed service admits
nobody. `ImplementsService` maps a call to idle, waiting, serving, done or
turned away.

`queue_safety`: 2 mutating and 2 read-only calls, one slot for each lane, a
backlog of 2 (155,000 states). The backlog agrees with the calls
(`QueueInv`), is served in order, is bounded and holds no entry that was
aborted (`BacklogInOrder`), a head that could start is never left waiting
(`HeadBlocked`), the service is implemented, and every call that arrives is
answered without the help of timers (`EveryCallAnswered`). Four calls fill both
pools, the backlog and the overflow branch, and suffice for one lane to starve
the other. Fairness: that a running primitive settles (`FnsSettle`) is an
assumption on Playwright's own timeouts. Timers are not assumed to fire.
Deadlock checking is off because the calls run out.

### Proved

`OperationQueueProofs`, for every finite set of calls and all limits:
`TypeCorrect`, `CallsAreKept`, `SlotAccounting`, `BooksKept` (`QueueInv`) and
`WorkConservation`, from the invariant `IInv` (`Invariance`). None of them is
inductive alone. A counter
stays non-negative because the call that returns a slot is counted
(`SlotsMatchRunning`); counts add up when an entry starts because a queued call
was not running (`NoCallLost`); the head is blocked after disposal because the
backlog is empty (`DisposedEmpty`). `DrainInv` carries the argument: draining a
backlog that holds exactly the waiting calls, with the running calls' slots
held, re-establishes everything, and completion and cancellation both establish
its hypotheses. The assumption used is `OptionsAssumption` (the constructor's
clamps, a finite set of calls).

`FirstComeFirstServed` (`BacklogInOrder`) needs a second invariant, `OrderInv`
(`OrderInvariance`): the backlog is sorted by arrival, what was started is
numbered up to `dispatchSequence`, and what never starts was refused or
withdrawn. The last is what makes draining safe: a call whose signal has fired
is no longer in the backlog, so `drain()` starts every entry it takes and no
number is passed over. The limits follow from the last entry that was started in
each lane (`LaneBound`): when it started, its lane had room. That there is a last
one (`LastIndex`) comes from the well-foundedness of the naturals, not from
induction over the sequence.

`Implementation` is `ImplementsService`: `Init` maps to the service's, and each
action maps to one step of it (`StepServes`): a completion to a call that is
answered together with the calls its drain starts, an arrival to a call that is
served, waits or is turned away, and the rest to nothing. The service wants the
lanes within their slots and no reader admitted beside a mutating call that
stays; both come from the loop's condition, by way of `DrainServes`.

Liveness is model-checked only.

## 4. Snapshot refs

`SnapshotRefs` joins three pieces of code that share the ref registry: page
events and page adoption, which advance `generation` and clear the registry
(`PageChanged`); `browser_snapshot`, cut at its awaits into capture
(`StartSnapshot`, `CaptureFails`), `Ingest` and one `Bind` per round of
`bindHandles`; and the primitives that use a ref (`Use`), cut into look-up, the
action through the handle (`Act`), for `browser_type` the keys (`Type`), and for
`browser_drag` one `Hover` per hover with the target looked up anew before each
(`Aim`). `MayStart` is the dispatch condition of the queue, so snapshots overlap
one another and are overtaken by mutating calls. A token is the triple
the code prints into `p2s3_r7`; a handle is present or not. What the DOM does to
an element is a failure that may come at any time.

A segment between awaits is atomic because Playwright's client delivers each
browser message in an event-loop turn of its own and a handler's promise
continuations run before the next. The last round of `Bind` therefore contains
the final comparison of generations. An action sent before its handle is
disposed is taken to happen then, as messages of one connection stay in order.

`snaps_safety`: 3 snapshots, a click or typing, a drag, a navigation, 2 refs
each, 2 page events (2.9 million states). What is registered is current, and of
the newest snapshot (`RegistryInv`); what returns is usable
(`ReturnsUsableRefs`) and stays so unless the page changes, a newer snapshot is
ingested, or an older one that is still being bound fails (`RefsLast`); an
action hits the page and snapshot its ref was issued for, and a drag from a ref
of one snapshot to one of another has all its hovers on one page
(`ActsOnTheCapturedPage`). Three snapshots: one that returned, one that
fails, one that overlaps both. Two refs: one bound and one not yet when the
registry changes.

### Proved

`SnapshotRefsProofs`, for any number of calls, refs and page events: all the
properties above (`RegistrySound` with `TypeCorrect` and `OnlyCurrentRefs`,
`SnapshotsReturnUsableRefs`, `RefsOutlastFailures`, `ActionsHitTheirSnapshot`),
under `ParametersAssumption` (the kinds of calls are disjoint). The invariant
says that no two live snapshots have the same number (`Numbered`)
and that the registry is empty or holds what the snapshot with the current
number put there (`Owned`). So the two comparisons in `bindHandles` tell a
snapshot that everything it bound so far is still registered. Steps that only
clear, and steps that only move a call, are dealt with once (`ClearInv`,
`MoveInv`). The drag needs a second invariant (`Drags`): its target's page is no
later than its source's, and neither is later than the page shown, so a target
that is still registered is of the source's page.

## 5. The approval gate and the policy functions

`ApprovalGate` is the policy path of one server instance: `Propose` with the
trimming of the cache, `Approve`, and `Dispatch` of a primitive, which takes the
cached proposal or makes one on the spot and then ends in one of four ways:
`Unrestricted` (below the threshold), `WithApproval`, `Audited` (audit mode,
none cited) or `Blocked`. Each handler reads the live page over its only await
and runs from there to the decision, so it is one action; `PageMoves` and `Tick`
come between any two. `done` records the calls of tool handlers, with the
approval each spent.

An envelope is its own digest (SHA-256 over the canonical form is taken to be
injective). `policyMode` does not change. `LiveEnvelope` shows which fields come
from the live state and which from the proposal; a dispatch names no secrets and
the server supplies no live secret versions, so a proposal with secrets is
always refused (`SecretDrift`). `ClientIds` are proposal ids a caller makes up;
an id no caller can know is `NoId`. `Risk` is a constant operator: the proofs
hold for any classification. Audit events are left out.

The envelope with the live digest is built from the proposal's own arguments,
and the handler gets the dispatch's, so nothing in the gate ties the two:
`Action` records both, and the properties speak of the proposal, the tool and
the page.

`PolicyDecision` extends it with the two pure parts: the risk matrix of
`risk.ts`, which the run gives the gate as its `Risk`, and the decision engine of
`decision.ts` with its default controls. A page stands for the kind of place its
URL names, arguments for what their keys hint at. The engine is called by tests
only: it is proved about, and no run checks it.

`gate_safety`: two tools, both modes, secrets or none, a drawn and a made-up
proposal id, a public and a local page, a cache of 1, 4 ticks, approvals and
actions together (`MaxWork`) (2.4 million states, up to symmetry of the tools,
which the matrix has in one class). An approval pays for one action, of its own
proposal, with its tool on its page, in time (`SpendingInv`); nothing above the
threshold runs unpaid, except in audit mode where none was cited (`PaidFor`).
Double use takes two actions and one approval, or two of one proposal. A cache
of one makes a proposal evict another while its approval lives on, and the
made-up id is proposed again for the other tool. The shortest lifetime is one
tick (`mint()` makes a smaller one 1), so an approval, two ticks and an action
see the moment it is given in, the one it expires in and the one after. On a
local page every action is sensitive, so an action may need an approval or not
by where it was proposed. The deny list is empty, as in `DEFAULT_POLICY`; the
proofs cover any.

`gate_arguments` is a counterexample, see Findings.

### Proved

`PolicyProofs`: `ApprovalsWellSpent` with `OneActionPerApproval` and
`ApprovedInTime`, `RiskyActionsArePaidFor`, `TypeCorrect`, under
`ParametersAssumption` (sorts of the constants). `SpentInTime` needs `Dated`:
proposals are not from the future, approvals come after their proposals. An
approval's consumed flag and the actions that spent it agree (`OneUse`), so the
one `consume()` accepts has paid for nothing yet. `PerformInv` is the step that
calls a handler, `QuietStep` every step that does not touch approvals.

Of the policy functions: the risk of an action is the highest its tool, place,
form and arguments give it, and a tool the matrix does not list is sensitive
(`RiskIsHighest`); the engine's verdict is the strictest contribution, although
it is composed pair by pair (`StrictestWins`); another scope never makes a
verdict stricter (`ScopesOnlyHelp`).

## 6. The native host

`NativeHost` has the processes the browser starts, each reading its connection,
and the two files they share. A message is handled up to the end of its handler
before the next is read; `step` says which save the loop awaits. A hello
resumes an active pairing (`HelloResumes`) or makes one, which displaces those
of other installations (`HelloPairs`); the records change in memory, reach the
file at the rename (`SavePairing`) and only then is the credential sent
(`AnswerPaired`). A request or cancel reserves its replay key (`Reserve`), which
reaches the journal (`SaveKey`) before the request is handed to the tools
(`RunRequest`) or the cancel looks for it (`CancelRequest`). Calls run on beside
the loop (`Finish`). `Fail` is every refusal and every failed save; `Exit` waits
for the calls, `Crash` does not.

Nothing locks the files: `native-host-cli.ts:12-27` names them per user, so two
browsers, two profiles, or a process with input left beside its successor read
at once. `Start` therefore asks nothing of the other processes. Each has its own
copy of what the files held when it read them, and a save replaces the whole
file with that copy (`SavePairing`, `SaveKey`). What this costs is what the
properties say: `by` and `saves` record which process wrote which entry and how
much of the file it had read (`SameProcess`), and an entry is `Overtaken` when
another process wrote after it that had read before it.

A message is named by its replay key and may be delivered at any time, any
number of times, to any process. Signatures and deadlines are a reason to fail.
`rotate()` and `revoke()` are called by no code of the host. `accepted` and
`ran` record what happened, for the properties.

`host_crashes`: 2 processes, 2 installations, a request and a cancel that parse
and one of each that does not, a journal of 1, 4 pairings, acceptances and crashes
together (`MaxWork`) (730,000 states, up to symmetry of processes and of
installations). A request is given to the tools once, and a message that
was among the last `ReplayLimit` accepted is accepted again only where it was
overtaken (`AtMostOnce`); each crash loses at most one accepted message
(`NothingForgotten`); one installation holds the active pairings on disk,
whoever saved last, and a process serves a pairing that is active there unless
another has saved since it read (`PairingInv`); a credential that was sent out
is on disk unless it was overtaken (`PairingKept`). Messages are signed for the
first or the second pairing, so both have to be drawn; with a journal of one the
acceptances a, c, a push a key out and bring it back; a crash falls between any
two steps of a save. Two processes overlap, follow one another, and start again.

### Proved

`NativeHostProofs`: `TypeCorrect`, `RequestsRunOnce`, `PairingsAreKept`,
`PairingsAgree` and `CrashesLoseOneEach` (`NothingForgotten`), for any number of
processes side by side, messages, installations and crashes, and any journal.
The invariant says of the files and of every copy in memory what they still
know: a file holds each entry that was not overtaken (`FileHolds`,
`FileRecalls`), a process each one that it read or wrote (`Knows`; `KeysHold`,
`RegistryRecalls`). A process that accepts a message does not find its key, so it
does not know of the last acceptance, so it had read the journal before that one
or read it when it was overtaken already. That a save is by one process and of
its whole copy is what keeps the active pairings of the file together, although
the copies differ (`RegistryFollows`).

`Forgotten` are the requests that the journal has, no tool was given and no
process is about to give one. A process is about to give at most one, the last it
accepted (`StoredLast`), so a step that ends a process adds at most that message
(`ForgottenStep`).

## 7. Shutdown

`Shutdown` is the controller of `shutdown.ts` together with the exit that
`startStdio` ties to it. From the end of a hook to the start of the next only
promise reactions run, so `HookSettles` and `HookTimesOut` contain the start of
the next hook or the end of the drain (`RunOrFinish`). The loop iterates the
live array: `AddCleanup` and `Unsubscribe` may come at any time. `Trigger` takes
whether the caller is the wrapper of `startStdio`, which only the end of stdin
is; a first hook that triggers again before its first await would start the
drain a second time (`shutdown.ts:155-174`), but no hook of the program
triggers, and none does here; a signal, an exception and a rejection have
handlers that run once. `elapsed` and `hookMs` count from the trigger and from
the start of the hook; a timer that is due fires before time goes on. `shifted`
notes that a hook was removed behind the loop, which lets it skip the next. The
server removes none; the interface allows it. `LetGo` and `RunsOut` stand for
Node: a process with no open handle ends.

`shutdown_drain`: 3 hooks under 2 names, timeouts 1 and 9 cut to 3, watchdog at
4, both signals. Hooks run in order of registration, each once and within its
time (`DrainInv`), the watchdog ends the process only if at least two hooks were
started and their deadlines add up to its time (`ForcedTakesTime`), no hook is
skipped unless one was removed behind the loop (`NoneSkipped`), and the end of
stdin ends the process (`EofEndsProcess`). `shutdown_signal` is a
counterexample, see Findings. Three hooks: one past, one running, one to come.
Two share a name, so removal may take the other one. One hook never brings the
watchdog about, however it hangs; a quick one and a hanging one do (1 + 3 of 4
here, 100 ms + 9,950 ms of 10 s in the code). Fairness: timers fire, and a
process without handles ends. No hook need settle.

### Proved

`ServerProofs`: `TypeCorrect`, `HooksInOrder`, `DrainInOrder` (`DrainInv`),
`ForcedExitTakesTime` (`ForcedTakesTime`) and `NoHookSkipped`, for any hooks,
timeouts and signals. The registered hooks are in order (`Sorted`) and what the
loop has yet to reach is younger than what it runs (`Ahead`), although the array
changes under it; `Passed` says the same of what it left behind. A first hook
has run as long as the drain (`FirstSince`) and is given up before the watchdog
is due; the hooks before the current one took no longer than their deadlines
(`Spent`), which is why those have to add up. That the end of stdin ends the
process is liveness, and model-checked.

## 8. The worker session

`WorkerSession` is the extension's service worker as far as it decides whether
there is a bridge, whose, and who is in control. `Boot` evaluates the module:
it starts reading storage and opens a port. `LoadState` and `LoadPairing` are
the ends of the two reads; `SendHello` waits for both. The handler of the host's
answer is cut at its awaits: `Receive` up to the signature check, `Accept` to the
write of the pairing, `Adopt` to the new client, `Connected` to the control
event. `PortGone`, `UserEvent`, the two halves of stop and disconnect
(`EndSession`, `TearDown`) and of a pairing reset come anywhere in between, as
does `Die`, after which a new worker starts with the same storage. `stage` is
how far the handler of each port has come.

`Effect` is the table of `apply()`: in which states an event is accepted, and
where it leads. The worker raises `bridge.connected` and `bridge.disconnected`;
the other bridge events of the table are raised by its unit tests alone, so the
states they lead to are not reached. `takenOver` remembers what the user asked
for, independently of the control state. The host is `NativeHost` in short: it
resumes or makes a pairing and displaces those of other installations, it
refuses the second hello of a connection (section 16), and may end at any time.

Assumed: a write to storage takes effect when it is issued, as the browser
outlives the worker; a host starts when the one before has ended (without this,
`NativeHost` shows what overlapping hosts do to one another's records); the
host's pairing file is not lost. Requests and the replay window are in `BridgeClient`,
site authorizations in `SiteGate`; a `Connect` comes at any time, whatever alarm
or click makes it.

`worker_session`: 3 ports, 2 installations, 2 pairings (1.9 million states). A
takeover lasts until the user ends it (`TakeoverHolds`); there is a client only
for the port in use, and none after a stop (`ClientInv`); the pairing that
would be presented is one the host knows (`PresentsKnownPairing`).
Three ports: a handshake that
is late, the one that replaces it and one after a restart. A reset makes the
second installation, whose pairing displaces the first.

### Proved

`WorkerSessionProofs`, for any number of connections, installations, pairings and
restarts: `ClientWhereItMayBe` (`ClientInv`), `TakeoverLasts` (`TakeoverHolds`),
`PairingIsKnown` (`PresentsKnownPairing`), from the invariant `IInv`. `Lifetime`
says that a handler past its hello runs in the worker that sent the hello, so it
has seen the restored state: without it a handler could connect on top of a
takeover it never read. `TakeoverKept` ties the control state to the session
storage, which is where a restart finds it. For the pairing one has to look at
every value that may still become the worker's (`Held`): its own, the stored one,
that of each hello a host may answer and that of each answer a handler may take.
`Agree` says they are of one installation and that the host knows each; a
host that pairs displaces other installations, so with two of them under way
it would displace a pairing that comes back later.

## 9. Sessions, pages and browsers

`SessionPool` is the HTTP server's path from a request to a page: the registry
(`GetOrCreate`, `Dispose`, `Sweep`, `DisposeEnds`), `Session.page()` with its
generation counter (`StartCall`, `Adopt`) and `page()` of the local and the
remote manager (`AskManager`, `Launched`, `ContextMade`, `PageOpened`,
`AwaitFails`), whose fields `browser`, `context` and `tab` are read and written
between awaits by every call that is inside. `HandlerReturns` is the `finally`
block of the request handler, which may come before the call is over because the
transport only hands messages on. Pages, browsers and connections go at any time
(`PageGone`, `BrowserGone`).

Whatever is awaited may reject, on a browser that runs as well (`AwaitFails`): a
remote provider may refuse a context. `dispatchTool` asks for the page first, for
the gate, and goes on without one if that fails (`server.ts:574-595`); the
handler then asks again. So a call asks at most twice, and a browser goes by the
request and the ask that launched it.

Awaits that only wait for a promise reaction are merged, as are the closings of
one page. `lastUsed` is abstracted: a sweep may find any set of sessions idle,
in use or not, as the code does not ask. Slots of the queue are `OperationQueue`'s.
`raced` and `overlapped` are histories: which sessions had two calls in the
manager at once, or one at disposal, and which ids two disposals.

`session_pool`: 2 requests of one client and one without an id, 2 arrivals, both
managers, 1 loss, 1 sweep (171,000 states). A disposed session is on its way out
of the registry, a generation never names two pages, and without a race a
manager has one live browser, however its opens fail (`PoolInv`); what falls out
of the registry undisposed needs two overlapping disposals (`OrphansNeedOverlap`:
`dispose()` deletes by id after its await, `session.ts:141`); without a race every
open page is the session's or is about to be closed (`SoleCallerLosesNoPage`; with
one it may not be, as `page()` awaits twice over shared fields); the session of a
request without an id is forgotten (`StatelessForgotten`). Two requests race for
one manager; the third is the one that disposes of its own session. Fairness:
what is awaited settles, one way or the other. The browser of a session that was
disposed of is another matter: nothing closes it (section 16).

### Proved

`SessionPoolProofs`, for any requests, ids, losses and sweeps: `PoolIsSound`
(`PoolInv`), `OrphansComeOfOverlap` (about sessions of the registry) and
`NoPageLostAlone` (about pages). The invariant has to say of every await what
happens without a race: `Alone` is that a call alone in its manager found no page
when it entered and none came since, no live browser if it launches one, and that
the manager knows the only one of its session; `Closings` that a disposal under
way is of the session registered under its id, and the only one, unless two
overlapped; `Named` that no generation to come has a page. `CallsOK` and
`FieldsOK` keep each session's calls and fields its own, so that a step of one
session is none of another.

## 10. The HTTP front

`HttpFront` is the middleware in the order of the stack. The stack runs without
an await, so `Receive` is one action with an outcome per check; the response is
then streaming, ended, flushed and closed, by the handler, the client or the
deadline (`TimesOut`). `hits` is the limiter's map in the order of insertion,
`clientIp` the walk from the right over trusted proxies. Header parsing is
abstracted to what the checks compare; the security headers are constant.

`http_front`: 3 requests of 2 clients, direct and behind proxies, with forged
headers, a wrong origin and a wrong method; one request per window, one key,
two slots, time to 6 (160,000 states). The gate's counter is the number of
responses under way, a client is counted under its own address whatever it
forges, `Retry-After` is long enough, no response outlives its deadline
(`FrontInv`); no span of a window's length sees more than twice the limit
(`TwoWindowsBound`); a status is not replaced (`OneStatus`); every request ends
(`EveryRequestEnds`). One key makes each client evict the other; three requests
and two slots fill the gate. Fairness: timers fire and what is written is
flushed; no handler need answer. A response that has ended and is never flushed
is not destroyed by the deadline, so the flush is assumed.

### Proved

`ServerProofs`, for any requests, clients, limits and windows: `FrontIsSound`
(`FrontInv`), `TwoWindowsAtWorst` (`TwoWindowsBound`) and `StatusIsFinal`
(`OneStatus`). `SlotsOK` says which requests hold a slot; the counter follows it
because a response that has given its slot back is not under way, so the second
of "finish" and "close" finds nothing. `TwoWindowsBound` is not inductive: the
limiter has forgotten the window before the current one. `KeyFine` keeps what is
needed of it, that not more than the limit passed in the last window's length
before the current window began; a span that ends in the window begins within
that length (`PassInSameWindow`), and a new window begins when the old one is
over (`PassInNewWindow`). `OwnKey` needs the assumption `Deployment`: clients
reach the server directly or through proxies it was told of. Without `trustProxy`
all clients behind a proxy share its address.

`TwoWindowsBound` speaks of a key while it is remembered: eviction forgets the
count. `server.ts` passes no `maxConcurrentRequests`, so the gate is off in the
product and on in the run.

## 11. The bridge client

`BridgeClient` is `AuthenticatedBridgeClient` with the worker's handlers that
replace, close and feed it. Everything that signs or verifies is cut there:
`StartRequest` and `Post`, `Cancel` and `PostCancel`, `Arrive` and `Verified`.
`Deadline` may come at any moment after posting. `Acceptable` is the validation
of an envelope: one that is malformed, expired or of another pairing is dropped
without effect, which is the same as its not coming, so what is left is the replay
window. The host answers and acknowledges, and may write a message twice. What a
worker restart does is in `WorkerSession`; the replay window is stored at once.
`startRequest()` has no caller in the worker yet: the module is the component's
interface as its tests use it.

`bridge_client`: 2 requests, 1 cancel, 2 clients, 2 ports, 3 arrivals, a window
of one key (570,000 states). A promise is settled once (`BridgeInv`); a request
waits for an answer that cannot come only if it was being signed when its client
was closed (`OnlyLateWaitInVain`; it is then posted by a closed client, and ends
at its own deadline); what is handled twice was verified twice at once, or
had left the window (`ReplayNeedsOverlap`: `service-worker.js:268` asks before
the await and remembers after it); every request ends (`EveryRequestSettles`),
because its own timer does not depend on the client. Fairness: signatures are
made and timers fire; nothing is asked of the host.

### Proved

`ExtensionProofs`, for any requests, ports, clients, messages and window:
`PromisesSettleOnce` (`BridgeInv`), `OnlyLateRequestsWait` and `ReplaysOverlap`.
`Served` is the invariant behind the second: a request under way that is not late
is of the client in use, and once posted, on the port in use; it lasts because a
client that goes settles what it has posted and a new port comes without a
client. For the third, `Once` says that a handled message is in the window or was
evicted, and that of a message never under verification twice at once, one
handler waits at most, and none once it was handled.

## 12. The site gate

`SiteGate` has the user's words about sites, the registry they go to, its
storage, the tabs, and the dispatches that ask. `first` is the registry the gate
was built with, `restored` the one that restoring puts in its place for
everything but the gate (`service-worker.js:63`). `Enforce` runs up to the await
of `tabs.get()`, `TabRead` is the browser's answer, `Allow` and `Refuse` the rest,
where grants are looked up and used in one turn. `UserSays` waits for the stored
registry. `Die` takes attachments and dispatches along.

A page has a host and a scheme. The user speaks of an origin, a scheme and a
host name (`OriginOf`; popup.js lets http and https through); the gate asks for
`https://` and the name of the page's host, whatever its scheme (`AskedOf`,
`dispatch-gate.js:131`). A host may carry a port, which `canonicalizeOrigin` drops,
so `NameOf` may send two hosts to one name.

The worker never gives grants for a session and calls neither `attach` nor
`bindChromeTabs` (nor dispatches yet), so these are modelled as the components'
interface: attachments are bound to tab events or not. The audit log is left
out. Restoring is the identity, which it is for what the popup lets through
(`popup.js:164`): `createSiteAuthorizations` would drop origins that `grant()`
accepts, IPv6 literals and hosts with an underscore. That a grant for one
dispatch was used is not stored, so it is back in the restored registry after a
restart; the gate does not use that one.

`site_gate`: an http page of one host, an https page of another, words about
both of these origins and the https origin of the first, 1 tab, 1 token, 2
dispatches, 2 words, 2 page moves, 1 restart (1.1 million states). A dispatch is
allowed only on the user's last word about the https origin the gate asks for,
and a word for one dispatch carries one (`LastWordCounts`; a word about an http
origin counts for nothing, section 16); the gate allows nothing the registry the
user sees does not (`GateNeverWider`), although after a restart it holds
another: it then says "unknown"; an allowed dispatch saw the attached host at
some moment of its own (`SiteInv`); what is stored is the user's last word on
every origin (`WordsAreKept`). Two dispatches race for one grant; two words
grant and revoke, or grant and deny, one origin or two; a restart falls between
any two. No liveness: a refusal is always allowed.

### Proved

`ExtensionProofs`, for any hosts, tabs, tokens and dispatches: `SiteInvHolds`,
`WordsSurvive` (`WordsAreKept`), `LastWordRules` (`LastWordCounts`) and
`GateIsNotWider` (`GateNeverWider`). `Registries` says that the gate's registry
knows words of its own lifetime only, and none when one was restored, so where it
allows an origin it is the registry in use (`AllowedFromCurrent`).
`WordsRemembered` says that this one says of every origin what the user said last,
used up or not, and that a grant the gate has spent is marked in its own registry.
`Seen` follows the tab of a dispatch from its question to its answer.

## 13. Assumptions common to all

A handler runs to its next await without interruption (JavaScript). Constants
named `Max...` without a counterpart in the code bound the state space, each in
the guard of the action that would exceed it; the proofs hold for all their
values. Deadlock checking is off in every run because calls, time or the process
run out. Proofs use the named assumptions on constants and nothing else; TLC
evaluates each on the runs. Everything under fairness is model-checked only: the
provers do not know ENABLED, so no liveness is proved.
What a recursive definition computes for every input is not provable with them
either; the models have none in the modules that are proved about.

## 14. The runs

| Run | Expected | Question |
|---|---|---|
| `queue_safety` | pass | does the queue keep its books, order and promise? |
| `snaps_safety` | pass | are refs current, usable and aimed, whatever overlaps? |
| `gate_safety` | pass | is an approval spent once, in time, on the proposal it was given for? |
| `gate_arguments` | violation | does an approved action run with the approved arguments? |
| `host_crashes` | pass | when does a request run twice, or a pairing get lost, over crashes and side by side? |
| `shutdown_drain` | pass | do hooks run in order, each once, and end? |
| `shutdown_signal` | violation | does a signal end the process? |
| `worker_session` | pass | do takeovers, clients and pairings survive restarts? |
| `session_pool` | pass | who leaks pages, browsers and sessions, and when? |
| `http_front` | pass | are slots, limits and deadlines those of the responses? |
| `bridge_client` | pass | does every request end once, over lost clients and duplicates? |
| `site_gate` | pass | does the gate follow the user's last word? |

## 15. Findings

* `shutdown_signal`: after a signal or an exception the hooks are drained and
  nothing exits (`server.ts:104` wraps a property, `shutdown.ts:208` calls the
  function), against the comment at `server.ts:88-90`. If a hook was given up,
  what it holds can keep the process alive until stdin ends or a second signal.
* `gate_arguments`: an approved action runs with the arguments of the dispatch,
  which nothing compares with those that were approved: the live digest is built
  from the proposal's (`gate.ts:439`), against the comment at `server.ts:340-342`,
  which says that proposal and dispatch digest the same argument bytes. The risk
  class is that of the proposed arguments as well.

## 16. Observations

Statements of the repository that its code does not keep. Each is a definition
at the end of a module; TLC refutes it when it is named in the configuration.

* `WorkerSession!ExistingHostsKeepWorking`: every connection sends two hello
  messages; the host refuses the second (`native-host.ts:75`, `:198`) and ends,
  after it has answered the first. The comment at `service-worker.js:375-377` says
  existing hosts keep working. No code of the host answers with a welcome.
* `NativeHost!ReplaysRejected`: two processes side by side each have a copy of the
  journal (`native-host-cli.ts:27-28`), so a redelivered message can be accepted by
  both, against `docs/security/threat-model.md:34`. `AtMostOnce` says when.
* `SessionPool!BrowserGoesToo`: `dispose()` of a session closes its page and not
  its manager (`session.ts:76`), so its browser stays; the comments at
  `server.ts:116-117` and `188-190` say that it does not pin one and that the
  manager is disposed of.
* `SiteGate!DeniedIsRefused`: for an http page the gate asks for the https origin
  (`dispatch-gate.js:131`), so with a grant for that, a later deny of the http
  origin does not stop a dispatch to the page. The head of `dispatch-gate.js:8`
  speaks of the active origin, and row 65 of `docs/security/extension-threat-model.md` of
  a deny that canonicalisation cannot get around. Ports are dropped as well.

Seen while modelling:

* read-only work waits for mutating work but not the reverse
  (`operation-queue.ts:311`), so a navigation can start under a snapshot, the
  race the comment at 302-304 names; `OperationService` promises the direction
  that holds;
* a snapshot that was superseded clears the registry when it notices
  (`refs.ts:153`), the newer one's refs included; `RefsLast` names the exception;
* each HTTP request builds its own server, approval store included, so an
  approval does not outlive the request that made it (`server.ts:160`);
* a remote manager whose `newContext()` failed once refuses every call until its
  connection is lost (`browser.ts:195`);
* the rate limiter's option speaks of the least recently used key, the code
  evicts the one inserted first;
* the host lists of the risk matrix and of the egress control differ, and the
  second compares a host with its port;
* after a stop the stored pairing is gone but the one in memory is presented on
  the next connection of the same worker; a restored `connected-idle` may stand
  beside no bridge;
* in the worker's lifecycle module the reconnect trigger opens no port
  (against the comment at `service-worker.js:362-363`), the heartbeat is a single
  shot that acknowledges itself, `acknowledgeInflight()` has no caller, and
  resuming overwrites the tracking of what it posts again; outbound messages
  leave their queue only when posting fails, so the 65th is refused
  (`service-worker.js:75`).

## 17. Not modelled

Listed per component in `PROJECT.json` with the reason. In short: audit sinks
(nobody reads them to decide); the worker's lifecycle module (section 16: nothing
depends on what it keeps); artifact transfer, the relay and envelope
cancellation (imported by tests only); the user interface (rendering);
configuration and the version check (pure, at the start). Of modelled
components: the YAML parser and the primitives without refs (one Playwright call
each), argument schemas, `rotate()` and `revoke()` of pairings (no caller),
`close()` of a manager (the stdio server has one session and nothing to race),
settings and schema migrations (pure), the CDP adapter (no caller).
