----------------------------- MODULE SessionPool ----------------------------
(***************************************************************************)
(* Sessions of the HTTP server (src/session.ts, src/browser.ts and the     *)
(* request handler of src/server.ts): requests find or make the session of *)
(* their id and run one call each on its page; the sweeper, the end of a   *)
(* request without an id and shutdown dispose of sessions.                 *)
(*                                                                         *)
(* An action runs to the next await that leaves the process: launching a   *)
(* browser, making a context or a page, closing a page.                    *)
(***************************************************************************)
EXTENDS Integers, FiniteSets

CONSTANTS
    Requests,
    IdOf,          \* the session id of a request: its header, or a random one
    Stateless,     \* requests without the header
    Managers,      \* kinds of browser manager to check: "local", "remote"
    None,
    MaxArrivals,   \* bounds for TLC: requests that arrive,
    MaxLosses,     \* pages and browsers that go by themselves,
    MaxSweeps      \* sweeps that find idle sessions

Ids == {IdOf[r] : r \in Requests}

\* A call asks its session for the page at most twice: once for the policy gate,
\* once in the handler.  A browser goes by the ask that launched it.
Browsers == Requests \X {1, 2}

ASSUME ParametersAssumption ==
    /\ IsFiniteSet(Requests) /\ None \notin Requests \cup Browsers
    /\ DOMAIN IdOf = Requests
    /\ Stateless \subseteq Requests
    /\ \A r \in Stateless, q \in Requests : IdOf[r] = IdOf[q] => r = q
    /\ Managers \subseteq {"local", "remote"}
    /\ MaxArrivals \in Nat /\ MaxLosses \in Nat /\ MaxSweeps \in Nat

\* A request makes at most one session and one page.  They go by its name.
Sessions == Requests
OrNone == Requests \cup {None}
BrowserOrNone == Browsers \cup {None}

VARIABLES
    manager,     \* the kind of manager, fixed by the configuration
    registry,    \* the session registered under each id
    made,        \* sessions made so far
    disposed,    \* sessions whose queue is disposed
    current,     \* the page each session has adopted
    generation,
    browser,     \* the fields of each session's manager: its browser,
    context,     \*   the browser its context belongs to
    tab,         \*   and its currentPage
    live,        \* browsers that run
    open,        \* pages that are open
    call,        \* per request, how far its call has come, its session, which
                 \* time it asks, and the browser it waits for or has its page in
    returned,    \* requests whose handler has come to its finally block
    closing,     \* disposals that await the closing of a page
    swept, lost, \* counters for the bounds
    named,       \* history: the page a session had in each generation
    raced,       \* history: sessions used by two calls at once, or when disposed
    overlapped   \* history: ids with two disposals at once

mgrVars == <<browser, context, tab>>
poolVars == <<registry, made, disposed, closing, overlapped>>
vars == <<manager, poolVars, current, generation, mgrVars, live, open, call,
          returned, swept, lost, named, raced>>

Awaits == {"launch", "context", "page"}
Phases == {"none", "called", "using", "ended"} \cup Awaits
NoCall == [phase |-> "none", session |-> None, ask |-> 1, on |-> None]

\* Pages of a session, and browsers of its manager.
PageOf(s) == {p \in open : call[p].session = s}
SessionOf(b) == call[b[1]].session
BrowserOf(s) == {b \in live : SessionOf(b) = s}

Init ==
    /\ manager \in Managers
    /\ registry = [i \in Ids |-> None]
    /\ made = {}
    /\ disposed = {}
    /\ current = [s \in Sessions |-> None]
    /\ generation = [s \in Sessions |-> 0]
    /\ browser = [s \in Sessions |-> None]
    /\ context = [s \in Sessions |-> None]
    /\ tab = [s \in Sessions |-> None]
    /\ live = {}
    /\ open = {}
    /\ call = [r \in Requests |-> NoCall]
    /\ returned = {}
    /\ closing = {}
    /\ swept = 0 /\ lost = 0
    /\ named = {}
    /\ raced = {}
    /\ overlapped = {}

-----------------------------------------------------------------------------
(***************************************************************************)
(* The registry and disposal.                                              *)
(***************************************************************************)

\* Mutant: a session that is being disposed is replaced at once.
GetOrCreate_Replaces(r) ==
    LET s == registry[IdOf[r]]
    IN  IF s # None /\ s \notin disposed THEN s ELSE r

GetOrCreate(r) == IF registry[IdOf[r]] # None THEN registry[IdOf[r]] ELSE r

\* Mutant: the page is read after it was set to null.
HeldPage_Nulled(s) == None

\* The page a disposal has to close.
HeldPage(s) == IF current[s] \in open THEN current[s] ELSE None

\* Whether the disposal of an id is over at once.
Leaves(i) == HeldPage(registry[i]) = None

\* SessionRegistry.dispose() of the given ids, up to its await.
Dispose(ids) ==
    LET mine  == {i \in ids : registry[i] # None}
        hit   == {registry[i] : i \in mine}
        begun == {[id |-> i, page |-> HeldPage(registry[i])] :
                     i \in {j \in mine : ~Leaves(j)}}
    IN  /\ disposed' = disposed \cup hit
        /\ current' = [s \in Sessions |-> IF s \in hit THEN None ELSE current[s]]
        /\ closing' = closing \cup begun
        /\ registry' = [i \in Ids |->
                           IF i \in mine /\ Leaves(i) THEN None ELSE registry[i]]
        /\ overlapped' = overlapped \cup
                             {i \in mine : \E c \in closing : c.id = i}

\* A request arrives: its session is looked up or made, and its call handed on.
Arrive(r) ==
    LET s == GetOrCreate(r)
    IN  /\ call[r].phase = "none"
        /\ Cardinality({q \in Requests : call[q].phase # "none"}) < MaxArrivals
        /\ call' = [call EXCEPT ![r].phase = "called", ![r].session = s]
        /\ made' = made \cup {s}
        /\ registry' = [registry EXCEPT ![IdOf[r]] = s]
        /\ UNCHANGED <<disposed, closing, overlapped, current, generation, mgrVars,
                       live, open, returned, swept, lost, named>>

KeepRest == UNCHANGED <<made, generation, mgrVars, live, open, call, lost, named>>

\* The sweeper disposes of sessions whose id nobody asked for within idleMs, in
\* use or not.  Shutdown's disposeAll() is the case of all; it precedes the
\* closing of the listener.
Sweep(stale) ==
    /\ swept < MaxSweeps
    /\ swept' = swept + 1
    /\ \A i \in stale : registry[i] # None
    /\ Dispose(stale)
    /\ UNCHANGED returned
    /\ KeepRest

\* Mutant: the session is not dropped while its call goes on.
HandlerReturns_Busy(r) ==
    /\ r \in Stateless \ returned
    /\ call[r].phase # "none"
    /\ returned' = returned \cup {r}
    /\ IF call[r].phase = "ended" THEN Dispose({IdOf[r]}) ELSE Dispose({})
    /\ UNCHANGED swept
    /\ KeepRest

\* handleRequest() returns, which may be before the call has ended: it only
\* hands messages on.  Without a session id the session is disposed.
HandlerReturns(r) ==
    /\ r \in Stateless \ returned
    /\ call[r].phase # "none"
    /\ returned' = returned \cup {r}
    /\ Dispose({IdOf[r]})
    /\ UNCHANGED swept
    /\ KeepRest

\* Mutant: a session does not hear that its page closed.
PagesClose_Unheard(gone) ==
    /\ open' = open \ gone
    /\ UNCHANGED <<current, generation>>

\* The listeners of pages that close: where one is current, the generation ends.
PagesClose(gone) ==
    LET hit == {s \in Sessions : current[s] \in gone}
    IN  /\ open' = open \ gone
        /\ current' = [s \in Sessions |-> IF s \in hit THEN None ELSE current[s]]
        /\ generation' = [s \in Sessions |->
                             generation[s] + IF s \in hit THEN 1 ELSE 0]

\* Mutant: the entry is not deleted.
DisposeEnds_Kept(c) ==
    /\ c \in closing
    /\ closing' = closing \ {c}
    /\ UNCHANGED registry
    /\ PagesClose({c.page})
    /\ UNCHANGED <<made, disposed, overlapped, mgrVars, live, call, returned, swept,
                   lost, named>>

\* The page of a disposal is closed and the entry deleted by its id.
DisposeEnds(c) ==
    /\ c \in closing
    /\ closing' = closing \ {c}
    /\ registry' = [registry EXCEPT ![c.id] = None]
    /\ PagesClose({c.page})
    /\ UNCHANGED <<made, disposed, overlapped, mgrVars, live, call, returned, swept,
                   lost, named>>

-----------------------------------------------------------------------------
(***************************************************************************)
(* A call and the page it runs on.                                         *)
(***************************************************************************)

At(r, k, phase, b) ==
    call' = [call EXCEPT ![r] = [phase |-> phase, session |-> call[r].session,
                                 ask |-> k, on |-> b]]
Refused(r) == At(r, 1, "ended", None)

\* Mutant: the first adoption does not begin a generation.
Adopt_Keeps(s, p) ==
    /\ current' = [current EXCEPT ![s] = p]
    /\ generation' = [generation EXCEPT ![s] = @ + IF current[s] = None THEN 0 ELSE 1]

\* Session.page() adopts the page its manager returned.
Adopt(s, p) ==
    /\ current' = [current EXCEPT ![s] = p]
    /\ generation' = [generation EXCEPT ![s] = @ + IF current[s] = p THEN 0 ELSE 1]

\* The page is there; b is the browser the call itself opened it in.
Use(r, p, b) ==
    /\ At(r, 1, "using", b)
    /\ Adopt(call[r].session, p)
    /\ named' = named \cup {<<call[r].session, generation'[call[r].session], p>>}

\* Mutant: a manager without an open page launches again.
Connected_Tab(s) == tab[s] \in open

\* isConnected().
Connected(s) == browser[s] \in live

\* manager.page(): the tab, or what is missing for one.  A remote manager whose
\* connection is without a context fails at once, and so would a second ask.
AskManager(r, k, s) ==
    \/ /\ tab[s] \in open
       /\ Use(r, tab[s], None)
    \/ /\ tab[s] \notin open
       /\ CASE ~Connected(s) -> At(r, k, "launch", None)
            [] Connected(s) /\ context[s] # None -> At(r, k, "page", context[s])
            [] Connected(s) /\ context[s] = None /\ manager = "local" ->
                 At(r, k, "context", browser[s])
            [] OTHER -> Refused(r)         \* "Remote browser has no context"
       /\ UNCHANGED <<current, generation, named>>

\* Session.page().
AskSession(r, k) ==
    LET s == call[r].session
    IN  \/ /\ current[s] # None
           /\ Use(r, current[s], None)
        \/ /\ current[s] = None
           /\ AskManager(r, k, s)

KeepPool == UNCHANGED <<poolVars, returned, swept, lost>>

\* The queue runs the call, or refuses because it was disposed.  The call asks
\* for the page the gate looks at; the handler then finds it in the same turn.
StartCall(r) ==
    /\ call[r].phase = "called"
    /\ IF call[r].session \in disposed
       THEN Refused(r) /\ UNCHANGED <<current, generation, named>>
       ELSE AskSession(r, 1)
    /\ KeepPool
    /\ UNCHANGED <<mgrVars, live, open>>

\* A browser is launched, or connected to; a provider's has a context or not.
Launched(r) ==
    LET s == call[r].session
        k == call[r].ask
        b == <<r, k>>
    IN  /\ call[r].phase = "launch"
        /\ live' = live \cup {b}
        /\ browser' = [browser EXCEPT ![s] = b]
        /\ \/ /\ manager = "local"
              /\ context' = [context EXCEPT ![s] = None]
              /\ tab' = [tab EXCEPT ![s] = None]
              /\ At(r, k, "context", b)
           \/ /\ manager = "remote"
              /\ UNCHANGED tab
              /\ \/ context' = [context EXCEPT ![s] = b] /\ At(r, k, "page", b)
                 \/ context' = [context EXCEPT ![s] = None] /\ At(r, k, "context", b)
        /\ UNCHANGED <<open, current, generation, named>>
        /\ KeepPool

\* newContext() resolves; the page is opened in it.
ContextMade(r) ==
    LET s == call[r].session
    IN  /\ call[r].phase = "context"
        /\ call[r].on \in live
        /\ context' = [context EXCEPT ![s] = call[r].on]
        /\ At(r, call[r].ask, "page", call[r].on)
        /\ UNCHANGED <<browser, tab, live, open, current, generation, named>>
        /\ KeepPool

\* newPage() resolves: the manager keeps the page and the session adopts it.
PageOpened(r) ==
    LET s == call[r].session
    IN  /\ call[r].phase = "page"
        /\ call[r].on \in live
        /\ open' = open \cup {r}
        /\ tab' = [tab EXCEPT ![s] = r]
        /\ Use(r, r, call[r].on)
        /\ UNCHANGED <<browser, context, live>>
        /\ KeepPool

\* What is awaited rejects, which a browser that runs may do as well.  For the
\* gate that is no page: the call is refused, needs none, or its handler asks
\* again.
AwaitFails(r) ==
    /\ call[r].phase \in Awaits
    /\ \/ Refused(r) /\ UNCHANGED <<current, generation, named>>
       \/ call[r].ask = 1 /\ AskSession(r, 2)
    /\ UNCHANGED <<mgrVars, live, open>>
    /\ KeepPool

\* The tool returns.
CallEnds(r) ==
    /\ call[r].phase = "using"
    /\ At(r, 1, "ended", call[r].on)
    /\ UNCHANGED <<mgrVars, live, open, current, generation, named>>
    /\ KeepPool

-----------------------------------------------------------------------------
(***************************************************************************)
(* The browser.                                                            *)
(***************************************************************************)

\* A page closes by itself, or crashes.
PageGone(p) ==
    /\ p \in open
    /\ lost < MaxLosses
    /\ lost' = lost + 1
    /\ PagesClose({p})
    /\ UNCHANGED <<poolVars, mgrVars, live, call, returned, swept, named>>

\* The process of a browser ends, or the connection to it; a remote manager
\* listens and forgets what it has, which may be of another browser.
BrowserGone(b) ==
    LET s == SessionOf(b)
    IN  /\ b \in live
        /\ lost < MaxLosses
        /\ lost' = lost + 1
        /\ live' = live \ {b}
        /\ PagesClose({p \in open : call[p].on = b})
        /\ IF manager = "remote"
           THEN /\ browser' = [browser EXCEPT ![s] = None]
                /\ context' = [context EXCEPT ![s] = None]
                /\ tab' = [tab EXCEPT ![s] = None]
           ELSE UNCHANGED mgrVars
        /\ UNCHANGED <<poolVars, call, returned, swept, named>>

-----------------------------------------------------------------------------

\* Calls of a session that are inside its manager.
Inside(s) == {r \in Requests : call[r].session = s /\ call[r].phase \in Awaits}

CallStep(r) ==
    \/ StartCall(r) \/ Launched(r) \/ ContextMade(r) \/ PageOpened(r)
    \/ AwaitFails(r) \/ CallEnds(r) \/ HandlerReturns(r)

Step ==
    \/ \E r \in Requests : Arrive(r) \/ CallStep(r)
    \/ \E stale \in SUBSET Ids \ {{}} : Sweep(stale)
    \/ \E c \in closing : DisposeEnds(c)
    \/ \E p \in open : PageGone(p)
    \/ \E b \in live : BrowserGone(b)

\* Every step, and the bookkeeping of the races.
Next ==
    /\ Step
    /\ UNCHANGED manager
    /\ raced' = raced \cup
         {s \in Sessions : Cardinality(Inside(s)') > 1
                           \/ (s \in disposed' /\ Inside(s)' # {})}

Spec == Init /\ [][Next]_vars

\* Requests are carried through, and Playwright answers.
FairSpec ==
    /\ Spec
    /\ \A r \in Requests : WF_vars(Next /\ CallStep(r))
    /\ WF_vars(Next /\ \E c \in closing : DisposeEnds(c))

-----------------------------------------------------------------------------
(***************************************************************************)
(* Properties.                                                             *)
(***************************************************************************)

\* Types; what a session or a manager points to was made for it.
TypeOK ==
    /\ manager \in Managers
    /\ registry \in [Ids -> OrNone]
    /\ disposed \subseteq made /\ made \subseteq Sessions
    /\ live \subseteq Browsers /\ open \subseteq Requests
    /\ generation \in [Sessions -> Nat]
    /\ call \in [Requests -> [phase : Phases, session : OrNone, ask : {1, 2},
                              on : BrowserOrNone]]
    /\ \A r \in Requests : call[r].phase # "none" =>
          call[r].session \in made /\ IdOf[call[r].session] = IdOf[r]
    /\ \A s \in Sessions :
          /\ current[s] # None => current[s] \in PageOf(s)
          /\ tab[s] # None => call[tab[s]].session = s
          /\ browser[s] # None => SessionOf(browser[s]) = s
          /\ context[s] # None => SessionOf(context[s]) = s
    /\ returned \subseteq Stateless
    /\ closing \subseteq [id : Ids, page : Requests]

\* A session whose queue is disposed stays registered only as long as its
\* disposal lasts: no id is left with a session that refuses every call
\* (SessionRegistry.dispose).
DisposedIsLeaving ==
    \A i \in Ids : registry[i] \in disposed => \E c \in closing : c.id = i

\* A session falls out of the registry undisposed only if two disposals of its
\* id overlapped; the later one then deletes what it did not dispose
\* (SessionRegistry.dispose deletes by id).
OrphansNeedOverlap ==
    \A s \in made \ disposed : registry[IdOf[s]] = s \/ IdOf[s] \in overlapped

\* Unless two calls were inside the manager at once, or one when the session was
\* disposed, every open page is the session's or about to be closed
\* (Session.page and Session.dispose lose no page).
SoleCallerLosesNoPage ==
    \A s \in made \ raced : \A p \in PageOf(s) :
        current[s] = p \/ \E c \in closing : c.page = p

\* Without such a race a manager has one live browser: it launches another only
\* when the last is gone (page() of both managers).
OneBrowserEach ==
    \A s \in made \ raced : \A b, c \in BrowserOf(s) : b = c

\* A generation never covers two pages, so a ref of one generation is never
\* looked up on the page of another (Session.page and its close listener).
GenerationNamesPage ==
    \A m, n \in named : m[1] = n[1] /\ m[2] = n[2] => m[3] = n[3]

\* Sessions, pages and browsers belong together (session.ts, browser.ts).
PoolInv == TypeOK /\ DisposedIsLeaving /\ OneBrowserEach /\ GenerationNamesPage

\* The id of a request without one does not stay in the registry: its session
\* is forgotten when the handler is through (the finally block of the handler).
StatelessForgotten ==
    \A r \in Stateless : call[r].phase # "none" ~> registry[IdOf[r]] = None

\* The browser of a session that was dropped while nothing raced, and whose calls
\* are over, goes too: the comments of src/server.ts say that its manager is
\* disposed and that it does not pin a browser (Session.dispose).
BrowserGoesToo ==
    \A s \in Sessions :
        /\ s \in disposed \ raced /\ registry[IdOf[s]] # s
        /\ \A r \in Requests : call[r].session = s => call[r].phase = "ended"
        ~> BrowserOf(s) = {}

=============================================================================
