------------------------------ MODULE HttpFront -----------------------------
(***************************************************************************)
(* The middleware in front of the HTTP endpoint (src/http-hardening.ts):   *)
(* header checks, the concurrency gate, the rate limit per client, the     *)
(* method check and the deadline of a response, in the order of the stack. *)
(*                                                                         *)
(* The stack runs without interruption, so receiving a request is one      *)
(* action.  Its response is then open, streaming (headers sent), ended     *)
(* (all written), finished (flushed) and closed.                           *)
(***************************************************************************)
EXTENDS Integers, Sequences, FiniteSets

CONSTANTS
    Requests,
    Kinds,            \* what may be sent: client, via, forged, host, origin,
                      \* large, method
    TrustedProxies,
    TrustProxy,       \* whether forwarding headers are looked at
    MaxForwardedHops,
    AllowedHosts, Loopback, AllowedOrigins, Methods,
    MaxConcurrent,    \* 0 where the option is left out
    RateLimit,        \* requests per window; 0 switches the limit off
    MaxKeys,          \* rateLimitMaxKeys
    Window, Second,   \* WINDOW_MS and 1000, in ticks
    Timeout,          \* requestTimeoutMs; 0 switches it off
    MaxTime           \* bound for TLC

ASSUME FrontParameters ==
    /\ Requests \subseteq Nat \ {0} /\ IsFiniteSet(Requests)
    /\ MaxConcurrent \in Nat /\ RateLimit \in Nat /\ Timeout \in Nat
    /\ MaxKeys \in Nat \ {0}
    /\ Window \in Nat \ {0} /\ Second \in Nat \ {0}
    /\ MaxForwardedHops \in Nat /\ MaxTime \in Nat
    /\ TrustProxy \in BOOLEAN

\* Clients are no proxies, and come directly or through proxies that the server
\* was told of, which is what those two options are for.
ASSUME Deployment ==
    \A q \in Kinds :
       /\ q.client \in STRING \ TrustedProxies
       /\ q.forged \in Seq(STRING)
       /\ q.via \in Seq(TrustedProxies)
       /\ q.via # <<>> => TrustProxy

VARIABLES
    now,
    hits,      \* the limiter's map in insertion order: key, count, windowStart
    inFlight,
    response,  \* per request, the phase of its response,
    status,    \* its status code,
    since,     \* and when its deadline was set
    counted,   \* requests that hold a slot of the gate
    passed,    \* history: what the limiter let pass, as long as it knows the key
    keyed,     \* history: clients, and the keys they were counted under
    retry      \* history: ends of windows, and the times Retry-After named

frontVars == <<now, hits, inFlight, response, status, since, counted, passed, keyed, retry>>

None == "none"

FrontInit ==
    /\ now = 0
    /\ hits = <<>>
    /\ inFlight = 0
    /\ response = [r \in Requests |-> None]
    /\ status = [r \in Requests |-> 0]
    /\ since = [r \in Requests |-> 0]
    /\ counted = {}
    /\ passed = {}
    /\ keyed = {}
    /\ retry = {}

-----------------------------------------------------------------------------
(***************************************************************************)
(* What a request says of itself.  A client writes what it likes into the  *)
(* forwarding header; each proxy on the way adds whom it heard from.       *)
(***************************************************************************)

\* The hops a request shows: forged ones, the client, all proxies but the last.
Header(q) ==
    IF q.via = <<>> THEN q.forged
    ELSE q.forged \o <<q.client>> \o SubSeq(q.via, 1, Len(q.via) - 1)
Peer(q) == IF q.via = <<>> THEN q.client ELSE q.via[Len(q.via)]

\* Mutant: the switch alone makes a peer trusted.
Chain_AnyPeer(q) == IF TrustProxy THEN Header(q) ELSE <<>>

\* forwardedChain(); empty where the header is not to be looked at.
Chain(q) == IF TrustProxy /\ Peer(q) \in TrustedProxies THEN Header(q) ELSE <<>>

\* clientIp(): the nearest hop that is no trusted proxy, else the furthest.
ClientIp(q) ==
    LET chain == Chain(q)
        far   == {i \in DOMAIN chain : chain[i] \notin TrustedProxies}
    IN  IF chain = <<>> \/ Len(chain) > MaxForwardedHops THEN Peer(q)
        ELSE IF far = {} THEN chain[1]
        ELSE chain[CHOOSE i \in far : \A j \in far : j <= i]

HostAllowed(host) ==
    \/ host \in AllowedHosts
    \/ host \in Loopback /\ AllowedHosts \cap Loopback # {}

\* The checks before the gate, in order: 0 if all pass.
Refusal(q) ==
    CASE Len(Chain(q)) > MaxForwardedHops -> 400
      [] Len(Chain(q)) <= MaxForwardedHops /\ q.host = None -> 400
      [] OTHER ->
           IF ~HostAllowed(q.host) \/ q.origin \notin AllowedOrigins \cup {None}
           THEN 403
           ELSE IF q.large THEN 413 ELSE 0

-----------------------------------------------------------------------------
(***************************************************************************)
(* The limiter.                                                            *)
(***************************************************************************)

Places(key) == {i \in DOMAIN hits : hits[i].key = key}

\* Mutant: a window in the wrong unit.
WindowOver_Seconds(i) == now - hits[i].start >= Window \div Second

WindowOver(i) == now - hits[i].start >= Window

OverLimit(key) ==
    \E i \in Places(key) : ~WindowOver(i) /\ hits[i].count + 1 > RateLimit

\* Mutant: keys are added at the limit, and none is dropped.
Dropped_Never(key) == {}

\* The key inserted first makes room for a new one.
Dropped(key) == IF Places(key) = {} /\ Len(hits) >= MaxKeys THEN {1} ELSE {}

NewKey(key) ==
    /\ Places(key) = {}
    /\ hits' = Append(IF Dropped(key) = {} THEN hits ELSE Tail(hits),
                      [key |-> key, count |-> 1, start |-> now])

NewWindow(key) == \E i \in Places(key) :
    /\ WindowOver(i)
    /\ hits' = [hits EXCEPT ![i].count = 1, ![i].start = now]

SameWindow(key) == \E i \in Places(key) :
    /\ ~WindowOver(i)
    /\ hits' = [hits EXCEPT ![i].count = @ + 1]

\* rateLimit() lets a request pass.
Pass(r, key) ==
    /\ ~OverLimit(key)
    /\ NewKey(key) \/ NewWindow(key) \/ SameWindow(key)
    /\ passed' = {p \in passed : \A i \in Dropped(key) : p.key # hits[i].key}
                     \cup {[key |-> key, at |-> now, by |-> r]}

\* Mutant: rounded down.
RetryAfter_Down(ticks) == IF ticks \div Second < 1 THEN 1 ELSE ticks \div Second

\* Retry-After, in seconds.
RetryAfter(ticks) == IF ticks < 1 THEN 1 ELSE (ticks + Second - 1) \div Second

-----------------------------------------------------------------------------
(***************************************************************************)
(* A request passes the stack.                                             *)
(***************************************************************************)

Gated == MaxConcurrent # 0
Limiting == RateLimit # 0

Answered(r, code) ==
    /\ response' = [response EXCEPT ![r] = "ended"]
    /\ status' = [status EXCEPT ![r] = code]
    /\ UNCHANGED since

\* The gate takes a slot.
Slot(r) ==
    /\ ~(Gated /\ inFlight >= MaxConcurrent)
    /\ counted' = IF Gated THEN counted \cup {r} ELSE counted
    /\ inFlight' = IF Gated THEN inFlight + 1 ELSE inFlight

RefusedByHeaders(r, q) ==
    /\ Refusal(q) # 0
    /\ Answered(r, Refusal(q))
    /\ UNCHANGED <<hits, inFlight, counted, passed, keyed, retry>>

Busy(r, q) ==
    /\ Refusal(q) = 0
    /\ Gated /\ inFlight >= MaxConcurrent
    /\ Answered(r, 503)
    /\ UNCHANGED <<hits, inFlight, counted, passed, keyed, retry>>

\* Too many requests: the slot is held until the answer is out.
Limited(r, q) ==
    LET key == ClientIp(q)
    IN  /\ Refusal(q) = 0
        /\ Slot(r)
        /\ Limiting /\ OverLimit(key)
        /\ SameWindow(key)
        /\ keyed' = keyed \cup {<<q.client, key>>}
        /\ UNCHANGED passed
        /\ retry' = retry \cup
               {[over |-> hits[i].start + Window,
                 told |-> now + Second * RetryAfter(hits[i].start + Window - now)]
                   : i \in Places(key)}
        /\ Answered(r, 429)

\* Past the limiter: another method is refused, the rest gets a deadline.
Admitted(r, q) ==
    LET key == ClientIp(q)
    IN  /\ Refusal(q) = 0
        /\ Slot(r)
        /\ IF Limiting
           THEN Pass(r, key) /\ keyed' = keyed \cup {<<q.client, key>>}
           ELSE UNCHANGED <<hits, passed, keyed>>
        /\ IF q.method \in Methods
           THEN /\ response' = [response EXCEPT ![r] = "open"]
                /\ since' = [since EXCEPT ![r] = now]
                /\ UNCHANGED status
           ELSE Answered(r, 405)
        /\ UNCHANGED retry

\* Requests are numbered as they come; the last deadline is within MaxTime.
Receive(r, q) ==
    /\ response[r] = None
    /\ \A o \in 1..r - 1 : response[o] # None
    /\ now + Timeout <= MaxTime
    /\ RefusedByHeaders(r, q) \/ Busy(r, q) \/ Limited(r, q) \/ Admitted(r, q)
    /\ UNCHANGED now

-----------------------------------------------------------------------------
(***************************************************************************)
(* A response.                                                             *)
(***************************************************************************)

\* Mutant: the two events of one response return its slot twice.
Release_Twice(r) ==
    /\ counted' = counted
    /\ inFlight' = IF r \in counted /\ inFlight > 0 THEN inFlight - 1 ELSE inFlight

\* release(), on "finish" or "close", whichever is first.
Release(r) ==
    /\ counted' = counted \ {r}
    /\ inFlight' = IF r \in counted /\ inFlight > 0 THEN inFlight - 1 ELSE inFlight

Limits == <<now, hits, passed, keyed, retry>>
Becomes(r, phase) == response' = [response EXCEPT ![r] = phase]

\* The handler sends headers first, or all at once.
Streams(r) ==
    /\ response[r] = "open"
    /\ Becomes(r, "streaming")
    /\ status' = [status EXCEPT ![r] = 200]
    /\ UNCHANGED <<Limits, inFlight, counted, since>>

Ends(r) ==
    /\ response[r] \in {"open", "streaming"}
    /\ Becomes(r, "ended")
    /\ status' = [status EXCEPT ![r] = 200]
    /\ UNCHANGED <<Limits, inFlight, counted, since>>

\* Mutant: the deadline is for the headers only.
Due_Headers(r) ==
    Timeout # 0 /\ response[r] = "open" /\ now - since[r] >= Timeout

\* The timer's time has come and the response is not all written.
Due(r) ==
    /\ Timeout # 0
    /\ response[r] \in {"open", "streaming"}
    /\ now - since[r] >= Timeout

\* Mutant: the status is sent whether or not there is one.
TimesOut_Always(r) ==
    /\ Due(r)
    /\ Becomes(r, "ended")
    /\ status' = [status EXCEPT ![r] = 504]
    /\ UNCHANGED <<Limits, inFlight, counted, since>>

\* The timer: 504 if no headers are out, else the response is destroyed.
TimesOut(r) ==
    /\ Due(r)
    /\ \/ /\ response[r] = "open"
          /\ Becomes(r, "ended")
          /\ status' = [status EXCEPT ![r] = 504]
          /\ UNCHANGED <<inFlight, counted>>
       \/ /\ response[r] = "streaming"
          /\ Becomes(r, "closed")
          /\ Release(r)
          /\ UNCHANGED status
    /\ UNCHANGED <<Limits, since>>

\* "finish": all is handed to the system.
Finish(r) ==
    /\ response[r] = "ended"
    /\ Becomes(r, "finished")
    /\ Release(r)
    /\ UNCHANGED <<Limits, status, since>>

\* "close", after that or because the client went away.
Close(r) ==
    /\ response[r] \in {"open", "streaming", "ended", "finished"}
    /\ Becomes(r, "closed")
    /\ Release(r)
    /\ UNCHANGED <<Limits, status, since>>

\* Time goes on when no timer is due.
FrontTick ==
    /\ now < MaxTime
    /\ \A r \in Requests : ~Due(r)
    /\ now' = now + 1
    /\ UNCHANGED <<hits, inFlight, response, status, since, counted, passed, keyed,
                   retry>>

FrontNext ==
    \/ \E r \in Requests :
          \/ \E q \in Kinds : Receive(r, q)
          \/ Streams(r) \/ Ends(r) \/ TimesOut(r) \/ Finish(r) \/ Close(r)
    \/ FrontTick

FrontSpec == FrontInit /\ [][FrontNext]_frontVars

\* Timers fire and what is written reaches the system; no handler need answer.
FairFrontSpec ==
    /\ FrontSpec
    /\ WF_frontVars(FrontTick)
    /\ \A r \in Requests : WF_frontVars(TimesOut(r)) /\ WF_frontVars(Finish(r))

-----------------------------------------------------------------------------
(***************************************************************************)
(* Properties.                                                             *)
(***************************************************************************)

\* Types; the limiter holds a key once, and no more keys than it may.
FrontTypes ==
    /\ now \in 0..MaxTime
    /\ hits \in Seq([key : STRING, count : Nat \ {0}, start : 0..now])
    /\ Len(hits) <= MaxKeys
    /\ \A i, j \in DOMAIN hits : hits[i].key = hits[j].key => i = j
    /\ inFlight \in 0..Cardinality(Requests)
    /\ response \in [Requests -> {None, "open", "streaming", "ended", "finished",
                                  "closed"}]
    /\ status \in [Requests -> {0, 200, 400, 403, 405, 413, 429, 503, 504}]
    /\ since \in [Requests -> 0..now]
    /\ counted \subseteq Requests

\* The gate's counter is the number of responses under way that passed it, never
\* more than the option allows: aborts, timeouts and the two events of one
\* response neither leak a slot nor return one twice (concurrencyGate).
SlotsAreResponses ==
    LET underWay == {r \in Requests :
                        /\ response[r] \in {"open", "streaming", "ended"}
                        /\ status[r] \notin {400, 403, 413, 503}}
    IN  Gated => inFlight = Cardinality(underWay) /\ inFlight <= MaxConcurrent

\* As long as the limiter remembers a key, no span of one window's length sees
\* more than twice the limit pass: the worst a fixed window allows, whenever the
\* windows begin (rateLimit).
TwoWindowsBound ==
    Limiting => \A p \in passed :
        Cardinality({o \in passed : o.key = p.key /\ o.at \in p.at..(p.at + Window - 1)})
            <= 2 * RateLimit

\* A client is counted under its own address whatever it writes into the
\* forwarding header, directly or through trusted proxies (clientIp).
CountedUnderOwnKey == \A pair \in keyed : pair[1] = pair[2]

\* A client that waits as Retry-After says finds the window over (rateLimit).
RetryFindsNewWindow == \A told \in retry : told.told >= told.over

\* No response is under way past its deadline, streaming or not; the deadline
\* covers the whole exchange (timeoutWare).
DeadlineHolds ==
    \A r \in Requests :
        Timeout # 0 /\ response[r] \in {"open", "streaming"} => now - since[r] <= Timeout

\* What the middlewares count and time is what the responses are
\* (http-hardening.ts).
FrontInv ==
    FrontTypes /\ SlotsAreResponses /\ CountedUnderOwnKey /\ RetryFindsNewWindow /\ DeadlineHolds

\* A status that was sent is not replaced (timeoutWare against the handler).
OneStatus ==
    [][\A r \in Requests : status[r] # 0 => status'[r] = status[r]]_frontVars

\* Every request gets an end although its handler may hang (timeoutWare).
EveryRequestEnds ==
    \A r \in Requests : response[r] # None ~> response[r] \in {"finished", "closed"}
=============================================================================
