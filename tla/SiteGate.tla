------------------------------ MODULE SiteGate ------------------------------
(***************************************************************************)
(* Dispatches to an attached tab of the extension, and the user's word on  *)
(* each site (extension/dispatch-gate.js, site-authorizations.js,          *)
(* tab-attachment.js and what service-worker.js does with them), over      *)
(* navigations, closed tabs and restarts of the worker.                    *)
(*                                                                         *)
(* A page has a scheme and a host, the host a name and a port.  The user's *)
(* word is kept by scheme and name.  The gate takes a page for the same by *)
(* its host, and asks for "https://" and its name, whatever its scheme.    *)
(***************************************************************************)
EXTENDS Integers, FiniteSets

CONSTANTS
    Pages,                          \* records of a scheme and a host
    NameOf,                         \* the name of a host, without its port
    Tabs, Tokens, Dispatches,
    None,
    Kinds,                          \* kinds of grants the user gives: "once", "site"
    MaxWords, MaxMoves, MaxDeaths   \* bounds for TLC

Hosts == {p.host : p \in Pages}

\* The origin of a page, as canonicalizeOrigin() has it, and the one that
\* enforce() looks up for it.
OriginOf(p) == <<p.scheme, NameOf[p.host]>>
AskedOf(p) == <<"https", NameOf[p.host]>>
Origins == {OriginOf(p) : p \in Pages} \cup {AskedOf(p) : p \in Pages}

ASSUME ParametersAssumption ==
    /\ None \notin Pages \cup Hosts
    /\ Kinds \subseteq {"once", "site"}
    /\ MaxWords \in Nat /\ MaxMoves \in Nat /\ MaxDeaths \in Nat

VARIABLES
    bound,        \* the attachments hear of closed tabs (bindChromeTabs)
    alive,
    siteAuthzReady,
    first,        \* the registry the worker, and the gate, begin with
    restored,     \* the one made of what was stored, if there was any
    storage,      \* chrome.storage.local
    page,         \* the page of each tab; None if it is closed
    inflight,     \* per token, the tab and page it was issued for
    dispatch,     \* per dispatch: its phase, its attachment, what it read
    words, moves, deaths,  \* counters for the bounds
    lastWord,     \* history: what the user said last of each origin
    visited       \* history: hosts the tab of a dispatch had while it ran

registryVars == <<first, restored, storage>>
vars == <<bound, alive, siteAuthzReady, registryVars, page, inflight, dispatch, words, moves,
          deaths, lastWord, visited>>

Registry == [grants : [Origins -> Kinds \cup {"none"}], denials : SUBSET Origins,
             onceUsed : SUBSET Origins]
EmptyRegistry == [grants |-> [o \in Origins |-> "none"], denials |-> {}, onceUsed |-> {}]
NoRegistry == [EmptyRegistry EXCEPT !.denials = Origins, !.onceUsed = Origins]

NoAttachment == [tab |-> None, page |-> None]
NoDispatch == [phase |-> "none", info |-> NoAttachment, live |-> None]

\* What a tab shows, by its host.
HostOf(p) == IF p = None THEN None ELSE p.host

\* Where the user's word goes: `siteAuthorizations'.
Current == IF restored # NoRegistry THEN restored ELSE first

-----------------------------------------------------------------------------
(***************************************************************************)
(* The registry                                                            *)
(***************************************************************************)
\* decisionFor()
Decision(reg, o) ==
    CASE o \in reg.denials -> "denied"
      [] o \notin reg.denials /\ reg.grants[o] = "none" -> "unknown"
      [] o \notin reg.denials /\ reg.grants[o] = "once" /\ o \in reg.onceUsed -> "denied"
      [] OTHER -> "allowed"

Granted(reg, o, kind) ==
    [grants |-> [reg.grants EXCEPT ![o] = kind], denials |-> reg.denials \ {o},
     onceUsed |-> reg.onceUsed \ {o}]

Revoked(reg, o) == Granted(reg, o, "none")

\* Mutant: the grant stays, for when the site is no longer denied.
Denied_KeepsGrant(reg, o) == [reg EXCEPT !.denials = @ \cup {o}]

Denied(reg, o) == [Revoked(reg, o) EXCEPT !.denials = @ \cup {o}]

\* applySiteAuthorization()
Applied(reg, o, word) ==
    CASE word \in Kinds -> Granted(reg, o, word)
      [] word = "denied" -> Denied(reg, o)
      [] word = "none" -> Revoked(reg, o)

\* Mutant: the grants alone are stored.
Durable_Grants(reg) == [reg EXCEPT !.denials = {}]

\* durableSnapshot().  It leaves out grants for a session, which the worker
\* does not give.
Durable(reg) == reg

\* Mutant: the user's word does not wait for the stored registry.
Listening_AtOnce == alive

Listening == alive /\ siteAuthzReady

\* A word of the user, on the registry of the moment, and saved.
UserSays(o, word) ==
    /\ Listening
    /\ words < MaxWords
    /\ words' = words + 1
    /\ LET said == Applied(Current, o, word)
       IN  /\ storage' = Durable(said)
           /\ IF restored # NoRegistry
              THEN restored' = said /\ UNCHANGED first
              ELSE first' = said /\ UNCHANGED restored
    /\ lastWord' = [lastWord EXCEPT ![o] = word]
    /\ UNCHANGED <<bound, alive, siteAuthzReady, page, inflight, dispatch, moves, deaths,
                   visited>>

-----------------------------------------------------------------------------
(***************************************************************************)
(* The worker                                                              *)
(***************************************************************************)
\* siteAuthzReady: the gate keeps the registry it was built with.
LoadRegistry ==
    /\ alive /\ ~siteAuthzReady
    /\ siteAuthzReady' = TRUE
    /\ restored' = storage
    /\ UNCHANGED <<bound, alive, first, storage, page, inflight, dispatch, words, moves, deaths,
                   lastWord, visited>>

\* The worker dies, with the attachments and the dispatches under way.
Die ==
    /\ alive
    /\ deaths < MaxDeaths
    /\ deaths' = deaths + 1
    /\ alive' = FALSE
    /\ siteAuthzReady' = FALSE
    /\ first' = EmptyRegistry
    /\ restored' = NoRegistry
    /\ inflight' = [t \in Tokens |-> NoAttachment]
    /\ dispatch' = [d \in Dispatches |->
                      IF dispatch[d].phase \in {"none", "allowed"} THEN dispatch[d]
                      ELSE [dispatch[d] EXCEPT !.phase = "refused"]]
    /\ UNCHANGED <<bound, storage, page, words, moves, lastWord, visited>>

Boot ==
    /\ ~alive
    /\ alive' = TRUE
    /\ UNCHANGED <<bound, siteAuthzReady, registryVars, page, inflight, dispatch, words, moves,
                   deaths, lastWord, visited>>

-----------------------------------------------------------------------------
(***************************************************************************)
(* Tabs and attachments                                                    *)
(***************************************************************************)
\* A tab shows another page, or is closed.  Attachments of a closed tab go, if
\* they are bound to the events of tabs.
Navigate(tab, p) ==
    /\ moves < MaxMoves
    /\ page[tab] \notin {None, p}
    /\ moves' = moves + 1
    /\ page' = [page EXCEPT ![tab] = p]
    /\ inflight' = [t \in Tokens |->
                      IF alive /\ bound /\ p = None /\ inflight[t].tab = tab
                      THEN NoAttachment ELSE inflight[t]]
    /\ visited' = [d \in Dispatches |->
                     IF dispatch[d].info.tab = tab THEN visited[d] \cup {HostOf(p)}
                     ELSE visited[d]]
    /\ UNCHANGED <<bound, alive, siteAuthzReady, registryVars, dispatch, words, deaths,
                   lastWord>>

Attach(t, tab) ==
    /\ alive
    /\ inflight[t] = NoAttachment
    /\ page[tab] # None
    /\ inflight' = [inflight EXCEPT ![t] = [tab |-> tab, page |-> page[tab]]]
    /\ UNCHANGED <<bound, alive, siteAuthzReady, registryVars, page, dispatch, words, moves,
                   deaths, lastWord, visited>>

\* detach(), or the sweep of attachments that are too old
Detach(t) ==
    /\ inflight[t] # NoAttachment
    /\ inflight' = [inflight EXCEPT ![t] = NoAttachment]
    /\ UNCHANGED <<bound, alive, siteAuthzReady, registryVars, page, dispatch, words, moves,
                   deaths, lastWord, visited>>

-----------------------------------------------------------------------------
(***************************************************************************)
(* enforce()                                                               *)
(***************************************************************************)
\* Up to the await of tabs.get().  Without an attachment it refuses.
Enforce(d, t) ==
    /\ alive
    /\ dispatch[d].phase = "none"
    /\ inflight[t] # NoAttachment
    /\ dispatch' = [dispatch EXCEPT ![d] = [phase |-> "reading", info |-> inflight[t],
                                            live |-> None]]
    /\ visited' = [visited EXCEPT ![d] = {HostOf(page[inflight[t].tab])}]
    /\ UNCHANGED <<bound, alive, siteAuthzReady, registryVars, page, inflight, words, moves,
                   deaths, lastWord>>

\* The browser looks at the tab; the answer is under way.
TabRead(d) ==
    /\ dispatch[d].phase = "reading"
    /\ dispatch' = [dispatch EXCEPT ![d].phase = "deciding",
                                    ![d].live = page[dispatch[d].info.tab]]
    /\ UNCHANGED <<bound, alive, siteAuthzReady, registryVars, page, inflight, words, moves,
                   deaths, lastWord, visited>>

\* Mutant: the live page is not compared with the attached one.
SamePlace_Readable(info, live) == live # None

SamePlace(info, live) == HostOf(live) = info.page.host

\* Mutant: a grant for one dispatch is not used up.
Consumed_Never(reg, o) == reg

\* consumeOnce(), for a grant of that kind
Consumed(reg, o) ==
    IF reg.grants[o] = "once" THEN [reg EXCEPT !.onceUsed = @ \cup {o}] ELSE reg

Refuse(d) ==
    /\ dispatch[d].phase = "deciding"
    /\ LET info == dispatch[d].info
       IN  ~SamePlace(info, dispatch[d].live) \/ Decision(first, AskedOf(info.page)) # "allowed"
    /\ dispatch' = [dispatch EXCEPT ![d].phase = "refused"]
    /\ UNCHANGED <<bound, alive, siteAuthzReady, registryVars, page, inflight, words, moves,
                   deaths, lastWord, visited>>

\* The grant is looked up and used in one turn, in the registry of the gate.
Allow(d) ==
    /\ dispatch[d].phase = "deciding"
    /\ LET info == dispatch[d].info
           o == AskedOf(info.page)
       IN  /\ SamePlace(info, dispatch[d].live)
           /\ Decision(first, o) = "allowed"
           /\ first' = Consumed(first, o)
           /\ lastWord' = IF lastWord[o] = "once" THEN [lastWord EXCEPT ![o] = "spent"]
                          ELSE lastWord
    /\ dispatch' = [dispatch EXCEPT ![d].phase = "allowed"]
    /\ UNCHANGED <<bound, alive, siteAuthzReady, restored, storage, page, inflight, words, moves,
                   deaths, visited>>

-----------------------------------------------------------------------------
Init ==
    /\ bound \in BOOLEAN
    /\ alive = TRUE /\ siteAuthzReady = FALSE
    /\ first = EmptyRegistry /\ restored = NoRegistry /\ storage = NoRegistry
    /\ page \in [Tabs -> Pages]
    /\ inflight = [t \in Tokens |-> NoAttachment]
    /\ dispatch = [d \in Dispatches |-> NoDispatch]
    /\ words = 0 /\ moves = 0 /\ deaths = 0
    /\ lastWord = [o \in Origins |-> "none"]
    /\ visited = [d \in Dispatches |-> {}]

Next ==
    \/ LoadRegistry \/ Die \/ Boot
    \/ \E o \in Origins, word \in Kinds \cup {"denied", "none"} : UserSays(o, word)
    \/ \E tab \in Tabs, p \in Pages \cup {None} : Navigate(tab, p)
    \/ \E t \in Tokens, tab \in Tabs : Attach(t, tab)
    \/ \E t \in Tokens : Detach(t)
    \/ \E d \in Dispatches, t \in Tokens : Enforce(d, t)
    \/ \E d \in Dispatches : TabRead(d) \/ Refuse(d) \/ Allow(d)

Spec == Init /\ [][Next]_vars

-----------------------------------------------------------------------------
\* What a registry holds of an origin.
Says(reg, o) == IF o \in reg.denials THEN "denied" ELSE reg.grants[o]

TypeOK ==
    /\ bound \in BOOLEAN /\ alive \in BOOLEAN /\ siteAuthzReady \in BOOLEAN
    /\ \A reg \in {first, restored, storage} : reg \in Registry
    /\ \A reg \in {first, restored, storage} \ {NoRegistry} :
          \A o \in reg.denials : reg.grants[o] = "none" /\ o \notin reg.onceUsed
    /\ \A o \in Origins : o \in first.onceUsed => first.grants[o] = "once"
    /\ page \in [Tabs -> Pages \cup {None}]
    /\ inflight \in [Tokens -> [tab : Tabs, page : Pages] \cup {NoAttachment}]
    /\ \A d \in Dispatches :
          /\ dispatch[d].phase \in {"none", "reading", "deciding", "allowed", "refused"}
          /\ dispatch[d].live \in Pages \cup {None}
    /\ lastWord \in [Origins -> Kinds \cup {"none", "denied", "spent"}]

Allows(d) == dispatch[d].phase # "allowed" /\ dispatch'[d].phase = "allowed"

(***************************************************************************)
(* A dispatch is allowed only on the user's last word about the origin     *)
(* that the gate asks for, "https://" and the name of the page's host, and *)
(* a word for one dispatch carries one: with dispatches that race for it,  *)
(* words that come while the tab is read, restarts, and a gate whose       *)
(* registry is not the one that later words go to.  What the user says of  *)
(* an http origin is kept and counts for nothing here: see DeniedIsRefused *)
(***************************************************************************)
LastWordCounts ==
    [][\A d \in Dispatches :
          Allows(d) => lastWord[AskedOf(dispatch[d].info.page)] \in Kinds]_vars

(***************************************************************************)
(* What the gate allows, the registry the user sees allows as well.        *)
(***************************************************************************)
GateNeverWider ==
    [][\A d \in Dispatches :
          Allows(d) => Decision(Current, AskedOf(dispatch[d].info.page)) = "allowed"]_vars

(***************************************************************************)
(* A dispatch is allowed only if its tab showed the host it was attached   *)
(* to at some moment of the dispatch, whatever it showed when it was       *)
(* attached and shows now.                                                 *)
(***************************************************************************)
PageSeen ==
    \A d \in Dispatches :
       dispatch[d].phase = "allowed" => dispatch[d].info.page.host \in visited[d]

\* What the gate holds about tabs and sites (dispatch-gate.js).
SiteInv == TypeOK /\ PageSeen

(***************************************************************************)
(* What is stored is the user's last word on every origin: none is lost by *)
(* a restart, or by a word saved before the stored ones are loaded.        *)
(***************************************************************************)
WordsAreKept ==
    \A o \in Origins :
       LET kept == IF storage = NoRegistry THEN "none" ELSE Says(storage, o)
       IN  kept = IF lastWord[o] = "spent" THEN "once" ELSE lastWord[o]

(***************************************************************************)
(* A statement of the repository that the code does not keep               *)
(***************************************************************************)
\* The verdict is the one "for the active origin", says the head of
\* dispatch-gate.js: no dispatch is allowed on a page whose own origin the user
\* has denied.  The code asks for the https origin of the page's host.
DeniedIsRefused ==
    [][\A d \in Dispatches :
          Allows(d) => lastWord[OriginOf(dispatch[d].live)] # "denied"]_vars
=============================================================================
