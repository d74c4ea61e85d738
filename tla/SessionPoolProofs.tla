-------------------------- MODULE SessionPoolProofs --------------------------
(***************************************************************************)
(* Proofs about SessionPool, for any finite set of requests, any session   *)
(* ids, both kinds of managers, and any number of losses and sweeps.       *)
(***************************************************************************)
EXTENDS SessionPool, FiniteSetTheorems, TLAPS

CallRecord == [phase : Phases, session : OrNone, ask : {1, 2}, on : BrowserOrNone]

\* A call has the session of its id, and waits for a browser of it.
CallsOK ==
    /\ call \in [Requests -> CallRecord]
    /\ \A r \in Requests :
          /\ call[r].phase = "none" => call[r].session = None
          /\ call[r].phase # "none" =>
                call[r].session \in made /\ IdOf[call[r].session] = IdOf[r]
          /\ call[r].phase \in {"context", "page"} =>
                call[r].on \in Browsers /\ SessionOf(call[r].on) = call[r].session
    /\ made \subseteq Sessions
    /\ live \subseteq Browsers /\ open \subseteq Requests
    /\ \A r \in made \cup open : call[r].phase # "none"
    /\ \A b \in live : call[b[1]].phase # "none"

\* What a session or a manager points to was made for it.
Own(field) ==
    /\ field \in [Sessions -> OrNone]
    /\ \A s \in Sessions : field[s] # None => call[field[s]].session = s

OwnBrowser(field) ==
    /\ field \in [Sessions -> BrowserOrNone]
    /\ \A s \in Sessions : field[s] # None => SessionOf(field[s]) = s

FieldsOK ==
    /\ Own(current) /\ Own(tab) /\ OwnBrowser(browser) /\ OwnBrowser(context)
    /\ \A s \in Sessions : current[s] # None => current[s] \in open
    /\ generation \in [Sessions -> Nat]

RegistryOK ==
    /\ manager \in Managers
    /\ registry \in [Ids -> OrNone]
    /\ \A i \in Ids : registry[i] # None => registry[i] \in made /\ IdOf[registry[i]] = i
    /\ disposed \subseteq made
    /\ returned \subseteq Stateless
    /\ closing \subseteq [id : Ids, page : Requests]

\* A disposal under way is of the registered session, and the only one of its
\* id, unless two overlapped.
Closings ==
    /\ \A c \in closing : registry[c.id] \in disposed \/ c.id \in overlapped
    /\ \A c, d \in closing : c.id = d.id => c = d \/ c.id \in overlapped

\* A call that is alone inside its manager has found no page there, and no
\* browser if it launches one; the manager knows its browser.
Alone ==
    \A s \in Sessions \ raced :
       /\ \A q, r \in Inside(s) : q = r
       /\ Inside(s) # {} => current[s] = None /\ tab[s] \notin open
       /\ \A r \in Inside(s) : call[r].phase = "launch" => browser[s] \notin live
       /\ BrowserOf(s) \subseteq {browser[s]}

\* A page is named in the generation of its adoption, and in none before.
Named ==
    /\ named \subseteq Sessions \X Nat \X Requests
    /\ \A m \in named : m[2] <= generation[m[1]]
    /\ \A m \in named : current[m[1]] # None /\ m[2] = generation[m[1]]
                           => m[3] = current[m[1]]

IInv == /\ CallsOK /\ FieldsOK /\ RegistryOK
        /\ Closings /\ DisposedIsLeaving /\ OrphansNeedOverlap
        /\ Alone /\ SoleCallerLosesNoPage
        /\ Named /\ GenerationNamesPage
-----------------------------------------------------------------------------
(***************************************************************************)
(* Calls                                                                   *)
(***************************************************************************)
\* What At leaves alone, and what it does.
LEMMA AtFacts ==
    ASSUME call \in [Requests -> CallRecord], NEW r \in Requests, NEW phase \in Phases,
           NEW k \in {1, 2}, NEW b \in BrowserOrNone, At(r, k, phase, b)
    PROVE  /\ call' \in [Requests -> CallRecord]
           /\ \A q \in Requests : call'[q].session = call[q].session
           /\ \A q \in Requests \ {r} : call'[q] = call[q]
           /\ call'[r].phase = phase /\ call'[r].ask = k /\ call'[r].on = b
<1>1. call[r].session \in OrNone
  BY DEF CallRecord
<1> DEFINE new == [phase |-> phase, session |-> call[r].session, ask |-> k, on |-> b]
<1>2. /\ new \in CallRecord /\ new.phase = phase /\ new.session = call[r].session
      /\ new.ask = k /\ new.on = b
  BY <1>1 DEF CallRecord
<1>3. call' = [call EXCEPT ![r] = new]
  BY DEF At
<1> HIDE DEF new
<1> QED
  BY <1>2, <1>3

LEMMA RefusedFacts ==
    ASSUME call \in [Requests -> CallRecord], NEW r \in Requests, Refused(r)
    PROVE  /\ call' \in [Requests -> CallRecord]
           /\ \A q \in Requests : call'[q].session = call[q].session
           /\ \A q \in Requests \ {r} : call'[q] = call[q]
           /\ call'[r].phase = "ended"
BY AtFacts DEF Refused, Phases, Awaits, BrowserOrNone

LEMMA UseFacts ==
    ASSUME call \in [Requests -> CallRecord], NEW r \in Requests, NEW p,
           NEW b \in BrowserOrNone, Use(r, p, b)
    PROVE  /\ call' \in [Requests -> CallRecord]
           /\ \A q \in Requests : call'[q].session = call[q].session
           /\ \A q \in Requests \ {r} : call'[q] = call[q]
           /\ call'[r].phase = "using"
BY AtFacts DEF Use, Phases, Awaits

LEMMA ArriveFacts ==
    ASSUME CallsOK, RegistryOK, NEW r \in Requests, Arrive(r)
    PROVE  LET s == GetOrCreate(r)
           IN  /\ s \in Requests /\ IdOf[s] = IdOf[r]
               /\ s \in made \/ (s = r /\ registry[IdOf[r]] = None)
               /\ call' \in [Requests -> CallRecord]
               /\ call'[r].phase = "called" /\ call'[r].session = s
               /\ \A q \in Requests \ {r} : call'[q] = call[q]
               /\ call[r].phase = "none" /\ call[r].session = None
               /\ r \notin made \cup open /\ \A b \in live : b[1] # r
<1> DEFINE s == GetOrCreate(r)
<1>1. IdOf[r] \in Ids
  BY DEF Ids
<1>2. s \in Requests /\ IdOf[s] = IdOf[r]
      /\ (s \in made \/ (s = r /\ registry[IdOf[r]] = None))
  BY <1>1 DEF GetOrCreate, RegistryOK, CallsOK, OrNone, Sessions
<1>3. call \in [Requests -> CallRecord] /\ call[r] \in CallRecord
  BY DEF CallsOK
<1>4. [call[r] EXCEPT !.phase = "called"]
          = [phase |-> "called", session |-> call[r].session, ask |-> call[r].ask,
             on |-> call[r].on]
  BY <1>3 DEF CallRecord
<1>5. ASSUME NEW e, e = [phase |-> "called", session |-> call[r].session,
                         ask |-> call[r].ask, on |-> call[r].on]
      PROVE  [e EXCEPT !.session = s]
                = [phase |-> "called", session |-> s, ask |-> call[r].ask, on |-> call[r].on]
  BY <1>5
<1> DEFINE new == [phase |-> "called", session |-> s, ask |-> call[r].ask, on |-> call[r].on]
<1>6. new \in CallRecord /\ new.phase = "called" /\ new.session = s
  BY <1>2, <1>3 DEF CallRecord, OrNone, Phases
<1>7. [[call[r] EXCEPT !.phase = "called"] EXCEPT !.session = s] = new
  BY <1>4, <1>5
<1> HIDE DEF new
<1>8. call' = [call EXCEPT ![r] = new]
  BY <1>7 DEF Arrive
<1>9. call[r].phase = "none"
  BY DEF Arrive
<1> HIDE DEF s
<1>10. call' \in [Requests -> CallRecord] /\ call'[r] = new
       /\ \A q \in Requests \ {r} : call'[q] = call[q]
  BY <1>3, <1>6, <1>8
<1>11. call[r].session = None /\ r \notin made \cup open /\ \A b \in live : b[1] # r
  BY <1>9 DEF CallsOK
<1> QED
  BY <1>2, <1>6, <1>9, <1>10, <1>11 DEF s

\* A step of one call that keeps its session.
Advances(r) ==
    /\ call' \in [Requests -> CallRecord]
    /\ \A q \in Requests : call'[q].session = call[q].session
    /\ \A q \in Requests \ {r} : call'[q] = call[q]
    /\ call[r].phase # "none" /\ call'[r].phase # "none"

\* A call waits for a browser of its session.
WaitsWell(r) ==
    call'[r].phase \in {"context", "page"} =>
        call'[r].on \in Browsers /\ call[call'[r].on[1]].session = call[r].session

LEMMA AdvancesCalls ==
    ASSUME CallsOK, NEW r \in Requests, Advances(r), made' = made,
           live' \subseteq live \cup ({r} \X {1, 2}), open' \subseteq open \cup {r},
           WaitsWell(r)
    PROVE  CallsOK'
<1>1. \A q \in Requests :
         /\ call'[q].session = call[q].session
         /\ call'[q].phase = "none" <=> call[q].phase = "none"
  BY DEF Advances
<1>2. \A b \in Browsers : b[1] \in Requests
  BY DEF Browsers
<1>3. \A q \in Requests : call'[q].phase \in {"context", "page"} =>
         call'[q].on \in Browsers /\ call[call'[q].on[1]].session = call[q].session
  BY DEF CallsOK, Advances, SessionOf, WaitsWell
<1>4. \A q \in Requests : call'[q].phase \in {"context", "page"} =>
         call'[q].on \in Browsers /\ call'[call'[q].on[1]].session = call'[q].session
  BY <1>1, <1>2, <1>3
<1>5. \A q \in Requests :
         /\ call'[q].phase = "none" => call'[q].session = None
         /\ call'[q].phase # "none" => call'[q].session \in made' /\ IdOf[call'[q].session] = IdOf[q]
  BY <1>1 DEF CallsOK
<1>6. /\ made' \subseteq Sessions /\ open' \subseteq Requests
      /\ \A q \in made' \cup open' : call'[q].phase # "none"
  BY <1>1 DEF CallsOK, Advances, Sessions
<1>7. live' \subseteq Browsers /\ \A b \in live' : call'[b[1]].phase # "none"
  <2> SUFFICES ASSUME NEW b \in live' PROVE b \in Browsers /\ call'[b[1]].phase # "none"
    OBVIOUS
  <2>1. CASE b \in live
    <3>1. b \in Browsers /\ call[b[1]].phase # "none"
      BY <2>1 DEF CallsOK
    <3> QED
      BY <1>1, <1>2, <3>1
  <2>2. CASE b \in {r} \X {1, 2}
    <3>1. b \in Browsers /\ b[1] = r
      BY <2>2 DEF Browsers
    <3> QED
      BY <3>1 DEF Advances
  <2> QED
    BY <2>1, <2>2
<1>8. call' \in [Requests -> CallRecord]
  BY DEF Advances
<1> QED
  BY <1>4, <1>5, <1>6, <1>7, <1>8 DEF CallsOK, SessionOf

\* What asking a session for its page comes to.
Asked(r, s) ==
    \/ \E p \in open : /\ p = current[s] \/ (current[s] = None /\ p = tab[s])
                       /\ Use(r, p, None) /\ call'[r].phase = "using"
    \/ /\ call'[r].phase = "ended"
       /\ UNCHANGED <<current, generation, named>>
    \/ /\ current[s] = None /\ tab[s] \notin open
       /\ call'[r].phase \in Awaits
       /\ call'[r].phase = "launch" => browser[s] \notin live
       /\ UNCHANGED <<current, generation, named>>

\* What the manager has when it is asked.
LEMMA AskFacts ==
    ASSUME CallsOK, FieldsOK, NEW r \in Requests, call[r].phase # "none",
           NEW s \in Sessions, s = call[r].session, NEW k \in {1, 2}, AskManager(r, k, s)
    PROVE  /\ Advances(r) /\ WaitsWell(r)
           /\ \/ tab[s] \in open /\ Use(r, tab[s], None) /\ call'[r].phase = "using"
              \/ /\ tab[s] \notin open /\ call'[r].phase \in {"launch", "context", "page", "ended"}
                 /\ call'[r].phase = "launch" => browser[s] \notin live
                 /\ UNCHANGED <<current, generation, named>>
<1>1. call \in [Requests -> CallRecord] /\ live \subseteq Browsers
      /\ browser[s] \in BrowserOrNone /\ context[s] \in BrowserOrNone
      /\ (browser[s] # None => call[browser[s][1]].session = s)
      /\ (context[s] # None => call[context[s][1]].session = s)
  BY DEF CallsOK, FieldsOK, OwnBrowser, SessionOf
<1>2. None \notin Browsers /\ None \in BrowserOrNone /\ "launch" \in Phases /\ "page" \in Phases
      /\ "context" \in Phases
  BY ParametersAssumption DEF BrowserOrNone, Phases, Awaits
<1>3. CASE tab[s] \in open /\ Use(r, tab[s], None)
  BY <1>1, <1>2, <1>3, UseFacts DEF Advances, WaitsWell
<1>4. CASE tab[s] \notin open /\ UNCHANGED <<current, generation, named>>
           /\ ~Connected(s) /\ At(r, k, "launch", None)
  BY <1>1, <1>2, <1>4, AtFacts DEF Advances, Connected, WaitsWell
<1>5. CASE tab[s] \notin open /\ UNCHANGED <<current, generation, named>>
           /\ context[s] # None /\ At(r, k, "page", context[s])
  BY <1>1, <1>2, <1>5, AtFacts DEF Advances, BrowserOrNone, WaitsWell
<1>6. CASE tab[s] \notin open /\ UNCHANGED <<current, generation, named>>
           /\ Connected(s) /\ At(r, k, "context", browser[s])
  BY <1>1, <1>2, <1>6, AtFacts DEF Advances, Connected, BrowserOrNone, WaitsWell
<1>7. CASE tab[s] \notin open /\ UNCHANGED <<current, generation, named>> /\ Refused(r)
  BY <1>1, <1>7, RefusedFacts DEF Advances, WaitsWell
<1>8. \/ tab[s] \in open /\ Use(r, tab[s], None)
      \/ /\ tab[s] \notin open /\ UNCHANGED <<current, generation, named>>
         /\ \/ ~Connected(s) /\ At(r, k, "launch", None)
            \/ context[s] # None /\ At(r, k, "page", context[s])
            \/ Connected(s) /\ At(r, k, "context", browser[s])
            \/ Refused(r)
  BY DEF AskManager
<1> QED
  BY <1>3, <1>4, <1>5, <1>6, <1>7, <1>8

LEMMA SessionFacts ==
    ASSUME CallsOK, FieldsOK, NEW r \in Requests, call[r].phase # "none",
           NEW k \in {1, 2}, AskSession(r, k)
    PROVE  Advances(r) /\ WaitsWell(r) /\ Asked(r, call[r].session)
<1> DEFINE s == call[r].session
<1>1. s \in made /\ s \in Sessions /\ call \in [Requests -> CallRecord] /\ None \in BrowserOrNone
  BY DEF CallsOK, BrowserOrNone
<1>2. CASE current[s] # None /\ Use(r, current[s], None)
  <2>1. current[s] \in open
    BY <1>1, <1>2 DEF FieldsOK
  <2> QED
    BY <1>1, <1>2, <2>1, UseFacts DEF Advances, WaitsWell, Asked
<1>3. CASE current[s] = None /\ AskManager(r, k, s)
  BY <1>1, <1>3, AskFacts DEF Awaits, Asked
<1> QED
  BY <1>2, <1>3 DEF AskSession

\* How a call starts, and how it goes on when what it awaited fails.
LEMMA StartFacts ==
    ASSUME CallsOK, FieldsOK, NEW r \in Requests, StartCall(r)
    PROVE  /\ call[r].session \in Sessions /\ call[r].phase = "called"
           /\ Advances(r) /\ WaitsWell(r) /\ Asked(r, call[r].session)
<1>1. call[r].phase = "called" /\ call[r].session \in Sessions /\ call \in [Requests -> CallRecord]
  BY DEF StartCall, CallsOK
<1>2. CASE Refused(r) /\ UNCHANGED <<current, generation, named>>
  BY <1>1, <1>2, RefusedFacts DEF Advances, WaitsWell, Asked
<1>3. CASE AskSession(r, 1)
  BY <1>1, <1>3, SessionFacts
<1> QED
  BY <1>1, <1>2, <1>3 DEF StartCall

LEMMA FailsFacts ==
    ASSUME CallsOK, FieldsOK, NEW r \in Requests, AwaitFails(r)
    PROVE  /\ call[r].session \in Sessions /\ call[r].phase \in Awaits
           /\ Advances(r) /\ WaitsWell(r) /\ Asked(r, call[r].session)
<1>1. /\ call[r].phase \in Awaits /\ call[r].phase # "none"
      /\ call[r].session \in Sessions /\ call \in [Requests -> CallRecord]
  BY DEF AwaitFails, CallsOK, Awaits
<1>2. CASE Refused(r) /\ UNCHANGED <<current, generation, named>>
  BY <1>1, <1>2, RefusedFacts DEF Advances, WaitsWell, Asked
<1>3. CASE AskSession(r, 2)
  BY <1>1, <1>3, SessionFacts
<1> QED
  BY <1>1, <1>2, <1>3 DEF AwaitFails

LEMMA LaunchedFacts ==
    ASSUME CallsOK, NEW r \in Requests, Launched(r)
    PROVE  /\ call[r].phase = "launch" /\ Advances(r) /\ WaitsWell(r)
           /\ call'[r].phase \in {"context", "page"}
           /\ <<r, call[r].ask>> \in {r} \X {1, 2} /\ <<r, call[r].ask>> \in Browsers
<1> DEFINE b == <<r, call[r].ask>>
<1>1. call \in [Requests -> CallRecord] /\ call[r].ask \in {1, 2} /\ "page" \in Phases
      /\ "context" \in Phases
  BY DEF CallsOK, CallRecord, Phases, Awaits
<1>2. b \in {r} \X {1, 2} /\ b \in Browsers /\ b \in BrowserOrNone /\ b[1] = r
  BY <1>1 DEF Browsers, BrowserOrNone
<1>3. call[r].phase = "launch"
      /\ (At(r, call[r].ask, "context", b) \/ At(r, call[r].ask, "page", b))
  BY DEF Launched
<1> HIDE DEF b
<1>4. ASSUME At(r, call[r].ask, "context", b) PROVE Advances(r) /\ WaitsWell(r)
  <2>1. /\ call' \in [Requests -> CallRecord]
        /\ \A q \in Requests : call'[q].session = call[q].session
        /\ \A q \in Requests \ {r} : call'[q] = call[q]
        /\ call'[r].phase = "context" /\ call'[r].on = b
    BY <1>1, <1>2, <1>4, AtFacts
  <2>2. Advances(r)
    BY <1>3, <2>1 DEF Advances
  <2>3. call'[r].on[1] = r
    BY <1>2, <2>1
  <2>4. WaitsWell(r)
    BY <1>2, <2>1, <2>3 DEF WaitsWell
  <2> QED
    BY <2>2, <2>4
<1>5. ASSUME At(r, call[r].ask, "page", b) PROVE Advances(r) /\ WaitsWell(r)
  <2>1. /\ call' \in [Requests -> CallRecord]
        /\ \A q \in Requests : call'[q].session = call[q].session
        /\ \A q \in Requests \ {r} : call'[q] = call[q]
        /\ call'[r].phase = "page" /\ call'[r].on = b
    BY <1>1, <1>2, <1>5, AtFacts
  <2>2. Advances(r)
    BY <1>3, <2>1 DEF Advances
  <2>3. call'[r].on[1] = r
    BY <1>2, <2>1
  <2>4. WaitsWell(r)
    BY <1>2, <2>1, <2>3 DEF WaitsWell
  <2> QED
    BY <2>2, <2>4
<1>6. /\ call[r].phase = "launch" /\ Advances(r) /\ WaitsWell(r)
      /\ call'[r].phase \in {"context", "page"} /\ b \in {r} \X {1, 2} /\ b \in Browsers
  <2>1. Advances(r) /\ WaitsWell(r)
    BY <1>3, <1>4, <1>5
  <2>2. call'[r].phase \in {"context", "page"}
    BY <1>1, <1>2, <1>3, AtFacts
  <2> QED
    BY <1>2, <1>3, <2>1, <2>2
<1> QED
  BY <1>6 DEF b

LEMMA ContextFacts ==
    ASSUME CallsOK, NEW r \in Requests, ContextMade(r)
    PROVE  /\ call[r].phase = "context" /\ Advances(r) /\ WaitsWell(r)
           /\ call'[r].phase = "page"
           /\ call[r].on \in Browsers /\ SessionOf(call[r].on) = call[r].session
<1>1. call \in [Requests -> CallRecord] /\ "page" \in Phases /\ call[r].phase = "context"
      /\ call[r].on \in Browsers /\ call[call[r].on[1]].session = call[r].session
      /\ call[r].ask \in {1, 2}
  BY DEF CallsOK, CallRecord, Phases, Awaits, ContextMade, SessionOf
<1>2. call[r].on \in BrowserOrNone /\ At(r, call[r].ask, "page", call[r].on)
  BY <1>1 DEF BrowserOrNone, ContextMade
<1> QED
  BY <1>1, <1>2, AtFacts DEF Advances, WaitsWell, SessionOf

LEMMA PageFacts ==
    ASSUME CallsOK, NEW r \in Requests, PageOpened(r)
    PROVE  /\ call[r].phase = "page" /\ Advances(r) /\ WaitsWell(r) /\ call'[r].phase = "using"
           /\ call[r].on \in BrowserOrNone
<1>1. call \in [Requests -> CallRecord] /\ call[r].phase = "page"
      /\ call[r].on \in BrowserOrNone /\ Use(r, r, call[r].on)
  BY DEF CallsOK, CallRecord, PageOpened
<1> QED
  BY <1>1, UseFacts DEF Advances, WaitsWell

LEMMA EndFacts ==
    ASSUME CallsOK, NEW r \in Requests, CallEnds(r)
    PROVE  call[r].phase = "using" /\ Advances(r) /\ WaitsWell(r) /\ call'[r].phase = "ended"
<1>1. call \in [Requests -> CallRecord] /\ call[r].phase = "using"
      /\ call[r].on \in BrowserOrNone /\ At(r, 1, "ended", call[r].on) /\ "ended" \in Phases
  BY DEF CallsOK, CallRecord, CallEnds, Phases
<1> QED
  BY <1>1, AtFacts DEF Advances, WaitsWell

LEMMA CallsStep ==
    ASSUME CallsOK, FieldsOK, RegistryOK, Step
    PROVE  CallsOK'
<1>1. ASSUME NEW r \in Requests, Arrive(r) PROVE CallsOK'
  <2> DEFINE s == GetOrCreate(r)
  <2>1. /\ s \in Requests /\ IdOf[s] = IdOf[r] /\ (s \in made \/ s = r)
        /\ call' \in [Requests -> CallRecord]
        /\ call'[r].phase = "called" /\ call'[r].session = s
        /\ \A q \in Requests \ {r} : call'[q] = call[q]
        /\ call[r].phase = "none" /\ call[r].session = None
    BY <1>1, ArriveFacts
  <2>2. made' = made \cup {s} /\ live' = live /\ open' = open
    BY <1>1 DEF Arrive
  <2> HIDE DEF s
  <2>3. \A q \in Requests : call'[q].phase \in {"context", "page"} =>
           call'[q].on \in Browsers /\ call'[call'[q].on[1]].session = call'[q].session
    <3> SUFFICES ASSUME NEW q \in Requests, call'[q].phase \in {"context", "page"}
                 PROVE  call'[q].on \in Browsers /\ call'[call'[q].on[1]].session = call'[q].session
      OBVIOUS
    <3>1. q # r /\ call'[q] = call[q]
      BY <2>1
    <3>2. call[q].on \in Browsers /\ call[call[q].on[1]].session = call[q].session
          /\ call[q].session \in made /\ made \subseteq Requests
      BY <3>1 DEF CallsOK, Sessions, SessionOf
    <3>3. call[q].on[1] # r /\ call[q].on[1] \in Requests
      BY <2>1, <3>2, ParametersAssumption DEF Browsers
    <3> QED
      BY <2>1, <3>1, <3>2, <3>3
  <2>4. \A q \in Requests :
          /\ call'[q].phase = "none" => call'[q].session = None
          /\ call'[q].phase # "none" => call'[q].session \in made' /\ IdOf[call'[q].session] = IdOf[q]
    BY <2>1, <2>2 DEF CallsOK
  <2>5. \A q \in made' \cup open' : call'[q].phase # "none"
    BY <2>1, <2>2 DEF CallsOK, Sessions
  <2>6. \A b \in live' : call'[b[1]].phase # "none"
    BY <2>1, <2>2 DEF CallsOK, Browsers
  <2> QED
    BY <2>1, <2>2, <2>3, <2>4, <2>5, <2>6 DEF CallsOK, Sessions, SessionOf
<1>2. ASSUME NEW r \in Requests, StartCall(r) PROVE CallsOK'
  <2>1. made' = made /\ live' = live /\ open' = open
    BY <1>2 DEF StartCall, KeepPool, poolVars
  <2> QED
    BY <1>2, <2>1, StartFacts, AdvancesCalls
<1>3. ASSUME NEW r \in Requests, Launched(r) PROVE CallsOK'
  <2>1. made' = made /\ live' = live \cup {<<r, call[r].ask>>} /\ open' = open
    BY <1>3 DEF Launched, KeepPool, poolVars
  <2> QED
    BY <1>3, <2>1, LaunchedFacts, AdvancesCalls
<1>4. ASSUME NEW r \in Requests, ContextMade(r) PROVE CallsOK'
  <2>1. made' = made /\ live' = live /\ open' = open
    BY <1>4 DEF ContextMade, KeepPool, poolVars
  <2> QED
    BY <1>4, <2>1, ContextFacts, AdvancesCalls
<1>5. ASSUME NEW r \in Requests, PageOpened(r) PROVE CallsOK'
  <2>1. made' = made /\ live' = live /\ open' = open \cup {r}
    BY <1>5 DEF PageOpened, KeepPool, poolVars
  <2> QED
    BY <1>5, <2>1, PageFacts, AdvancesCalls
<1>6. ASSUME NEW r \in Requests, AwaitFails(r) \/ CallEnds(r) PROVE CallsOK'
  <2>1. made' = made /\ live' = live /\ open' = open
    BY <1>6 DEF AwaitFails, CallEnds, KeepPool, poolVars
  <2>2. Advances(r) /\ WaitsWell(r)
    BY <1>6, FailsFacts, EndFacts
  <2> QED
    BY <2>1, <2>2, AdvancesCalls
<1>7. ASSUME UNCHANGED <<call, made>>, live' \subseteq live, open' \subseteq open
      PROVE  CallsOK'
  BY <1>7 DEF CallsOK, SessionOf
<1> QED
  BY <1>1, <1>2, <1>3, <1>4, <1>5, <1>6, <1>7
  DEF Step, CallStep, HandlerReturns, Sweep, KeepRest, DisposeEnds, PagesClose, PageGone,
      BrowserGone, poolVars

-----------------------------------------------------------------------------
(***************************************************************************)
(* Pages, browsers and generations                                         *)
(***************************************************************************)
\* Sessions of calls stay what they are.
Settled == \A q \in Requests : call[q].session # None => call'[q].session = call[q].session

LEMMA SettledStep ==
    ASSUME CallsOK, FieldsOK, RegistryOK, Step
    PROVE  Settled
<1>1. ASSUME NEW r \in Requests, Arrive(r) PROVE Settled
  BY <1>1, ArriveFacts DEF Settled
<1>2. ASSUME NEW r \in Requests, Advances(r) PROVE Settled
  BY <1>2 DEF Advances, Settled
<1>3. ASSUME UNCHANGED call PROVE Settled
  BY <1>3 DEF Settled
<1> QED
  BY <1>1, <1>2, <1>3, StartFacts, LaunchedFacts, ContextFacts, PageFacts, FailsFacts, EndFacts
  DEF Step, CallStep, HandlerReturns, Sweep, KeepRest, DisposeEnds, PageGone, BrowserGone

LEMMA OwnKept ==
    ASSUME Settled, NEW f, NEW g, None \notin Requests,
           f \in [Sessions -> OrNone], g \in [Sessions -> OrNone],
           \A s \in Sessions : f[s] # None => call[f[s]].session = s,
           \A s \in Sessions : g[s] = f[s] \/ g[s] = None
    PROVE  \A s \in Sessions : g[s] # None => call'[g[s]].session = s
BY DEF Settled, Sessions, OrNone

LEMMA OwnSet ==
    ASSUME Settled, NEW f, NEW g, None \notin Requests, NEW t \in Sessions, NEW p \in Requests,
           f \in [Sessions -> OrNone], g = [f EXCEPT ![t] = p], call[p].session = t,
           \A s \in Sessions : f[s] # None => call[f[s]].session = s
    PROVE  /\ g \in [Sessions -> OrNone]
           /\ \A s \in Sessions : g[s] # None => call'[g[s]].session = s
BY DEF Settled, Sessions, OrNone

\* The same of the fields that hold browsers.
LEMMA OwnBrowserKept ==
    ASSUME Settled, NEW f, NEW g, None \notin Requests,
           f \in [Sessions -> BrowserOrNone], g \in [Sessions -> BrowserOrNone],
           \A s \in Sessions : f[s] # None => call[f[s][1]].session = s,
           \A s \in Sessions : g[s] = f[s] \/ g[s] = None
    PROVE  \A s \in Sessions : g[s] # None => call'[g[s][1]].session = s
<1> SUFFICES ASSUME NEW s \in Sessions, g[s] # None PROVE call'[g[s][1]].session = s
  OBVIOUS
<1>1. g[s] = f[s] /\ g[s] \in Browsers /\ call[g[s][1]].session = s
  BY DEF BrowserOrNone
<1>2. g[s][1] \in Requests
  BY <1>1 DEF Browsers
<1> QED
  BY <1>1, <1>2 DEF Settled, Sessions

LEMMA OwnBrowserSet ==
    ASSUME Settled, NEW f, NEW g, None \notin Requests, NEW t \in Sessions, NEW b \in Browsers,
           f \in [Sessions -> BrowserOrNone], g = [f EXCEPT ![t] = b], call[b[1]].session = t,
           \A s \in Sessions : f[s] # None => call[f[s][1]].session = s
    PROVE  /\ g \in [Sessions -> BrowserOrNone]
           /\ \A s \in Sessions : g[s] # None => call'[g[s][1]].session = s
<1>1. g \in [Sessions -> BrowserOrNone] /\ \A s \in Sessions : g[s] = IF s = t THEN b ELSE f[s]
  BY DEF BrowserOrNone
<1>2. ASSUME NEW s \in Sessions, g[s] # None PROVE call'[g[s][1]].session = s
  <2>1. g[s] \in Browsers /\ call[g[s][1]].session = s
    BY <1>1, <1>2 DEF BrowserOrNone
  <2>2. g[s][1] \in Requests
    BY <2>1 DEF Browsers
  <2> QED
    BY <2>1, <2>2 DEF Settled, Sessions
<1> QED
  BY <1>1, <1>2

\* Pages that close, or are about to be closed, leave the fields in order.
LEMMA ClearsCurrent ==
    ASSUME FieldsOK, Settled, NEW hit \in SUBSET Sessions,
           current' = [s \in Sessions |-> IF s \in hit THEN None ELSE current[s]],
           \A s \in Sessions \ hit : current[s] # None => current[s] \in open'
    PROVE  Own(current)' /\ \A s \in Sessions : current'[s] # None => current'[s] \in open'
<1>1. current' \in [Sessions -> OrNone]
  BY DEF FieldsOK, Own, OrNone
<1>2. \A s \in Sessions : current'[s] = current[s] \/ current'[s] = None
  OBVIOUS
<1>3. \A s \in Sessions : current'[s] # None => call'[current'[s]].session = s
  BY <1>1, <1>2, OwnKept, ParametersAssumption DEF FieldsOK, Own
<1> QED
  BY <1>1, <1>3 DEF Own

\* A page is adopted.
LEMMA UseFields ==
    ASSUME FieldsOK, CallsOK, Settled, NEW r \in Requests, NEW p \in Requests, NEW b, Use(r, p, b),
           call[r].session \in Sessions, call[p].session = call[r].session,
           p \in open', open \subseteq open'
    PROVE  /\ Own(current)' /\ \A s \in Sessions : current'[s] # None => current'[s] \in open'
           /\ generation' \in [Sessions -> Nat]
<1> DEFINE s == call[r].session
<1>1. /\ current' = [current EXCEPT ![s] = p]
      /\ generation' = [generation EXCEPT ![s] = generation[s] + IF current[s] = p THEN 0 ELSE 1]
  BY DEF Use, Adopt
<1>2. Own(current)'
  <2>1. /\ current \in [Sessions -> OrNone] /\ s \in Sessions /\ call[p].session = s
        /\ \A q \in Sessions : current[q] # None => call[current[q]].session = q
    BY DEF FieldsOK, Own
  <2> HIDE DEF s
  <2>2. /\ current' \in [Sessions -> OrNone]
        /\ \A q \in Sessions : current'[q] # None => call'[current'[q]].session = q
    <3>1. None \notin Requests /\ current' = [current EXCEPT ![s] = p]
      BY <1>1, ParametersAssumption
    <3> QED
      BY <2>1, <3>1, OwnSet
  <2> QED
    BY <2>2 DEF Own
<1>3. \A q \in Sessions : current'[q] # None => current'[q] \in open'
  BY <1>1 DEF FieldsOK, Own
<1>4. generation' \in [Sessions -> Nat]
  BY <1>1 DEF FieldsOK
<1> QED
  BY <1>2, <1>3, <1>4

\* What a manager has, or nothing.
MgrKeptOrLost ==
    \/ UNCHANGED mgrVars
    \/ \E t \in Sessions : /\ browser' = [browser EXCEPT ![t] = None]
                           /\ context' = [context EXCEPT ![t] = None]
                           /\ tab' = [tab EXCEPT ![t] = None]

LEMMA MgrKept ==
    ASSUME FieldsOK, Settled, MgrKeptOrLost
    PROVE  Own(tab)' /\ OwnBrowser(browser)' /\ OwnBrowser(context)'
<1>1. None \notin Requests
  BY ParametersAssumption
<1>2. Own(tab)'
  <2>1. /\ tab \in [Sessions -> OrNone] /\ tab' \in [Sessions -> OrNone]
        /\ \A s \in Sessions : tab[s] # None => call[tab[s]].session = s
        /\ \A s \in Sessions : tab'[s] = tab[s] \/ tab'[s] = None
    BY DEF MgrKeptOrLost, mgrVars, FieldsOK, Own, OrNone
  <2> QED
    BY <1>1, <2>1, OwnKept DEF Own
<1>3. ASSUME NEW f \in {browser, context}, NEW g, g = f \/ \E t \in Sessions : g = [f EXCEPT ![t] = None]
      PROVE  /\ g \in [Sessions -> BrowserOrNone]
             /\ \A s \in Sessions : g[s] # None => call'[g[s][1]].session = s
  <2>1. f \in [Sessions -> BrowserOrNone]
        /\ \A s \in Sessions : f[s] # None => call[f[s][1]].session = s
    BY DEF FieldsOK, OwnBrowser, SessionOf
  <2>2. g \in [Sessions -> BrowserOrNone] /\ \A s \in Sessions : g[s] = f[s] \/ g[s] = None
    BY <1>3, <2>1 DEF BrowserOrNone
  <2> QED
    BY <1>1, <2>1, <2>2, OwnBrowserKept
<1>4. OwnBrowser(browser)' /\ OwnBrowser(context)'
  <2>1. \A f \in {browser', context'} :
           /\ f \in [Sessions -> BrowserOrNone]
           /\ \A s \in Sessions : f[s] # None => call'[f[s][1]].session = s
    BY <1>3 DEF MgrKeptOrLost, mgrVars
  <2> QED
    BY <2>1 DEF OwnBrowser, SessionOf
<1> QED
  BY <1>2, <1>4

LEMMA FieldsStep ==
    ASSUME CallsOK, FieldsOK, RegistryOK, Step
    PROVE  FieldsOK'
<1>1. Settled /\ None \notin Requests
  BY SettledStep, ParametersAssumption
<1>2. ASSUME UNCHANGED <<current, generation>>, open \subseteq open'
      PROVE  /\ Own(current)' /\ \A s \in Sessions : current'[s] # None => current'[s] \in open'
             /\ generation' \in [Sessions -> Nat]
  BY <1>1, <1>2, OwnKept DEF FieldsOK, Own
<1>3. ASSUME UNCHANGED <<current, generation, open, mgrVars>> PROVE FieldsOK'
  BY <1>1, <1>2, <1>3, MgrKept DEF FieldsOK, MgrKeptOrLost
<1>4. ASSUME NEW r \in Requests, StartCall(r) \/ AwaitFails(r) PROVE FieldsOK'
  <2> DEFINE s == call[r].session
  <2>1. UNCHANGED <<mgrVars, open>> /\ s \in Sessions /\ Asked(r, s)
    BY <1>4, StartFacts, FailsFacts DEF StartCall, AwaitFails
  <2>2. CASE UNCHANGED <<current, generation>>
    BY <1>3, <2>1, <2>2
  <2>3. CASE \E p \in open : /\ p = current[s] \/ (current[s] = None /\ p = tab[s])
                             /\ Use(r, p, None)
    <3>1. PICK p \in open : /\ p = current[s] \/ (current[s] = None /\ p = tab[s])
                            /\ Use(r, p, None)
      BY <2>3
    <3>2. p \in Requests /\ call[p].session = s
      BY <1>1, <2>1, <3>1 DEF CallsOK, FieldsOK, Own
    <3> QED
      BY <1>1, <2>1, <3>1, <3>2, UseFields, MgrKept DEF FieldsOK, MgrKeptOrLost
  <2> QED
    BY <2>1, <2>2, <2>3 DEF Asked
<1>5. ASSUME NEW r \in Requests, Launched(r) PROVE FieldsOK'
  <2> DEFINE s == call[r].session
             b == <<r, call[r].ask>>
  <2>1. s \in Sessions /\ b \in Browsers /\ b[1] = r
    BY <1>5, LaunchedFacts DEF CallsOK
  <2>2. /\ browser' = [browser EXCEPT ![s] = b]
        /\ \/ context' = [context EXCEPT ![s] = None]
           \/ context' = [context EXCEPT ![s] = b]
        /\ tab' = tab \/ tab' = [tab EXCEPT ![s] = None]
        /\ UNCHANGED <<open, current, generation>>
    BY <1>5 DEF Launched
  <2>3. call[b[1]].session = s
    BY <2>1
  <2>4. /\ \A f \in {browser, context} :
              /\ f \in [Sessions -> BrowserOrNone]
              /\ \A q \in Sessions : f[q] # None => call[f[q][1]].session = q
    BY DEF FieldsOK, OwnBrowser, SessionOf
  <2> HIDE DEF s, b
  <2>5. OwnBrowser(browser)'
    <3>1. /\ browser' \in [Sessions -> BrowserOrNone]
          /\ \A q \in Sessions : browser'[q] # None => call'[browser'[q][1]].session = q
      <4>1. browser' = [browser EXCEPT ![s] = b]
        BY <2>2
      <4> QED
        BY <1>1, <2>1, <2>3, <2>4, <4>1, OwnBrowserSet
    <3> QED
      BY <3>1 DEF OwnBrowser, SessionOf
  <2>6. OwnBrowser(context)'
    <3>1. CASE context' = [context EXCEPT ![s] = b]
      <4>1. /\ context' \in [Sessions -> BrowserOrNone]
            /\ \A q \in Sessions : context'[q] # None => call'[context'[q][1]].session = q
        BY <1>1, <2>1, <2>3, <2>4, <3>1, OwnBrowserSet
      <4> QED
        BY <4>1 DEF OwnBrowser, SessionOf
    <3>2. CASE context' = [context EXCEPT ![s] = None]
      <4>1. context' \in [Sessions -> BrowserOrNone]
            /\ \A q \in Sessions : context'[q] = context[q] \/ context'[q] = None
        BY <2>1, <2>4, <3>2 DEF BrowserOrNone
      <4>2. \A q \in Sessions : context'[q] # None => call'[context'[q][1]].session = q
        BY <1>1, <2>4, <4>1, OwnBrowserKept
      <4> QED
        BY <4>1, <4>2 DEF OwnBrowser, SessionOf
    <3> QED
      BY <2>2, <3>1, <3>2
  <2>7. Own(tab)'
    <3>1. tab' \in [Sessions -> OrNone]
          /\ \A q \in Sessions : tab'[q] = tab[q] \/ tab'[q] = None
      BY <2>1, <2>2 DEF FieldsOK, Own, OrNone
    <3> QED
      BY <1>1, <3>1, OwnKept DEF FieldsOK, Own
  <2> QED
    BY <1>2, <2>2, <2>5, <2>6, <2>7 DEF FieldsOK
<1>6. ASSUME NEW r \in Requests, ContextMade(r) PROVE FieldsOK'
  <2> DEFINE s == call[r].session
             b == call[r].on
  <2>1. s \in Sessions /\ b \in Browsers /\ call[b[1]].session = s
    BY <1>6, ContextFacts DEF CallsOK, SessionOf
  <2>2. /\ context' = [context EXCEPT ![s] = b]
        /\ UNCHANGED <<browser, tab, open, current, generation>>
    BY <1>6 DEF ContextMade
  <2>3. /\ \A f \in {browser, context} :
              /\ f \in [Sessions -> BrowserOrNone]
              /\ \A q \in Sessions : f[q] # None => call[f[q][1]].session = q
    BY DEF FieldsOK, OwnBrowser, SessionOf
  <2> HIDE DEF s, b
  <2>4. OwnBrowser(context)'
    <3>1. /\ context' \in [Sessions -> BrowserOrNone]
          /\ \A q \in Sessions : context'[q] # None => call'[context'[q][1]].session = q
      <4>1. context' = [context EXCEPT ![s] = b]
        BY <2>2
      <4> QED
        BY <1>1, <2>1, <2>3, <4>1, OwnBrowserSet
    <3> QED
      BY <3>1 DEF OwnBrowser, SessionOf
  <2>5. OwnBrowser(browser)'
    <3>1. /\ browser' \in [Sessions -> BrowserOrNone]
          /\ \A q \in Sessions : browser'[q] # None => call'[browser'[q][1]].session = q
      BY <1>1, <2>2, <2>3, OwnBrowserKept
    <3> QED
      BY <3>1 DEF OwnBrowser, SessionOf
  <2>6. Own(tab)'
    BY <1>1, <2>2, OwnKept DEF FieldsOK, Own
  <2> QED
    BY <1>2, <2>2, <2>4, <2>5, <2>6 DEF FieldsOK
<1>7. ASSUME NEW r \in Requests, PageOpened(r) PROVE FieldsOK'
  <2> DEFINE s == call[r].session
  <2>1. s \in Sessions
    BY <1>7, PageFacts DEF CallsOK
  <2>2. /\ open' = open \cup {r} /\ tab' = [tab EXCEPT ![s] = r] /\ Use(r, r, call[r].on)
        /\ UNCHANGED <<browser, context>>
    BY <1>7 DEF PageOpened
  <2>3. Own(tab)'
    BY <1>1, <2>1, <2>2, OwnSet DEF FieldsOK, Own
  <2>4. OwnBrowser(context)' /\ OwnBrowser(browser)'
    <3>1. \A f \in {browser, context} :
             /\ f \in [Sessions -> BrowserOrNone]
             /\ \A q \in Sessions : f[q] # None => call[f[q][1]].session = q
      BY DEF FieldsOK, OwnBrowser, SessionOf
    <3>2. \A f \in {browser, context} :
             \A q \in Sessions : f[q] # None => call'[f[q][1]].session = q
      BY <1>1, <3>1, OwnBrowserKept
    <3> QED
      BY <2>2, <3>1, <3>2 DEF OwnBrowser, SessionOf
  <2> QED
    BY <1>1, <2>1, <2>2, <2>3, <2>4, UseFields DEF FieldsOK
<1>8. ASSUME NEW ids, Dispose(ids), KeepRest PROVE FieldsOK'
  <2> DEFINE hit == {registry[i] : i \in {j \in ids : registry[j] # None}}
  <2>1. PICK h \in SUBSET Sessions :
           current' = [s \in Sessions |-> IF s \in h THEN None ELSE current[s]]
    <3>1. current' = [s \in Sessions |-> IF s \in hit \cap Sessions THEN None ELSE current[s]]
      BY <1>8 DEF Dispose
    <3> QED
      BY <3>1
  <2>2. UNCHANGED <<generation, mgrVars, open>>
    BY <1>8 DEF KeepRest
  <2>3. \A s \in Sessions \ h : current[s] # None => current[s] \in open'
    BY <2>2 DEF FieldsOK
  <2> QED
    BY <1>1, <2>1, <2>2, <2>3, ClearsCurrent, MgrKept DEF FieldsOK, MgrKeptOrLost
<1>9. ASSUME NEW gone, PagesClose(gone), MgrKeptOrLost PROVE FieldsOK'
  <2> DEFINE hit == {s \in Sessions : current[s] \in gone}
  <2>1. /\ open' = open \ gone
        /\ current' = [s \in Sessions |-> IF s \in hit THEN None ELSE current[s]]
        /\ generation' = [s \in Sessions |-> generation[s] + IF s \in hit THEN 1 ELSE 0]
    BY <1>9 DEF PagesClose
  <2>2. \A s \in Sessions \ hit : current[s] # None => current[s] \in open'
    BY <2>1 DEF FieldsOK
  <2>3. generation' \in [Sessions -> Nat]
    BY <2>1 DEF FieldsOK
  <2>4. hit \in SUBSET Sessions
    OBVIOUS
  <2> HIDE DEF hit
  <2> QED
    BY <1>1, <1>9, <2>1, <2>2, <2>3, <2>4, ClearsCurrent, MgrKept DEF FieldsOK
<1>10. ASSUME NEW b \in live, BrowserGone(b) PROVE FieldsOK'
  <2>1. b[1] \in Requests /\ call[b[1]].phase # "none"
    BY <1>10 DEF CallsOK, Browsers
  <2>2. SessionOf(b) \in Sessions
    BY <2>1 DEF CallsOK, SessionOf
  <2> QED
    BY <1>9, <1>10, <2>2 DEF BrowserGone, MgrKeptOrLost
<1> QED
  BY <1>3, <1>4, <1>5, <1>6, <1>7, <1>8, <1>9, <1>10
  DEF Step, CallStep, Arrive, CallEnds, HandlerReturns, Sweep, DisposeEnds, PageGone, MgrKeptOrLost
-----------------------------------------------------------------------------
(***************************************************************************)
(* The registry and disposals                                              *)
(***************************************************************************)
\* What a disposal does to the registry.
LEMMA DisposeFacts ==
    ASSUME CallsOK, FieldsOK, RegistryOK, NEW ids \in SUBSET Ids, Dispose(ids), UNCHANGED made
    PROVE  /\ disposed \subseteq disposed' /\ disposed' \subseteq made
           /\ closing \subseteq closing' /\ closing' \subseteq [id : Ids, page : Requests]
           /\ \A c \in closing' \ closing :
                 c.id \in ids /\ registry[c.id] \in disposed' /\ registry'[c.id] = registry[c.id]
           /\ registry' \in [Ids -> OrNone]
           /\ \A i \in Ids : registry'[i] = registry[i] \/ registry'[i] = None
           /\ \A i \in ids : registry[i] # None =>
                 /\ registry[i] \in disposed'
                 /\ registry'[i] = None \/ \E c \in closing' : c.id = i
           /\ \A i \in Ids \ ids : registry'[i] = registry[i]
           /\ \A s \in disposed' \ disposed : registry[IdOf[s]] = s /\ IdOf[s] \in ids
           /\ overlapped \subseteq overlapped'
           /\ \A i \in ids : registry[i] # None /\ (\E c \in closing : c.id = i)
                 => i \in overlapped'
<1> DEFINE mine == {i \in ids : registry[i] # None}
           hit == {registry[i] : i \in mine}
           begun == {[id |-> i, page |-> HeldPage(registry[i])] :
                        i \in {j \in mine : ~Leaves(j)}}
<1>1. /\ disposed' = disposed \cup hit
      /\ closing' = closing \cup begun
      /\ registry' = [i \in Ids |-> IF i \in mine /\ Leaves(i) THEN None ELSE registry[i]]
      /\ overlapped' = overlapped \cup {i \in mine : \E c \in closing : c.id = i}
  BY DEF Dispose
<1>2. \A i \in mine : i \in Ids /\ registry[i] \in made /\ IdOf[registry[i]] = i
                      /\ registry[i] \in Requests
  BY DEF RegistryOK, OrNone, CallsOK, Sessions
<1>3. \A i \in mine : ~Leaves(i) => HeldPage(registry[i]) \in Requests
  BY DEF Leaves, HeldPage, CallsOK
<1>4. \A c \in begun : /\ c \in [id : Ids, page : Requests]
                       /\ c.id \in mine /\ ~Leaves(c.id)
  BY <1>2, <1>3
<1>5. \A i \in mine : ~Leaves(i) => \E c \in begun : c.id = i
  <2> SUFFICES ASSUME NEW i \in mine, ~Leaves(i) PROVE \E c \in begun : c.id = i
    OBVIOUS
  <2>1. [id |-> i, page |-> HeldPage(registry[i])] \in begun
    OBVIOUS
  <2> QED
    BY <2>1
<1>6. registry' \in [Ids -> OrNone] /\ registry \in [Ids -> OrNone]
  BY <1>1 DEF RegistryOK, OrNone
<1>7. \A s \in hit : registry[IdOf[s]] = s /\ IdOf[s] \in ids /\ s \in made
  BY <1>2
<1>8. \A i \in mine : registry[i] \in hit
  OBVIOUS
<1>9. \A i \in ids : registry[i] # None => i \in mine
  OBVIOUS
<1>10. mine \subseteq ids
  OBVIOUS
<1> HIDE DEF mine, hit, begun
<1>11. disposed \subseteq made /\ closing \subseteq [id : Ids, page : Requests]
  BY DEF RegistryOK
<1> QED
  BY <1>1, <1>2, <1>4, <1>5, <1>6, <1>7, <1>8, <1>9, <1>10, <1>11

LEMMA IdsOfRequests == \A r \in Requests : IdOf[r] \in Ids
BY DEF Ids

\* The two kinds of step that dispose of sessions, as one.
LEMMA Disposals ==
    ASSUME NEW r \in Requests, HandlerReturns(r)
    PROVE  Dispose({IdOf[r]}) /\ {IdOf[r]} \in SUBSET Ids /\ KeepRest
           /\ returned' \subseteq returned \cup Stateless
BY IdsOfRequests DEF HandlerReturns

PoolSays == RegistryOK /\ Closings /\ DisposedIsLeaving /\ OrphansNeedOverlap

LEMMA PoolDispose ==
    ASSUME CallsOK, FieldsOK, PoolSays, NEW ids \in SUBSET Ids, Dispose(ids), KeepRest,
           manager' = manager, returned' \subseteq returned \cup Stateless
    PROVE  PoolSays'
<1>1. UNCHANGED made /\ made \subseteq Requests /\ None \notin Requests
  BY ParametersAssumption DEF KeepRest, CallsOK, Sessions
<1>2. RegistryOK
  BY DEF PoolSays
<1>3. /\ disposed \subseteq disposed' /\ disposed' \subseteq made
      /\ closing \subseteq closing' /\ closing' \subseteq [id : Ids, page : Requests]
      /\ \A c \in closing' \ closing :
            c.id \in ids /\ registry[c.id] \in disposed' /\ registry'[c.id] = registry[c.id]
      /\ registry' \in [Ids -> OrNone]
      /\ \A i \in Ids : registry'[i] = registry[i] \/ registry'[i] = None
      /\ \A i \in ids : registry[i] # None =>
            /\ registry[i] \in disposed'
            /\ registry'[i] = None \/ \E c \in closing' : c.id = i
      /\ \A i \in Ids \ ids : registry'[i] = registry[i]
      /\ \A s \in disposed' \ disposed : registry[IdOf[s]] = s /\ IdOf[s] \in ids
      /\ overlapped \subseteq overlapped'
      /\ \A i \in ids : registry[i] # None /\ (\E c \in closing : c.id = i)
            => i \in overlapped'
  BY <1>1, <1>2, DisposeFacts
<1>4. RegistryOK'
  BY <1>1, <1>2, <1>3 DEF RegistryOK
<1>5. \A c \in closing' : registry'[c.id] \in disposed' \/ c.id \in overlapped'
  <2> SUFFICES ASSUME NEW c \in closing', c \in closing
               PROVE  registry'[c.id] \in disposed' \/ c.id \in overlapped'
    BY <1>3
  <2>1. c.id \in Ids /\ (registry[c.id] \in disposed \/ c.id \in overlapped)
    BY <1>3 DEF PoolSays, Closings
  <2>2. CASE c.id \in ids /\ registry[c.id] \in disposed
    <3>1. registry[c.id] # None
      BY <1>1, <1>3, <2>2
    <3> QED
      BY <1>3, <2>2, <3>1
  <2> QED
    BY <1>3, <2>1, <2>2
<1>6. \A c, d \in closing' : c.id = d.id => c = d \/ c.id \in overlapped'
  <2> SUFFICES ASSUME NEW c \in closing', NEW d \in closing', c.id = d.id, c # d
               PROVE  c.id \in overlapped'
    OBVIOUS
  <2>1. CASE c \in closing /\ d \in closing
    BY <1>3, <2>1 DEF PoolSays, Closings
  <2>2. ASSUME NEW a \in closing, NEW b \in closing' \ closing, a.id = b.id
        PROVE  a.id \in overlapped'
    <3>1. b.id \in ids /\ registry[b.id] \in disposed'
      BY <1>3
    <3>2. registry[b.id] # None
      BY <1>1, <1>3, <3>1
    <3> QED
      BY <1>3, <2>2, <3>1, <3>2
  <2>3. CASE c \notin closing /\ d \notin closing
    <3>1. closing' = closing \cup
             {[id |-> i, page |-> HeldPage(registry[i])] :
                 i \in {j \in {k \in ids : registry[k] # None} : ~Leaves(j)}}
      BY DEF Dispose
    <3>2. c = [id |-> c.id, page |-> HeldPage(registry[c.id])]
          /\ d = [id |-> d.id, page |-> HeldPage(registry[d.id])]
      BY <2>3, <3>1
    <3> QED
      BY <3>2
  <2> QED
    BY <2>1, <2>2, <2>3
<1>7. \A i \in Ids : registry'[i] \in disposed' => \E c \in closing' : c.id = i
  <2> SUFFICES ASSUME NEW i \in Ids, registry'[i] \in disposed' PROVE \E c \in closing' : c.id = i
    OBVIOUS
  <2>1. registry'[i] # None /\ registry'[i] = registry[i]
    BY <1>1, <1>3
  <2>2. CASE i \in ids
    BY <1>3, <2>1, <2>2
  <2>3. CASE i \notin ids
    <3>1. registry[i] \in disposed
      <4>1. IdOf[registry[i]] = i
        BY <1>2, <2>1 DEF RegistryOK
      <4> QED
        BY <1>3, <2>1, <2>3, <4>1
    <3>2. \E c \in closing : c.id = i
      BY <3>1 DEF PoolSays, DisposedIsLeaving
    <3> QED
      BY <1>3, <3>2
  <2> QED
    BY <2>2, <2>3
<1>8. \A s \in made \ disposed' : registry'[IdOf[s]] = s \/ IdOf[s] \in overlapped'
  <2> SUFFICES ASSUME NEW s \in made \ disposed', IdOf[s] \notin overlapped'
               PROVE  registry'[IdOf[s]] = s
    OBVIOUS
  <2>1. registry[IdOf[s]] = s /\ IdOf[s] \in Ids
    BY <1>1, <1>3, IdsOfRequests DEF PoolSays, OrphansNeedOverlap
  <2>2. IdOf[s] \notin ids
    BY <1>1, <1>3, <2>1
  <2> QED
    BY <1>3, <2>1, <2>2
<1> QED
  BY <1>1, <1>4, <1>5, <1>6, <1>7, <1>8
  DEF PoolSays, Closings, DisposedIsLeaving, OrphansNeedOverlap

LEMMA PoolStep ==
    ASSUME CallsOK, FieldsOK, PoolSays, Next
    PROVE  PoolSays'
<1>1. RegistryOK /\ manager' = manager /\ made \subseteq Requests /\ None \notin Requests
  BY ParametersAssumption DEF PoolSays, Next, CallsOK, Sessions
<1>2. ASSUME NEW r \in Requests, Arrive(r) PROVE PoolSays'
  <2> DEFINE s == GetOrCreate(r)
  <2>1. /\ s \in Requests /\ IdOf[s] = IdOf[r]
        /\ s \in made \/ (s = r /\ registry[IdOf[r]] = None)
        /\ r \notin made
    BY <1>1, <1>2, ArriveFacts
  <2>2. /\ made' = made \cup {s} /\ registry' = [registry EXCEPT ![IdOf[r]] = s]
        /\ UNCHANGED <<disposed, closing, overlapped, returned>>
    BY <1>2 DEF Arrive
  <2>3. registry[IdOf[r]] = None \/ registry[IdOf[r]] = s
    BY DEF GetOrCreate
  <2>4. registry[IdOf[r]] = None => s = r
    BY DEF GetOrCreate
  <2> HIDE DEF s
  <2>5. /\ IdOf[r] \in Ids /\ registry' \in [Ids -> OrNone]
        /\ \A i \in Ids : registry'[i] = IF i = IdOf[r] THEN s ELSE registry[i]
    BY <1>1, <2>1, <2>2, IdsOfRequests DEF RegistryOK, OrNone
  <2>6. RegistryOK'
    BY <1>1, <2>1, <2>2, <2>5 DEF RegistryOK
  <2>7. Closings'
    BY <1>1, <2>2, <2>3, <2>5 DEF PoolSays, Closings, RegistryOK
  <2>8. DisposedIsLeaving'
    <3>1. registry[IdOf[r]] = None => s \notin disposed
      BY <1>1, <2>1, <2>4 DEF RegistryOK
    <3> QED
      BY <1>1, <2>2, <2>3, <2>5, <3>1 DEF PoolSays, DisposedIsLeaving
  <2>9. OrphansNeedOverlap'
    <3> SUFFICES ASSUME NEW t \in made' \ disposed', IdOf[t] \notin overlapped'
                 PROVE  registry'[IdOf[t]] = t
      BY DEF OrphansNeedOverlap
    <3>1. CASE t = s
      BY <2>1, <2>5, <3>1
    <3>2. CASE t # s
      <4>1. registry[IdOf[t]] = t /\ IdOf[t] \in Ids /\ t # None
        BY <1>1, <2>2, <3>2, IdsOfRequests DEF PoolSays, OrphansNeedOverlap
      <4> QED
        BY <2>3, <2>5, <3>2, <4>1
    <3> QED
      BY <3>1, <3>2
  <2> QED
    BY <2>6, <2>7, <2>8, <2>9 DEF PoolSays
<1>3. ASSUME NEW c \in closing, DisposeEnds(c) PROVE PoolSays'
  <2>1. /\ closing' = closing \ {c} /\ registry' = [registry EXCEPT ![c.id] = None]
        /\ UNCHANGED <<made, disposed, overlapped, returned>>
    BY <1>3 DEF DisposeEnds
  <2>2. /\ c.id \in Ids /\ registry' \in [Ids -> OrNone]
        /\ \A i \in Ids : registry'[i] = IF i = c.id THEN None ELSE registry[i]
    BY <1>1, <2>1 DEF RegistryOK, OrNone
  <2>3. RegistryOK'
    BY <1>1, <2>1, <2>2 DEF RegistryOK
  <2>4. \A d \in closing' : d.id \in Ids /\ (registry[d.id] \in disposed \/ d.id \in overlapped)
                            /\ (d.id = c.id => d.id \in overlapped)
    BY <1>1, <2>1 DEF PoolSays, Closings, RegistryOK
  <2>5. Closings'
    <3>1. \A d \in closing' : registry'[d.id] \in disposed' \/ d.id \in overlapped'
      BY <2>1, <2>2, <2>4
    <3>2. \A d, e \in closing' : d.id = e.id => d = e \/ d.id \in overlapped'
      BY <2>1 DEF PoolSays, Closings
    <3> QED
      BY <3>1, <3>2 DEF Closings
  <2>6. DisposedIsLeaving'
    <3> SUFFICES ASSUME NEW i \in Ids, registry'[i] \in disposed'
                 PROVE  \E d \in closing' : d.id = i
      BY DEF DisposedIsLeaving
    <3>1. i # c.id /\ registry[i] \in disposed
      BY <1>1, <2>1, <2>2 DEF RegistryOK
    <3> QED
      BY <2>1, <3>1 DEF PoolSays, DisposedIsLeaving
  <2>7. OrphansNeedOverlap'
    <3> SUFFICES ASSUME NEW t \in made \ disposed, IdOf[t] \notin overlapped
                 PROVE  registry'[IdOf[t]] = t
      BY <2>1 DEF OrphansNeedOverlap
    <3>1. registry[IdOf[t]] = t /\ IdOf[t] \in Ids
      BY <1>1, IdsOfRequests DEF PoolSays, OrphansNeedOverlap
    <3>2. registry[c.id] \in disposed \/ c.id \in overlapped
      BY DEF PoolSays, Closings
    <3> QED
      BY <2>2, <3>1, <3>2
  <2> QED
    BY <2>3, <2>5, <2>6, <2>7 DEF PoolSays
<1>4. ASSUME NEW ids \in SUBSET Ids, Sweep(ids) PROVE PoolSays'
  BY <1>1, <1>4, PoolDispose DEF Sweep
<1>5. ASSUME NEW r \in Requests, HandlerReturns(r) PROVE PoolSays'
  <2>1. Dispose({IdOf[r]}) /\ {IdOf[r]} \in SUBSET Ids /\ KeepRest
        /\ returned' \subseteq returned \cup Stateless
    BY <1>5, Disposals
  <2> QED
    BY <1>1, <2>1, PoolDispose
<1>6. ASSUME UNCHANGED <<poolVars, returned>> PROVE PoolSays'
  BY <1>1, <1>6
  DEF poolVars, PoolSays, RegistryOK, Closings, DisposedIsLeaving, OrphansNeedOverlap
<1>7. Step
  BY DEF Next
<1> QED
  BY <1>2, <1>3, <1>4, <1>5, <1>6, <1>7
  DEF Step, CallStep, StartCall, Launched, ContextMade, PageOpened, AwaitFails, CallEnds,
      PageGone, BrowserGone, KeepPool

-----------------------------------------------------------------------------
(***************************************************************************)
(* Generations                                                             *)
(***************************************************************************)
NamedInv == Named /\ GenerationNamesPage

LEMMA NamedUse ==
    ASSUME FieldsOK, NamedInv, NEW r \in Requests, NEW p \in Requests, NEW b, Use(r, p, b),
           call[r].session \in Sessions
    PROVE  NamedInv'
<1> DEFINE s == call[r].session
           g == generation[s] + IF current[s] = p THEN 0 ELSE 1
<1>1. /\ current' = [current EXCEPT ![s] = p] /\ generation' = [generation EXCEPT ![s] = g]
      /\ generation \in [Sessions -> Nat] /\ current \in [Sessions -> OrNone]
  BY DEF Use, Adopt, FieldsOK, Own
<1>2. generation[s] \in Nat /\ g \in Nat /\ generation[s] <= g
      /\ (current[s] # p => g = generation[s] + 1) /\ (current[s] = p => g = generation[s])
  BY <1>1
<1>3. named' = named \cup {<<s, g, p>>}
  BY <1>1 DEF Use
<1>4. p # None
  BY ParametersAssumption
<1> HIDE DEF g, s
<1>5. s \in Sessions
  BY DEF s
<1>6. \A q \in Sessions : /\ generation'[q] = IF q = s THEN g ELSE generation[q]
                          /\ current'[q] = IF q = s THEN p ELSE current[q]
  BY <1>1, <1>5
<1>7. \A m \in named : /\ m[1] \in Sessions /\ m[2] \in Nat /\ m[3] \in Requests
                       /\ m[2] <= generation[m[1]]
                       /\ current[m[1]] # None /\ m[2] = generation[m[1]] => m[3] = current[m[1]]
  BY DEF NamedInv, Named
<1>8. \A m \in named : m[1] = s /\ m[2] = g => m[3] = p
  BY <1>2, <1>4, <1>7
<1>9. <<s, g, p>>[1] = s /\ <<s, g, p>>[2] = g /\ <<s, g, p>>[3] = p
      /\ <<s, g, p>> \in Sessions \X Nat \X Requests
  BY <1>2, <1>5
<1>10. \A m \in named' : m[2] <= generation'[m[1]]
  BY <1>1, <1>2, <1>3, <1>5, <1>6, <1>7, <1>9
<1>11. \A m \in named' : current'[m[1]] # None /\ m[2] = generation'[m[1]]
                            => m[3] = current'[m[1]]
  BY <1>3, <1>5, <1>6, <1>7, <1>8, <1>9
<1>12. \A m, n \in named' : m[1] = n[1] /\ m[2] = n[2] => m[3] = n[3]
  BY <1>3, <1>8, <1>9 DEF NamedInv, GenerationNamesPage
<1>13. named' \subseteq Sessions \X Nat \X Requests
  BY <1>3, <1>9 DEF NamedInv, Named
<1> QED
  BY <1>10, <1>11, <1>12, <1>13 DEF NamedInv, Named, GenerationNamesPage

LEMMA NamedStep ==
    ASSUME CallsOK, FieldsOK, RegistryOK, NamedInv, Step
    PROVE  NamedInv'
<1>1. ASSUME UNCHANGED named, generation \in [Sessions -> Nat],
             \A s \in Sessions : \/ generation'[s] = generation[s]
                                    /\ (current'[s] = current[s] \/ current'[s] = None)
                                 \/ generation'[s] = generation[s] + 1 /\ current'[s] = None
      PROVE  NamedInv'
  <2>1. \A m \in named : /\ m[1] \in Sessions /\ m[2] \in Nat
                         /\ m[2] <= generation[m[1]] /\ generation[m[1]] \in Nat
                         /\ current[m[1]] # None /\ m[2] = generation[m[1]]
                               => m[3] = current[m[1]]
    BY <1>1 DEF NamedInv, Named
  <2>2. \A m \in named : /\ m[2] <= generation'[m[1]]
                         /\ current'[m[1]] # None /\ m[2] = generation'[m[1]]
                               => m[3] = current'[m[1]]
    BY <1>1, <2>1
  <2> QED
    BY <1>1, <2>2 DEF NamedInv, Named, GenerationNamesPage
<1>2. generation \in [Sessions -> Nat]
  BY DEF FieldsOK
<1>3. ASSUME UNCHANGED <<current, generation, named>> PROVE NamedInv'
  BY <1>1, <1>2, <1>3
<1>4. ASSUME NEW r \in Requests, StartCall(r) \/ AwaitFails(r) PROVE NamedInv'
  <2>1. call[r].session \in Sessions /\ Asked(r, call[r].session)
    BY <1>4, StartFacts, FailsFacts
  <2>2. CASE UNCHANGED <<current, generation, named>>
    BY <1>3, <2>2
  <2>3. CASE \E p \in open : Use(r, p, None)
    <3>1. PICK p \in open : Use(r, p, None)
      BY <2>3
    <3>2. p \in Requests
      BY <3>1 DEF CallsOK
    <3> QED
      BY <2>1, <3>1, <3>2, NamedUse
  <2> QED
    BY <2>1, <2>2, <2>3 DEF Asked
<1>5. ASSUME NEW r \in Requests, PageOpened(r) PROVE NamedInv'
  <2>1. Use(r, r, call[r].on) /\ call[r].session \in Sessions
    BY <1>5, PageFacts DEF PageOpened, CallsOK
  <2> QED
    BY <2>1, NamedUse
<1>6. ASSUME NEW ids, Dispose(ids), KeepRest PROVE NamedInv'
  <2>1. /\ UNCHANGED <<generation, named>>
        /\ \A s \in Sessions : current'[s] = current[s] \/ current'[s] = None
    BY <1>6 DEF Dispose, KeepRest
  <2> QED
    BY <1>1, <1>2, <2>1
<1>7. ASSUME NEW gone, PagesClose(gone), UNCHANGED named PROVE NamedInv'
  <2>1. \A s \in Sessions : \/ generation'[s] = generation[s] + 0 /\ current'[s] = current[s]
                            \/ generation'[s] = generation[s] + 1 /\ current'[s] = None
    BY <1>7 DEF PagesClose
  <2>2. \A s \in Sessions : generation[s] + 0 = generation[s]
    BY <1>2
  <2> QED
    BY <1>1, <1>2, <1>7, <2>1, <2>2
<1> QED
  BY <1>3, <1>4, <1>5, <1>6, <1>7
  DEF Step, CallStep, Arrive, Launched, ContextMade, CallEnds, HandlerReturns,
      Sweep, DisposeEnds, PageGone, BrowserGone
-----------------------------------------------------------------------------
(***************************************************************************)
(* Calls that are alone inside their manager                               *)
(***************************************************************************)
AloneAt(s) ==
    /\ Inside(s) # {} => current[s] = None /\ tab[s] \notin open
    /\ \A r \in Inside(s) : call[r].phase = "launch" => browser[s] \notin live
    /\ BrowserOf(s) \subseteq {browser[s]}

LosesNoPage(s) ==
    \A p \in PageOf(s) : current[s] = p \/ \E c \in closing : c.page = p

\* All that the steps of this part start from, for one session.
Sole(s) ==
    /\ CallsOK /\ FieldsOK /\ RegistryOK
    /\ \A q, r \in Inside(s) : q = r
    /\ AloneAt(s) /\ LosesNoPage(s)

LEMMA AtMostOne ==
    ASSUME NEW S, IsFiniteSet(S), ~(Cardinality(S) > 1)
    PROVE  \A q, r \in S : q = r
<1> SUFFICES ASSUME NEW q \in S, NEW r \in S, q # r PROVE FALSE
  OBVIOUS
<1>1. {q, r} \subseteq S /\ {q, r} = {q} \cup {r} /\ r \notin {q}
  OBVIOUS
<1>2. IsFiniteSet({q}) /\ Cardinality({q}) = 1
  BY FS_Singleton
<1>3. Cardinality({q} \cup {r}) = IF r \in {q} THEN Cardinality({q}) ELSE Cardinality({q}) + 1
  BY <1>2, FS_AddElement
<1>4. Cardinality({q, r}) = 2
  BY <1>1, <1>2, <1>3
<1>5. Cardinality({q, r}) <= Cardinality(S) /\ Cardinality(S) \in Nat
  BY <1>1, FS_Subset, FS_CardinalityType
<1> QED
  BY <1>4, <1>5

\* The field values that matter to a session.
LEMMA FieldFacts ==
    ASSUME CallsOK, FieldsOK, NEW s \in Sessions
    PROVE  /\ None \notin open /\ None \notin live /\ None \notin Requests
           /\ \A f \in {current, tab} :
                 f[s] \in OrNone /\ (f[s] # None => call[f[s]].session = s)
           /\ browser[s] \in BrowserOrNone /\ (browser[s] # None => SessionOf(browser[s]) = s)
BY ParametersAssumption DEF CallsOK, FieldsOK, Own, OwnBrowser

\* A step of one call, as the other sessions and its own see it.
LEMMA InsideAdvances ==
    ASSUME NEW s \in Sessions, NEW r \in Requests, Advances(r)
    PROVE  /\ \A q \in Requests \ {r} : q \in Inside(s)' <=> q \in Inside(s)
           /\ \A q \in Requests \ {r} : call'[q].phase = call[q].phase
           /\ r \in Inside(s)' <=> call[r].session = s /\ call'[r].phase \in Awaits
           /\ r \in Inside(s) <=> call[r].session = s /\ call[r].phase \in Awaits
           /\ Inside(s) \subseteq Requests /\ Inside(s)' \subseteq Requests
           /\ \A q \in Requests : call'[q].session = call[q].session
BY DEF Advances, Inside

\* The call goes on without entering the manager, or leaves it.
LEMMA SoleQuiet ==
    ASSUME NEW s \in Sessions, Sole(s), NEW r \in Requests, Advances(r),
           UNCHANGED <<current, tab, browser, live, open, closing>>,
           call'[r].phase \notin Awaits \/ (call[r].phase \in Awaits /\ call'[r].phase # "launch")
    PROVE  AloneAt(s)' /\ LosesNoPage(s)'
<1>1. /\ \A q \in Inside(s)' : q \in Inside(s) /\ (call'[q].phase = "launch" => call[q].phase = "launch")
      /\ \A q \in Requests : call'[q].session = call[q].session
  BY InsideAdvances
<1>2. open \subseteq Requests /\ live \subseteq Browsers
  BY DEF Sole, CallsOK
<1>3. AloneAt(s)'
  <2>1. BrowserOf(s)' = BrowserOf(s)
    <3>1. \A b \in live : b[1] \in Requests
      BY <1>2 DEF Browsers
    <3> QED
      BY <1>1, <3>1 DEF BrowserOf, SessionOf
  <2> QED
    BY <1>1, <2>1 DEF Sole, AloneAt
<1>4. LosesNoPage(s)'
  BY <1>1, <1>2 DEF Sole, LosesNoPage, PageOf
<1> QED
  BY <1>3, <1>4

\* The browsers of a session, when live ones stay and calls keep their session.
LEMMA SameBrowsers ==
    ASSUME NEW s \in Sessions, CallsOK, live' = live,
           \A q \in Requests : call[q].phase # "none" => call'[q].session = call[q].session
    PROVE  BrowserOf(s)' = BrowserOf(s)
<1>1. \A b \in live : b[1] \in Requests /\ call[b[1]].phase # "none"
  BY DEF CallsOK, Browsers
<1> QED
  BY <1>1 DEF BrowserOf, SessionOf

LEMMA SoleAsks ==
    ASSUME NEW s \in Sessions, Sole(s), NEW r \in Requests, StartCall(r) \/ AwaitFails(r),
           \A p, q \in Inside(s)' : p = q
    PROVE  AloneAt(s)' /\ LosesNoPage(s)'
<1> DEFINE t == call[r].session
<1>1. UNCHANGED <<tab, browser, live, open, closing>> /\ CallsOK /\ FieldsOK
  BY DEF StartCall, AwaitFails, mgrVars, KeepPool, poolVars, Sole
<1>2. t \in Sessions /\ Advances(r) /\ Asked(r, t)
  BY <1>1, StartFacts, FailsFacts
<1> HIDE DEF t
<1>3. /\ \A q \in Requests \ {r} : q \in Inside(s)' <=> q \in Inside(s)
      /\ \A q \in Requests \ {r} : call'[q].phase = call[q].phase
      /\ r \in Inside(s)' <=> t = s /\ call'[r].phase \in Awaits
      /\ Inside(s) \subseteq Requests /\ Inside(s)' \subseteq Requests
      /\ \A q \in Requests : call'[q].session = call[q].session
  BY <1>2, InsideAdvances DEF t
<1>4. PageOf(s)' = PageOf(s) /\ BrowserOf(s)' = BrowserOf(s)
  BY <1>1, <1>3, SameBrowsers DEF PageOf, CallsOK
<1>5. None \notin open
  BY <1>1, FieldFacts
<1>6. CASE call'[r].phase = "ended" /\ UNCHANGED current
  BY <1>1, <1>2, <1>6, SoleQuiet DEF Awaits
<1>7. CASE /\ current[t] = None /\ tab[t] \notin open
           /\ call'[r].phase \in Awaits
           /\ call'[r].phase = "launch" => browser[t] \notin live
           /\ UNCHANGED current
  <2>1. LosesNoPage(s)'
    BY <1>1, <1>4, <1>7 DEF Sole, LosesNoPage
  <2>2. CASE t # s
    <3>1. \A q \in Inside(s)' : q \in Inside(s) /\ call'[q].phase = call[q].phase
      BY <1>3, <2>2
    <3>2. AloneAt(s)'
      BY <1>1, <1>4, <1>7, <3>1 DEF Sole, AloneAt
    <3> QED
      BY <2>1, <3>2
  <2>3. CASE t = s
    <3>1. \A q \in Inside(s)' : q = r
      BY <1>3, <1>7, <2>3
    <3>2. AloneAt(s)'
      BY <1>1, <1>4, <1>7, <2>3, <3>1 DEF Sole, AloneAt
    <3> QED
      BY <2>1, <3>2
  <2> QED
    BY <2>2, <2>3
<1>8. CASE \E p \in open : /\ p = current[t] \/ (current[t] = None /\ p = tab[t])
                           /\ Use(r, p, None) /\ call'[r].phase = "using"
  <2>1. PICK p \in open : /\ p = current[t] \/ (current[t] = None /\ p = tab[t])
                          /\ Use(r, p, None) /\ call'[r].phase = "using"
    BY <1>8
  <2>2. current' = [current EXCEPT ![t] = p] /\ current \in [Sessions -> OrNone]
    BY <1>1, <2>1 DEF Use, Adopt, FieldsOK, Own, t
  <2>3. \A q \in Inside(s)' : q \in Inside(s) /\ call'[q].phase = call[q].phase
    BY <1>3, <2>1 DEF Awaits
  <2>4. CASE t # s
    <3>1. current'[s] = current[s]
      BY <2>2, <2>4
    <3> QED
      BY <1>1, <1>4, <2>3, <3>1 DEF Sole, AloneAt, LosesNoPage
  <2>5. CASE t = s
    <3>1. current'[s] = p /\ (current[s] = p \/ current[s] = None)
      BY <1>2, <2>1, <2>2, <2>5
    <3>2. Inside(s)' = {}
      <4> SUFFICES ASSUME NEW q \in Inside(s)' PROVE FALSE
        OBVIOUS
      <4>1. current[s] = None /\ tab[s] \notin open
        BY <2>3 DEF Sole, AloneAt
      <4> QED
        BY <1>5, <2>1, <2>5, <4>1
    <3>3. AloneAt(s)'
      BY <1>1, <1>4, <3>2 DEF Sole, AloneAt
    <3>4. \A k \in PageOf(s) : current[s] = k \/ \E c \in closing : c.page = k
      BY DEF Sole, LosesNoPage
    <3>5. \A k \in PageOf(s) : k # None
      BY <1>5 DEF PageOf
    <3>6. LosesNoPage(s)'
      BY <1>1, <1>4, <3>1, <3>4, <3>5 DEF LosesNoPage
    <3> QED
      BY <3>3, <3>6
  <2> QED
    BY <2>4, <2>5
<1> QED
  BY <1>2, <1>6, <1>7, <1>8 DEF Asked

LEMMA SoleLaunched ==
    ASSUME NEW s \in Sessions, Sole(s), NEW r \in Requests, Launched(r)
    PROVE  AloneAt(s)' /\ LosesNoPage(s)'
<1> DEFINE t == call[r].session
           b == <<r, call[r].ask>>
<1>1. /\ UNCHANGED <<current, open, closing>> /\ CallsOK /\ FieldsOK
      /\ live' = live \cup {b} /\ browser' = [browser EXCEPT ![t] = b]
      /\ tab' = tab \/ tab' = [tab EXCEPT ![t] = None]
  BY DEF Launched, KeepPool, poolVars, Sole
<1>2. call[r].phase = "launch" /\ Advances(r) /\ call'[r].phase \in {"context", "page"}
      /\ t \in Sessions /\ b \in Browsers /\ SessionOf(b) = t
  BY <1>1, LaunchedFacts DEF CallsOK, SessionOf
<1>3. browser \in [Sessions -> BrowserOrNone] /\ tab \in [Sessions -> OrNone]
  BY <1>1 DEF FieldsOK, Own, OwnBrowser
<1> HIDE DEF t, b
<1>4. /\ \A q \in Requests \ {r} : q \in Inside(s)' <=> q \in Inside(s)
      /\ \A q \in Requests \ {r} : call'[q].phase = call[q].phase
      /\ r \in Inside(s)' <=> t = s
      /\ r \in Inside(s) <=> t = s
      /\ Inside(s) \subseteq Requests /\ Inside(s)' \subseteq Requests
      /\ \A q \in Requests : call'[q].session = call[q].session
  BY <1>2, InsideAdvances DEF Awaits, Inside, t
<1>5. Inside(s)' = Inside(s)
  BY <1>4
<1>6. PageOf(s)' = PageOf(s)
  BY <1>1, <1>4 DEF PageOf, CallsOK
<1>7. BrowserOf(s)' = IF t = s THEN BrowserOf(s) \cup {b} ELSE BrowserOf(s)
  <2>1. \A c \in live \cup {b} : c[1] \in Requests
    BY <1>1, <1>2 DEF CallsOK, Browsers
  <2>2. \A c \in live \cup {b} : SessionOf(c)' = SessionOf(c)
    BY <1>4, <2>1 DEF SessionOf
  <2> QED
    BY <1>1, <1>2, <2>2 DEF BrowserOf
<1>8. /\ None \notin open /\ None \notin live
      /\ browser[s] # None => SessionOf(browser[s]) = s
  BY <1>1, FieldFacts
<1>9. LosesNoPage(s)'
  BY <1>1, <1>6 DEF Sole, LosesNoPage
<1>10. tab'[s] = tab[s] \/ tab'[s] = None
  BY <1>1, <1>3
<1>11. CASE t = s
  <2>1. browser[s] \notin live /\ BrowserOf(s) \subseteq {browser[s]}
    BY <1>2, <1>4, <1>11 DEF Sole, AloneAt
  <2>2. BrowserOf(s) = {}
    BY <2>1 DEF BrowserOf
  <2>3. browser'[s] = b /\ BrowserOf(s)' = {b}
    BY <1>1, <1>3, <1>7, <1>11, <2>2
  <2>4. \A q \in Inside(s)' : q = r
    BY <1>4, <1>5, <1>11 DEF Sole
  <2>5. Inside(s)' # {} => current'[s] = None /\ tab'[s] \notin open'
    BY <1>1, <1>5, <1>8, <1>10 DEF Sole, AloneAt
  <2>6. AloneAt(s)'
    BY <1>2, <2>3, <2>4, <2>5 DEF AloneAt
  <2> QED
    BY <1>9, <2>6
<1>12. CASE t # s
  <2>1. browser'[s] = browser[s] /\ browser[s] # b
    <3>1. b # None
      BY <1>2, ParametersAssumption
    <3> QED
      BY <1>1, <1>2, <1>3, <1>8, <1>12, <3>1
  <2>2. \A q \in Inside(s)' : q # r /\ call'[q].phase = call[q].phase
    BY <1>4, <1>12
  <2>3. Inside(s)' # {} => current'[s] = None /\ tab'[s] \notin open'
    BY <1>1, <1>5, <1>8, <1>10 DEF Sole, AloneAt
  <2>4. \A q \in Inside(s)' : call'[q].phase = "launch" => browser'[s] \notin live'
    BY <1>1, <1>5, <2>1, <2>2 DEF Sole, AloneAt
  <2>5. AloneAt(s)'
    BY <1>7, <1>12, <2>1, <2>3, <2>4 DEF Sole, AloneAt
  <2> QED
    BY <1>9, <2>5
<1> QED
  BY <1>11, <1>12

LEMMA SoleOpened ==
    ASSUME NEW s \in Sessions, Sole(s), NEW r \in Requests, PageOpened(r)
    PROVE  AloneAt(s)' /\ LosesNoPage(s)'
<1> DEFINE t == call[r].session
<1>1. /\ UNCHANGED <<browser, live, closing>> /\ CallsOK /\ FieldsOK
      /\ open' = open \cup {r} /\ tab' = [tab EXCEPT ![t] = r]
      /\ current' = [current EXCEPT ![t] = r]
  BY DEF PageOpened, Use, Adopt, KeepPool, poolVars, Sole
<1>2. call[r].phase = "page" /\ Advances(r) /\ call'[r].phase = "using" /\ t \in Sessions
  BY <1>1, PageFacts DEF CallsOK
<1>3. current \in [Sessions -> OrNone] /\ tab \in [Sessions -> OrNone]
  BY <1>1 DEF FieldsOK, Own
<1> HIDE DEF t
<1>4. /\ \A q \in Requests \ {r} : q \in Inside(s)' <=> q \in Inside(s)
      /\ \A q \in Requests \ {r} : call'[q].phase = call[q].phase
      /\ r \notin Inside(s)'
      /\ r \in Inside(s) <=> t = s
      /\ Inside(s) \subseteq Requests /\ Inside(s)' \subseteq Requests
      /\ \A q \in Requests : call'[q].session = call[q].session
  BY <1>2, InsideAdvances DEF Awaits, Inside, t
<1>5. BrowserOf(s)' = BrowserOf(s)
  BY <1>1, <1>4, SameBrowsers
<1>6. PageOf(s)' = IF t = s THEN PageOf(s) \cup {r} ELSE PageOf(s)
  BY <1>1, <1>4 DEF PageOf, CallsOK, t
<1>7. /\ None \notin open /\ r # None
      /\ tab[s] # None => call[tab[s]].session = s
  BY <1>1, FieldFacts
<1>8. CASE t = s
  <2>1. current[s] = None /\ current'[s] = r
    BY <1>1, <1>3, <1>4, <1>8 DEF Sole, AloneAt
  <2>2. Inside(s)' = {}
    BY <1>4, <1>8 DEF Sole
  <2>3. AloneAt(s)'
    BY <1>1, <1>5, <2>2 DEF Sole, AloneAt
  <2>4. \A p \in PageOf(s) : p # None
    BY <1>7 DEF PageOf
  <2>5. LosesNoPage(s)'
    BY <1>1, <1>6, <1>8, <2>1, <2>4 DEF Sole, LosesNoPage
  <2> QED
    BY <2>3, <2>5
<1>9. CASE t # s
  <2>1. current'[s] = current[s] /\ tab'[s] = tab[s] /\ tab[s] # r
    BY <1>1, <1>3, <1>7, <1>9 DEF t
  <2>2. Inside(s)' = Inside(s) /\ \A q \in Inside(s)' : call'[q].phase = call[q].phase
    BY <1>4, <1>9
  <2>3. AloneAt(s)'
    BY <1>1, <1>5, <2>1, <2>2 DEF Sole, AloneAt
  <2>4. LosesNoPage(s)'
    BY <1>1, <1>6, <1>9, <2>1 DEF Sole, LosesNoPage
  <2> QED
    BY <2>3, <2>4
<1> QED
  BY <1>8, <1>9

LEMMA SoleArrive ==
    ASSUME NEW s \in Sessions, Sole(s), NEW r \in Requests, Arrive(r)
    PROVE  AloneAt(s)' /\ LosesNoPage(s)'
<1>1. UNCHANGED <<current, tab, browser, live, open, closing>> /\ CallsOK /\ RegistryOK
  BY DEF Arrive, mgrVars, Sole
<1>2. /\ call'[r].phase = "called" /\ \A q \in Requests \ {r} : call'[q] = call[q]
      /\ call[r].phase = "none" /\ r \notin open
  BY <1>1, ArriveFacts
<1>3. PageOf(s)' = PageOf(s) /\ BrowserOf(s)' = BrowserOf(s)
  BY <1>1, <1>2, SameBrowsers DEF PageOf, CallsOK
<1>4. Inside(s)' = Inside(s) /\ \A q \in Inside(s)' : call'[q].phase = call[q].phase
  BY <1>2 DEF Inside, Awaits
<1> QED
  BY <1>1, <1>3, <1>4 DEF Sole, AloneAt, LosesNoPage

LEMMA SoleDispose ==
    ASSUME NEW s \in Sessions, Sole(s), NEW ids, Dispose(ids), KeepRest
    PROVE  AloneAt(s)' /\ LosesNoPage(s)'
<1> DEFINE mine == {i \in ids : registry[i] # None}
           hit == {registry[i] : i \in mine}
           begun == {[id |-> i, page |-> HeldPage(registry[i])] :
                        i \in {j \in mine : ~Leaves(j)}}
<1>1. /\ UNCHANGED <<call, tab, browser, live, open>>
      /\ current' = [q \in Sessions |-> IF q \in hit THEN None ELSE current[q]]
      /\ closing' = closing \cup begun
  BY DEF Dispose, KeepRest, mgrVars
<1>2. current'[s] = (IF s \in hit THEN None ELSE current[s])
  BY <1>1
<1>3. None \notin open
  BY FieldFacts DEF Sole
<1>4. AloneAt(s)'
  BY <1>1, <1>2 DEF Sole, AloneAt, Inside, BrowserOf, SessionOf
<1>5. ASSUME NEW p \in PageOf(s), current[s] = p, s \in hit
      PROVE  \E c \in closing' : c.page = p
  <2>1. PICK i \in mine : registry[i] = s
    BY <1>5
  <2>2. HeldPage(registry[i]) = p /\ p # None
    BY <1>3, <1>5, <2>1 DEF HeldPage, PageOf
  <2>3. [id |-> i, page |-> HeldPage(registry[i])] \in begun
    BY <2>1, <2>2 DEF Leaves
  <2>4. [id |-> i, page |-> p] \in closing'
    BY <1>1, <2>2, <2>3
  <2> QED
    BY <2>4
<1> HIDE DEF hit, begun, mine
<1>6. PageOf(s)' = PageOf(s)
  BY <1>1 DEF PageOf
<1>7. LosesNoPage(s)'
  <2> SUFFICES ASSUME NEW p \in PageOf(s)
               PROVE  current'[s] = p \/ \E c \in closing' : c.page = p
    BY <1>6 DEF LosesNoPage
  <2>1. current[s] = p \/ \E c \in closing : c.page = p
    BY DEF Sole, LosesNoPage
  <2> QED
    BY <1>1, <1>2, <1>5, <2>1
<1> QED
  BY <1>4, <1>7

LEMMA SoleClose ==
    ASSUME NEW s \in Sessions, Sole(s), NEW gone, PagesClose(gone), call' = call,
           live' \subseteq live, tab'[s] = tab[s] \/ tab'[s] = None,
           browser'[s] = browser[s] \/ (browser'[s] = None /\ BrowserOf(s)' = {}),
           \A c \in closing : c.page \notin gone => c \in closing'
    PROVE  AloneAt(s)' /\ LosesNoPage(s)'
<1>1. open' = open \ gone
      /\ current'[s] = (IF current[s] \in gone THEN None ELSE current[s])
  BY DEF PagesClose
<1>2. None \notin open /\ None \notin live
  BY FieldFacts DEF Sole
<1>3. Inside(s)' = Inside(s) /\ BrowserOf(s)' \subseteq BrowserOf(s)
      /\ PageOf(s)' = PageOf(s) \ gone
  BY <1>1 DEF Inside, BrowserOf, SessionOf, PageOf
<1>4. AloneAt(s)'
  BY <1>1, <1>2, <1>3 DEF Sole, AloneAt
<1>5. LosesNoPage(s)'
  BY <1>1, <1>3 DEF Sole, LosesNoPage
<1> QED
  BY <1>4, <1>5

LEMMA SoleStep ==
    ASSUME NEW s \in Sessions, Sole(s), Step, \A p, q \in Inside(s)' : p = q
    PROVE  AloneAt(s)' /\ LosesNoPage(s)'
<1>1. CallsOK /\ FieldsOK /\ RegistryOK
  BY DEF Sole
<1>2. ASSUME NEW r \in Requests, ContextMade(r) PROVE AloneAt(s)' /\ LosesNoPage(s)'
  <2>1. UNCHANGED <<current, tab, browser, live, open, closing>>
    BY <1>2 DEF ContextMade, KeepPool, poolVars
  <2> QED
    BY <1>1, <1>2, <2>1, ContextFacts, SoleQuiet DEF Awaits
<1>3. ASSUME NEW r \in Requests, CallEnds(r)
      PROVE  AloneAt(s)' /\ LosesNoPage(s)'
  <2>1. UNCHANGED <<current, tab, browser, live, open, closing>>
    BY <1>3 DEF CallEnds, KeepPool, poolVars, mgrVars
  <2> QED
    BY <1>1, <1>3, <2>1, EndFacts, SoleQuiet DEF Awaits
<1>4. ASSUME NEW r \in Requests, HandlerReturns(r) PROVE AloneAt(s)' /\ LosesNoPage(s)'
  BY <1>4, SoleDispose DEF HandlerReturns
<1>5. ASSUME NEW ids \in SUBSET Ids, Sweep(ids) PROVE AloneAt(s)' /\ LosesNoPage(s)'
  BY <1>5, SoleDispose DEF Sweep
<1>6. ASSUME NEW c \in closing, DisposeEnds(c) PROVE AloneAt(s)' /\ LosesNoPage(s)'
  <2>1. /\ PagesClose({c.page}) /\ closing' = closing \ {c}
        /\ UNCHANGED <<call, live, tab, browser>>
    BY <1>6 DEF DisposeEnds, mgrVars
  <2> QED
    BY <2>1, SoleClose
<1>7. ASSUME NEW p \in open, PageGone(p) PROVE AloneAt(s)' /\ LosesNoPage(s)'
  <2>1. PagesClose({p}) /\ UNCHANGED <<call, live, tab, browser, closing>>
    BY <1>7 DEF PageGone, mgrVars, poolVars
  <2> QED
    BY <2>1, SoleClose
<1>8. ASSUME NEW b \in live, BrowserGone(b) PROVE AloneAt(s)' /\ LosesNoPage(s)'
  <2> DEFINE t == SessionOf(b)
  <2>1. /\ PagesClose({p \in open : call[p].on = b}) /\ live' = live \ {b}
        /\ UNCHANGED <<call, closing>>
        /\ \/ UNCHANGED <<tab, browser>>
           \/ browser' = [browser EXCEPT ![t] = None] /\ tab' = [tab EXCEPT ![t] = None]
    BY <1>8 DEF BrowserGone, mgrVars, poolVars
  <2>2. browser \in [Sessions -> BrowserOrNone] /\ tab \in [Sessions -> OrNone]
    BY <1>1 DEF FieldsOK, Own, OwnBrowser
  <2>3. tab'[s] = tab[s] \/ tab'[s] = None
    BY <2>1, <2>2
  <2>4. browser'[s] = browser[s] \/ (browser'[s] = None /\ BrowserOf(s)' = {})
    <3>1. CASE browser'[s] # browser[s]
      <4>1. t = s /\ browser'[s] = None
        BY <2>1, <2>2, <3>1
      <4>2. b \in BrowserOf(s) /\ BrowserOf(s) \subseteq {browser[s]}
        BY <4>1 DEF BrowserOf, Sole, AloneAt
      <4>3. BrowserOf(s)' = {}
        BY <2>1, <4>2 DEF BrowserOf, SessionOf
      <4> QED
        BY <4>1, <4>3
    <3> QED
      BY <3>1
  <2> QED
    BY <2>1, <2>3, <2>4, SoleClose
<1> QED
  BY <1>2, <1>3, <1>4, <1>5, <1>6, <1>7, <1>8, SoleArrive, SoleAsks, SoleLaunched, SoleOpened
  DEF Step, CallStep

LEMMA AloneStep ==
    ASSUME CallsOK, FieldsOK, RegistryOK, Alone, SoleCallerLosesNoPage, Next
    PROVE  Alone' /\ SoleCallerLosesNoPage'
<1>1. ASSUME NEW s \in Sessions \ raced'
      PROVE  /\ \A p, q \in Inside(s)' : p = q
             /\ AloneAt(s)' /\ LosesNoPage(s)'
  <2>1. /\ s \notin raced
        /\ ~(Cardinality(Inside(s)') > 1)
    BY <1>1 DEF Next
  <2>2. Inside(s)' \subseteq Requests /\ IsFiniteSet(Requests)
    BY ParametersAssumption DEF Inside
  <2>3. IsFiniteSet(Inside(s)')
    BY <2>2, FS_Subset
  <2>4. \A p, q \in Inside(s)' : p = q
    BY <2>1, <2>3, AtMostOne
  <2>5. LosesNoPage(s)
    <3> SUFFICES ASSUME NEW p \in PageOf(s)
                 PROVE  current[s] = p \/ \E c \in closing : c.page = p
      BY DEF LosesNoPage
    <3>1. s \in made
      BY DEF PageOf, CallsOK
    <3> QED
      BY <2>1, <3>1 DEF SoleCallerLosesNoPage
  <2>6. Sole(s)
    BY <2>1, <2>5 DEF Alone, AloneAt, Sole
  <2> QED
    BY <2>4, <2>6, SoleStep DEF Next
<1>2. Alone'
  BY <1>1 DEF Alone, AloneAt
<1>3. made' \subseteq Sessions
  BY CallsStep DEF Next, CallsOK
<1>4. SoleCallerLosesNoPage'
  BY <1>1, <1>3 DEF SoleCallerLosesNoPage, LosesNoPage
<1> QED
  BY <1>2, <1>4

-----------------------------------------------------------------------------
LEMMA InvInit == Init => IInv
<1> SUFFICES ASSUME Init PROVE IInv
  OBVIOUS
<1>1. NoCall \in CallRecord /\ NoCall.phase = "none" /\ NoCall.session = None
  BY DEF NoCall, CallRecord, Phases, OrNone, BrowserOrNone
<1>2. \A r \in Requests : call[r] = NoCall
  BY DEF Init
<1>3. CallsOK
  BY <1>1, <1>2 DEF Init, CallsOK
<1>4. \A s \in Sessions : current[s] = None /\ tab[s] = None /\ browser[s] = None
                          /\ context[s] = None
  BY DEF Init
<1>5. FieldsOK
  BY <1>4 DEF Init, FieldsOK, Own, OwnBrowser, OrNone, BrowserOrNone
<1>6. RegistryOK /\ Closings /\ DisposedIsLeaving /\ OrphansNeedOverlap
  BY DEF Init, RegistryOK, OrNone, Closings, DisposedIsLeaving, OrphansNeedOverlap
<1>7. \A s \in Sessions : Inside(s) = {} /\ BrowserOf(s) = {} /\ PageOf(s) = {}
  BY <1>1, <1>2 DEF Init, Inside, Awaits, BrowserOf, PageOf
<1>8. Alone /\ SoleCallerLosesNoPage
  BY <1>7 DEF Init, Alone, SoleCallerLosesNoPage
<1>9. Named /\ GenerationNamesPage
  BY DEF Init, Named, GenerationNamesPage
<1> QED
  BY <1>3, <1>5, <1>6, <1>8, <1>9 DEF IInv

LEMMA InvStep == IInv /\ [Next]_vars => IInv'
<1>1. ASSUME IInv, Next PROVE IInv'
  <2>1. /\ CallsOK /\ FieldsOK /\ RegistryOK /\ PoolSays /\ Alone /\ SoleCallerLosesNoPage
        /\ NamedInv /\ Step
    BY <1>1 DEF IInv, PoolSays, NamedInv, Next
  <2>2. CallsOK' /\ FieldsOK'
    BY <2>1, CallsStep, FieldsStep
  <2>3. PoolSays'
    BY <1>1, <2>1, PoolStep
  <2>4. Alone' /\ SoleCallerLosesNoPage'
    BY <1>1, <2>1, AloneStep
  <2>5. NamedInv'
    BY <2>1, NamedStep
  <2> QED
    BY <2>2, <2>3, <2>4, <2>5 DEF IInv, PoolSays, NamedInv
<1>2. ASSUME IInv, UNCHANGED vars PROVE IInv'
  BY <1>2 DEF vars, poolVars, mgrVars, IInv, CallsOK, FieldsOK, Own, OwnBrowser, RegistryOK,
     Closings, DisposedIsLeaving, OrphansNeedOverlap, Alone, Inside, BrowserOf, SessionOf, PageOf,
     SoleCallerLosesNoPage, Named, GenerationNamesPage
<1> QED
  BY <1>1, <1>2

(***************************************************************************)
(* The inductive invariant of the pool: calls, sessions, managers and      *)
(* disposals belong together; a disposal under way is of the registered    *)
(* session unless two overlapped; a call alone inside its manager found no *)
(* page there; a page is named in one generation (src/session.ts,          *)
(* src/browser.ts).                                                        *)
(***************************************************************************)
THEOREM Invariance == Spec => []IInv
<1>1. Init => IInv
  BY InvInit
<1>2. IInv /\ [Next]_vars => IInv'
  BY InvStep
<1> QED
  BY <1>1, <1>2, PTL DEF Spec

(***************************************************************************)
(* Types and ownership; no id keeps a session that refuses every call; a   *)
(* session used by one call at a time has one browser; no generation       *)
(* covers two pages (SessionRegistry.dispose, Session.page and the page()  *)
(* of both managers).                                                      *)
(***************************************************************************)
THEOREM PoolIsSound == Spec => []PoolInv
<1>1. ASSUME IInv PROVE PoolInv
  <2>1. TypeOK
    BY <1>1 DEF IInv, CallsOK, FieldsOK, Own, OwnBrowser, RegistryOK, TypeOK, CallRecord, PageOf
  <2>2. OneBrowserEach
    BY <1>1 DEF IInv, Alone, OneBrowserEach, CallsOK
  <2> QED
    BY <1>1, <2>1, <2>2 DEF IInv, PoolInv
<1> QED
  BY <1>1, Invariance, PTL

(***************************************************************************)
(* Only overlapping disposals of one id orphan a session                   *)
(* (SessionRegistry.dispose deletes by id).                                *)
(***************************************************************************)
THEOREM OrphansComeOfOverlap == Spec => []OrphansNeedOverlap
<1>1. IInv => OrphansNeedOverlap
  BY DEF IInv
<1> QED
  BY <1>1, Invariance, PTL

(***************************************************************************)
(* A session whose calls are alone in its manager loses no page: an open   *)
(* page is the session's or a disposal closes it (Session.page and         *)
(* Session.dispose).                                                       *)
(***************************************************************************)
THEOREM NoPageLostAlone == Spec => []SoleCallerLosesNoPage
<1>1. IInv => SoleCallerLosesNoPage
  BY DEF IInv
<1> QED
  BY <1>1, Invariance, PTL
=============================================================================
