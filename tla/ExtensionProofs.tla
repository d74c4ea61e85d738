-------------------------- MODULE ExtensionProofs --------------------------
(***************************************************************************)
(* Proofs about two modules of the extension: SiteGate, for any pages,     *)
(* tabs, tokens and dispatches, and, further down, BridgeClient, for any   *)
(* requests, ports, clients and messages.                                  *)
(***************************************************************************)
EXTENDS SiteGate, BridgeClient, TLAPS

-----------------------------------------------------------------------------
(***************************************************************************)
(* SiteGate                                                                *)
(***************************************************************************)
Phases == {"none", "reading", "deciding", "allowed", "refused"}
Places == [tab : Tabs, page : Pages]
Words  == Kinds \cup {"denied", "none"}

\* A site is denied, or it is granted, or nothing is said of it.
Legal(reg) ==
    /\ reg \in Registry
    /\ \A o \in reg.denials : reg.grants[o] = "none" /\ o \notin reg.onceUsed

UsedWereOnce(reg) == \A o \in Origins : o \in reg.onceUsed => reg.grants[o] = "once"

\* The word itself, whether or not a dispatch has used it up.
Unspent(word) == IF word = "spent" THEN "once" ELSE word

DispatchesTyped ==
    /\ dispatch \in [Dispatches -> [phase : Phases, info : Places \cup {NoAttachment},
                                    live : Pages \cup {None}]]
    /\ \A d \in Dispatches : dispatch[d].phase # "none" => dispatch[d].info \in Places
    /\ visited \in [Dispatches -> SUBSET (Hosts \cup {None})]

\* What a dispatch read, and what it will read, its tab showed meanwhile.
Seen ==
    \A d \in Dispatches :
       /\ dispatch[d].phase = "reading" => HostOf(page[dispatch[d].info.tab]) \in visited[d]
       /\ dispatch[d].phase = "deciding" => HostOf(dispatch[d].live) \in visited[d]

\* The registry of the gate knows only words of its own lifetime, and only when
\* nothing was stored before it.
Registries ==
    /\ Legal(first)
    /\ \A reg \in {restored, storage} : reg = NoRegistry \/ Legal(reg)
    /\ ~siteAuthzReady => restored = NoRegistry /\ first = EmptyRegistry
    /\ restored # NoRegistry => first = EmptyRegistry

\* The registry that words go to has them all, and the gate knows of the used.
WordsRemembered ==
    /\ siteAuthzReady => \A o \in Origins : Says(Current, o) = Unspent(lastWord[o])
    /\ \A o \in Origins :
          lastWord[o] = "spent" /\ first.grants[o] = "once" => o \in first.onceUsed
-----------------------------------------------------------------------------
(***************************************************************************)
(* The registry                                                            *)
(***************************************************************************)
LEMMA Registries0 ==
    /\ EmptyRegistry \in Registry /\ NoRegistry \in Registry
    /\ Legal(EmptyRegistry) /\ UsedWereOnce(EmptyRegistry)
    /\ \A o \in Origins : /\ Says(EmptyRegistry, o) = "none"
                          /\ EmptyRegistry.grants[o] = "none"
                          /\ Decision(EmptyRegistry, o) # "allowed"
    /\ NoRegistry.denials = Origins /\ NoRegistry.onceUsed = Origins
<1>1. EmptyRegistry = [grants |-> [o \in Origins |-> "none"], denials |-> {}, onceUsed |-> {}]
  BY DEF EmptyRegistry
<1>2. NoRegistry = [grants |-> [o \in Origins |-> "none"], denials |-> Origins,
                    onceUsed |-> Origins]
  <2>1. [EmptyRegistry EXCEPT !.denials = Origins]
            = [grants |-> [o \in Origins |-> "none"], denials |-> Origins, onceUsed |-> {}]
    BY <1>1
  <2>2. ASSUME NEW e, e = [grants |-> [o \in Origins |-> "none"], denials |-> Origins,
                           onceUsed |-> {}]
        PROVE  [e EXCEPT !.onceUsed = Origins]
                   = [grants |-> [o \in Origins |-> "none"], denials |-> Origins,
                      onceUsed |-> Origins]
    BY <2>2
  <2>3. NoRegistry = [[EmptyRegistry EXCEPT !.denials = Origins] EXCEPT !.onceUsed = Origins]
    BY DEF NoRegistry
  <2> QED
    BY <2>1, <2>2, <2>3
<1>3. EmptyRegistry \in Registry /\ NoRegistry \in Registry
  BY <1>1, <1>2 DEF Registry
<1> QED
  BY <1>1, <1>2, <1>3 DEF Legal, UsedWereOnce, Says, Decision

\* A legal registry is one that is there.
LEMMA LegalIsThere ==
    ASSUME NEW reg, NEW o \in Origins, Legal(reg)
    PROVE  reg # NoRegistry
BY Registries0 DEF Legal

\* A word changes what is said of its site, and of no other; it is unused.
LEMMA AppliedFacts ==
    ASSUME NEW reg, Legal(reg), UsedWereOnce(reg), NEW o \in Origins, NEW word \in Words
    PROVE  LET said == Applied(reg, o, word)
           IN  /\ Legal(said) /\ UsedWereOnce(said)
               /\ \A g \in Origins : Says(said, g) = IF g = o THEN word ELSE Says(reg, g)
               /\ \A g \in Origins \ {o} :
                     /\ said.grants[g] = reg.grants[g]
                     /\ g \in said.onceUsed <=> g \in reg.onceUsed
<1>1. reg.grants \in [Origins -> Kinds \cup {"none"}] /\ reg.denials \subseteq Origins
      /\ reg.onceUsed \subseteq Origins
  BY DEF Legal, Registry
<1>2. Kinds \subseteq {"once", "site"}
  BY ParametersAssumption
<1>3. ASSUME NEW g \in Kinds \cup {"none"}, NEW D \in {reg.denials \ {o}, reg.denials \cup {o}},
             D = reg.denials \cup {o} => g = "none",
             NEW said, said = [grants |-> [reg.grants EXCEPT ![o] = g], denials |-> D,
                               onceUsed |-> reg.onceUsed \ {o}]
      PROVE  /\ Legal(said) /\ UsedWereOnce(said)
             /\ \A k \in Origins \ {o} : Says(said, k) = Says(reg, k)
             /\ Says(said, o) = IF o \in D THEN "denied" ELSE g
             /\ \A k \in Origins \ {o} : /\ said.grants[k] = reg.grants[k]
                                         /\ k \in said.onceUsed <=> k \in reg.onceUsed
  <2>1. said.grants \in [Origins -> Kinds \cup {"none"}] /\ D \subseteq Origins
    BY <1>1, <1>3
  <2>2. said \in Registry
    BY <1>1, <1>3, <2>1 DEF Registry
  <2>3. /\ said.grants[o] = g
        /\ \A k \in Origins \ {o} : /\ said.grants[k] = reg.grants[k]
                                    /\ k \in said.onceUsed <=> k \in reg.onceUsed
                                    /\ k \in said.denials <=> k \in reg.denials
        /\ said.denials = D /\ o \notin said.onceUsed
    BY <1>1, <1>3
  <2>4. Legal(said)
    BY <1>3, <2>1, <2>2, <2>3 DEF Legal
  <2>5. UsedWereOnce(said)
    BY <2>3 DEF UsedWereOnce
  <2> QED
    BY <2>3, <2>4, <2>5 DEF Says
<1>4. CASE word \in Kinds
  <2>1. Applied(reg, o, word)
            = [grants |-> [reg.grants EXCEPT ![o] = word], denials |-> reg.denials \ {o},
               onceUsed |-> reg.onceUsed \ {o}]
    BY <1>2, <1>4 DEF Applied, Granted
  <2>2. reg.denials \ {o} = reg.denials \cup {o} => word = "none"
    OBVIOUS
  <2> QED
    BY <1>3, <1>4, <2>1, <2>2
<1>5. CASE word = "denied"
  <2>1. Revoked(reg, o)
            = [grants |-> [reg.grants EXCEPT ![o] = "none"], denials |-> reg.denials \ {o},
               onceUsed |-> reg.onceUsed \ {o}]
    BY DEF Revoked, Granted
  <2>2. Applied(reg, o, word)
            = [grants |-> [reg.grants EXCEPT ![o] = "none"],
               denials |-> (reg.denials \ {o}) \cup {o}, onceUsed |-> reg.onceUsed \ {o}]
    <3>1. Applied(reg, o, word) = Denied(reg, o)
      BY <1>2, <1>5 DEF Applied
    <3> QED
      BY <2>1, <3>1 DEF Denied
  <2>3. (reg.denials \ {o}) \cup {o} = reg.denials \cup {o}
    OBVIOUS
  <2> QED
    BY <1>3, <1>5, <2>2, <2>3
<1>6. CASE word = "none"
  <2>1. Applied(reg, o, word)
            = [grants |-> [reg.grants EXCEPT ![o] = "none"], denials |-> reg.denials \ {o},
               onceUsed |-> reg.onceUsed \ {o}]
    BY <1>2, <1>6 DEF Applied, Revoked, Granted
  <2> QED
    BY <1>3, <1>6, <2>1
<1> QED
  BY <1>4, <1>5, <1>6 DEF Words

\* A use takes a grant for one dispatch away, and says nothing new.
LEMMA ConsumedFacts ==
    ASSUME NEW reg, Legal(reg), UsedWereOnce(reg), NEW o \in Origins, Decision(reg, o) = "allowed"
    PROVE  LET used == Consumed(reg, o)
           IN  /\ Legal(used) /\ UsedWereOnce(used)
               /\ used.grants = reg.grants
               /\ \A g \in Origins : Says(used, g) = Says(reg, g)
               /\ reg.onceUsed \subseteq used.onceUsed
               /\ reg.grants[o] = "once" => o \in used.onceUsed
<1>1. o \notin reg.denials
  BY DEF Decision
<1>2. CASE reg.grants[o] = "once"
  <2> DEFINE used == [grants |-> reg.grants, denials |-> reg.denials,
                      onceUsed |-> reg.onceUsed \cup {o}]
  <2>1. Consumed(reg, o) = used
    BY <1>2 DEF Consumed, Legal, Registry
  <2>2. used \in Registry
    BY DEF Legal, Registry
  <2>3. used.grants = reg.grants /\ used.denials = reg.denials
        /\ used.onceUsed = reg.onceUsed \cup {o}
    OBVIOUS
  <2> HIDE DEF used
  <2> QED
    BY <1>1, <1>2, <2>1, <2>2, <2>3 DEF Legal, UsedWereOnce, Says
<1>3. CASE reg.grants[o] # "once"
  BY <1>3 DEF Consumed
<1> QED
  BY <1>2, <1>3

\* What an allowed site has: a grant the user gave, and not a used one.
LEMMA AllowedIsGranted ==
    ASSUME NEW reg, Legal(reg), NEW o \in Origins, Decision(reg, o) = "allowed"
    PROVE  /\ Says(reg, o) \in Kinds
           /\ Says(reg, o) = reg.grants[o]
           /\ reg.grants[o] = "once" => o \notin reg.onceUsed
<1>1. o \notin reg.denials /\ reg.grants[o] # "none"
  BY DEF Decision
<1>2. reg.grants[o] \in Kinds \cup {"none"}
  BY DEF Legal, Registry
<1>3. ~(reg.grants[o] = "once" /\ o \in reg.onceUsed)
  BY <1>1 DEF Decision
<1> QED
  BY <1>1, <1>2, <1>3 DEF Says

-----------------------------------------------------------------------------
(***************************************************************************)
(* Dispatches                                                              *)
(***************************************************************************)
\* The types, apart from those of the registries.
DispatchTypes ==
    /\ bound \in BOOLEAN /\ alive \in BOOLEAN /\ siteAuthzReady \in BOOLEAN
    /\ page \in [Tabs -> Pages \cup {None}]
    /\ inflight \in [Tokens -> Places \cup {NoAttachment}]
    /\ DispatchesTyped

DispatchInv == DispatchTypes /\ Seen /\ PageSeen

\* What the gate reads of a page, and asks for it, is a host and an origin.
LEMMA PageFacts ==
    /\ \A p \in Pages : p.host \in Hosts /\ AskedOf(p) \in Origins
    /\ \A p \in Pages \cup {None} : HostOf(p) \in Hosts \cup {None}
BY DEF Hosts, Origins, HostOf

LEMMA DispatchStep ==
    ASSUME DispatchInv, [Next]_vars
    PROVE  DispatchInv'
<1> DEFINE Records == [phase : Phases, info : Places \cup {NoAttachment},
                       live : Pages \cup {None}]
<1>1. /\ dispatch \in [Dispatches -> Records]
      /\ \A d \in Dispatches : dispatch[d].phase # "none" => dispatch[d].info \in Places
      /\ visited \in [Dispatches -> SUBSET (Hosts \cup {None})]
      /\ page \in [Tabs -> Pages \cup {None}]
      /\ inflight \in [Tokens -> Places \cup {NoAttachment}]
      /\ bound \in BOOLEAN /\ alive \in BOOLEAN /\ siteAuthzReady \in BOOLEAN
  BY DEF DispatchInv, DispatchTypes, DispatchesTyped
<1>2. \A d \in Dispatches : /\ dispatch[d].phase \in Phases
          /\ dispatch[d].live \in Pages \cup {None}
                            /\ dispatch[d].info \in Places \cup {NoAttachment}
                            /\ dispatch[d] \in Records
  BY <1>1
<1>3. ASSUME UNCHANGED <<page, inflight, dispatch, visited>>, alive' \in BOOLEAN,
             siteAuthzReady' \in BOOLEAN, bound' = bound
      PROVE  DispatchInv'
  BY <1>3 DEF DispatchInv, DispatchTypes, DispatchesTyped, Seen, PageSeen
<1>4. ASSUME \/ LoadRegistry \/ Boot \/ UNCHANGED vars
             \/ \E o \in Origins, word \in Words : UserSays(o, word)
      PROVE  DispatchInv'
  BY <1>1, <1>3, <1>4 DEF LoadRegistry, Boot, UserSays, vars
<1>5. ASSUME NEW inflight2, inflight' = inflight2,
             inflight2 \in [Tokens -> Places \cup {NoAttachment}],
             UNCHANGED <<bound, alive, siteAuthzReady, page, dispatch, visited>>
      PROVE  DispatchInv'
  BY <1>5 DEF DispatchInv, DispatchTypes, DispatchesTyped, Seen, PageSeen
<1>6. ASSUME NEW t \in Tokens, NEW tab \in Tabs, Attach(t, tab) PROVE DispatchInv'
  <2>1. [tab |-> tab, page |-> page[tab]] \in Places
    BY <1>1, <1>6 DEF Attach, Places
  <2>2. inflight' \in [Tokens -> Places \cup {NoAttachment}]
    BY <1>1, <1>6, <2>1 DEF Attach
  <2> QED
    BY <1>5, <1>6, <2>2 DEF Attach
<1>7. ASSUME NEW t \in Tokens, Detach(t) PROVE DispatchInv'
  <2>1. inflight' \in [Tokens -> Places \cup {NoAttachment}]
    BY <1>1, <1>7 DEF Detach
  <2> QED
    BY <1>5, <1>7, <2>1 DEF Detach
<1>8. ASSUME Die PROVE DispatchInv'
  <2>1. \A d \in Dispatches :
           /\ dispatch'[d] \in Records /\ dispatch'[d].info = dispatch[d].info
           /\ \/ dispatch'[d].phase = dispatch[d].phase /\ dispatch[d].phase \in {"none", "allowed"}
              \/ dispatch'[d].phase = "refused" /\ dispatch[d].phase # "none"
    <3> TAKE d \in Dispatches
    <3>1. dispatch'[d] = IF dispatch[d].phase \in {"none", "allowed"} THEN dispatch[d]
                         ELSE [dispatch[d] EXCEPT !.phase = "refused"]
      BY <1>8 DEF Die
    <3> QED
      BY <1>2, <3>1 DEF Phases
  <2>2. dispatch' \in [Dispatches -> Records]
    BY <1>8, <2>1 DEF Die
  <2>3. /\ UNCHANGED <<bound, page, visited>> /\ alive' = FALSE /\ siteAuthzReady' = FALSE
        /\ inflight' \in [Tokens -> Places \cup {NoAttachment}]
    BY <1>8 DEF Die
  <2> QED
    BY <1>1, <2>1, <2>2, <2>3
    DEF DispatchInv, DispatchTypes, DispatchesTyped, Seen, PageSeen
<1>9. ASSUME NEW tab \in Tabs, NEW p \in Pages \cup {None}, Navigate(tab, p) PROVE DispatchInv'
  <2>1. /\ page' = [page EXCEPT ![tab] = p] /\ UNCHANGED <<bound, alive, siteAuthzReady, dispatch>>
        /\ visited' = [d \in Dispatches |->
                         IF dispatch[d].info.tab = tab THEN visited[d] \cup {HostOf(p)}
                         ELSE visited[d]]
    BY <1>9 DEF Navigate
  <2>2. inflight' \in [Tokens -> Places \cup {NoAttachment}]
    BY <1>1, <1>9 DEF Navigate
  <2>3. visited' \in [Dispatches -> SUBSET (Hosts \cup {None})]
    BY <1>1, <2>1, PageFacts
  <2>4. page' \in [Tabs -> Pages \cup {None}]
    BY <1>1, <2>1
  <2>5. \A d \in Dispatches : visited[d] \subseteq visited'[d]
    BY <2>1
  <2>6. \A d \in Dispatches : dispatch[d].phase = "reading" =>
                                 HostOf(page'[dispatch[d].info.tab]) \in visited'[d]
    <3> SUFFICES ASSUME NEW d \in Dispatches, dispatch[d].phase = "reading"
                 PROVE  HostOf(page'[dispatch[d].info.tab]) \in visited'[d]
      OBVIOUS
    <3>1. dispatch[d].info.tab \in Tabs /\ HostOf(page[dispatch[d].info.tab]) \in visited[d]
      BY <1>1 DEF DispatchInv, Seen, Places
    <3> QED
      BY <1>1, <2>1, <3>1
  <2> QED
    BY <1>1, <2>1, <2>2, <2>3, <2>4, <2>5, <2>6
    DEF DispatchInv, DispatchTypes, DispatchesTyped, Seen, PageSeen
<1>10. ASSUME NEW d \in Dispatches, NEW r \in Records,
              dispatch' = [dispatch EXCEPT ![d] = r], r.phase # "none", r.info \in Places,
              visited' \in [Dispatches -> SUBSET (Hosts \cup {None})],
              \A e \in Dispatches \ {d} : visited'[e] = visited[e],
              r.phase = "reading" => HostOf(page[r.info.tab]) \in visited'[d],
              r.phase = "deciding" => HostOf(r.live) \in visited'[d],
              r.phase = "allowed" => r.info.page.host \in visited'[d],
              UNCHANGED <<bound, alive, siteAuthzReady, page, inflight>>
       PROVE  DispatchInv'
  <2>1. dispatch' \in [Dispatches -> Records]
        /\ \A e \in Dispatches : dispatch'[e] = IF e = d THEN r ELSE dispatch[e]
    BY <1>1, <1>10
  <2>2. DispatchTypes'
    BY <1>1, <1>10, <2>1 DEF DispatchTypes, DispatchesTyped
  <2>3. Seen' /\ PageSeen'
    BY <1>10, <2>1 DEF DispatchInv, Seen, PageSeen
  <2> QED
    BY <2>2, <2>3 DEF DispatchInv
<1>11. ASSUME NEW d \in Dispatches, NEW t \in Tokens, Enforce(d, t) PROVE DispatchInv'
  <2> DEFINE r == [phase |-> "reading", info |-> inflight[t], live |-> None]
  <2>1. inflight[t] \in Places
    BY <1>1, <1>11 DEF Enforce
  <2>2. r \in Records /\ r.phase = "reading" /\ r.info = inflight[t]
    BY <2>1 DEF Phases
  <2>3. page[inflight[t].tab] \in Pages \cup {None}
    BY <1>1, <2>1 DEF Places
  <2>4. /\ dispatch' = [dispatch EXCEPT ![d] = r]
        /\ visited' = [visited EXCEPT ![d] = {HostOf(page[inflight[t].tab])}]
        /\ UNCHANGED <<bound, alive, siteAuthzReady, page, inflight>>
    BY <1>11 DEF Enforce
  <2>5. /\ visited' \in [Dispatches -> SUBSET (Hosts \cup {None})]
        /\ \A e \in Dispatches \ {d} : visited'[e] = visited[e]
        /\ visited'[d] = {HostOf(page[inflight[t].tab])}
    BY <1>1, <2>3, <2>4, PageFacts
  <2> HIDE DEF r
  <2> QED
    BY <1>10, <2>1, <2>2, <2>4, <2>5
<1>12. ASSUME NEW d \in Dispatches, TabRead(d) PROVE DispatchInv'
  <2> DEFINE r == [phase |-> "deciding", info |-> dispatch[d].info,
                   live |-> page[dispatch[d].info.tab]]
  <2>1. dispatch[d].phase = "reading" /\ dispatch[d].info \in Places
        /\ HostOf(page[dispatch[d].info.tab]) \in visited[d]
    BY <1>1, <1>12 DEF TabRead, DispatchInv, Seen
  <2>2. page[dispatch[d].info.tab] \in Pages \cup {None}
    BY <1>1, <2>1 DEF Places
  <2>3. dispatch' = [dispatch EXCEPT ![d] = r]
    <3>1. [dispatch[d] EXCEPT !.phase = "deciding"]
              = [phase |-> "deciding", info |-> dispatch[d].info, live |-> dispatch[d].live]
      BY <1>2
    <3>2. ASSUME NEW e, e = [phase |-> "deciding", info |-> dispatch[d].info,
                             live |-> dispatch[d].live]
          PROVE  [e EXCEPT !.live = page[dispatch[d].info.tab]] = r
      BY <3>2
    <3> HIDE DEF r
    <3> QED
      BY <1>1, <1>12, <3>1, <3>2 DEF TabRead
  <2>4. r \in Records /\ r.phase = "deciding" /\ r.info = dispatch[d].info
        /\ r.live = page[dispatch[d].info.tab]
    BY <2>1, <2>2 DEF Phases
  <2>5. UNCHANGED <<bound, alive, siteAuthzReady, page, inflight, visited>>
    BY <1>12 DEF TabRead
  <2> HIDE DEF r
  <2> QED
    BY <1>1, <1>10, <2>1, <2>3, <2>4, <2>5
<1>13. ASSUME NEW d \in Dispatches, Refuse(d) \/ Allow(d) PROVE DispatchInv'
  <2>1. PICK ph \in {"allowed", "refused"} :
           /\ dispatch' = [dispatch EXCEPT ![d].phase = ph]
           /\ ph = "allowed" => HostOf(dispatch[d].live) = dispatch[d].info.page.host
    BY <1>13 DEF Refuse, Allow, SamePlace
  <2> DEFINE r == [phase |-> ph, info |-> dispatch[d].info, live |-> dispatch[d].live]
  <2>2. dispatch[d].phase = "deciding" /\ dispatch[d].info \in Places
        /\ HostOf(dispatch[d].live) \in visited[d]
    BY <1>1, <1>13 DEF Refuse, Allow, DispatchInv, Seen
  <2>3. dispatch' = [dispatch EXCEPT ![d] = r]
    <3>1. [dispatch[d] EXCEPT !.phase = ph] = r
      BY <1>2
    <3> QED
      BY <1>1, <2>1, <3>1
  <2>4. r \in Records /\ r.phase = ph /\ r.info = dispatch[d].info
    BY <1>2, <2>2 DEF Phases
  <2>5. UNCHANGED <<bound, alive, siteAuthzReady, page, inflight, visited>>
    BY <1>13 DEF Refuse, Allow
  <2> HIDE DEF r
  <2>6. /\ r.phase \notin {"none", "reading", "deciding"} /\ r.info \in Places
        /\ r.phase = "allowed" => r.info.page.host \in visited'[d]
    BY <2>1, <2>2, <2>4, <2>5
  <2>7. visited' \in [Dispatches -> SUBSET (Hosts \cup {None})]
    BY <1>1, <2>5
  <2> QED
    BY <1>10, <2>3, <2>4, <2>5, <2>6, <2>7
<1> QED
  BY <1>4, <1>6, <1>7, <1>8, <1>9, <1>11, <1>12, <1>13 DEF Next, Words
-----------------------------------------------------------------------------
(***************************************************************************)
(* Words                                                                   *)
(***************************************************************************)
WordTypes ==
    /\ siteAuthzReady \in BOOLEAN
    /\ UsedWereOnce(first)
    /\ \A reg \in {restored, storage} \ {NoRegistry} : UsedWereOnce(reg)
    /\ lastWord \in [Origins -> Words \cup {"spent"}]

WordInv == WordTypes /\ Registries /\ WordsRemembered /\ WordsAreKept

LEMMA WordsKnown ==
    /\ Kinds \subseteq Words /\ "spent" \notin Words
    /\ \A w \in Words : Unspent(w) = w
BY ParametersAssumption DEF Words, Unspent

\* A registry the user's words go to is one that is there.
LEMMA CurrentFacts ==
    ASSUME WordInv
    PROVE  Legal(Current) /\ UsedWereOnce(Current)
BY DEF WordInv, WordTypes, Registries, Current

LEMMA KeptFacts ==
    ASSUME WordsAreKept, NEW o \in Origins
    PROVE  IF storage = NoRegistry THEN "none" = Unspent(lastWord[o])
           ELSE Says(storage, o) = Unspent(lastWord[o])
BY DEF WordsAreKept, Unspent

\* The gate allows only from the registry that words go to.
LEMMA AllowedFromCurrent ==
    ASSUME WordInv, NEW o \in Origins, Decision(first, o) = "allowed"
    PROVE  siteAuthzReady /\ restored = NoRegistry /\ Current = first
<1>1. first # EmptyRegistry
  BY Registries0
<1> QED
  BY <1>1 DEF WordInv, WordTypes, Registries, Current

LEMMA SaysStep ==
    ASSUME WordInv, NEW o \in Origins, NEW word \in Words, UserSays(o, word)
    PROVE  WordInv'
<1> DEFINE said == Applied(Current, o, word)
<1>1. /\ Legal(said) /\ UsedWereOnce(said)
      /\ \A g \in Origins : Says(said, g) = IF g = o THEN word ELSE Says(Current, g)
      /\ \A g \in Origins \ {o} : /\ said.grants[g] = Current.grants[g]
                                  /\ g \in said.onceUsed <=> g \in Current.onceUsed
  BY CurrentFacts, AppliedFacts
<1>2. /\ siteAuthzReady /\ siteAuthzReady' = siteAuthzReady
      /\ storage' = said
      /\ IF restored # NoRegistry THEN restored' = said /\ first' = first
         ELSE first' = said /\ restored' = restored
      /\ lastWord' = [lastWord EXCEPT ![o] = word]
  BY DEF UserSays, Listening, Durable
<1> HIDE DEF said
<1>3. said # NoRegistry
  BY <1>1, LegalIsThere
<1>4. /\ lastWord' \in [Origins -> Words \cup {"spent"}]
      /\ \A g \in Origins : lastWord'[g] = IF g = o THEN word ELSE lastWord[g]
  BY <1>2 DEF WordInv, WordTypes
<1>5. \A g \in Origins : Says(said, g) = Unspent(lastWord'[g])
  BY <1>1, <1>2, <1>4, WordsKnown DEF WordInv, WordsRemembered
<1>6. Current' = said
  BY <1>2, <1>3 DEF Current
<1>7. WordTypes'
  BY <1>1, <1>2, <1>4 DEF WordInv, WordTypes
<1>8. Registries'
  BY <1>1, <1>2, <1>3 DEF WordInv, Registries
<1>9. \A g \in Origins :
         lastWord'[g] = "spent" /\ first'.grants[g] = "once" => g \in first'.onceUsed
  <2>1. \A g \in Origins :
           lastWord[g] = "spent" /\ first.grants[g] = "once" => g \in first.onceUsed
    BY DEF WordInv, WordsRemembered
  <2>2. CASE restored # NoRegistry
    <3>1. first' = first /\ first = EmptyRegistry
      BY <1>2, <2>2 DEF WordInv, Registries
    <3> QED
      BY <3>1, Registries0
  <2>3. CASE restored = NoRegistry
    <3>1. first' = said /\ Current = first
      BY <1>2, <2>3 DEF Current
    <3> QED
      BY <1>1, <1>4, <2>1, <3>1, WordsKnown
  <2> QED
    BY <2>2, <2>3
<1>10. WordsRemembered'
  BY <1>5, <1>6, <1>9 DEF WordsRemembered
<1>11. WordsAreKept'
  BY <1>2, <1>3, <1>5 DEF WordsAreKept, Unspent
<1> QED
  BY <1>7, <1>8, <1>10, <1>11 DEF WordInv

LEMMA LoadStep ==
    ASSUME WordInv, LoadRegistry
    PROVE  WordInv'
<1>1. /\ ~siteAuthzReady /\ siteAuthzReady' = TRUE /\ restored' = storage
      /\ UNCHANGED <<first, storage, lastWord>>
  BY DEF LoadRegistry
<1>2. first = EmptyRegistry /\ Legal(first)
  BY <1>1 DEF WordInv, Registries
<1>3. WordTypes'
  BY <1>1 DEF WordInv, WordTypes
<1>4. Registries'
  BY <1>1, <1>2 DEF WordInv, Registries
<1>5. \A o \in Origins : Says(Current, o)' = Unspent(lastWord[o])
  <2> TAKE o \in Origins
  <2>1. IF storage = NoRegistry THEN "none" = Unspent(lastWord[o])
        ELSE Says(storage, o) = Unspent(lastWord[o])
    BY KeptFacts DEF WordInv
  <2>2. Current' = IF storage = NoRegistry THEN first ELSE storage
    BY <1>1 DEF Current
  <2>3. Says(Current, o)' = IF o \in Current'.denials THEN "denied" ELSE Current'.grants[o]
    BY DEF Says
  <2>4. Says(Current, o)' = IF storage = NoRegistry THEN Says(first, o) ELSE Says(storage, o)
    BY <2>2, <2>3 DEF Says
  <2> QED
    BY <1>2, <2>1, <2>4, Registries0
<1>6. WordsRemembered'
  BY <1>1, <1>5 DEF WordInv, WordsRemembered
<1>7. WordsAreKept'
  BY <1>1 DEF WordInv, WordsAreKept
<1> QED
  BY <1>3, <1>4, <1>6, <1>7 DEF WordInv

LEMMA AllowStep ==
    ASSUME WordInv, DispatchInv, NEW d \in Dispatches, Allow(d)
    PROVE  WordInv'
<1> DEFINE o == AskedOf(dispatch[d].info.page)
<1>1. dispatch[d].phase = "deciding" /\ Decision(first, o) = "allowed"
      /\ first' = Consumed(first, o)
      /\ lastWord' = (IF lastWord[o] = "once" THEN [lastWord EXCEPT ![o] = "spent"]
                      ELSE lastWord)
      /\ UNCHANGED <<siteAuthzReady, restored, storage>>
  BY DEF Allow
<1>2. o \in Origins
  BY <1>1, PageFacts DEF DispatchInv, DispatchTypes, DispatchesTyped, Places
<1> HIDE DEF o
<1>3. Legal(first) /\ UsedWereOnce(first)
      /\ lastWord \in [Origins -> Words \cup {"spent"}]
  BY DEF WordInv, WordTypes, Registries
<1>4. /\ Legal(first') /\ UsedWereOnce(first') /\ first'.grants = first.grants
      /\ \A g \in Origins : Says(first', g) = Says(first, g)
      /\ first.onceUsed \subseteq first'.onceUsed
      /\ first.grants[o] = "once" => o \in first'.onceUsed
  BY <1>1, <1>2, <1>3, ConsumedFacts
<1>5. siteAuthzReady /\ restored = NoRegistry /\ Current = first /\ Current' = first'
  BY <1>1, <1>2, AllowedFromCurrent DEF Current
<1>6. /\ lastWord' \in [Origins -> Words \cup {"spent"}]
      /\ \A g \in Origins : /\ Unspent(lastWord'[g]) = Unspent(lastWord[g])
                            /\ g # o => lastWord'[g] = lastWord[g]
  BY <1>1, <1>2, <1>3 DEF Unspent
<1>7. WordTypes'
  BY <1>1, <1>4, <1>6 DEF WordInv, WordTypes
<1>8. Registries'
  BY <1>1, <1>4, <1>5 DEF WordInv, Registries
<1>9. \A g \in Origins : Says(Current', g) = Unspent(lastWord'[g])
  BY <1>4, <1>5, <1>6 DEF WordInv, WordsRemembered
<1>10. \A g \in Origins :
          lastWord'[g] = "spent" /\ first'.grants[g] = "once" => g \in first'.onceUsed
  BY <1>4, <1>6 DEF WordInv, WordsRemembered
<1>11. WordsRemembered'
  BY <1>9, <1>10 DEF WordsRemembered
<1>12. WordsAreKept'
  BY <1>1, <1>6 DEF WordInv, WordsAreKept, Unspent
<1> QED
  BY <1>7, <1>8, <1>11, <1>12 DEF WordInv

LEMMA WordStep ==
    ASSUME WordInv, DispatchInv, [Next]_vars
    PROVE  WordInv'
<1>1. ASSUME Die PROVE WordInv'
  <2>1. /\ siteAuthzReady' = FALSE /\ first' = EmptyRegistry /\ restored' = NoRegistry
        /\ UNCHANGED <<storage, lastWord>>
    BY <1>1 DEF Die
  <2> QED
    BY <2>1, Registries0
    DEF WordInv, WordTypes, Registries, WordsRemembered, WordsAreKept
<1>2. ASSUME UNCHANGED <<siteAuthzReady, registryVars, lastWord>> PROVE WordInv'
  BY <1>2 DEF registryVars, WordInv, WordTypes, Registries, WordsRemembered, WordsAreKept, Current
<1> QED
  BY <1>1, <1>2, SaysStep, LoadStep, AllowStep
  DEF Next, Boot, Navigate, Attach, Detach, Enforce, TabRead, Refuse, registryVars, vars, Words

-----------------------------------------------------------------------------
LEMMA GateStarts == Init => DispatchInv /\ WordInv
<1> SUFFICES ASSUME Init PROVE DispatchInv /\ WordInv
  OBVIOUS
<1>1. NoDispatch \in [phase : Phases, info : Places \cup {NoAttachment}, live : Pages \cup {None}]
      /\ NoDispatch.phase = "none"
  BY DEF NoDispatch, Phases
<1>2. \A d \in Dispatches : dispatch[d] = NoDispatch
  BY DEF Init
<1>3. page \in [Tabs -> Pages \cup {None}]
  BY DEF Init
<1>4. DispatchTypes
  BY <1>1, <1>2, <1>3 DEF Init, DispatchTypes, DispatchesTyped
<1>5. Seen /\ PageSeen
  BY <1>1, <1>2 DEF Seen, PageSeen
<1>6. \A o \in Origins : lastWord[o] = "none"
  BY DEF Init
<1>7. WordInv
  BY <1>6, Registries0
  DEF Init, WordInv, WordTypes, Words, Registries, WordsRemembered, WordsAreKept, Unspent
<1> QED
  BY <1>4, <1>5, <1>7 DEF DispatchInv

\* The two halves are the types and the invariants of SiteGate.
LEMMA InvIsSiteInv == DispatchInv /\ WordInv => SiteInv /\ WordsAreKept
<1> SUFFICES ASSUME DispatchInv, WordInv PROVE SiteInv
  BY DEF WordInv
<1>1. \A reg \in {first, restored, storage} : reg \in Registry
  BY Registries0 DEF WordInv, Registries, Legal
<1>2. \A reg \in {first, restored, storage} \ {NoRegistry} :
         \A o \in reg.denials : reg.grants[o] = "none" /\ o \notin reg.onceUsed
  BY DEF WordInv, Registries, Legal
<1>3. \A o \in Origins : o \in first.onceUsed => first.grants[o] = "once"
  BY DEF WordInv, WordTypes, UsedWereOnce
<1>4. \A d \in Dispatches :
         /\ dispatch[d].phase \in {"none", "reading", "deciding", "allowed", "refused"}
         /\ dispatch[d].live \in Pages \cup {None}
  BY DEF DispatchInv, DispatchTypes, DispatchesTyped, Phases
<1>5. lastWord \in [Origins -> Kinds \cup {"none", "denied", "spent"}]
  <2>1. Words \cup {"spent"} = Kinds \cup {"none", "denied", "spent"}
    BY DEF Words
  <2> QED
    BY <2>1 DEF WordInv, WordTypes
<1>6. TypeOK
  BY <1>1, <1>2, <1>3, <1>4, <1>5 DEF TypeOK, DispatchInv, DispatchTypes, Places
<1> QED
  BY <1>6 DEF SiteInv, DispatchInv

(***************************************************************************)
(* The inductive invariant of the gate: what a dispatch read its tab did   *)
(* show, the gate knows words of its own lifetime only, and the registry   *)
(* the user's words go to has the last one on every site                   *)
(* (extension/dispatch-gate.js, site-authorizations.js).                   *)
(***************************************************************************)
THEOREM GateInvariance == Spec => [](DispatchInv /\ WordInv)
<1>1. Init => DispatchInv /\ WordInv
  BY GateStarts
<1>2. (DispatchInv /\ WordInv) /\ [Next]_vars => (DispatchInv /\ WordInv)'
  BY DispatchStep, WordStep
<1> QED
  BY <1>1, <1>2, PTL DEF Spec

(***************************************************************************)
(* The types hold, and a dispatch is allowed only if its tab showed the    *)
(* host it was attached to while the dispatch ran (enforce()).             *)
(***************************************************************************)
THEOREM SiteInvHolds == Spec => []SiteInv
<1>1. DispatchInv /\ WordInv => SiteInv
  BY InvIsSiteInv
<1> QED
  BY <1>1, GateInvariance, PTL

(***************************************************************************)
(* What is stored is the user's last word on every site, whatever restarts *)
(* come between (applySiteAuthorization() and the loading of the stored    *)
(* registry).                                                              *)
(***************************************************************************)
THEOREM WordsSurvive == Spec => []WordsAreKept
<1>1. DispatchInv /\ WordInv => WordsAreKept
  BY InvIsSiteInv
<1> QED
  BY <1>1, GateInvariance, PTL

\* An allowed dispatch has gone through the gate.
LEMMA AllowsIsAllow ==
    ASSUME DispatchInv, [Next]_vars, NEW d \in Dispatches, Allows(d)
    PROVE  /\ AskedOf(dispatch[d].info.page) \in Origins
           /\ Decision(first, AskedOf(dispatch[d].info.page)) = "allowed"
<1>1. \A e \in Dispatches :
         dispatch[e] \in [phase : Phases, info : Places \cup {NoAttachment},
                         live : Pages \cup {None}]
  BY DEF DispatchInv, DispatchTypes, DispatchesTyped
<1>2. dispatch \in [Dispatches -> [phase : Phases, info : Places \cup {NoAttachment},
                                   live : Pages \cup {None}]]
  BY DEF DispatchInv, DispatchTypes, DispatchesTyped
<1>3. ~UNCHANGED dispatch
  BY DEF Allows
<1>4. ~Die
  <2> SUFFICES ASSUME Die PROVE FALSE
    OBVIOUS
  <2>1. dispatch'[d] = IF dispatch[d].phase \in {"none", "allowed"} THEN dispatch[d]
                       ELSE [dispatch[d] EXCEPT !.phase = "refused"]
    BY DEF Die
  <2> QED
    BY <1>1, <2>1 DEF Allows
<1>5. ASSUME NEW e \in Dispatches, NEW t \in Tokens, Enforce(e, t) PROVE FALSE
  BY <1>2, <1>5 DEF Enforce, Allows
<1>6. ASSUME NEW e \in Dispatches, TabRead(e) \/ Refuse(e) PROVE FALSE
  <2>1. PICK r : dispatch' = [dispatch EXCEPT ![e] = r] /\ r.phase # "allowed"
    <3>1. CASE TabRead(e)
      <4>1. dispatch' = [dispatch EXCEPT ![e] = [dispatch[e] EXCEPT !.phase = "deciding",
                                                   !.live = page[dispatch[e].info.tab]]]
        BY <1>2, <3>1 DEF TabRead
      <4>2. [dispatch[e] EXCEPT !.phase = "deciding",
                                !.live = page[dispatch[e].info.tab]].phase = "deciding"
        BY <1>1
      <4> QED
        BY <4>1, <4>2
    <3>2. CASE Refuse(e)
      <4>1. dispatch' = [dispatch EXCEPT ![e] = [dispatch[e] EXCEPT !.phase = "refused"]]
        BY <1>2, <3>2 DEF Refuse
      <4>2. [dispatch[e] EXCEPT !.phase = "refused"].phase = "refused"
        BY <1>1
      <4> QED
        BY <4>1, <4>2
    <3> QED
      BY <1>6, <3>1, <3>2
  <2> QED
    BY <1>2, <2>1 DEF Allows
<1>7. PICK e \in Dispatches : Allow(e)
  BY <1>3, <1>4, <1>5, <1>6 DEF Next, LoadRegistry, Boot, UserSays, Navigate, Attach, Detach, vars
<1>8. e = d
  BY <1>2, <1>7 DEF Allow, Allows
<1>9. dispatch[d].phase = "deciding" /\ Decision(first, AskedOf(dispatch[d].info.page)) = "allowed"
  BY <1>7, <1>8 DEF Allow
<1> QED
  BY <1>9, PageFacts DEF DispatchInv, DispatchTypes, DispatchesTyped, Places

(***************************************************************************)
(* A dispatch is allowed only on a grant that is the user's last word on   *)
(* the https origin of the page's host, which is the one enforce() asks    *)
(* for, and each grant for one dispatch allows one (decisionFor() and      *)
(* consumeOnce() in one turn).                                             *)
(***************************************************************************)
THEOREM LastWordRules == Spec => LastWordCounts
<1>1. (DispatchInv /\ WordInv) /\ [Next]_vars =>
         [\A d \in Dispatches :
             Allows(d) => lastWord[AskedOf(dispatch[d].info.page)] \in Kinds]_vars
  <2> SUFFICES ASSUME DispatchInv, WordInv, [Next]_vars, NEW d \in Dispatches, Allows(d)
               PROVE  lastWord[AskedOf(dispatch[d].info.page)] \in Kinds
    OBVIOUS
  <2> DEFINE o == AskedOf(dispatch[d].info.page)
  <2>1. o \in Origins /\ Decision(first, o) = "allowed"
    BY AllowsIsAllow
  <2> HIDE DEF o
  <2>2. siteAuthzReady /\ restored = NoRegistry /\ Current = first
    BY <2>1, AllowedFromCurrent
  <2>3. Legal(first) /\ lastWord[o] \in Words \cup {"spent"}
    BY <2>1 DEF WordInv, WordTypes, Registries
  <2>4. /\ Says(first, o) \in Kinds /\ Says(first, o) = first.grants[o]
        /\ first.grants[o] = "once" => o \notin first.onceUsed
    BY <2>1, <2>3, AllowedIsGranted
  <2>5. Says(first, o) = Unspent(lastWord[o])
        /\ (lastWord[o] = "spent" /\ first.grants[o] = "once" => o \in first.onceUsed)
    BY <2>1, <2>2 DEF WordInv, WordsRemembered
  <2>6. lastWord[o] \in Kinds
    BY <2>3, <2>4, <2>5 DEF Unspent
  <2> QED
    BY <2>6 DEF o
<1> QED
  BY <1>1, GateInvariance, PTL DEF Spec, LastWordCounts

(***************************************************************************)
(* What the gate allows by the registry it was built with, the registry    *)
(* the user's words go to allows as well (the two that service-worker.js   *)
(* ends up with when it restores a stored one).                            *)
(***************************************************************************)
THEOREM GateIsNotWider == Spec => GateNeverWider
<1>1. (DispatchInv /\ WordInv) /\ [Next]_vars =>
         [\A d \in Dispatches :
             Allows(d) => Decision(Current, AskedOf(dispatch[d].info.page)) = "allowed"]_vars
  <2> SUFFICES ASSUME DispatchInv, WordInv, [Next]_vars, NEW d \in Dispatches, Allows(d)
               PROVE  Decision(Current, AskedOf(dispatch[d].info.page)) = "allowed"
    OBVIOUS
  <2>1. /\ AskedOf(dispatch[d].info.page) \in Origins
        /\ Decision(first, AskedOf(dispatch[d].info.page)) = "allowed"
    BY AllowsIsAllow
  <2>2. Current = first
    BY <2>1, AllowedFromCurrent
  <2> QED
    BY <2>1, <2>2
<1> QED
  BY <1>1, GateInvariance, PTL DEF Spec, GateNeverWider

-----------------------------------------------------------------------------
(***************************************************************************)
(* BridgeClient                                                            *)
(***************************************************************************)
Outcomes == {"answered", "deadline", "disconnected", "unsent"}

\* A request that has begun belongs to a client, and was settled as often as its
\* phase says; a cancel is of a request that was posted.
RequestsOK ==
    /\ request \in [Requests -> [phase : {"none", "signing", "pending", "settled"},
                                 client : {Absent} \cup Clients]]
    /\ \A r \in Requests : request[r].phase # "none" => request[r].client \in Clients
    /\ cancelling \subseteq Requests
    /\ \A r \in cancelling : request[r].phase # "none"
    /\ outcomes \in [Requests -> Seq(Outcomes)]
    /\ OneSettlement

PortsOK ==
    /\ ports \in 0..MaxPorts /\ nativePort \in {Absent, ports}
    /\ made \in Seq(1..ports) /\ bridgeClient \in {Absent, Len(made)}
    /\ closed = Clients \ {bridgeClient}

MessagesOK ==
    /\ asked \subseteq [kind : {"request", "cancel"}, of : Requests, port : 1..MaxPorts]
    /\ wire \subseteq Messages
    /\ arrivals \in 0..MaxArrivals
    /\ handlers \subseteq [message : wire, nr : 1..arrivals, client : Clients]
    /\ replayWindow \in Seq(wire) /\ Len(replayWindow) <= WindowLimit
    /\ IsInjective(replayWindow)
    /\ handled \in [Messages -> Nat]

\* A request that is under way and not late is of the client in use; once posted,
\* it was on the port in use.
Served ==
    \A r \in Requests \ late :
       /\ request[r].phase \in {"signing", "pending"} => request[r].client = bridgeClient
       /\ request[r].phase = "pending" => PortOf(r) = nativePort

\* What was handled is remembered until it leaves the window; of a message that
\* never had two copies under verification, one handler waits, or it was handled.
Once ==
    /\ \A m \in Messages : handled[m] > 0 => m \in ToSet(replayWindow) \cup evicted
    /\ \A h, k \in handlers : h.message = k.message => h = k \/ h.message \in overlapped
    /\ \A h \in handlers : handled[h.message] > 0 => h.message \in overlapped \cup evicted

BridgeIInv == RequestsOK /\ PortsOK /\ MessagesOK /\ Served /\ Once /\ ReplayNeedsOverlap
-----------------------------------------------------------------------------
RequestRecord == [phase : {"none", "signing", "pending", "settled"},
                  client : {Absent} \cup Clients]

UnderWay == {"signing", "pending"}

\* Clients are only added.
LEMMA ClientsGrow ==
    ASSUME PortsOK,
           UNCHANGED made \/ (nativePort # Absent /\ made' = Append(made, nativePort))
    PROVE  /\ Clients \subseteq Clients'
           /\ made' \in Seq(1..ports)
           /\ \A c \in Clients : made'[c] = made[c] /\ made[c] \in 1..ports
           /\ Absent \notin Clients
<1> USE DEF PortsOK, Clients, Absent
<1>1. CASE UNCHANGED made
  BY <1>1
<1>2. CASE nativePort # Absent /\ made' = Append(made, nativePort)
  BY <1>2
<1> QED BY <1>1, <1>2

\* Settling takes requests under way to their end and leaves the others.
LEMMA SettleFacts ==
    ASSUME RequestsOK, NEW rs, NEW outcome \in Outcomes,
           \A r \in rs : r \in Requests /\ request[r].phase \in UnderWay,
           Settle(rs, outcome)
    PROVE  /\ request' \in [Requests -> RequestRecord]
           /\ outcomes' \in [Requests -> Seq(Outcomes)]
           /\ \A r \in Requests :
                 /\ request'[r].client = request[r].client
                 /\ request'[r].phase = IF r \in rs THEN "settled" ELSE request[r].phase
                 /\ r \notin rs => request'[r] = request[r]
                 /\ Len(outcomes'[r]) = IF request'[r].phase = "settled" THEN 1 ELSE 0
<1> USE DEF RequestsOK, OneSettlement, RequestRecord, UnderWay
<1>1. ASSUME NEW r \in Requests
      PROVE  /\ request'[r] \in RequestRecord
             /\ outcomes'[r] \in Seq(Outcomes)
             /\ request'[r].client = request[r].client
             /\ request'[r].phase = IF r \in rs THEN "settled" ELSE request[r].phase
             /\ r \notin rs => request'[r] = request[r]
             /\ Len(outcomes'[r]) = IF request'[r].phase = "settled" THEN 1 ELSE 0
  <2>1. CASE r \in rs
    <3>1. request'[r] = [request[r] EXCEPT !.phase = "settled"]
              /\ outcomes'[r] = Append(outcomes[r], outcome)
      BY <2>1 DEF Settle
    <3>2. outcomes[r] \in Seq(Outcomes) /\ Len(outcomes[r]) = 0 /\ request[r] \in RequestRecord
      BY <2>1
    <3> QED BY <2>1, <3>1, <3>2
  <2>2. CASE r \notin rs
    BY <2>2 DEF Settle
  <2> QED BY <2>1, <2>2
<1>2. request' = [r \in Requests |-> request'[r]] /\ outcomes' = [r \in Requests |-> outcomes'[r]]
  BY DEF Settle
<1> QED BY <1>1, <1>2

\* What a step may do to a request: begin it for a client in use, post it, or
\* settle it; and a client is closed with all the requests it has pending.
LEMMA RequestsStep ==
    ASSUME BridgeIInv, [BridgeNext]_bridgeVars
    PROVE  RequestsOK'
<1> USE DEF BridgeIInv
<1>1. ASSUME request' \in [Requests -> RequestRecord],
             outcomes' \in [Requests -> Seq(Outcomes)],
             Clients \subseteq Clients',
             \A r \in Requests :
                /\ request[r].phase # "none" => request'[r].phase # "none"
                /\ request'[r].phase # "none" => request'[r].client \in Clients
                /\ Len(outcomes'[r]) = IF request'[r].phase = "settled" THEN 1 ELSE 0,
             cancelling' \subseteq Requests,
             \A r \in cancelling' : request'[r].phase # "none"
      PROVE  RequestsOK'
  BY <1>1 DEF RequestsOK, OneSettlement, RequestRecord
<1>2. ASSUME NEW rs, NEW outcome \in Outcomes,
             \A r \in rs : r \in Requests /\ request[r].phase \in UnderWay,
             Settle(rs, outcome), UNCHANGED cancelling,
             UNCHANGED made \/ (nativePort # Absent /\ made' = Append(made, nativePort))
      PROVE  RequestsOK'
  <2>1. Clients \subseteq Clients'
    BY <1>2, ClientsGrow
  <2>2. /\ request' \in [Requests -> RequestRecord]
        /\ outcomes' \in [Requests -> Seq(Outcomes)]
        /\ \A r \in Requests :
              /\ request'[r].client = request[r].client
              /\ request'[r].phase = IF r \in rs THEN "settled" ELSE request[r].phase
              /\ Len(outcomes'[r]) = IF request'[r].phase = "settled" THEN 1 ELSE 0
    BY <1>2, SettleFacts
  <2>3. ASSUME NEW r \in Requests
        PROVE  /\ request[r].phase # "none" => request'[r].phase # "none"
               /\ request'[r].phase # "none" => request'[r].client \in Clients
    BY <1>2, <2>2 DEF RequestsOK, UnderWay
  <2>4. cancelling' \subseteq Requests /\ \A r \in cancelling' : request'[r].phase # "none"
    BY <1>2, <2>3 DEF RequestsOK
  <2> QED BY <1>1, <2>1, <2>2, <2>3, <2>4
<1>3. ASSUME UNCHANGED <<request, outcomes, made>>,
             cancelling' \subseteq Requests,
             \A r \in cancelling' : request[r].phase # "none"
      PROVE  RequestsOK'
  BY <1>3, <1>1 DEF RequestsOK, RequestRecord, Clients, OneSettlement
<1>4. \A c : \A r \in Pending(c) : r \in Requests /\ request[r].phase \in UnderWay
  BY DEF Pending, UnderWay
<1>5. CASE Connect
  BY <1>5, <1>3 DEF Connect, RequestsOK
<1>6. CASE Adopt
  <2>1. /\ Settle(Pending(bridgeClient), "disconnected") /\ UNCHANGED cancelling
        /\ nativePort # Absent /\ made' = Append(made, nativePort)
    BY <1>6 DEF Adopt, Disconnect
  <2> QED BY <2>1, <1>2, <1>4 DEF Outcomes
<1>7. CASE PortGone
  <2>1. Settle(Pending(bridgeClient), "disconnected") /\ UNCHANGED <<cancelling, made>>
    BY <1>7 DEF PortGone, Disconnect
  <2> QED BY <2>1, <1>2, <1>4 DEF Outcomes
<1>8. ASSUME NEW r \in Requests, StartRequest(r) PROVE RequestsOK'
  <2>1. bridgeClient \in Clients
    BY <1>8 DEF StartRequest, PortsOK, Clients, Absent
  <2>2. /\ request' \in [Requests -> RequestRecord]
        /\ \A q \in Requests :
              request'[q] = IF q = r THEN [phase |-> "signing", client |-> bridgeClient]
                            ELSE request[q]
    BY <1>8, <2>1 DEF StartRequest, RequestsOK, RequestRecord
  <2>3. UNCHANGED <<outcomes, cancelling, made>>
    BY <1>8 DEF StartRequest, clientVars
  <2> QED BY <1>8, <1>1, <2>1, <2>2, <2>3 DEF StartRequest, RequestsOK,
             OneSettlement, Clients
<1>9. ASSUME NEW r \in Requests, Post(r) PROVE RequestsOK'
  <2>1. CASE PortOf(r) = nativePort
    <3>1. /\ request' \in [Requests -> RequestRecord]
          /\ \A q \in Requests :
                /\ request'[q].client = request[q].client
                /\ request'[q].phase = IF q = r THEN "pending" ELSE request[q].phase
      <4>1. request' = [request EXCEPT ![r].phase = "pending"]
        BY <1>9, <2>1 DEF Post
      <4>2. request \in [Requests -> RequestRecord]
        BY DEF RequestsOK, RequestRecord
      <4> QED BY <4>1, <4>2 DEF RequestRecord
    <3>2. UNCHANGED <<outcomes, cancelling, made>>
      BY <1>9, <2>1 DEF Post, clientVars
    <3>3. ASSUME NEW q \in Requests
          PROVE  /\ request[q].phase # "none" => request'[q].phase # "none"
                 /\ request'[q].phase # "none" => request'[q].client \in Clients
                 /\ Len(outcomes'[q]) = IF request'[q].phase = "settled" THEN 1 ELSE 0
      BY <1>9, <3>1, <3>2 DEF Post, RequestsOK, OneSettlement
    <3>4. Clients \subseteq Clients' /\ outcomes' \in [Requests -> Seq(Outcomes)]
      BY <3>2 DEF Clients, RequestsOK
    <3>5. cancelling' \subseteq Requests /\ \A q \in cancelling' : request'[q].phase # "none"
      BY <3>2, <3>3 DEF RequestsOK
    <3> QED BY <1>1, <3>1, <3>3, <3>4, <3>5
  <2>2. CASE PortOf(r) # nativePort
    <3>1. Settle({r}, "unsent") /\ UNCHANGED <<cancelling, made>>
              /\ request[r].phase \in UnderWay
      BY <1>9, <2>2 DEF Post, clientVars, UnderWay
    <3>2. \A q \in {r} : q \in Requests /\ request[q].phase \in UnderWay
      BY <3>1
    <3> QED BY <3>1, <3>2, <1>2 DEF Outcomes
  <2> QED BY <2>1, <2>2
<1>10. ASSUME NEW r \in Requests, Deadline(r) PROVE RequestsOK'
  <2>1. Settle({r}, "deadline") /\ UNCHANGED <<cancelling, made>>
            /\ request[r].phase \in UnderWay
    BY <1>10 DEF Deadline, clientVars, UnderWay
  <2>2. \A q \in {r} : q \in Requests /\ request[q].phase \in UnderWay
    BY <2>1
  <2> QED BY <2>1, <2>2, <1>2 DEF Outcomes
<1>11. ASSUME NEW r \in Requests, Cancel(r) \/ PostCancel(r) PROVE RequestsOK'
  BY <1>11, <1>3 DEF Cancel, PostCancel, clientVars, RequestsOK
<1>12. ASSUME NEW a, HostSends(a) PROVE RequestsOK'
  BY <1>12, <1>3 DEF HostSends, clientVars, RequestsOK
<1>13. ASSUME NEW m, Arrive(m) PROVE RequestsOK'
  BY <1>13, <1>3 DEF Arrive, clientVars, RequestsOK
<1>14. ASSUME NEW h, Verified(h) PROVE RequestsOK'
  <2>1. CASE Finds(h)
    <3>1. Settle({r \in {h.message.of} : Ends(h)}, "answered")
              /\ UNCHANGED <<cancelling, made>>
      BY <1>14, <2>1 DEF Verified, clientVars
    <3>2. \A r \in {r \in {h.message.of} : Ends(h)} :
              r \in Requests /\ request[r].phase \in UnderWay
      BY <2>1, <1>4 DEF Finds
    <3> QED BY <3>1, <3>2, <1>2 DEF Outcomes
  <2>2. CASE ~Finds(h)
    BY <1>14, <2>2, <1>3 DEF Verified, clientVars, RequestsOK
  <2> QED BY <2>1, <2>2
<1>15. CASE UNCHANGED bridgeVars
  BY <1>15, <1>3 DEF bridgeVars, clientVars, RequestsOK
<1> QED BY <1>5, <1>6, <1>7, <1>8, <1>9, <1>10, <1>11, <1>12, <1>13, <1>14, <1>15 DEF BridgeNext

\* A client made is the one in use, and the one before it closed.
LEMMA PortsStep ==
    ASSUME BridgeIInv, [BridgeNext]_bridgeVars
    PROVE  PortsOK'
<1> USE DEF BridgeIInv
<1>1. CASE UNCHANGED clientVars
  BY <1>1 DEF clientVars, PortsOK, Clients
<1>2. CASE Connect
  <2>1. /\ ports' = ports + 1 /\ ports' \in 0..MaxPorts /\ nativePort' = ports'
        /\ UNCHANGED <<made, bridgeClient, closed>>
    BY <1>2, BridgeParameters DEF Connect, PortsOK
  <2>2. made' \in Seq(1..ports')
    <3>1. \A i \in 1..Len(made) : made[i] \in 1..ports'
      BY <2>1 DEF PortsOK
    <3> QED BY <2>1, <3>1 DEF PortsOK
  <2> QED BY <2>1, <2>2 DEF PortsOK, Clients
<1>3. CASE Adopt
  <2>1. /\ made' \in Seq(1..ports) /\ Len(made') = Len(made) + 1
        /\ Len(made) \in Nat
    BY <1>3, ClientsGrow DEF Adopt, PortsOK
  <2>2. /\ closed' = closed \cup ({bridgeClient} \ {Absent}) /\ bridgeClient' = Len(made')
        /\ UNCHANGED <<nativePort, ports>>
    BY <1>3 DEF Adopt, Disconnect
  <2>3. closed' = Clients' \ {bridgeClient'}
    BY <2>1, <2>2 DEF PortsOK, Clients, Absent
  <2> QED BY <2>1, <2>2, <2>3 DEF PortsOK
<1>4. CASE PortGone
  <2>1. /\ closed' = closed \cup ({bridgeClient} \ {Absent}) /\ bridgeClient' = Absent
        /\ nativePort' = Absent /\ UNCHANGED <<ports, made>>
    BY <1>4 DEF PortGone, Disconnect
  <2> QED BY <2>1 DEF PortsOK, Clients, Absent
<1>5. CASE UNCHANGED bridgeVars
  BY <1>5, <1>1 DEF bridgeVars
<1>6. ASSUME NEW r \in Requests,
             StartRequest(r) \/ Post(r) \/ Deadline(r) \/ Cancel(r)
                 \/ PostCancel(r)
      PROVE  UNCHANGED clientVars
  BY <1>6 DEF StartRequest, Post, Deadline, Cancel, PostCancel
<1>7. ASSUME NEW m, HostSends(m) \/ Arrive(m) \/ Verified(m)
      PROVE  UNCHANGED clientVars
  BY <1>7 DEF HostSends, Arrive, Verified
<1> QED BY <1>1, <1>2, <1>3, <1>4, <1>5, <1>6, <1>7 DEF BridgeNext

-----------------------------------------------------------------------------
(***************************************************************************)
(* The replay window                                                       *)
(***************************************************************************)

\* Remembering a message keeps the window within its limit and without
\* repetition, and the message in it.
LEMMA RememberedFacts ==
    ASSUME MessagesOK, NEW m \in wire
    PROVE  /\ Remembered(m) \in Seq(wire)
           /\ Len(Remembered(m)) <= WindowLimit
           /\ IsInjective(Remembered(m))
           /\ m \in ToSet(Remembered(m))
<1> USE DEF MessagesOK
<1>1. replayWindow \in Seq(wire) /\ Len(replayWindow) \in Nat
  OBVIOUS
<1>2. CASE Contains(replayWindow, m)
  <2>1. Remembered(m) = replayWindow
    BY <1>2 DEF Remembered
  <2>2. m \in ToSet(replayWindow)
    BY <1>1, <1>2 DEF Contains, ToSet
  <2> QED BY <2>1, <2>2
<1>3. CASE ~Contains(replayWindow, m)
  <2> DEFINE keys == Append(replayWindow, m)
  <2>1. /\ keys \in Seq(wire) /\ Len(keys) = Len(replayWindow) + 1
        /\ \A i \in 1..Len(replayWindow) : keys[i] = replayWindow[i] /\ keys[i] # m
        /\ keys[Len(keys)] = m
    BY <1>1, <1>3 DEF Contains
  <2>2. \A i, j \in 1..Len(keys) : keys[i] = keys[j] => i = j
    BY <2>1, <1>1 DEF IsInjective
  <2>3. Remembered(m) = IF Len(keys) > WindowLimit THEN Tail(keys) ELSE keys
    BY <1>3 DEF Remembered
  <2> HIDE DEF keys
  <2>4. CASE Len(keys) > WindowLimit
    <3>1. /\ Len(keys) > 1 /\ Tail(keys) \in Seq(wire)
          /\ Len(Tail(keys)) = Len(keys) - 1
          /\ \A i \in 1..Len(keys) - 1 : Tail(keys)[i] = keys[i + 1]
      BY <2>1, <2>4, <1>1, BridgeParameters
    <3>2. IsInjective(Tail(keys))
      <4>1. DOMAIN Tail(keys) = 1..(Len(keys) - 1)
        BY <3>1
      <4>2. ASSUME NEW i \in 1..(Len(keys) - 1), NEW j \in 1..(Len(keys) - 1),
                   Tail(keys)[i] = Tail(keys)[j]
            PROVE  i = j
        <5>1. /\ i + 1 \in 1..Len(keys) /\ j + 1 \in 1..Len(keys)
              /\ keys[i + 1] = keys[j + 1]
          BY <3>1, <4>2
        <5> QED BY <2>2, <5>1
      <4> QED BY <4>1, <4>2 DEF IsInjective
    <3>3. m \in ToSet(Tail(keys))
      <4>1. Len(keys) - 1 \in 1..Len(Tail(keys)) /\ Tail(keys)[Len(keys) - 1] = m
        BY <1>1, <2>1, <3>1
      <4>2. DOMAIN Tail(keys) = 1..Len(Tail(keys))
        BY <3>1
      <4> QED BY <4>1, <4>2 DEF ToSet
    <3> QED BY <1>1, <2>1, <2>3, <2>4, <3>1, <3>2, <3>3
  <2>5. CASE ~(Len(keys) > WindowLimit)
    <3>1. m \in ToSet(keys)
      BY <2>1, <1>1 DEF ToSet
    <3>2. IsInjective(keys)
      BY <2>1, <2>2 DEF IsInjective
    <3> QED BY <2>1, <2>3, <2>5, <3>1, <3>2, BridgeParameters
  <2> QED BY <2>4, <2>5
<1> QED BY <1>2, <1>3

\* What is asked, written and remembered keeps its form.
LEMMA MessagesStep ==
    ASSUME BridgeIInv, [BridgeNext]_bridgeVars
    PROVE  MessagesOK'
<1> USE DEF BridgeIInv
<1>1. Clients \subseteq Clients'
  <2>1. UNCHANGED made \/ (nativePort # Absent /\ made' = Append(made, nativePort))
    BY DEF BridgeNext, bridgeVars, clientVars, Connect, Adopt,
       PortGone, StartRequest, Post, Deadline, Cancel,
       PostCancel, HostSends, Arrive, Verified
  <2> QED BY <2>1, ClientsGrow
<1>2. CASE UNCHANGED <<asked, handlerVars>> /\ wire \subseteq wire'
               /\ wire' \subseteq Messages
  <2>1. replayWindow' \in Seq(wire')
    BY <1>2 DEF MessagesOK, handlerVars
  <2>2. handlers' \subseteq [message : wire', nr : 1..arrivals', client : Clients']
    BY <1>1, <1>2 DEF MessagesOK, handlerVars
  <2> QED BY <1>2, <2>1, <2>2 DEF MessagesOK, handlerVars
<1>3. CASE UNCHANGED <<wire, handlerVars>>
           /\ asked' \subseteq [kind : {"request", "cancel"}, of : Requests, port : 1..MaxPorts]
  BY <1>1, <1>3 DEF MessagesOK, handlerVars
<1>4. \A r \in Requests : request[r].phase # "none" => PortOf(r) \in 1..MaxPorts
  BY BridgeParameters DEF RequestsOK, PortsOK, PortOf, Clients
<1>5. ASSUME Connect \/ Adopt \/ PortGone \/ UNCHANGED bridgeVars
      PROVE  MessagesOK'
  <2>1. UNCHANGED <<asked, wire, handlerVars>>
    BY <1>5 DEF Connect, Adopt, PortGone, bridgeVars, hostVars
  <2> QED BY <2>1, <1>3 DEF MessagesOK
<1>6. ASSUME NEW r \in Requests,
             StartRequest(r) \/ Post(r) \/ Deadline(r) \/ Cancel(r)
                 \/ PostCancel(r)
      PROVE  MessagesOK'
  <2>1. /\ UNCHANGED <<wire, handlerVars>>
        /\ asked' \subseteq asked \cup {Ask("request", r), Ask("cancel", r)}
        /\ asked' # asked => request[r].phase # "none"
    BY <1>6 DEF StartRequest, Post, Deadline, Cancel,
       PostCancel, hostVars, RequestsOK
  <2>2. request[r].phase # "none" =>
          {Ask("request", r), Ask("cancel", r)}
             \subseteq [kind : {"request", "cancel"}, of : Requests, port : 1..MaxPorts]
    BY <1>4 DEF Ask
  <2> QED BY <2>1, <2>2, <1>3 DEF MessagesOK
<1>7. ASSUME NEW a \in asked, HostSends(a) PROVE MessagesOK'
  <2>1. /\ UNCHANGED <<asked, handlerVars>>
        /\ wire' = wire \cup {[a EXCEPT !.kind = AnswerTo(a.kind)]}
    BY <1>7 DEF HostSends
  <2>2. [a EXCEPT !.kind = AnswerTo(a.kind)] \in Messages
    BY DEF MessagesOK, Messages, AnswerTo, AnswerKinds
  <2> QED BY <2>1, <2>2, <1>2 DEF MessagesOK
<1>8. ASSUME NEW m \in wire, Arrive(m) PROVE MessagesOK'
  <2>1. /\ arrivals' = arrivals + 1 /\ arrivals' \in 1..MaxArrivals
        /\ handlers' = handlers \cup {[message |-> m, nr |-> arrivals', client |-> bridgeClient]}
        /\ UNCHANGED <<asked, wire, replayWindow, handled>>
    BY <1>8, BridgeParameters DEF Arrive, hostVars, MessagesOK
  <2>2. bridgeClient \in Clients
    BY <1>8 DEF Arrive, PortsOK, Clients, Absent
  <2>3. [message |-> m, nr |-> arrivals', client |-> bridgeClient]
            \in [message : wire, nr : 1..arrivals', client : Clients]
    BY <2>1, <2>2
  <2>4. ASSUME NEW h \in handlers
        PROVE  h \in [message : wire, nr : 1..arrivals', client : Clients]
    BY <2>1 DEF MessagesOK
  <2> QED BY <1>1, <2>1, <2>3, <2>4 DEF MessagesOK
<1>9. ASSUME NEW h \in handlers, Verified(h) PROVE MessagesOK'
  <2>1. /\ UNCHANGED <<asked, wire, arrivals>> /\ handlers' \subseteq handlers
        /\ h.message \in wire
    BY <1>9 DEF Verified, hostVars, MessagesOK
  <2>2. /\ replayWindow' \in Seq(wire) /\ Len(replayWindow') <= WindowLimit
        /\ IsInjective(replayWindow') /\ handled' \in [Messages -> Nat]
    <3>1. CASE Finds(h)
      <4>1. replayWindow' = Remembered(h.message)
                /\ handled' = [handled EXCEPT ![h.message] = @ + 1]
        BY <1>9, <3>1 DEF Verified
      <4>2. handled' \in [Messages -> Nat]
        BY <2>1, <4>1 DEF MessagesOK
      <4> QED BY <2>1, <4>1, <4>2, RememberedFacts
    <3>2. CASE ~Finds(h)
      BY <1>9, <3>2 DEF Verified, MessagesOK
    <3> QED BY <3>1, <3>2
  <2> QED BY <1>1, <2>1, <2>2 DEF MessagesOK
<1> QED BY <1>5, <1>6, <1>7, <1>8, <1>9 DEF BridgeNext

-----------------------------------------------------------------------------
(***************************************************************************)
(* Which requests are served                                               *)
(***************************************************************************)
\* A request is late from the moment its client is closed while it is signed.
LEMMA ServedStep ==
    ASSUME BridgeIInv, [BridgeNext]_bridgeVars
    PROVE  Served'
<1> USE DEF BridgeIInv
<1> DEFINE Fine(r) ==
        /\ request'[r].phase \in {"signing", "pending"} => request'[r].client = bridgeClient'
        /\ request'[r].phase = "pending" => PortOf(r)' = nativePort'
<1>1. ASSUME late \subseteq late', \A r \in Requests \ late' : Fine(r) PROVE Served'
  BY <1>1 DEF Served
<1>2. \A r \in Requests \ late :
          /\ request[r].phase \in {"signing", "pending"} => request[r].client = bridgeClient
          /\ request[r].phase = "pending" => PortOf(r) = nativePort
  BY DEF Served
<1> HIDE DEF Fine
\* Requests that go on, or are settled, with the client and the port in use.
<1>3. ASSUME UNCHANGED <<late, bridgeClient, made, nativePort>>, NEW r \in Requests \ late,
             request'[r] = request[r] \/ request'[r].phase = "settled"
      PROVE  Fine(r)
  BY <1>2, <1>3 DEF Fine, PortOf
\* A client that is closed leaves only late requests.
<1>4. ASSUME Disconnect(bridgeClient),
             UNCHANGED made \/ (nativePort # Absent /\ made' = Append(made, nativePort))
      PROVE  Served'
  <2>1. /\ late' = late \cup {r \in Requests : /\ request[r].phase = "signing"
                                              /\ request[r].client = bridgeClient}
        /\ Settle(Pending(bridgeClient), "disconnected")
    BY <1>4 DEF Disconnect
  <2>2. \A r \in Pending(bridgeClient) : r \in Requests /\ request[r].phase \in UnderWay
    BY DEF Pending, UnderWay
  <2>3. \A r \in Requests :
           request'[r].phase = IF r \in Pending(bridgeClient) THEN "settled" ELSE request[r].phase
    BY <2>1, <2>2, SettleFacts DEF Outcomes
  <2>4. ASSUME NEW r \in Requests \ late'
        PROVE  request'[r].phase \notin {"signing", "pending"}
    <3>1. request[r].phase \in {"signing", "pending"} => request[r].client = bridgeClient
      BY <1>2, <2>1, <2>4
    <3>2. request[r].phase # "signing" \/ request[r].client # bridgeClient
      BY <2>1, <2>4
    <3> QED BY <2>3, <3>1, <3>2 DEF Pending
  <2> QED BY <1>1, <2>1, <2>4 DEF Fine
<1>5. CASE Connect
  <2>1. nativePort = Absent /\ UNCHANGED <<late, request, bridgeClient, made>>
    BY <1>5 DEF Connect
  <2>2. ASSUME NEW r \in Requests \ late
        PROVE  request[r].phase # "pending"
    <3>1. request[r].phase = "pending" => PortOf(r) \in 1..ports
      BY DEF RequestsOK, PortsOK, PortOf, Clients
    <3> QED BY <1>2, <2>1, <3>1 DEF Absent, PortsOK
  <2> QED BY <1>1, <1>2, <2>1, <2>2 DEF Fine, PortOf
<1>6. CASE Adopt
  BY <1>6, <1>4 DEF Adopt
<1>7. CASE PortGone
  BY <1>7, <1>4 DEF PortGone
<1>8. ASSUME NEW r \in Requests, StartRequest(r) PROVE Served'
  <2>1. /\ UNCHANGED <<late, bridgeClient, made, nativePort>>
        /\ request' = [request EXCEPT ![r] = [phase |-> "signing", client |-> bridgeClient]]
    BY <1>8 DEF StartRequest, clientVars
  <2>2. request'[r] = [phase |-> "signing", client |-> bridgeClient]
    BY <2>1 DEF RequestsOK
  <2>3. Fine(r)
    BY <2>1, <2>2 DEF Fine
  <2>4. \A q \in Requests : q # r => request'[q] = request[q]
    BY <2>1 DEF RequestsOK
  <2> QED BY <1>1, <1>3, <2>1, <2>3, <2>4
<1>9. ASSUME NEW r \in Requests, Post(r) PROVE Served'
  <2>1. UNCHANGED <<late, bridgeClient, made, nativePort>> /\ request[r].phase = "signing"
    BY <1>9 DEF Post, clientVars
  <2>2. CASE PortOf(r) = nativePort
    <3>1. request' = [request EXCEPT ![r].phase = "pending"]
      BY <1>9, <2>2 DEF Post
    <3>2. /\ request'[r].client = request[r].client
          /\ \A q \in Requests : q # r => request'[q] = request[q]
      BY <3>1 DEF RequestsOK
    <3>3. r \notin late => Fine(r)
      BY <1>2, <2>1, <2>2, <3>2 DEF Fine, PortOf
    <3> QED BY <1>1, <1>3, <2>1, <3>2, <3>3
  <2>3. CASE PortOf(r) # nativePort
    <3>1. Settle({r}, "unsent")
      BY <1>9, <2>3 DEF Post
    <3>2. \A q \in Requests : request'[q] = request[q] \/ request'[q].phase = "settled"
      BY <2>1, <3>1, SettleFacts DEF Outcomes, UnderWay
    <3> QED BY <1>1, <1>3, <2>1, <3>2
  <2> QED BY <2>2, <2>3
<1>10. ASSUME NEW r \in Requests, Deadline(r) PROVE Served'
  <2>1. /\ UNCHANGED <<late, bridgeClient, made, nativePort>>
        /\ Settle({r}, "deadline") /\ request[r].phase = "pending"
    BY <1>10 DEF Deadline, clientVars
  <2>2. \A q \in Requests : request'[q] = request[q] \/ request'[q].phase = "settled"
    BY <2>1, SettleFacts DEF Outcomes, UnderWay
  <2> QED BY <1>1, <1>3, <2>1, <2>2
<1>11. ASSUME NEW m, Verified(m) PROVE Served'
  <2>1. UNCHANGED <<late, bridgeClient, made, nativePort>>
    BY <1>11 DEF Verified, clientVars
  <2>2. \A q \in Requests : request'[q] = request[q] \/ request'[q].phase = "settled"
    <3>1. CASE Finds(m)
      <4>1. \A q \in {q \in {m.message.of} : Ends(m)} :
                q \in Requests /\ request[q].phase \in UnderWay
        BY <3>1 DEF Finds, Pending, UnderWay
      <4>2. Settle({q \in {m.message.of} : Ends(m)}, "answered")
        BY <1>11, <3>1 DEF Verified
      <4> QED BY <4>1, <4>2, SettleFacts DEF Outcomes
    <3>2. CASE ~Finds(m)
      BY <1>11, <3>2 DEF Verified
    <3> QED BY <3>1, <3>2
  <2> QED BY <1>1, <1>3, <2>1, <2>2
<1>12. ASSUME UNCHANGED <<late, clientVars, request>> PROVE Served'
  BY <1>1, <1>3, <1>12 DEF clientVars
<1>13. ASSUME NEW r \in Requests, Cancel(r) \/ PostCancel(r) PROVE Served'
  BY <1>13, <1>12 DEF Cancel, PostCancel
<1>14. ASSUME NEW m, HostSends(m) \/ Arrive(m) PROVE Served'
  BY <1>14, <1>12 DEF HostSends, Arrive
<1>15. CASE UNCHANGED bridgeVars
  BY <1>15, <1>12 DEF bridgeVars
<1> QED BY <1>5, <1>6, <1>7, <1>8, <1>9, <1>10, <1>11, <1>13, <1>14, <1>15 DEF BridgeNext

-----------------------------------------------------------------------------
(***************************************************************************)
(* Messages handled once                                                   *)
(***************************************************************************)
\* A message is remembered when it is handled; a copy that arrives before that
\* overlaps, and one that arrives after it was forgotten.
LEMMA OnceStep ==
    ASSUME BridgeIInv, [BridgeNext]_bridgeVars
    PROVE  Once' /\ ReplayNeedsOverlap'
<1> USE DEF BridgeIInv
<1>1. CASE UNCHANGED handlerVars
  BY <1>1 DEF handlerVars, Once, ReplayNeedsOverlap, ToSet
<1>2. ASSUME NEW m \in wire, Arrive(m) PROVE Once' /\ ReplayNeedsOverlap'
  <2> DEFINE new == [message |-> m, nr |-> arrivals', client |-> bridgeClient]
  <2>1. /\ handlers' = handlers \cup {new} /\ m \in Messages
        /\ overlapped' = overlapped \cup {m : h \in {k \in handlers : k.message = m}}
        /\ UNCHANGED <<replayWindow, handled, evicted>>
        /\ ~Contains(replayWindow, m)
    BY <1>2 DEF Arrive, Acceptable, MessagesOK
  <2>2. new.message = m
    OBVIOUS
  <2>3. m \notin ToSet(replayWindow)
    BY <2>1 DEF Contains, ToSet, MessagesOK
  <2>4. handled[m] > 0 => m \in evicted
    BY <2>1, <2>3 DEF Once
  <2>5. overlapped \subseteq overlapped' /\ \A k \in handlers : k.message = m => m \in overlapped'
    BY <2>1
  <2> HIDE DEF new
  <2>6. \A h, k \in handlers' : h.message = k.message => h = k \/ h.message \in overlapped'
    BY <2>1, <2>2, <2>5 DEF Once
  <2>7. \A h \in handlers' : handled'[h.message] > 0 => h.message \in overlapped' \cup evicted'
    BY <2>1, <2>2, <2>4, <2>5 DEF Once
  <2>8. \A x \in Messages : handled'[x] > 0
            => x \in ToSet(replayWindow)' \cup evicted'
    BY <2>1 DEF Once, ToSet
  <2> QED BY <2>1, <2>5, <2>6, <2>7, <2>8 DEF Once, ReplayNeedsOverlap
<1>3. ASSUME NEW h \in handlers, Verified(h) PROVE Once' /\ ReplayNeedsOverlap'
  <2>1. handlers' = handlers \ {h} /\ UNCHANGED overlapped
    BY <1>3 DEF Verified
  <2>2. CASE ~Finds(h)
    BY <1>3, <2>1, <2>2 DEF Verified, Once, ReplayNeedsOverlap, ToSet
  <2>3. CASE Finds(h)
    <3> DEFINE m == h.message
    <3>1. m \in wire /\ m \in Messages
      BY DEF MessagesOK
    <3>2. /\ handled' = [handled EXCEPT ![m] = @ + 1]
          /\ replayWindow' = Remembered(m)
          /\ evicted' = evicted \cup (ToSet(replayWindow) \ ToSet(replayWindow'))
      BY <1>3, <2>3 DEF Verified
    <3> HIDE DEF m
    <3>3. m \in ToSet(replayWindow')
      BY <3>1, <3>2, RememberedFacts
    <3>4. handled \in [Messages -> Nat] /\ handled'[m] = handled[m] + 1
          /\ \A x \in Messages : x # m => handled'[x] = handled[x]
      BY <3>1, <3>2 DEF MessagesOK
    <3>5. \A x \in Messages : handled'[x] > 0
              => x \in ToSet(replayWindow') \cup evicted'
      BY <3>2, <3>3, <3>4 DEF Once
    <3>6. \A k \in handlers' : k.message = m => m \in overlapped
      BY <2>1 DEF Once, m
    <3>7. \A k \in handlers' : k.message \in Messages
      BY <2>1 DEF MessagesOK
    <3>8. \A k \in handlers' : handled'[k.message] > 0 => k.message \in overlapped' \cup evicted'
      BY <2>1, <3>2, <3>4, <3>6, <3>7 DEF Once
    <3>9. handled[m] > 0 => m \in overlapped \cup evicted
      BY DEF Once, m
    <3>10. \A x \in Messages : handled'[x] > 1 => x \in overlapped' \cup evicted'
      BY <2>1, <3>1, <3>2, <3>4, <3>9 DEF ReplayNeedsOverlap
    <3>11. \A g, k \in handlers' : g.message = k.message => g = k \/ g.message \in overlapped'
      BY <2>1 DEF Once
    <3>12. ToSet(replayWindow)' = ToSet(replayWindow')
      BY DEF ToSet
    <3> QED BY <3>5, <3>8, <3>10, <3>11, <3>12 DEF Once, ReplayNeedsOverlap
  <2> QED BY <2>2, <2>3
<1>4. ASSUME NEW r \in Requests,
             StartRequest(r) \/ Post(r) \/ Deadline(r) \/ Cancel(r)
                 \/ PostCancel(r)
      PROVE  UNCHANGED handlerVars
  BY <1>4 DEF StartRequest, Post, Deadline, Cancel, PostCancel
<1>5. ASSUME NEW a, HostSends(a) PROVE UNCHANGED handlerVars
  BY <1>5 DEF HostSends
<1>6. ASSUME Connect \/ Adopt \/ PortGone \/ UNCHANGED bridgeVars
      PROVE  UNCHANGED handlerVars
  BY <1>6 DEF Connect, Adopt, PortGone, bridgeVars
<1> QED BY <1>1, <1>2, <1>3, <1>4, <1>5, <1>6 DEF BridgeNext

-----------------------------------------------------------------------------
LEMMA BridgeStarts ==
    ASSUME BridgeInit
    PROVE  BridgeIInv
<1> USE DEF BridgeInit
<1>1. RequestsOK
  BY DEF RequestsOK, OneSettlement, Clients, Absent
<1>2. PortsOK
  BY BridgeParameters DEF PortsOK, Clients, Absent
<1>3. MessagesOK
  BY BridgeParameters DEF MessagesOK, IsInjective
<1>4. Served /\ Once /\ ReplayNeedsOverlap
  BY DEF Served, Once, ReplayNeedsOverlap
<1> QED BY <1>1, <1>2, <1>3, <1>4 DEF BridgeIInv

LEMMA BridgeSteps ==
    ASSUME BridgeIInv, [BridgeNext]_bridgeVars
    PROVE  BridgeIInv'
<1> QED BY RequestsStep, PortsStep, MessagesStep, ServedStep, OnceStep DEF BridgeIInv

(***************************************************************************)
(* The inductive invariant holds.                                          *)
(***************************************************************************)
THEOREM BridgeInvariance == BridgeSpec => []BridgeIInv
<1>1. BridgeInit => BridgeIInv
  BY BridgeStarts
<1>2. BridgeIInv /\ [BridgeNext]_bridgeVars => BridgeIInv'
  BY BridgeSteps
<1> QED BY <1>1, <1>2, PTL DEF BridgeSpec

(***************************************************************************)
(* Types, and every promise is settled once (handleMessage, disconnect and *)
(* the timer of startRequest).                                             *)
(***************************************************************************)
THEOREM PromisesSettleOnce == BridgeSpec => []BridgeInv
<1>1. BridgeIInv => BridgeInv
  <2> SUFFICES ASSUME BridgeIInv PROVE BridgeInv
    OBVIOUS
  <2>1. ToSet(replayWindow) \subseteq wire
    BY DEF BridgeIInv, MessagesOK, ToSet
  <2> QED BY <2>1 DEF BridgeIInv, BridgeInv, BridgeTypes, RequestsOK, PortsOK, MessagesOK
<1> QED BY <1>1, BridgeInvariance, PTL

(***************************************************************************)
(* A request that waits in vain was being signed when its client was       *)
(* closed.                                                                 *)
(***************************************************************************)
THEOREM OnlyLateRequestsWait == BridgeSpec => []OnlyLateWaitInVain
<1>1. BridgeIInv => OnlyLateWaitInVain
  BY DEF BridgeIInv, OnlyLateWaitInVain, Served, PortsOK
<1> QED BY <1>1, BridgeInvariance, PTL

(***************************************************************************)
(* A message handled twice was verified twice at once, or was forgotten.   *)
(***************************************************************************)
THEOREM ReplaysOverlap == BridgeSpec => []ReplayNeedsOverlap
<1>1. BridgeIInv => ReplayNeedsOverlap
  BY DEF BridgeIInv
<1> QED BY <1>1, BridgeInvariance, PTL
=============================================================================
