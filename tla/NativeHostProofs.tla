-------------------------- MODULE NativeHostProofs --------------------------
(***************************************************************************)
(* Proofs about NativeHost, for any number of processes, messages,         *)
(* installations and crashes, and any size of the journal.                 *)
(***************************************************************************)
EXTENDS NativeHost, FiniteSetTheorems, TLAPS

Blank ==
    \A h \in Hosts : phase[h] # "reading" =>
        step[h] = Idle /\ activePairing[h] = NoPairing

\* The process that h is, as the entries of accepted and of saves name it.
Reader(h) == [host |-> h, loaded |-> loaded[h]]
Keeper(h) == [host |-> h, loaded |-> seen[h]]

\* An entry was written after its process had read the file.
ReadBefore(entries) == \A x \in 1..Len(entries) : entries[x].loaded < x

\* What a process knows of a log: what it read, unless that had been
\* overwritten, and what it wrote itself.
Knows(reader, entries, x) ==
    \/ x <= reader.loaded /\ ~Overtaken(entries, x, reader.loaded)
    \/ SameProcess(entries[x], reader)

\* A list of keys has an acceptance, unless ReplayLimit others have come since.
Holds(ks, x) ==
    Len(accepted) - x < ReplayLimit =>
        \E i \in 1..Len(ks) :
            ks[i] = accepted[x] /\ Len(ks) - i <= Len(accepted) - x

\* The keys of a process, the one it has just saved included.
KeysOf(h) ==
    IF step[h].at = "stored" THEN Recorded(keys[h], accepted[step[h].of]) ELSE keys[h]

FileHolds ==
    /\ Len(replayFile) <= ReplayLimit
    /\ \A x \in 1..Len(accepted) :
          ~Overtaken(by, x, Len(accepted)) => Holds(replayFile, x)

KeysHold ==
    \A h \in Hosts : phase[h] = "reading" =>
        /\ Len(keys[h]) <= ReplayLimit
        /\ \A x \in 1..Len(accepted) : Knows(Reader(h), by, x) => Holds(KeysOf(h), x)

StoresNew ==
    \A h \in Hosts : Awaits(h, "storing") =>
        \A i \in 1..Len(keys[h]) : keys[h][i] # step[h].of

\* A message that is about to be handled is the last its process accepted.
StoredLast ==
    \A h \in Hosts : Awaits(h, "stored") =>
        /\ step[h].of \in 1..Len(accepted)
        /\ by[step[h].of] = Reader(h)
        /\ \A i \in 1..Len(ran) : ran[i] # step[h].of
        /\ \A x \in 1..Len(accepted) :
              SameProcess(by[x], Reader(h)) => x <= step[h].of

Journal == ReadBefore(by) /\ FileHolds /\ KeysHold /\ StoresNew /\ StoredLast /\ AtMostOnce

Holding(h) == phase[h] \in {"loading", "reading"}

Recalls(records, s) == s.id \in DOMAIN records /\ records[s.id].install = s.install

FileRecalls ==
    \A x \in 1..Len(saves) :
        ~Overtaken(saves, x, Len(saves)) => Recalls(pairingFile, saves[x])

RegistryRecalls ==
    \A h \in Hosts : Holding(h) =>
        \A x \in 1..Len(saves) :
            Knows(Keeper(h), saves, x) => Recalls(registry[h], saves[x])

ToldSaved ==
    \A t \in told : \E x \in 1..Len(saves) :
        saves[x].id = t.id /\ saves[x].install = t.install

\* The records of a process are those on disk, but for a pairing in progress,
\* as long as no other process saves its own.
RegistryFollows ==
    \A h \in Hosts : Holding(h) =>
        /\ ActiveTogether(registry[h])
        /\ ~OthersSaved(h) /\ step[h].at # "pairing" => registry[h] = pairingFile
        /\ activePairing[h] # NoPairing =>
              /\ activePairing[h] \in DOMAIN registry[h]
              /\ registry[h][activePairing[h]].status = "active"

PairingUnderWay ==
    \A h \in Hosts : phase[h] = "reading" /\ step[h].at \in {"pairing", "paired"} =>
        /\ activePairing[h] = NoPairing
        /\ step[h].of \in DOMAIN registry[h]
        /\ registry[h][step[h].of].status = "active"
        /\ step[h].at = "paired" =>
              \E x \in 1..Len(saves) :
                  /\ saves[x].id = step[h].of
                  /\ saves[x].install = registry[h][step[h].of].install

Pairings ==
    /\ ReadBefore(saves)
    /\ FileRecalls
    /\ RegistryRecalls
    /\ ToldSaved
    /\ OneInstallation
    /\ RegistryFollows
    /\ PairingUnderWay

IInv == TypeOK /\ Blank /\ Journal /\ Pairings

-----------------------------------------------------------------------------
(***************************************************************************)
(* What a message step is, by what it awaits; a list of keys               *)
(***************************************************************************)
LEMMA StepKinds ==
    ASSUME NEW s \in Steps
    PROVE  /\ s.at # "storing" => s.of \in Nat
           /\ s.at = "storing" => s.of \in Messages
           /\ s.at = "pairing" =>
                 /\ [s EXCEPT !.at = "paired"] \in Steps
                 /\ [s EXCEPT !.at = "paired"].at = "paired"
                 /\ [s EXCEPT !.at = "paired"].of = s.of
BY DEF Steps

\* Recorded() appends a key, and drops the oldest of a full journal.
LEMMA RecordedKeys ==
    ASSUME NEW ks \in Seq(Messages), NEW m \in Messages, Len(ks) <= ReplayLimit
    PROVE  /\ Recorded(ks, m) \in Seq(Messages)
           /\ Len(Recorded(ks, m)) =
                  (IF Len(ks) < ReplayLimit THEN Len(ks) + 1 ELSE ReplayLimit)
           /\ Recorded(ks, m)[Len(Recorded(ks, m))] = m
           /\ \A j \in 1..(Len(Recorded(ks, m)) - 1) :
                 Recorded(ks, m)[j] =
                     ks[j + (IF Len(ks) < ReplayLimit THEN 0 ELSE 1)]
<1>1. CASE Len(ks) < ReplayLimit
  <2>1. Recorded(ks, m) = Append(ks, m)
    BY <1>1 DEF Recorded
  <2> QED BY <1>1, <2>1
<1>2. CASE ~(Len(ks) < ReplayLimit)
  <2>1. Recorded(ks, m) = Append(Tail(ks), m)
    BY <1>2 DEF Recorded
  <2>2. Len(ks) = ReplayLimit /\ ks # <<>>
    BY <1>2, ParametersAssumption
  <2>3. Tail(ks) \in Seq(Messages) /\ Len(Tail(ks)) = Len(ks) - 1
    BY <2>2, ParametersAssumption
  <2>4. \A j \in 1..Len(Tail(ks)) : Tail(ks)[j] = ks[j + 1]
    BY <2>2, ParametersAssumption
  <2> QED BY <1>2, <2>1, <2>2, <2>3, <2>4, ParametersAssumption
<1> QED BY <1>1, <1>2

\* A key that was held is held with the next one recorded, unless its time is
\* over.
LEMMA RecordedHolds ==
    ASSUME NEW ks \in Seq(Messages), NEW m \in Messages, Len(ks) <= ReplayLimit,
           accepted \in Seq(Messages), accepted' = Append(accepted, m),
           NEW x \in 1..Len(accepted), Holds(ks, x)
    PROVE  Len(accepted') - x < ReplayLimit =>
               \E i \in 1..Len(Recorded(ks, m)) :
                   /\ Recorded(ks, m)[i] = accepted'[x]
                   /\ Len(Recorded(ks, m)) - i <= Len(accepted') - x
<1> DEFINE new == Recorded(ks, m)
<1>1. /\ Len(accepted') = Len(accepted) + 1 /\ Len(accepted) \in Nat
      /\ accepted'[x] = accepted[x] /\ ReplayLimit \in Nat \ {0} /\ Len(ks) \in Nat
  BY ParametersAssumption
<1>2. SUFFICES ASSUME Len(accepted') - x < ReplayLimit
               PROVE  \E i \in 1..Len(new) :
                         new[i] = accepted'[x] /\ Len(new) - i <= Len(accepted') - x
  OBVIOUS
<1>3. PICK i \in 1..Len(ks) : ks[i] = accepted[x] /\ Len(ks) - i <= Len(accepted) - x
  BY <1>1, <1>2 DEF Holds
<1>4. /\ Len(new) = (IF Len(ks) < ReplayLimit THEN Len(ks) + 1 ELSE ReplayLimit)
      /\ \A j \in 1..(Len(new) - 1) :
            new[j] = ks[j + (IF Len(ks) < ReplayLimit THEN 0 ELSE 1)]
  BY RecordedKeys
<1> HIDE DEF new
<1>5. CASE Len(ks) < ReplayLimit
  <2>1. i \in 1..Len(new) /\ i \in 1..(Len(new) - 1)
    BY <1>1, <1>4, <1>5
  <2>2. new[i] = accepted'[x] /\ Len(new) - i <= Len(accepted') - x
    BY <1>1, <1>3, <1>4, <1>5, <2>1
  <2> QED BY <2>1, <2>2
<1>6. CASE Len(ks) = ReplayLimit
  <2>1. i - 1 \in 1..(Len(new) - 1)
    <3>1. Len(new) = ReplayLimit
      BY <1>4, <1>6
    <3>2. i > 1
      BY <1>1, <1>2, <1>3, <1>6
    <3> QED BY <1>1, <1>6, <3>1, <3>2
  <2>2. new[i - 1] = ks[i]
    BY <1>1, <1>4, <1>6, <2>1
  <2>3. i - 1 \in 1..Len(new) /\ Len(new) - (i - 1) <= Len(accepted') - x
    BY <1>1, <1>3, <1>4, <1>6, <2>1
  <2> QED BY <1>1, <1>3, <2>2, <2>3
<1> QED BY <1>1, <1>5, <1>6

-----------------------------------------------------------------------------
(***************************************************************************)
(* A log of those who wrote a file, and one more entry                     *)
(***************************************************************************)
Entry == [host : Hosts, loaded : Nat]

\* What comes later overtakes nothing earlier; the new entry overtakes what
\* its process does not know.
LEMMA LogGrows ==
    ASSUME NEW S, NEW entries \in Seq(S), NEW e \in S
    PROVE  LET more == Append(entries, e)
               n == Len(entries)
           IN  /\ \A x \in 1..n, y \in 0..n :
                     Overtaken(more, x, y) <=> Overtaken(entries, x, y)
               /\ \A x \in 1..n :
                     \/ Overtaken(entries, x, n)
                     \/ e.loaded < x /\ ~SameProcess(entries[x], e)
                     => Overtaken(more, x, n + 1)
<1> DEFINE more == Append(entries, e)
           n == Len(entries)
<1>1. /\ n \in Nat /\ more[n + 1] = e
      /\ \A x \in 1..n : more[x] = entries[x]
  OBVIOUS
<1> HIDE DEF more, n
<1>2. ASSUME NEW x \in 1..n, NEW y \in 0..n
      PROVE  Overtaken(more, x, y) <=> Overtaken(entries, x, y)
  <2>1. \A z \in (x + 1)..y : z \in 1..n
    BY <1>1
  <2>2. \A z \in (x + 1)..y : more[z] = entries[z]
    BY <1>1, <2>1
  <2>3. more[x] = entries[x]
    BY <1>1
  <2> QED BY <2>2, <2>3 DEF Overtaken
<1>3. ASSUME NEW x \in 1..n, Overtaken(entries, x, n)
      PROVE  Overtaken(more, x, n + 1)
  <2>1. Overtaken(more, x, n)
    BY <1>1, <1>2, <1>3
  <2>2. \A z \in (x + 1)..n : z \in (x + 1)..(n + 1)
    BY <1>1
  <2> QED BY <2>1, <2>2 DEF Overtaken
<1>4. ASSUME NEW x \in 1..n, e.loaded < x, ~SameProcess(entries[x], e)
      PROVE  Overtaken(more, x, n + 1)
  <2>1. n + 1 \in (x + 1)..(n + 1)
    BY <1>1
  <2>2. more[x] = entries[x] /\ more[n + 1] = e
    BY <1>1
  <2> QED BY <1>4, <2>1, <2>2 DEF Overtaken
<1> QED BY <1>2, <1>3, <1>4 DEF more, n

\* A process writes what it knows: what its entry does not overtake.
LEMMA WriterKnows ==
    ASSUME NEW S, NEW entries \in Seq(S), NEW e \in S,
           e.loaded \in 0..Len(entries),
           NEW r, r.host = e.host, r.loaded = e.loaded,
           NEW x \in 1..Len(entries),
           ~Overtaken(Append(entries, e), x, Len(entries) + 1)
    PROVE  Knows(r, entries, x)
<1>1. ~Overtaken(entries, x, Len(entries)) /\ ~(e.loaded < x /\ ~SameProcess(entries[x], e))
  BY LogGrows
<1>2. CASE SameProcess(entries[x], e)
  BY <1>2 DEF Knows, SameProcess
<1>3. CASE x <= e.loaded
  <2>1. \A z \in (x + 1)..e.loaded : z \in (x + 1)..Len(entries)
    OBVIOUS
  <2>2. ~Overtaken(entries, x, e.loaded)
    BY <1>1, <2>1 DEF Overtaken
  <2> QED BY <1>3, <2>2 DEF Knows
<1> QED BY <1>1, <1>2, <1>3

\* Nobody learns of an older entry by a new one, and of the new one only who
\* wrote it.
LEMMA KnowsNoMore ==
    ASSUME NEW S, NEW entries \in Seq(S), NEW e \in S,
           NEW r, r.loaded \in 0..Len(entries),
           NEW x \in 1..(Len(entries) + 1), Knows(r, Append(entries, e), x)
    PROVE  \/ x \in 1..Len(entries) /\ Knows(r, entries, x)
           \/ x = Len(entries) + 1 /\ SameProcess(e, r)
<1> DEFINE more == Append(entries, e)
           n == Len(entries)
<1>1. /\ n \in Nat /\ more[n + 1] = e
      /\ \A y \in 1..n : more[y] = entries[y]
  OBVIOUS
<1>2. \A y \in 1..n, z \in 0..n : Overtaken(more, y, z) <=> Overtaken(entries, y, z)
  BY LogGrows
<1> HIDE DEF more, n
<1>3. Knows(r, more, x) /\ r.loaded \in 0..n /\ x \in 1..(n + 1)
  BY DEF more, n
<1>4. CASE x = n + 1
  BY <1>1, <1>3, <1>4 DEF Knows, n
<1>5. CASE x \in 1..n
  <2>1. more[x] = entries[x] /\ (Overtaken(more, x, r.loaded) <=> Overtaken(entries, x, r.loaded))
    BY <1>1, <1>2, <1>3, <1>5
  <2> QED BY <1>3, <1>5, <2>1 DEF Knows, n
<1> QED BY <1>1, <1>3, <1>4, <1>5

\* Who has just read a file knows what it held.
LEMMA ReadsWhatIsThere ==
    ASSUME NEW S, NEW entries \in Seq(S), ReadBefore(entries),
           NEW r, r.loaded = Len(entries), NEW x \in 1..Len(entries),
           Knows(r, entries, x)
    PROVE  ~Overtaken(entries, x, Len(entries))
BY DEF Knows, SameProcess, ReadBefore

-----------------------------------------------------------------------------
(***************************************************************************)
(* Types                                                                   *)
(***************************************************************************)
\* A new pairing, and the records it displaces.
LEMMA PairedRegistry ==
    ASSUME drawn \in Nat, NEW records, IsRegistry(records), NEW install \in Installs
    PROVE  LET new == WithPairing(Displaced(records, install), install, drawn + 1)
           IN  /\ DOMAIN new = DOMAIN records \cup {drawn + 1}
               /\ DOMAIN new \subseteq 1..(drawn + 1)
               /\ new \in [DOMAIN new -> Record]
               /\ drawn + 1 \notin DOMAIN records
               /\ new[drawn + 1] = [install |-> install, status |-> "active"]
               /\ \A p \in DOMAIN records :
                     /\ new[p].install = records[p].install
                     /\ new[p].status = "active" => records[p].install = install
<1> DEFINE old == Displaced(records, install)
           new == WithPairing(old, install, drawn + 1)
<1>1. DOMAIN records \subseteq 1..drawn /\ records \in [DOMAIN records -> Record]
  BY DEF IsRegistry
<1>2. DOMAIN old = DOMAIN records
  BY DEF Displaced
<1>3. ASSUME NEW p \in DOMAIN records
      PROVE  /\ old[p] \in Record
             /\ old[p].install = records[p].install
             /\ old[p].status = "active" => records[p].install = install
  <2>1. records[p] \in Record
    BY <1>1
  <2>2. old[p] = IF records[p].install = install THEN records[p]
                 ELSE [records[p] EXCEPT !.status = "revoked"]
    BY DEF Displaced
  <2> QED BY <2>1, <2>2 DEF Record
<1>4. drawn + 1 \notin DOMAIN records
  BY <1>1
<1>5. DOMAIN new = DOMAIN records \cup {drawn + 1}
  BY <1>2 DEF WithPairing
<1>6. new[drawn + 1] = [install |-> install, status |-> "active"]
  BY DEF WithPairing
<1>7. \A p \in DOMAIN records : new[p] = old[p]
  BY <1>2, <1>4 DEF WithPairing
<1>8. new[drawn + 1] \in Record
  BY <1>6 DEF Record
<1>9. \A p \in DOMAIN new : new[p] \in Record
  BY <1>3, <1>5, <1>7, <1>8
<1>10. new = [p \in DOMAIN new |-> new[p]]
  BY DEF WithPairing
<1>11. new \in [DOMAIN new -> Record]
  BY <1>9, <1>10
<1>12. DOMAIN new \subseteq 1..(drawn + 1)
  BY <1>1, <1>5
<1> HIDE DEF old, new
<1> QED BY <1>3, <1>4, <1>5, <1>6, <1>7, <1>11, <1>12 DEF old, new

\* A blanked registry has a type too.
LEMMA NoRecords == IsRegistry(<<>>)
BY DEF IsRegistry

LEMMA TypeInit == Init => TypeOK
<1> SUFFICES ASSUME Init PROVE TypeOK
  OBVIOUS
<1>1. PairingsOK
  BY NoRecords DEF Init, PairingsOK, NoPairing
<1>2. MessagesOK
  <2>1. Idle \in Steps
    BY DEF Idle, Steps, NoPairing
  <2> QED BY <2>1 DEF Init, MessagesOK
<1>3. CallsOK
  BY DEF Init, CallsOK
<1> QED BY <1>1, <1>2, <1>3 DEF TypeOK

\* The pairing side of the state: the steps that touch it.
LEMMA PairingTypes ==
    ASSUME IInv, [Next]_vars
    PROVE  PairingsOK'
<1> USE DEF TypeOK, IInv
<1>1. ASSUME UNCHANGED <<pairingFile, pairing, seen, saves>> PROVE PairingsOK'
  BY <1>1 DEF pairing, PairingsOK, IsRegistry
<1>2. ASSUME NEW h \in Hosts, LeavesLoop(h) PROVE PairingsOK'
  <2>1. /\ registry' = [registry EXCEPT ![h] = <<>>]
        /\ activePairing' = [activePairing EXCEPT ![h] = 0]
        /\ seen' = [seen EXCEPT ![h] = 0]
        /\ UNCHANGED <<pairingFile, drawn, told, saves>>
    BY <1>2 DEF LeavesLoop, disk, NoPairing
  <2>2. \A g \in Hosts : IsRegistry(registry[g])'
    BY <2>1, NoRecords DEF PairingsOK, IsRegistry
  <2>3. seen' \in [Hosts -> 0..Len(saves')]
    BY <2>1 DEF PairingsOK
  <2> QED BY <2>1, <2>2, <2>3 DEF PairingsOK, IsRegistry
<1>3. ASSUME NEW h \in Hosts, Start(h) PROVE PairingsOK'
  <2>1. /\ registry' = [registry EXCEPT ![h] = pairingFile]
        /\ seen' = [seen EXCEPT ![h] = Len(saves)]
        /\ UNCHANGED <<pairingFile, activePairing, drawn, told, saves>>
    BY <1>3 DEF Start, disk
  <2> QED BY <2>1 DEF PairingsOK, IsRegistry
<1>4. ASSUME NEW h \in Hosts, NEW install \in Installs, HelloPairs(h, install)
      PROVE  PairingsOK'
  <2> DEFINE new == WithPairing(Displaced(registry[h], install), install, drawn + 1)
  <2>1. drawn \in Nat /\ IsRegistry(registry[h])
    BY DEF PairingsOK
  <2>2. DOMAIN new \subseteq 1..(drawn + 1) /\ new \in [DOMAIN new -> Record]
    BY <2>1, PairedRegistry
  <2>3. registry' = [registry EXCEPT ![h] = new] /\ drawn' = drawn + 1
        /\ UNCHANGED <<pairingFile, activePairing, told, seen, saves>>
    BY <1>4 DEF HelloPairs, disk, past
  <2> HIDE DEF new
  <2>4. drawn' \in Nat /\ 1..drawn \subseteq 1..drawn'
    BY <2>1, <2>3
  <2>5. IsRegistry(pairingFile)'
    BY <2>3, <2>4 DEF PairingsOK, IsRegistry
  <2>6. DOMAIN registry' = Hosts /\ \A g \in Hosts : IsRegistry(registry[g])'
    BY <2>2, <2>3, <2>4 DEF PairingsOK, IsRegistry
  <2>7. /\ activePairing' \in [Hosts -> 0..drawn']
        /\ told' \in SUBSET [install : Installs, id : 1..drawn']
    BY <2>1, <2>3, <2>4 DEF PairingsOK
  <2> QED BY <2>3, <2>4, <2>5, <2>6, <2>7 DEF PairingsOK
<1>5. ASSUME NEW h \in Hosts, NEW install \in Installs, NEW id \in DOMAIN registry[h],
             HelloResumes(h, install, id)
      PROVE  PairingsOK'
  BY <1>5 DEF HelloResumes, disk, past, PairingsOK, IsRegistry
<1>6. ASSUME NEW h \in Hosts, SavePairing(h) PROVE PairingsOK'
  <2> DEFINE e == [host |-> h, loaded |-> seen[h], id |-> step[h].of,
                   install |-> registry[h][step[h].of].install]
  <2>1. step[h].of \in DOMAIN registry[h]
    BY <1>6 DEF SavePairing, Awaits, Pairings, PairingUnderWay
  <2>2. registry[h][step[h].of] \in Record /\ step[h].of \in Nat /\ seen[h] \in Nat
    BY <2>1 DEF PairingsOK, IsRegistry
  <2>3. e \in [host : Hosts, loaded : Nat, id : Nat, install : Installs]
    BY <2>2 DEF Record
  <2>4. pairingFile' = registry[h] /\ saves' = Append(saves, e) /\ UNCHANGED <<pairing, seen>>
    BY <1>6 DEF SavePairing
  <2> HIDE DEF e
  <2>5. seen' \in [Hosts -> 0..Len(saves')]
    BY <2>3, <2>4 DEF PairingsOK
  <2> QED BY <2>3, <2>4, <2>5 DEF pairing, PairingsOK, IsRegistry
<1>7. ASSUME NEW h \in Hosts, AnswerPaired(h) PROVE PairingsOK'
  <2>1. step[h].of \in DOMAIN registry[h]
    BY <1>7 DEF AnswerPaired, Awaits, Pairings, PairingUnderWay
  <2>2. registry[h][step[h].of] \in Record /\ step[h].of \in 1..drawn
    BY <2>1 DEF PairingsOK, IsRegistry
  <2> QED BY <1>7, <2>2 DEF AnswerPaired, disk, past, PairingsOK, IsRegistry, Record
<1>8. ASSUME NEW h \in Hosts, NEW m \in Messages, Reserve(h, m) PROVE PairingsOK'
  BY <1>1, <1>8 DEF Reserve, disk, past
<1>9. ASSUME NEW h \in Hosts, NEW x \in 1..Len(accepted),
             RunRequest(h, x) \/ SkipRequest(h, x) \/ CancelRequest(h, x)
      PROVE  PairingsOK'
  BY <1>1, <1>9 DEF RunRequest, SkipRequest, CancelRequest, disk, past
<1>10. ASSUME NEW h \in Hosts,
              \/ SaveKey(h) \/ LoadJournal(h) \/ Exit(h)
              \/ \E x \in pending[h] : Finish(h, x)
       PROVE  PairingsOK'
  BY <1>1, <1>10 DEF SaveKey, LoadJournal, Exit, Finish, disk, past
<1>11. ASSUME NEW h \in Hosts,
              \/ EndOfInput(h) \/ Fail(h) \/ Crash(h)
              \/ \E x \in 1..Len(accepted) : RefuseCancel(h, x)
       PROVE  PairingsOK'
  BY <1>2, <1>11 DEF EndOfInput, Fail, Crash, RefuseCancel
<1>12. CASE UNCHANGED vars
  BY <1>1, <1>12 DEF vars, pairing
<1> QED BY <1>3, <1>4, <1>5, <1>6, <1>7, <1>8, <1>9, <1>10, <1>11, <1>12 DEF Next

\* Message numbers stay within a log that grows.
LEMMA LongerLog ==
    ASSUME NEW s, NEW n \in Nat, s \in Seq(1..n)
    PROVE  s \in Seq(1..(n + 1))
<1>1. \A i \in 1..Len(s) : s[i] \in 1..(n + 1)
  OBVIOUS
<1> QED BY <1>1

\* The messages: processes, what they await, the journal and the log.
LEMMA MessageTypes ==
    ASSUME IInv, [Next]_vars
    PROVE  MessagesOK'
<1> USE DEF TypeOK, IInv
<1> DEFINE Phases == {"off", "loading", "reading", "draining", "failing"}
<1>1. Idle \in Steps
  BY DEF Idle, Steps, NoPairing
<1>2. ASSUME UNCHANGED <<replayFile, accepted, ran, by>>, crashes' \in Nat,
             phase' \in [Hosts -> Phases], step' \in [Hosts -> Steps],
             keys' \in [Hosts -> Seq(Messages)], loaded' \in [Hosts -> 0..Len(accepted)]
      PROVE  MessagesOK'
  BY <1>2 DEF MessagesOK
<1>3. /\ phase \in [Hosts -> Phases] /\ step \in [Hosts -> Steps] /\ crashes \in Nat
      /\ keys \in [Hosts -> Seq(Messages)] /\ loaded \in [Hosts -> 0..Len(accepted)]
      /\ Len(accepted) \in Nat
  BY DEF MessagesOK
<1>4. ASSUME NEW h \in Hosts, Start(h) \/ Exit(h) PROVE MessagesOK'
  BY <1>2, <1>3, <1>4 DEF Start, Exit, disk, log, past
<1>5. ASSUME NEW h \in Hosts, LoadJournal(h) PROVE MessagesOK'
  <2>1. replayFile \in Seq(Messages)
    BY DEF MessagesOK
  <2> QED BY <1>2, <1>3, <1>5, <2>1 DEF LoadJournal, disk, log
<1>6. ASSUME NEW h \in Hosts,
             \/ EndOfInput(h) \/ Fail(h) \/ Crash(h)
             \/ \E x \in 1..Len(accepted) : RefuseCancel(h, x)
      PROVE  MessagesOK'
  <2>1. LeavesLoop(h) /\ crashes' \in {crashes, crashes + 1}
        /\ \E end \in Phases : phase' = [phase EXCEPT ![h] = end]
    BY <1>6 DEF EndOfInput, Fail, Crash, RefuseCancel
  <2>2. keys' \in [Hosts -> Seq(Messages)] /\ step' \in [Hosts -> Steps]
    BY <1>1, <1>3, <2>1 DEF LeavesLoop
  <2>3. loaded' \in [Hosts -> 0..Len(accepted)]
    BY <1>3, <2>1 DEF LeavesLoop
  <2>4. crashes' \in Nat /\ phase' \in [Hosts -> Phases]
    BY <1>3, <2>1
  <2> QED BY <1>2, <2>1, <2>2, <2>3, <2>4 DEF LeavesLoop, disk, log
<1>7. ASSUME NEW h \in Hosts, NEW install \in Installs, HelloPairs(h, install)
      PROVE  MessagesOK'
  <2>1. [at |-> "pairing", of |-> drawn + 1] \in Steps
    BY DEF Steps, PairingsOK
  <2> QED BY <1>2, <1>3, <1>7, <2>1 DEF HelloPairs, disk, log, past
<1>8. ASSUME NEW h \in Hosts, NEW install \in Installs, NEW id \in DOMAIN registry[h],
             HelloResumes(h, install, id)
      PROVE  MessagesOK'
  BY <1>2, <1>3, <1>8 DEF HelloResumes, disk, log, past
<1>9. ASSUME NEW h \in Hosts, SavePairing(h) PROVE MessagesOK'
  <2>1. [step[h] EXCEPT !.at = "paired"] \in Steps
    BY <1>3, <1>9, StepKinds DEF SavePairing, Awaits
  <2> QED BY <1>2, <1>3, <1>9, <2>1 DEF SavePairing, log
<1>10. ASSUME NEW h \in Hosts, AnswerPaired(h) PROVE MessagesOK'
  BY <1>1, <1>2, <1>3, <1>10 DEF AnswerPaired, disk, log, past
<1>11. ASSUME NEW h \in Hosts, NEW m \in Messages, Reserve(h, m) PROVE MessagesOK'
  <2>1. [at |-> "storing", of |-> m] \in Steps
    BY DEF Steps
  <2> QED BY <1>2, <1>3, <1>11, <2>1 DEF Reserve, disk, log, past
<1>12. ASSUME NEW h \in Hosts, SaveKey(h) PROVE MessagesOK'
  <2>1. phase[h] = "reading" /\ step[h] \in Steps /\ step[h].at = "storing"
    BY <1>3, <1>12 DEF SaveKey, Awaits
  <2>2. step[h].of \in Messages
    BY <2>1, StepKinds
  <2>3. Len(keys[h]) <= ReplayLimit
    BY <2>1 DEF Journal, KeysHold
  <2>4. replayFile' \in Seq(Messages)
    BY <1>3, <1>12, <2>2, <2>3, RecordedKeys DEF SaveKey
  <2>5. accepted' \in Seq(Messages) /\ Len(accepted') = Len(accepted) + 1
    BY <1>12, <2>2 DEF SaveKey, MessagesOK
  <2>6. ran' \in Seq(1..Len(accepted'))
    BY <1>3, <1>12, <2>5, LongerLog DEF SaveKey, MessagesOK
  <2>7. /\ [host |-> h, loaded |-> loaded[h]] \in [host : Hosts, loaded : Nat]
        /\ by' = Append(by, [host |-> h, loaded |-> loaded[h]])
    BY <1>3, <1>12 DEF SaveKey
  <2>8. by' \in Seq([host : Hosts, loaded : Nat]) /\ Len(by') = Len(accepted')
    BY <2>5, <2>7 DEF MessagesOK
  <2>9. [at |-> "stored", of |-> Len(accepted) + 1] \in Steps
    BY <1>3 DEF Steps
  <2>10. step' \in [Hosts -> Steps] /\ loaded' \in [Hosts -> 0..Len(accepted')]
    BY <1>3, <1>12, <2>5, <2>9 DEF SaveKey
  <2> QED BY <1>3, <1>12, <2>4, <2>5, <2>6, <2>8, <2>10 DEF SaveKey, MessagesOK
<1>13. ASSUME NEW h \in Hosts, NEW x \in 1..Len(accepted), Accepts(h, x)
       PROVE  /\ keys' \in [Hosts -> Seq(Messages)]
              /\ step' \in [Hosts -> Steps]
  <2>1. phase[h] = "reading"
    BY <1>13 DEF Accepts, Awaits
  <2>2. Len(keys[h]) <= ReplayLimit /\ accepted[x] \in Messages
    BY <2>1 DEF Journal, KeysHold, MessagesOK
  <2>3. Recorded(keys[h], accepted[x]) \in Seq(Messages)
    BY <1>3, <2>2, RecordedKeys
  <2> QED BY <1>1, <1>3, <1>13, <2>3 DEF Accepts
<1>14. ASSUME NEW h \in Hosts, NEW x \in 1..Len(accepted),
              SkipRequest(h, x) \/ CancelRequest(h, x)
       PROVE  MessagesOK'
  BY <1>2, <1>3, <1>13, <1>14 DEF SkipRequest, CancelRequest, disk, log, past
<1>15. ASSUME NEW h \in Hosts, NEW x \in 1..Len(accepted), RunRequest(h, x)
       PROVE  MessagesOK'
  <2>1. /\ ran' = Append(ran, x)
        /\ UNCHANGED <<replayFile, phase, accepted, crashes, by, loaded>>
    BY <1>15 DEF RunRequest, disk, past
  <2>2. ran' \in Seq(1..Len(accepted'))
    BY <2>1 DEF MessagesOK
  <2> QED BY <1>13, <1>15, <2>1, <2>2 DEF RunRequest, MessagesOK
<1>16. ASSUME NEW h \in Hosts, NEW x \in pending[h], Finish(h, x) PROVE MessagesOK'
  BY <1>2, <1>3, <1>16 DEF Finish, disk, log, past
<1>17. CASE UNCHANGED vars
  BY <1>2, <1>3, <1>17 DEF vars
<1> QED BY <1>4, <1>5, <1>6, <1>7, <1>8, <1>9, <1>10, <1>11, <1>12, <1>14, <1>15, <1>16, <1>17
        DEF Next

\* The calls of the processes.
LEMMA CallTypes ==
    ASSUME IInv, [Next]_vars
    PROVE  CallsOK'
<1> USE DEF TypeOK, IInv
<1>1. ASSUME UNCHANGED <<calls, accepted>> PROVE CallsOK'
  BY <1>1 DEF calls, CallsOK
<1>2. ASSUME NEW h \in Hosts,
             \/ Start(h) \/ LoadJournal(h) \/ EndOfInput(h) \/ Fail(h) \/ Exit(h)
             \/ SavePairing(h) \/ AnswerPaired(h)
             \/ \E install \in Installs :
                   \/ HelloPairs(h, install)
                   \/ \E id \in DOMAIN registry[h] : HelloResumes(h, install, id)
      PROVE  CallsOK'
  BY <1>1, <1>2 DEF Start, LoadJournal, EndOfInput, Fail, Exit, SavePairing, AnswerPaired,
                    HelloPairs, HelloResumes, LeavesLoop, log
<1>3. ASSUME NEW h \in Hosts, NEW m \in Messages, Reserve(h, m) PROVE CallsOK'
  BY <1>1, <1>3 DEF Reserve, log
<1>4. ASSUME NEW h \in Hosts, NEW x \in 1..Len(accepted),
             SkipRequest(h, x) \/ RefuseCancel(h, x)
      PROVE  CallsOK'
  BY <1>1, <1>4 DEF SkipRequest, RefuseCancel, LeavesLoop, log
<1>5. ASSUME NEW h \in Hosts, Crash(h) PROVE CallsOK'
  BY <1>5 DEF Crash, LeavesLoop, log, CallsOK
<1>6. ASSUME NEW h \in Hosts, SaveKey(h) PROVE CallsOK'
  <2>1. Len(accepted') = Len(accepted) + 1 /\ Len(accepted) \in Nat
    BY <1>6, MessageTypes DEF SaveKey, MessagesOK
  <2>2. 1..Len(accepted) \subseteq 1..Len(accepted')
    BY <2>1
  <2> QED BY <1>6, <2>2 DEF SaveKey, calls, CallsOK
<1>7. ASSUME NEW h \in Hosts, NEW x \in 1..Len(accepted), RunRequest(h, x) PROVE CallsOK'
  <2>1. /\ pending' = [pending EXCEPT ![h] = @ \cup {x}]
        /\ activeRequests' = [activeRequests EXCEPT ![h] =
                               {y \in @ : accepted[y] # accepted[x]} \cup {x}]
        /\ UNCHANGED <<aborted, accepted>>
    BY <1>7 DEF RunRequest
  <2> QED BY <2>1 DEF CallsOK
<1>8. ASSUME NEW h \in Hosts, NEW x \in 1..Len(accepted), CancelRequest(h, x)
      PROVE  CallsOK'
  BY <1>8 DEF CancelRequest, log, CallsOK
<1>9. ASSUME NEW h \in Hosts, NEW x \in pending[h], Finish(h, x) PROVE CallsOK'
  BY <1>9 DEF Finish, log, CallsOK
<1>10. CASE UNCHANGED vars
  BY <1>1, <1>10 DEF vars, calls
<1> QED BY <1>2, <1>3, <1>4, <1>5, <1>6, <1>7, <1>8, <1>9, <1>10 DEF Next

-----------------------------------------------------------------------------
\* Nothing is kept outside the message loop.
LEMMA BlankStep ==
    ASSUME IInv, [Next]_vars
    PROVE  Blank'
<1> USE DEF TypeOK, IInv
<1>1. ASSUME UNCHANGED <<step, activePairing>>,
             \A g \in Hosts : phase'[g] # "reading" => phase[g] # "reading"
      PROVE  Blank'
  BY <1>1 DEF Blank
<1>2. ASSUME NEW h \in Hosts, Start(h) \/ LoadJournal(h) \/ Exit(h) PROVE Blank'
  BY <1>1, <1>2 DEF Start, LoadJournal, Exit, pairing, MessagesOK
<1>3. ASSUME NEW h \in Hosts,
             \/ EndOfInput(h) \/ Fail(h) \/ Crash(h)
             \/ \E x \in 1..Len(accepted) : RefuseCancel(h, x)
      PROVE  Blank'
  <2>1. \E end \in {"off", "draining", "failing"} : phase' = [phase EXCEPT ![h] = end]
    BY <1>3 DEF EndOfInput, Fail, Crash, RefuseCancel
  <2>2. /\ step' = [step EXCEPT ![h] = Idle]
        /\ activePairing' = [activePairing EXCEPT ![h] = NoPairing]
    BY <1>3 DEF EndOfInput, Fail, Crash, RefuseCancel, LeavesLoop
  <2> QED BY <2>1, <2>2 DEF Blank, MessagesOK, PairingsOK
<1>4. ASSUME NEW h \in Hosts, phase[h] = "reading", UNCHANGED phase,
             \A g \in Hosts \ {h} : step'[g] = step[g] /\ activePairing'[g] = activePairing[g]
      PROVE  Blank'
  BY <1>4 DEF Blank
<1>5. ASSUME NEW h \in Hosts,
             \/ SavePairing(h) \/ AnswerPaired(h) \/ SaveKey(h)
             \/ \E install \in Installs :
                   \/ HelloPairs(h, install)
                   \/ \E id \in DOMAIN registry[h] : HelloResumes(h, install, id)
             \/ \E m \in Messages : Reserve(h, m)
      PROVE  Blank'
  <2>1. phase[h] = "reading" /\ UNCHANGED phase
    BY <1>5 DEF SavePairing, AnswerPaired, SaveKey, HelloPairs, HelloResumes, Reserve, Awaits
  <2>2. \A g \in Hosts \ {h} : step'[g] = step[g] /\ activePairing'[g] = activePairing[g]
    BY <1>5 DEF SavePairing, AnswerPaired, SaveKey, HelloPairs, HelloResumes, Reserve,
                pairing, MessagesOK, PairingsOK
  <2> QED BY <1>4, <2>1, <2>2
<1>6. ASSUME NEW h \in Hosts, NEW x \in 1..Len(accepted),
             RunRequest(h, x) \/ SkipRequest(h, x) \/ CancelRequest(h, x)
      PROVE  Blank'
  <2>1. phase[h] = "reading" /\ UNCHANGED phase
    BY <1>6 DEF RunRequest, SkipRequest, CancelRequest, Accepts, Awaits
  <2>2. \A g \in Hosts \ {h} : step'[g] = step[g] /\ activePairing'[g] = activePairing[g]
    BY <1>6 DEF RunRequest, SkipRequest, CancelRequest, Accepts, pairing,
                MessagesOK, PairingsOK
  <2> QED BY <1>4, <2>1, <2>2
<1>7. ASSUME NEW h \in Hosts, NEW x \in pending[h], Finish(h, x) PROVE Blank'
  BY <1>1, <1>7 DEF Finish, pairing
<1>8. CASE UNCHANGED vars
  BY <1>1, <1>8 DEF vars
<1> QED BY <1>2, <1>3, <1>5, <1>6, <1>7, <1>8 DEF Next

-----------------------------------------------------------------------------
(***************************************************************************)
(* The journal                                                             *)
(***************************************************************************)
\* Steps that leave journal and log alone, and no process nearer to a message
\* it has stored.
LEMMA JournalQuiet ==
    ASSUME IInv, UNCHANGED <<replayFile, accepted, ran, by>>,
           \A g \in Hosts : phase'[g] = "reading" =>
               /\ phase[g] = "reading"
               /\ keys'[g] = keys[g] /\ loaded'[g] = loaded[g]
               /\ \/ step'[g] = step[g]
                  \/ /\ step[g].at # "stored" /\ step'[g].at # "stored"
                     /\ step'[g].at = "storing" =>
                           \A i \in 1..Len(keys[g]) : keys[g][i] # step'[g].of
    PROVE  Journal'
<1>1. ReadBefore(by)' /\ FileHolds' /\ AtMostOnce'
  BY DEF IInv, Journal, ReadBefore, FileHolds, Holds, AtMostOnce, Overtaken, SameProcess
<1>2. KeysHold'
  <2> SUFFICES ASSUME NEW g \in Hosts, phase'[g] = "reading"
               PROVE  /\ Len(keys'[g]) <= ReplayLimit
                      /\ \A x \in 1..Len(accepted) :
                            Knows(Reader(g), by, x)' => Holds(KeysOf(g), x)'
    BY DEF KeysHold
  <2>1. phase[g] = "reading" /\ keys'[g] = keys[g] /\ loaded'[g] = loaded[g]
    OBVIOUS
  <2>2. KeysOf(g)' = KeysOf(g)
    BY <2>1 DEF KeysOf
  <2>3. \A x \in 1..Len(accepted) : Knows(Reader(g), by, x)' <=> Knows(Reader(g), by, x)
    BY <2>1 DEF Knows, Reader, Overtaken, SameProcess
  <2> QED BY <2>1, <2>2, <2>3 DEF IInv, Journal, KeysHold, Holds
<1>3. StoresNew'
  BY DEF IInv, Journal, StoresNew, Awaits
<1>4. StoredLast'
  BY DEF IInv, Journal, StoredLast, Awaits, Reader, SameProcess
<1> QED BY <1>1, <1>2, <1>3, <1>4 DEF Journal

\* A process reads what the journal holds.
LEMMA JournalLoaded ==
    ASSUME IInv, NEW h \in Hosts, LoadJournal(h)
    PROVE  Journal'
<1>1. /\ phase[h] = "loading" /\ phase' = [phase EXCEPT ![h] = "reading"]
      /\ keys' = [keys EXCEPT ![h] = replayFile]
      /\ loaded' = [loaded EXCEPT ![h] = Len(accepted)]
      /\ UNCHANGED <<replayFile, accepted, ran, by, step>>
  BY DEF LoadJournal, disk, log, past
<1>2. /\ phase \in [Hosts -> {"off", "loading", "reading", "draining", "failing"}]
      /\ DOMAIN keys = Hosts /\ DOMAIN loaded = Hosts
      /\ by \in Seq(Entry) /\ Len(by) = Len(accepted)
  BY DEF IInv, TypeOK, MessagesOK, Entry
<1>3. step'[h].at = "idle"
  BY <1>1 DEF IInv, Blank, Idle
<1>4. ReadBefore(by)' /\ FileHolds' /\ AtMostOnce'
  <2>1. UNCHANGED <<replayFile, accepted, ran, by>>
    BY <1>1
  <2>2. ReadBefore(by)' /\ FileHolds'
    BY <2>1 DEF IInv, Journal, ReadBefore, FileHolds, Holds, Overtaken, SameProcess
  <2>3. AtMostOnce'
    BY <2>1 DEF IInv, Journal, AtMostOnce, Overtaken, SameProcess
  <2> QED BY <2>2, <2>3
<1>5. KeysHold'
  <2> SUFFICES ASSUME NEW g \in Hosts, phase'[g] = "reading"
               PROVE  /\ Len(keys'[g]) <= ReplayLimit
                      /\ \A x \in 1..Len(accepted) :
                            Knows(Reader(g), by, x)' => Holds(KeysOf(g), x)'
    BY <1>1 DEF KeysHold
  <2>1. CASE g = h
    <3>1. KeysOf(g)' = replayFile /\ keys'[g] = replayFile
      BY <1>1, <1>2, <1>3, <2>1 DEF KeysOf
    <3>2. Reader(g)' = [host |-> h, loaded |-> Len(by)]
      BY <1>1, <1>2, <2>1 DEF Reader
    <3>3. ASSUME NEW x \in 1..Len(accepted), Knows(Reader(g), by, x)'
          PROVE  Holds(KeysOf(g), x)'
      <4>1. Knows([host |-> h, loaded |-> Len(by)], by, x)
        BY <1>1, <3>2, <3>3 DEF Knows, Overtaken, SameProcess
      <4>2. ~Overtaken(by, x, Len(by))
        BY <1>2, <4>1, ReadsWhatIsThere DEF IInv, Journal
      <4>3. Holds(replayFile, x)
        BY <1>2, <4>2 DEF IInv, Journal, FileHolds
      <4> QED BY <1>1, <3>1, <4>3 DEF Holds
    <3> QED BY <3>1, <3>3 DEF IInv, Journal, FileHolds
  <2>2. CASE g # h
    <3>1. phase[g] = "reading" /\ keys'[g] = keys[g] /\ loaded'[g] = loaded[g]
      BY <1>1, <1>2, <2>2
    <3>2. KeysOf(g)' = KeysOf(g)
      BY <1>1, <3>1 DEF KeysOf
    <3>3. \A x \in 1..Len(accepted) : Knows(Reader(g), by, x)' <=> Knows(Reader(g), by, x)
      BY <1>1, <3>1 DEF Knows, Reader, Overtaken, SameProcess
    <3> QED BY <1>1, <3>1, <3>2, <3>3 DEF IInv, Journal, KeysHold, Holds
  <2> QED BY <2>1, <2>2
<1>6. StoresNew' /\ StoredLast'
  <2>1. \A g \in Hosts : phase'[g] = "reading" /\ step'[g].at # "idle" =>
            phase[g] = "reading" /\ keys'[g] = keys[g] /\ loaded'[g] = loaded[g]
    BY <1>1, <1>2, <1>3
  <2> QED BY <1>1, <2>1
          DEF IInv, Journal, StoresNew, StoredLast, Awaits, Reader, SameProcess
<1> QED BY <1>4, <1>5, <1>6 DEF Journal

\* A new key reaches the disk: what its process knows stays in the journal,
\* and what it does not know has been overtaken.
LEMMA JournalGrows ==
    ASSUME IInv, NEW h \in Hosts, SaveKey(h)
    PROVE  Journal'
<1>0. PICK m, n, e, new :
         /\ m = step[h].of
         /\ n = Len(accepted)
         /\ e = [host |-> h, loaded |-> loaded[h]]
         /\ new = Recorded(keys[h], m)
  OBVIOUS
<1>1. /\ phase[h] = "reading" /\ step[h].at = "storing"
      /\ replayFile' = new
      /\ accepted' = Append(accepted, m)
      /\ by' = Append(by, e)
      /\ step' = [step EXCEPT ![h] = [at |-> "stored", of |-> n + 1]]
      /\ UNCHANGED <<phase, keys, ran, loaded>>
  BY <1>0 DEF SaveKey, Awaits
<1>2. /\ keys \in [Hosts -> Seq(Messages)] /\ accepted \in Seq(Messages)
      /\ step \in [Hosts -> Steps] /\ ran \in Seq(1..n)
      /\ by \in Seq(Entry) /\ Len(by) = n /\ n \in Nat
      /\ loaded \in [Hosts -> 0..n] /\ ReplayLimit \in Nat \ {0}
  BY <1>0, ParametersAssumption DEF IInv, TypeOK, MessagesOK, Entry
<1>3. m \in Messages /\ e \in Entry
  <2>1. step[h] \in Steps /\ loaded[h] \in Nat
    BY <1>2
  <2>2. m \in Messages
    BY <1>0, <1>1, <2>1, StepKinds
  <2> QED BY <1>0, <2>1, <2>2 DEF Entry
<1>4. Len(keys[h]) <= ReplayLimit /\ KeysOf(h) = keys[h]
  BY <1>0, <1>1 DEF IInv, Journal, KeysHold, KeysOf
<1>5. /\ Len(accepted') = n + 1 /\ accepted'[n + 1] = m
      /\ \A x \in 1..n : accepted'[x] = accepted[x]
      /\ Len(by') = n + 1 /\ by'[n + 1] = e
      /\ \A x \in 1..n : by'[x] = by[x]
  BY <1>0, <1>1, <1>2, <1>3
<1>6. /\ new \in Seq(Messages) /\ Len(new) <= ReplayLimit
      /\ Len(new) > 0 /\ new[Len(new)] = m
  <2>1. keys[h] \in Seq(Messages) /\ Len(keys[h]) \in Nat
    BY <1>2
  <2>2. /\ new \in Seq(Messages) /\ new[Len(new)] = m
        /\ Len(new) = (IF Len(keys[h]) < ReplayLimit THEN Len(keys[h]) + 1 ELSE ReplayLimit)
    BY <1>0, <1>3, <1>4, <2>1, RecordedKeys
  <2> QED BY <1>2, <1>4, <2>1, <2>2
<1>7. ASSUME NEW x \in 1..n, Knows(Reader(h), by, x) PROVE Holds(new, x)'
  <2>1. Holds(keys[h], x)
    BY <1>0, <1>1, <1>4, <1>7 DEF IInv, Journal, KeysHold
  <2> QED BY <1>0, <1>1, <1>2, <1>3, <1>4, <2>1, RecordedHolds DEF Holds
<1>8. Holds(new, n + 1)'
  <2>1. Len(new) \in 1..Len(new)
    BY <1>0, <1>2, <1>6
  <2> QED BY <1>0, <1>2, <1>5, <1>6, <2>1 DEF Holds
<1>9. ASSUME NEW x \in 1..n, ~Overtaken(by, x, n + 1)' PROVE Knows(Reader(h), by, x)
  <2>1. /\ Reader(h).host = e.host /\ Reader(h).loaded = e.loaded
        /\ e.loaded \in 0..Len(by) /\ x \in 1..Len(by)
    BY <1>0, <1>2 DEF Reader
  <2>2. ~Overtaken(Append(by, e), x, Len(by) + 1)
    BY <1>0, <1>1, <1>2, <1>9 DEF Overtaken
  <2> QED BY <1>0, <1>2, <1>3, <2>1, <2>2, WriterKnows
<1>10. \A x \in 1..n, y \in 0..n : Overtaken(by, x, y)' <=> Overtaken(by, x, y)
  <2>1. \A x \in 1..n, y \in 0..n :
            Overtaken(Append(by, e), x, y) <=> Overtaken(by, x, y)
    BY <1>0, <1>2, <1>3, LogGrows
  <2> QED BY <1>0, <1>1, <2>1 DEF Overtaken
<1>11. ReadBefore(by)'
  <2>1. by'[n + 1].loaded < n + 1
    BY <1>0, <1>2, <1>5
  <2>2. \A x \in 1..n : by'[x].loaded < x
    BY <1>2, <1>5 DEF IInv, Journal, ReadBefore
  <2>3. \A x \in 1..Len(by') : x \in 1..n \/ x = n + 1
    BY <1>2, <1>5
  <2> QED BY <2>1, <2>2, <2>3 DEF ReadBefore
<1>12. FileHolds'
  <2>1. ASSUME NEW x \in 1..(n + 1), ~Overtaken(by, x, n + 1)' PROVE Holds(new, x)'
    <3>1. CASE x = n + 1
      BY <1>8, <3>1
    <3>2. CASE x \in 1..n
      BY <1>7, <1>9, <2>1, <3>2
    <3> QED BY <1>0, <1>2, <3>1, <3>2
  <2>2. Len(replayFile') <= ReplayLimit /\ replayFile' = new
    BY <1>0, <1>1, <1>6
  <2>3. \A x \in 1..(n + 1) : ~Overtaken(by, x, n + 1)' => Holds(replayFile, x)'
    BY <2>1, <2>2 DEF Holds
  <2> QED BY <1>0, <1>5, <2>2, <2>3 DEF FileHolds, Overtaken
<1>13. step'[h] = [at |-> "stored", of |-> n + 1] /\ \A g \in Hosts \ {h} : step'[g] = step[g]
  BY <1>0, <1>1, <1>2
<1>14. KeysOf(h)' = new
  BY <1>0, <1>1, <1>5, <1>13 DEF KeysOf
<1>15. ASSUME NEW g \in Hosts, NEW x \in 1..(n + 1), Knows(Reader(g), by, x)'
       PROVE  \/ x \in 1..n /\ Knows(Reader(g), by, x)
              \/ x = n + 1 /\ g = h
  <2>1. Reader(g)' = Reader(g) /\ Reader(g).loaded \in 0..Len(by) /\ x \in 1..(Len(by) + 1)
    BY <1>0, <1>1, <1>2 DEF Reader
  <2>2. Knows(Reader(g), Append(by, e), x)
    BY <1>0, <1>1, <1>15, <2>1 DEF Knows, Overtaken, SameProcess
  <2>3. \/ x \in 1..Len(by) /\ Knows(Reader(g), by, x)
        \/ x = Len(by) + 1 /\ SameProcess(e, Reader(g))
    BY <1>0, <1>2, <1>3, <2>1, <2>2, KnowsNoMore
  <2> QED BY <1>0, <1>2, <2>3 DEF SameProcess, Reader
<1>16. KeysHold'
  <2> SUFFICES ASSUME NEW g \in Hosts, phase'[g] = "reading",
                      NEW x \in 1..(n + 1), Knows(Reader(g), by, x)'
               PROVE  Holds(KeysOf(g), x)'
    BY <1>0, <1>1, <1>5 DEF IInv, Journal, KeysHold
  <2>1. CASE g = h
    <3>1. Holds(new, x)'
      BY <1>7, <1>8, <1>15, <2>1
    <3> QED BY <1>14, <2>1, <3>1 DEF Holds
  <2>2. CASE g # h
    <3>1. x \in 1..n /\ Knows(Reader(g), by, x) /\ phase[g] = "reading"
      BY <1>0, <1>1, <1>15, <2>2
    <3>2. Holds(KeysOf(g), x)
      BY <1>0, <3>1 DEF IInv, Journal, KeysHold
    <3>3. KeysOf(g)' = KeysOf(g)
      <4>1. keys'[g] = keys[g] /\ step'[g] = step[g]
        BY <1>0, <1>1, <1>13, <2>2
      <4>2. Awaits(g, "stored") => accepted'[step[g].of] = accepted[step[g].of]
        BY <1>0, <1>5 DEF IInv, Journal, StoredLast
      <4> QED BY <3>1, <4>1, <4>2 DEF KeysOf, Awaits
    <3>4. accepted'[x] = accepted[x] /\ Len(accepted') = Len(accepted) + 1
      BY <1>0, <1>5, <3>1
    <3>5. ASSUME Len(accepted') - x < ReplayLimit
          PROVE  \E i \in 1..Len(KeysOf(g)) :
                    /\ KeysOf(g)[i] = accepted'[x]
                    /\ Len(KeysOf(g)) - i <= Len(accepted') - x
      <4>1. Len(accepted) - x < ReplayLimit
        BY <1>0, <1>2, <3>1, <3>4, <3>5
      <4>2. PICK i \in 1..Len(KeysOf(g)) :
               KeysOf(g)[i] = accepted[x] /\ Len(KeysOf(g)) - i <= Len(accepted) - x
        BY <3>2, <4>1 DEF Holds
      <4>3. Len(KeysOf(g)) \in Nat
        <5>1. /\ keys[g] \in Seq(Messages) /\ Len(keys[g]) <= ReplayLimit
              /\ Awaits(g, "stored") => accepted[step[g].of] \in Messages
          BY <1>0, <1>2, <3>1 DEF IInv, Journal, KeysHold, StoredLast
        <5>2. KeysOf(g) \in Seq(Messages)
          BY <3>1, <5>1, RecordedKeys DEF KeysOf, Awaits
        <5> QED BY <5>2
      <4>4. Len(KeysOf(g)) - i <= Len(accepted') - x
        BY <1>0, <1>2, <3>1, <3>4, <4>2, <4>3
      <4> QED BY <3>4, <4>2, <4>4
    <3> QED BY <3>3, <3>5 DEF Holds
  <2> QED BY <2>1, <2>2
<1>17. StoresNew'
  BY <1>0, <1>1, <1>13 DEF IInv, Journal, StoresNew, Awaits
<1>18. StoredLast'
  <2> SUFFICES ASSUME NEW g \in Hosts, Awaits(g, "stored")'
               PROVE  /\ step'[g].of \in 1..(n + 1)
                      /\ by'[step'[g].of] = Reader(g)'
                      /\ \A i \in 1..Len(ran) : ran[i] # step'[g].of
                      /\ \A x \in 1..(n + 1) :
                            SameProcess(by[x], Reader(g))' => x <= step'[g].of
    BY <1>0, <1>1, <1>5 DEF StoredLast
  <2>1. CASE g = h
    <3>1. step'[g].of = n + 1 /\ by'[n + 1] = Reader(g)'
      BY <1>0, <1>1, <1>5, <1>13, <2>1 DEF Reader
    <3>2. \A i \in 1..Len(ran) : ran[i] \in 1..n
      BY <1>0, <1>2
    <3> QED BY <1>0, <1>2, <3>1, <3>2
  <2>2. CASE g # h
    <3>1. Awaits(g, "stored") /\ step'[g] = step[g] /\ Reader(g)' = Reader(g)
      BY <1>0, <1>1, <1>13, <2>2 DEF Awaits, Reader
    <3>2. /\ step[g].of \in 1..n
          /\ by[step[g].of] = Reader(g)
          /\ \A i \in 1..Len(ran) : ran[i] # step[g].of
          /\ \A x \in 1..n : SameProcess(by[x], Reader(g)) => x <= step[g].of
      BY <1>0, <3>1 DEF IInv, Journal, StoredLast
    <3>3. ~SameProcess(by[n + 1], Reader(g))'
      BY <1>0, <1>5, <2>2, <3>1 DEF SameProcess, Reader
    <3>4. \A x \in 1..n : SameProcess(by[x], Reader(g))' <=> SameProcess(by[x], Reader(g))
      BY <1>0, <1>5, <3>1 DEF SameProcess
    <3>5. step'[g].of \in 1..(n + 1) /\ by'[step'[g].of] = Reader(g)'
      BY <1>0, <1>2, <1>5, <3>1, <3>2
    <3>6. \A x \in 1..(n + 1) : SameProcess(by[x], Reader(g))' => x <= step'[g].of
      <4>1. \A x \in 1..(n + 1) : x \in 1..n \/ x = n + 1
        BY <1>0, <1>2
      <4> QED BY <3>1, <3>2, <3>3, <3>4, <4>1
    <3> QED BY <3>1, <3>2, <3>5, <3>6
  <2> QED BY <2>1, <2>2
<1>19. AtMostOnce'
  <2>1. \A i \in 1..Len(ran) : ran[i] \in 1..n
    BY <1>0, <1>2
  <2>2. ASSUME NEW i \in 1..Len(ran'), NEW j \in 1..Len(ran'), i < j
        PROVE  /\ ran'[i] # ran'[j]
               /\ SameProcess(by[ran[i]], by[ran[j]])' => ran'[i] < ran'[j]
    BY <1>0, <1>1, <1>5, <2>1, <2>2 DEF IInv, Journal, AtMostOnce, SameProcess
  <2>3. ASSUME NEW x \in 1..Len(accepted'), NEW y \in 1..Len(accepted'), x < y,
               accepted'[x] = accepted'[y], y - x <= ReplayLimit
        PROVE  ~SameProcess(by[x], by[y])' /\ Overtaken(by, x, y)'
    <3>1. x \in 1..n
      BY <1>0, <1>2, <1>5, <2>3
    <3>2. CASE y \in 1..n
      <4>1. ~SameProcess(by[x], by[y]) /\ Overtaken(by, x, y)
        BY <1>0, <1>5, <2>3, <3>1, <3>2 DEF IInv, Journal, AtMostOnce
      <4> QED BY <1>0, <1>2, <1>5, <1>10, <3>1, <3>2, <4>1 DEF SameProcess
    <3>3. CASE y = n + 1
      <4>1. ASSUME Knows(Reader(h), by, x) PROVE FALSE
        <5>1. Holds(keys[h], x) /\ Len(accepted) - x < ReplayLimit /\ accepted[x] = m
          BY <1>0, <1>1, <1>2, <1>4, <1>5, <2>3, <3>1, <3>3, <4>1
             DEF IInv, Journal, KeysHold
        <5>2. \A i \in 1..Len(keys[h]) : keys[h][i] # m
          BY <1>0, <1>1 DEF IInv, Journal, StoresNew, Awaits
        <5> QED BY <5>1, <5>2 DEF Holds
      <4>2. Overtaken(by, x, n + 1)'
        BY <1>9, <3>1, <4>1
      <4>3. ~SameProcess(by[x], Reader(h))
        BY <4>1 DEF Knows
      <4> QED BY <1>0, <1>5, <3>1, <3>3, <4>2, <4>3 DEF SameProcess, Reader, Overtaken
    <3> QED BY <1>0, <1>2, <1>5, <3>2, <3>3
  <2> QED BY <2>2, <2>3 DEF AtMostOnce
<1> QED BY <1>11, <1>12, <1>16, <1>17, <1>18, <1>19 DEF Journal

\* After the save the copy in memory catches up, and a request is called, the
\* last of those its process has called.
LEMMA JournalAccepts ==
    ASSUME IInv, NEW h \in Hosts, NEW x \in 1..Len(accepted), Accepts(h, x),
           UNCHANGED <<replayFile, phase, accepted, by, loaded>>,
           ran' = ran \/ ran' = Append(ran, x)
    PROVE  Journal'
<1>1. /\ Awaits(h, "stored") /\ phase[h] = "reading" /\ step[h].at = "stored"
      /\ step[h].of = x
      /\ keys' = [keys EXCEPT ![h] = Recorded(keys[h], accepted[x])]
      /\ step' = [step EXCEPT ![h] = Idle]
  BY DEF Accepts, Awaits
<1>2. /\ keys \in [Hosts -> Seq(Messages)] /\ accepted \in Seq(Messages)
      /\ step \in [Hosts -> Steps] /\ ran \in Seq(1..Len(accepted))
      /\ Len(accepted) \in Nat /\ ReplayLimit \in Nat \ {0}
  BY ParametersAssumption DEF IInv, TypeOK, MessagesOK
<1>3. /\ keys'[h] = KeysOf(h) /\ KeysOf(h)' = KeysOf(h) /\ step'[h].at = "idle"
      /\ \A g \in Hosts \ {h} : keys'[g] = keys[g] /\ step'[g] = step[g]
  BY <1>1, <1>2 DEF KeysOf, Idle
<1>4. Len(keys'[h]) <= ReplayLimit
  <2>1. Len(keys[h]) <= ReplayLimit /\ accepted[x] \in Messages
    BY <1>1, <1>2 DEF IInv, Journal, KeysHold
  <2>2. Len(Recorded(keys[h], accepted[x])) <= ReplayLimit
    BY <1>2, <2>1, RecordedKeys
  <2> QED BY <1>1, <1>2, <2>2
<1>5. ReadBefore(by)' /\ FileHolds'
  BY DEF IInv, Journal, ReadBefore, FileHolds, Holds, Overtaken, SameProcess
<1>6. KeysHold'
  <2> SUFFICES ASSUME NEW g \in Hosts, phase[g] = "reading"
               PROVE  /\ Len(keys'[g]) <= ReplayLimit
                      /\ \A y \in 1..Len(accepted) :
                            Knows(Reader(g), by, y)' => Holds(KeysOf(g), y)'
    BY DEF KeysHold
  <2>1. Len(keys'[g]) <= ReplayLimit
    BY <1>3, <1>4 DEF IInv, Journal, KeysHold
  <2>2. KeysOf(g)' = KeysOf(g)
    BY <1>3 DEF KeysOf
  <2>3. \A y \in 1..Len(accepted) : Knows(Reader(g), by, y)' <=> Knows(Reader(g), by, y)
    BY DEF Knows, Reader, Overtaken, SameProcess
  <2> QED BY <2>1, <2>2, <2>3 DEF IInv, Journal, KeysHold, Holds
<1>7. StoresNew'
  BY <1>3 DEF IInv, Journal, StoresNew, Awaits
<1>8. /\ by[x] = Reader(h)
      /\ \A i \in 1..Len(ran) : ran[i] # x
      /\ \A y \in 1..Len(accepted) : SameProcess(by[y], Reader(h)) => y <= x
  BY <1>1 DEF IInv, Journal, StoredLast
<1>9. /\ Len(ran') \in Nat
      /\ \A i \in 1..Len(ran') :
            \/ i \in 1..Len(ran) /\ ran'[i] = ran[i]
            \/ i = Len(ran) + 1 /\ ran'[i] = x
      /\ Len(ran) \in Nat
  <2>1. CASE ran' = ran
    BY <1>2, <2>1
  <2>2. CASE ran' = Append(ran, x)
    <3>1. /\ Len(ran) \in Nat /\ Len(ran') = Len(ran) + 1
          /\ ran'[Len(ran) + 1] = x
          /\ \A i \in 1..Len(ran) : ran'[i] = ran[i]
      BY <1>2, <2>2
    <3> QED BY <3>1
  <2> QED BY <2>1, <2>2
<1>10. StoredLast'
  <2> SUFFICES ASSUME NEW g \in Hosts, Awaits(g, "stored")'
               PROVE  /\ step'[g].of \in 1..Len(accepted)
                      /\ by[step'[g].of] = Reader(g)'
                      /\ \A i \in 1..Len(ran') : ran'[i] # step'[g].of
                      /\ \A y \in 1..Len(accepted) :
                            SameProcess(by[y], Reader(g))' => y <= step'[g].of
    BY DEF StoredLast
  <2>1. g # h /\ Awaits(g, "stored") /\ step'[g] = step[g] /\ Reader(g)' = Reader(g)
    BY <1>3 DEF Awaits, Reader
  <2>2. /\ step[g].of \in 1..Len(accepted)
        /\ by[step[g].of] = Reader(g)
        /\ \A i \in 1..Len(ran) : ran[i] # step[g].of
        /\ \A y \in 1..Len(accepted) : SameProcess(by[y], Reader(g)) => y <= step[g].of
    BY <2>1 DEF IInv, Journal, StoredLast
  <2>3. step[g].of # x
    BY <1>8, <2>1, <2>2 DEF Reader
  <2> QED BY <1>9, <2>1, <2>2, <2>3 DEF SameProcess
<1>11. AtMostOnce'
  <2>1. ASSUME NEW i \in 1..Len(ran'), NEW j \in 1..Len(ran'), i < j
        PROVE  /\ ran'[i] # ran'[j]
               /\ SameProcess(by[ran[i]], by[ran[j]])' => ran'[i] < ran'[j]
    <3>1. i \in 1..Len(ran) /\ ran'[i] = ran[i] /\ ran[i] \in 1..Len(accepted)
      BY <1>2, <1>9, <2>1
    <3>2. CASE j \in 1..Len(ran) /\ ran'[j] = ran[j]
      BY <2>1, <3>1, <3>2 DEF IInv, Journal, AtMostOnce, SameProcess
    <3>3. CASE j = Len(ran) + 1 /\ ran'[j] = x
      <4>1. ran[i] # x
        BY <1>8, <3>1
      <4>2. ASSUME SameProcess(by[ran[i]], by[x]) PROVE ran[i] < x
        BY <1>2, <1>8, <3>1, <4>1, <4>2
      <4> QED BY <3>1, <3>3, <4>1, <4>2 DEF SameProcess
    <3> QED BY <1>9, <3>2, <3>3
  <2>2. \A y, z \in 1..Len(accepted) :
            y < z /\ accepted[y] = accepted[z] /\ z - y <= ReplayLimit =>
                ~SameProcess(by[y], by[z])' /\ Overtaken(by, y, z)'
    BY DEF IInv, Journal, AtMostOnce, SameProcess, Overtaken
  <2> QED BY <2>1, <2>2 DEF AtMostOnce
<1> QED BY <1>5, <1>6, <1>7, <1>10, <1>11 DEF Journal

LEMMA JournalStep ==
    ASSUME IInv, [Next]_vars
    PROVE  Journal'
<1> USE DEF TypeOK, IInv
<1>1. ASSUME NEW h \in Hosts, LoadJournal(h) PROVE Journal'
  BY <1>1, JournalLoaded
<1>2. ASSUME NEW h \in Hosts,
             \/ Start(h) \/ EndOfInput(h) \/ Fail(h) \/ Crash(h) \/ Exit(h)
             \/ \E x \in 1..Len(accepted) : RefuseCancel(h, x)
      PROVE  Journal'
  <2>1. UNCHANGED <<replayFile, accepted, ran, by>>
    BY <1>2 DEF Start, EndOfInput, Fail, Crash, Exit, RefuseCancel, LeavesLoop, disk, log, past
  <2>2. \A g \in Hosts : phase'[g] = "reading" =>
            /\ phase[g] = "reading" /\ step'[g] = step[g]
            /\ keys'[g] = keys[g] /\ loaded'[g] = loaded[g]
    BY <1>2 DEF Start, EndOfInput, Fail, Crash, Exit, RefuseCancel, LeavesLoop, past, MessagesOK
  <2> QED BY <2>1, <2>2, JournalQuiet
<1>3. ASSUME NEW h \in Hosts,
             \/ SavePairing(h) \/ AnswerPaired(h)
             \/ \E install \in Installs : HelloPairs(h, install)
      PROVE  Journal'
  <2>1. UNCHANGED <<replayFile, accepted, ran, by, phase, keys, loaded>>
    BY <1>3 DEF SavePairing, AnswerPaired, HelloPairs, disk, log, past
  <2>2. /\ step[h].at # "stored" /\ step'[h].at \notin {"storing", "stored"}
        /\ \A g \in Hosts \ {h} : step'[g] = step[g]
    <3>1. CASE SavePairing(h)
      BY <3>1, StepKinds DEF SavePairing, Awaits, MessagesOK
    <3>2. CASE AnswerPaired(h)
      BY <3>2 DEF AnswerPaired, Awaits, Idle, MessagesOK
    <3>3. CASE \E install \in Installs : HelloPairs(h, install)
      BY <3>3 DEF HelloPairs, Awaits, MessagesOK
    <3> QED BY <1>3, <3>1, <3>2, <3>3
  <2> QED BY <2>1, <2>2, JournalQuiet
<1>4. ASSUME NEW h \in Hosts,
             \/ \E x \in pending[h] : Finish(h, x)
             \/ \E install \in Installs, id \in DOMAIN registry[h] :
                   HelloResumes(h, install, id)
      PROVE  Journal'
  <2>1. UNCHANGED <<replayFile, accepted, ran, by, phase, keys, loaded, step>>
    BY <1>4 DEF Finish, HelloResumes, disk, log, past
  <2> QED BY <2>1, JournalQuiet
<1>5. ASSUME NEW h \in Hosts, NEW m \in Messages, Reserve(h, m) PROVE Journal'
  <2>1. /\ UNCHANGED <<replayFile, accepted, ran, by, phase, keys, loaded>>
        /\ step' = [step EXCEPT ![h] = [at |-> "storing", of |-> m]]
        /\ step[h].at = "idle"
        /\ \A i \in 1..Len(keys[h]) : keys[h][i] # m
    BY <1>5 DEF Reserve, Awaits, disk, log, past
  <2>2. /\ step'[h].at = "storing" /\ step'[h].of = m
        /\ \A g \in Hosts \ {h} : step'[g] = step[g]
    BY <2>1 DEF MessagesOK
  <2> QED BY <2>1, <2>2, JournalQuiet
<1>6. ASSUME NEW h \in Hosts, SaveKey(h) PROVE Journal'
  BY <1>6, JournalGrows
<1>7. ASSUME NEW h \in Hosts, NEW x \in 1..Len(accepted),
             RunRequest(h, x) \/ SkipRequest(h, x) \/ CancelRequest(h, x)
      PROVE  Journal'
  <2>1. /\ Accepts(h, x) /\ UNCHANGED <<replayFile, phase, accepted, by, loaded>>
        /\ ran' = ran \/ ran' = Append(ran, x)
    BY <1>7 DEF RunRequest, SkipRequest, CancelRequest, disk, log, past
  <2> QED BY <2>1, JournalAccepts
<1>8. CASE UNCHANGED vars
  BY <1>8, JournalQuiet DEF vars
<1> QED BY <1>1, <1>2, <1>3, <1>4, <1>5, <1>6, <1>7, <1>8 DEF Next

-----------------------------------------------------------------------------
(***************************************************************************)
(* The pairing records                                                     *)
(***************************************************************************)
\* What a process recalls after a step that leaves file and saves alone.
LEMMA SameKeeper ==
    ASSUME UNCHANGED saves, NEW g \in Hosts, seen'[g] = seen[g]
    PROVE  /\ \A x : Knows(Keeper(g), saves, x)' <=> Knows(Keeper(g), saves, x)
           /\ OthersSaved(g)' <=> OthersSaved(g)
BY DEF Knows, Keeper, Overtaken, SameProcess, OthersSaved

\* Steps that leave file, records and promises alone.
LEMMA PairingsQuiet ==
    ASSUME IInv, UNCHANGED <<pairingFile, told, saves>>,
           \A g \in Hosts : Holding(g)' =>
               /\ Holding(g)
               /\ registry'[g] = registry[g] /\ seen'[g] = seen[g]
               /\ activePairing'[g] = activePairing[g]
               /\ \/ phase'[g] = phase[g] /\ step'[g] = step[g]
                  \/ /\ step[g].at \notin {"pairing", "paired"}
                     /\ step'[g].at \notin {"pairing", "paired"}
    PROVE  Pairings'
<1>1. ReadBefore(saves)' /\ FileRecalls' /\ ToldSaved' /\ OneInstallation'
  BY DEF IInv, Pairings, ReadBefore, FileRecalls, Recalls, ToldSaved, OneInstallation,
         ActiveTogether, Overtaken, SameProcess
<1>2. RegistryRecalls'
  BY SameKeeper DEF IInv, Pairings, RegistryRecalls, Recalls
<1>3. RegistryFollows'
  <2> SUFFICES ASSUME NEW g \in Hosts, Holding(g)'
               PROVE  /\ ActiveTogether(registry[g])'
                      /\ ~OthersSaved(g)' /\ step'[g].at # "pairing"
                            => registry'[g] = pairingFile'
                      /\ activePairing'[g] # NoPairing =>
                            /\ activePairing'[g] \in DOMAIN registry'[g]
                            /\ registry'[g][activePairing'[g]].status = "active"
    BY DEF RegistryFollows
  <2>1. /\ Holding(g) /\ UNCHANGED <<registry[g], seen[g], activePairing[g]>>
        /\ step'[g].at # "pairing" => step[g].at # "pairing"
    OBVIOUS
  <2>2. OthersSaved(g)' <=> OthersSaved(g)
    BY <2>1, SameKeeper
  <2> QED BY <2>1, <2>2 DEF IInv, Pairings, RegistryFollows, ActiveTogether
<1>4. PairingUnderWay'
  BY DEF IInv, Pairings, PairingUnderWay, Holding
<1> QED BY <1>1, <1>2, <1>3, <1>4 DEF Pairings

\* A process reads what the file holds.
LEMMA PairingsRead ==
    ASSUME IInv, NEW h \in Hosts, Start(h)
    PROVE  Pairings'
<1>1. /\ phase[h] = "off" /\ phase' = [phase EXCEPT ![h] = "loading"]
      /\ registry' = [registry EXCEPT ![h] = pairingFile]
      /\ seen' = [seen EXCEPT ![h] = Len(saves)]
      /\ UNCHANGED <<pairingFile, told, step, activePairing, saves>>
  BY DEF Start, disk
<1>2. /\ phase \in [Hosts -> {"off", "loading", "reading", "draining", "failing"}]
      /\ DOMAIN registry = Hosts /\ DOMAIN seen = Hosts /\ Len(saves) \in Nat
      /\ saves \in Seq([host : Hosts, loaded : Nat, id : Nat, install : Installs])
  BY DEF IInv, TypeOK, MessagesOK, PairingsOK
<1>3. step[h].at = "idle" /\ activePairing[h] = NoPairing
  BY <1>1 DEF IInv, Blank, Idle
<1>4. /\ phase'[h] = "loading" /\ registry'[h] = pairingFile /\ seen'[h] = Len(saves)
      /\ \A g \in Hosts \ {h} :
            phase'[g] = phase[g] /\ registry'[g] = registry[g] /\ seen'[g] = seen[g]
  BY <1>1, <1>2
<1>5. ReadBefore(saves)' /\ FileRecalls' /\ ToldSaved' /\ OneInstallation'
  <2>1. UNCHANGED <<pairingFile, saves, told>>
    BY <1>1
  <2> QED BY <2>1 DEF IInv, Pairings, ReadBefore, FileRecalls, Recalls, ToldSaved,
                      OneInstallation, ActiveTogether, Overtaken, SameProcess
<1>6. RegistryRecalls'
  <2> SUFFICES ASSUME NEW g \in Hosts, Holding(g)', NEW x \in 1..Len(saves),
                      Knows(Keeper(g), saves, x)'
               PROVE  Recalls(registry'[g], saves[x])
    BY <1>1 DEF RegistryRecalls, Recalls
  <2>1. CASE g = h
    <3>1. Knows([host |-> h, loaded |-> Len(saves)], saves, x)
      BY <1>1, <1>4, <2>1 DEF Knows, Keeper, Overtaken, SameProcess
    <3>2. ~Overtaken(saves, x, Len(saves))
      BY <1>2, <3>1, ReadsWhatIsThere DEF IInv, Pairings
    <3> QED BY <1>4, <2>1, <3>2 DEF IInv, Pairings, FileRecalls
  <2>2. CASE g # h
    <3>1. Holding(g) /\ registry'[g] = registry[g] /\ Knows(Keeper(g), saves, x)
      BY <1>1, <1>4, <2>2, SameKeeper DEF Holding
    <3> QED BY <3>1 DEF IInv, Pairings, RegistryRecalls
  <2> QED BY <2>1, <2>2
<1>7. RegistryFollows'
  <2>1. /\ ActiveTogether(registry[h])' /\ registry'[h] = pairingFile'
        /\ activePairing'[h] = NoPairing
    BY <1>1, <1>3, <1>4 DEF IInv, Pairings, OneInstallation, ActiveTogether
  <2>2. ASSUME NEW g \in Hosts \ {h}
        PROVE  /\ Holding(g)' <=> Holding(g)
               /\ OthersSaved(g)' <=> OthersSaved(g)
               /\ UNCHANGED <<registry[g], activePairing[g], step[g]>>
    BY <1>1, <1>4, SameKeeper DEF Holding
  <2> QED BY <1>1, <2>1, <2>2 DEF IInv, Pairings, RegistryFollows, ActiveTogether
<1>8. PairingUnderWay'
  BY <1>1, <1>4 DEF IInv, Pairings, PairingUnderWay
<1> QED BY <1>5, <1>6, <1>7, <1>8 DEF Pairings

\* A new pairing leaves one installation active, in memory first.
LEMMA PairingBegins ==
    ASSUME IInv, NEW h \in Hosts, NEW install \in Installs, HelloPairs(h, install)
    PROVE  Pairings'
<1> DEFINE w == WithPairing(Displaced(registry[h], install), install, drawn + 1)
<1>0. /\ DOMAIN w = DOMAIN registry[h] \cup {drawn + 1}
      /\ w[drawn + 1] = [install |-> install, status |-> "active"]
      /\ \A p \in DOMAIN registry[h] :
            /\ w[p].install = registry[h][p].install
            /\ w[p].status = "active" => registry[h][p].install = install
  <2>1. drawn \in Nat /\ IsRegistry(registry[h])
    BY DEF IInv, TypeOK, PairingsOK
  <2> QED BY <2>1, PairedRegistry
<1> HIDE DEF w
<1>1. PICK new : new = w
  OBVIOUS
<1>2. /\ phase[h] = "reading" /\ step[h].at = "idle" /\ activePairing[h] = NoPairing
      /\ registry' = [registry EXCEPT ![h] = new]
      /\ step' = [step EXCEPT ![h] = [at |-> "pairing", of |-> drawn + 1]]
      /\ UNCHANGED <<pairingFile, phase, activePairing, told, seen, saves>>
  BY <1>1 DEF HelloPairs, Awaits, disk, past, w
<1>3. drawn \in Nat /\ IsRegistry(registry[h]) /\ DOMAIN registry = Hosts
      /\ DOMAIN step = Hosts
  BY DEF IInv, TypeOK, PairingsOK, MessagesOK
<1>4. /\ DOMAIN new = DOMAIN registry[h] \cup {drawn + 1}
      /\ new[drawn + 1] = [install |-> install, status |-> "active"]
      /\ \A p \in DOMAIN registry[h] :
            /\ new[p].install = registry[h][p].install
            /\ new[p].status = "active" => registry[h][p].install = install
  BY <1>0, <1>1
<1>5. ActiveTogether(new)
  <2>1. \A p \in DOMAIN new : new[p].status = "active" => new[p].install = install
    BY <1>4
  <2> QED BY <2>1 DEF ActiveTogether
<1>6. /\ step'[h].at = "pairing" /\ step'[h].of = drawn + 1 /\ registry'[h] = new
      /\ \A g \in Hosts \ {h} : step'[g] = step[g] /\ registry'[g] = registry[g]
  BY <1>2, <1>3
<1>7. \A g \in Hosts :
         /\ Holding(g)' <=> Holding(g)
         /\ OthersSaved(g)' <=> OthersSaved(g)
         /\ \A x : Knows(Keeper(g), saves, x)' <=> Knows(Keeper(g), saves, x)
  BY <1>2, SameKeeper DEF Holding
<1>8. ReadBefore(saves)' /\ FileRecalls' /\ ToldSaved' /\ OneInstallation'
  <2>1. UNCHANGED <<pairingFile, saves, told>>
    BY <1>2
  <2> QED BY <2>1 DEF IInv, Pairings, ReadBefore, FileRecalls, Recalls, ToldSaved,
                      OneInstallation, ActiveTogether, Overtaken, SameProcess
<1>9. RegistryRecalls'
  <2> SUFFICES ASSUME NEW g \in Hosts, Holding(g), NEW x \in 1..Len(saves),
                      Knows(Keeper(g), saves, x)
               PROVE  Recalls(registry'[g], saves[x])
    BY <1>2, <1>7 DEF RegistryRecalls, Recalls
  <2>1. Recalls(registry[g], saves[x])
    BY DEF IInv, Pairings, RegistryRecalls
  <2> QED BY <1>4, <1>6, <2>1 DEF Recalls
<1>10. RegistryFollows'
  <2>1. ASSUME NEW g \in Hosts \ {h}, Holding(g)
        PROVE  /\ ActiveTogether(registry[g])
               /\ ~OthersSaved(g) /\ step[g].at # "pairing" => registry[g] = pairingFile
               /\ activePairing[g] # NoPairing =>
                     /\ activePairing[g] \in DOMAIN registry[g]
                     /\ registry[g][activePairing[g]].status = "active"
    BY <2>1 DEF IInv, Pairings, RegistryFollows
  <2> QED BY <1>2, <1>5, <1>6, <1>7, <2>1 DEF RegistryFollows, ActiveTogether
<1>11. PairingUnderWay'
  <2>1. new[drawn + 1].status = "active" /\ drawn + 1 \in DOMAIN new
    BY <1>4
  <2> QED BY <1>2, <1>6, <2>1 DEF IInv, Pairings, PairingUnderWay
<1> QED BY <1>8, <1>9, <1>10, <1>11 DEF Pairings

\* A pairing is resumed under a record that is active in memory.
LEMMA PairingResumed ==
    ASSUME IInv, NEW h \in Hosts, NEW install \in Installs, NEW id \in DOMAIN registry[h],
           HelloResumes(h, install, id)
    PROVE  Pairings'
<1>1. /\ phase[h] = "reading" /\ step[h].at = "idle"
      /\ registry[h][id].status = "active"
      /\ activePairing' = [activePairing EXCEPT ![h] = id]
      /\ UNCHANGED <<pairingFile, phase, registry, step, told, seen, saves>>
  BY DEF HelloResumes, Awaits, disk, past
<1>2. \A g \in Hosts : activePairing'[g] = IF g = h THEN id ELSE activePairing[g]
  BY <1>1 DEF IInv, TypeOK, PairingsOK
<1>3. ReadBefore(saves)' /\ FileRecalls' /\ ToldSaved' /\ OneInstallation'
  <2>1. UNCHANGED <<pairingFile, saves, told>>
    BY <1>1
  <2> QED BY <2>1 DEF IInv, Pairings, ReadBefore, FileRecalls, Recalls, ToldSaved,
                      OneInstallation, ActiveTogether, Overtaken, SameProcess
<1>4. RegistryRecalls'
  BY <1>1, SameKeeper DEF IInv, Pairings, RegistryRecalls, Recalls, Holding
<1>5. RegistryFollows'
  <2>1. \A g \in Hosts : (Holding(g)' <=> Holding(g)) /\ (OthersSaved(g)' <=> OthersSaved(g))
    BY <1>1, SameKeeper DEF Holding
  <2> QED BY <1>1, <1>2, <2>1 DEF IInv, Pairings, RegistryFollows, ActiveTogether
<1>6. PairingUnderWay'
  BY <1>1, <1>2 DEF IInv, Pairings, PairingUnderWay
<1> QED BY <1>3, <1>4, <1>5, <1>6 DEF Pairings

\* A process saves what it recalls; from then on it differs from what the
\* others hold.
LEMMA PairingSaved ==
    ASSUME IInv, NEW h \in Hosts, SavePairing(h)
    PROVE  Pairings'
<1>1. PICK e, n :
         /\ e = [host |-> h, loaded |-> seen[h], id |-> step[h].of,
                 install |-> registry[h][step[h].of].install]
         /\ n = Len(saves)
  OBVIOUS
<1>2. /\ phase[h] = "reading" /\ step[h].at = "pairing"
      /\ pairingFile' = registry[h]
      /\ step' = [step EXCEPT ![h].at = "paired"]
      /\ saves' = Append(saves, e)
      /\ UNCHANGED <<phase, registry, activePairing, told, seen>>
  BY <1>1 DEF SavePairing, Awaits, pairing
<1>3. /\ activePairing[h] = NoPairing
      /\ step[h].of \in DOMAIN registry[h]
      /\ registry[h][step[h].of].status = "active"
  BY <1>2 DEF IInv, Pairings, PairingUnderWay
<1>4. /\ saves \in Seq([host : Hosts, loaded : Nat, id : Nat, install : Installs])
      /\ seen \in [Hosts -> 0..n] /\ n \in Nat /\ DOMAIN step = Hosts
      /\ step[h] \in Steps
  BY <1>1 DEF IInv, TypeOK, PairingsOK, MessagesOK
<1>5. e \in [host : Hosts, loaded : Nat, id : Nat, install : Installs]
  <2>1. registry[h][step[h].of] \in Record /\ step[h].of \in Nat /\ seen[h] \in Nat
    BY <1>3, <1>4 DEF IInv, TypeOK, PairingsOK, IsRegistry
  <2> QED BY <1>1, <2>1 DEF Record
<1>6. /\ Len(saves') = n + 1 /\ saves'[n + 1] = e
      /\ \A x \in 1..n : saves'[x] = saves[x]
  BY <1>1, <1>2, <1>4, <1>5
<1>7. /\ step'[h].at = "paired" /\ step'[h].of = step[h].of
      /\ \A g \in Hosts \ {h} : step'[g] = step[g]
  <2>1. step'[h] = [step[h] EXCEPT !.at = "paired"]
    BY <1>2, <1>4
  <2> QED BY <1>2, <1>4, <2>1, StepKinds
<1>8. \A g \in Hosts : Holding(g)' <=> Holding(g)
  BY <1>2 DEF Holding
<1>9. ReadBefore(saves)'
  <2>1. e.loaded < n + 1
    BY <1>1, <1>4
  <2>2. \A x \in 1..n : saves[x].loaded < x
    BY <1>1 DEF IInv, Pairings, ReadBefore
  <2>3. \A x \in 1..Len(saves') : x \in 1..n \/ x = n + 1
    BY <1>4, <1>6
  <2> QED BY <1>6, <2>1, <2>2, <2>3 DEF ReadBefore
<1>10. Recalls(registry[h], e)
  BY <1>1, <1>3 DEF Recalls
<1>11. FileRecalls'
  <2> SUFFICES ASSUME NEW x \in 1..(n + 1), ~Overtaken(saves', x, n + 1)
               PROVE  Recalls(registry[h], saves'[x])
    BY <1>2, <1>6 DEF FileRecalls, Overtaken, SameProcess, Recalls
  <2>1. CASE x = n + 1
    BY <1>6, <1>10, <2>1
  <2>2. CASE x \in 1..n
    <3>1. /\ Keeper(h).host = e.host /\ Keeper(h).loaded = e.loaded
          /\ e.loaded \in 0..Len(saves)
      BY <1>1, <1>4 DEF Keeper
    <3>2. Knows(Keeper(h), saves, x)
      BY <1>1, <1>2, <1>4, <1>5, <2>2, <3>1, WriterKnows
    <3>3. Holding(h)
      BY <1>2 DEF Holding
    <3> QED BY <1>1, <1>6, <2>2, <3>2, <3>3 DEF IInv, Pairings, RegistryRecalls
  <2> QED BY <1>4, <2>1, <2>2
<1>12. RegistryRecalls'
  <2> SUFFICES ASSUME NEW g \in Hosts, Holding(g), NEW x \in 1..(n + 1),
                      Knows(Keeper(g), saves, x)'
               PROVE  Recalls(registry[g], saves'[x])
    BY <1>2, <1>6, <1>8 DEF RegistryRecalls, Recalls
  <2>1. /\ Keeper(g)' = Keeper(g) /\ Keeper(g).loaded \in 0..Len(saves)
        /\ x \in 1..(Len(saves) + 1)
    BY <1>1, <1>2, <1>4 DEF Keeper
  <2>2. Knows(Keeper(g), Append(saves, e), x)
    BY <1>2, <2>1 DEF Knows, Overtaken, SameProcess
  <2>3. \/ x \in 1..n /\ Knows(Keeper(g), saves, x)
        \/ x = n + 1 /\ SameProcess(e, Keeper(g))
    <3> DEFINE S == [host : Hosts, loaded : Nat, id : Nat, install : Installs]
    <3>1. saves \in Seq(S) /\ e \in S
      BY <1>4, <1>5
    <3> HIDE DEF S
    <3>2. \/ x \in 1..Len(saves) /\ Knows(Keeper(g), saves, x)
          \/ x = Len(saves) + 1 /\ SameProcess(e, Keeper(g))
      BY <2>1, <2>2, <3>1, KnowsNoMore
    <3> QED BY <1>1, <3>2
  <2>4. CASE x \in 1..n /\ Knows(Keeper(g), saves, x)
    BY <1>1, <1>6, <2>4 DEF IInv, Pairings, RegistryRecalls
  <2>5. CASE x = n + 1 /\ SameProcess(e, Keeper(g))
    BY <1>1, <1>6, <1>10, <2>5 DEF SameProcess, Keeper
  <2> QED BY <2>3, <2>4, <2>5
<1>13. ToldSaved'
  <2> SUFFICES ASSUME NEW t \in told
               PROVE  \E x \in 1..(n + 1) :
                         saves'[x].id = t.id /\ saves'[x].install = t.install
    BY <1>2, <1>6 DEF ToldSaved
  <2>1. PICK x \in 1..n : saves[x].id = t.id /\ saves[x].install = t.install
    BY <1>1 DEF IInv, Pairings, ToldSaved
  <2>2. x \in 1..(n + 1) /\ saves'[x] = saves[x]
    BY <1>4, <1>6
  <2> QED BY <2>1, <2>2
<1>14. OneInstallation'
  BY <1>2 DEF IInv, Pairings, RegistryFollows, OneInstallation, ActiveTogether, Holding
<1>15. RegistryFollows'
  <2> SUFFICES ASSUME NEW g \in Hosts, Holding(g)
               PROVE  ~OthersSaved(g)' /\ step'[g].at # "pairing"
                          => registry[g] = registry[h]
    BY <1>2, <1>8 DEF IInv, Pairings, RegistryFollows, ActiveTogether
  <2>1. ASSUME g # h PROVE OthersSaved(g)'
    <3>1. n + 1 \in (seen'[g] + 1)..Len(saves')
      BY <1>2, <1>4, <1>6
    <3>2. ~SameProcess(saves'[n + 1], [host |-> g, loaded |-> seen'[g]])
      BY <1>1, <1>6, <2>1 DEF SameProcess
    <3> QED BY <3>1, <3>2 DEF OthersSaved, SameProcess
  <2> QED BY <2>1
<1>16. PairingUnderWay'
  <2>1. n + 1 \in 1..Len(saves') /\ saves'[n + 1].id = step[h].of
        /\ saves'[n + 1].install = registry[h][step[h].of].install
    BY <1>1, <1>4, <1>6
  <2>2. \A x \in 1..n : x \in 1..Len(saves') /\ saves'[x] = saves[x]
    BY <1>4, <1>6
  <2> SUFFICES ASSUME NEW g \in Hosts, phase[g] = "reading",
                      step'[g].at \in {"pairing", "paired"}
               PROVE  /\ activePairing[g] = NoPairing
                      /\ step'[g].of \in DOMAIN registry[g]
                      /\ registry[g][step'[g].of].status = "active"
                      /\ step'[g].at = "paired" =>
                            \E x \in 1..Len(saves') :
                                /\ saves'[x].id = step'[g].of
                                /\ saves'[x].install = registry[g][step'[g].of].install
    BY <1>2 DEF PairingUnderWay
  <2>3. CASE g = h
    BY <1>3, <1>7, <2>1, <2>3
  <2>4. CASE g # h
    <3>1. step'[g] = step[g]
      BY <1>7, <2>4
    <3> QED BY <1>1, <2>2, <3>1 DEF IInv, Pairings, PairingUnderWay
  <2> QED BY <2>3, <2>4
<1> QED BY <1>9, <1>11, <1>12, <1>13, <1>14, <1>15, <1>16 DEF Pairings

\* The credential is sent for a pairing that was saved.
LEMMA PairingAnswered ==
    ASSUME IInv, NEW h \in Hosts, AnswerPaired(h)
    PROVE  Pairings'
<1>1. PICK id : id = step[h].of
  OBVIOUS
<1>2. /\ phase[h] = "reading" /\ step[h].at = "paired"
      /\ activePairing' = [activePairing EXCEPT ![h] = id]
      /\ told' = told \cup {[install |-> registry[h][id].install, id |-> id]}
      /\ step' = [step EXCEPT ![h] = Idle]
      /\ UNCHANGED <<pairingFile, phase, registry, seen, saves>>
  BY <1>1 DEF AnswerPaired, Awaits, disk, past
<1>3. /\ id \in DOMAIN registry[h] /\ registry[h][id].status = "active"
      /\ \E x \in 1..Len(saves) :
            saves[x].id = id /\ saves[x].install = registry[h][id].install
  BY <1>1, <1>2 DEF IInv, Pairings, PairingUnderWay
<1>4. /\ \A g \in Hosts : activePairing'[g] = IF g = h THEN id ELSE activePairing[g]
      /\ step'[h].at = "idle" /\ \A g \in Hosts \ {h} : step'[g] = step[g]
  BY <1>2 DEF Idle, IInv, TypeOK, PairingsOK, MessagesOK
<1>5. ReadBefore(saves)' /\ FileRecalls' /\ OneInstallation'
  <2>1. UNCHANGED <<pairingFile, saves>>
    BY <1>2
  <2> QED BY <2>1 DEF IInv, Pairings, ReadBefore, FileRecalls, Recalls,
                      OneInstallation, ActiveTogether, Overtaken, SameProcess
<1>6. ToldSaved'
  BY <1>2, <1>3 DEF IInv, Pairings, ToldSaved
<1>7. RegistryRecalls'
  BY <1>2, SameKeeper DEF IInv, Pairings, RegistryRecalls, Recalls, Holding
<1>8. RegistryFollows'
  <2>1. \A g \in Hosts : (Holding(g)' <=> Holding(g)) /\ (OthersSaved(g)' <=> OthersSaved(g))
    BY <1>2, SameKeeper DEF Holding
  <2>2. step[h].at # "pairing"
    BY <1>2
  <2> QED BY <1>2, <1>3, <1>4, <2>1, <2>2
          DEF IInv, Pairings, RegistryFollows, ActiveTogether
<1>9. PairingUnderWay'
  BY <1>2, <1>4 DEF IInv, Pairings, PairingUnderWay
<1> QED BY <1>5, <1>6, <1>7, <1>8, <1>9 DEF Pairings

LEMMA PairingsStep ==
    ASSUME IInv, [Next]_vars
    PROVE  Pairings'
<1> USE DEF TypeOK, IInv
<1>1. ASSUME NEW h \in Hosts, Start(h) PROVE Pairings'
  BY <1>1, PairingsRead
<1>2. ASSUME NEW h \in Hosts, LoadJournal(h) PROVE Pairings'
  <2>1. /\ UNCHANGED <<pairingFile, told, saves, registry, seen, activePairing, step>>
        /\ phase[h] = "loading" /\ phase' = [phase EXCEPT ![h] = "reading"]
    BY <1>2 DEF LoadJournal, disk, pairing
  <2>2. step[h].at = "idle" /\ Holding(h)
    BY <2>1 DEF Blank, Idle, Holding
  <2>3. \A g \in Hosts \ {h} : phase'[g] = phase[g]
    BY <2>1 DEF MessagesOK
  <2> QED BY <2>1, <2>2, <2>3, PairingsQuiet DEF Holding
<1>3. ASSUME NEW h \in Hosts,
             \/ EndOfInput(h) \/ Fail(h) \/ Crash(h) \/ Exit(h)
             \/ \E x \in 1..Len(accepted) : RefuseCancel(h, x)
      PROVE  Pairings'
  <2>1. UNCHANGED <<pairingFile, told, saves>>
    BY <1>3 DEF EndOfInput, Fail, Crash, Exit, RefuseCancel, LeavesLoop, disk, pairing, past
  <2>2. \A g \in Hosts : Holding(g)' =>
            /\ Holding(g) /\ phase'[g] = phase[g] /\ step'[g] = step[g]
            /\ UNCHANGED <<registry[g], activePairing[g], seen[g]>>
    BY <1>3 DEF EndOfInput, Fail, Crash, Exit, RefuseCancel, LeavesLoop, pairing, past,
                Holding, MessagesOK, PairingsOK
  <2> QED BY <2>1, <2>2, PairingsQuiet
<1>4. ASSUME NEW h \in Hosts, NEW install \in Installs, HelloPairs(h, install)
      PROVE  Pairings'
  BY <1>4, PairingBegins
<1>5. ASSUME NEW h \in Hosts, NEW install \in Installs, NEW id \in DOMAIN registry[h],
             HelloResumes(h, install, id)
      PROVE  Pairings'
  BY <1>5, PairingResumed
<1>6. ASSUME NEW h \in Hosts, SavePairing(h) PROVE Pairings'
  BY <1>6, PairingSaved
<1>7. ASSUME NEW h \in Hosts, AnswerPaired(h) PROVE Pairings'
  BY <1>7, PairingAnswered
<1>8. ASSUME NEW h \in Hosts,
             UNCHANGED <<pairingFile, told, saves, phase, registry, activePairing, seen>>,
             step[h].at \notin {"pairing", "paired"},
             step'[h].at \notin {"pairing", "paired"},
             \A g \in Hosts \ {h} : step'[g] = step[g]
      PROVE  Pairings'
  BY <1>8, PairingsQuiet DEF Holding
<1>9. ASSUME NEW h \in Hosts, NEW m \in Messages, Reserve(h, m) PROVE Pairings'
  <2>1. UNCHANGED <<pairingFile, told, saves, phase, registry, activePairing, seen>>
    BY <1>9 DEF Reserve, disk, pairing, past
  <2>2. /\ step[h].at = "idle" /\ step'[h].at = "storing"
        /\ \A g \in Hosts \ {h} : step'[g] = step[g]
    BY <1>9 DEF Reserve, Awaits, MessagesOK
  <2> QED BY <1>8, <2>1, <2>2
<1>10. ASSUME NEW h \in Hosts, NEW x \in 1..Len(accepted),
              RunRequest(h, x) \/ SkipRequest(h, x) \/ CancelRequest(h, x)
       PROVE  Pairings'
  <2>1. UNCHANGED <<pairingFile, told, saves, phase, registry, activePairing, seen>>
    BY <1>10 DEF RunRequest, SkipRequest, CancelRequest, disk, pairing, past
  <2>2. Accepts(h, x)
    BY <1>10 DEF RunRequest, SkipRequest, CancelRequest
  <2>3. /\ step[h].at = "stored" /\ step'[h].at = "idle"
        /\ \A g \in Hosts \ {h} : step'[g] = step[g]
    BY <2>2 DEF Accepts, Awaits, Idle, MessagesOK
  <2> QED BY <1>8, <2>1, <2>3
<1>11. ASSUME NEW h \in Hosts, SaveKey(h) PROVE Pairings'
  <2>1. UNCHANGED <<pairingFile, told, saves, phase, registry, activePairing, seen>>
    BY <1>11 DEF SaveKey, pairing
  <2>2. /\ step[h].at = "storing" /\ step'[h].at = "stored"
        /\ \A g \in Hosts \ {h} : step'[g] = step[g]
    BY <1>11 DEF SaveKey, Awaits, MessagesOK
  <2> QED BY <1>8, <2>1, <2>2
<1>12. ASSUME NEW h \in Hosts, NEW x \in pending[h], Finish(h, x) PROVE Pairings'
  BY <1>12, PairingsQuiet DEF Finish, disk, pairing, past, Holding
<1>13. CASE UNCHANGED vars
  BY <1>13, PairingsQuiet DEF vars, Holding
<1> QED BY <1>1, <1>2, <1>3, <1>4, <1>5, <1>6, <1>7, <1>9, <1>10, <1>11, <1>12, <1>13
        DEF Next

-----------------------------------------------------------------------------
LEMMA InitInv == Init => IInv
<1> SUFFICES ASSUME Init PROVE IInv
  OBVIOUS
<1>1. TypeOK
  BY TypeInit
<1>2. Blank
  BY DEF Init, Blank
<1>3. Journal
  BY ParametersAssumption
     DEF Init, Journal, ReadBefore, FileHolds, KeysHold, StoresNew, StoredLast, AtMostOnce,
         Awaits
<1>4. Pairings
  BY DEF Init, Pairings, ReadBefore, FileRecalls, RegistryRecalls, ToldSaved,
         OneInstallation, ActiveTogether, RegistryFollows, PairingUnderWay, Holding
<1> QED BY <1>1, <1>2, <1>3, <1>4 DEF IInv

(***************************************************************************)
(* The invariant of the native host, however many processes read side by   *)
(* side: a file holds what was saved, but for what a process overwrote     *)
(* that had read it before; and so does each copy in memory.               *)
(***************************************************************************)
THEOREM Invariance == Spec => []IInv
<1>1. Init => IInv
  BY InitInv
<1>2. IInv /\ [Next]_vars => IInv'
  BY PairingTypes, MessageTypes, CallTypes, BlankStep, JournalStep, PairingsStep
     DEF IInv, TypeOK
<1> QED BY <1>1, <1>2, PTL DEF Spec

\* Types, and what a cancel finds among the calls.
THEOREM TypeCorrect == Spec => []TypeOK
<1>1. IInv => TypeOK
  BY DEF IInv
<1> QED BY <1>1, Invariance, PTL

(***************************************************************************)
(* An accepted request reaches the tools once, in the order of its         *)
(* process, and a message that was accepted within the journal's limit is  *)
(* accepted again only by a process that overlaps: one with the journal    *)
(* overwritten, since the first acceptance, by a process that had read it  *)
(* before.  Neither crashes nor redelivery bring that about.               *)
(***************************************************************************)
THEOREM RequestsRunOnce == Spec => []AtMostOnce
<1>1. IInv => AtMostOnce
  BY DEF IInv, Journal
<1> QED BY <1>1, Invariance, PTL

(***************************************************************************)
(* A credential that was sent out is for a record that was saved, and that *)
(* is on disk unless an overlapping process saved its own records over it; *)
(* one installation holds the active pairings; a process serves a pairing  *)
(* that is active on disk as long as no other saves.                       *)
(***************************************************************************)
THEOREM PairingsAreKept ==
    Spec => [](PairingKept /\ OneInstallation /\ ServesActivePairing)
<1>1. IInv => PairingKept
  <2> SUFFICES ASSUME IInv, NEW t \in told
               PROVE  \E x \in 1..Len(saves) :
                         /\ saves[x].id = t.id /\ saves[x].install = t.install
                         /\ OnDisk(t) \/ Overtaken(saves, x, Len(saves))
    BY DEF PairingKept
  <2>1. PICK x \in 1..Len(saves) : saves[x].id = t.id /\ saves[x].install = t.install
    BY DEF IInv, Pairings, ToldSaved
  <2>2. ~Overtaken(saves, x, Len(saves)) => Recalls(pairingFile, saves[x])
    BY DEF IInv, Pairings, FileRecalls
  <2> QED BY <2>1, <2>2 DEF Recalls, OnDisk
<1>2. IInv => OneInstallation
  BY DEF IInv, Pairings
<1>3. IInv => ServesActivePairing
  <2> SUFFICES ASSUME IInv, NEW h \in Hosts, activePairing[h] # NoPairing, ~OthersSaved(h)
               PROVE  /\ activePairing[h] \in DOMAIN pairingFile
                      /\ pairingFile[activePairing[h]].status = "active"
    BY DEF ServesActivePairing
  <2>1. phase[h] = "reading" /\ Holding(h)
    BY DEF IInv, Blank, Holding
  <2>2. step[h].at # "pairing"
    BY <2>1 DEF IInv, Pairings, PairingUnderWay
  <2> QED BY <2>1, <2>2 DEF IInv, Pairings, RegistryFollows
<1> QED BY <1>1, <1>2, <1>3, Invariance, PTL

(***************************************************************************)
(* The pairings in memory and on disk agree (NativePairingRegistry and the *)
(* file it is saved to), up to what an overlapping process has saved.      *)
(***************************************************************************)
THEOREM PairingsAgree == Spec => []PairingInv
<1>1. TypeOK /\ (PairingKept /\ OneInstallation /\ ServesActivePairing) => PairingInv
  BY DEF PairingInv
<1> QED BY <1>1, TypeCorrect, PairingsAreKept, PTL

-----------------------------------------------------------------------------
(***************************************************************************)
(* What crashes lose.  A request is forgotten once its key is in the       *)
(* journal, no tool was given it and no process is about to.  A process is *)
(* about to handle one message, so a step that ends it adds at most that   *)
(* one, and no other step adds any.                                        *)
(***************************************************************************)
Due(x) == \E h \in Hosts : Awaits(h, "stored") /\ step[h].of = x

Handed(x) == \E i \in 1..Len(ran) : ran[i] = x

Forgotten ==
    {x \in 1..Len(accepted) : /\ accepted[x] \in Requests \ Malformed
                              /\ ~Handed(x)
                              /\ ~Due(x)}

\* A step that hands out nothing, accepts nothing and keeps what is due.
LEMMA NothingMoved ==
    ASSUME UNCHANGED <<accepted, ran>>,
           \A h \in Hosts : Awaits(h, "stored") =>
               Awaits(h, "stored")' /\ step'[h] = step[h]
    PROVE  Forgotten' \subseteq Forgotten
<1>1. \A x : Due(x) => Due(x)'
  BY DEF Due
<1> QED BY <1>1 DEF Forgotten, Handed

\* The message that was due turns out to be none for the tools, or its process
\* ends: nothing else is forgotten.
LEMMA OneLess ==
    ASSUME UNCHANGED <<accepted, ran>>, NEW h \in Hosts,
           \A g \in Hosts \ {h} : phase'[g] = phase[g] /\ step'[g] = step[g]
    PROVE  Forgotten' \subseteq Forgotten \cup {step[h].of}
<1>1. ASSUME NEW x, x # step[h].of, Due(x) PROVE Due(x)'
  <2>1. PICK g \in Hosts : Awaits(g, "stored") /\ step[g].of = x
    BY <1>1 DEF Due
  <2>2. Awaits(g, "stored")' /\ step'[g].of = x
    BY <1>1, <2>1 DEF Awaits
  <2> QED BY <2>2 DEF Due
<1> QED BY <1>1 DEF Forgotten, Handed

\* A key is saved: its message is due.
LEMMA SavedIsDue ==
    ASSUME IInv, NEW h \in Hosts, SaveKey(h)
    PROVE  Forgotten' \subseteq Forgotten
<1>1. /\ phase[h] = "reading" /\ step[h].at = "storing"
      /\ accepted' = Append(accepted, step[h].of)
      /\ step' = [step EXCEPT ![h] = [at |-> "stored", of |-> Len(accepted) + 1]]
      /\ UNCHANGED <<phase, ran>>
  BY DEF SaveKey, Awaits
<1>2. step \in [Hosts -> Steps] /\ accepted \in Seq(Messages)
  BY DEF IInv, TypeOK, MessagesOK
<1>3. step[h].of \in Messages
  BY <1>1, <1>2, StepKinds
<1>4. PICK n : n = Len(accepted')
  OBVIOUS
<1>5. /\ n = Len(accepted) + 1
      /\ \A x \in 1..Len(accepted) : accepted'[x] = accepted[x]
      /\ Len(accepted) \in Nat
  BY <1>1, <1>2, <1>3, <1>4
<1>6. Due(n)'
  <2>1. Awaits(h, "stored")' /\ step'[h].of = n
    BY <1>1, <1>2, <1>5 DEF Awaits
  <2> QED BY <2>1 DEF Due
<1>7. ASSUME NEW x \in Forgotten'
      PROVE  x \in Forgotten
  <2>1. x \in 1..Len(accepted') /\ ~Due(x)' /\ accepted'[x] \in Requests \ Malformed
        /\ ~Handed(x)'
    BY DEF Forgotten
  <2>2. x # n
    BY <1>6, <2>1
  <2>3. x \in 1..Len(accepted)
    BY <1>4, <1>5, <2>1, <2>2
  <2>4. ~Due(x)
    <3> SUFFICES ASSUME NEW g \in Hosts, Awaits(g, "stored"), step[g].of = x PROVE FALSE
      BY DEF Due
    <3>1. Awaits(g, "stored")' /\ step'[g].of = x
      BY <1>1, <1>2 DEF Awaits
    <3> QED BY <2>1, <3>1 DEF Due
  <2> QED BY <1>1, <1>5, <2>1, <2>3, <2>4 DEF Forgotten, Handed
<1> QED BY <1>7

\* The message that was due is handed to the tools.
LEMMA DueIsHanded ==
    ASSUME IInv, NEW h \in Hosts, NEW x \in 1..Len(accepted), RunRequest(h, x)
    PROVE  Forgotten' \subseteq Forgotten
<1>1. /\ ran' = Append(ran, x) /\ UNCHANGED <<accepted, phase>>
      /\ step[h].of = x /\ step' = [step EXCEPT ![h] = Idle]
  BY DEF RunRequest, Accepts
<1>2. ran \in Seq(1..Len(accepted)) /\ DOMAIN step = Hosts
  BY DEF IInv, TypeOK, MessagesOK
<1>3. /\ Len(ran') = Len(ran) + 1 /\ Len(ran) \in Nat
      /\ ran'[Len(ran) + 1] = x
      /\ \A i \in 1..Len(ran) : ran'[i] = ran[i]
  BY <1>1, <1>2
<1>4. Handed(x)'
  <2>1. Len(ran) + 1 \in 1..Len(ran')
    BY <1>3
  <2> QED BY <1>3, <2>1 DEF Handed
<1>5. ASSUME NEW y, Handed(y)
      PROVE  Handed(y)'
  <2>1. PICK i \in 1..Len(ran) : ran[i] = y
    BY <1>5 DEF Handed
  <2>2. i \in 1..Len(ran') /\ ran'[i] = y
    BY <1>3, <2>1
  <2> QED BY <2>2 DEF Handed
<1>6. ASSUME NEW y \in Forgotten'
      PROVE  y \in Forgotten
  <2>1. /\ y \in 1..Len(accepted') /\ accepted'[y] \in Requests \ Malformed
        /\ ~Handed(y)' /\ ~Due(y)'
    BY DEF Forgotten
  <2>2. y # x /\ ~Handed(y)
    BY <1>4, <1>5, <2>1
  <2>3. ~Due(y)
    <3> SUFFICES ASSUME NEW g \in Hosts, Awaits(g, "stored"), step[g].of = y PROVE FALSE
      BY DEF Due
    <3>1. Awaits(g, "stored")' /\ step'[g].of = y
      BY <1>1, <1>2, <2>2 DEF Awaits
    <3> QED BY <2>1, <3>1 DEF Due
  <2> QED BY <1>1, <2>1, <2>2, <2>3 DEF Forgotten
<1> QED BY <1>6

\* What a step can add to what is forgotten.
LEMMA ForgottenStep ==
    ASSUME IInv, [Next]_vars
    PROVE  \/ crashes' = crashes /\ Forgotten' \subseteq Forgotten
           \/ /\ crashes' = crashes + 1
              /\ \E x : Forgotten' \subseteq Forgotten \cup {x}
<1> DEFINE Keeps == crashes' = crashes /\ Forgotten' \subseteq Forgotten
<1>1. phase \in [Hosts -> {"off", "loading", "reading", "draining", "failing"}]
      /\ step \in [Hosts -> Steps]
  BY DEF IInv, TypeOK, MessagesOK
<1>2. ASSUME NEW h \in Hosts, Start(h) \/ LoadJournal(h) \/ Exit(h) PROVE Keeps
  <2>1. /\ phase[h] # "reading" /\ \E to : phase' = [phase EXCEPT ![h] = to]
        /\ UNCHANGED <<step, accepted, ran, crashes>>
    BY <1>2 DEF Start, LoadJournal, Exit, log
  <2> QED BY <1>1, <2>1, NothingMoved DEF Awaits
<1>3. ASSUME NEW h \in Hosts, EndOfInput(h) \/ Fail(h) PROVE Keeps
  <2>1. /\ ~Awaits(h, "stored")
        /\ \E to : phase' = [phase EXCEPT ![h] = to]
        /\ step' = [step EXCEPT ![h] = Idle]
        /\ UNCHANGED <<accepted, ran, crashes>>
    BY <1>3 DEF EndOfInput, Fail, LeavesLoop, Awaits, log
  <2> QED BY <1>1, <2>1, NothingMoved DEF Awaits
<1>4. ASSUME NEW h \in Hosts, Crash(h)
      PROVE  /\ crashes' = crashes + 1
             /\ \E x : Forgotten' \subseteq Forgotten \cup {x}
  <2>1. /\ crashes' = crashes + 1 /\ UNCHANGED <<accepted, ran>>
        /\ phase' = [phase EXCEPT ![h] = "off"]
        /\ step' = [step EXCEPT ![h] = Idle]
    BY <1>4 DEF Crash, LeavesLoop, log
  <2>2. Forgotten' \subseteq Forgotten \cup {step[h].of}
    BY <1>1, <2>1, OneLess
  <2> QED BY <2>1, <2>2
<1>5. ASSUME NEW h \in Hosts,
             \/ SavePairing(h) \/ AnswerPaired(h)
             \/ \E m \in Messages : Reserve(h, m)
             \/ \E install \in Installs :
                   \/ HelloPairs(h, install)
                   \/ \E id \in DOMAIN registry[h] : HelloResumes(h, install, id)
      PROVE  Keeps
  <2>1. /\ ~Awaits(h, "stored") /\ \A g \in Hosts \ {h} : step'[g] = step[g]
        /\ UNCHANGED <<phase, accepted, ran, crashes>>
    BY <1>1, <1>5 DEF SavePairing, AnswerPaired, Reserve, HelloPairs, HelloResumes, Awaits, log
  <2> QED BY <2>1, NothingMoved DEF Awaits
<1>6. ASSUME NEW h \in Hosts, SaveKey(h) PROVE Keeps
  BY <1>6, SavedIsDue DEF SaveKey
<1>7. ASSUME NEW h \in Hosts, NEW x \in 1..Len(accepted), RunRequest(h, x) PROVE Keeps
  BY <1>7, DueIsHanded DEF RunRequest
<1>8. ASSUME NEW h \in Hosts, NEW x \in 1..Len(accepted),
             SkipRequest(h, x) \/ CancelRequest(h, x) \/ RefuseCancel(h, x)
      PROVE  Keeps
  <2>1. /\ step[h].of = x
        /\ accepted[x] \notin Requests \ Malformed
        /\ \A g \in Hosts \ {h} : phase'[g] = phase[g] /\ step'[g] = step[g]
        /\ UNCHANGED <<accepted, ran, crashes>>
    BY <1>1, <1>8, ParametersAssumption
       DEF SkipRequest, CancelRequest, RefuseCancel, Accepts, LeavesLoop, log
  <2>2. Forgotten' \subseteq Forgotten \cup {x}
    BY <2>1, OneLess
  <2>3. x \notin Forgotten'
    BY <2>1 DEF Forgotten
  <2> QED BY <2>1, <2>2, <2>3
<1>9. ASSUME NEW h \in Hosts, NEW x \in pending[h], Finish(h, x) PROVE Keeps
  <2>1. UNCHANGED <<phase, step, accepted, ran, crashes>>
    BY <1>9 DEF Finish, log
  <2> QED BY <2>1, NothingMoved DEF Awaits
<1>10. CASE UNCHANGED vars
  BY <1>10, NothingMoved DEF vars, Awaits
<1> QED BY <1>2, <1>3, <1>4, <1>5, <1>6, <1>7, <1>8, <1>9, <1>10 DEF Next

LEMMA ForgottenFinite ==
    ASSUME IInv
    PROVE  IsFiniteSet(Forgotten) /\ Cardinality(Forgotten) \in Nat
<1>1. Len(accepted) \in Nat
  BY DEF IInv, TypeOK, MessagesOK
<1>2. IsFiniteSet(1..Len(accepted))
  BY <1>1, FS_Interval
<1>3. Forgotten \subseteq 1..Len(accepted)
  BY DEF Forgotten
<1> QED BY <1>2, <1>3, FS_Subset, FS_CardinalityType

(***************************************************************************)
(* Each crash of a process loses at most one request, however many         *)
(* processes overlap: every other request that was accepted and parses is  *)
(* handed to a tool, or is about to be.                                    *)
(***************************************************************************)
THEOREM CrashesLoseOneEach == Spec => []NothingForgotten
<1> DEFINE Bounded == Cardinality(Forgotten) <= crashes
<1>1. Bounded <=> NothingForgotten
  BY DEF NothingForgotten, Forgotten, Handed, Due
<1>2. Init => Bounded
  <2> SUFFICES ASSUME Init PROVE Bounded
    OBVIOUS
  <2>1. Forgotten = {}
    BY DEF Init, Forgotten
  <2> QED BY <2>1, FS_EmptySet DEF Init
<1>3. IInv /\ Bounded /\ [Next]_vars => Bounded'
  <2> SUFFICES ASSUME IInv, Bounded, [Next]_vars PROVE Bounded'
    OBVIOUS
  <2>1. /\ IsFiniteSet(Forgotten) /\ Cardinality(Forgotten) \in Nat
        /\ crashes \in Nat
    BY ForgottenFinite DEF IInv, TypeOK, MessagesOK
  <2>2. CASE crashes' = crashes /\ Forgotten' \subseteq Forgotten
    <3>1. /\ Cardinality(Forgotten') <= Cardinality(Forgotten)
          /\ Cardinality(Forgotten') \in Nat
      BY <2>1, <2>2, FS_Subset, FS_CardinalityType
    <3> QED BY <2>1, <2>2, <3>1
  <2>3. CASE /\ crashes' = crashes + 1
             /\ \E x : Forgotten' \subseteq Forgotten \cup {x}
    <3>1. PICK x : Forgotten' \subseteq Forgotten \cup {x}
      BY <2>3
    <3> DEFINE S == Forgotten \cup {x}
    <3>2. IsFiniteSet(S) /\ Cardinality(S) \in Nat
          /\ Cardinality(S) =
                (IF x \in Forgotten THEN Cardinality(Forgotten)
                 ELSE Cardinality(Forgotten) + 1)
      BY <2>1, FS_AddElement, FS_CardinalityType
    <3> HIDE DEF S
    <3>3. /\ Cardinality(Forgotten') <= Cardinality(S)
          /\ Cardinality(Forgotten') \in Nat
      BY <3>1, <3>2, FS_Subset, FS_CardinalityType DEF S
    <3> QED BY <2>1, <2>3, <3>2, <3>3
  <2> QED BY <2>2, <2>3, ForgottenStep
<1> HIDE DEF Bounded
<1> QED BY <1>1, <1>2, <1>3, Invariance, PTL DEF Spec
=============================================================================
