---------------------------- MODULE ServerProofs ----------------------------
(***************************************************************************)
(* Theorems of two modules of the server: of Shutdown, for any hooks,      *)
(* timeouts and signals, and, further down, of HttpFront, for any requests,*)
(* clients, limits and windows.                                            *)
(***************************************************************************)
EXTENDS Shutdown, HttpFront, FiniteSetTheorems, TLAPS

-----------------------------------------------------------------------------
(***************************************************************************)
(* Shutdown: the inductive invariant                                       *)
(***************************************************************************)
Sorted(s) == \A i, j \in 1..Len(s) : i < j => s[i] < s[j]

\* Before the trigger nothing has happened.
Untouched ==
    phase = "up" => at = 0 /\ ran = <<>> /\ budget = 0 /\ elapsed = 0 /\ hookMs = 0

\* What the loop has yet to reach is younger than what it runs.
Ahead ==
    phase = "draining" => \A j \in 1..Len(hooks) : j > at => hooks[j] > ran[Len(ran)]

\* While no hook was removed behind its back, the loop ran all it passed.
Passed ==
    phase = "draining" /\ ~shifted =>
        /\ at <= Len(hooks)
        /\ \A j \in 1..Len(hooks) : j <= at => Ran(hooks[j])

\* The first hook has run since the trigger.
FirstSince == phase = "draining" /\ Len(ran) = 1 => hookMs = elapsed

\* The hooks before the current one took no longer than their deadlines.
Spent ==
    phase = "draining" => elapsed - hookMs <= budget - Deadline(ran[Len(ran)])

IInv ==
    /\ TypeOK
    /\ Sorted(hooks)
    /\ RunsInOrder
    /\ Untouched
    /\ Ahead
    /\ Passed
    /\ FirstSince
    /\ Spent
    /\ ForcedTakesTime

\* A hook's deadline comes before the watchdog.
LEMMA DeadlineBelowWatchdog ==
    ASSUME TypeOK, NEW hook \in 1..Len(names)
    PROVE  Deadline(hook) \in 1..(ForceExitAfterMs - 1)
<1>1. names[hook] \in Names
    BY DEF TypeOK
<1>2. TimeoutMs[names[hook]] \in Int
    BY <1>1, ParametersAssumption
<1> QED
    BY <1>2, ParametersAssumption DEF Deadline

\* Init establishes it.
LEMMA InitInv ==
    ASSUME Init
    PROVE  IInv
<1> USE DEF Init
<1>1. names \in Seq(Names) /\ hooks \in Seq(1..Len(names)) /\ ran \in Seq(1..Len(names))
    OBVIOUS
<1>2. elapsed \in 0..ForceExitAfterMs /\ hookMs \in 0..elapsed /\ at \in Nat
    BY ParametersAssumption
<1>3. TypeOK
    BY <1>1, <1>2 DEF TypeOK
<1> QED
    BY <1>3 DEF IInv, Sorted, RunsInOrder, Untouched, Ahead, Passed, FirstSince, Spent, ForcedTakesTime

-----------------------------------------------------------------------------
(***************************************************************************)
(* The steps                                                               *)
(***************************************************************************)
\* A new hook is younger than all others.
LEMMA AddInv ==
    ASSUME IInv, NEW name \in Names, AddCleanup(name)
    PROVE  IInv'
<1> USE DEF IInv
<1>1. /\ names' = Append(names, name) /\ hooks' = Append(hooks, Len(names) + 1)
      /\ UNCHANGED <<phase, at, ran, budget, elapsed, hookMs, handled, awaited, held, shifted, ended>>
    BY DEF AddCleanup
<1>2. names \in Seq(Names) /\ hooks \in Seq(1..Len(names)) /\ ran \in Seq(1..Len(names))
    BY DEF TypeOK
<1>3. names' \in Seq(Names) /\ Len(names') = Len(names) + 1
    BY <1>1, <1>2
<1>4. \A i \in 1..Len(hooks) : hooks[i] \in 1..Len(names)
    BY <1>2
<1>5. \A i \in 1..Len(ran) : ran[i] \in 1..Len(names)
    BY <1>2
<1>6. Len(names) + 1 \in 1..Len(names') /\ 1..Len(names) \subseteq 1..Len(names')
    BY <1>2, <1>3
<1>7. hooks \in Seq(1..Len(names')) /\ ran' \in Seq(1..Len(names'))
    BY <1>1, <1>2, <1>3, <1>6
<1>8. /\ hooks' \in Seq(1..Len(names'))
      /\ Len(hooks') = Len(hooks) + 1
      /\ hooks'[Len(hooks) + 1] = Len(names) + 1
      /\ \A i \in 1..Len(hooks) : hooks'[i] = hooks[i]
    BY <1>1, <1>6, <1>7
<1>9. \A i \in 1..Len(names) : names'[i] = names[i]
    BY <1>1, <1>2
<1>10. \A i \in 1..Len(names) : Deadline(i)' = Deadline(i)
    BY <1>9 DEF Deadline
<1>13. Len(hooks) \in Nat /\ Len(names) \in Nat /\ Len(ran) \in Nat /\ at \in Nat
    BY <1>2 DEF TypeOK
<1>11. TypeOK'
    <2>1. phase = "draining" => ran[Len(ran)] \in 1..Len(names)
        BY <1>5, <1>13 DEF TypeOK
    <2>2. phase = "draining" => Deadline(ran[Len(ran)])' = Deadline(ran[Len(ran)])
        BY <1>1, <1>10, <2>1 DEF Deadline
    <2> QED
        BY <1>1, <1>3, <1>7, <1>8, <2>2 DEF TypeOK, Events
<1>12. Sorted(hooks)'
    <2> SUFFICES ASSUME NEW i \in 1..Len(hooks'), NEW j \in 1..Len(hooks'), i < j
                 PROVE  hooks'[i] < hooks'[j]
        BY DEF Sorted
    <2>1. i \in 1..Len(hooks)
        BY <1>8, <1>13
    <2>2. CASE j \in 1..Len(hooks)
        BY <2>1, <2>2, <1>8 DEF Sorted
    <2>3. CASE j = Len(hooks) + 1
        <3>1. hooks'[i] \in 1..Len(names) /\ hooks'[j] = Len(names) + 1
            BY <2>1, <2>3, <1>4, <1>8
        <3> QED
            BY <3>1, <1>13
    <2> QED
        BY SMTT(30), <2>2, <2>3, <1>8, <1>13
<1>14. Ahead'
    <2>1. phase = "draining" => ran[Len(ran)] \in 1..Len(names)
        BY <1>5, <1>13 DEF TypeOK
    <2> QED
        BY <1>1, <1>8, <1>13, <2>1 DEF Ahead
<1>15. Passed'
    BY <1>1, <1>8, <1>13 DEF Passed, Ran
<1>16. Spent'
    <2>1. phase = "draining" => ran[Len(ran)] \in 1..Len(names)
        BY <1>5, <1>13 DEF TypeOK
    <2>2. phase = "draining" => Deadline(ran[Len(ran)])' = Deadline(ran[Len(ran)])
        BY <1>1, <1>10, <2>1 DEF Deadline
    <2> QED
        BY <1>1, <2>2 DEF Spent
<1> QED
    BY <1>1, <1>11, <1>12, <1>14, <1>15, <1>16 DEF RunsInOrder, Untouched, FirstSince, ForcedTakesTime

\* A removal keeps the order; one behind the loop is noted.
LEMMA UnsubscribeInv ==
    ASSUME IInv, NEW hook \in 1..Len(names), Unsubscribe(hook)
    PROVE  IInv'
<1> USE DEF IInv
<1>1. PICK i \in 1..Len(hooks) : /\ hooks' = Without(hooks, i)
                                 /\ shifted' = (shifted \/ (phase = "draining" /\ i <= at))
    BY DEF Unsubscribe
<1>2. UNCHANGED <<names, phase, at, ran, budget, elapsed, hookMs, handled, awaited, held, ended>>
    BY DEF Unsubscribe
<1>3. hooks \in Seq(1..Len(names)) /\ Len(hooks) \in Nat /\ at \in Nat /\ i \in Nat
    BY DEF TypeOK
<1>4. Len(hooks) - 1 \in Nat
    BY <1>3
<1>5. \A j \in 1..Len(hooks) : hooks[j] \in 1..Len(names)
    BY <1>3
<1>6. \A j \in 1..(Len(hooks) - 1) :
         hooks'[j] = IF j < i THEN hooks[j] ELSE hooks[j + 1]
    BY <1>1 DEF Without
<1>7. hooks' \in Seq(1..Len(names)) /\ Len(hooks') = Len(hooks) - 1
    <2>1. \A j \in 1..(Len(hooks) - 1) :
             (IF j < i THEN hooks[j] ELSE hooks[j + 1]) \in 1..Len(names)
        BY <1>3, <1>5
    <2>2. hooks' \in [1..(Len(hooks) - 1) -> 1..Len(names)]
        BY <1>1, <2>1 DEF Without
    <2> QED
        BY <1>4, <2>2
<1>8. TypeOK'
    BY <1>1, <1>2, <1>7 DEF TypeOK, Events, Deadline
<1>12. \A j \in 1..Len(hooks') : j \in 1..Len(hooks) /\ j + 1 \in 1..Len(hooks)
    BY <1>3, <1>7
<1>13. \A j \in 1..Len(hooks') : (hooks'[j] = hooks[j] /\ j < i) \/ (hooks'[j] = hooks[j + 1]
           /\ j >= i)
    <2> TAKE j \in 1..Len(hooks')
    <2>1. hooks'[j] = IF j < i THEN hooks[j] ELSE hooks[j + 1]
        BY <1>6, <1>7
    <2>2. CASE j < i
        BY <2>1, <2>2
    <2>3. CASE j >= i
        BY <2>1, <2>3, <1>3
    <2> QED
        BY <2>2, <2>3, <1>3
<1>9. Sorted(hooks)'
    <2> SUFFICES ASSUME NEW j \in 1..Len(hooks'), NEW k \in 1..Len(hooks'), j < k
                 PROVE  hooks'[j] < hooks'[k]
        BY DEF Sorted
    <2>1. CASE k < i
        <3>1. hooks'[j] = hooks[j] /\ hooks'[k] = hooks[k]
            BY <2>1, <1>3, <1>13
        <3> QED
            BY <3>1, <1>12 DEF Sorted
    <2>2. CASE j < i /\ k >= i
        <3>1. hooks'[j] = hooks[j] /\ hooks'[k] = hooks[k + 1] /\ j < k + 1
            BY <2>2, <1>3, <1>13
        <3> QED
            BY <3>1, <1>12 DEF Sorted
    <2>3. CASE j >= i
        <3>1. hooks'[j] = hooks[j + 1] /\ hooks'[k] = hooks[k + 1] /\ j + 1 < k + 1
            BY <2>3, <1>3, <1>13
        <3> QED
            BY <3>1, <1>12 DEF Sorted
    <2> QED
        BY <2>1, <2>2, <2>3, <1>3
<1>10. Ahead'
    <2> SUFFICES ASSUME phase = "draining", NEW j \in 1..Len(hooks'), j > at
                 PROVE  hooks'[j] > ran[Len(ran)]
        BY <1>2 DEF Ahead
    <2> QED
        BY SMTT(30), <1>3, <1>12, <1>13 DEF Ahead
<1>11. Passed'
    <2> SUFFICES ASSUME phase = "draining", ~shifted'
                 PROVE  /\ at <= Len(hooks')
                        /\ \A j \in 1..Len(hooks') : j <= at => Ran(hooks'[j])
        BY <1>2 DEF Passed, Ran
    <2>0. ~(shifted \/ (phase = "draining" /\ i <= at))
        BY <1>1
    <2>1. ~shifted /\ i > at
        BY <2>0, <1>3
    <2>2. \A j \in 1..Len(hooks') : j <= at => hooks'[j] = hooks[j] /\ j \in 1..Len(hooks)
        BY <2>1, <1>3, <1>12, <1>13
    <2>3. \A j \in 1..Len(hooks') : j <= at => Ran(hooks[j])
        BY <2>1, <2>2 DEF Passed
    <2>4. at <= Len(hooks')
        BY <2>1, <1>3, <1>7
    <2>5. \A j \in 1..Len(hooks') : j <= at => Ran(hooks'[j])
        <3> TAKE j \in 1..Len(hooks')
        <3> HAVE j <= at
        <3>1. hooks'[j] = hooks[j] /\ Ran(hooks[j])
            BY <2>2, <2>3, Zenon
        <3> QED
            BY <3>1, Zenon
    <2> QED
        BY <2>4, <2>5, Zenon
<1> QED
    BY <1>2, <1>8, <1>9, <1>10, <1>11
    DEF RunsInOrder, Untouched, FirstSince, Spent, ForcedTakesTime, Deadline

\* What the steps that advance the loop leave alone.
Steady == UNCHANGED <<names, hooks, elapsed, held, shifted>>

\* Running the hook at the next position.
LEMMA RunHookInv ==
    ASSUME IInv, phase \in {"up", "draining"}, Alive,
           at + 1 <= Len(hooks), RunHook(at + 1),
           Steady, handled' \subseteq Events, awaited' \in BOOLEAN
    PROVE  IInv'
<1> USE DEF IInv
<1>1. /\ phase' = "draining" /\ at' = at + 1 /\ ran' = Append(ran, hooks[at + 1])
      /\ budget' = budget + Deadline(hooks[at + 1]) /\ hookMs' = 0 /\ ended' = ended
      /\ UNCHANGED <<names, hooks, elapsed, held, shifted>>
    BY DEF RunHook, Steady
<1>2. /\ at \in Nat /\ Len(hooks) \in Nat /\ Len(ran) \in Nat /\ elapsed \in Nat
      /\ hooks \in Seq(1..Len(names)) /\ ran \in Seq(1..Len(names))
    BY ParametersAssumption DEF TypeOK
<1>3. hooks[at + 1] \in 1..Len(names) /\ at + 1 \in 1..Len(hooks)
    BY <1>2
<1>4. /\ ran' \in Seq(1..Len(names)) /\ Len(ran') = Len(ran) + 1
      /\ ran'[Len(ran) + 1] = hooks[at + 1]
      /\ \A i \in 1..Len(ran) : ran'[i] = ran[i]
    BY <1>1, <1>2, <1>3
<1>5. \A i \in 1..Len(ran) : ran[i] \in 1..Len(names)
    BY <1>2
<1>6. Deadline(hooks[at + 1]) \in 1..(ForceExitAfterMs - 1)
    BY <1>3, DeadlineBelowWatchdog
<1>7. ran'[Len(ran')] = hooks[at + 1]
    BY <1>4
<1>8. Deadline(ran[Len(ran)])' \in Nat
    <2>1. Deadline(ran[Len(ran)])' = Deadline(hooks[at + 1])
        BY <1>1, <1>7 DEF Deadline
    <2> QED
        BY <2>1, <1>6, ParametersAssumption
<1>9. TypeOK'
    <2>1. Len(ran') > 0 /\ at' \in Nat /\ hookMs' \in 0..elapsed
        BY <1>1, <1>2, <1>4
    <2>2. hookMs' <= Deadline(ran[Len(ran)])'
        BY <1>1, <1>8
    <2>3. budget' \in Nat
        BY <1>1, <1>6, ParametersAssumption DEF TypeOK
    <2> QED
        BY <1>1, <1>4, <2>1, <2>2, <2>3 DEF TypeOK, Events
<1>10. \A i \in 1..Len(ran) : ran[i] < hooks[at + 1]
    <2>1. CASE phase = "up"
        BY <2>1, <1>2 DEF Untouched
    <2>2. CASE phase = "draining"
        <3>1. ran[Len(ran)] < hooks[at + 1] /\ Len(ran) > 0
            BY <2>2, <1>2, <1>3, <1>5 DEF Ahead, TypeOK
        <3>2. \A i \in 1..Len(ran) : i < Len(ran) => ran[i] < ran[Len(ran)]
            BY <1>2, <3>1 DEF RunsInOrder
        <3>3. hooks[at + 1] \in Int /\ \A i \in 1..Len(ran) : ran[i] \in Int
            BY <1>3, <1>5
        <3>4. Len(ran) \in 1..Len(ran)
            BY <1>2, <3>1
        <3> TAKE i \in 1..Len(ran)
        <3>5. CASE i = Len(ran)
            BY <3>1, <3>5
        <3>6. CASE i < Len(ran)
            BY <3>1, <3>2, <3>3, <3>4, <3>6
        <3> QED
            BY <1>2, <3>5, <3>6
    <2> QED
        BY <2>1, <2>2
<1>11. RunsInOrder'
    <2> SUFFICES ASSUME NEW i \in 1..Len(ran'), NEW j \in 1..Len(ran'), i < j
                 PROVE  ran'[i] < ran'[j]
        BY DEF RunsInOrder
    <2>1. i \in 1..Len(ran)
        BY <1>2, <1>4
    <2>2. CASE j \in 1..Len(ran)
        BY <2>1, <2>2, <1>4 DEF RunsInOrder
    <2>3. CASE j = Len(ran) + 1
        BY <2>1, <2>3, <1>4, <1>10
    <2>4. j \in 1..Len(ran) \/ j = Len(ran) + 1
        <3>1. \A n \in Nat : \A k \in 1..(n + 1) : k \in 1..n \/ k = n + 1
            OBVIOUS
        <3> QED
            BY <1>2, <1>4, <3>1, Zenon
    <2> QED
        BY <2>2, <2>3, <2>4
<1>12. Ahead'
    BY <1>1, <1>2, <1>3, <1>7 DEF Ahead, Sorted
<1>13. Passed'
    <2> SUFFICES ASSUME ~shifted
                 PROVE  \A j \in 1..Len(hooks) : j <= at + 1 => Ran(hooks[j])'
        BY <1>1, <1>2 DEF Passed
    <2> TAKE j \in 1..Len(hooks)
    <2> HAVE j <= at + 1
    <2>1. CASE j = at + 1
        <3>1. Len(ran) + 1 \in 1..Len(ran') /\ ran'[Len(ran) + 1] = hooks'[j]
            BY <2>1, <1>1, <1>2, <1>4
        <3> QED
            BY <3>1 DEF Ran
    <2>2. CASE j <= at
        <3>1. phase = "draining"
            BY <2>2, <1>2 DEF Untouched
        <3>2. PICK i \in 1..Len(ran) : ran[i] = hooks[j]
            BY <3>1, <2>2 DEF Passed, Ran
        <3>3. i \in 1..Len(ran') /\ ran'[i] = hooks'[j]
            BY <3>2, <1>1, <1>2, <1>4
        <3> QED
            BY <3>3 DEF Ran
    <2> QED
        BY <2>1, <2>2, <1>2
<1>14. FirstSince'
    <2>1. CASE phase = "up"
        BY <2>1, <1>1 DEF Untouched, FirstSince
    <2>2. CASE phase = "draining"
        <3>1. Len(ran) > 0
            BY <2>2 DEF TypeOK
        <3>2. Len(ran') # 1
            BY <3>1, <1>2, <1>4
        <3> QED
            BY <3>2 DEF FirstSince
    <2> QED
        BY <2>1, <2>2
<1>15. Spent'
    <2>1. Deadline(ran[Len(ran)])' = Deadline(hooks[at + 1])
        BY <1>1, <1>7 DEF Deadline
    <2>2. elapsed <= budget
        <3>1. CASE phase = "up"
            BY <3>1 DEF Untouched
        <3>2. CASE phase = "draining"
            <4>1. ran[Len(ran)] \in 1..Len(names)
                BY <3>2, <1>2, <1>5 DEF TypeOK
            <4>2. Deadline(ran[Len(ran)]) \in Nat
                BY <4>1, DeadlineBelowWatchdog, ParametersAssumption
            <4> QED
                BY <3>2, <4>2, <1>2 DEF Spent, TypeOK
        <3> QED
            BY <3>1, <3>2
    <2> QED
        BY <1>1, <1>2, <1>6, <2>1, <2>2, ParametersAssumption DEF Spent, TypeOK
<1> QED
    BY <1>1, <1>9, <1>11, <1>12, <1>13, <1>14, <1>15
    DEF Sorted, Untouched, ForcedTakesTime, Alive

\* The loop is left, or was left before.
LEMMA DrainedInv ==
    ASSUME IInv, phase' = "drained", UNCHANGED <<at, ran, budget, hookMs>>, Alive,
           ended' \in {"no", "clean", "escalated", "killed"},
           Steady, handled' \subseteq Events, awaited' \in BOOLEAN
    PROVE  IInv'
BY DEF IInv, Steady, TypeOK, Sorted, RunsInOrder, Untouched, Ahead, Passed,
       FirstSince, Spent, ForcedTakesTime, Events

\* A step that leaves the drain as it is, and may end the process.
LEMMA QuietInv ==
    ASSUME IInv, UNCHANGED <<phase, at, ran, budget, hookMs, names, hooks, elapsed, shifted>>,
           ended' \in {"no", "clean", "escalated", "killed"},
           handled' \subseteq Events, awaited' \in BOOLEAN, held' \in BOOLEAN
    PROVE  IInv'
BY DEF IInv, TypeOK, Sorted, RunsInOrder, Untouched, Ahead, Passed, Ran,
       FirstSince, Spent, ForcedTakesTime, Events, Deadline

\* Going on from the current position.
LEMMA AdvanceInv ==
    ASSUME IInv, phase \in {"up", "draining"}, Alive,
           NEW wrapped \in BOOLEAN, RunOrFinish(at + 1, wrapped),
           Steady, handled' \subseteq Events, awaited' \in BOOLEAN
    PROVE  IInv'
<1>1. CASE at + 1 <= Len(hooks) /\ RunHook(at + 1)
    BY <1>1, RunHookInv
<1>2. CASE phase' = "drained" /\ ended' = (IF wrapped THEN "clean" ELSE ended)
           /\ UNCHANGED <<at, ran, budget, hookMs>>
    <2>1. ended' \in {"no", "clean", "escalated", "killed"}
        BY <1>2 DEF Alive
    <2> QED
        BY <1>2, <2>1, DrainedInv
<1> QED
    BY <1>1, <1>2 DEF RunOrFinish

\* Every trigger, whatever caused it.
LEMMA TriggerInv ==
    ASSUME IInv, Alive, NEW wrapped \in BOOLEAN, Trigger(wrapped),
           Steady, handled' \subseteq Events, awaited' \in BOOLEAN
    PROVE  IInv'
<1>1. CASE phase = "up" /\ RunOrFinish(1, wrapped)
    <2>1. at + 1 = 1
        BY <1>1 DEF IInv, Untouched
    <2>2. RunOrFinish(at + 1, wrapped)
        BY <1>1, <2>1
    <2> QED
        BY <1>1, <2>2, AdvanceInv
<1>2. CASE UNCHANGED <<phase, at, ran, budget, hookMs>>
           /\ ended' \in {ended, IF wrapped THEN "clean" ELSE ended}
    <2>1. ended' \in {"no", "clean", "escalated", "killed"}
        BY <1>2 DEF Alive
    <2>2. held' \in BOOLEAN /\ UNCHANGED <<names, hooks, elapsed, shifted>>
        BY DEF Steady, IInv, TypeOK
    <2> QED
        BY <1>2, <2>1, <2>2, QuietInv
<1> QED
    BY <1>1, <1>2 DEF Trigger

\* Time goes on while no timer is due.
LEMMA TickInv ==
    ASSUME IInv, Tick
    PROVE  IInv'
<1> USE DEF IInv
<1>1. /\ phase = "draining" /\ elapsed < ForceExitAfterMs
      /\ hookMs < Deadline(ran[Len(ran)])
      /\ elapsed' = elapsed + 1 /\ hookMs' = hookMs + 1
      /\ UNCHANGED <<names, hooks, phase, at, ran, budget, handled, awaited, held, shifted, ended>>
    BY DEF Tick
<1>2. ran[Len(ran)] \in 1..Len(names)
    BY <1>1 DEF TypeOK
<1>3. Deadline(ran[Len(ran)]) \in Nat /\ Deadline(ran[Len(ran)])' = Deadline(ran[Len(ran)])
    BY <1>1, <1>2, DeadlineBelowWatchdog, ParametersAssumption DEF Deadline
<1>4. TypeOK'
    BY <1>1, <1>3, ParametersAssumption DEF TypeOK, Events
<1> QED
    BY <1>1, <1>3, <1>4, ParametersAssumption
    DEF Sorted, RunsInOrder, Untouched, Ahead, Passed, Ran, FirstSince, Spent,
        ForcedTakesTime, TypeOK

\* When the watchdog fires, a second hook has been started, and those started
\* had the whole time between them.
LEMMA WatchdogInv ==
    ASSUME IInv, Watchdog
    PROVE  IInv'
<1> USE DEF IInv
<1>1. /\ phase = "draining" /\ elapsed >= ForceExitAfterMs /\ ended' = "watchdog"
      /\ UNCHANGED <<names, hooks, phase, at, ran, budget, elapsed, hookMs, handled, awaited,
                     held, shifted>>
    BY DEF Watchdog
<1>2. ran[Len(ran)] \in 1..Len(names) /\ Len(ran) \in Nat /\ Len(ran) > 0
    BY <1>1 DEF TypeOK
<1>3. Deadline(ran[Len(ran)]) \in 1..(ForceExitAfterMs - 1)
    BY <1>2, DeadlineBelowWatchdog
<1>4. hookMs < elapsed
    BY <1>1, <1>3, ParametersAssumption DEF TypeOK
<1>5. Len(ran) > 1
    <2>1. hookMs # elapsed
        BY <1>4, ParametersAssumption DEF TypeOK
    <2>2. Len(ran) # 1
        BY <1>1, <2>1 DEF FirstSince
    <2>3. \A n \in Nat : n > 0 /\ n # 1 => n > 1
        OBVIOUS
    <2> QED
        BY <1>2, <2>2, <2>3, Zenon
<1>6. TypeOK'
    BY <1>1 DEF TypeOK, Events, Deadline
<1>7. budget >= ForceExitAfterMs
    BY <1>1, <1>3, ParametersAssumption DEF Spent, TypeOK
<1> QED
    BY <1>1, <1>5, <1>6, <1>7
    DEF Deadline, Sorted, RunsInOrder, Untouched, Ahead, Passed, Ran, FirstSince, Spent, ForcedTakesTime

\* Every step preserves the invariant.
LEMMA NextInv ==
    ASSUME IInv, [Next]_vars
    PROVE  IInv'
<1> USE DEF IInv
<1>1. CASE UNCHANGED vars
    <2>1. TypeOK'
        BY <1>1 DEF vars, TypeOK, Events, Deadline
    <2>2. Sorted(hooks') /\ RunsInOrder' /\ Untouched'
        BY <1>1 DEF vars, Sorted, RunsInOrder, Untouched
    <2>3. Ahead' /\ Passed'
        BY <1>1 DEF vars, Ahead, Passed, Ran
    <2>4. FirstSince' /\ Spent' /\ ForcedTakesTime'
        BY <1>1 DEF vars, FirstSince, Spent, ForcedTakesTime, Deadline
    <2> QED
        BY <2>1, <2>2, <2>3, <2>4
<1>2. ASSUME NEW name \in Names, AddCleanup(name)
      PROVE  IInv'
    BY <1>2, AddInv
<1>3. ASSUME NEW hook \in 1..Len(names), Unsubscribe(hook)
      PROVE  IInv'
    BY <1>3, UnsubscribeInv
<1>4. CASE HookSettles \/ HookTimesOut
    <2>1. /\ phase = "draining" /\ Alive /\ awaited \in BOOLEAN
          /\ RunOrFinish(at + 1, awaited) /\ Steady
          /\ handled' \subseteq Events /\ awaited' \in BOOLEAN
        BY <1>4 DEF HookSettles, HookTimesOut, Steady, TypeOK
    <2> QED
        BY <2>1, AdvanceInv
<1>5. CASE Tick
    BY <1>5, TickInv
<1>6. CASE Watchdog
    BY <1>6, WatchdogInv
<1>7. ASSUME NEW s \in Signals, Signal(s)
      PROVE  IInv'
    <2>1. /\ Alive /\ handled' \subseteq Events /\ awaited' \in BOOLEAN /\ Steady
          /\ held' \in BOOLEAN
        BY <1>7 DEF Signal, Steady, TypeOK, Events
    <2>2. CASE Trigger(FALSE)
        BY <2>1, <2>2, TriggerInv
    <2>3. CASE ended' = "escalated" /\ UNCHANGED <<phase, at, ran, budget, hookMs>>
        <3>1. UNCHANGED <<names, hooks, elapsed, shifted>>
            BY <2>1 DEF Steady
        <3> QED
            BY <2>1, <2>3, <3>1, QuietInv
    <2> QED
        BY <1>7, <2>2, <2>3 DEF Signal
<1>8. ASSUME NEW e \in Events \ Signals, Fault(e)
      PROVE  IInv'
    <2>1. /\ Alive /\ handled' \subseteq Events /\ awaited' \in BOOLEAN /\ Steady
          /\ Trigger(FALSE)
        BY <1>8 DEF Fault, Steady, TypeOK
    <2> QED
        BY <2>1, TriggerInv
<1>9. CASE StdinEnd
    <2>1. /\ Alive /\ handled' \subseteq Events /\ awaited' \in BOOLEAN /\ Steady
          /\ Trigger(TRUE)
        BY <1>9 DEF StdinEnd, Steady, TypeOK
    <2> QED
        BY <2>1, TriggerInv
<1>10. ASSUME NEW e \in Events, HandledAlready(e)
       PROVE  IInv'
    <2>1. /\ UNCHANGED <<phase, at, ran, budget, hookMs, names, hooks, elapsed, shifted>>
          /\ ended' = "killed" /\ handled' \subseteq Events
          /\ awaited' \in BOOLEAN /\ held' \in BOOLEAN
        BY <1>10 DEF HandledAlready, TypeOK
    <2> QED
        BY <2>1, QuietInv
<1>11. CASE LetGo \/ RunsOut
    <2>1. /\ UNCHANGED <<phase, at, ran, budget, hookMs, names, hooks, elapsed, shifted>>
          /\ ended' \in {"no", "clean"} /\ handled' \subseteq Events
          /\ awaited' \in BOOLEAN /\ held' \in BOOLEAN
        BY <1>11 DEF LetGo, RunsOut, Alive, TypeOK
    <2> QED
        BY <2>1, QuietInv
<1> QED
    BY <1>1, <1>2, <1>3, <1>4, <1>5, <1>6, <1>7, <1>8, <1>9, <1>10, <1>11 DEF Next, Timers

-----------------------------------------------------------------------------
(***************************************************************************)
(* The theorems                                                            *)
(***************************************************************************)
\* The invariant of shutdown.ts: the loop over the live array of hooks and
\* the order of registration agree.
THEOREM Invariance == Spec => []IInv
<1>1. Init => IInv
    BY InitInv
<1>2. IInv /\ [Next]_vars => IInv'
    BY NextInv
<1> QED
    BY <1>1, <1>2, PTL DEF Spec

\* Types; the current hook never outlives its deadline.
THEOREM TypeCorrect == Spec => []TypeOK
<1>1. IInv => TypeOK
    BY DEF IInv
<1> QED
    BY <1>1, Invariance, PTL

\* Hooks run in the order of registration and never twice (runCleanup()),
\* whatever is triggered, registered or removed meanwhile.
THEOREM HooksInOrder == Spec => []RunsInOrder
<1>1. IInv => RunsInOrder
    BY DEF IInv
<1> QED
    BY <1>1, Invariance, PTL

\* The clamp in addCleanup() keeps one hook, however long it hangs, from
\* bringing about the watchdog of trigger(): that takes two or more hooks whose
\* deadlines together are at least the watchdog's.
THEOREM ForcedExitTakesTime == Spec => []ForcedTakesTime
<1>1. IInv => ForcedTakesTime
    BY DEF IInv
<1> QED
    BY <1>1, Invariance, PTL

\* runCleanup() leaves no registered hook out, unless one was removed that
\* had had its turn.
THEOREM NoHookSkipped == Spec => NoneSkipped
<1> DEFINE Complete ==
        phase # "drained" /\ phase' = "drained"
            => shifted \/ \A i \in 1..Len(hooks) : Ran(hooks[i])
<1>1. IInv /\ [Next]_vars => [Complete]_vars
    <2> SUFFICES ASSUME IInv, Next, phase # "drained", phase' = "drained", ~shifted,
                        NEW i \in 1..Len(hooks)
                 PROVE  Ran(hooks[i])
        BY DEF vars
    <2> USE DEF IInv
    <2>1. at \in Nat /\ Len(hooks) \in Nat
        BY DEF TypeOK
    <2>2. ASSUME NEW wrapped, RunOrFinish(at + 1, wrapped), phase \in {"up", "draining"}
          PROVE  Ran(hooks[i])
        <3>1. at + 1 > Len(hooks)
            BY <2>2, <2>1 DEF RunOrFinish, RunHook
        <3>2. phase = "draining"
            BY <2>1, <2>2, <3>1 DEF Untouched
        <3> QED
            BY <2>1, <3>1, <3>2 DEF Passed
    <2>3. ASSUME NEW wrapped, Trigger(wrapped)
          PROVE  Ran(hooks[i])
        <3>1. phase = "up" /\ RunOrFinish(1, wrapped)
            BY <2>3 DEF Trigger
        <3>2. RunOrFinish(at + 1, wrapped)
            BY <3>1 DEF Untouched
        <3> QED
            BY <2>2, <3>1, <3>2
    <2> QED
        BY <2>2, <2>3 DEF Next, Timers, AddCleanup, Unsubscribe, HookSettles,
            HookTimesOut, Watchdog, Tick, Signal, HandledAlready, Fault, StdinEnd,
            LetGo, RunsOut
<1> QED
    BY <1>1, Invariance, PTL DEF Spec, NoneSkipped

\* The drain is well typed and runs its hooks in order (drain()).
THEOREM DrainInOrder == Spec => []DrainInv
<1>1. TypeOK /\ RunsInOrder => DrainInv
  BY DEF DrainInv
<1> QED
  BY <1>1, TypeCorrect, HooksInOrder, PTL

-----------------------------------------------------------------------------
(***************************************************************************)
(* HttpFront                                                               *)
(***************************************************************************)
UnderWay == {r \in Requests : /\ response[r] \in {"open", "streaming", "ended"}
                              /\ status[r] \notin {400, 403, 413, 503}}

\* The requests that hold a slot are those under way that passed the gate; a
\* response has a status once its headers are out.
SlotsOK ==
    /\ response \in [Requests -> {None, "open", "streaming", "ended", "finished", "closed"}]
    /\ status \in [Requests -> {0, 200, 400, 403, 405, 413, 429, 503, 504}]
    /\ counted = IF Gated THEN UnderWay ELSE {}
    /\ inFlight = Cardinality(counted)
    /\ Gated => inFlight <= MaxConcurrent
    /\ \A r \in Requests : /\ response[r] \in {None, "open"} => status[r] = 0
                           /\ response[r] = "streaming" => status[r] = 200

TimesOK ==
    /\ now \in 0..MaxTime
    /\ since \in [Requests -> 0..now]
    /\ DeadlineHolds

(***************************************************************************)
(* What is known of a key whose window began at s and has count c: all     *)
(* that passed came before the window's end, as many as were counted in    *)
(* the window and not more than the limit, and not more than the limit in  *)
(* the last window's length before it.  Without the latter, nothing bounds *)
(* a span that begins there and ends in this window.                       *)
(***************************************************************************)
Within(ps, key, a, b) == {p \in ps : p.key = key /\ p.at \in a..b}

KeyFine(ps, key, s, c) ==
    /\ \A p \in ps : p.key = key => p.at < s + Window
    /\ Cardinality(Within(ps, key, s, s + Window - 1)) <= c
    /\ Cardinality(Within(ps, key, s, s + Window - 1)) <= RateLimit
    /\ Cardinality(Within(ps, key, s - Window + 1, s - 1)) <= RateLimit

SpansFine(ps, key) ==
    \A p \in ps : p.key = key
        => Cardinality(Within(ps, key, p.at, p.at + Window - 1)) <= 2 * RateLimit

LimiterOK ==
    /\ hits \in Seq([key : STRING, count : Nat \ {0}, start : 0..now])
    /\ Len(hits) <= MaxKeys
    /\ \A i, j \in DOMAIN hits : hits[i].key = hits[j].key => i = j
    /\ passed \subseteq [key : STRING, at : 0..now, by : Requests] /\ IsFiniteSet(passed)
    /\ \A p \in passed : /\ \E i \in DOMAIN hits : hits[i].key = p.key
                         /\ SpansFine(passed, p.key)
    /\ \A i \in DOMAIN hits : KeyFine(passed, hits[i].key, hits[i].start, hits[i].count)


FrontIInv ==
    SlotsOK /\ TimesOK /\ LimiterOK /\ CountedUnderOwnKey /\ RetryFindsNewWindow
-----------------------------------------------------------------------------
(***************************************************************************)
(* The limiter's windows                                                   *)
(***************************************************************************)
LEMMA WithinFacts ==
    ASSUME NEW ps, IsFiniteSet(ps), NEW key, NEW a, NEW b
    PROVE  /\ IsFiniteSet(Within(ps, key, a, b))
           /\ Cardinality(Within(ps, key, a, b)) \in Nat
<1>1. Within(ps, key, a, b) \subseteq ps
  BY DEF Within
<1> QED BY <1>1, FS_Subset, FS_CardinalityType

LEMMA Fewer ==
    ASSUME NEW S, IsFiniteSet(S), NEW T, T \subseteq S
    PROVE  /\ IsFiniteSet(T) /\ Cardinality(T) \in Nat /\ Cardinality(S) \in Nat
           /\ Cardinality(T) <= Cardinality(S)
<1>1. T \in SUBSET S
  OBVIOUS
<1>2. IsFiniteSet(T) /\ Cardinality(T) <= Cardinality(S)
  BY <1>1, FS_Subset
<1> QED BY <1>2, FS_CardinalityType

\* One more request in a set counts for one at most.
LEMMA OneMore ==
    ASSUME NEW S, IsFiniteSet(S), NEW x, NEW T, T \subseteq S \cup {x}
    PROVE  Cardinality(T) <= Cardinality(S) + 1 /\ Cardinality(T) \in Nat /\ IsFiniteSet(T)
<1>1. Cardinality(S) \in Nat
  BY FS_CardinalityType
<1>2. /\ IsFiniteSet(S \cup {x})
      /\ Cardinality(S \cup {x}) = IF x \in S THEN Cardinality(S) ELSE Cardinality(S) + 1
  BY FS_AddElement
<1>3. Cardinality(S \cup {x}) <= Cardinality(S) + 1
  BY <1>1, <1>2
<1>4. /\ IsFiniteSet(T) /\ Cardinality(T) \in Nat /\ Cardinality(S \cup {x}) \in Nat
      /\ Cardinality(T) <= Cardinality(S \cup {x})
  BY <1>2, Fewer
<1> QED BY <1>1, <1>3, <1>4

LEMMA AtMostOne ==
    ASSUME NEW x, NEW T, T \subseteq {x}
    PROVE  Cardinality(T) \in {0, 1}
<1>1. CASE T = {}
  BY <1>1, FS_EmptySet
<1>2. CASE T = {x}
  BY <1>2, FS_Singleton
<1> QED BY <1>1, <1>2

\* What is known of a key depends on what passed under it.
LEMMA KeyAlone ==
    ASSUME NEW ps, NEW qs, NEW key, NEW s, NEW c,
           {p \in ps : p.key = key} = {p \in qs : p.key = key}
    PROVE  /\ KeyFine(ps, key, s, c) => KeyFine(qs, key, s, c)
           /\ SpansFine(ps, key) => SpansFine(qs, key)
<1>1. \A p : p \in ps /\ p.key = key <=> p \in qs /\ p.key = key
  OBVIOUS
<1>2. \A a, b : Within(ps, key, a, b) = Within(qs, key, a, b)
  BY <1>1 DEF Within
<1> QED BY <1>1, <1>2 DEF KeyFine, SpansFine

LEMMA MoreHitsAreFine ==
    ASSUME NEW ps, NEW key, NEW s, NEW c \in Nat, KeyFine(ps, key, s, c), IsFiniteSet(ps)
    PROVE  KeyFine(ps, key, s, c + 1)
BY WithinFacts DEF KeyFine

LEMMA PassUnderNewKey ==
    ASSUME NEW ps, NEW key, NEW t \in Nat, NEW x, x.key = key, x.at = t, RateLimit >= 1,
           \A p \in ps : p.key # key
    PROVE  KeyFine(ps \cup {x}, key, t, 1) /\ SpansFine(ps \cup {x}, key)
<1>1. Window \in Nat \ {0} /\ RateLimit \in Nat
  BY FrontParameters
<1>2. \A a, b : Within(ps \cup {x}, key, a, b) \subseteq {x}
  BY DEF Within
<1>3. \A a, b : Cardinality(Within(ps \cup {x}, key, a, b)) \in {0, 1}
  BY <1>2, AtMostOne
<1>4. \A p \in ps \cup {x} : p.key = key => p = x
  OBVIOUS
<1>5. \A p \in ps \cup {x} : p.key = key => p.at < t + Window
  BY <1>1, <1>4
<1>6. KeyFine(ps \cup {x}, key, t, 1)
  BY <1>1, <1>3, <1>5 DEF KeyFine
<1>7. SpansFine(ps \cup {x}, key)
  <2> SUFFICES ASSUME NEW p \in ps \cup {x}
               PROVE  Cardinality(Within(ps \cup {x}, key, p.at, p.at + Window - 1))
                          <= 2 * RateLimit
    BY DEF SpansFine
  <2>1. Cardinality(Within(ps \cup {x}, key, p.at, p.at + Window - 1)) \in {0, 1}
    BY <1>3
  <2> QED BY <1>1, <2>1
<1> QED BY <1>6, <1>7

LEMMA PassInNewWindow ==
    ASSUME NEW ps, IsFiniteSet(ps), \A p \in ps : p.at \in Nat,
           NEW key, NEW s \in Nat, NEW c \in Nat, NEW t \in Nat, t - s >= Window,
           KeyFine(ps, key, s, c), SpansFine(ps, key),
           NEW x, x.key = key, x.at = t, RateLimit >= 1
    PROVE  KeyFine(ps \cup {x}, key, t, 1) /\ SpansFine(ps \cup {x}, key)
<1>1. Window \in Nat \ {0} /\ RateLimit \in Nat
  BY FrontParameters
<1> DEFINE qs == ps \cup {x}
           Last == Within(ps, key, s, s + Window - 1)
<1>2. \A p \in ps : p.key = key => p.at < t
  BY <1>1 DEF KeyFine
<1>3. Within(qs, key, t, t + Window - 1) \subseteq {x}
  BY <1>1, <1>2 DEF Within
<1>4. Cardinality(Within(qs, key, t, t + Window - 1)) \in {0, 1}
  BY <1>3, AtMostOne
<1>5. IsFiniteSet(Last) /\ Cardinality(Last) \in Nat /\ Cardinality(Last) <= RateLimit
  BY WithinFacts DEF KeyFine
<1>6. \A p \in ps : p.key = key /\ p.at > t - Window => p \in Last
  BY <1>1 DEF Within, KeyFine
<1>7. Cardinality(Within(qs, key, t - Window + 1, t - 1)) <= RateLimit
  <2>1. \A p \in Within(qs, key, t - Window + 1, t - 1) : p \in ps /\ p.key = key
            /\ p.at > t - Window
    BY <1>1 DEF Within
  <2>2. Within(qs, key, t - Window + 1, t - 1) \subseteq Last
    BY <1>6, <2>1
  <2>3. Cardinality(Within(qs, key, t - Window + 1, t - 1)) <= Cardinality(Last)
        /\ Cardinality(Within(qs, key, t - Window + 1, t - 1)) \in Nat
    BY <1>5, <2>2, Fewer
  <2> QED BY <1>1, <1>5, <2>3
<1>8. KeyFine(qs, key, t, 1)
  <2>1. \A p \in qs : p.key = key => p.at < t + Window
    BY <1>1, <1>2
  <2> QED BY <1>1, <1>4, <1>7, <2>1 DEF KeyFine
<1>9. SpansFine(qs, key)
  <2> SUFFICES ASSUME NEW p \in qs, p.key = key
               PROVE  Cardinality(Within(qs, key, p.at, p.at + Window - 1)) <= 2 * RateLimit
    BY DEF SpansFine
  <2>1. CASE p = x
    BY <1>1, <1>4, <2>1
  <2>2. CASE p \in ps /\ t \notin p.at..(p.at + Window - 1)
    <3>1. Within(qs, key, p.at, p.at + Window - 1) = Within(ps, key, p.at, p.at + Window - 1)
      BY <2>2 DEF Within
    <3> QED BY <2>2, <3>1 DEF SpansFine
  <2>3. CASE p \in ps /\ t \in p.at..(p.at + Window - 1)
    <3>1. p.at \in Nat /\ p.at > t - Window
      BY <1>1, <2>3
    <3>2. Within(qs, key, p.at, p.at + Window - 1) \subseteq Last \cup {x}
      <4> SUFFICES ASSUME NEW o \in Within(qs, key, p.at, p.at + Window - 1), o # x
                   PROVE  o \in Last
        OBVIOUS
      <4>1. o \in ps /\ o.key = key /\ o.at >= p.at /\ o.at \in Nat
        BY <3>1, <1>1 DEF Within
      <4> QED BY <1>1, <1>6, <3>1, <4>1
    <3>3. Cardinality(Within(qs, key, p.at, p.at + Window - 1)) <= Cardinality(Last) + 1
      BY <1>5, <3>2, OneMore
    <3>4. Cardinality(Within(qs, key, p.at, p.at + Window - 1)) \in Nat
      BY <1>5, <3>2, OneMore
    <3> QED BY <1>1, <1>5, <3>3, <3>4
  <2> QED BY <2>1, <2>2, <2>3
<1> QED BY <1>8, <1>9

LEMMA PassInSameWindow ==
    ASSUME NEW ps, IsFiniteSet(ps), \A p \in ps : p.at \in Nat,
           NEW key, NEW s \in Nat, NEW c \in Nat, NEW t \in Nat, s <= t, t - s < Window,
           KeyFine(ps, key, s, c), SpansFine(ps, key), c + 1 <= RateLimit,
           NEW x, x.key = key, x.at = t
    PROVE  KeyFine(ps \cup {x}, key, s, c + 1) /\ SpansFine(ps \cup {x}, key)
<1>1. Window \in Nat \ {0} /\ RateLimit \in Nat
  BY FrontParameters
<1> DEFINE qs == ps \cup {x}
           Before == Within(ps, key, s - Window + 1, s - 1)
           Here == Within(qs, key, s, s + Window - 1)
<1>2. \A p \in qs : p.key = key => p.at < s + Window
  BY <1>1 DEF KeyFine
<1>3. IsFiniteSet(Here) /\ Cardinality(Here) \in Nat /\ Cardinality(Here) <= c + 1
  <2>1. Here \subseteq Within(ps, key, s, s + Window - 1) \cup {x}
    BY DEF Within
  <2>2. Cardinality(Within(ps, key, s, s + Window - 1)) \in Nat
        /\ IsFiniteSet(Within(ps, key, s, s + Window - 1))
    BY WithinFacts
  <2> HIDE DEF Here
  <2>3. Cardinality(Here) <= Cardinality(Within(ps, key, s, s + Window - 1)) + 1
        /\ Cardinality(Here) \in Nat /\ IsFiniteSet(Here)
    BY <2>1, <2>2, OneMore
  <2> QED BY <2>2, <2>3 DEF KeyFine
<1>4. IsFiniteSet(Before) /\ Cardinality(Before) \in Nat /\ Cardinality(Before) <= RateLimit
  BY WithinFacts DEF KeyFine
<1>5. KeyFine(qs, key, s, c + 1)
  <2>1. Within(qs, key, s - Window + 1, s - 1) = Before
    BY <1>1 DEF Within
  <2> QED BY <1>1, <1>2, <1>3, <1>4, <2>1 DEF KeyFine
<1>6. SpansFine(qs, key)
  <2> SUFFICES ASSUME NEW p \in qs, p.key = key
               PROVE  Cardinality(Within(qs, key, p.at, p.at + Window - 1)) <= 2 * RateLimit
    BY DEF SpansFine
  <2> DEFINE Span == Within(qs, key, p.at, p.at + Window - 1)
  <2>1. CASE p = x
    <3>1. Span \subseteq Here
      <4> SUFFICES ASSUME NEW o \in Span PROVE o \in Here
        OBVIOUS
      <4>1. o \in qs /\ o.key = key /\ o.at >= t /\ o.at \in Nat
        BY <1>1, <2>1 DEF Within
      <4> QED BY <1>1, <1>2, <4>1 DEF Within
    <3>2. Cardinality(Span) <= Cardinality(Here) /\ Cardinality(Span) \in Nat
      BY <1>3, <3>1, Fewer
    <3> QED BY <1>1, <1>3, <3>2
  <2>2. CASE p \in ps /\ t \notin p.at..(p.at + Window - 1)
    <3>1. Span = Within(ps, key, p.at, p.at + Window - 1)
      BY <2>2 DEF Within
    <3> QED BY <2>2, <3>1 DEF SpansFine
  <2>3. CASE p \in ps /\ t \in p.at..(p.at + Window - 1)
    <3>1. p.at \in Nat /\ p.at > s - Window
      BY <1>1, <2>3
    <3>2. Span \subseteq Before \cup Here
      <4> SUFFICES ASSUME NEW o \in Span, o \notin Here PROVE o \in Before
        OBVIOUS
      <4>1. o \in qs /\ o.key = key /\ o.at >= p.at /\ o.at \in Nat /\ o.at < s + Window
        BY <1>1, <1>2, <3>1 DEF Within
      <4>2. o.at < s
        BY <1>1, <4>1 DEF Within
      <4>3. o # x
        BY <4>2
      <4> QED BY <1>1, <3>1, <4>1, <4>2, <4>3 DEF Within
    <3>3. IsFiniteSet(Before \cup Here)
          /\ Cardinality(Before \cup Here) <= Cardinality(Before) + Cardinality(Here)
      <4>1. Cardinality(Before \cup Here)
               = Cardinality(Before) + Cardinality(Here) - Cardinality(Before \cap Here)
            /\ IsFiniteSet(Before \cup Here)
        BY <1>3, <1>4, FS_Union
      <4>2. Cardinality(Before \cap Here) \in Nat
        BY <1>3, Fewer
      <4> QED BY <1>3, <1>4, <4>1, <4>2
    <3>4. Cardinality(Span) <= Cardinality(Before \cup Here) /\ Cardinality(Span) \in Nat
          /\ Cardinality(Before \cup Here) \in Nat
      BY <3>2, <3>3, Fewer
    <3> QED BY <1>1, <1>3, <1>4, <3>3, <3>4
  <2> QED BY <2>1, <2>2, <2>3
<1> QED BY <1>5, <1>6

-----------------------------------------------------------------------------
(***************************************************************************)
(* The keys                                                                *)
(***************************************************************************)
\* A client that is counted is counted under its own address.
LEMMA OwnKey ==
    ASSUME NEW q \in Kinds, Refusal(q) = 0
    PROVE  ClientIp(q) = q.client /\ q.client \in STRING
<1>1. /\ q.client \in STRING /\ q.client \notin TrustedProxies
      /\ q.forged \in Seq(STRING) /\ q.via \in Seq(TrustedProxies)
      /\ q.via # <<>> => TrustProxy
  BY Deployment
<1>2. CASE q.via = <<>>
  <2>1. Peer(q) = q.client
    BY <1>2 DEF Peer
  <2>2. Chain(q) = <<>>
    BY <1>1, <2>1 DEF Chain
  <2> QED BY <1>1, <2>1, <2>2 DEF ClientIp
<1>3. CASE q.via # <<>>
  <2> DEFINE n == Len(q.forged) + 1
             rest == SubSeq(q.via, 1, Len(q.via) - 1)
             chain == q.forged \o <<q.client>> \o rest
  <2>1. Len(q.via) \in Nat \ {0} /\ Peer(q) \in TrustedProxies
    BY <1>1, <1>3 DEF Peer
  <2>2. Chain(q) = chain
    BY <1>1, <1>3, <2>1 DEF Chain, Header
  <2>3. rest \in Seq(TrustedProxies) /\ \A i \in 1..Len(rest) : rest[i] \in TrustedProxies
    BY <1>1, <2>1
  <2>4. n \in Nat \ {0} /\ Len(rest) \in Nat
    BY <1>1, <2>3
  <2>5. chain \in Seq(STRING \cup TrustedProxies) /\ Len(chain) = n + Len(rest)
    BY <1>1, <2>3, <2>4
  <2>6. chain[n] = q.client /\ chain # <<>>
    BY <1>1, <2>3, <2>4, <2>5
  <2>7. ASSUME NEW i \in n + 1..Len(chain)
        PROVE  chain[i] \in TrustedProxies
    <3>1. i - n \in 1..Len(rest)
      <4> HIDE DEF chain, n, rest
      <4> QED BY <2>4, <2>5
    <3>2. chain[i] = rest[i - n]
      <4> HIDE DEF rest
      <4> QED BY <1>1, <2>3, <2>4, <2>5, <3>1
    <3> QED BY <2>3, <3>1, <3>2
  <2> HIDE DEF chain, n, rest
  <2>len. Len(chain) \in Nat /\ DOMAIN chain = 1..Len(chain)
    BY <2>5
  <2>8. ~(Len(chain) > MaxForwardedHops)
    BY <2>2 DEF Refusal
  <2> DEFINE far == {i \in DOMAIN chain : chain[i] \notin TrustedProxies}
  <2>9. n \in far /\ \A i \in far : i <= n
    <3>1. n \in far
      BY <1>1, <2>4, <2>5, <2>6, <2>len
    <3>2. ASSUME NEW i \in far PROVE i <= n
      BY <2>4, <2>7, <2>len, <3>2
    <3> QED BY <3>1, <3>2
  <2>10. far \subseteq Int
    BY <2>len
  <2>11. (CHOOSE i \in far : \A j \in far : j <= i) = n
    <3> HIDE DEF far
    <3>1. \A i \in far : (\A j \in far : j <= i) => i = n
      BY <2>4, <2>9, <2>10
    <3> QED BY <2>9, <3>1
  <2>12. far # {}
    BY <2>9
  <2>13. ClientIp(q) = chain[CHOOSE i \in far : \A j \in far : j <= i]
    BY <2>2, <2>6, <2>8, <2>12 DEF ClientIp
  <2> QED BY <1>1, <2>6, <2>11, <2>13
<1> QED BY <1>2, <1>3

(***************************************************************************)
(* The limiter                                                             *)
(***************************************************************************)
HitRecord == [key : STRING, count : Nat \ {0}, start : 0..now]

\* A request that is let pass, under a key the limiter may or may not know.
LEMMA PassKeepsLimiter ==
    ASSUME LimiterOK, now \in Nat, NEW r \in Requests, NEW key \in STRING, Limiting,
           Pass(r, key)
    PROVE  /\ hits' \in Seq(HitRecord) /\ Len(hits') <= MaxKeys
           /\ \A i, j \in DOMAIN hits' : hits'[i].key = hits'[j].key => i = j
           /\ passed' \subseteq [key : STRING, at : 0..now, by : Requests]
           /\ IsFiniteSet(passed')
           /\ \A p \in passed' : /\ \E i \in DOMAIN hits' : hits'[i].key = p.key
                                 /\ SpansFine(passed', p.key)
           /\ \A i \in DOMAIN hits' :
                 KeyFine(passed', hits'[i].key, hits'[i].start, hits'[i].count)
<1> DEFINE x == [key |-> key, at |-> now, by |-> r]
           stays == {p \in passed : \A i \in Dropped(key) : p.key # hits[i].key}
<1>1. /\ RateLimit \in Nat /\ RateLimit >= 1 /\ MaxKeys \in Nat \ {0} /\ Window \in Nat \ {0}
  BY FrontParameters DEF Limiting
<1>2. /\ hits \in Seq(HitRecord) /\ Len(hits) <= MaxKeys /\ Len(hits) \in Nat
      /\ DOMAIN hits = 1..Len(hits)
      /\ \A i \in 1..Len(hits) : /\ hits[i] \in HitRecord
                                 /\ hits[i].key \in STRING /\ hits[i].count \in Nat \ {0}
                                 /\ hits[i].start \in Nat /\ hits[i].start <= now
      /\ \A i, j \in 1..Len(hits) : hits[i].key = hits[j].key => i = j
  <2>1. hits \in Seq(HitRecord) /\ Len(hits) <= MaxKeys
    BY DEF LimiterOK, HitRecord
  <2>2. Len(hits) \in Nat /\ DOMAIN hits = 1..Len(hits)
        /\ \A i \in 1..Len(hits) : hits[i] \in HitRecord
    BY <2>1
  <2>3. \A h \in HitRecord : /\ h.key \in STRING /\ h.count \in Nat \ {0}
                             /\ h.start \in Nat /\ h.start <= now
    BY DEF HitRecord
  <2> QED BY <2>1, <2>2, <2>3 DEF LimiterOK
<1>3. /\ passed \subseteq [key : STRING, at : 0..now, by : Requests] /\ IsFiniteSet(passed)
      /\ \A p \in passed : /\ p.at \in Nat /\ p.key \in STRING
                           /\ \E i \in 1..Len(hits) : hits[i].key = p.key
                           /\ SpansFine(passed, p.key)
      /\ \A i \in 1..Len(hits) :
            KeyFine(passed, hits[i].key, hits[i].start, hits[i].count)
  <2>1. passed \subseteq [key : STRING, at : 0..now, by : Requests] /\ IsFiniteSet(passed)
    BY DEF LimiterOK
  <2>2. \A p \in passed : p.at \in Nat /\ p.key \in STRING
    BY <2>1
  <2>3. \A p \in passed : /\ \E i \in 1..Len(hits) : hits[i].key = p.key
                          /\ SpansFine(passed, p.key)
    BY <1>2 DEF LimiterOK
  <2>4. \A i \in 1..Len(hits) :
            KeyFine(passed, hits[i].key, hits[i].start, hits[i].count)
    BY <1>2 DEF LimiterOK
  <2> QED BY <2>1, <2>2, <2>3, <2>4
<1>4. passed' = stays \cup {x}
  BY DEF Pass
<1>5. x \in [key : STRING, at : 0..now, by : Requests] /\ x.key = key /\ x.at = now
  OBVIOUS
<1>6. stays \subseteq passed /\ IsFiniteSet(stays)
  <2>1. stays \subseteq passed
    OBVIOUS
  <2> QED BY <1>3, <2>1, Fewer
<1> HIDE DEF x
<1>7. passed' \subseteq [key : STRING, at : 0..now, by : Requests] /\ IsFiniteSet(passed')
  <2> HIDE DEF stays
  <2>1. IsFiniteSet(stays \cup {x})
    BY <1>6, FS_AddElement
  <2> QED BY <1>3, <1>4, <1>5, <1>6, <2>1
\* What passed under other keys is what it was, unless the key was dropped.
<1>8. ASSUME NEW k, k # key, \A i \in Dropped(key) : k # hits[i].key
      PROVE  {p \in passed : p.key = k} = {p \in passed' : p.key = k}
  BY <1>4, <1>5, <1>8
<1>9. ASSUME NEW k, k # key, \A i \in Dropped(key) : k # hits[i].key
      PROVE  /\ SpansFine(passed, k) => SpansFine(passed', k)
             /\ \A i \in 1..Len(hits) : hits[i].key = k =>
                   KeyFine(passed', k, hits[i].start, hits[i].count)
  <2>1. {p \in passed : p.key = k} = {p \in passed' : p.key = k}
    BY <1>8, <1>9
  <2>2. SpansFine(passed, k) => SpansFine(passed', k)
    BY <2>1, KeyAlone
  <2>3. ASSUME NEW i \in 1..Len(hits), hits[i].key = k
        PROVE  KeyFine(passed', k, hits[i].start, hits[i].count)
    <3>1. KeyFine(passed, k, hits[i].start, hits[i].count)
      BY <1>3, <2>3
    <3> QED BY <2>1, <3>1, KeyAlone
  <2> QED BY <2>2, <2>3
<1>10. CASE NewKey(key)
  <2> DEFINE kept == IF Dropped(key) = {} THEN hits ELSE Tail(hits)
             new == [key |-> key, count |-> 1, start |-> now]
             off == IF Dropped(key) = {} THEN 0 ELSE 1
  <2>1. new \in HitRecord /\ new.key = key /\ new.count = 1 /\ new.start = now
    BY DEF HitRecord
  <2> HIDE DEF new
  <2>2. Dropped(key) = {} \/ (Dropped(key) = {1} /\ Len(hits) >= MaxKeys)
    BY DEF Dropped
  <2>3. \A i \in 1..Len(hits) : hits[i].key # key
    BY <1>2, <1>10 DEF NewKey, Places
  <2>4. Dropped(key) = {} => Len(hits) < MaxKeys
    <3>1. Places(key) = {}
      BY <1>10 DEF NewKey
    <3> QED BY <1>1, <1>2, <3>1 DEF Dropped
  <2>5. /\ kept \in Seq(HitRecord) /\ Len(kept) = Len(hits) - off /\ off \in {0, 1}
        /\ Len(kept) + 1 <= MaxKeys
        /\ \A i \in 1..Len(kept) : kept[i] = hits[i + off] /\ i + off \in 1..Len(hits)
    <3>1. CASE Dropped(key) = {}
      BY <1>1, <1>2, <2>4, <3>1
    <3>2. CASE Dropped(key) # {}
      <4>1. Len(hits) \in Nat \ {0} /\ hits # <<>>
        BY <1>1, <1>2, <2>2, <3>2
      <4>2. Tail(hits) \in Seq(HitRecord) /\ Len(Tail(hits)) = Len(hits) - 1
            /\ \A i \in 1..Len(Tail(hits)) : Tail(hits)[i] = hits[i + 1]
        BY <1>2, <4>1
      <4> QED BY <1>1, <1>2, <3>2, <4>1, <4>2
    <3> QED BY <3>1, <3>2
  <2>off. (Dropped(key) = {} => off = 0) /\ (Dropped(key) = {1} => off = 1)
    OBVIOUS
  <2> HIDE DEF kept, off
  <2>6. hits' = Append(kept, new)
    BY <1>10 DEF NewKey, kept, new
  <2>7. /\ hits' \in Seq(HitRecord) /\ Len(hits') = Len(kept) + 1 /\ Len(kept) \in Nat
        /\ DOMAIN hits' = 1..Len(kept) + 1
        /\ hits'[Len(kept) + 1] = new
        /\ \A i \in 1..Len(kept) : hits'[i] = kept[i]
    BY <2>1, <2>5, <2>6
  <2>8. \A i \in 1..Len(kept) : /\ hits'[i] = hits[i + off] /\ i + off \in 1..Len(hits)
                                /\ hits'[i].key # key
    BY <2>3, <2>5, <2>7
  <2>9. \A i \in 1..Len(kept) : \A d \in Dropped(key) : hits'[i].key # hits[d].key
    <3> SUFFICES ASSUME NEW i \in 1..Len(kept), NEW d \in Dropped(key)
                 PROVE  hits'[i].key # hits[d].key
      OBVIOUS
    <3>1. d = 1 /\ off = 1 /\ 1 \in 1..Len(hits)
      BY <1>1, <1>2, <2>2, <2>off
    <3>2. i + off # 1 /\ i + off \in 1..Len(hits) /\ hits'[i] = hits[i + off]
      BY <2>5, <2>8, <3>1
    <3> QED BY <1>2, <3>1, <3>2
  <2>10. Len(hits') <= MaxKeys
    BY <2>5, <2>7
  <2>11. \A i, j \in DOMAIN hits' : hits'[i].key = hits'[j].key => i = j
    <3> SUFFICES ASSUME NEW i \in 1..Len(kept) + 1, NEW j \in 1..Len(kept) + 1,
                        hits'[i].key = hits'[j].key
                 PROVE  i = j
      BY <2>7
    <3>1. CASE i \in 1..Len(kept) /\ j \in 1..Len(kept)
      <4>1. hits[i + off].key = hits[j + off].key
        BY <2>8, <3>1
      <4>2. i + off = j + off
        BY <1>2, <2>8, <3>1, <4>1
      <4> QED BY <2>5, <4>2
    <3>2. CASE i = Len(kept) + 1 /\ j \in 1..Len(kept)
      BY <2>1, <2>7, <2>8, <3>2
    <3>3. CASE j = Len(kept) + 1 /\ i \in 1..Len(kept)
      BY <2>1, <2>7, <2>8, <3>3
    <3> QED BY <2>7, <3>1, <3>2, <3>3
  <2>12. \A p \in stays : p.key # key
    BY <1>3, <2>3
  <2>13. KeyFine(passed', key, now, 1) /\ SpansFine(passed', key)
    BY <1>1, <1>4, <1>5, <2>12, PassUnderNewKey
  <2>14. \A i \in DOMAIN hits' :
            KeyFine(passed', hits'[i].key, hits'[i].start, hits'[i].count)
    <3> SUFFICES ASSUME NEW i \in 1..Len(kept) + 1
                 PROVE  KeyFine(passed', hits'[i].key, hits'[i].start, hits'[i].count)
      BY <2>7
    <3>1. CASE i \in 1..Len(kept)
      <4>1. hits'[i] = hits[i + off] /\ i + off \in 1..Len(hits)
        BY <2>8, <3>1
      <4>2. hits[i + off].key # key /\ \A d \in Dropped(key) : hits[i + off].key # hits[d].key
        BY <2>8, <2>9, <3>1
      <4>3. KeyFine(passed', hits[i + off].key, hits[i + off].start, hits[i + off].count)
        BY <1>9, <4>1, <4>2
      <4> QED BY <4>1, <4>3
    <3>2. CASE i = Len(kept) + 1
      BY <2>1, <2>7, <2>13, <3>2
    <3> QED BY <2>7, <3>1, <3>2
  <2>15. \A p \in passed' : /\ \E i \in DOMAIN hits' : hits'[i].key = p.key
                            /\ SpansFine(passed', p.key)
    <3> SUFFICES ASSUME NEW p \in passed'
                 PROVE  /\ \E i \in DOMAIN hits' : hits'[i].key = p.key
                        /\ SpansFine(passed', p.key)
      OBVIOUS
    <3>1. CASE p = x
      <4>1. Len(kept) + 1 \in DOMAIN hits' /\ hits'[Len(kept) + 1].key = p.key
        BY <1>5, <2>1, <2>7, <3>1
      <4> QED BY <1>5, <2>13, <3>1, <4>1
    <3>2. CASE p \in stays
      <4>1. p \in passed /\ p.key # key /\ \A d \in Dropped(key) : p.key # hits[d].key
        BY <2>12, <3>2
      <4>2. SpansFine(passed', p.key)
        BY <1>3, <1>9, <4>1
      <4>3. PICK i \in 1..Len(hits) : hits[i].key = p.key
        BY <1>3, <4>1
      <4>4. i - off \in 1..Len(kept)
        <5>1. CASE Dropped(key) = {}
          BY <1>2, <2>5, <2>off, <5>1
        <5>2. CASE Dropped(key) = {1}
          <6>1. i # 1
            BY <4>1, <4>3, <5>2
          <6> QED BY <1>2, <2>5, <2>off, <5>2, <6>1
        <5> QED BY <2>2, <5>1, <5>2
      <4>5. hits'[i - off] = hits[i] /\ i - off \in DOMAIN hits'
        <5>1. hits'[i - off] = hits[(i - off) + off]
          BY <2>8, <4>4
        <5>2. (i - off) + off = i
          BY <2>5
        <5>3. i - off \in 1..Len(kept) + 1
          BY <2>7, <4>4
        <5> QED BY <2>7, <5>1, <5>2, <5>3
      <4> QED BY <4>2, <4>3, <4>5
    <3> QED BY <1>4, <3>1, <3>2
  <2> QED BY <1>7, <2>7, <2>10, <2>11, <2>14, <2>15
<1>11. CASE NewWindow(key) \/ SameWindow(key)
  <2>1. PICK i \in 1..Len(hits) :
           /\ hits[i].key = key
           /\ \/ WindowOver(i) /\ hits' = [hits EXCEPT ![i].count = 1, ![i].start = now]
              \/ ~WindowOver(i) /\ hits' = [hits EXCEPT ![i].count = @ + 1]
    BY <1>2, <1>11 DEF NewWindow, SameWindow, Places
  <2>2. Dropped(key) = {}
    <3>1. i \in Places(key)
      BY <1>2, <2>1 DEF Places
    <3> QED BY <3>1 DEF Dropped
  <2>3. stays = passed
    BY <2>2
  <2>4. SpansFine(passed, key)
    <3>1. CASE \E p \in passed : p.key = key
      BY <1>3, <3>1
    <3>2. CASE \A p \in passed : p.key # key
      BY <3>2 DEF SpansFine
    <3> QED BY <3>1, <3>2
  <2>5. KeyFine(passed, key, hits[i].start, hits[i].count)
    BY <1>3, <2>1
  <2>6. /\ hits[i].start \in Nat /\ hits[i].start <= now /\ hits[i].count \in Nat \ {0}
    BY <1>2
  <2>7. PICK h \in HitRecord :
           /\ hits' = [hits EXCEPT ![i] = h] /\ h.key = key
           /\ KeyFine(passed', key, h.start, h.count)
           /\ SpansFine(passed', key)
    <3>1. CASE WindowOver(i)
      <4> DEFINE h == [key |-> key, count |-> 1, start |-> now]
      <4>1. hits' = [hits EXCEPT ![i].count = 1, ![i].start = now]
        BY <2>1, <3>1
      <4>2. [[hits[i] EXCEPT !.count = 1] EXCEPT !.start = now] = h
        <5>1. [hits[i] EXCEPT !.count = 1] = [key |-> key, count |-> 1, start |-> hits[i].start]
          BY <1>2, <2>1 DEF HitRecord
        <5>2. ASSUME NEW e, e = [key |-> key, count |-> 1, start |-> hits[i].start]
              PROVE  [e EXCEPT !.start = now] = h
          BY <5>2
        <5> QED BY <5>1, <5>2
      <4>3. hits' = [hits EXCEPT ![i] = h]
        BY <1>2, <4>1, <4>2
      <4>4. h \in HitRecord
        BY DEF HitRecord
      <4>5. now - hits[i].start >= Window
        BY <3>1 DEF WindowOver
      <4>6. KeyFine(passed', key, now, 1) /\ SpansFine(passed', key)
        BY <1>1, <1>3, <1>4, <1>5, <2>3, <2>4, <2>5, <2>6, <4>5, PassInNewWindow
      <4> QED BY <4>3, <4>4, <4>6
    <3>2. CASE ~WindowOver(i)
      <4> DEFINE h == [key |-> key, count |-> hits[i].count + 1, start |-> hits[i].start]
      <4>1. hits' = [hits EXCEPT ![i].count = @ + 1]
        BY <2>1, <3>2
      <4>2. [hits[i] EXCEPT !.count = @ + 1] = h
        <5>1. hits[i] = [key |-> key, count |-> hits[i].count, start |-> hits[i].start]
          BY <1>2, <2>1 DEF HitRecord
        <5> QED BY <5>1
      <4>3. hits' = [hits EXCEPT ![i] = h]
        BY <1>2, <4>1, <4>2
      <4>4. h \in HitRecord
        BY <1>2, <2>6 DEF HitRecord
      <4>5. now - hits[i].start < Window
        BY <1>1, <2>6, <3>2 DEF WindowOver
      <4>6. hits[i].count + 1 <= RateLimit
        <5>1. i \in Places(key)
          BY <1>2, <2>1 DEF Places
        <5>2. ~(hits[i].count + 1 > RateLimit)
          BY <3>2, <5>1 DEF Pass, OverLimit
        <5> QED BY <1>1, <2>6, <5>2
      <4>7. KeyFine(passed', key, hits[i].start, hits[i].count + 1) /\ SpansFine(passed', key)
        BY <1>3, <1>4, <1>5, <2>3, <2>4, <2>5, <2>6, <4>5, <4>6, PassInSameWindow
      <4> QED BY <4>3, <4>4, <4>7
    <3> QED BY <3>1, <3>2
  <2>8. /\ hits' \in Seq(HitRecord) /\ Len(hits') = Len(hits) /\ DOMAIN hits' = 1..Len(hits)
        /\ hits'[i] = h
        /\ \A j \in 1..Len(hits) : j # i => hits'[j] = hits[j]
    BY <1>2, <2>7
  <2>9. \A j \in 1..Len(hits) : hits'[j].key = hits[j].key
    BY <2>1, <2>7, <2>8
  <2>10. \A j, k \in DOMAIN hits' : hits'[j].key = hits'[k].key => j = k
    BY <1>2, <2>8, <2>9
  <2>11. \A j \in DOMAIN hits' :
            KeyFine(passed', hits'[j].key, hits'[j].start, hits'[j].count)
    <3> SUFFICES ASSUME NEW j \in 1..Len(hits)
                 PROVE  KeyFine(passed', hits'[j].key, hits'[j].start, hits'[j].count)
      BY <2>8
    <3>1. CASE j = i
      BY <2>7, <2>8, <3>1
    <3>2. CASE j # i
      <4>1. hits'[j] = hits[j] /\ hits[j].key # key
        BY <1>2, <2>1, <2>8, <3>2
      <4>2. KeyFine(passed', hits[j].key, hits[j].start, hits[j].count)
        BY <1>9, <2>2, <4>1
      <4> QED BY <4>1, <4>2
    <3> QED BY <3>1, <3>2
  <2>12. \A p \in passed' : /\ \E j \in DOMAIN hits' : hits'[j].key = p.key
                            /\ SpansFine(passed', p.key)
    <3> SUFFICES ASSUME NEW p \in passed'
                 PROVE  /\ \E j \in DOMAIN hits' : hits'[j].key = p.key
                        /\ SpansFine(passed', p.key)
      OBVIOUS
    <3>1. CASE p.key = key
      <4>1. i \in DOMAIN hits' /\ hits'[i].key = p.key
        BY <2>7, <2>8, <3>1
      <4> QED BY <2>7, <3>1, <4>1
    <3>2. CASE p.key # key
      <4>1. p \in passed
        BY <1>4, <1>5, <2>3, <3>2
      <4>2. SpansFine(passed', p.key)
        BY <1>3, <1>9, <2>2, <3>2, <4>1
      <4>3. PICK j \in 1..Len(hits) : hits[j].key = p.key
        BY <1>3, <4>1
      <4>4. j \in DOMAIN hits' /\ hits'[j].key = p.key
        BY <2>8, <2>9, <4>3
      <4> QED BY <4>2, <4>4
    <3> QED BY <3>1, <3>2
  <2>13. Len(hits') <= MaxKeys
    BY <1>2, <2>8
  <2> QED BY <1>7, <2>8, <2>10, <2>11, <2>12, <2>13
<1> QED BY <1>10, <1>11 DEF Pass

\* A key that is over its limit is counted on.
LEMMA MoreHitsKeepLimiter ==
    ASSUME LimiterOK, NEW key, SameWindow(key), UNCHANGED <<now, passed>>
    PROVE  LimiterOK'
<1>1. PICK i \in DOMAIN hits :
         hits[i].key = key /\ hits' = [hits EXCEPT ![i].count = @ + 1]
  BY DEF SameWindow, Places
<1>2. /\ hits \in Seq(HitRecord)
      /\ Len(hits) <= MaxKeys /\ IsFiniteSet(passed)
      /\ \A j, k \in DOMAIN hits : hits[j].key = hits[k].key => j = k
      /\ \A j \in DOMAIN hits : KeyFine(passed, hits[j].key, hits[j].start, hits[j].count)
  BY DEF LimiterOK, HitRecord
<1> DEFINE h == [key |-> hits[i].key, count |-> hits[i].count + 1, start |-> hits[i].start]
<1>3. /\ hits[i] \in HitRecord
      /\ hits[i].count \in Nat /\ DOMAIN hits = 1..Len(hits) /\ Len(hits) \in Nat
  <2>1. DOMAIN hits = 1..Len(hits) /\ Len(hits) \in Nat
    BY <1>2
  <2>2. hits[i] \in HitRecord
    BY <1>2, <2>1
  <2>3. hits[i].count \in Nat
    BY <2>2 DEF HitRecord
  <2> QED BY <2>1, <2>2, <2>3
<1>4. [hits[i] EXCEPT !.count = @ + 1] = h
  BY <1>3 DEF HitRecord
<1>5. h \in HitRecord
  BY <1>3 DEF HitRecord
<1>6. h.key = hits[i].key /\ h.count = hits[i].count + 1 /\ h.start = hits[i].start
  OBVIOUS
<1>7. hits' = [hits EXCEPT ![i] = h]
  BY <1>1, <1>2, <1>4
<1> HIDE DEF h
<1>8. /\ hits' \in Seq(HitRecord)
      /\ Len(hits') = Len(hits) /\ DOMAIN hits' = DOMAIN hits
      /\ hits'[i] = h
      /\ \A j \in DOMAIN hits : j # i => hits'[j] = hits[j]
  BY <1>2, <1>5, <1>7
<1>9. \A j \in DOMAIN hits : hits'[j].key = hits[j].key
  BY <1>6, <1>8
<1>10. \A j \in DOMAIN hits : KeyFine(passed, hits'[j].key, hits'[j].start, hits'[j].count)
  <2>1. KeyFine(passed, h.key, h.start, h.count)
    BY <1>1, <1>2, <1>3, <1>6, MoreHitsAreFine
  <2> QED BY <1>2, <1>8, <2>1
<1>11. /\ passed' \subseteq [key : STRING, at : 0..now', by : Requests]
       /\ IsFiniteSet(passed')
       /\ \A p \in passed' : /\ \E j \in DOMAIN hits' : hits'[j].key = p.key
                             /\ SpansFine(passed', p.key)
  BY <1>8, <1>9 DEF LimiterOK
<1>12. \A j, k \in DOMAIN hits' : hits'[j].key = hits'[k].key => j = k
  BY <1>2, <1>8, <1>9
<1>13. \A j \in DOMAIN hits' :
          KeyFine(passed', hits'[j].key, hits'[j].start, hits'[j].count)
  BY <1>8, <1>10
<1>14. hits' \in Seq([key : STRING, count : Nat \ {0}, start : 0..now'])
  BY <1>8 DEF HitRecord
<1> QED BY <1>2, <1>8, <1>11, <1>12, <1>13, <1>14 DEF LimiterOK

LEMMA LimiterStays ==
    ASSUME LimiterOK, UNCHANGED <<hits, passed>>, now \in Nat, now' \in {now, now + 1}
    PROVE  LimiterOK'
<1>1. 0..now \subseteq 0..now'
  OBVIOUS
<1>2. [key : STRING, count : Nat \ {0}, start : 0..now]
          \subseteq [key : STRING, count : Nat \ {0}, start : 0..now']
  BY <1>1
<1>3. hits' \in Seq([key : STRING, count : Nat \ {0}, start : 0..now'])
  <2>1. hits' \in Seq([key : STRING, count : Nat \ {0}, start : 0..now])
    BY DEF LimiterOK
  <2>2. ASSUME NEW S, NEW T, S \subseteq T PROVE Seq(S) \subseteq Seq(T)
    BY <2>2
  <2> QED BY <1>2, <2>1, <2>2
<1>4. passed' \subseteq [key : STRING, at : 0..now', by : Requests]
  BY <1>1 DEF LimiterOK
<1> QED BY <1>3, <1>4 DEF LimiterOK

(***************************************************************************)
(* The steps                                                               *)
(***************************************************************************)
Phases == {None, "open", "streaming", "ended", "finished", "closed"}
Codes == {0, 200, 400, 403, 405, 413, 429, 503, 504}

\* What a response needs to hold a slot.
HoldsSlot(p, s) ==
    p \in {"open", "streaming", "ended"} /\ s \notin {400, 403, 413, 503}

LEMMA CountedFinite ==
    ASSUME SlotsOK
    PROVE  /\ IsFiniteSet(counted) /\ counted \subseteq Requests
           /\ inFlight \in Nat /\ inFlight <= Cardinality(Requests)
<1>1. IsFiniteSet(Requests) /\ counted \subseteq Requests
  BY FrontParameters DEF SlotsOK, UnderWay
<1>2. /\ IsFiniteSet(counted) /\ Cardinality(counted) \in Nat
      /\ Cardinality(counted) <= Cardinality(Requests)
  BY <1>1, Fewer
<1> QED BY <1>1, <1>2 DEF SlotsOK

\* One response goes on, and its slot is taken, kept or given back accordingly.
LEMMA OneResponse ==
    ASSUME SlotsOK, NEW r \in Requests, NEW p \in Phases, NEW s \in Codes,
           response' = [response EXCEPT ![r] = p], status' = [status EXCEPT ![r] = s],
           p \in {None, "open"} => s = 0, p = "streaming" => s = 200,
           counted' = IF ~Gated THEN {}
                      ELSE IF HoldsSlot(p, s) THEN counted \cup {r} ELSE counted \ {r},
           inFlight' = Cardinality(counted'), Gated => inFlight' <= MaxConcurrent
    PROVE  SlotsOK'
<1>1. /\ response \in [Requests -> Phases] /\ status \in [Requests -> Codes]
      /\ counted = IF Gated THEN UnderWay ELSE {}
  BY DEF SlotsOK, Phases, Codes
<1>2. /\ response' \in [Requests -> Phases] /\ status' \in [Requests -> Codes]
      /\ response'[r] = p /\ status'[r] = s
      /\ \A o \in Requests \ {r} : response'[o] = response[o] /\ status'[o] = status[o]
  BY <1>1
<1>3. counted' = IF Gated THEN UnderWay' ELSE {}
  <2>1. r \in UnderWay' <=> HoldsSlot(p, s)
    BY <1>2 DEF UnderWay, HoldsSlot
  <2>2. \A o \in Requests \ {r} : o \in UnderWay' <=> o \in UnderWay
    BY <1>2 DEF UnderWay
  <2>3. UnderWay \subseteq Requests /\ UnderWay' \subseteq Requests
    BY DEF UnderWay
  <2> QED BY <1>1, <2>1, <2>2, <2>3
<1>4. \A o \in Requests : /\ response'[o] \in {None, "open"} => status'[o] = 0
                          /\ response'[o] = "streaming" => status'[o] = 200
  BY <1>2 DEF SlotsOK
<1> QED BY <1>2, <1>3, <1>4 DEF SlotsOK, Phases, Codes, Gated

\* The gate lets a request through.
LEMMA SlotTaken ==
    ASSUME SlotsOK, NEW r \in Requests, response[r] = None, Slot(r)
    PROVE  /\ counted' = IF Gated THEN counted \cup {r} ELSE {}
           /\ inFlight' = Cardinality(counted')
           /\ Gated => inFlight' <= MaxConcurrent
<1>1. /\ IsFiniteSet(counted) /\ inFlight \in Nat /\ inFlight = Cardinality(counted)
      /\ MaxConcurrent \in Nat
  BY CountedFinite, FrontParameters DEF SlotsOK
<1>2. r \notin counted
  BY DEF SlotsOK, UnderWay, None
<1>3. CASE Gated
  <2>1. counted' = counted \cup {r} /\ inFlight' = inFlight + 1 /\ inFlight < MaxConcurrent
    BY <1>1, <1>3 DEF Slot
  <2>2. Cardinality(counted \cup {r}) = Cardinality(counted) + 1
    BY <1>1, <1>2, FS_AddElement
  <2> QED BY <1>1, <1>3, <2>1, <2>2
<1>4. CASE ~Gated
  <2>1. counted = {} /\ counted' = counted /\ inFlight' = inFlight
    BY <1>4 DEF SlotsOK, Slot
  <2> QED BY <1>1, <1>4, <2>1
<1> QED BY <1>3, <1>4

\* A slot is given back once, whatever ends the response.
LEMMA SlotReturned ==
    ASSUME SlotsOK, NEW r \in Requests, Release(r)
    PROVE  /\ counted' = counted \ {r}
           /\ inFlight' = Cardinality(counted')
           /\ Gated => inFlight' <= MaxConcurrent
           /\ ~Gated => counted' = {}
<1>1. /\ IsFiniteSet(counted) /\ inFlight \in Nat /\ inFlight = Cardinality(counted)
      /\ MaxConcurrent \in Nat
      /\ Gated => inFlight <= MaxConcurrent
      /\ ~Gated => counted = {}
  BY CountedFinite, FrontParameters DEF SlotsOK
<1>2. counted' = counted \ {r}
      /\ inFlight' = IF r \in counted /\ inFlight > 0 THEN inFlight - 1 ELSE inFlight
  BY DEF Release
<1>3. /\ Cardinality(counted \ {r})
            = IF r \in counted THEN Cardinality(counted) - 1 ELSE Cardinality(counted)
      /\ IsFiniteSet(counted \ {r})
  BY <1>1, FS_RemoveElement
<1>4. Cardinality(counted \ {r}) \in Nat
  BY <1>3, FS_CardinalityType
<1>5. CASE r \in counted
  <2>1. inFlight' = inFlight - 1
    BY <1>1, <1>2, <1>3, <1>4, <1>5
  <2>2. inFlight' = Cardinality(counted')
    BY <1>1, <1>2, <1>3, <1>5, <2>1
  <2>3. Gated => inFlight' <= MaxConcurrent
    BY <1>1, <2>1 DEF Gated
  <2> QED BY <1>1, <1>2, <1>5, <2>2, <2>3
<1>6. CASE r \notin counted
  <2>1. inFlight' = inFlight /\ counted' = counted
    BY <1>2, <1>6
  <2>2. counted' = counted \ {r}
    BY <1>2
  <2>3. inFlight' = Cardinality(counted')
    BY <1>1, <2>1
  <2>4. (Gated => inFlight' <= MaxConcurrent) /\ (~Gated => counted' = {})
    BY <1>1, <2>1 DEF Gated
  <2> QED BY <2>2, <2>3, <2>4
<1> QED BY <1>5, <1>6

\* A slot is held while the response is under way, whatever it has sent.
LEMMA SlotsStep ==
    ASSUME SlotsOK, [FrontNext]_frontVars
    PROVE  SlotsOK'
<1>1. /\ response \in [Requests -> Phases] /\ status \in [Requests -> Codes]
      /\ inFlight = Cardinality(counted)
      /\ Gated => inFlight <= MaxConcurrent
      /\ counted = IF Gated THEN UnderWay ELSE {}
  BY DEF SlotsOK, Phases, Codes
<1>2. \A r \in Requests :
         /\ response[r] \in Phases /\ status[r] \in Codes
         /\ response[r] \in {None, "open"} => status[r] = 0
         /\ r \in UnderWay <=> HoldsSlot(response[r], status[r])
  BY <1>1 DEF SlotsOK, UnderWay, HoldsSlot
<1>3. ASSUME NEW r \in Requests, NEW q \in Kinds, Receive(r, q)
      PROVE  SlotsOK'
  <2>1. response[r] = None /\ status[r] = 0 /\ r \notin UnderWay
    BY <1>2, <1>3 DEF Receive, HoldsSlot, None
  <2>2. CASE RefusedByHeaders(r, q) \/ Busy(r, q)
    <3>1. PICK s \in {400, 403, 413, 503} : Answered(r, s)
      BY <2>2 DEF RefusedByHeaders, Busy, Refusal
    <3>2. /\ response' = [response EXCEPT ![r] = "ended"] /\ status' = [status EXCEPT ![r] = s]
          /\ counted' = counted /\ inFlight' = inFlight
      BY <2>2, <3>1 DEF RefusedByHeaders, Busy, Answered
    <3>3. ~HoldsSlot("ended", s) /\ counted \ {r} = counted
      BY <1>1, <2>1 DEF HoldsSlot
    <3>4. "ended" \in Phases /\ s \in Codes /\ "ended" \notin {None, "open", "streaming"}
      BY DEF Phases, Codes, None
    <3>5. counted' = IF ~Gated THEN {}
                     ELSE IF HoldsSlot("ended", s) THEN counted \cup {r} ELSE counted \ {r}
      BY <1>1, <3>2, <3>3
    <3>6. inFlight' = Cardinality(counted') /\ (Gated => inFlight' <= MaxConcurrent)
      BY <1>1, <3>2 DEF Gated
    <3>7. ("ended" \in {None, "open"} => s = 0) /\ ("ended" = "streaming" => s = 200)
      BY <3>4
    <3> QED BY <3>2, <3>4, <3>5, <3>6, <3>7, OneResponse, ZenonT(30)
  <2>3. CASE Limited(r, q) \/ Admitted(r, q)
    <3>1. Slot(r)
      BY <2>3 DEF Limited, Admitted
    <3>2. /\ counted' = IF Gated THEN counted \cup {r} ELSE {}
          /\ inFlight' = Cardinality(counted')
          /\ Gated => inFlight' <= MaxConcurrent
      BY <2>1, <3>1, SlotTaken
    <3>3. ASSUME NEW p \in Phases, NEW s \in Codes, HoldsSlot(p, s),
                 p \in {None, "open"} => s = 0, p # "streaming",
                 response' = [response EXCEPT ![r] = p], status' = [status EXCEPT ![r] = s]
          PROVE  SlotsOK'
      <4>1. counted' = IF ~Gated THEN {}
                       ELSE IF HoldsSlot(p, s) THEN counted \cup {r} ELSE counted \ {r}
        BY <3>2, <3>3
      <4> QED BY <3>2, <3>3, <4>1, OneResponse
    <3>4. ASSUME NEW s \in {405, 429}, Answered(r, s) PROVE SlotsOK'
      <4>1. /\ "ended" \in Phases /\ s \in Codes /\ HoldsSlot("ended", s)
            /\ "ended" \notin {None, "open", "streaming"}
        BY DEF Phases, Codes, HoldsSlot, None
      <4>2. response' = [response EXCEPT ![r] = "ended"] /\ status' = [status EXCEPT ![r] = s]
        BY <3>4 DEF Answered
      <4> QED BY <3>3, <4>1, <4>2
    <3>5. ASSUME response' = [response EXCEPT ![r] = "open"], status' = status PROVE SlotsOK'
      <4>1. "open" \in Phases /\ 0 \in Codes /\ HoldsSlot("open", 0) /\ "open" # "streaming"
        BY DEF Phases, Codes, HoldsSlot
      <4>2. status' = [status EXCEPT ![r] = 0]
        BY <1>1, <2>1, <3>5
      <4> QED BY <3>3, <3>5, <4>1, <4>2
    <3>6. \/ Answered(r, 405) \/ Answered(r, 429)
          \/ response' = [response EXCEPT ![r] = "open"] /\ status' = status
      BY <2>3 DEF Limited, Admitted
    <3> QED BY <3>4, <3>5, <3>6
  <2> QED BY <1>3, <2>2, <2>3 DEF Receive
<1>4. ASSUME NEW r \in Requests, NEW p \in Phases, NEW s \in Codes,
             r \in UnderWay, HoldsSlot(p, s),
             response' = [response EXCEPT ![r] = p], status' = [status EXCEPT ![r] = s],
             p = "ended" \/ s = 200, p # "open", counted' = counted, inFlight' = inFlight
      PROVE  SlotsOK'
  <2>1. counted' = IF ~Gated THEN {} ELSE counted \cup {r}
    <3>1. CASE Gated
      BY <1>1, <1>4, <3>1
    <3>2. CASE ~Gated
      BY <1>1, <1>4, <3>2
    <3> QED BY <3>1, <3>2
  <2>2. p # None
    BY <1>4 DEF HoldsSlot, None
  <2>3. counted' = IF ~Gated THEN {}
                   ELSE IF HoldsSlot(p, s) THEN counted \cup {r} ELSE counted \ {r}
    BY <1>4, <2>1
  <2>4. inFlight' = Cardinality(counted') /\ (Gated => inFlight' <= MaxConcurrent)
    BY <1>1, <1>4 DEF Gated
  <2>5. (p \in {None, "open"} => s = 0) /\ (p = "streaming" => s = 200)
    BY <1>4, <2>2
  <2>6. response' = [response EXCEPT ![r] = p] /\ status' = [status EXCEPT ![r] = s]
    BY <1>4
  <2> QED BY <2>3, <2>4, <2>5, <2>6, OneResponse
<1>5. ASSUME NEW r \in Requests, NEW p \in {"finished", "closed"}, Becomes(r, p), Release(r),
             UNCHANGED status
      PROVE  SlotsOK'
  <2>1. /\ counted' = counted \ {r} /\ inFlight' = Cardinality(counted')
        /\ Gated => inFlight' <= MaxConcurrent
        /\ ~Gated => counted' = {}
    BY <1>5, SlotReturned
  <2>2. ~HoldsSlot(p, status[r]) /\ p \in Phases /\ p \notin {None, "open", "streaming"}
    BY DEF HoldsSlot, Phases, None
  <2>3. status' = [status EXCEPT ![r] = status[r]] /\ response' = [response EXCEPT ![r] = p]
    BY <1>1, <1>5 DEF Becomes
  <2>4. counted' = IF ~Gated THEN {}
                   ELSE IF HoldsSlot(p, status[r]) THEN counted \cup {r} ELSE counted \ {r}
    BY <2>1, <2>2
  <2> QED BY <1>2, <2>1, <2>2, <2>3, <2>4, OneResponse
<1>6. ASSUME NEW r \in Requests, Streams(r) PROVE SlotsOK'
  <2>1. /\ response[r] = "open" /\ r \in UnderWay /\ HoldsSlot("streaming", 200)
    BY <1>2, <1>6 DEF Streams, HoldsSlot
  <2>2. /\ response' = [response EXCEPT ![r] = "streaming"]
        /\ status' = [status EXCEPT ![r] = 200] /\ counted' = counted /\ inFlight' = inFlight
    BY <1>6 DEF Streams, Becomes
  <2>3. "streaming" \in Phases /\ 200 \in Codes /\ "streaming" # "open"
    BY DEF Phases, Codes
  <2> QED BY <1>4, <2>1, <2>2, <2>3
<1>7. ASSUME NEW r \in Requests, Ends(r) PROVE SlotsOK'
  <2>1. /\ response[r] \in {"open", "streaming"} /\ r \in UnderWay /\ HoldsSlot("ended", 200)
    BY <1>2, <1>7 DEF Ends, HoldsSlot, SlotsOK
  <2>2. /\ response' = [response EXCEPT ![r] = "ended"]
        /\ status' = [status EXCEPT ![r] = 200] /\ counted' = counted /\ inFlight' = inFlight
    BY <1>7 DEF Ends, Becomes
  <2>3. "ended" \in Phases /\ 200 \in Codes /\ "ended" # "open"
    BY DEF Phases, Codes
  <2> QED BY <1>4, <2>1, <2>2, <2>3
<1>8. ASSUME NEW r \in Requests, TimesOut(r) PROVE SlotsOK'
  <2>1. CASE response[r] = "open"
    <3>1. r \in UnderWay /\ HoldsSlot("ended", 504)
      BY <1>2, <2>1 DEF HoldsSlot
    <3>2. /\ response' = [response EXCEPT ![r] = "ended"]
          /\ status' = [status EXCEPT ![r] = 504] /\ counted' = counted /\ inFlight' = inFlight
      BY <1>8, <2>1 DEF TimesOut, Becomes
    <3>3. "ended" \in Phases /\ 504 \in Codes /\ "ended" # "open"
      BY DEF Phases, Codes
    <3>4. "ended" = "ended" \/ 504 = 200
      OBVIOUS
    <3> QED BY <1>4, <3>1, <3>2, <3>3, <3>4, ZenonT(30)
  <2>2. CASE response[r] = "streaming"
    <3>1. Becomes(r, "closed") /\ Release(r) /\ UNCHANGED status
      BY <1>8, <2>2 DEF TimesOut
    <3> QED BY <1>5, <3>1
  <2> QED BY <1>8, <2>1, <2>2 DEF TimesOut
<1>9. ASSUME NEW r \in Requests, Finish(r) \/ Close(r) PROVE SlotsOK'
  <2>1. PICK p \in {"finished", "closed"} : Becomes(r, p) /\ Release(r) /\ UNCHANGED status
    BY <1>9 DEF Finish, Close
  <2> QED BY <1>5, <2>1
<1>10. ASSUME FrontTick \/ UNCHANGED frontVars PROVE SlotsOK'
  <2>1. UNCHANGED <<response, status, counted, inFlight>>
    BY <1>10 DEF FrontTick, frontVars
  <2> QED BY <2>1 DEF SlotsOK, UnderWay, Gated
<1> QED BY <1>3, <1>6, <1>7, <1>8, <1>9, <1>10 DEF FrontNext

\* Time stands still for a timer that is due.
LEMMA TimesStep ==
    ASSUME SlotsOK, TimesOK, [FrontNext]_frontVars
    PROVE  TimesOK'
<1>1. /\ now \in 0..MaxTime /\ since \in [Requests -> 0..now] /\ MaxTime \in Nat
      /\ Timeout \in Nat /\ response \in [Requests -> Phases]
      /\ \A r \in Requests :
            Timeout # 0 /\ response[r] \in {"open", "streaming"} => now - since[r] <= Timeout
  BY FrontParameters DEF TimesOK, DeadlineHolds, SlotsOK, Phases
\* A response is answered, or opens now, or goes on.
<1>2. ASSUME NEW r \in Requests, UNCHANGED now, NEW t, since' = [since EXCEPT ![r] = t],
             NEW p, response' = [response EXCEPT ![r] = p],
             \/ t = now
             \/ t = since[r] /\ (p \in {"open", "streaming"}
                                    => response[r] \in {"open", "streaming"})
      PROVE  TimesOK'
  <2>1. t \in 0..now
    BY <1>1, <1>2
  <2>2. since' \in [Requests -> 0..now']
    BY <1>1, <1>2, <2>1
  <2>3. ASSUME NEW o \in Requests, Timeout # 0, response'[o] \in {"open", "streaming"}
        PROVE  now' - since'[o] <= Timeout
    <3>1. CASE o # r
      BY <1>1, <1>2, <2>3, <3>1
    <3>2. CASE o = r
      <4>1. response'[o] = p /\ since'[o] = t
        BY <1>1, <1>2, <3>2
      <4> QED BY <1>1, <1>2, <2>3, <3>2, <4>1
    <3> QED BY <3>1, <3>2
  <2> QED BY <1>1, <1>2, <2>2, <2>3 DEF TimesOK, DeadlineHolds
<1>3. ASSUME NEW r \in Requests, UNCHANGED <<now, since>>,
             NEW p, response' = [response EXCEPT ![r] = p],
             p \in {"open", "streaming"} => response[r] \in {"open", "streaming"}
      PROVE  TimesOK'
  <2>1. since' = [since EXCEPT ![r] = since[r]]
    BY <1>1, <1>3
  <2> QED BY <1>2, <1>3, <2>1
<1>4. ASSUME NEW r \in Requests, NEW q \in Kinds, Receive(r, q) PROVE TimesOK'
  <2>1. CASE \E s : Answered(r, s)
    BY <1>3, <1>4, <2>1 DEF Answered, Receive
  <2>2. CASE response' = [response EXCEPT ![r] = "open"] /\ since' = [since EXCEPT ![r] = now]
    BY <1>2, <1>4, <2>2 DEF Receive
  <2> QED BY <1>4, <2>1, <2>2 DEF Receive, RefusedByHeaders, Busy, Limited, Admitted
<1>5. ASSUME NEW r \in Requests, Streams(r) \/ Ends(r) \/ TimesOut(r) \/ Finish(r) \/ Close(r)
      PROVE  TimesOK'
  <2>1. PICK p \in Phases : /\ response' = [response EXCEPT ![r] = p]
                            /\ p = "open" \/ p = "streaming" => response[r] = "open"
                            /\ UNCHANGED <<now, since>>
    BY <1>5 DEF Streams, Ends, TimesOut, Finish, Close, Becomes, Limits, Phases
  <2> QED BY <1>3, <2>1
<1>6. CASE FrontTick
  <2>1. now < MaxTime /\ now' = now + 1 /\ UNCHANGED <<since, response>>
    BY <1>6 DEF FrontTick
  <2>2. since' \in [Requests -> 0..now']
    BY <1>1, <2>1
  <2>3. ASSUME NEW r \in Requests, Timeout # 0, response[r] \in {"open", "streaming"}
        PROVE  now' - since[r] <= Timeout
    <3>1. ~(now - since[r] >= Timeout)
      BY <1>6, <2>3 DEF FrontTick, Due
    <3>2. since[r] \in 0..now
      BY <1>1
    <3> QED BY <1>1, <2>1, <3>1, <3>2
  <2> QED BY <1>1, <2>1, <2>2, <2>3 DEF TimesOK, DeadlineHolds
<1>7. CASE UNCHANGED frontVars
  BY <1>7 DEF frontVars, TimesOK, DeadlineHolds
<1> QED BY <1>4, <1>5, <1>6, <1>7 DEF FrontNext

LEMMA RetryRoundsUp ==
    ASSUME NEW t \in Nat \ {0}
    PROVE  Second * RetryAfter(t) >= t
<1>1. Second \in Nat \ {0}
  BY FrontParameters
<1>2. RetryAfter(t) = (t + Second - 1) \div Second
  BY DEF RetryAfter
<1>3. \A a \in Nat : a < Second * (a \div Second) + Second
  BY <1>1
<1>4. (t + Second - 1) \div Second \in Nat /\ t + Second - 1 \in Nat
  BY <1>1
<1> QED BY <1>1, <1>2, <1>3, <1>4

LEMMA LimiterStep ==
    ASSUME LimiterOK, TimesOK, CountedUnderOwnKey, RetryFindsNewWindow, [FrontNext]_frontVars
    PROVE  LimiterOK' /\ CountedUnderOwnKey' /\ RetryFindsNewWindow'
<1>1. now \in Nat
  BY FrontParameters DEF TimesOK
<1>2. ASSUME UNCHANGED <<hits, passed, keyed, retry>>, now' \in {now, now + 1}
      PROVE  LimiterOK' /\ CountedUnderOwnKey' /\ RetryFindsNewWindow'
  BY <1>1, <1>2, LimiterStays DEF CountedUnderOwnKey, RetryFindsNewWindow
<1>3. ASSUME NEW q \in Kinds, Refusal(q) = 0, keyed' = keyed \cup {<<q.client, ClientIp(q)>>}
      PROVE  CountedUnderOwnKey'
  BY <1>3, OwnKey DEF CountedUnderOwnKey
<1>4. ASSUME NEW r \in Requests, NEW q \in Kinds, Limited(r, q), UNCHANGED now
      PROVE  LimiterOK' /\ CountedUnderOwnKey' /\ RetryFindsNewWindow'
  <2> DEFINE key == ClientIp(q)
  <2>1. /\ Refusal(q) = 0 /\ SameWindow(key) /\ UNCHANGED passed
        /\ keyed' = keyed \cup {<<q.client, key>>}
        /\ retry' = retry \cup
               {[over |-> hits[i].start + Window,
                 told |-> now + Second * RetryAfter(hits[i].start + Window - now)]
                   : i \in Places(key)}
    BY <1>4 DEF Limited
  <2>2. LimiterOK'
    BY <1>4, <2>1, MoreHitsKeepLimiter
  <2>3. CountedUnderOwnKey'
    BY <1>3, <2>1
  <2>4. ASSUME NEW i \in Places(key)
        PROVE  now + Second * RetryAfter(hits[i].start + Window - now)
                   >= hits[i].start + Window
    <3>1. /\ hits \in Seq(HitRecord) /\ i \in DOMAIN hits
          /\ \A j, k \in DOMAIN hits : hits[j].key = hits[k].key => j = k
      BY <2>4 DEF LimiterOK, HitRecord, Places
    <3>2. hits[i] \in HitRecord
      BY <3>1
    <3>3. hits[i].start \in Nat
      BY <3>2 DEF HitRecord
    <3>4. ~WindowOver(i)
      BY <2>1, <3>1 DEF SameWindow, Places
    <3> DEFINE t == hits[i].start + Window - now
    <3>5. t \in Nat \ {0}
      BY <1>1, <3>3, <3>4, FrontParameters DEF WindowOver
    <3>6. Second * RetryAfter(t) >= t
      BY <3>5, RetryRoundsUp
    <3>7. Second * RetryAfter(t) \in Int
      <4>1. RetryAfter(t) \in Int /\ Second \in Nat \ {0}
        BY <3>5, FrontParameters DEF RetryAfter
      <4> QED BY <4>1
    <3>8. hits[i].start + Window = now + t /\ Window \in Nat
      BY <1>1, <3>3, FrontParameters
    <3> HIDE DEF t
    <3>9. now + Second * RetryAfter(t) >= now + t
      BY <1>1, <3>5, <3>6, <3>7
    <3> QED BY <3>8, <3>9 DEF t
  <2>5. RetryFindsNewWindow'
    <3> SUFFICES ASSUME NEW told \in retry' PROVE told.told >= told.over
      BY DEF RetryFindsNewWindow
    <3>1. CASE told \in retry
      BY <3>1 DEF RetryFindsNewWindow
    <3>2. CASE told \notin retry
      <4>1. PICK i \in Places(key) :
               told = [over |-> hits[i].start + Window,
                       told |-> now + Second * RetryAfter(hits[i].start + Window - now)]
        BY <2>1, <3>2
      <4> QED BY <2>4, <4>1
    <3> QED BY <3>1, <3>2
  <2> QED BY <2>2, <2>3, <2>5
<1>5. ASSUME NEW r \in Requests, NEW q \in Kinds, Admitted(r, q), UNCHANGED now
      PROVE  LimiterOK' /\ CountedUnderOwnKey' /\ RetryFindsNewWindow'
  <2>1. Refusal(q) = 0 /\ UNCHANGED retry
    BY <1>5 DEF Admitted
  <2>2. CASE Limiting
    <3>1. Pass(r, ClientIp(q)) /\ keyed' = keyed \cup {<<q.client, ClientIp(q)>>}
      BY <1>5, <2>2 DEF Admitted
    <3>2. ClientIp(q) \in STRING
      BY <2>1, OwnKey
    <3>3. LimiterOK'
      <4>1. /\ hits' \in Seq(HitRecord) /\ Len(hits') <= MaxKeys
            /\ \A i, j \in DOMAIN hits' : hits'[i].key = hits'[j].key => i = j
            /\ passed' \subseteq [key : STRING, at : 0..now, by : Requests]
            /\ IsFiniteSet(passed')
            /\ \A p \in passed' : /\ \E i \in DOMAIN hits' : hits'[i].key = p.key
                                  /\ SpansFine(passed', p.key)
            /\ \A i \in DOMAIN hits' :
                  KeyFine(passed', hits'[i].key, hits'[i].start, hits'[i].count)
        BY <1>1, <2>2, <3>1, <3>2, PassKeepsLimiter
      <4>2. hits' \in Seq([key : STRING, count : Nat \ {0}, start : 0..now'])
            /\ passed' \subseteq [key : STRING, at : 0..now', by : Requests]
        BY <1>5, <4>1 DEF HitRecord
      <4> QED BY <4>1, <4>2 DEF LimiterOK
    <3> QED BY <1>3, <2>1, <3>1, <3>3 DEF RetryFindsNewWindow
  <2>3. CASE ~Limiting
    BY <1>2, <1>5, <2>1, <2>3 DEF Admitted
  <2> QED BY <2>2, <2>3
<1>6. ASSUME NEW r \in Requests, NEW q \in Kinds, Receive(r, q)
      PROVE  LimiterOK' /\ CountedUnderOwnKey' /\ RetryFindsNewWindow'
  <2>1. CASE RefusedByHeaders(r, q) \/ Busy(r, q)
    BY <1>2, <1>6, <2>1 DEF RefusedByHeaders, Busy, Receive
  <2> QED BY <1>4, <1>5, <1>6, <2>1 DEF Receive
<1>7. ASSUME NEW r \in Requests, Streams(r) \/ Ends(r) \/ TimesOut(r) \/ Finish(r) \/ Close(r)
      PROVE  LimiterOK' /\ CountedUnderOwnKey' /\ RetryFindsNewWindow'
  BY <1>2, <1>7 DEF Streams, Ends, TimesOut, Finish, Close, Limits
<1>8. CASE FrontTick
  BY <1>2, <1>8 DEF FrontTick
<1>9. CASE UNCHANGED frontVars
  BY <1>2, <1>9 DEF frontVars
<1> QED BY <1>6, <1>7, <1>8, <1>9 DEF FrontNext

LEMMA FrontStarts == FrontInit => FrontIInv
<1> SUFFICES ASSUME FrontInit PROVE FrontIInv
  OBVIOUS
<1> USE DEF FrontInit
<1>1. SlotsOK
  <2>1. UnderWay = {} /\ Cardinality(counted) = 0
    BY FS_EmptySet DEF UnderWay, None
  <2> QED BY <2>1, FrontParameters DEF SlotsOK, None
<1>2. TimesOK
  BY FrontParameters DEF TimesOK, DeadlineHolds, None
<1>3. LimiterOK
  BY FrontParameters, FS_EmptySet DEF LimiterOK
<1>4. CountedUnderOwnKey /\ RetryFindsNewWindow
  BY DEF CountedUnderOwnKey, RetryFindsNewWindow
<1> QED BY <1>1, <1>2, <1>3, <1>4 DEF FrontIInv

(***************************************************************************)
(* The inductive invariant holds.                                          *)
(***************************************************************************)
THEOREM FrontInvariance == FrontSpec => []FrontIInv
<1>1. FrontIInv /\ [FrontNext]_frontVars => FrontIInv'
  BY SlotsStep, TimesStep, LimiterStep DEF FrontIInv
<1> QED BY FrontStarts, <1>1, PTL DEF FrontSpec

(***************************************************************************)
(* Types; slots are responses under way; clients are counted under their   *)
(* own addresses; Retry-After and deadlines hold (http-hardening.ts).      *)
(***************************************************************************)
THEOREM FrontIsSound == FrontSpec => []FrontInv
<1>1. FrontIInv => FrontInv
  <2> SUFFICES ASSUME FrontIInv PROVE FrontInv
    OBVIOUS
  <2>1. /\ inFlight \in 0..Cardinality(Requests) /\ counted \subseteq Requests
    <3>1. /\ IsFiniteSet(Requests) /\ inFlight \in Nat /\ counted \subseteq Requests
          /\ inFlight <= Cardinality(Requests)
      BY CountedFinite, FrontParameters DEF FrontIInv
    <3> QED BY <3>1, FS_CardinalityType
  <2>2. FrontTypes
    BY <2>1 DEF FrontIInv, SlotsOK, TimesOK, LimiterOK, FrontTypes
  <2>3. SlotsAreResponses
    BY DEF FrontIInv, SlotsOK, SlotsAreResponses, UnderWay
  <2> QED BY <2>2, <2>3 DEF FrontIInv, FrontInv, TimesOK
<1> QED BY <1>1, FrontInvariance, PTL

(***************************************************************************)
(* No span of one window's length sees more than twice the limit pass      *)
(* (rateLimit).                                                            *)
(***************************************************************************)
THEOREM TwoWindowsAtWorst == FrontSpec => []TwoWindowsBound
<1>1. FrontIInv => TwoWindowsBound
  BY DEF FrontIInv, LimiterOK, SpansFine, Within, TwoWindowsBound
<1> QED BY <1>1, FrontInvariance, PTL

(***************************************************************************)
(* A status that was sent is not replaced (timeoutWare).                   *)
(***************************************************************************)
THEOREM StatusIsFinal == FrontSpec => OneStatus
<1>1. FrontIInv /\ [FrontNext]_frontVars => [\A r \in Requests : status[r] # 0
          => status'[r] = status[r]]_frontVars
  <2> SUFFICES ASSUME FrontIInv, [FrontNext]_frontVars, NEW r \in Requests, status[r] # 0
               PROVE  status'[r] = status[r]
    OBVIOUS
  <2>1. /\ status \in [Requests -> Codes] /\ response \in [Requests -> Phases]
        /\ \A o \in Requests : /\ response[o] \in {None, "open"} => status[o] = 0
                               /\ response[o] = "streaming" => status[o] = 200
    BY DEF FrontIInv, SlotsOK, Phases, Codes
  \* A status is given where there is none, or the same one.
  <2>2. ASSUME NEW o \in Requests, NEW s, status' = [status EXCEPT ![o] = s],
               status[o] = 0 \/ status[o] = s
        PROVE  status'[r] = status[r]
    BY <2>1, <2>2
  <2>3. ASSUME NEW o \in Requests, NEW q \in Kinds, Receive(o, q)
        PROVE  status'[r] = status[r]
    <3>1. status[o] = 0
      BY <2>1, <2>3 DEF Receive
    <3>2. CASE \E s : Answered(o, s)
      BY <2>2, <3>1, <3>2 DEF Answered
    <3> QED BY <2>3, <3>2 DEF Receive, RefusedByHeaders, Busy, Limited, Admitted
  <2>4. ASSUME NEW o \in Requests, Streams(o) \/ Ends(o) \/ TimesOut(o)
        PROVE  status'[r] = status[r]
    <3>1. CASE Streams(o) \/ Ends(o)
      BY <2>1, <2>2, <3>1 DEF Streams, Ends
    <3>2. CASE TimesOut(o)
      BY <2>1, <2>2, <3>2 DEF TimesOut
    <3> QED BY <2>4, <3>1, <3>2
  <2>5. ASSUME NEW o \in Requests, Finish(o) \/ Close(o) PROVE status'[r] = status[r]
    BY <2>5 DEF Finish, Close
  <2>6. CASE FrontTick \/ UNCHANGED frontVars
    BY <2>6 DEF FrontTick, frontVars
  <2> QED BY <2>3, <2>4, <2>5, <2>6 DEF FrontNext
<1> QED BY <1>1, FrontInvariance, PTL DEF FrontSpec, OneStatus
=============================================================================
