------------------------------ MODULE Shutdown ------------------------------
(***************************************************************************)
(* Graceful shutdown (src/shutdown.ts) of the stdio server, with the exit  *)
(* that startStdio (src/server.ts) ties to it: cleanup hooks run one after *)
(* another, each for a limited time, under a watchdog.                     *)
(*                                                                         *)
(* From the end of one hook to the start of the next only promise          *)
(* reactions run, so that is one action (Advance).  Time counts from the   *)
(* trigger; a timer that is due fires before time goes on (Tick).          *)
(***************************************************************************)
EXTENDS Integers, Sequences

CONSTANTS
    Names,           \* names of hooks; several hooks may share one
    TimeoutMs,       \* the timeout asked for, or graceMs, by name
    ForceExitAfterMs,
    Slack,           \* 50 ms
    Signals,         \* SIGTERM, SIGINT
    MaxHooks         \* bound for TLC

ASSUME ParametersAssumption ==
    /\ TimeoutMs \in [Names -> Int]
    /\ ForceExitAfterMs \in Nat /\ Slack \in Nat \ {0}
    /\ ForceExitAfterMs > 1
    /\ MaxHooks \in Nat

VARIABLES
    names,      \* the name of each hook ever registered; a hook is its number
    hooks,      \* those still registered, in order
    phase,      \* "up", "draining", "drained"
    at,         \* position of the loop of runCleanup() in hooks
    ran,        \* hooks that were run, in order
    budget,     \* the sum of their deadlines (history)
    elapsed,    \* ms since the trigger
    hookMs,     \* ms since the current hook was run
    handled,    \* events whose once-only handler is gone
    awaited,    \* firstTriggered: the exit waits for the drain
    held,       \* something keeps the event loop alive
    shifted,    \* a hook was removed from the array during the drain
    ended       \* how the process ended

vars == <<names, hooks, phase, at, ran, budget, elapsed, hookMs, handled, awaited,
          held, shifted, ended>>

Alive == ended = "no"

\* What wireProcessSignals() handles once.
Events == Signals \cup {"uncaughtException", "unhandledRejection"}

\* Mutant: no clamp.
Deadline_AsAsked(hook) ==
    LET asked == TimeoutMs[names[hook]] IN IF asked < 1 THEN 1 ELSE asked

\* The deadline of a hook, clamped below the watchdog.
Deadline(hook) ==
    LET asked == TimeoutMs[names[hook]]
        capped == IF asked < ForceExitAfterMs - Slack
                  THEN asked ELSE ForceExitAfterMs - Slack
    IN  IF capped < 1 THEN 1 ELSE capped

Init ==
    /\ names = <<>>
    /\ hooks = <<>>
    /\ phase = "up"
    /\ at = 0
    /\ ran = <<>>
    /\ budget = 0
    /\ elapsed = 0
    /\ hookMs = 0
    /\ handled = {}
    /\ awaited = FALSE
    /\ held = TRUE
    /\ shifted = FALSE
    /\ ended = "no"

-----------------------------------------------------------------------------
(***************************************************************************)
(* Registration, possible at any time; the loop iterates the live array    *)
(***************************************************************************)
AddCleanup(name) ==
    /\ Alive
    /\ Len(names) < MaxHooks
    /\ names' = Append(names, name)
    /\ hooks' = Append(hooks, Len(names) + 1)
    /\ UNCHANGED <<phase, at, ran, budget, elapsed, hookMs, handled, awaited, held, shifted, ended>>

Without(s, i) == [j \in 1..(Len(s) - 1) |-> IF j < i THEN s[j] ELSE s[j + 1]]

\* The first hook of that name goes, whichever was meant.
Unsubscribe(hook) ==
    /\ Alive
    /\ \E i \in 1..Len(hooks) :
          /\ names[hooks[i]] = names[hook]
          /\ \A j \in 1..(i - 1) : names[hooks[j]] # names[hook]
          /\ hooks' = Without(hooks, i)
          /\ shifted' = (shifted \/ (phase = "draining" /\ i <= at))
    /\ UNCHANGED <<names, phase, at, ran, budget, elapsed, hookMs, handled, awaited, held, ended>>

-----------------------------------------------------------------------------
(***************************************************************************)
(* The drain                                                               *)
(***************************************************************************)
\* Mutants: the loop goes back; the timer of the hook before still runs.
RunHook_Again(i) ==
    /\ phase' = "draining"
    /\ at' = i
    /\ ran' = Append(ran, hooks[IF i > 2 THEN i - 2 ELSE i])
    /\ budget' = budget + Deadline(hooks[i])
    /\ hookMs' = 0
    /\ UNCHANGED ended

RunHook_OldTimer(i) ==
    /\ phase' = "draining"
    /\ at' = i
    /\ ran' = Append(ran, hooks[i])
    /\ budget' = budget + Deadline(hooks[i])
    /\ UNCHANGED <<hookMs, ended>>

RunHook(i) ==
    /\ phase' = "draining"
    /\ at' = i
    /\ ran' = Append(ran, hooks[i])
    /\ budget' = budget + Deadline(hooks[i])
    /\ hookMs' = 0
    /\ UNCHANGED ended

\* Mutant: the drain ends with a hook to go.
RunOrFinish_TooSoon(i, wrapped) ==
    \/ /\ i < Len(hooks)
       /\ RunHook(i)
    \/ /\ i >= Len(hooks)
       /\ phase' = "drained"
       /\ ended' = IF wrapped THEN "clean" ELSE ended
       /\ UNCHANGED <<at, ran, budget, hookMs>>

\* The loop reaches position i, or its end: the watchdog is cleared, and the
\* process exits if the exit waits for this.
RunOrFinish(i, wrapped) ==
    \/ /\ i <= Len(hooks)
       /\ RunHook(i)
    \/ /\ i > Len(hooks)
       /\ phase' = "drained"
       /\ ended' = IF wrapped THEN "clean" ELSE ended
       /\ UNCHANGED <<at, ran, budget, hookMs>>

\* trigger(): the first one starts the drain.  A hook that triggered again in
\* its first turn, before the promise of the drain is stored, would start a
\* second drain; no hook of the program triggers, so none does here.
Trigger(wrapped) ==
    \/ /\ phase = "up"
       /\ RunOrFinish(1, wrapped)
    \/ /\ phase = "draining"
       /\ UNCHANGED <<phase, at, ran, budget, hookMs, ended>>
    \/ /\ phase = "drained"
       /\ ended' = IF wrapped THEN "clean" ELSE ended
       /\ UNCHANGED <<phase, at, ran, budget, hookMs>>

\* The current hook returns, throws, or is given up; a hook that is given up
\* may go on, but nothing depends on it.
HookSettles ==
    /\ Alive
    /\ phase = "draining"
    /\ RunOrFinish(at + 1, awaited)
    /\ UNCHANGED <<names, hooks, elapsed, handled, awaited, held, shifted>>

HookTimesOut ==
    /\ Alive
    /\ phase = "draining"
    /\ hookMs >= Deadline(ran[Len(ran)])
    /\ RunOrFinish(at + 1, awaited)
    /\ UNCHANGED <<names, hooks, elapsed, handled, awaited, held, shifted>>

Watchdog ==
    /\ Alive
    /\ phase = "draining"
    /\ elapsed >= ForceExitAfterMs
    /\ ended' = "watchdog"
    /\ UNCHANGED <<names, hooks, phase, at, ran, budget, elapsed, hookMs, handled, awaited,
                   held, shifted>>

Tick ==
    /\ Alive
    /\ phase = "draining"
    /\ elapsed < ForceExitAfterMs
    /\ hookMs < Deadline(ran[Len(ran)])
    /\ elapsed' = elapsed + 1
    /\ hookMs' = hookMs + 1
    /\ UNCHANGED <<names, hooks, phase, at, ran, budget, handled, awaited, held, shifted, ended>>

-----------------------------------------------------------------------------
(***************************************************************************)
(* What triggers it                                                        *)
(***************************************************************************)
\* The handler of a signal calls the controller's own trigger, not the wrapper.
\* The flag it tests stays set when the drain is over.
Signal(s) ==
    /\ Alive
    /\ s \notin handled
    /\ handled' = handled \cup {s}
    /\ \/ /\ phase # "up"
          /\ ended' = "escalated"
          /\ UNCHANGED <<phase, at, ran, budget, hookMs>>
       \/ /\ phase = "up"
          /\ Trigger(FALSE)
    /\ UNCHANGED <<names, hooks, elapsed, awaited, held, shifted>>

\* Once its handler is gone, a signal or an exception has its default effect.
\* A rejection then is an exception.
HandledAlready(e) ==
    /\ Alive
    /\ e \in handled \ {"unhandledRejection"}
    /\ ended' = "killed"
    /\ UNCHANGED <<names, hooks, phase, at, ran, budget, elapsed, hookMs, handled, awaited,
                   held, shifted>>

Fault(e) ==
    /\ Alive
    /\ e \notin handled
    /\ handled' = handled \cup {e}
    /\ Trigger(FALSE)
    /\ UNCHANGED <<names, hooks, elapsed, awaited, held, shifted>>

\* Mutant: the wrapper is not installed.
StdinEnd_Unwrapped ==
    /\ Alive
    /\ ~awaited
    /\ awaited' = TRUE
    /\ Trigger(FALSE)
    /\ UNCHANGED <<names, hooks, elapsed, handled, held, shifted>>

\* The end of stdin calls the wrapper that startStdio puts in its place.
StdinEnd ==
    /\ Alive
    /\ ~awaited
    /\ awaited' = TRUE
    /\ Trigger(TRUE)
    /\ UNCHANGED <<names, hooks, elapsed, handled, held, shifted>>

\* Nothing is left that keeps the event loop alive; then the process ends.
LetGo ==
    /\ Alive
    /\ phase = "drained"
    /\ held
    /\ held' = FALSE
    /\ UNCHANGED <<names, hooks, phase, at, ran, budget, elapsed, hookMs, handled, awaited,
                   shifted, ended>>

RunsOut ==
    /\ Alive
    /\ phase = "drained"
    /\ ~held
    /\ ended' = "clean"
    /\ UNCHANGED <<names, hooks, phase, at, ran, budget, elapsed, hookMs, handled, awaited,
                   held, shifted>>

Timers == Tick \/ HookTimesOut \/ Watchdog

Next ==
    \/ \E name \in Names : AddCleanup(name)
    \/ \E hook \in 1..Len(names) : Unsubscribe(hook)
    \/ HookSettles
    \/ Timers
    \/ \E s \in Signals : Signal(s)
    \/ \E e \in Events \ Signals : Fault(e)
    \/ \E e \in Events : HandledAlready(e)
    \/ StdinEnd
    \/ LetGo
    \/ RunsOut

Spec == Init /\ [][Next]_vars

\* Timers fire; no hook need ever settle.
FairSpec == Spec /\ WF_vars(Timers) /\ WF_vars(RunsOut)

-----------------------------------------------------------------------------
TypeOK ==
    /\ names \in Seq(Names)
    /\ hooks \in Seq(1..Len(names))
    /\ phase \in {"up", "draining", "drained"}
    /\ at \in Nat /\ budget \in Nat
    /\ ran \in Seq(1..Len(names))
    /\ elapsed \in 0..ForceExitAfterMs
    /\ hookMs \in 0..elapsed
    /\ handled \subseteq Events
    /\ awaited \in BOOLEAN /\ held \in BOOLEAN /\ shifted \in BOOLEAN
    /\ ended \in {"no", "clean", "watchdog", "escalated", "killed"}
    /\ phase = "draining" => /\ Len(ran) > 0
                             /\ hookMs <= Deadline(ran[Len(ran)])

(***************************************************************************)
(* Hooks run in the order of registration, each at most once, whatever     *)
(* triggers come again and whatever is registered or removed meanwhile.    *)
(***************************************************************************)
RunsInOrder == \A i, j \in 1..Len(ran) : i < j => ran[i] < ran[j]

\* The drain is where its loop and its timers say (createShutdownController).
DrainInv == TypeOK /\ RunsInOrder

(***************************************************************************)
(* When the drain ends by itself, every hook still registered was run,     *)
(* those added during the drain included; unless a hook that had its turn  *)
(* was removed meanwhile, which lets the loop skip the next.               *)
(***************************************************************************)
Ran(hook) == \E i \in 1..Len(ran) : ran[i] = hook

NoneSkipped ==
    [][phase # "drained" /\ phase' = "drained"
          => shifted \/ \A i \in 1..Len(hooks) : Ran(hooks[i])]_vars

(***************************************************************************)
(* The watchdog needs hooks whose deadlines make up its whole time, and    *)
(* comes only after the first of them was given up or returned.  A quick   *)
(* hook and a hanging one can be enough: 1 and 3 of 4, or 100 and 9950 ms  *)
(* of 10 s; one hook, however it hangs, is not.                            *)
(***************************************************************************)
ForcedTakesTime ==
    ended = "watchdog" => Len(ran) > 1 /\ budget >= ForceExitAfterMs

(***************************************************************************)
(* The end of stdin ends the process, also when a signal came first, also  *)
(* when hooks hang or something keeps the event loop alive.                *)
(***************************************************************************)
EofEndsProcess == awaited ~> ~Alive

(***************************************************************************)
(* A statement of the repository that the code does not keep               *)
(***************************************************************************)
\* server.ts: "we wait for the controller to be triggered (which only happens
\* when SIGTERM, SIGINT, stdin EOF, or an explicit trigger fires), then exit
\* cleanly."
ExitsOnceTriggered == phase # "up" ~> ~Alive
=============================================================================
