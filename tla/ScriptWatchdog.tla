---------------------------- MODULE ScriptWatchdog ----------------------------
(***************************************************************************)
(* The script watchdog (runtime/mb_script_watchdog.cc): an observer of the *)
(* main thread's tasks arms a deadline for each, and a monitor thread      *)
(* terminates the script of a task that overruns it.  The two share        *)
(* atomics and no lock; each of their accesses is a step here.             *)
(***************************************************************************)
EXTENDS Integers, Sequences

CONSTANTS
  Timeouts,   \* what SetTimeoutMs may set, in ticks; 0 turns the watchdog off
  MaxTasks,   \* bound on the tasks that are run
  MaxDepth,   \* bound on tasks run inside one another
  MaxTime     \* bound on the clock, later than any deadline that is armed

ASSUME ConstantsAssumption ==
  /\ Timeouts \subseteq Nat /\ Timeouts # {}
  /\ MaxTasks \in Nat /\ MaxDepth \in Nat /\ MaxTime \in Nat \ {0}

VARIABLES
  (* Shared. *)
  timeout,     \* timeout_ms_
  deadline,    \* deadline_us_; 0 when no task is armed
  generation,  \* task_generation_: how many tasks have been seen
  terminated,  \* terminated_
  running,     \* running_
  terminate,   \* V8 has a request to terminate the script, not yet cancelled
  now,         \* NowUs, from 1
  (* The main thread. *)
  main,        \* where it is
  tasks,       \* the generations of the tasks it is in, the innermost last
  runaway,     \* the innermost one is in a script that does not return
  (* The monitor thread. *)
  monitor,     \* where it is
  d, g,        \* its locals
  (* History. *)
  armed,       \* the deadlines armed, by generation
  nested,      \* the generations of the tasks that began inside another
  killed       \* <<generation, whether it had overrun>> of the scripts terminated

shared == <<timeout, deadline, generation, terminated, running, terminate, now>>
mainVars == <<main, tasks, runaway>>
monitorVars == <<monitor, d, g>>
history == <<armed, nested, killed>>
vars == <<shared, mainVars, monitorVars, history>>

Generations == 0 .. MaxTasks

Init ==
  /\ timeout \in Timeouts
  /\ deadline = 0 /\ generation = 0 /\ now = 1
  /\ terminated = FALSE /\ running = FALSE /\ terminate = FALSE
  /\ main = "ready" /\ tasks = <<>> /\ runaway = FALSE
  /\ monitor = "off" /\ d = 0 /\ g = 0
  /\ armed = <<>> /\ nested = {} /\ killed = {}

Depth     == Len(tasks)
Innermost == tasks[Depth]

HasOverrun == armed[Innermost] > 0 /\ armed[Innermost] < now

------------------------------------------------------------------------------
(* The host's calls, outside of any task.                                  *)
Start ==
  /\ main = "ready" /\ tasks = <<>> /\ ~running
  /\ running' = TRUE /\ monitor' = "sleep"
  /\ UNCHANGED <<timeout, deadline, generation, terminated, terminate, now,
                 mainVars, d, g, history>>

Stop ==
  /\ main = "ready" /\ tasks = <<>> /\ running
  /\ running' = FALSE /\ main' = "join"
  /\ UNCHANGED <<timeout, deadline, generation, terminated, terminate, now,
                 tasks, runaway, monitorVars, history>>

Join ==
  /\ main = "join" /\ monitor = "off"
  /\ main' = "ready"
  /\ UNCHANGED <<shared, tasks, runaway, monitorVars, history>>

SetTimeoutMs(t) ==
  /\ main = "ready" /\ ~runaway
  /\ timeout' = t
  /\ UNCHANGED <<deadline, generation, terminated, running, terminate, now,
                 mainVars, monitorVars, history>>

------------------------------------------------------------------------------
(* WillProcessTask: exchange terminated_, cancel if it was set, bump the   *)
(* generation, arm the deadline.                                           *)
WillProcessTask ==
  /\ main = "ready" /\ running /\ ~runaway
  /\ Depth < MaxDepth /\ generation < MaxTasks
  /\ terminated' = FALSE
  /\ main' = IF terminated THEN "cancel_before" ELSE "first"
  /\ UNCHANGED <<timeout, deadline, generation, running, terminate, now, tasks,
                 runaway, monitorVars, history>>

CancelBefore ==
  /\ main = "cancel_before"
  /\ terminate' = FALSE /\ main' = "first"
  /\ UNCHANGED <<timeout, deadline, generation, terminated, running, now, tasks,
                 runaway, monitorVars, history>>

(* Mutant: the deadline is armed before the generation is bumped.          *)
BumpsLast == "second"

(* "Bump the generation BEFORE arming the deadline".                       *)
Bumps == "first"
Arms  == IF Bumps = "first" THEN "second" ELSE "first"

After(step) == IF step = "first" THEN "second" ELSE "ready"

Bump ==
  /\ main = Bumps
  /\ generation' = generation + 1
  /\ tasks' = Append(tasks, generation + 1)
  /\ nested' = IF tasks # <<>> THEN nested \cup {generation + 1} ELSE nested
  /\ main' = After(main)
  /\ UNCHANGED <<timeout, deadline, terminated, running, terminate, now, runaway,
                 monitorVars, armed, killed>>

Arm ==
  /\ main = Arms /\ now + timeout < MaxTime
  /\ deadline' = IF timeout > 0 THEN now + timeout ELSE 0
  /\ armed' = Append(armed, deadline')
  /\ main' = After(main)
  /\ UNCHANGED <<timeout, generation, terminated, running, terminate, now, tasks,
                 runaway, monitorVars, nested, killed>>

(* A script of the innermost task does not return, or returns, which is no *)
(* step; with a request pending it is terminated, and V8 may hold on to    *)
(* the request.                                                            *)
RunScript ==
  /\ main = "ready" /\ tasks # <<>> /\ ~runaway
  /\ runaway' = TRUE
  /\ UNCHANGED <<shared, main, tasks, monitorVars, history>>

ScriptIsTerminated ==
  /\ main = "ready" /\ tasks # <<>> /\ terminate
  /\ runaway' = FALSE
  /\ terminate' \in BOOLEAN
  /\ killed' = killed \cup {<<Innermost, HasOverrun>>}
  /\ UNCHANGED <<timeout, deadline, generation, terminated, running, now, main,
                 tasks, monitorVars, armed, nested>>

(* Mutant: the task leaves its deadline behind.                            *)
NeverDisarms(depth) == FALSE

(* "Only DISARM at the outermost level".                                   *)
Disarms(depth) == depth = 0

DidProcessTask ==
  /\ main = "ready" /\ tasks # <<>> /\ ~runaway
  /\ tasks' = SubSeq(tasks, 1, Depth - 1)
  /\ deadline' = IF Disarms(Depth - 1) THEN 0 ELSE deadline
  /\ main' = "ended"
  /\ UNCHANGED <<timeout, generation, terminated, running, terminate, now, runaway,
                 monitorVars, history>>

(* ... then exchange terminated_, and cancel if it was set.                *)
Ended ==
  /\ main = "ended"
  /\ terminated' = FALSE
  /\ main' = IF terminated THEN "cancel_after" ELSE "ready"
  /\ UNCHANGED <<timeout, deadline, generation, running, terminate, now, tasks,
                 runaway, monitorVars, history>>

CancelAfter ==
  /\ main = "cancel_after"
  /\ terminate' = FALSE /\ main' = "ready"
  /\ UNCHANGED <<timeout, deadline, generation, terminated, running, now, tasks,
                 runaway, monitorVars, history>>

------------------------------------------------------------------------------
(* ThreadMain.                                                             *)
Goes(from, to) == monitor = from /\ monitor' = to

Wake ==
  /\ Goes("sleep", "read")
  /\ running /\ deadline # 0 /\ deadline < now
  /\ d' = deadline
  /\ UNCHANGED <<shared, mainVars, g, history>>

Leave ==
  /\ Goes("sleep", "off") /\ ~running
  /\ UNCHANGED <<shared, mainVars, d, g, history>>

ReadGeneration ==
  /\ Goes("read", "claim")
  /\ g' = generation
  /\ UNCHANGED <<shared, mainVars, d, history>>

(* Mutant: the deadline is taken, whatever it is now.                      *)
ClaimsAny(claim) == TRUE

(* compare_exchange_strong.                                                *)
Claims(claim) == deadline = claim

Claim ==
  /\ Goes("claim", IF Claims(d) THEN "check" ELSE "sleep")
  /\ deadline' = IF Claims(d) THEN 0 ELSE deadline
  /\ UNCHANGED <<timeout, generation, terminated, running, terminate, now,
                 mainVars, d, g, history>>

Check ==
  /\ Goes("check", IF generation = g THEN "mark" ELSE "sleep")
  /\ UNCHANGED <<shared, mainVars, d, g, history>>

Mark ==
  /\ Goes("mark", "terminate")
  /\ terminated' = TRUE
  /\ UNCHANGED <<timeout, deadline, generation, running, terminate, now,
                 mainVars, d, g, history>>

TerminateExecution ==
  /\ Goes("terminate", "recheck")
  /\ terminate' = TRUE
  /\ UNCHANGED <<timeout, deadline, generation, terminated, running, now,
                 mainVars, d, g, history>>

Recheck ==
  /\ Goes("recheck", IF generation = g THEN "sleep" ELSE "undo")
  /\ UNCHANGED <<shared, mainVars, d, g, history>>

Undo ==
  /\ Goes("undo", "unmark")
  /\ terminate' = FALSE
  /\ UNCHANGED <<timeout, deadline, generation, terminated, running, now,
                 mainVars, d, g, history>>

Unmark ==
  /\ Goes("unmark", "sleep")
  /\ terminated' = FALSE
  /\ UNCHANGED <<timeout, deadline, generation, running, terminate, now,
                 mainVars, d, g, history>>

Monitor ==
  \/ Wake \/ Leave \/ ReadGeneration \/ Claim \/ Check \/ Mark
  \/ TerminateExecution \/ Recheck \/ Undo \/ Unmark

Tick ==
  /\ now < MaxTime
  /\ now' = now + 1
  /\ UNCHANGED <<timeout, deadline, generation, terminated, running, terminate,
                 mainVars, monitorVars, history>>

------------------------------------------------------------------------------
Next ==
  \/ Start \/ Stop \/ Join
  \/ \E t \in Timeouts : SetTimeoutMs(t)
  \/ WillProcessTask \/ CancelBefore \/ Bump \/ Arm
  \/ RunScript \/ ScriptIsTerminated
  \/ DidProcessTask \/ Ended \/ CancelAfter
  \/ Monitor \/ Tick

Spec == Init /\ [][Next]_vars

(* Time passes, the monitor thread runs, and V8 heeds a request.           *)
FairSpec ==
  Spec /\ WF_vars(Tick) /\ WF_vars(Monitor) /\ WF_vars(ScriptIsTerminated)

------------------------------------------------------------------------------
(* Types; no deadline is armed outside of a task.                          *)
TypeOK ==
  /\ timeout \in Timeouts
  /\ deadline \in Nat /\ d \in Nat /\ now \in 1 .. MaxTime
  /\ generation \in Generations /\ g \in Generations
  /\ terminated \in BOOLEAN /\ running \in BOOLEAN /\ terminate \in BOOLEAN
  /\ runaway \in BOOLEAN
  /\ main \in {"ready", "join", "cancel_before", "first", "second", "ended",
               "cancel_after"}
  /\ tasks \in Seq(Generations)
  /\ monitor \in {"off", "sleep", "read", "claim", "check", "mark", "terminate",
                  "recheck", "undo", "unmark"}
  /\ armed \in Seq(Nat)
  /\ nested \subseteq Generations /\ killed \subseteq Generations \X BOOLEAN
  /\ tasks = <<>> => deadline = 0

Holds ==
  monitor \in {"check", "mark", "terminate", "recheck", "undo", "unmark"}

(* What the monitor claims has passed, and is the deadline of the task it  *)
(* holds to it or, when that task began inside another, the deadline that  *)
(* the task before it left armed.                                          *)
ClaimIsOfItsTask ==
  Holds =>
    /\ d < now
    /\ \/ g \in DOMAIN armed /\ armed[g] = d
       \/ g \in nested /\ g - 1 \in DOMAIN armed /\ armed[g - 1] = d

(* "a successful deadline CAS in the monitor then implies the generation   *)
(* it reads belongs to the task that armed that deadline".                 *)
GenerationIsOfTheDeadline == Holds => g \in DOMAIN armed /\ armed[g] = d

(* A deadline is armed, or was claimed and the script is to be terminated. *)
Watched == deadline # 0 \/ Holds \/ terminate

(* "if any ONE task overruns the timeout" its script is terminated: with   *)
(* the watchdog armed for it, the last task does not run away for good,    *)
(* nor does an outer one as long as the deadline of a task inside it is    *)
(* armed.  It is armed for one script: a task goes on unwatched to its     *)
(* other scripts, and when it comes back from a task that was claimed.     *)
NoRunaway ==
  ~(/\ runaway
    /\ \/ Watched
       \/ /\ Innermost = generation /\ armed[Innermost] > 0
          /\ \A k \in killed : k[1] # Innermost)

EveryRunawayIsStopped == []<>NoRunaway

(* "we terminate ONLY the same task we observed overrunning - never a      *)
(* fresh one": the script that is terminated is of a task whose deadline   *)
(* had passed.                                                             *)
OnlyOverrunsAreTerminated == \A k \in killed : k[2]
=============================================================================
