------------------------------- MODULE FrontEnd -------------------------------
(***************************************************************************)
(* The Textual application (vibe/cli/textual_ui/app.py) and the scheduled  *)
(* loops (core/loop.py, scheduled_loop_runner.py): who starts, interrupts  *)
(* and answers the turns of the one agent loop.                            *)
(*                                                                         *)
(* The app handles its messages one after the other; the escape key, the   *)
(* poll of the loops, a teleport and the turns themselves are tasks beside *)
(* it (an initial prompt is sent like the prompt of a loop).  at[a] is the *)
(* await at which such a coroutine is suspended.  A task is a turn or a    *)
(* compaction.                                                             *)
(***************************************************************************)
EXTENDS Integers, FiniteSets

CONSTANTS
  MaxTasks,    \* bound: turns and compactions of a run
  MaxLost      \* bound: messages that were shown and not sent

ASSUME FrontBounds == MaxTasks \in Nat /\ MaxLost \in Nat

Task   == 1..MaxTasks
NoTask == 0
Actor  == {"app", "escape", "poll"}
Teleport == MaxTasks + 1
Asker  == Task \cup {Teleport}

VARIABLES
  calm,       \* no loops and no initial prompt, and the user submits nothing
              \* while an escape is being carried out
  running,    \* _agent_running
  requested,  \* _interrupt_requested
  agentTask,  \* _agent_task
  task,       \* a task: none, created, working, cleanup or done
  isCompact,  \* tasks that run a compaction
  cancelled,  \* tasks with a cancel() not yet delivered
  at,         \* the await of each coroutine
  target,     \* the task an interrupt awaits
  command,    \* what the app dispatches after its interrupt
  lost,       \* history: messages that were shown and never sent
  lock,       \* the asker inside _user_interaction_lock
  ask,        \* where the prompt of an asker stands
  panel,      \* _current_bottom_app
  mounted,    \* the panels mounted beside the input
  rewinding   \* _rewind_mode

taskVars  == <<running, requested, agentTask, task, isCompact, cancelled>>
actorVars == <<at, target, command, lost>>
panelVars == <<lock, ask, panel, mounted, rewinding>>
frontVars == <<calm, taskVars, actorVars, panelVars>>

Working == {t \in Task : task[t] = "working"}
Goes(a, p) == at' = [at EXCEPT ![a] = p]

FrontInit ==
  /\ calm \in BOOLEAN
  /\ running = FALSE /\ requested = FALSE /\ agentTask = NoTask
  /\ task = [t \in Task |-> "none"] /\ isCompact = {} /\ cancelled = {}
  /\ at = [a \in Actor |-> "none"]
  /\ target = [a \in Actor |-> NoTask] /\ command = "none" /\ lost = 0
  /\ lock = NoTask /\ ask = [k \in Asker |-> "none"]
  /\ panel = "input" /\ mounted = {} /\ rewinding = FALSE

-----------------------------------------------------------------------------
(* Tasks *)

NextTask == Cardinality({t \in Task : task[t] # "none"}) + 1

\* create_task: the flag is set by the task itself, when it first runs.
Create(compact) ==
  /\ NextTask \in Task
  /\ task' = [task EXCEPT ![NextTask] = "created"]
  /\ isCompact' = IF compact THEN isCompact \cup {NextTask} ELSE isCompact
  /\ agentTask' = NextTask

\* A task that was cancelled before it first runs never runs.
Start(t) ==
  /\ task[t] = "created"
  /\ IF t \in cancelled
     THEN /\ task' = [task EXCEPT ![t] = "done"] /\ cancelled' = cancelled \ {t}
          /\ UNCHANGED running
     ELSE /\ task' = [task EXCEPT ![t] = "working"] /\ running' = TRUE
          /\ UNCHANGED cancelled
  /\ UNCHANGED <<requested, agentTask, isCompact, actorVars, panelVars>>

\* The finally of the task: flags first, widgets and windowing afterwards.  A
\* compaction has nothing to await there.
EndOf(t) ==
  /\ running' = FALSE /\ agentTask' = NoTask
  /\ requested' = (t \in isCompact /\ requested)
  /\ task' = [task EXCEPT ![t] = IF t \in isCompact THEN "done" ELSE "cleanup"]
  /\ cancelled' = cancelled \ {t}

\* The work is done, fails or has delivered its cancellation; no prompt is open.
Finish(t) ==
  /\ task[t] = "working" /\ ask[t] = "none"
  /\ EndOf(t)
  /\ UNCHANGED <<isCompact, actorVars, panelVars>>

CleanedUp(t) ==
  /\ task[t] = "cleanup"
  /\ task' = [task EXCEPT ![t] = "done"]
  /\ cancelled' = cancelled \ {t}
  /\ UNCHANGED <<running, requested, agentTask, isCompact, actorVars, panelVars>>

-----------------------------------------------------------------------------
(* Interrupts *)

\* Mutant: the interrupt leaves the task alone and waits for it.
CancelNothing == UNCHANGED cancelled

CancelAgentTask == cancelled' = IF agentTask # NoTask THEN cancelled \cup {agentTask} ELSE cancelled

\* Pending prompts are answered for the user, whoever asked.
AnswerPending == ask' = [k \in Asker |-> IF ask[k] = "open" THEN "closing" ELSE ask[k]]

\* _interrupt_agent_loop up to its first await; nothing to do when no turn runs or
\* an interrupt is under way.
Interrupt(a) ==
  /\ running /\ ~requested
  /\ requested' = TRUE
  /\ AnswerPending /\ CancelAgentTask
  /\ target' = [target EXCEPT ![a] = agentTask]
  /\ Goes(a, "awaiting")
  /\ UNCHANGED <<running, agentTask, task, isCompact, lost,
                 lock, panel, mounted, rewinding>>

\* The task is over; streaming widgets are finalized.
Awaited(a) ==
  /\ at[a] = "awaiting"
  /\ target[a] # NoTask => task[target[a]] = "done"
  /\ Goes(a, "finalizing")
  /\ UNCHANGED <<taskVars, target, command, lost, panelVars>>

\* The flag is cleared, whoever has set it by now; the loading area is emptied.
Finalized(a) ==
  /\ at[a] = "finalizing"
  /\ running' = FALSE
  /\ Goes(a, "showing")
  /\ UNCHANGED <<requested, agentTask, task, isCompact, cancelled,
                 target, command, lost, panelVars>>

\* The interrupt message is shown.  The app goes on to what was submitted.
Shown(a) ==
  /\ at[a] = "showing"
  /\ requested' = FALSE
  /\ target' = [target EXCEPT ![a] = NoTask]
  /\ Goes(a, IF a = "app" THEN "dispatching" ELSE "none")
  /\ UNCHANGED <<running, agentTask, task, isCompact, cancelled, command, lost,
                 panelVars>>

\* The app handles its messages and its priority keys one after the other.
AppFree ==
  /\ at["app"] = "none"
  /\ calm => at["escape"] = "none"

\* Escape on the input (a priority key, run as a worker).
Escape ==
  /\ AppFree /\ at["escape"] = "none" /\ panel = "input"
  /\ Interrupt("escape")
  /\ UNCHANGED command

-----------------------------------------------------------------------------
(* Submissions *)

\* Mutant: a submission does not interrupt the running turn.
SubmitOnly(c) ==
  /\ AppFree /\ panel = "input"
  /\ command' = c
  /\ Goes("app", "dispatching")
  /\ UNCHANGED <<taskVars, target, lost, panelVars>>

\* on_chat_input_container_submitted: the running turn is interrupted, then the
\* input is dispatched as a message (or skill) or as "/compact".
Submit(c) ==
  /\ AppFree /\ panel = "input"
  /\ command' = c
  /\ \/ Interrupt("app")
     \/ /\ ~running \/ requested
        /\ Goes("app", "dispatching")
        /\ UNCHANGED <<taskVars, target, lost, panelVars>>

\* What other commands do to the agent loop is not this module's matter.
Dispatch ==
  /\ at["app"] = "dispatching"
  /\ command' = "none"
  /\ Goes("app", IF command = "message" THEN "mounting"
                 ELSE IF command = "compact" /\ ~running THEN "compacting" ELSE "none")
  /\ UNCHANGED <<taskVars, target, lost, panelVars>>

\* _handle_user_message: the message is on the screen; it is sent unless a turn
\* runs by now.
Mounted(a) ==
  /\ at[a] = "mounting"
  /\ lost' = IF running THEN lost + 1 ELSE lost
  /\ lost' <= MaxLost
  /\ Goes(a, IF running THEN "none" ELSE "stopping")
  /\ UNCHANGED <<taskVars, target, command, panelVars>>

\* The remote stream is stopped and the loading widget removed, then the turn is
\* created.
SendMessage(a) ==
  /\ at[a] = "stopping"
  /\ Create(FALSE)
  /\ Goes(a, "none")
  /\ UNCHANGED <<running, requested, cancelled, target, command, lost, panelVars>>

\* _compact_history, after its widget was mounted.
SendCompact ==
  /\ at["app"] = "compacting"
  /\ Create(TRUE)
  /\ Goes("app", "none")
  /\ UNCHANGED <<running, requested, cancelled, target, command, lost, panelVars>>

-----------------------------------------------------------------------------
(* Scheduled loops *)

\* _poll finds a loop due (see ScheduledLoops): nothing fires into a turn or a
\* panel, but pop_due then awaits the session log.
Poll ==
  /\ ~calm /\ at["poll"] = "none"
  /\ ~running /\ panel = "input"
  /\ Goes("poll", "popping")
  /\ UNCHANGED <<taskVars, target, command, lost, panelVars>>

\* The loop fires, even if it was cancelled or a turn started meanwhile.
Popped ==
  /\ at["poll"] = "popping"
  /\ Goes("poll", "mounting")
  /\ UNCHANGED <<taskVars, target, command, lost, panelVars>>

-----------------------------------------------------------------------------
(* Approvals and questions *)

Asks(k) == IF k = Teleport THEN "question" ELSE "approval"

\* A tool of the turn, or a teleport about its push, asks the user.
Ask(k) ==
  /\ ask[k] = "none"
  /\ k \in Task => task[k] = "working" /\ k \notin isCompact /\ k \notin cancelled
  /\ ask' = [ask EXCEPT ![k] = "waiting"]
  /\ UNCHANGED <<taskVars, actorVars, lock, panel, mounted, rewinding>>

\* One asker at a time, once the user pauses typing.
Acquire(k) ==
  /\ ask[k] = "waiting" /\ lock = NoTask /\ k \notin cancelled
  /\ lock' = k
  /\ ask' = [ask EXCEPT ![k] = "typing"]
  /\ UNCHANGED <<taskVars, actorVars, panel, mounted, rewinding>>

\* _switch_from_input: the panel comes on top of whatever is open.
Open(k) ==
  /\ ask[k] = "typing" /\ k \notin cancelled
  /\ ask' = [ask EXCEPT ![k] = "open"]
  /\ panel' = Asks(k) /\ mounted' = mounted \cup {Asks(k)}
  /\ UNCHANGED <<taskVars, actorVars, lock, rewinding>>

\* The user answers in the panel; the app handles the answer.
Answer(k) ==
  /\ ask[k] = "open" /\ Asks(k) \in mounted /\ AppFree
  /\ ask' = [ask EXCEPT ![k] = "closing"]
  /\ UNCHANGED <<taskVars, actorVars, lock, panel, mounted, rewinding>>

\* _switch_to_input_app: every other panel is removed, whoever it belongs to.
ToInput == panel' = "input" /\ mounted' = {}

\* The finally of the callback, and with it the lock is given back.
CloseAsk(k) ==
  /\ \/ ask[k] = "closing"
     \/ ask[k] = "open" /\ k \in cancelled
  /\ ToInput
  /\ lock' = NoTask
  /\ ask' = [ask EXCEPT ![k] = "none"]
  /\ UNCHANGED <<taskVars, actorVars, rewinding>>

\* A cancelled turn whose call has not opened its prompt.
DropAsk(k) ==
  /\ k \in cancelled /\ ask[k] \in {"waiting", "typing"}
  /\ lock' = IF lock = k THEN NoTask ELSE lock
  /\ ask' = [ask EXCEPT ![k] = "none"]
  /\ UNCHANGED <<taskVars, actorVars, panel, mounted, rewinding>>

-----------------------------------------------------------------------------
(* Panels and rewind mode *)

\* alt+up: refused while the agent runs, and nothing else.
BeginRewind ==
  /\ AppFree /\ ~running /\ ~rewinding
  /\ rewinding' = TRUE
  /\ panel' = "rewind" /\ mounted' = mounted \cup {"rewind"}
  /\ UNCHANGED <<taskVars, actorVars, lock, ask>>

\* Escape in the rewind panel, or a rewind that was carried out (see Rewind).
EndRewind ==
  /\ rewinding /\ "rewind" \in mounted /\ AppFree
  /\ rewinding' = FALSE
  /\ ToInput
  /\ UNCHANGED <<taskVars, actorVars, lock, ask>>

-----------------------------------------------------------------------------
InterruptStep(a) == Awaited(a) \/ Finalized(a) \/ Shown(a)
TaskStep(t) == Finish(t) \/ CleanedUp(t)
AskStep(k) == CloseAsk(k) \/ DropAsk(k)

\* A created task runs in the next round of the event loop: only what is ready in
\* the same round, as another message that was just mounted, can come before it.
FrontNext ==
  /\ UNCHANGED calm
  /\ \/ \E t \in Task : Start(t)
     \/ \E a \in Actor : Mounted(a) \/ SendMessage(a)
     \/ /\ \A t \in Task : task[t] # "created"
        /\ \/ \E t \in Task : TaskStep(t)
           \/ \E a \in Actor : InterruptStep(a)
           \/ \E k \in Asker : Ask(k) \/ Acquire(k) \/ Open(k) \/ Answer(k) \/ AskStep(k)
           \/ \E c \in {"message", "compact"} : Submit(c)
           \/ Escape \/ Dispatch \/ SendCompact \/ Poll \/ Popped
           \/ BeginRewind \/ EndRewind

\* The event loop runs what is ready: a cancelled task ends, prompts it has open
\* are closed, interrupts go on.  Neither the model nor the user has to.
Ready(step) == UNCHANGED calm /\ (\A t \in Task : task[t] # "created") /\ step

TaskStarts(t)      == UNCHANGED calm /\ Start(t)
TaskGoesOn(t)      == Ready(t \in cancelled /\ TaskStep(t))
AskGoesOn(k)       == Ready(AskStep(k))
InterruptGoesOn(a) == Ready(InterruptStep(a))

FrontFairness ==
  /\ \A t \in Task : WF_frontVars(TaskStarts(t)) /\ WF_frontVars(TaskGoesOn(t))
  /\ \A k \in Asker : WF_frontVars(AskGoesOn(k))
  /\ \A a \in Actor : WF_frontVars(InterruptGoesOn(a))

FrontSpec == FrontInit /\ [][FrontNext]_frontVars /\ FrontFairness

-----------------------------------------------------------------------------
(* Properties *)

\* Type invariant of the flags, the tasks, the coroutines and the panels.
FrontTypeOK ==
  /\ {calm, running, requested, rewinding} \subseteq BOOLEAN
  /\ agentTask \in Task \cup {NoTask} /\ isCompact \in SUBSET Task
  /\ task \in [Task -> {"none", "created", "working", "cleanup", "done"}]
  /\ cancelled \in SUBSET {t \in Task : task[t] \in {"created", "working", "cleanup"}}
  /\ at \in [Actor -> {"none", "awaiting", "finalizing", "showing", "dispatching",
                        "mounting", "stopping", "compacting", "popping"}]
  /\ target \in [Actor -> Task \cup {NoTask}]
  /\ command \in {"none", "message", "compact"} /\ lost \in 0..MaxLost
  /\ lock \in Asker \cup {NoTask}
  /\ ask \in [Asker -> {"none", "waiting", "typing", "open", "closing"}]
  /\ panel \in {"input", "approval", "question", "rewind"}
  /\ mounted \in SUBSET {"approval", "question", "rewind"}

\* A user who waits for an interrupt before submitting again, in a session without
\* loops, has one turn or compaction at a time, whose flag is right, finds every
\* message sent, and every approval a turn asks for on the screen.
CalmUserServed ==
  calm => /\ Cardinality(Working) <= 1
          /\ running <=> Working # {}
          /\ lost = 0
          /\ \A t \in Working : ask[t] = "open" => panel = "approval"

\* Every interrupt comes to its end: the turn it cancels ends, with its prompts,
\* although the model and the user never answer.
InterruptEnds == requested ~> ~requested
===============================================================================
