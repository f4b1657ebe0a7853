------------------------------ MODULE AgentLoop ------------------------------
(***************************************************************************)
(* One AgentLoop (vibe/core/agent_loop.py) and the front end that drives   *)
(* it: act() and its conversation loop, one asyncio task per tool call     *)
(* fanned into a queue, the approval prompt under the permission store's   *)
(* lock, and the interrupt that may reach the loop at any await.           *)
(*                                                                         *)
(* asyncio runs one coroutine at a time and switches only at an await, so  *)
(* an action is what one coroutine does between two awaits.  The awaits    *)
(* that matter are the phases below.  Middleware, hooks and compaction are *)
(* abstracted to what they do to this state: end the act() or append an    *)
(* injected user message and ask the model again.                          *)
(***************************************************************************)
EXTENDS MessageHistory

CONSTANTS
  MaxCalls,      \* bound: tool-call ids the model hands out are 1..MaxCalls
  MaxUserMsgs,   \* bound: user messages, typed and injected
  Permissions,   \* session patterns and whole-tool grants a user can allow
  Policy,        \* what resolve_permission and the config say of each call
  Needs,         \* the permissions an "ask" call requires
  Malformed      \* calls whose tool or arguments do not resolve

Call   == 1..MaxCalls
NoCall == 0

ASSUME BoundsAssumption == MaxCalls \in Nat /\ MaxUserMsgs \in Nat
ASSUME PolicyAssumption ==
  /\ Policy \in [Call -> {"always", "never", "ask"}]
  /\ Needs \in [Call -> (SUBSET Permissions) \ {{}}]
  /\ Malformed \subseteq Call

VARIABLES
  \* AgentLoop
  messages,      \* MessageList without the system prompt
  phase,         \* the await at which the running act() is suspended
  userCancelled, \* _conversation_loop's user_cancelled
  userMsgs,      \* user messages so far (bounded)
  issued,        \* tool-call ids handed out so far
  \* _run_tools_concurrently of the current turn
  batch,         \* the calls of the last assistant message
  queue,         \* result events put and not yet taken
  \* one asyncio task per call
  task,          \* where each call's task stands
  cancelling,    \* tasks with a cancel() not yet delivered
  stray,         \* calls of generators dropped by an interrupt, not yet closed
  disturbed,     \* history: calls that were ever stray
  \* PermissionStore and front end
  lock,          \* PermissionStore.lock: the call that holds it, or NoCall
  granted,       \* rules and tool permissions approved "always"
  bypass,        \* config.bypass_tool_permissions of the active profile
  interactive    \* an approval callback is set

loopVars  == <<phase, userCancelled, userMsgs, issued, batch>>
storeVars == <<lock, granted, bypass, interactive>>
vars == <<messages, loopVars, queue, task, cancelling, stray, disturbed, storeVars>>

Phases == {"idle", "request", "announce", "draining", "yielding", "joining", "after"}
TaskStates == {"none", "created", "deciding", "asking", "refused", "running", "done"}
Event == [call : Call, cancelled : BOOLEAN]

Active(c)    == task[c] \notin {"none", "done"}
Unfinished   == {c \in batch : Active(c)}
Uncovered(c) == Needs[c] \ granted

-----------------------------------------------------------------------------
Init ==
  /\ messages = <<>>
  /\ phase = "idle" /\ userCancelled = FALSE /\ userMsgs = 0 /\ issued = 0
  /\ batch = {} /\ queue = {}
  /\ task = [c \in Call |-> "none"]
  /\ cancelling = {} /\ stray = {} /\ disturbed = FALSE
  /\ lock = NoCall /\ granted = {}
  /\ bypass \in BOOLEAN /\ interactive \in BOOLEAN

-----------------------------------------------------------------------------
(* The conversation loop *)

\* act(): repair the history, take a checkpoint, append the user's message.
Act ==
  /\ phase = "idle" /\ userMsgs < MaxUserMsgs
  /\ messages' = Append(FillMissing(messages), User)
  /\ userMsgs' = userMsgs + 1
  /\ phase' = "request" /\ userCancelled' = FALSE
  /\ UNCHANGED <<issued, batch, queue, task, cancelling, stray, disturbed, storeVars>>

\* The completion arrives: its message is appended with n fresh tool calls.
\* Nothing is appended before a streamed completion has ended.
Reply(n) ==
  /\ phase = "request" /\ issued + n <= MaxCalls
  /\ LET cs == issued + 1 .. issued + n
     IN  /\ messages' = Append(messages, Assistant(cs))
         /\ batch' = cs
  /\ issued' = issued + n
  /\ phase' = IF n = 0 THEN "after" ELSE "announce"
  /\ UNCHANGED <<userCancelled, userMsgs, queue, task, cancelling, stray, disturbed,
                 storeVars>>

\* _emit_failed_tool_events: the unresolvable calls are answered first, one
\* per event, each after its event was handled.
AnswerMalformed(c) ==
  /\ phase = "announce"
  /\ c \in batch \cap Malformed /\ task[c] = "none"
  /\ \A d \in batch \cap Malformed : d < c => task[d] = "done"
  /\ messages' = Append(messages, ToolAnswer(c))
  /\ task' = [task EXCEPT ![c] = "done"]
  /\ UNCHANGED <<loopVars, queue, cancelling, stray, disturbed, storeVars>>

\* After the ToolCallEvents: one task per resolved call and the monitor.
StartTools ==
  /\ phase = "announce"
  /\ \A c \in batch \cap Malformed : task[c] = "done"
  /\ task' = [c \in Call |-> IF c \in batch \ Malformed THEN "created" ELSE task[c]]
  /\ phase' = IF batch \subseteq Malformed THEN "after" ELSE "draining"
  /\ UNCHANGED <<messages, userCancelled, userMsgs, issued, batch, queue,
                 cancelling, stray, disturbed, storeVars>>

\* queue.get() returns a result event; its consumer and the save after it run.
Take(e) ==
  /\ phase = "draining" /\ e \in queue
  /\ queue' = queue \ {e}
  /\ userCancelled' = (userCancelled \/ e.cancelled)
  /\ phase' = "yielding"
  /\ UNCHANGED <<messages, userMsgs, issued, batch, task, cancelling, stray,
                 disturbed, storeVars>>

Resume ==
  /\ phase = "yielding"
  /\ phase' = "draining"
  /\ UNCHANGED <<messages, userCancelled, userMsgs, issued, batch, queue, task,
                 cancelling, stray, disturbed, storeVars>>

\* Mutant: the sentinel does not wait for the tasks.
TakeSentinelEarly ==
  /\ phase = "draining" /\ queue = {}
  /\ phase' = "after"
  /\ UNCHANGED <<messages, userCancelled, userMsgs, issued, batch, queue, task,
                 cancelling, stray, disturbed, storeVars>>

\* The monitor's sentinel comes after every task is done and is taken last.
TakeSentinel ==
  /\ phase = "draining" /\ queue = {} /\ Unfinished = {}
  /\ phase' = "after"
  /\ UNCHANGED <<messages, userCancelled, userMsgs, issued, batch, queue, task,
                 cancelling, stray, disturbed, storeVars>>

\* Mutant: a pending injection is honoured before the user's cancellation.
AfterTurnInjectFirst ==
  /\ phase = "after"
  /\ \E inject \in BOOLEAN :
       /\ inject => userMsgs < MaxUserMsgs
       /\ messages' = IF inject THEN Append(messages, User) ELSE messages
       /\ userMsgs' = IF inject THEN userMsgs + 1 ELSE userMsgs
       /\ phase' = IF inject THEN "request"
                   ELSE IF userCancelled \/ Last(messages).role # "tool" THEN "idle"
                   ELSE "request"
  /\ UNCHANGED <<userCancelled, issued, batch, queue, task, cancelling, stray,
                 disturbed, storeVars>>

\* The end of one turn of the loop: a pending plan-review message is injected;
\* a cancelled result ends the act(); a history that ends in a tool message
\* asks the model again; otherwise the hooks may inject one more message.
AfterTurn ==
  /\ phase = "after"
  /\ \E inject \in BOOLEAN :
       /\ inject => userMsgs < MaxUserMsgs
       /\ messages' = IF inject THEN Append(messages, User) ELSE messages
       /\ userMsgs' = IF inject THEN userMsgs + 1 ELSE userMsgs
       /\ phase' = IF userCancelled THEN "idle"
                   ELSE IF inject \/ Last(messages).role = "tool" THEN "request"
                   ELSE "idle"
  /\ UNCHANGED <<userCancelled, issued, batch, queue, task, cancelling, stray,
                 disturbed, storeVars>>

-----------------------------------------------------------------------------
(* Leaving an act() early *)

\* The act() ends with no tool task alive: a middleware stop, a failed or an
\* interrupted completion, an interrupt while an event is being handled.
Leave ==
  /\ phase \in {"request", "announce", "after"}
  /\ phase' = "idle"
  /\ UNCHANGED <<messages, userCancelled, userMsgs, issued, batch, queue, task,
                 cancelling, stray, disturbed, storeVars>>

\* The TUI answers a pending approval "no" before it cancels the loop, the ACP
\* server cancels without answering.
RefusePending(t) ==
  \E refuse \in BOOLEAN :
     task' = [c \in Call |-> IF refuse /\ t[c] = "asking" THEN "refused" ELSE t[c]]

\* Mutant: the interrupt waits for the tasks without cancelling them.
InterruptDrainingNoCancel ==
  /\ phase = "draining"
  /\ RefusePending(task)
  /\ phase' = "joining" /\ queue' = {}
  /\ UNCHANGED <<messages, userCancelled, userMsgs, issued, batch,
                 cancelling, stray, disturbed, storeVars>>

\* CancelledError at queue.get(): cancel every unfinished task and wait for it.
InterruptDraining ==
  /\ phase = "draining"
  /\ RefusePending(task)
  /\ cancelling' = cancelling \cup Unfinished
  /\ phase' = "joining" /\ queue' = {}
  /\ UNCHANGED <<messages, userCancelled, userMsgs, issued, batch,
                 stray, disturbed, storeVars>>

Joined ==
  /\ phase = "joining" /\ Unfinished = {}
  /\ phase' = "idle"
  /\ UNCHANGED <<messages, userCancelled, userMsgs, issued, batch, queue, task,
                 cancelling, stray, disturbed, storeVars>>

\* The interrupt lands while the consumer, or the save after the event, runs:
\* the generators between act() and _run_tools_concurrently are dropped, not
\* closed, and the act() is over while their tasks live on.
InterruptYielding ==
  /\ phase = "yielding"
  /\ RefusePending(task)
  /\ stray' = stray \cup Unfinished
  /\ disturbed' = (disturbed \/ Unfinished # {})
  /\ phase' = "idle" /\ queue' = {}
  /\ UNCHANGED <<messages, userCancelled, userMsgs, issued, batch,
                 cancelling, storeVars>>

\* Mutant: the GeneratorExit handler is missing.
CloseStrayNoCancel ==
  /\ stray # {}
  /\ stray' = {}
  /\ UNCHANGED <<messages, loopVars, queue, task, cancelling, disturbed, storeVars>>

\* The event loop closes the dropped generators: GeneratorExit cancels their
\* tasks and waits for none of them.
CloseStray ==
  /\ stray # {}
  /\ cancelling' = cancelling \cup {c \in stray : Active(c)}
  /\ stray' = {}
  /\ UNCHANGED <<messages, loopVars, queue, task, disturbed, storeVars>>

-----------------------------------------------------------------------------
(* The task of one call: _execute_tool_call *)

\* Mutant: the result event does not say which call it is for.
FinishAnonymous(c, cancelled) ==
  /\ messages' = Append(messages, ToolAnswer(c))
  /\ task' = [task EXCEPT ![c] = "done"]
  /\ queue' = IF c \in batch /\ phase \in {"draining", "yielding"}
              THEN queue \cup {[call |-> NoCall, cancelled |-> cancelled]} ELSE queue
  /\ cancelling' = cancelling \ {c}

\* The task of c appends its answer, puts its result event and is done.
\* The queue of a dropped generator is read by nobody.
Finish(c, cancelled) ==
  /\ messages' = Append(messages, ToolAnswer(c))
  /\ task' = [task EXCEPT ![c] = "done"]
  /\ queue' = IF c \in batch /\ phase \in {"draining", "yielding"}
              THEN queue \cup {[call |-> c, cancelled |-> cancelled]} ELSE queue
  /\ cancelling' = cancelling \ {c}

Release(c) == lock' = IF lock = c THEN NoCall ELSE lock

\* First step: the tool instance is looked up; without permission checks it runs.
Begin(c) ==
  /\ task[c] = "created" /\ c \notin cancelling
  /\ \/ /\ task' = [task EXCEPT ![c] = IF bypass THEN "running" ELSE "deciding"]
        /\ UNCHANGED <<messages, queue, cancelling>>
     \/ Finish(c, FALSE)
  /\ UNCHANGED <<loopVars, stray, disturbed, storeVars>>

\* A task cancelled before its first step never runs and answers nothing.
DropUnstarted(c) ==
  /\ task[c] = "created" /\ c \in cancelling
  /\ task' = [task EXCEPT ![c] = "done"]
  /\ cancelling' = cancelling \ {c}
  /\ UNCHANGED <<messages, loopVars, queue, stray, disturbed, storeVars>>

\* _should_execute_tool once the lock is free, up to its first await.
MayRun(c) == Policy[c] = "always" \/ (Policy[c] = "ask" /\ Uncovered(c) = {})

\* Mutant: the permission lock is not taken around the check.
DecideUnlocked(c) ==
  /\ task[c] = "deciding" /\ c \notin cancelling
  /\ IF MayRun(c)
     THEN /\ task' = [task EXCEPT ![c] = "running"]
          /\ UNCHANGED <<messages, queue, cancelling, lock>>
     ELSE IF Policy[c] = "ask" /\ interactive
     THEN /\ task' = [task EXCEPT ![c] = "asking"]
          /\ lock' = c
          /\ UNCHANGED <<messages, queue, cancelling>>
     ELSE Finish(c, FALSE) /\ UNCHANGED lock
  /\ UNCHANGED <<loopVars, stray, disturbed, granted, bypass, interactive>>

Decide(c) ==
  /\ task[c] = "deciding" /\ c \notin cancelling /\ lock = NoCall
  /\ IF MayRun(c)
     THEN /\ task' = [task EXCEPT ![c] = "running"]
          /\ UNCHANGED <<messages, queue, cancelling, lock>>
     ELSE IF Policy[c] = "ask" /\ interactive
     THEN /\ task' = [task EXCEPT ![c] = "asking"]
          /\ lock' = c
          /\ UNCHANGED <<messages, queue, cancelling>>
     ELSE Finish(c, FALSE) /\ UNCHANGED lock
  /\ UNCHANGED <<loopVars, stray, disturbed, granted, bypass, interactive>>

\* The user answers the prompt: once, or always for what was uncovered.
Approve(c, always) ==
  /\ task[c] = "asking" /\ c \notin cancelling
  /\ task' = [task EXCEPT ![c] = "running"]
  /\ granted' = IF always THEN granted \cup Uncovered(c) ELSE granted
  /\ Release(c)
  /\ UNCHANGED <<messages, loopVars, queue, cancelling, stray, disturbed, bypass, interactive>>

\* ... or "no": silently, which cancels the act(), or with feedback for the model.
Reject(c, silent) ==
  /\ task[c] = "asking" /\ c \notin cancelling
  /\ Finish(c, silent)
  /\ Release(c)
  /\ UNCHANGED <<loopVars, stray, disturbed, granted, bypass, interactive>>

\* The "no" an interrupt gave reaches the task.
Refused(c) ==
  /\ task[c] = "refused"
  /\ Finish(c, TRUE)
  /\ Release(c)
  /\ UNCHANGED <<loopVars, stray, disturbed, granted, bypass, interactive>>

\* The tool ends: a result, which may itself say "cancelled", or an error.
Complete(c, cancelled) ==
  /\ task[c] = "running" /\ c \notin cancelling
  /\ Finish(c, cancelled)
  /\ UNCHANGED <<loopVars, stray, disturbed, storeVars>>

\* Mutant: the lock stays with a prompt that was interrupted.
InterruptedKeepsLock(c) ==
  /\ c \in cancelling /\ task[c] \in {"deciding", "asking", "refused", "running"}
  /\ Finish(c, TRUE)
  /\ UNCHANGED <<loopVars, stray, disturbed, storeVars>>

\* CancelledError in a task that has started: it answers and gives up the lock.
Interrupted(c) ==
  /\ c \in cancelling /\ task[c] \in {"deciding", "asking", "refused", "running"}
  /\ Finish(c, TRUE)
  /\ Release(c)
  /\ UNCHANGED <<loopVars, stray, disturbed, granted, bypass, interactive>>

\* inject_user_context: the output of a "!" command the user ran is appended, at
\* once when the command ends and also while an act() is running.
InjectContext ==
  /\ phase # "after" /\ userMsgs < MaxUserMsgs
  /\ messages' = Append(messages, User)
  /\ userMsgs' = userMsgs + 1
  /\ disturbed' = (disturbed \/ phase \notin {"idle", "request"})
  /\ UNCHANGED <<phase, userCancelled, issued, batch, queue, task, cancelling, stray,
                 storeVars>>

\* The user cycles to a profile with or without permission checks.
SwitchProfile ==
  /\ bypass' = ~bypass
  /\ UNCHANGED <<messages, loopVars, queue, task, cancelling, stray, disturbed,
                 lock, granted, interactive>>

-----------------------------------------------------------------------------
Loop ==
  \/ Act
  \/ \E n \in 0..MaxCalls : Reply(n)
  \/ \E c \in Call : AnswerMalformed(c)
  \/ StartTools
  \/ \E e \in queue : Take(e)
  \/ Resume
  \/ TakeSentinel
  \/ AfterTurn
  \/ Joined

FrontEnd ==
  \/ Leave
  \/ InterruptDraining
  \/ InterruptYielding
  \/ InjectContext
  \/ SwitchProfile
  \/ \E c \in Call, b \in BOOLEAN : Approve(c, b) \/ Reject(c, b)

Task(c) ==
  \/ Begin(c) \/ DropUnstarted(c) \/ Decide(c) \/ Refused(c) \/ Interrupted(c)

Tool(c) == \E cancelled \in BOOLEAN : Complete(c, cancelled)

Next ==
  \/ Loop \/ FrontEnd \/ CloseStray
  \/ \E c \in Call : Task(c) \/ Tool(c)

\* The event loop runs every coroutine that is ready.  Nothing forces the model
\* to answer, the user to answer a prompt or a tool to end.
Fairness ==
  /\ WF_vars(CloseStray) /\ WF_vars(Joined) /\ WF_vars(TakeSentinel)
  /\ WF_vars(Resume)
  /\ WF_vars(\E e \in queue : Take(e))
  /\ \A c \in Call : WF_vars(Begin(c)) /\ WF_vars(DropUnstarted(c))
                     /\ WF_vars(Refused(c)) /\ WF_vars(Interrupted(c))

Spec == Init /\ [][Next]_vars /\ Fairness

-----------------------------------------------------------------------------
(* Properties *)

\* Type invariant of the loop, its tasks and the permission store.
TypeOK ==
  /\ phase \in Phases /\ userCancelled \in BOOLEAN
  /\ userMsgs \in 0..MaxUserMsgs /\ issued \in 0..MaxCalls
  /\ batch \in SUBSET Call /\ queue \in SUBSET Event
  /\ task \in [Call -> TaskStates]
  /\ cancelling \in SUBSET Call /\ stray \in SUBSET Call /\ disturbed \in BOOLEAN
  /\ lock \in Call \cup {NoCall} /\ granted \in SUBSET Permissions
  /\ bypass \in BOOLEAN /\ interactive \in BOOLEAN

\* At most one approval prompt is open, and its call holds the permission lock;
\* the lock is never left behind by a call that was answered or interrupted.
PromptHoldsLock ==
  \A c \in Call : task[c] \in {"asking", "refused"} <=> lock = c

\* The user is never asked for what an earlier answer already allows: an
\* "always" given to one of several concurrent calls spares the others.
NoRedundantPrompt ==
  \A c \in Call : task[c] = "asking" => Uncovered(c) # {}

\* The model is asked again only when every tool of the turn has ended: what
\* may still run was left behind by an interrupt and is being cancelled.
RequestAfterTools ==
  phase \in {"request", "announce", "after"} =>
     \A c \in Call : Active(c) => c \in stray \cup cancelling

\* As long as no interrupt left a tool running behind its turn and no injected
\* message came between calls and their answers, the history the model is asked
\* with is well formed, however act()s were interrupted, refused or failed.
WellFormedUndisturbed ==
  (phase = "request" /\ ~disturbed) => WellFormed(messages)

\* docs_deepdive/concepts/agent-loop.md:92 says the repair at the start of act()
\* patches every missing tool response before the model is asked: every call ever
\* made has an answer later in the history, however the earlier turns ended.
EveryCallAnswered ==
  phase = "request" =>
     \A i \in DOMAIN messages : messages[i].role = "assistant" =>
        messages[i].calls \subseteq
           IdsOf(SelectSeq(Following(messages, i), LAMBDA m : m.role = "tool"))

\* Once a result of the act() said the user cancelled, the model is not asked
\* again in that act(), whatever other tools or injected messages are pending.
CancelledActAsksNoMore ==
  [][(userCancelled /\ phase # "idle") => phase' # "request"]_vars

\* A tool left behind by an interrupt, and every cancelled one, ends.
InterruptedToolsEnd ==
  \A c \in Call : (c \in stray \cup cancelling) ~> task[c] = "done"

\* A turn is never stuck at its queue: after an interrupt there, or once its
\* tools have all ended, the sentinel or the join lets the loop go on.
TurnSettles ==
  (phase = "joining" \/ (phase \in {"draining", "yielding"} /\ Unfinished = {}))
     ~> phase \in {"after", "idle"}
=============================================================================
