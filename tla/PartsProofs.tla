------------------------------ MODULE PartsProofs ------------------------------
(***************************************************************************)
(* Theorems about parts of the app that share no state, for every value of *)
(* their bounds.  FrontEnd: its type invariant, the lock of the prompts,   *)
(* and what a calm user is served.  ShellCommands: a command that is over  *)
(* leaves nothing behind and was told of as it ended.  SessionMetadata: a  *)
(* restart finds the loops and the title the user set.  RemoteStream: the  *)
(* reader of a workflow's events implements the event feed.                *)
(* RemoteSession: what is shown of a workflow, and what the user may       *)
(* answer, is right for all of its tool calls and inputs.                  *)
(***************************************************************************)
EXTENDS FrontEnd, ShellCommands, SessionMetadata, RemoteStream, RemoteSession,
        FiniteSetTheorems, SequenceTheorems, TLAPS

-----------------------------------------------------------------------------
(* FrontEnd: the inductive invariant *)

\* Tasks that may still work.
Live == {t \in Task : task[t] \in {"created", "working"}}

\* Tasks are numbered in the order in which they are created.
Numbered == \E n \in 0..MaxTasks : \A t \in Task : task[t] # "none" <=> t <= n

\* _agent_task is at work or about to be; no task is cancelled before it first
\* runs; only a turn at work has a prompt.
TasksInOrder ==
  /\ agentTask # NoTask => agentTask \in Live
  /\ \A t \in cancelled : task[t] # "created"
  /\ \A t \in Task : ask[t] # "none" => task[t] = "working"

\* An asker is inside the lock from its acquisition to the end of its prompt.
LockHeld == \A k \in Asker : ask[k] \in {"typing", "open", "closing"} <=> lock = k

\* Nothing is mounted beside the input while the input is the bottom app.
InputAlone == panel = "input" => mounted = {}

Acts   == {"app", "escape"}
Stages == {"awaiting", "finalizing", "showing"}
After  == {"finalizing", "showing", "dispatching", "mounting", "stopping", "compacting"}

\* In a calm session one coroutine acts at a time: nothing polls, and neither a
\* submission nor an escape begins while the other is being carried out.
OneActor ==
  /\ at["poll"] = "none" /\ at["app"] # "popping"
  /\ at["app"] = "none" \/ at["escape"] = "none"
  /\ at["escape"] \in Stages \cup {"none"}

\* Then _agent_task is the only task at work, the flag is that of its work, and an
\* interrupt, until it is over, awaits that task.
OneTurn ==
  /\ Live \subseteq {agentTask}
  /\ running <=> Working # {}
  /\ requested => \E a \in Acts : at[a] \in Stages
  /\ \A a \in Acts : at[a] = "awaiting" => target[a] \in Task /\ Live \subseteq {target[a]}
  /\ \A a \in Acts : at[a] \in After => Live = {}
  /\ lost = 0

\* And the panel of a rewind is gone before anything begins: the panel of an approval
\* stays on the screen while the turn waits for it.
ApprovalShown ==
  /\ (Live # {} \/ \E a \in Acts : at[a] # "none") => "rewind" \notin mounted
  /\ \A t \in Working : ask[t] = "open" => panel = "approval"

FrontInv ==
  /\ FrontTypeOK /\ Numbered /\ TasksInOrder /\ LockHeld /\ InputAlone
  /\ calm => OneActor /\ OneTurn /\ ApprovalShown

-----------------------------------------------------------------------------
(* Lemmas about the state *)

\* No task has the number 0, and Teleport is not a task.
LEMMA Numbers == MaxTasks \in Nat /\ NoTask \notin Asker /\ Teleport \notin Task
BY FrontBounds DEF NoTask, Asker, Task, Teleport

\* The next task is one that was never created, and the ones before it were.
LEMMA NextIsNew ==
  ASSUME Numbered, NextTask \in Task
  PROVE  task[NextTask] = "none" /\ \A t \in Task : task[t] # "none" <=> t <= NextTask - 1
<1>1. PICK n \in 0..MaxTasks : \A t \in Task : task[t] # "none" <=> t <= n
  BY DEF Numbered
<1>2. {t \in Task : task[t] # "none"} = 1..n
  BY <1>1, Numbers DEF Task
<1>3. Cardinality(1..n) = n
  BY <1>1, FS_Interval
<1>4. NextTask = n + 1
  BY <1>2, <1>3 DEF NextTask
<1> QED
  BY <1>1, <1>4 DEF Task

-----------------------------------------------------------------------------
(* Type invariant *)

\* The initial states are typed, and so is the rest of the invariant.
LEMMA InitInv == FrontInit => FrontInv
<1> SUFFICES ASSUME FrontInit PROVE FrontInv
  OBVIOUS
<1> USE Numbers
<1>1. FrontTypeOK
  <2>1. /\ agentTask \in Task \cup {NoTask} /\ lock \in Asker \cup {NoTask}
        /\ lost \in 0..MaxLost /\ cancelled = {} /\ isCompact = {} /\ mounted = {}
    BY FrontBounds DEF FrontInit
  <2>2. /\ at \in [Actor -> {"none"}] /\ target \in [Actor -> {NoTask}]
        /\ task \in [Task -> {"none"}] /\ ask \in [Asker -> {"none"}]
    BY DEF FrontInit
  <2> QED
    BY <2>1, <2>2 DEF FrontInit, FrontTypeOK
<1>2. Numbered
  <2>1. \A t \in Task : task[t] # "none" <=> t <= 0
    BY DEF FrontInit, Task
  <2> QED
    BY <2>1 DEF Numbered
<1>3. Live = {} /\ Working = {}
  BY DEF FrontInit, Live, Working
<1>4. TasksInOrder /\ LockHeld /\ InputAlone
  BY DEF FrontInit, TasksInOrder, LockHeld, InputAlone, Asker
<1>5. OneActor /\ OneTurn /\ ApprovalShown
  BY <1>3 DEF FrontInit, OneActor, OneTurn, ApprovalShown, Acts, Stages, After, Actor
<1> QED
  BY <1>1, <1>2, <1>4, <1>5 DEF FrontInv

\* An interrupt that a task or the user gets under way (Interrupt and what it uses).
LEMMA InterruptTyped ==
  ASSUME FrontTypeOK, TasksInOrder, NEW a \in Actor, Interrupt(a),
         command' \in {"none", "message", "compact"}, UNCHANGED calm
  PROVE  FrontTypeOK'
<1>1. at' \in [Actor -> {"none", "awaiting", "finalizing", "showing", "dispatching",
                         "mounting", "stopping", "compacting", "popping"}]
  BY DEF FrontTypeOK, Interrupt, Goes
<1>2. target' \in [Actor -> Task \cup {NoTask}]
  BY DEF FrontTypeOK, Interrupt
<1>3. ask' \in [Asker -> {"none", "waiting", "typing", "open", "closing"}]
  BY DEF FrontTypeOK, Interrupt, AnswerPending
<1>4. cancelled' \in SUBSET {t \in Task : task[t] \in {"created", "working", "cleanup"}}
  BY DEF FrontTypeOK, Interrupt, CancelAgentTask, TasksInOrder, Live
<1> QED
  BY <1>1, <1>2, <1>3, <1>4 DEF FrontTypeOK, Interrupt

\* Every step keeps the type invariant.
LEMMA StepTyped ==
  ASSUME FrontTypeOK, TasksInOrder, FrontNext
  PROVE  FrontTypeOK'
<1> USE Numbers
<1>c. UNCHANGED calm
  BY DEF FrontNext
<1>1. ASSUME NEW t \in Task, Start(t) PROVE FrontTypeOK'
  BY <1>c, <1>1 DEF FrontTypeOK, Start, actorVars, panelVars
<1>2. ASSUME NEW t \in Task, TaskStep(t) PROVE FrontTypeOK'
  BY <1>c, <1>2 DEF FrontTypeOK, TaskStep, Finish, EndOf, CleanedUp, actorVars, panelVars
<1>3. ASSUME NEW a \in Actor, Mounted(a) PROVE FrontTypeOK'
  <2>1. lost' \in 0..MaxLost
    BY <1>3, FrontBounds DEF FrontTypeOK, Mounted
  <2> QED
    BY <1>c, <1>3, <2>1 DEF FrontTypeOK, Mounted, Goes, taskVars, panelVars
<1>4. ASSUME NEW a \in Actor, SendMessage(a) PROVE FrontTypeOK'
  BY <1>c, <1>4 DEF FrontTypeOK, SendMessage, Create, Goes, panelVars
<1>5. ASSUME NEW a \in Actor, InterruptStep(a) PROVE FrontTypeOK'
  BY <1>c, <1>5 DEF FrontTypeOK, InterruptStep, Awaited, Finalized, Shown, Goes, taskVars,
    panelVars
<1>6. ASSUME NEW k \in Asker, Ask(k) \/ Acquire(k) \/ Open(k) \/ Answer(k) \/ AskStep(k)
      PROVE  FrontTypeOK'
  BY <1>c, <1>6 DEF FrontTypeOK, Ask, Acquire, Open, Answer, AskStep, CloseAsk, DropAsk, Asks,
    ToInput, taskVars, actorVars
<1>7. ASSUME NEW c \in {"message", "compact"}, Submit(c) PROVE FrontTypeOK'
  <2>1. CASE Interrupt("app")
    BY <1>c, <1>7, <2>1, InterruptTyped DEF Submit, Actor
  <2>2. CASE ~Interrupt("app")
    BY <1>c, <1>7, <2>2 DEF FrontTypeOK, Submit, Goes, taskVars, panelVars
  <2> QED
    BY <2>1, <2>2
<1>8. ASSUME Escape PROVE FrontTypeOK'
  BY <1>c, <1>8, InterruptTyped DEF Escape, Actor, FrontTypeOK
<1>9. ASSUME SendCompact PROVE FrontTypeOK'
  BY <1>c, <1>9 DEF FrontTypeOK, SendCompact, Create, Goes, panelVars
<1>10. ASSUME Dispatch \/ Poll \/ Popped PROVE FrontTypeOK'
  BY <1>c, <1>10 DEF FrontTypeOK, Dispatch, Poll, Popped, Goes, taskVars, panelVars
<1>11. ASSUME BeginRewind \/ EndRewind PROVE FrontTypeOK'
  BY <1>c, <1>11 DEF FrontTypeOK, BeginRewind, EndRewind, ToInput, taskVars, actorVars
<1> QED
  BY <1>1, <1>2, <1>3, <1>4, <1>5, <1>6, <1>7, <1>8, <1>9, <1>10, <1>11 DEF FrontNext

-----------------------------------------------------------------------------
(* Tasks, and the lock of the prompts *)

\* Only create_task gives a number, the next one (Create).
LEMMA StepNumbered ==
  ASSUME FrontTypeOK, Numbered, FrontNext
  PROVE  Numbered'
<1> USE Numbers
<1>1. ASSUME \A t \in Task : task'[t] # "none" <=> task[t] # "none" PROVE Numbered'
  BY <1>1 DEF Numbered
<1>2. ASSUME NEW compact, Create(compact) PROVE Numbered'
  <2>1. NextTask \in 0..MaxTasks
    BY <1>2 DEF Create, Task
  <2>2. \A t \in Task : task[t] # "none" <=> t <= NextTask - 1
    BY <1>2, NextIsNew DEF Create
  <2>3. \A t \in Task : task'[t] # "none" <=> task[t] # "none" \/ t = NextTask
    BY <1>2 DEF Create, FrontTypeOK
  <2>4. \A t \in Task : task'[t] # "none" <=> t <= NextTask
    BY <2>1, <2>2, <2>3 DEF Task
  <2> QED
    BY <2>1, <2>4 DEF Numbered
<1>3. ASSUME NEW t \in Task, Start(t) \/ TaskStep(t) PROVE Numbered'
  BY <1>1, <1>3 DEF Start, TaskStep, Finish, EndOf, CleanedUp, FrontTypeOK
<1>4. ASSUME UNCHANGED task PROVE Numbered'
  BY <1>1, <1>4
<1>5. ASSUME NEW a \in Actor, InterruptStep(a) \/ Mounted(a) PROVE Numbered'
  BY <1>4, <1>5 DEF InterruptStep, Awaited, Finalized, Shown, Mounted, taskVars
<1>6. ASSUME NEW k \in Asker, Ask(k) \/ Acquire(k) \/ Open(k) \/ Answer(k) \/ AskStep(k)
      PROVE  Numbered'
  BY <1>4, <1>6 DEF Ask, Acquire, Open, Answer, AskStep, CloseAsk, DropAsk, taskVars
<1>7. ASSUME NEW c \in {"message", "compact"}, Submit(c) PROVE Numbered'
  BY <1>4, <1>7 DEF Submit, Interrupt, taskVars
<1>8. ASSUME Escape \/ Dispatch \/ Poll \/ Popped \/ BeginRewind \/ EndRewind PROVE Numbered'
  BY <1>4, <1>8 DEF Escape, Interrupt, Dispatch, Poll, Popped, BeginRewind, EndRewind, taskVars
<1> QED
  BY <1>2, <1>3, <1>5, <1>6, <1>7, <1>8 DEF FrontNext, SendMessage, SendCompact

\* Tasks start, end and are cancelled in that order, and ask only between the two.
LEMMA StepInOrder ==
  ASSUME FrontTypeOK, Numbered, TasksInOrder, FrontNext
  PROVE  TasksInOrder'
<1> USE Numbers
<1>1. ASSUME NEW compact, Create(compact), UNCHANGED <<cancelled, panelVars>>
      PROVE  TasksInOrder'
  <2>1. task[NextTask] = "none" /\ NextTask \in Task
    BY <1>1, NextIsNew DEF Create
  <2> QED
    BY <1>1, <2>1 DEF Create, TasksInOrder, FrontTypeOK, Live, panelVars, Asker
<1>2. ASSUME NEW a \in Actor, SendMessage(a) PROVE TasksInOrder'
  BY <1>1, <1>2 DEF SendMessage
<1>3. ASSUME SendCompact PROVE TasksInOrder'
  BY <1>1, <1>3 DEF SendCompact
<1>4. ASSUME NEW t \in Task, Start(t) PROVE TasksInOrder'
  BY <1>4 DEF Start, TasksInOrder, FrontTypeOK, Live, panelVars
<1>5. ASSUME NEW t \in Task, TaskStep(t) PROVE TasksInOrder'
  BY <1>5 DEF TaskStep, Finish, EndOf, CleanedUp, TasksInOrder, FrontTypeOK, Live, panelVars,
    Asker
<1>6. ASSUME NEW a \in Actor, Interrupt(a), \A t \in Task : task[t] # "created"
      PROVE  TasksInOrder'
  BY <1>6 DEF Interrupt, CancelAgentTask, AnswerPending, TasksInOrder, FrontTypeOK, Live, Asker
<1>7. ASSUME UNCHANGED <<taskVars, ask>> PROVE TasksInOrder'
  BY <1>7 DEF TasksInOrder, Live, taskVars
<1>8. ASSUME NEW a \in Actor, InterruptStep(a) \/ Mounted(a) PROVE TasksInOrder'
  BY <1>8 DEF InterruptStep, Awaited, Finalized, Shown, Mounted, taskVars, panelVars,
    TasksInOrder, Live
<1>9. ASSUME NEW k \in Asker, Ask(k) \/ Acquire(k) \/ Open(k) \/ Answer(k) \/ AskStep(k)
      PROVE  TasksInOrder'
  BY <1>9 DEF Ask, Acquire, Open, Answer, AskStep, CloseAsk, DropAsk, taskVars, TasksInOrder,
    FrontTypeOK, Live, Asker
<1>10. ASSUME NEW c \in {"message", "compact"}, Submit(c), \A t \in Task : task[t] # "created"
       PROVE  TasksInOrder'
  BY <1>6, <1>7, <1>10 DEF Submit, Actor, panelVars
<1>11. ASSUME Escape, \A t \in Task : task[t] # "created" PROVE TasksInOrder'
  BY <1>6, <1>11 DEF Escape, Actor
<1>12. ASSUME Dispatch \/ Poll \/ Popped \/ BeginRewind \/ EndRewind PROVE TasksInOrder'
  BY <1>7, <1>12 DEF Dispatch, Poll, Popped, BeginRewind, EndRewind, panelVars
<1> QED
  BY <1>2, <1>3, <1>4, <1>5, <1>8, <1>9, <1>10, <1>11, <1>12 DEF FrontNext

\* The lock goes to one asker, and back when its prompt is closed or dropped.
LEMMA StepLock ==
  ASSUME FrontTypeOK, LockHeld, FrontNext
  PROVE  LockHeld'
<1> USE Numbers
<1>1. ASSUME NEW k \in Asker, Ask(k) \/ Acquire(k) \/ Open(k) \/ Answer(k) \/ AskStep(k)
      PROVE  LockHeld'
  BY <1>1 DEF Ask, Acquire, Open, Answer, AskStep, CloseAsk, DropAsk, LockHeld, FrontTypeOK
<1>2. ASSUME NEW a \in Actor, Interrupt(a) PROVE LockHeld'
  BY <1>2 DEF Interrupt, AnswerPending, LockHeld, FrontTypeOK
<1>3. ASSUME UNCHANGED <<ask, lock>> PROVE LockHeld'
  BY <1>3 DEF LockHeld
<1>4. ASSUME NEW t \in Task, Start(t) \/ TaskStep(t) PROVE LockHeld'
  BY <1>3, <1>4 DEF Start, TaskStep, Finish, CleanedUp, panelVars
<1>5. ASSUME NEW a \in Actor, InterruptStep(a) \/ Mounted(a) \/ SendMessage(a) PROVE LockHeld'
  BY <1>3, <1>5 DEF InterruptStep, Awaited, Finalized, Shown, Mounted, SendMessage, panelVars
<1>6. ASSUME NEW c \in {"message", "compact"}, Submit(c) PROVE LockHeld'
  BY <1>2, <1>3, <1>6 DEF Submit, Actor, panelVars
<1>7. ASSUME Escape PROVE LockHeld'
  BY <1>2, <1>7 DEF Escape, Actor
<1>8. ASSUME Dispatch \/ SendCompact \/ Poll \/ Popped \/ BeginRewind \/ EndRewind
      PROVE  LockHeld'
  BY <1>3, <1>8 DEF Dispatch, SendCompact, Poll, Popped, BeginRewind, EndRewind, panelVars
<1> QED
  BY <1>1, <1>4, <1>5, <1>6, <1>7, <1>8 DEF FrontNext

\* Whoever switches to the input removes every other panel (ToInput).
LEMMA StepInputAlone ==
  ASSUME FrontTypeOK, InputAlone, FrontNext
  PROVE  InputAlone'
<1>1. ASSUME NEW k \in Asker, Ask(k) \/ Acquire(k) \/ Open(k) \/ Answer(k) \/ AskStep(k)
      PROVE  InputAlone'
  BY <1>1 DEF Ask, Acquire, Open, Answer, AskStep, CloseAsk, DropAsk, Asks, ToInput, InputAlone
<1>2. ASSUME UNCHANGED <<panel, mounted>> PROVE InputAlone'
  BY <1>2 DEF InputAlone
<1>3. ASSUME NEW t \in Task, Start(t) \/ TaskStep(t) PROVE InputAlone'
  BY <1>2, <1>3 DEF Start, TaskStep, Finish, CleanedUp, panelVars
<1>4. ASSUME NEW a \in Actor, InterruptStep(a) \/ Mounted(a) \/ SendMessage(a)
      PROVE  InputAlone'
  BY <1>2, <1>4 DEF InterruptStep, Awaited, Finalized, Shown, Mounted, SendMessage, panelVars
<1>5. ASSUME NEW c \in {"message", "compact"}, Submit(c) PROVE InputAlone'
  BY <1>2, <1>5 DEF Submit, Interrupt, panelVars
<1>6. ASSUME Escape \/ Dispatch \/ SendCompact \/ Poll \/ Popped PROVE InputAlone'
  BY <1>2, <1>6 DEF Escape, Interrupt, Dispatch, SendCompact, Poll, Popped, panelVars
<1>7. ASSUME BeginRewind \/ EndRewind PROVE InputAlone'
  BY <1>7 DEF BeginRewind, EndRewind, ToInput, InputAlone
<1> QED
  BY <1>1, <1>3, <1>4, <1>5, <1>6, <1>7 DEF FrontNext

-----------------------------------------------------------------------------
(* A calm user *)

\* What the invariant says of a calm session.
Calm == calm /\ FrontInv

\* A calm user's actors: the poll never acts, and when the app or the escape key
\* begins something, the other one does nothing.
LEMMA CalmActors ==
  ASSUME Calm
  PROVE  /\ OneActor /\ OneTurn /\ ApprovalShown /\ FrontTypeOK /\ InputAlone /\ LockHeld
         /\ \A a \in Actor : at[a] # "none" => a \in Acts
         /\ AppFree => at = [a \in Actor |-> "none"]
BY DEF Calm, FrontInv, OneActor, Actor, Acts, AppFree, FrontTypeOK

\* A calm user has one actor at a time.
LEMMA StepOneActor ==
  ASSUME Calm, FrontNext
  PROVE  OneActor'
<1> USE CalmActors
<1>1. ASSUME UNCHANGED at PROVE OneActor'
  BY <1>1 DEF OneActor
<1>2. ASSUME NEW t \in Task, Start(t) \/ TaskStep(t) PROVE OneActor'
  BY <1>1, <1>2 DEF Start, TaskStep, Finish, CleanedUp, actorVars
<1>3. ASSUME NEW a \in Actor, InterruptStep(a) \/ Mounted(a) \/ SendMessage(a) PROVE OneActor'
  BY <1>3 DEF OneActor, FrontTypeOK, InterruptStep, Awaited, Finalized, Shown, Mounted,
    SendMessage, Goes, Acts, Stages, Actor
<1>4. ASSUME NEW k \in Asker, Ask(k) \/ Acquire(k) \/ Open(k) \/ Answer(k) \/ AskStep(k)
      PROVE  OneActor'
  BY <1>1, <1>4 DEF Ask, Acquire, Open, Answer, AskStep, CloseAsk, DropAsk, actorVars
<1>5. ASSUME NEW c \in {"message", "compact"}, Submit(c) PROVE OneActor'
  BY <1>5 DEF OneActor, FrontTypeOK, Submit, Interrupt, Goes, Stages, Actor
<1>6. ASSUME Escape PROVE OneActor'
  BY <1>6 DEF OneActor, FrontTypeOK, Escape, Interrupt, Goes, Stages, Actor
<1>7. ASSUME Dispatch \/ SendCompact \/ Poll \/ Popped PROVE OneActor'
  BY <1>7 DEF OneActor, FrontTypeOK, Dispatch, SendCompact, Poll, Popped, Goes, Stages, Actor, Calm
<1>8. ASSUME BeginRewind \/ EndRewind PROVE OneActor'
  BY <1>1, <1>8 DEF BeginRewind, EndRewind, actorVars
<1> QED
  BY <1>2, <1>3, <1>4, <1>5, <1>6, <1>7, <1>8 DEF FrontNext

\* A turn or compaction is only created when nothing is at work.
LEMMA CreateOneTurn ==
  ASSUME Calm, NEW compact, Create(compact), NEW a \in Acts, at[a] \in {"stopping", "compacting"},
         at' = [at EXCEPT ![a] = "none"], UNCHANGED <<running, requested, target, lost, panelVars>>
  PROVE  OneTurn' /\ ApprovalShown'
<1>1. Live = {}
  BY CalmActors DEF OneTurn, After
<1>2. Live' \subseteq {NextTask} /\ Working' = {} /\ Working = {}
  BY <1>1, CalmActors DEF Live, Working, Create, FrontTypeOK
<1>3. at' = [b \in Actor |-> "none"] /\ ~requested
  BY CalmActors DEF OneActor, FrontTypeOK, Acts, Actor, OneTurn, Stages
<1>4. OneTurn'
  BY <1>2, <1>3, CalmActors DEF OneTurn, Create, Acts, Actor, After
<1>5. "rewind" \notin mounted
  BY CalmActors DEF ApprovalShown
<1> QED
  BY <1>2, <1>4, <1>5 DEF ApprovalShown, panelVars

\* An interrupt finds the one task at work, and awaits it.
LEMMA InterruptOneTurn ==
  ASSUME Calm, NEW a \in Acts, AppFree, Interrupt(a), panel = "input",
         \A t \in Task : task[t] # "created"
  PROVE  OneTurn' /\ ApprovalShown'
<1>1. at' = [[b \in Actor |-> "none"] EXCEPT ![a] = "awaiting"] /\ a \in Actor
  BY CalmActors DEF Interrupt, Goes, Acts, Actor
<1>2. agentTask \in Task /\ Live \subseteq {agentTask} /\ Live' = Live /\ Working' = Working
  BY CalmActors DEF OneTurn, Interrupt, Live, Working
<1>3. target'[a] = agentTask
  BY <1>1, CalmActors DEF Interrupt, FrontTypeOK
<1>4. OneTurn'
  BY <1>1, <1>2, <1>3, CalmActors DEF OneTurn, Interrupt, Acts, Actor, Stages, After
<1>5. "rewind" \notin mounted'
  BY CalmActors DEF InputAlone, Interrupt
<1>6. \A t \in Task : ask'[t] # "open"
  BY CalmActors DEF Interrupt, AnswerPending, FrontTypeOK, Asker
<1> QED
  BY <1>4, <1>5, <1>6 DEF ApprovalShown, Working

\* The other steps of the coroutines: a turn's end is awaited before anything is
\* dispatched.
LEMMA ActorOneTurn ==
  ASSUME Calm, NEW a \in Actor,
         InterruptStep(a) \/ Mounted(a) \/ Dispatch \/ Poll \/ Popped
  PROVE  OneTurn' /\ ApprovalShown'
<1>1. PICK b \in Acts : /\ at[b] # "none" /\ \A c \in Actor : at[c] # "none" => c = b
                        /\ Awaited(b) \/ Finalized(b) \/ Shown(b) \/ Mounted(b)
                           \/ (b = "app" /\ Dispatch)
  BY CalmActors DEF OneActor, InterruptStep, Awaited, Finalized, Shown, Mounted, Dispatch, Poll,
    Popped, Acts, Actor, Calm
<1>2. Live' = Live /\ Working' = Working
  BY <1>1 DEF Live, Working, Awaited, Finalized, Shown, Mounted, Dispatch, taskVars
<1>3. \A c \in Acts : c # b => at'[c] = "none"
  BY <1>1, CalmActors DEF Awaited, Finalized, Shown, Mounted, Dispatch, Goes, FrontTypeOK, Acts,
    Actor
<1>4. Live = {} /\ Working = {}
  <2>1. CASE Awaited(b)
    <3>1. target[b] \in Task /\ Live \subseteq {target[b]} /\ task[target[b]] = "done"
      BY <2>1, Numbers, CalmActors DEF OneTurn, Awaited, Asker
    <3> QED
      BY <3>1 DEF Live, Working
  <2>2. CASE ~Awaited(b)
    BY <1>1, <2>2, CalmActors DEF OneTurn, Finalized, Shown, Mounted, Dispatch, After, Live,
      Working
  <2> QED
    BY <2>1, <2>2
<1>5. running' = FALSE /\ lost' = 0
  BY <1>1, <1>4, CalmActors DEF OneTurn, Awaited, Finalized, Shown, Mounted, Dispatch, taskVars
<1>6. at'[b] # "awaiting"
  BY <1>1, CalmActors DEF Awaited, Finalized, Shown, Mounted, Dispatch, Goes, FrontTypeOK, Acts,
    Actor
<1>7. requested' => at'[b] \in Stages
  BY <1>1, CalmActors DEF OneTurn, Awaited, Finalized, Shown, Mounted, Dispatch, Goes,
    FrontTypeOK, Acts, Actor, Stages, taskVars
<1>8. OneTurn'
  BY <1>2, <1>3, <1>4, <1>5, <1>6, <1>7 DEF OneTurn
<1>9. UNCHANGED <<panel, mounted, ask>>
  BY <1>1 DEF Awaited, Finalized, Shown, Mounted, Dispatch, panelVars
<1> QED
  BY <1>1, <1>2, <1>4, <1>8, <1>9, CalmActors DEF ApprovalShown

\* The task at work is _agent_task; its end leaves nothing at work.
LEMMA TaskOneTurn ==
  ASSUME Calm, TasksInOrder, NEW t \in Task, Start(t) \/ TaskStep(t)
  PROVE  OneTurn' /\ ApprovalShown'
<1>1. UNCHANGED <<at, target, lost, panel, mounted, ask>>
  BY DEF Start, TaskStep, Finish, CleanedUp, actorVars, panelVars
<1>2. CASE Start(t)
  <2>1. task' = [task EXCEPT ![t] = "working"] /\ running' /\ UNCHANGED <<requested, agentTask>>
    BY <1>2 DEF Start, TasksInOrder
  <2>2. Live' = Live /\ t \in Live /\ t \in Working' /\ Working' \subseteq Working \cup {t}
    BY <1>2, <2>1, CalmActors DEF Start, Live, Working, FrontTypeOK
  <2>3. OneTurn'
    BY <1>1, <2>1, <2>2, CalmActors DEF OneTurn
  <2>4. ask[t] = "none"
    BY <1>2 DEF Start, TasksInOrder
  <2> QED
    BY <1>1, <2>2, <2>3, <2>4, CalmActors DEF ApprovalShown
<1>3. CASE Finish(t)
  <2>1. t \in Live /\ Live = {t}
    BY <1>3, CalmActors DEF Finish, OneTurn, Live
  <2>2. Live' = {} /\ Working' = {}
    BY <1>3, <2>1, CalmActors DEF Finish, EndOf, Live, Working, FrontTypeOK
  <2>3. running' = FALSE /\ (requested' => requested)
    BY <1>3 DEF Finish, EndOf
  <2>4. OneTurn'
    BY <1>1, <2>2, <2>3, CalmActors DEF OneTurn
  <2> QED
    BY <1>1, <2>2, <2>4, CalmActors DEF ApprovalShown
<1>4. CASE CleanedUp(t)
  <2>1. Live' = Live /\ Working' = Working
    BY <1>4, CalmActors DEF CleanedUp, Live, Working, FrontTypeOK
  <2>2. OneTurn'
    BY <1>1, <1>4, <2>1, CalmActors DEF OneTurn, CleanedUp
  <2> QED
    BY <1>1, <2>1, <2>2, CalmActors DEF ApprovalShown
<1> QED
  BY <1>2, <1>3, <1>4 DEF TaskStep

\* Prompts and panels: with the lock, only the asker that has it switches the panel.
LEMMA PanelOneTurn ==
  ASSUME Calm, \A t \in Task : task[t] # "created",
         \/ BeginRewind \/ EndRewind
         \/ \E k \in Asker : Ask(k) \/ Acquire(k) \/ Open(k) \/ Answer(k) \/ AskStep(k)
  PROVE  OneTurn' /\ ApprovalShown'
<1> USE Numbers
<1>1. UNCHANGED <<at, task, running, requested, agentTask, target, lost>>
  BY DEF BeginRewind, EndRewind, Ask, Acquire, Open, Answer, AskStep, CloseAsk, DropAsk, taskVars,
    actorVars
<1>2. Live' = Live /\ Working' = Working
  BY <1>1 DEF Live, Working
<1>3. OneTurn'
  BY <1>1, <1>2, CalmActors DEF OneTurn
<1>4. CASE BeginRewind \/ EndRewind
  <2>1. Live = {} /\ Working = {} /\ \A a \in Acts : at[a] = "none"
    BY <1>4, CalmActors DEF BeginRewind, EndRewind, OneTurn, ApprovalShown, Live, Working, Acts,
      Actor
  <2> QED
    BY <1>1, <1>2, <1>3, <2>1 DEF ApprovalShown
<1>5. ASSUME NEW k \in Asker, Ask(k) \/ Acquire(k) \/ Open(k) \/ Answer(k) \/ AskStep(k)
      PROVE  ApprovalShown'
  <2>1. "rewind" \in mounted' => "rewind" \in mounted
    BY <1>5 DEF Ask, Acquire, Open, Answer, AskStep, CloseAsk, DropAsk, Asks, ToInput
  <2>2. ASSUME NEW t \in Working, ask'[t] = "open" PROVE panel' = "approval"
    <3>1. t \in Task /\ t \in Asker /\ t # Teleport
      BY DEF Working, Asker
    <3>2. CASE Open(k)
      BY <1>5, <2>2, <3>1, <3>2, CalmActors DEF Open, Asks, LockHeld, FrontTypeOK
    <3>3. CASE ~Open(k)
      <4>1. ask[t] = "open" /\ lock = t
        BY <1>5, <2>2, <3>1, <3>3, CalmActors DEF Ask, Acquire, Answer, AskStep, CloseAsk, DropAsk,
          LockHeld, FrontTypeOK
      <4>2. ~CloseAsk(k)
        BY <1>5, <2>2, <3>1, <4>1, CalmActors DEF CloseAsk, LockHeld, FrontTypeOK
      <4> QED
        BY <1>5, <2>2, <3>3, <4>1, <4>2, CalmActors DEF Ask, Acquire, Answer, AskStep, DropAsk,
          ApprovalShown
    <3> QED
      BY <3>2, <3>3
  <2> QED
    BY <1>1, <1>2, <2>1, <2>2, CalmActors DEF ApprovalShown
<1> QED
  BY <1>3, <1>4, <1>5

\* Every step of a calm session.
LEMMA StepOneTurn ==
  ASSUME Calm, TasksInOrder, FrontNext
  PROVE  OneTurn' /\ ApprovalShown'
<1>1. ASSUME NEW t \in Task, Start(t) \/ TaskStep(t) PROVE OneTurn' /\ ApprovalShown'
  BY <1>1, TaskOneTurn
<1>2. ASSUME NEW a \in Actor, SendMessage(a) PROVE OneTurn' /\ ApprovalShown'
  <2>1. a \in Acts /\ Create(FALSE)
    BY <1>2, CalmActors DEF SendMessage
  <2> QED
    BY <1>2, <2>1, CreateOneTurn DEF SendMessage, Goes
<1>3. ASSUME SendCompact PROVE OneTurn' /\ ApprovalShown'
  BY <1>3, CreateOneTurn DEF SendCompact, Goes, Acts
<1>4. ASSUME NEW a \in Actor, InterruptStep(a) \/ Mounted(a) PROVE OneTurn' /\ ApprovalShown'
  BY <1>4, ActorOneTurn
<1>5. ASSUME Dispatch \/ Poll \/ Popped PROVE OneTurn' /\ ApprovalShown'
  BY <1>5, ActorOneTurn DEF Actor
<1>6. ASSUME NEW c \in {"message", "compact"}, Submit(c), \A t \in Task : task[t] # "created"
      PROVE  OneTurn' /\ ApprovalShown'
  <2>1. CASE Interrupt("app")
    BY <1>6, <2>1, InterruptOneTurn DEF Submit, Acts
  <2>2. CASE ~Interrupt("app")
    <3>1. /\ ~running /\ UNCHANGED <<taskVars, target, lost, panelVars>>
          /\ at' = [[a \in Actor |-> "none"] EXCEPT !["app"] = "dispatching"]
      BY <1>6, <2>2, CalmActors DEF Submit, Goes, OneTurn, Acts, Stages, Actor
    <3>2. Live' = {} /\ Working' = {} /\ Live = {} /\ Working = {}
      BY <1>6, <3>1, CalmActors DEF OneTurn, Live, Working, taskVars
    <3>3. ~requested /\ lost = 0 /\ mounted = {}
      BY <1>6, CalmActors DEF Submit, OneTurn, Acts, Stages, Actor, InputAlone
    <3> QED
      BY <3>1, <3>2, <3>3 DEF OneTurn, ApprovalShown, Acts, Actor, taskVars, panelVars
  <2> QED
    BY <2>1, <2>2
<1>7. ASSUME Escape, \A t \in Task : task[t] # "created" PROVE OneTurn' /\ ApprovalShown'
  BY <1>7, InterruptOneTurn DEF Escape, Acts
<1>8. ASSUME \A t \in Task : task[t] # "created",
             \/ BeginRewind \/ EndRewind
             \/ \E k \in Asker : Ask(k) \/ Acquire(k) \/ Open(k) \/ Answer(k) \/ AskStep(k)
      PROVE  OneTurn' /\ ApprovalShown'
  BY <1>8, PanelOneTurn
<1> QED
  BY <1>1, <1>2, <1>3, <1>4, <1>5, <1>6, <1>7, <1>8 DEF FrontNext

-----------------------------------------------------------------------------
(* The theorems *)

\* The invariant is inductive.
LEMMA StepInv == FrontInv /\ [FrontNext]_frontVars => FrontInv'
<1> SUFFICES ASSUME FrontInv, [FrontNext]_frontVars PROVE FrontInv'
  OBVIOUS
<1>1. CASE FrontNext
  <2>1. FrontTypeOK' /\ Numbered' /\ TasksInOrder' /\ LockHeld' /\ InputAlone'
    BY <1>1, StepTyped, StepNumbered, StepInOrder, StepLock, StepInputAlone DEF FrontInv
  <2>2. calm => OneActor' /\ OneTurn' /\ ApprovalShown'
    BY <1>1, StepOneActor, StepOneTurn DEF FrontInv, Calm
  <2>3. calm' = calm
    BY <1>1 DEF FrontNext
  <2> QED
    BY <2>1, <2>2, <2>3 DEF FrontInv
<1>2. CASE UNCHANGED frontVars
  BY <1>2 DEF frontVars, taskVars, actorVars, panelVars, FrontInv, FrontTypeOK, Numbered,
    TasksInOrder, LockHeld, InputAlone, OneActor, OneTurn, ApprovalShown, Live, Working
<1> QED
  BY <1>1, <1>2

\* The inductive invariant holds of every behaviour of the front end.
LEMMA InvHolds == FrontSpec => []FrontInv
BY InitInv, StepInv, PTL DEF FrontSpec

\* The type invariant of the flags, the tasks, the coroutines and the panels.
THEOREM FrontTypes == FrontSpec => []FrontTypeOK
<1>1. FrontInv => FrontTypeOK
  BY DEF FrontInv
<1> QED
  BY <1>1, InvHolds, PTL

\* _user_interaction_lock: prompts of turns and teleports are never open at the same
\* time, and the lock is held by the asker whose prompt it is, whatever is cancelled,
\* interrupted or answered for the user: it is given back with the end of the prompt.
PromptsOneAtATime ==
  /\ \A k \in Asker : lock = k <=> ask[k] \in {"typing", "open", "closing"}
  /\ \A k, l \in Asker : ask[k] = "open" /\ ask[l] = "open" => k = l

\* The lock lets one prompt be open at a time.
THEOREM OnePromptAtATime == FrontSpec => []PromptsOneAtATime
<1>1. FrontInv => PromptsOneAtATime
  BY DEF FrontInv, LockHeld, PromptsOneAtATime
<1> QED
  BY <1>1, InvHolds, PTL

\* _agent_task: what an interrupt cancels and awaits is at work or about to be, and
\* no turn that has ended, or that never ran, waits for the user.
InterruptsHitTheTurn ==
  /\ agentTask # NoTask => agentTask \in Task /\ task[agentTask] \in {"created", "working"}
  /\ \A t \in Task : ask[t] # "none" => task[t] = "working"

\* An interrupt never hits a turn that is over.
THEOREM InterruptHitsTheTurn == FrontSpec => []InterruptsHitTheTurn
<1>1. FrontInv => InterruptsHitTheTurn
  BY DEF FrontInv, TasksInOrder, InterruptsHitTheTurn, Live
<1> QED
  BY <1>1, InvHolds, PTL

\* A calm user has one turn at a time, finds every message sent, and every approval on
\* the screen.
THEOREM CalmUserIsServed == FrontSpec => []CalmUserServed
<1>1. FrontInv => CalmUserServed
  <2> SUFFICES ASSUME FrontInv, calm PROVE CalmUserServed
    BY DEF CalmUserServed
  <2>1. Working \subseteq {agentTask} /\ OneTurn /\ ApprovalShown
    BY DEF FrontInv, OneTurn, Live, Working
  <2>2. IsFiniteSet({agentTask}) /\ Cardinality({agentTask}) = 1
    BY FS_Singleton
  <2>3. IsFiniteSet(Working) /\ Cardinality(Working) <= Cardinality({agentTask})
    BY <2>1, <2>2, FS_Subset
  <2>4. Cardinality(Working) <= 1
    BY <2>2, <2>3
  <2> QED
    BY <2>1, <2>4 DEF CalmUserServed, OneTurn, ApprovalShown
<1> QED
  BY <1>1, InvHolds, PTL

-----------------------------------------------------------------------------
(* ShellCommands *)

\* Why a command may have been left.
Reason == {"own", "timeout", "cancel", "error"}

\* What the widget of a line shows that was left for a reason.
Showing(r) == CASE r = "own" -> "own" [] r = "cancel" -> "interrupted" [] OTHER -> "failed"

\* A tool's command: nothing is told while it runs, one that is being waited for after its
\* end has no shell any more and, if the group was killed, no child; a result and a timeout
\* come after the shell.
ToolRuns ==
  kind # "bang" =>
    /\ awaits \in {"off", "run", "kill"} /\ contexts = <<>> /\ shown = "none"
    /\ awaits # "off" => outcome = "none" /\ shell # "none"
    /\ awaits = "off" /\ outcome = "none" => shell = "none"
    /\ awaits = "kill" => /\ shell = "dead" /\ ~early /\ branch \in {"timeout", "cancel"}
                          /\ kind \in {"bash", "hook"} => ~child
    /\ outcome \in {"result", "timeout"} => shell # "alive"
    /\ shell = "none" \/ kind = "grep" => ~child

\* A "!" line: only a command that runs has a shell; nothing was told before the line is
\* finished, unless it was cancelled after it was told of once.
LineRuns ==
  kind = "bang" =>
    /\ outcome = "none" /\ (branch = "cancel" => cancels > 0)
    /\ awaits = "run" => branch = "own" /\ shell # "none"
    /\ awaits # "run" => shell # "alive"
    /\ awaits \in {"run", "kill", "finish"} =>
         /\ Len(contexts) <= 1
         /\ branch # "cancel" \/ cancels = 0 => contexts = <<>>
    /\ awaits = "save" =>
         /\ contexts # <<>> /\ contexts[Len(contexts)] = branch /\ shown = Showing(branch)
         /\ branch # "cancel" \/ cancels = 0 => Len(contexts) = 1
    /\ awaits = "off" /\ shown = "none" => shell = "none" /\ contexts = <<>> /\ branch = "own"
    /\ awaits # "off" => shown # "none"

\* Types, with the reasons a line may be told of.
ToldTypes == CommandTypeOK /\ contexts \in Seq(Reason)

\* The inductive invariant of a command.
CommandInv == ToldTypes /\ ToolRuns /\ LineRuns /\ NoStrays /\ CommandTold

\* It holds before a command starts.
LEMMA CommandInitInv == CommandInit => CommandInv
<1> SUFFICES ASSUME CommandInit PROVE CommandInv
  OBVIOUS
<1> USE DEF CommandInit
<1>0. {child, holds, early} \subseteq BOOLEAN
  OBVIOUS
<1>1. ToldTypes
  BY <1>0, CancelBound DEF ToldTypes, CommandTypeOK
<1>2. ToolRuns /\ LineRuns
  BY DEF ToolRuns, LineRuns
<1>3. NoStrays /\ CommandTold
  BY DEF NoStrays, CommandTold
<1> QED
  BY <1>1, <1>2, <1>3 DEF CommandInv

\* No step of a tool or hook breaks it ...
LEMMA ToolStep ==
  ASSUME CommandInv, CommandNext, kind # "bang"
  PROVE  CommandInv'
<1> USE CancelBound DEF CommandInv, ToldTypes, CommandTypeOK, ToolRuns, LineRuns, NoStrays,
        CommandTold, Reason
<1>1. CASE StartCommand
  BY <1>1 DEF StartCommand
<1>2. CASE HookStartFails
  BY <1>2 DEF HookStartFails
<1>3. CASE Spawn
  BY <1>3 DEF Spawn
<1>4. CASE ShellExits
  BY <1>4 DEF ShellExits
<1>5. CASE ChildExits
  <2>1. child' \in BOOLEAN /\ ~child'
    BY <1>5 DEF ChildExits
  <2> QED
    BY <1>5, <2>1 DEF ChildExits
<1>6. CASE ToolEnds
  BY <1>6 DEF ToolEnds, Ended
<1>7. CASE ToolTimeout
  BY <1>7 DEF ToolTimeout, ToolKills, Killed, Ended
<1>8. CASE ToolCancelled
  <2>1. CASE kind = "bash" /\ awaits = "run"
    <3>1. /\ UNCHANGED <<kind, holds, shown, contexts>> /\ branch' = "cancel"
          /\ cancels' \in 0..MaxCancels /\ shell' = "dead"
      BY <1>8, <2>1 DEF ToolCancelled, Killed
    <3>4. /\ {child', early'} \subseteq BOOLEAN /\ (early' <=> shell = "dead")
          /\ shell # "dead" => ~child'
      BY <1>8, <2>1 DEF ToolCancelled, Killed
    <3>2. CASE shell = "dead"
      <4>1. awaits' = "off" /\ outcome' = "cancel"
        BY <1>8, <2>1, <3>2 DEF ToolCancelled
      <4> QED
        BY <2>1, <3>1, <3>4, <3>2, <4>1
    <3>3. CASE shell # "dead"
      <4>1. awaits' = "kill" /\ outcome' = "none"
        BY <1>8, <2>1, <3>3 DEF ToolCancelled
      <4> QED
        BY <2>1, <3>1, <3>4, <3>3, <4>1
    <3> QED
      BY <3>2, <3>3
  <2>2. CASE awaits = "kill" \/ kind # "bash"
    <3>1. /\ UNCHANGED <<kind, shell, child, early, holds, shown, contexts>>
          /\ awaits' = "off" /\ outcome' = "cancel" /\ branch' = "cancel"
          /\ cancels' \in 0..MaxCancels
      BY <1>8, <2>2 DEF ToolCancelled
    <3> QED
      BY <2>2, <3>1
  <2> QED
    BY <1>8, <2>1, <2>2 DEF ToolCancelled
<1>9. CASE ToolKilled
  BY <1>9 DEF ToolKilled
<1>10. ~(StartFails \/ BangFails \/ BangCancelled \/ BangTimeout \/ BangEnds \/ BangKilled
         \/ BangFinish \/ BangSaved)
  BY DEF StartFails, BangFails, BangCancelled, BangTimeout, BangEnds, BangKilled, BangFinish,
     BangSaved
<1> QED
  BY <1>1, <1>2, <1>3, <1>4, <1>5, <1>6, <1>7, <1>8, <1>9, <1>10 DEF CommandNext, TimesOut, GoesOn

\* ... and none of a "!" line.
LEMMA LineStep ==
  ASSUME CommandInv, CommandNext, kind = "bang"
  PROVE  CommandInv'
<1> USE CancelBound DEF CommandInv, ToldTypes, CommandTypeOK, ToolRuns, LineRuns, NoStrays,
        CommandTold, Reason
<1>1. CASE StartCommand
  BY <1>1 DEF StartCommand
<1>2. CASE StartFails
  BY <1>2 DEF StartFails
<1>3. CASE Spawn
  BY <1>3 DEF Spawn
<1>4. CASE ShellExits
  BY <1>4 DEF ShellExits
<1>5. CASE ChildExits
  <2>1. child' \in BOOLEAN /\ ~child'
    BY <1>5 DEF ChildExits
  <2> QED
    BY <1>5, <2>1 DEF ChildExits
<1>6. CASE BangEnds
  BY <1>6 DEF BangEnds, Ended
<1>7. CASE BangTimeout \/ BangFails
  BY <1>7 DEF BangTimeout, BangFails, Leaves, Killed
<1>8. CASE BangKilled
  BY <1>8 DEF BangKilled
<1>9. CASE BangFinish
  BY <1>9 DEF BangFinish, Showing
<1>10. CASE BangSaved
  BY <1>10 DEF BangSaved, Showing
<1>11. CASE BangCancelled
  BY <1>11 DEF BangCancelled, Leaves, Killed
<1>12. ~(HookStartFails \/ ToolEnds \/ ToolTimeout \/ ToolCancelled \/ ToolKilled)
  BY DEF HookStartFails, ToolEnds, ToolTimeout, ToolKills, ToolCancelled, ToolKilled
<1> QED
  BY <1>1, <1>2, <1>3, <1>4, <1>5, <1>6, <1>7, <1>8, <1>9, <1>10, <1>11, <1>12
     DEF CommandNext, TimesOut, GoesOn

\* So it holds throughout.
LEMMA CommandInvariant == CommandSpec => []CommandInv
<1>1. CommandInv /\ UNCHANGED commandVars => CommandInv'
  BY DEF CommandInv, ToldTypes, CommandTypeOK, ToolRuns, LineRuns, NoStrays, CommandTold,
     Showing, commandVars
<1>2. CommandInv /\ CommandNext => CommandInv'
  BY ToolStep, LineStep
<1> QED
  BY CommandInitInv, <1>1, <1>2, PTL DEF CommandSpec

\* The variables of a command have their types, and a line is told of at most twice.
THEOREM CommandTypes == CommandSpec => []CommandTypeOK
<1>1. CommandInv => CommandTypeOK
  BY DEF CommandInv, ToldTypes
<1> QED
  BY <1>1, CommandInvariant, PTL

\* Whatever becomes of shell and child and whenever it is cancelled, a command that is over
\* has no process left, but for the cases named in NoStrays, and was told of as it ended.
THEOREM CommandsEndClean == CommandSpec => []EndsClean
<1>1. CommandInv => EndsClean
  BY DEF CommandInv, EndsClean
<1> QED
  BY <1>1, CommandInvariant, PTL

-----------------------------------------------------------------------------
(* SessionMetadata *)

\* Sets of loops within the limit, metadata with such a set, and what a writer awaits.
Kept == {l \in SUBSET ScheduledLoop : IsFiniteSet(l) /\ Cardinality(l) <= MaxLoops}
KeptMeta == [title : Title, loops : Kept]
Await == {"messages", "read", "replace", "rename", "resume"}

\* Types of what is in memory and on disk, and of the writers.
DataTypes ==
  /\ loops \in Kept /\ meta \in [Session -> KeptMeta] /\ current \in Session
  /\ file \in [Session -> KeptMeta \cup {Absent}]
  /\ adrift \in BOOLEAN

\* What a writer is about to write is there.
WriterTypes ==
  /\ writer \in [Writer -> [at : Await \cup {"none"}, session : Session \cup {0},
                            text : KeptMeta \cup {Absent}, title : Title]]
  /\ \A w \in Writer : /\ Busy(w) => writer[w].at # "none" /\ writer[w].session \in Session
                       /\ writer[w].at \in {"replace", "rename"} => writer[w].text \in KeptMeta
  /\ steps \in 0..MaxSteps /\ overlapped \in BOOLEAN

\* Each writer has its own awaits.
Roles ==
  /\ writer["save"].at \in {"none", "messages", "replace"}
  /\ writer["poll"].at \in {"none", "read", "replace"}
  /\ writer["command"].at \in {"none", "read", "replace", "rename", "resume"}

\* There is one writer at a time, and it writes the session the logger is on.
OneWriter ==
  /\ \A v \in Writer, w \in Writer : writer[v].at # "none" /\ writer[w].at # "none" => v = w
  /\ \A w \in Writer : writer[w].at # "none" => writer[w].session = current

\* A save carries the metadata in memory, the others what they do not change from the file.
Carries ==
  /\ writer["save"].at = "replace" =>
       writer["save"].text = meta[current] /\ meta[current].title # "none"
  /\ \A w \in {"command", "poll"} :
       /\ writer[w].at \in {"read", "replace", "rename", "resume"} => file[current] # Absent
       /\ writer[w].at = "replace" =>
            writer[w].text = [title |-> file[current].title, loops |-> meta[current].loops]
       /\ writer[w].at = "rename" =>
            /\ Manual(writer[w].title)
            /\ writer[w].text = [title |-> writer[w].title, loops |-> file[current].loops]

\* The manager's loops are those of the metadata, unless the session changed under them.
LoopsInMemory == /\ ~adrift => meta[current].loops = loops
                 /\ writer["command"].at = "resume" => adrift

\* The file agrees with the memory, but for loops that are on their way.
LoopsOnDisk ==
  /\ file[current] # Absent
  /\ \A w \in {"command", "poll"} : writer[w].at \notin {"read", "replace"}
  => file[current].loops = meta[current].loops
TitleOnDisk ==
  /\ file[current] # Absent
  /\ Manual(meta[current].title) \/ Manual(file[current].title)
  => file[current].title = meta[current].title

\* All of it is claimed while writers come one after the other.
Settling == ~overlapped => OneWriter /\ Carries /\ LoopsInMemory /\ LoopsOnDisk /\ TitleOnDisk
MetaInv == DataTypes /\ WriterTypes /\ Roles /\ Settling

USE MetadataBounds

\* Metadata with another title, or with other loops.
LEMMA SomeMeta ==
  ASSUME NEW r \in KeptMeta \cup {Absent}
  PROVE  /\ r = [title |-> r.title, loops |-> r.loops] /\ r.title \in Title
         /\ \A t : [r EXCEPT !.title = t] = [title |-> t, loops |-> r.loops]
         /\ \A l : [r EXCEPT !.loops = l] = [title |-> r.title, loops |-> l]
  BY DEF KeptMeta, Absent, Title

\* The same of the metadata of one session.
LEMMA MetaWith ==
  ASSUME DataTypes, NEW s \in Session
  PROVE  /\ \A t : [meta EXCEPT ![s].title = t] =
                     [meta EXCEPT ![s] = [title |-> t, loops |-> meta[s].loops]]
         /\ \A l : [meta EXCEPT ![s].loops = l] =
                     [meta EXCEPT ![s] = [title |-> meta[s].title, loops |-> l]]
  BY SomeMeta DEF DataTypes

\* Taking loops away leaves few enough; adding one does, below the limit.
LEMMA NoneKept == {} \in Kept
  BY FS_EmptySet DEF Kept

LEMMA FewerKept ==
  ASSUME NEW l \in Kept, NEW m \in SUBSET l
  PROVE  m \in Kept
<1>1. IsFiniteSet(m) /\ Cardinality(m) <= Cardinality(l)
  BY FS_Subset DEF Kept
<1>2. Cardinality(m) \in Nat /\ Cardinality(l) \in Nat
  BY <1>1, FS_CardinalityType DEF Kept
<1> QED
  BY <1>1, <1>2 DEF Kept

LEMMA OneMoreKept ==
  ASSUME NEW l \in Kept, NEW x \in ScheduledLoop, Cardinality(l) < MaxLoops
  PROVE  l \cup {x} \in Kept
<1>1. IsFiniteSet(l) /\ l \in SUBSET ScheduledLoop
  BY DEF Kept
<1>2. /\ IsFiniteSet(l \cup {x})
      /\ Cardinality(l \cup {x}) = Cardinality(l) \/ Cardinality(l \cup {x}) = Cardinality(l) + 1
  BY <1>1, FS_AddElement
<1>3. Cardinality(l) \in Nat
  BY <1>1, FS_CardinalityType
<1> QED
  BY <1>1, <1>2, <1>3 DEF Kept

\* A writer is busy while it is at an await.
LEMMA BusyAt ==
  ASSUME WriterTypes, NEW w \in Writer
  PROVE  Busy(w) <=> writer[w].at # "none"
  BY DEF WriterTypes, Busy, Quiet

\* The invariant of the metadata holds in a new session.
LEMMA MetaInitInv == MetaInit => MetaInv
<1> SUFFICES ASSUME MetaInit PROVE MetaInv
  OBVIOUS
<1>a. {adrift, overlapped} \subseteq BOOLEAN
  BY DEF MetaInit
<1>c. 1 \in Session
  BY DEF Session
<1>b. [title |-> "none", loops |-> {}] \in KeptMeta
  BY NoneKept DEF KeptMeta, Title
<1>1. DataTypes
  <2>1. loops \in Kept /\ meta \in [Session -> KeptMeta] /\ current \in Session
    BY <1>b, <1>c, NoneKept DEF MetaInit
  <2>2. file \in [Session -> KeptMeta \cup {Absent}]
    BY DEF MetaInit
  <2> QED
    BY <1>a, <2>1, <2>2 DEF DataTypes
<1>2. WriterTypes
  <2>1. Quiet \in [at : Await \cup {"none"}, session : Session \cup {0},
                   text : KeptMeta \cup {Absent}, title : Title]
    BY DEF Quiet, Title
  <2>2. Quiet.at = "none"
    BY DEF Quiet
  <2> QED
    BY <1>a, <2>1, <2>2 DEF WriterTypes, Busy, MetaInit
<1> USE DEF MetaInit, Session, Writer, Quiet
<1>3. Roles
  BY DEF Roles
<1>4. /\ \A w \in Writer : writer[w].at = "none"
      /\ file[current] = Absent /\ meta[current].loops = {} /\ loops = {}
  OBVIOUS
<1>5. OneWriter /\ Carries /\ LoopsInMemory
  BY <1>4 DEF OneWriter, Carries, LoopsInMemory
<1>6. LoopsOnDisk /\ TitleOnDisk
  BY <1>4 DEF LoopsOnDisk, TitleOnDisk
<1> QED
  BY <1>1, <1>2, <1>3, <1>5, <1>6 DEF MetaInv, Settling

\* What is known of a writer.
WriterRecord == [at : Await \cup {"none"}, session : Session \cup {0},
                 text : KeptMeta \cup {Absent}, title : Title]

\* A writer is replaced by another of its type.
LEMMA WriterSet ==
  ASSUME WriterTypes, NEW w \in Writer, NEW r \in WriterRecord,
         writer' = [writer EXCEPT ![w] = r], steps' \in 0..MaxSteps, overlapped' \in BOOLEAN,
         r # Quiet => r.at # "none" /\ r.session \in Session,
         r.at \in {"replace", "rename"} => r.text \in KeptMeta
  PROVE  WriterTypes'
<1>1. writer' \in [Writer -> WriterRecord]
  BY DEF WriterTypes, WriterRecord
<1>2. ASSUME NEW v \in Writer
      PROVE  /\ writer'[v] # Quiet => writer'[v].at # "none" /\ writer'[v].session \in Session
             /\ writer'[v].at \in {"replace", "rename"} => writer'[v].text \in KeptMeta
  <2>1. CASE v = w
    BY <2>1 DEF WriterTypes
  <2>2. CASE v # w
    <3>1. writer'[v] = writer[v]
      BY <2>2 DEF WriterTypes
    <3> QED
      BY <3>1 DEF WriterTypes, Busy
  <2> QED
    BY <2>1, <2>2
<1> QED
  BY <1>1, <1>2 DEF WriterTypes, WriterRecord, Busy

\* A writer that begins has its type; unless others are at work it is alone.
LEMMA BeginTypes ==
  ASSUME DataTypes, WriterTypes, NEW w \in Writer, NEW a \in {"messages", "read", "rename"},
         NEW text \in KeptMeta \cup {Absent}, NEW t \in Title,
         a = "rename" => text \in KeptMeta, Begin(w, a, text, t)
  PROVE  /\ WriterTypes'
         /\ writer' = [writer EXCEPT ![w] = [at |-> a, session |-> current, text |-> text,
                                            title |-> t]]
         /\ ~overlapped' => ~overlapped /\ \A v \in Writer : writer[v].at = "none"
<1> DEFINE r == [at |-> a, session |-> current, text |-> text, title |-> t]
<1>1. r \in WriterRecord
  BY DEF WriterRecord, Await, DataTypes
<1>2. steps' \in 0..MaxSteps
  BY DEF Begin, WriterTypes
<1>3. overlapped' \in BOOLEAN
  BY DEF Begin, Overlaps
<1>4. /\ r.at \notin {"none", "replace"} /\ r.session \in Session
      /\ r.at = "rename" => r.text \in KeptMeta
  BY DEF DataTypes
<1>5. writer' = [writer EXCEPT ![w] = r]
  BY DEF Begin
<1>6. ASSUME ~overlapped' PROVE ~overlapped /\ \A v \in Writer : writer[v].at = "none"
  BY <1>6, BusyAt DEF Begin, Overlaps
<1> HIDE DEF r
<1> QED
  BY <1>1, <1>2, <1>3, <1>4, <1>5, <1>6, WriterSet DEF r

\* A save begins.
LEMMA StartSaveKeeps ==
  ASSUME MetaInv, StartSave
  PROVE  MetaInv'
<1>1. Begin("save", "messages", Absent, "none") /\ UNCHANGED <<loops, meta, current, file, adrift>>
  BY DEF StartSave
<1>2. DataTypes'
  BY <1>1 DEF MetaInv, DataTypes
<1>3. /\ WriterTypes'
      /\ writer' = [writer EXCEPT !["save"] = [at |-> "messages", session |-> current,
                                              text |-> Absent, title |-> "none"]]
      /\ ~overlapped' => ~overlapped /\ \A v \in Writer : writer[v].at = "none"
  BY <1>1, BeginTypes DEF MetaInv, Writer, Title
<1>4. /\ writer'["save"].at = "messages" /\ writer'["save"].session = current
      /\ \A v \in Writer \ {"save"} : writer'[v] = writer[v]
  BY <1>3 DEF MetaInv, WriterTypes, Writer
<1>5. Roles'
  BY <1>4 DEF Roles, MetaInv, Writer
<1>6. ASSUME ~overlapped'
      PROVE  (OneWriter /\ Carries /\ LoopsInMemory /\ LoopsOnDisk /\ TitleOnDisk)'
  <2>1. OneWriter'
    BY <1>1, <1>3, <1>4, <1>6 DEF OneWriter
  <2>2. Carries' /\ LoopsInMemory'
    BY <1>1, <1>3, <1>4, <1>6 DEF Carries, LoopsInMemory, MetaInv, Settling, Writer
  <2>3. LoopsOnDisk' /\ TitleOnDisk'
    BY <1>1, <1>3, <1>4, <1>6 DEF LoopsOnDisk, TitleOnDisk, MetaInv, Settling, Writer
  <2> QED
    BY <2>1, <2>2, <2>3
<1> QED
  BY <1>2, <1>3, <1>5, <1>6 DEF MetaInv, Settling

\* What the metadata of the session the logger is on becomes.
LEMMA MetaSet ==
  ASSUME DataTypes, NEW m \in KeptMeta, meta' = [meta EXCEPT ![current] = m]
  PROVE  meta' \in [Session -> KeptMeta] /\ meta'[current] = m
  BY DEF DataTypes

\* The manager's loops change, and go to memory and, if there is one, to the file.
LEMMA PersistKeeps ==
  ASSUME MetaInv, NEW w \in {"command", "poll"}, NEW kept \in Kept, Persist(w, kept),
         UNCHANGED <<current, file>>
  PROVE  MetaInv'
<1> DEFINE m == [title |-> meta[current].title, loops |-> kept]
<1>1. m \in KeptMeta /\ meta[current] \in KeptMeta /\ w \in Writer
  BY DEF MetaInv, DataTypes, KeptMeta, Writer
<1>2. meta' = [meta EXCEPT ![current] = m]
  BY MetaWith DEF MetaInv, DataTypes, Persist
<1> HIDE DEF m
<1>3. meta' \in [Session -> KeptMeta] /\ meta'[current] = m
  BY <1>1, <1>2, MetaSet DEF MetaInv
<1>4. loops' = kept /\ adrift' \in BOOLEAN /\ ~adrift'
  BY DEF Persist
<1>5. DataTypes'
  BY <1>3, <1>4 DEF MetaInv, DataTypes
<1>6. m.loops = kept /\ m.title = meta[current].title
  BY DEF m
<1>7. CASE file[current] = Absent
  <2>1. overlapped' = Overlaps /\ UNCHANGED <<writer, steps>>
    BY <1>7 DEF Persist
  <2>2. WriterTypes' /\ Roles'
    BY <2>1 DEF MetaInv, WriterTypes, Roles, Busy, Overlaps
  <2>3. ASSUME ~overlapped'
        PROVE  (OneWriter /\ Carries /\ LoopsInMemory /\ LoopsOnDisk /\ TitleOnDisk)'
    <3>1. \A v \in Writer : writer'[v].at = "none"
      BY <2>1, <2>3, BusyAt DEF MetaInv, Overlaps
    <3>2. file'[current'] = Absent
      BY <1>7
    <3> QED
      BY <1>3, <1>4, <1>6, <3>1, <3>2
         DEF OneWriter, Carries, LoopsInMemory, LoopsOnDisk, TitleOnDisk, Writer
  <2> QED
    BY <1>5, <2>2, <2>3 DEF MetaInv, Settling
<1>8. CASE file[current] # Absent
  <2>1. Begin(w, "read", Absent, "none")
    BY <1>8 DEF Persist
  <2>2. /\ WriterTypes'
        /\ writer' = [writer EXCEPT ![w] = [at |-> "read", session |-> current,
                                           text |-> Absent, title |-> "none"]]
        /\ ~overlapped' => ~overlapped /\ \A v \in Writer : writer[v].at = "none"
    BY <1>1, <2>1, BeginTypes DEF MetaInv, Title
  <2>3. /\ writer'[w].at = "read" /\ writer'[w].session = current
        /\ \A v \in Writer \ {w} : writer'[v] = writer[v]
    BY <1>1, <2>2 DEF MetaInv, WriterTypes
  <2>4. Roles'
    BY <2>3 DEF Roles, MetaInv, Writer
  <2>5. ASSUME ~overlapped'
        PROVE  (OneWriter /\ Carries /\ LoopsInMemory /\ LoopsOnDisk /\ TitleOnDisk)'
    <3>1. \A v \in Writer \ {w} : writer'[v].at = "none"
      BY <2>2, <2>3, <2>5
    <3>2. OneWriter'
      BY <2>3, <3>1 DEF OneWriter
    <3>3. Carries' /\ LoopsInMemory'
      BY <1>3, <1>4, <1>6, <1>8, <2>3, <3>1 DEF Carries, LoopsInMemory, Writer
    <3>4. LoopsOnDisk'
      BY <2>3 DEF LoopsOnDisk
    <3>5. TitleOnDisk'
      BY <1>3, <1>6, <2>2, <2>5 DEF TitleOnDisk, MetaInv, Settling
    <3> QED
      BY <3>2, <3>3, <3>4, <3>5
  <2> QED
    BY <1>5, <2>2, <2>4, <2>5 DEF MetaInv, Settling
<1> QED
  BY <1>7, <1>8

\* /loop, its cancellation and the poll.
LEMMA LoopCommandsKeep ==
  ASSUME MetaInv, \/ \E l \in ScheduledLoop : AddLoop(l)
                  \/ \E gone \in SUBSET ScheduledLoop : CancelLoops(gone)
                  \/ PopDue
  PROVE  MetaInv'
<1>1. ASSUME NEW l \in ScheduledLoop, AddLoop(l) PROVE MetaInv'
  <2>1. loops \cup {l} \in Kept
    BY <1>1, OneMoreKept DEF AddLoop, MetaInv, DataTypes
  <2> QED
    BY <1>1, <2>1, PersistKeeps DEF AddLoop
<1>2. ASSUME NEW gone, CancelLoops(gone) PROVE MetaInv'
  <2>1. loops \ gone \in Kept
    BY FewerKept DEF MetaInv, DataTypes
  <2> QED
    BY <1>2, <2>1, PersistKeeps DEF CancelLoops
<1>3. CASE PopDue
  BY <1>3, PersistKeeps DEF PopDue, MetaInv, DataTypes
<1> QED
  BY <1>1, <1>2, <1>3

\* A writer that has all it needs will replace the file by a text.
LEMMA WillReplace ==
  ASSUME WriterTypes, NEW w \in Writer, NEW t \in KeptMeta
  PROVE  LET r == [writer[w] EXCEPT !.at = "replace", !.text = t]
         IN  /\ r \in WriterRecord /\ r.at = "replace" /\ r.session = writer[w].session
             /\ r.text = t
             /\ [writer EXCEPT ![w].at = "replace", ![w].text = t] = [writer EXCEPT ![w] = r]
  BY DEF WriterTypes, WriterRecord, Await

\* persist_loops has read the file.
LEMMA ReadKeeps ==
  ASSUME MetaInv, NEW w \in Writer, ReadForLoops(w)
  PROVE  MetaInv'
<1> DEFINE s == writer[w].session
           t == [title |-> file[s].title, loops |-> meta[s].loops]
           r == [writer[w] EXCEPT !.at = "replace", !.text = t]
<1>1. writer[w].at = "read" /\ UNCHANGED <<loops, meta, current, file, steps, adrift, overlapped>>
  BY DEF ReadForLoops
<1>2. Busy(w) /\ s \in Session
  BY <1>1, BusyAt DEF MetaInv, WriterTypes
<1>3. file[s] \in KeptMeta \cup {Absent} /\ meta[s] \in KeptMeta
  BY <1>2 DEF MetaInv, DataTypes
<1>4. [file[s] EXCEPT !.loops = meta[s].loops] = t /\ t \in KeptMeta
  BY <1>3, SomeMeta DEF KeptMeta
<1> HIDE DEF t
<1>5. writer' = [writer EXCEPT ![w] = r]
  <2>1. writer' = [writer EXCEPT ![w].at = "replace",
                                 ![w].text = [file[s] EXCEPT !.loops = meta[s].loops]]
    BY DEF ReadForLoops
  <2>2. writer' = [writer EXCEPT ![w].at = "replace", ![w].text = t]
    BY <1>4, <2>1
  <2>3. WriterTypes /\ t \in KeptMeta
    BY <1>4 DEF MetaInv
  <2> QED
    BY <2>2, <2>3, WillReplace
<1>6. r \in WriterRecord /\ r.at = "replace" /\ r.session = s /\ r.text = t
  <2>1. WriterTypes /\ t \in KeptMeta
    BY <1>4 DEF MetaInv
  <2> QED
    BY <2>1, WillReplace
<1> HIDE DEF r, s
<1>7. WriterTypes'
  BY <1>1, <1>2, <1>4, <1>5, <1>6, WriterSet DEF MetaInv, WriterTypes
<1>8. DataTypes'
  BY <1>1 DEF MetaInv, DataTypes
<1>9. writer'[w] = r /\ \A v \in Writer \ {w} : writer'[v] = writer[v]
  BY <1>5 DEF MetaInv, WriterTypes
<1>10. w # "save"
  BY <1>1 DEF MetaInv, Roles
<1>11. Roles'
  BY <1>6, <1>9, <1>10 DEF MetaInv, Roles, Writer
<1>12. ASSUME ~overlapped'
       PROVE  (OneWriter /\ Carries /\ LoopsInMemory /\ LoopsOnDisk /\ TitleOnDisk)'
  <2>1. OneWriter /\ Carries /\ LoopsInMemory /\ LoopsOnDisk /\ TitleOnDisk
    BY <1>1, <1>12 DEF MetaInv, Settling
  <2>2. s = current
    BY <1>1, <2>1 DEF OneWriter, s
  <2>3. OneWriter'
    BY <1>1, <1>6, <1>9, <2>1, <2>2 DEF OneWriter
  <2>4. \A v \in Writer \ {w} : writer'[v].at = "none"
    BY <1>1, <1>9, <2>1 DEF OneWriter
  <2>5. Carries'
    BY <1>1, <1>6, <1>9, <1>10, <2>1, <2>2, <2>4 DEF Carries, Writer, t
  <2>6. LoopsInMemory' /\ LoopsOnDisk' /\ TitleOnDisk'
    BY <1>1, <1>6, <1>9, <1>10, <2>1, <2>4 DEF LoopsInMemory, LoopsOnDisk, TitleOnDisk, Writer
  <2> QED
    BY <2>3, <2>5, <2>6
<1> QED
  BY <1>7, <1>8, <1>11, <1>12 DEF MetaInv, Settling

\* A save has its messages written and dumps the metadata.
LEMMA DumpKeeps ==
  ASSUME MetaInv, DumpMetadata
  PROVE  MetaInv'
<1> DEFINE s == writer["save"].session
           title == IF meta[current].title = "none" THEN "auto" ELSE meta[current].title
           t == [title |-> title, loops |-> meta[s].loops]
           m == [title |-> title, loops |-> meta[current].loops]
           r == [writer["save"] EXCEPT !.at = "replace", !.text = t]
<1>1. /\ writer["save"].at = "messages"
      /\ UNCHANGED <<loops, current, file, steps, adrift, overlapped>>
  BY DEF DumpMetadata
<1>2. "save" \in Writer /\ s \in Session
  BY <1>1, BusyAt DEF MetaInv, WriterTypes, Writer
<1>3. meta[s] \in KeptMeta /\ meta[current] \in KeptMeta /\ current \in Session
  BY <1>2 DEF MetaInv, DataTypes
<1>4. t \in KeptMeta /\ m \in KeptMeta
  BY <1>3 DEF KeptMeta, Title
<1>5. title # "none" /\ (Manual(title) <=> Manual(meta[current].title))
      /\ (Manual(title) => title = meta[current].title)
  BY DEF Manual
<1>6. meta' = [meta EXCEPT ![current] = m]
  BY <1>3, MetaWith DEF DumpMetadata, MetaInv
<1>7. writer' = [writer EXCEPT !["save"].at = "replace", !["save"].text = t]
  BY DEF DumpMetadata
<1>8. m.title = title /\ m.loops = meta[current].loops /\ (s = current => t = m)
  OBVIOUS
<1> HIDE DEF t, m, title
<1>9. writer' = [writer EXCEPT !["save"] = r]
  BY <1>2, <1>4, <1>7, WillReplace DEF MetaInv
<1>10. r \in WriterRecord /\ r.at = "replace" /\ r.session = s /\ r.text = t
  BY <1>2, <1>4, WillReplace DEF MetaInv
<1> HIDE DEF r, s
<1>11. WriterTypes'
  BY <1>1, <1>2, <1>4, <1>9, <1>10, WriterSet DEF MetaInv, WriterTypes
<1>12. meta' \in [Session -> KeptMeta] /\ meta'[current] = m
  BY <1>4, <1>6, MetaSet DEF MetaInv
<1>13. DataTypes'
  BY <1>1, <1>12 DEF MetaInv, DataTypes
<1>14. writer'["save"] = r /\ \A v \in Writer \ {"save"} : writer'[v] = writer[v]
  BY <1>2, <1>9 DEF MetaInv, WriterTypes
<1>15. Roles'
  BY <1>10, <1>14 DEF MetaInv, Roles, Writer
<1>16. ASSUME ~overlapped'
       PROVE  (OneWriter /\ Carries /\ LoopsInMemory /\ LoopsOnDisk /\ TitleOnDisk)'
  <2>1. OneWriter /\ Carries /\ LoopsInMemory /\ LoopsOnDisk /\ TitleOnDisk
    BY <1>1, <1>16 DEF MetaInv, Settling
  <2>2. s = current
    BY <1>1, <1>2, <2>1 DEF OneWriter, s
  <2>3. OneWriter'
    BY <1>1, <1>10, <1>14, <2>1, <2>2 DEF OneWriter
  <2>4. \A v \in Writer \ {"save"} : writer'[v].at = "none" /\ writer[v].at = "none"
    BY <1>1, <1>2, <1>14, <2>1 DEF OneWriter
  <2>5. Carries'
    BY <1>1, <1>5, <1>8, <1>10, <1>12, <1>14, <2>2, <2>4 DEF Carries, Writer
  <2>6. LoopsInMemory' /\ LoopsOnDisk'
    BY <1>1, <1>8, <1>12, <2>1, <2>4 DEF LoopsInMemory, LoopsOnDisk, Writer
  <2>7. TitleOnDisk'
    BY <1>1, <1>5, <1>8, <1>12, <2>1 DEF TitleOnDisk
  <2> QED
    BY <2>3, <2>5, <2>6, <2>7
<1> QED
  BY <1>11, <1>13, <1>15, <1>16 DEF MetaInv, Settling

\* /rename, without a file and with one.
LEMMA RenameKeeps ==
  ASSUME MetaInv, NEW t \in Title, Rename(t)
  PROVE  MetaInv'
<1>1. Manual(t) /\ UNCHANGED <<loops, current, file, adrift>>
  BY DEF Rename
<1>2. "command" \in Writer /\ current \in Session /\ meta[current] \in KeptMeta
      /\ file[current] \in KeptMeta \cup {Absent}
  BY DEF MetaInv, DataTypes, Writer
<1>3. CASE file[current] = Absent
  <2> DEFINE m == [title |-> t, loops |-> meta[current].loops]
  <2>1. m \in KeptMeta /\ m.loops = meta[current].loops
    BY <1>2 DEF KeptMeta
  <2>2. meta' = [meta EXCEPT ![current] = m]
    BY <1>2, <1>3, MetaWith DEF Rename, MetaInv
  <2> HIDE DEF m
  <2>3. meta' \in [Session -> KeptMeta] /\ meta'[current] = m
    BY <2>1, <2>2, MetaSet DEF MetaInv
  <2>4. overlapped' = Overlaps /\ UNCHANGED <<writer, steps>>
    BY <1>3 DEF Rename
  <2>5. DataTypes' /\ WriterTypes' /\ Roles'
    BY <1>1, <2>3, <2>4 DEF MetaInv, DataTypes, WriterTypes, Roles, Busy, Overlaps
  <2>6. ASSUME ~overlapped'
        PROVE  (OneWriter /\ Carries /\ LoopsInMemory /\ LoopsOnDisk /\ TitleOnDisk)'
    <3>1. \A v \in Writer : writer'[v].at = "none"
      BY <2>4, <2>6, BusyAt DEF MetaInv, Overlaps
    <3>2. LoopsInMemory /\ file'[current'] = Absent
      BY <1>1, <1>3, <2>4, <2>6 DEF MetaInv, Settling, Overlaps
    <3> QED
      BY <1>1, <2>1, <2>3, <2>4, <3>1, <3>2
         DEF OneWriter, Carries, LoopsInMemory, LoopsOnDisk, TitleOnDisk, Writer
  <2> QED
    BY <2>5, <2>6 DEF MetaInv, Settling
<1>4. CASE file[current] # Absent
  <2> DEFINE x == [title |-> t, loops |-> file[current].loops]
  <2>1. x \in KeptMeta
    BY <1>2, <1>4 DEF KeptMeta
  <2>2. Begin("command", "rename", x, t) /\ UNCHANGED meta
    <3>1. [file[current] EXCEPT !.title = t] = x
      BY <1>2, SomeMeta
    <3> QED
      BY <1>4, <3>1 DEF Rename
  <2> HIDE DEF x
  <2>3. /\ WriterTypes'
        /\ writer' = [writer EXCEPT !["command"] = [at |-> "rename", session |-> current,
                                                   text |-> x, title |-> t]]
        /\ ~overlapped' => ~overlapped /\ \A v \in Writer : writer[v].at = "none"
    BY <1>2, <2>1, <2>2, BeginTypes DEF MetaInv
  <2>4. DataTypes'
    BY <1>1, <2>2 DEF MetaInv, DataTypes
  <2>5. /\ writer'["command"] = [at |-> "rename", session |-> current, text |-> x, title |-> t]
        /\ \A v \in Writer \ {"command"} : writer'[v] = writer[v]
    BY <1>2, <2>3 DEF MetaInv, WriterTypes
  <2>6. Roles'
    BY <2>5 DEF Roles, MetaInv, Writer
  <2>7. ASSUME ~overlapped'
        PROVE  (OneWriter /\ Carries /\ LoopsInMemory /\ LoopsOnDisk /\ TitleOnDisk)'
    <3>1. \A v \in Writer \ {"command"} : writer'[v].at = "none"
      BY <2>3, <2>5, <2>7
    <3>2. OneWriter'
      BY <1>1, <2>5, <3>1 DEF OneWriter
    <3>3. Carries'
      BY <1>1, <1>4, <2>5, <3>1 DEF Carries, Writer, x
    <3>4. LoopsInMemory /\ LoopsOnDisk /\ TitleOnDisk /\ \A v \in Writer : writer[v].at = "none"
      BY <2>3, <2>7 DEF MetaInv, Settling
    <3>5. LoopsInMemory' /\ LoopsOnDisk' /\ TitleOnDisk'
      BY <1>1, <2>2, <2>5, <3>1, <3>4 DEF LoopsInMemory, LoopsOnDisk, TitleOnDisk, Writer
    <3> QED
      BY <3>2, <3>3, <3>5
  <2> QED
    BY <2>3, <2>4, <2>6, <2>7 DEF MetaInv, Settling
<1> QED
  BY <1>3, <1>4

\* A writer replaces the file: a save, a change of the loops, or a rename.
LEMMA ReplaceKeeps ==
  ASSUME MetaInv, NEW w \in Writer, Replace(w)
  PROVE  MetaInv'
<1> DEFINE s == writer[w].session
           m == [title |-> writer[w].title, loops |-> meta[current].loops]
<1>1. /\ writer[w].at \in {"replace", "rename"}
      /\ UNCHANGED <<loops, current, steps, adrift, overlapped>>
  BY DEF Replace
<1>2. s \in Session /\ writer[w].text \in KeptMeta
  BY <1>1, BusyAt DEF MetaInv, WriterTypes
<1>3. meta[current] \in KeptMeta /\ current \in Session /\ m \in KeptMeta
  BY DEF MetaInv, DataTypes, WriterTypes, KeptMeta
<1>4. /\ writer[w].at = "rename" => meta' = [meta EXCEPT ![current] = m]
      /\ writer[w].at = "replace" => meta' = meta
  BY <1>3, MetaWith DEF Replace, MetaInv
<1>5. file' = [file EXCEPT ![s] = writer[w].text]
  BY DEF Replace
<1>6. m.title = writer[w].title /\ m.loops = meta[current].loops
  OBVIOUS
<1> HIDE DEF m
<1>7. /\ meta' \in [Session -> KeptMeta]
      /\ writer[w].at = "rename" => meta'[current] = m
  BY <1>1, <1>3, <1>4, MetaSet DEF MetaInv, DataTypes
<1> HIDE DEF s
<1>8. DataTypes'
  BY <1>1, <1>2, <1>5, <1>7 DEF MetaInv, DataTypes
<1>9. Quiet \in WriterRecord /\ Quiet.at = "none"
  BY DEF Quiet, WriterRecord, Title
<1>10. writer' = [writer EXCEPT ![w] = Quiet]
  BY DEF Replace
<1>11. WriterTypes'
  BY <1>1, <1>9, <1>10, WriterSet DEF MetaInv, WriterTypes
<1>12. writer'[w].at = "none" /\ \A v \in Writer \ {w} : writer'[v] = writer[v]
  BY <1>9, <1>10 DEF MetaInv, WriterTypes
<1>13. Roles'
  BY <1>12 DEF MetaInv, Roles, Writer
<1>14. ASSUME ~overlapped'
       PROVE  (OneWriter /\ Carries /\ LoopsInMemory /\ LoopsOnDisk /\ TitleOnDisk)'
  <2>1. OneWriter /\ Carries /\ LoopsInMemory /\ LoopsOnDisk /\ TitleOnDisk
    BY <1>1, <1>14 DEF MetaInv, Settling
  <2>2. s = current
    BY <1>1, <2>1 DEF OneWriter, s
  <2>3. \A v \in Writer : writer'[v].at = "none" /\ (v # w => writer[v].at = "none")
    BY <1>1, <1>12, <2>1 DEF OneWriter
  <2>4. OneWriter' /\ Carries'
    BY <2>3 DEF OneWriter, Carries, Writer
  <2>5. meta'[current].loops = meta[current].loops
    BY <1>1, <1>4, <1>6, <1>7
  <2>6. LoopsInMemory'
    BY <1>1, <2>1, <2>3, <2>5 DEF LoopsInMemory, Writer
  <2>7. file'[current] = writer[w].text
    BY <1>2, <1>5, <2>2 DEF MetaInv, DataTypes
  <2>8. CASE w = "save"
    <3>1. writer[w].at = "replace" /\ meta' = meta /\ file'[current] = meta[current]
      BY <1>1, <1>4, <2>1, <2>7, <2>8 DEF Carries, Roles, MetaInv
    <3> QED
      BY <1>1, <2>4, <2>6, <3>1 DEF LoopsOnDisk, TitleOnDisk
  <2>9. CASE w # "save" /\ writer[w].at = "replace"
    <3>1. /\ file[current] # Absent /\ meta' = meta
          /\ file'[current] = [title |-> file[current].title, loops |-> meta[current].loops]
      BY <1>4, <2>1, <2>7, <2>9 DEF Carries, Writer
    <3> QED
      BY <1>1, <2>1, <2>4, <2>6, <3>1 DEF LoopsOnDisk, TitleOnDisk
  <2>10. CASE w # "save" /\ writer[w].at = "rename"
    <3>1. /\ file[current] # Absent /\ meta'[current] = m
          /\ file'[current] = [title |-> writer[w].title, loops |-> file[current].loops]
      BY <1>7, <2>1, <2>7, <2>10 DEF Carries, Writer
    <3>2. file[current].loops = meta[current].loops
      BY <2>1, <2>3, <2>10, <3>1 DEF LoopsOnDisk, Writer
    <3> QED
      BY <1>1, <1>6, <2>4, <2>6, <3>1, <3>2 DEF LoopsOnDisk, TitleOnDisk
  <2> QED
    BY <1>1, <2>8, <2>9, <2>10
<1> QED
  BY <1>8, <1>11, <1>13, <1>14 DEF MetaInv, Settling

\* The first title of a session.
LEMMA AutoTitleKeeps ==
  ASSUME MetaInv, AutoTitle
  PROVE  MetaInv'
<1> DEFINE m == [title |-> "auto", loops |-> meta[current].loops]
<1>1. /\ meta[current].title = "none"
      /\ UNCHANGED <<loops, current, file, writer, steps, adrift, overlapped>>
  BY DEF AutoTitle
<1>2. meta[current] \in KeptMeta /\ current \in Session
  BY DEF MetaInv, DataTypes
<1>3. m \in KeptMeta /\ m.title = "auto" /\ m.loops = meta[current].loops
  BY <1>2 DEF KeptMeta, Title
<1>4. meta' = [meta EXCEPT ![current] = m]
  BY <1>2, MetaWith DEF AutoTitle, MetaInv
<1> HIDE DEF m
<1>5. meta' \in [Session -> KeptMeta] /\ meta'[current] = m
  BY <1>3, <1>4, MetaSet DEF MetaInv
<1>6. DataTypes' /\ WriterTypes' /\ Roles'
  BY <1>1, <1>5 DEF MetaInv, DataTypes, WriterTypes, Roles, Busy
<1>7. ASSUME ~overlapped'
      PROVE  (OneWriter /\ Carries /\ LoopsInMemory /\ LoopsOnDisk /\ TitleOnDisk)'
  <2>1. OneWriter /\ Carries /\ LoopsInMemory /\ LoopsOnDisk /\ TitleOnDisk
    BY <1>1, <1>7 DEF MetaInv, Settling
  <2>2. OneWriter' /\ LoopsInMemory' /\ LoopsOnDisk'
    BY <1>1, <1>3, <1>5, <2>1 DEF OneWriter, LoopsInMemory, LoopsOnDisk
  <2>3. Carries'
    BY <1>1, <1>3, <1>5, <2>1 DEF Carries
  <2>4. TitleOnDisk'
    BY <1>1, <1>3, <1>5, <2>1 DEF TitleOnDisk, Manual
  <2> QED
    BY <2>2, <2>3, <2>4
<1> QED
  BY <1>6, <1>7 DEF MetaInv, Settling

\* A new session.
LEMMA ResetKeeps ==
  ASSUME MetaInv, ResetSession
  PROVE  MetaInv'
<1> DEFINE fresh == [title |-> "none", loops |-> {}]
<1>1. /\ current' = current + 1 /\ file[current + 1] = Absent
      /\ meta' = [meta EXCEPT ![current + 1] = fresh]
      /\ overlapped' = Overlaps /\ UNCHANGED <<loops, file, writer, steps>>
  BY DEF ResetSession
<1>2. current + 1 \in Session
  BY DEF ResetSession, MetaInv, DataTypes, Session
<1>3. fresh \in KeptMeta /\ fresh.loops = {}
  BY NoneKept DEF KeptMeta, Title
<1> HIDE DEF fresh
<1>4. meta' \in [Session -> KeptMeta] /\ meta'[current'] = fresh
  BY <1>1, <1>2, <1>3 DEF MetaInv, DataTypes
<1>5. adrift' \in BOOLEAN /\ (adrift' <=> loops # {})
  BY DEF ResetSession
<1>6. DataTypes'
  BY <1>1, <1>2, <1>4, <1>5 DEF MetaInv, DataTypes
<1>7. WriterTypes' /\ Roles'
  BY <1>1 DEF MetaInv, WriterTypes, Roles, Busy, Overlaps
<1>8. ASSUME ~overlapped'
      PROVE  (OneWriter /\ Carries /\ LoopsInMemory /\ LoopsOnDisk /\ TitleOnDisk)'
  <2>1. \A v \in Writer : writer'[v].at = "none"
    BY <1>1, <1>8, BusyAt DEF MetaInv, Overlaps
  <2> QED
    BY <1>1, <1>3, <1>4, <1>5, <2>1
       DEF OneWriter, Carries, LoopsInMemory, LoopsOnDisk, TitleOnDisk, Writer
<1> QED
  BY <1>6, <1>7, <1>8 DEF MetaInv, Settling

\* Another session becomes the current one ...
LEMMA ResumeKeeps ==
  ASSUME MetaInv, NEW s \in Session, Resume(s)
  PROVE  MetaInv'
<1> DEFINE r == [Quiet EXCEPT !.at = "resume", !.session = s]
<1>1. /\ file[s] # Absent /\ meta' = [meta EXCEPT ![s] = file[s]] /\ current' = s
      /\ writer' = [writer EXCEPT !["command"] = r]
      /\ overlapped' = Overlaps /\ UNCHANGED <<loops, file, steps>>
  BY DEF Resume
<1>2. adrift' \in BOOLEAN /\ adrift'
  BY DEF Resume
<1>3. r \in WriterRecord /\ r.at = "resume" /\ r.session = s
  BY DEF Quiet, WriterRecord, Title, Await
<1> HIDE DEF r
<1>4. file[s] \in KeptMeta
  BY <1>1 DEF MetaInv, DataTypes
<1>5. meta' \in [Session -> KeptMeta] /\ meta'[current'] = file[s]
  BY <1>1, <1>4 DEF MetaInv, DataTypes
<1>6. DataTypes'
  BY <1>1, <1>2, <1>5 DEF MetaInv, DataTypes
<1>7. overlapped' \in BOOLEAN /\ steps' \in 0..MaxSteps
  BY <1>1 DEF MetaInv, WriterTypes, Overlaps
<1>8. WriterTypes'
  BY <1>1, <1>3, <1>7, WriterSet DEF MetaInv, Writer
<1>9. writer'["command"] = r /\ \A v \in Writer \ {"command"} : writer'[v] = writer[v]
  BY <1>1 DEF MetaInv, WriterTypes, Writer
<1>10. Roles'
  BY <1>3, <1>9 DEF MetaInv, Roles, Writer
<1>11. ASSUME ~overlapped'
       PROVE  (OneWriter /\ Carries /\ LoopsInMemory /\ LoopsOnDisk /\ TitleOnDisk)'
  <2>1. \A v \in Writer \ {"command"} : writer'[v].at = "none"
    BY <1>1, <1>9, <1>11, BusyAt DEF MetaInv, Overlaps
  <2>2. OneWriter'
    BY <1>1, <1>3, <1>9, <2>1 DEF OneWriter
  <2>3. Carries'
    BY <1>1, <1>3, <1>9, <2>1 DEF Carries, Writer
  <2>4. LoopsInMemory' /\ LoopsOnDisk' /\ TitleOnDisk'
    BY <1>1, <1>2, <1>5 DEF LoopsInMemory, LoopsOnDisk, TitleOnDisk
  <2> QED
    BY <2>2, <2>3, <2>4
<1> QED
  BY <1>6, <1>8, <1>10, <1>11 DEF MetaInv, Settling

\* ... and the manager gets its loops.
LEMMA RestoreKeeps ==
  ASSUME MetaInv, Restore
  PROVE  MetaInv'
<1>1. /\ writer["command"].at = "resume" /\ loops' = meta[current].loops
      /\ writer' = [writer EXCEPT !["command"] = Quiet]
      /\ UNCHANGED <<meta, current, file, steps, overlapped>>
  BY DEF Restore
<1>2. adrift' \in BOOLEAN /\ ~adrift'
  BY DEF Restore
<1>3. Quiet \in WriterRecord /\ Quiet.at = "none"
  BY DEF Quiet, WriterRecord, Title
<1>4. DataTypes'
  <2>1. meta[current].loops \in Kept
    BY DEF MetaInv, DataTypes, KeptMeta
  <2> QED
    BY <1>1, <1>2, <2>1 DEF MetaInv, DataTypes
<1>5. WriterTypes'
  <2>1. steps' \in 0..MaxSteps /\ overlapped' \in BOOLEAN
    BY <1>1 DEF MetaInv, WriterTypes
  <2> QED
    BY <1>1, <1>3, <2>1, WriterSet DEF MetaInv, Writer
<1>6. writer'["command"].at = "none" /\ \A v \in Writer \ {"command"} : writer'[v] = writer[v]
  BY <1>1, <1>3 DEF MetaInv, WriterTypes, Writer
<1>7. Roles'
  BY <1>6 DEF MetaInv, Roles, Writer
<1>8. ASSUME ~overlapped'
      PROVE  (OneWriter /\ Carries /\ LoopsInMemory /\ LoopsOnDisk /\ TitleOnDisk)'
  <2>1. OneWriter /\ Carries /\ LoopsInMemory /\ LoopsOnDisk /\ TitleOnDisk
    BY <1>1, <1>8 DEF MetaInv, Settling
  <2>2. \A v \in Writer : writer'[v].at = "none" /\ (v # "command" => writer[v].at = "none")
    BY <1>1, <1>6, <2>1 DEF OneWriter, Writer
  <2>3. OneWriter' /\ Carries'
    BY <2>2 DEF OneWriter, Carries, Writer
  <2>4. LoopsInMemory' /\ LoopsOnDisk' /\ TitleOnDisk'
    BY <1>1, <1>2, <2>1, <2>2 DEF LoopsInMemory, LoopsOnDisk, TitleOnDisk, Writer
  <2> QED
    BY <2>3, <2>4
<1> QED
  BY <1>4, <1>5, <1>7, <1>8 DEF MetaInv, Settling

\* The program starts anew.
LEMMA RestartKeeps ==
  ASSUME MetaInv, Restart
  PROVE  MetaInv'
<1>1. /\ file[current] # Absent /\ meta' = [meta EXCEPT ![current] = file[current]]
      /\ loops' = file[current].loops /\ writer' = [w \in Writer |-> Quiet]
      /\ UNCHANGED <<current, file, overlapped>>
  BY DEF Restart
<1>2. adrift' \in BOOLEAN /\ ~adrift'
  BY DEF Restart
<1>3. steps' \in 0..MaxSteps
  BY DEF Restart, MetaInv, WriterTypes
<1>4. Quiet \in WriterRecord /\ Quiet.at = "none"
  BY DEF Quiet, WriterRecord, Title
<1>5. file[current] \in KeptMeta /\ file[current].loops \in Kept
  BY <1>1 DEF MetaInv, DataTypes, KeptMeta
<1>6. meta' \in [Session -> KeptMeta] /\ meta'[current] = file[current]
  BY <1>1, <1>5, MetaSet DEF MetaInv
<1>7. DataTypes'
  BY <1>1, <1>2, <1>5, <1>6 DEF MetaInv, DataTypes
<1>8. \A w \in Writer : writer'[w] = Quiet
  BY <1>1
<1>9. WriterTypes'
  <2>1. writer' \in [Writer -> WriterRecord]
    BY <1>1, <1>4
  <2> QED
    BY <1>1, <1>3, <1>4, <1>8, <2>1 DEF MetaInv, WriterTypes, WriterRecord, Busy
<1>10. Roles'
  BY <1>4, <1>8 DEF Roles, Writer
<1>11. ASSUME ~overlapped'
       PROVE  (OneWriter /\ Carries /\ LoopsInMemory /\ LoopsOnDisk /\ TitleOnDisk)'
  <2>1. \A w \in Writer : writer'[w].at = "none"
    BY <1>4, <1>8
  <2> QED
    BY <1>1, <1>2, <1>6, <2>1
       DEF OneWriter, Carries, LoopsInMemory, LoopsOnDisk, TitleOnDisk, Writer
<1> QED
  BY <1>7, <1>9, <1>10, <1>11 DEF MetaInv, Settling

\* No step breaks the invariant.
LEMMA MetaStepKeeps == MetaInv /\ MetaNext => MetaInv'
<1> SUFFICES ASSUME MetaInv, MetaNext PROVE MetaInv'
  OBVIOUS
<1>1. CASE StartSave \/ DumpMetadata \/ AutoTitle
  BY <1>1, StartSaveKeeps, DumpKeeps, AutoTitleKeeps
<1>2. CASE \/ PopDue \/ \E l \in ScheduledLoop : AddLoop(l)
           \/ \E gone \in SUBSET ScheduledLoop : CancelLoops(gone)
  BY <1>2, LoopCommandsKeep
<1>3. ASSUME NEW t \in Title, Rename(t) PROVE MetaInv'
  BY <1>3, RenameKeeps
<1>4. ASSUME NEW w \in Writer, ReadForLoops(w) \/ Replace(w) PROVE MetaInv'
  BY <1>4, ReadKeeps, ReplaceKeeps
<1>5. CASE ResetSession \/ Restore \/ Restart
  BY <1>5, ResetKeeps, RestoreKeeps, RestartKeeps
<1>6. ASSUME NEW s \in Session, Resume(s) PROVE MetaInv'
  BY <1>6, ResumeKeeps
<1> QED
  BY <1>1, <1>2, <1>3, <1>4, <1>5, <1>6 DEF MetaNext

\* So it holds throughout.
LEMMA MetaInvariant == MetadataSpec => []MetaInv
<1>1. MetaInv /\ UNCHANGED metaVars => MetaInv'
  BY DEF MetaInv, DataTypes, WriterTypes, Roles, Busy, Settling, OneWriter, Carries,
     LoopsInMemory, LoopsOnDisk, TitleOnDisk, metaVars
<1> QED
  BY MetaInitInv, MetaStepKeeps, <1>1, PTL DEF MetadataSpec

\* Titles, loops and writers have their types, and there are never more loops than allowed.
THEOREM MetadataTypes == MetadataSpec => []MetaTypeOK
<1>1. MetaInv => MetaTypeOK
  <2> SUFFICES ASSUME MetaInv PROVE MetaTypeOK
    OBVIOUS
  <2>1. KeptMeta \subseteq Meta
    BY DEF KeptMeta, Meta, Kept
  <2>2. loops \in SUBSET ScheduledLoop /\ Cardinality(loops) <= MaxLoops
    BY DEF MetaInv, DataTypes, Kept
  <2>3. /\ meta \in [Session -> Meta] /\ current \in Session
        /\ file \in [Session -> Meta \cup {Absent}]
    BY <2>1 DEF MetaInv, DataTypes
  <2>4. writer \in [Writer -> [at : Await \cup {"none"}, session : Session \cup {0},
                               text : Meta \cup {Absent}, title : Title]]
    BY <2>1 DEF MetaInv, WriterTypes
  <2>5. steps \in 0..MaxSteps /\ {adrift, overlapped} \subseteq BOOLEAN
    BY DEF MetaInv, WriterTypes, DataTypes
  <2> QED
    BY <2>2, <2>3, <2>4, <2>5 DEF MetaTypeOK, Await
<1> QED
  BY <1>1, MetaInvariant, PTL

\* A restart finds the loops and the title the user set, as long as the writers came one
\* after the other, whatever their order and whatever sessions there were in between.
THEOREM RestartFindsAll == MetadataSpec => []MetadataSettles
<1>1. MetaInv => MetadataSettles
  <2> SUFFICES ASSUME MetaInv, ~overlapped, ~adrift, \A w \in Writer : ~Busy(w),
                      file[current] # Absent
               PROVE  /\ file[current].loops = loops /\ meta[current].loops = loops
                      /\ Manual(meta[current].title) \/ Manual(file[current].title)
                           => file[current].title = meta[current].title
    BY DEF MetadataSettles
  <2>1. \A w \in Writer : writer[w].at = "none"
    BY BusyAt DEF MetaInv
  <2> QED
    BY <2>1 DEF MetaInv, Settling, LoopsInMemory, LoopsOnDisk, TitleOnDisk, Writer
<1> QED
  BY <1>1, MetaInvariant, PTL

-----------------------------------------------------------------------------
(* The reader of the events *)

\* The connection carries the events from the cursor up to the service's position,
\* and nothing is on its way without one.
FlightOK ==
  /\ flight \in Seq(Nat)
  /\ reader # "reading" => flight = <<>>
  /\ reader = "reading" => /\ position = cursor + Len(flight)
                           /\ position <= log
  /\ \A i \in 1..Len(flight) : flight[i] = cursor + i - 1

\* The inductive invariant: the cursor counts what was consumed.
StreamInv ==
  /\ log \in Nat /\ position \in Nat /\ cursor \in Nat
  /\ cursor <= log
  /\ seen \in Seq(Nat) /\ Len(seen) = cursor
  /\ FlightOK

-----------------------------------------------------------------------------
\* A reader that has not connected yet has nothing in flight.
LEMMA StreamStarts == StreamInit => StreamInv
  BY DEF StreamInit, StreamInv, FlightOK

\* What the service sends extends the flight by the event at its position.
LEMMA SendKeeps == StreamInv /\ Send => StreamInv'
<1> SUFFICES ASSUME StreamInv, Send PROVE StreamInv'
  OBVIOUS
<1>1. /\ flight' \in Seq(Nat) /\ Len(flight') = Len(flight) + 1
      /\ \A i \in 1..Len(flight) : flight'[i] = flight[i]
      /\ flight'[Len(flight) + 1] = position
  BY DEF StreamInv, FlightOK, Send
<1>2. \A i \in 1..Len(flight') : flight'[i] = cursor' + i - 1
  <2> TAKE i \in 1..Len(flight')
  <2>1. CASE i = Len(flight) + 1
    BY <1>1, <2>1 DEF StreamInv, FlightOK, Send
  <2>2. CASE i \in 1..Len(flight)
    BY <1>1, <2>2 DEF StreamInv, FlightOK, Send
  <2> QED
    BY <1>1, <2>1, <2>2 DEF StreamInv, FlightOK
<1> QED
  BY <1>1, <1>2 DEF StreamInv, FlightOK, Send

\* The event that is read is the one at the cursor.
LEMMA HeadIsCursor ==
  ASSUME StreamInv, Read
  PROVE  Head(flight) = cursor /\ cursor < log /\ Len(flight) \in Nat \ {0}
<1>1. flight \in Seq(Nat) /\ flight # <<>> /\ Len(flight) \in Nat \ {0}
  BY DEF StreamInv, FlightOK, Read
<1>2. Head(flight) = flight[1] /\ 1 \in 1..Len(flight)
  BY <1>1
<1> QED
  BY <1>1, <1>2 DEF StreamInv, FlightOK, Read

\* Reading an event, counted or skipped, keeps cursor and flight together.
LEMMA ReaderKeeps == StreamInv /\ Read => StreamInv'
<1> SUFFICES ASSUME StreamInv, Read PROVE StreamInv'
  OBVIOUS
<1>1. Head(flight) = cursor /\ cursor < log /\ Len(flight) \in Nat \ {0}
  BY HeadIsCursor
<1>2. cursor' = cursor + 1 /\ seen' = Append(seen, cursor) /\ flight' = Tail(flight)
  BY <1>1 DEF Read, CursorAfter
<1>3. /\ flight' \in Seq(Nat) /\ Len(flight') = Len(flight) - 1
      /\ \A i \in 1..Len(flight') : flight'[i] = flight[i + 1]
  BY <1>1, <1>2 DEF StreamInv, FlightOK
<1>4. \A i \in 1..Len(flight') : flight'[i] = cursor' + i - 1
  BY <1>1, <1>2, <1>3 DEF StreamInv, FlightOK
<1>5. seen' \in Seq(Nat) /\ Len(seen') = cursor'
  BY <1>2 DEF StreamInv
<1>6. CASE reader' = "reading"
  BY <1>1, <1>2, <1>3, <1>4, <1>5, <1>6 DEF StreamInv, FlightOK, Read
<1>7. CASE reader' # "reading"
  \* The last event of the workflow is the last recorded one: nothing is behind it.
  <2>1. cursor = log - 1
    BY <1>1, <1>7 DEF Read
  <2>2. cursor + Len(flight) <= log /\ log \in Nat /\ cursor \in Nat
    BY DEF StreamInv, FlightOK, Read
  <2>3. Len(flight) = 1
    <3>1. \A n \in Nat \ {0} : cursor + n <= log => n = 1
      BY <2>1, <2>2
    <3> QED
      BY <1>1, <2>2, <3>1
  <2>4. flight' = <<>>
    BY <1>3, <2>3
  <2> QED
    BY <1>1, <1>2, <1>3, <1>4, <1>5, <1>7, <2>4 DEF StreamInv, FlightOK, Read
<1> QED
  BY <1>6, <1>7

\* Every step of the reader and of its connections keeps the invariant.
LEMMA StreamKeeps == StreamInv /\ [StreamNext]_streamVars => StreamInv'
<1> SUFFICES ASSUME StreamInv, [StreamNext]_streamVars PROVE StreamInv'
  OBVIOUS
<1>1. CASE Record
  BY <1>1 DEF StreamInv, FlightOK, Record
<1>2. CASE Send
  BY <1>2, SendKeeps
<1>3. CASE Connect
  BY <1>3 DEF StreamInv, FlightOK, Connect
<1>4. CASE Read
  BY <1>4, ReaderKeeps
<1>5. CASE ReadUnnumbered
  BY <1>5 DEF StreamInv, FlightOK, ReadUnnumbered
<1>6. CASE Disconnect
  BY <1>6 DEF StreamInv, FlightOK, Disconnect
<1>7. CASE Stop
  BY <1>7 DEF StreamInv, FlightOK, Stop
<1>8. CASE UNCHANGED streamVars
  BY <1>8 DEF StreamInv, FlightOK, streamVars
<1> QED
  BY <1>1, <1>2, <1>3, <1>4, <1>5, <1>6, <1>7, <1>8 DEF StreamNext

\* Every step of the reader and of the service is a step of the feed or none.
LEMMA StepFeeds == StreamInv /\ [StreamNext]_streamVars => [Feed!Next]_(Feed!feedVars)
<1> SUFFICES ASSUME StreamInv, [StreamNext]_streamVars PROVE [Feed!Next]_(Feed!feedVars)
  OBVIOUS
<1> USE DEF Feed!Next, Feed!feedVars
<1>1. CASE Record
  BY <1>1 DEF Record, Feed!Record
<1>2. CASE Read
  <2>1. Head(flight) = cursor /\ cursor < log
    BY <1>2, HeadIsCursor
  <2> QED
    BY <1>2, <2>1 DEF Read, Feed!Take, StreamInv
<1>3. CASE Send \/ Connect \/ ReadUnnumbered \/ Disconnect \/ Stop \/ UNCHANGED streamVars
  BY <1>3 DEF Send, Connect, ReadUnnumbered, Disconnect, Stop, streamVars
<1> QED
  BY <1>1, <1>2, <1>3 DEF StreamNext

-----------------------------------------------------------------------------
\* RemoteEventsSource._stream_remote_events gives the translator every recorded
\* event once and in order, through any disconnects and retries.
THEOREM StreamImplementsFeed == StreamSpec => ReadsTheFeed
<1>1. StreamInit => Feed!Init
  BY DEF StreamInit, Feed!Init
<1> QED
  BY <1>1, StreamStarts, StreamKeeps, StepFeeds, PTL DEF StreamSpec, ReadsTheFeed, Feed!Spec

-----------------------------------------------------------------------------
(* Short sequences *)

\* Two sequences one behind the other.
LEMMA Concatenation ==
  ASSUME NEW M, NEW s \in Seq(M), NEW t \in Seq(M)
  PROVE  /\ s \o t \in Seq(M) /\ Len(s \o t) = Len(s) + Len(t)
         /\ \A k \in 1..Len(s) : (s \o t)[k] = s[k]
         /\ \A k \in 1..Len(t) : (s \o t)[Len(s) + k] = t[k]
  OBVIOUS

\* Sequences of at most two elements.
LEMMA Short ==
  ASSUME NEW a, NEW b
  PROVE  /\ <<>> \o <<>> = <<>> /\ <<a>> \o <<>> = <<a>> /\ <<>> \o <<a>> = <<a>>
         /\ <<a>> \o <<b>> = <<a, b>>
         /\ <<a>> # <<>> /\ Head(<<a>>) = a /\ Tail(<<a>>) = <<>>
         /\ <<a, b>> # <<>> /\ Head(<<a, b>>) = a /\ Tail(<<a, b>>) = <<b>>
<1>1. <<>> \o <<>> = <<>>
  OBVIOUS
<1>2. <<a>> \o <<>> = <<a>>
  OBVIOUS
<1>3. <<>> \o <<a>> = <<a>>
  OBVIOUS
<1>4. <<a>> \o <<b>> = <<a, b>>
  <2> DEFINE s == <<a>>
             t == <<b>>
             st == <<a, b>>
             M == {a, b}
  <2>1. s \in Seq(M) /\ t \in Seq(M) /\ st \in Seq(M)
    OBVIOUS
  <2>2. /\ Len(s) = 1 /\ Len(t) = 1 /\ Len(st) = 2
        /\ s[1] = a /\ t[1] = b /\ st[1] = a /\ st[2] = b
    OBVIOUS
  <2> HIDE DEF s, t, st, M
  <2>3. s \o t \in Seq(M) /\ Len(s \o t) = 2 /\ (s \o t)[1] = a /\ (s \o t)[2] = b
    <3>1. /\ s \o t \in Seq(M) /\ Len(s \o t) = Len(s) + Len(t)
          /\ \A k \in 1..Len(s) : (s \o t)[k] = s[k]
          /\ \A k \in 1..Len(t) : (s \o t)[Len(s) + k] = t[k]
      BY <2>1, Concatenation
    <3>2. 1 \in 1..Len(s) /\ 1 \in 1..Len(t) /\ Len(s) + 1 = 2
      BY <2>2
    <3> QED
      BY <2>2, <3>1, <3>2
  <2>4. s \o t = st
    <3>1. Len(s \o t) = Len(st) /\ \A i \in 1..Len(s \o t) : (s \o t)[i] = st[i]
      BY <2>2, <2>3
    <3> QED
      BY <2>1, <2>3, <3>1, SeqEqual
  <2> QED
    BY <2>4 DEF s, t, st
<1>5. <<a>> # <<>> /\ Head(<<a>>) = a
  OBVIOUS
<1>6. Tail(<<a>>) = <<>>
  OBVIOUS
<1>7. <<a, b>> # <<>> /\ Head(<<a, b>>) = a
  OBVIOUS
<1>8. Tail(<<a, b>>) = <<b>>
  OBVIOUS
<1> QED
  BY <1>1, <1>2, <1>3, <1>4, <1>5, <1>6, <1>7, <1>8

-----------------------------------------------------------------------------
(* A session: what its translator has told and its stream task has shown *)

CallEvent(r)   == [kind |-> "call", row |-> r]
ResultEvent(r) == [kind |-> "result", row |-> r]
UserEvent      == [kind |-> "user"]
WaitEvents     == [kind : {"waiting"}, task : Wait, choice : BOOLEAN]

\* What one event of the workflow is translated to, or the rest of it.
Nothing       == <<>>
Text          == <<UserEvent>>
Asked(e)      == <<e>>
Made(r)       == <<CallEvent(r)>>
RowEnded(r)   == <<ResultEvent(r)>>
MadeEnded(r)  == <<CallEvent(r), ResultEvent(r)>>
EndedText(r)  == <<ResultEvent(r), UserEvent>>

EmittedTogether ==
  \/ emitted \in {Nothing, Text}
  \/ \E e \in WaitEvents : emitted = Asked(e)
  \/ \E r \in Row : emitted \in {Made(r), RowEnded(r), MadeEnded(r), EndedText(r)}

In(e, s) == \E i \in 1..Len(s) : s[i] = e

\* The row of a call is what the translator has told of it, but for what is still to
\* be shown.
RowOf(r) ==
  IF r \notin called \/ In(CallEvent(r), emitted) THEN "none"
  ELSE IF r \notin resulted \/ In(ResultEvent(r), emitted) THEN "open" ELSE "closed"

RowsShown ==
  stream = "running" =>
    /\ EmittedTogether
    /\ \A r \in Row : row[r] = RowOf(r)
    /\ \A r \in Row : In(CallEvent(r), emitted) =>
         r \in called /\ (r \in resulted => In(ResultEvent(r), emitted))
    /\ \A r \in Row : In(ResultEvent(r), emitted) => r \in resulted

\* Afterwards rows stay as they are, ended if the stream came to its end.
RowsKept ==
  /\ \A r \in Row : row[r] # "wrong"
  /\ stream \in {"flushed", "ended"} => \A r \in Row : row[r] # "open"

\* A question and a task that has started belong to calls that have been told of.
CallsTold ==
  /\ pendingAsk # NoCall => pendingAsk \in called
  /\ \A c \in RemoteCall : toolTask[c] = "started" => <<c, "call">> \in called

\* Inputs follow one another, and an answer is on its way to some request.
WaitsInOrder ==
  /\ \A w \in Wait : input[w] # "none" => \A v \in Wait : v < w => input[v] = "over"
  /\ ~Idle => send.to \in Input

RemoteInv ==
  RemoteTypeOK /\ RowsShown /\ RowsKept /\ CallsTold /\ WaitsInOrder /\ AnswersReachTheQuestion

\* No request has the number 0, and the steer has one of its own.
LEMMA Requests == /\ Wait \in SUBSET Input /\ Wait \in SUBSET Nat
                  /\ Steer \in Input \ Wait /\ None \notin Input
BY RemoteBounds DEF Input, Wait, Steer, None

\* No call goes by the name NoCall.
LEMMA RowsAreCalls == NoCall \notin Row
BY DEF NoCall, Row

\* What there is in a short sequence.
LEMMA ShortIn ==
  ASSUME NEW a, NEW b, NEW e
  PROVE  /\ ~In(e, <<>>) /\ (In(e, <<a>>) <=> e = a) /\ (In(e, <<a, b>>) <=> e \in {a, b})
BY DEF In

\* Calls, results, texts and requests are told apart.
LEMMA EventsDiffer ==
  /\ \A r, q : CallEvent(r) = CallEvent(q) <=> r = q
  /\ \A r, q : ResultEvent(r) = ResultEvent(q) <=> r = q
  /\ \A r, q : CallEvent(r) # ResultEvent(q)
  /\ \A r : CallEvent(r) # UserEvent /\ ResultEvent(r) # UserEvent
  /\ \A r, e : e \in WaitEvents => e # CallEvent(r) /\ e # ResultEvent(r) /\ e # UserEvent
BY DEF CallEvent, ResultEvent, UserEvent, WaitEvents

\* The initial state has the invariant.
LEMMA RemoteStarts == RemoteInit => RemoteInv
<1> SUFFICES ASSUME RemoteInit PROVE RemoteInv
  OBVIOUS
<1>1. RemoteTypeOK
  BY DEF RemoteInit, RemoteTypeOK, NoSend, None, Input
<1>2. RowsShown
  BY ShortIn DEF RemoteInit, RowsShown, EmittedTogether, RowOf, Nothing
<1>3. RowsKept /\ CallsTold /\ WaitsInOrder /\ AnswersReachTheQuestion
  BY Requests DEF RemoteInit, RowsKept, CallsTold, WaitsInOrder, AnswersReachTheQuestion, Idle
<1> QED
  BY <1>1, <1>2, <1>3 DEF RemoteInv

-----------------------------------------------------------------------------
(* Types, calls and inputs *)

\* The steps of the translator, by what they do to calls, results and events.
Translates(r) ==
  /\ Consumes
  /\ \/ /\ r \in Row /\ called' = called \cup {r}
        /\ \/ resulted' = resulted /\ emitted' = CallEvents(r)
           \/ resulted' = resulted \cup {r} /\ emitted' = CallEvents(r) \o ResultEvents(r)
     \/ /\ r \in called /\ called' = called /\ resulted' = resulted \cup {r}
        /\ \E text \in {Nothing, Text} : emitted' = ResultEvents(r) \o text
     \/ /\ UNCHANGED <<called, resulted>>
        /\ emitted' \in {Nothing, Text} \/ \E e \in WaitEvents : emitted' = Asked(e)

\* The steps of the workflow that its translator is told of.
Told ==
  \/ \E c \in RemoteCall :
        \/ \E s \in {"started", "over"} : ToolTask(c, s)
        \/ \E s \in {"started", "over"}, id \in {"call", "working"} : WorkingTask(c, s, id)
        \/ ToolTaskFails(c) \/ WorkingTaskFails(c)
  \/ \E w \in Wait :
        \/ \E choice \in BOOLEAN : WaitStarts(w, choice)
        \/ \E told \in BOOLEAN : WaitUnread(w, told)
        \/ \E how \in Ends : WaitEnds(w, how)
  \/ \E valid \in BOOLEAN : SteerStarts(valid)
  \/ \E how \in Ends : SteerEnds(how)
  \/ WorkflowEnds

\* A session's steps are those, what the stream task shows, and what the user does.
LEMMA RemoteSteps ==
  ASSUME RemoteNext
  PROVE  \/ Told \/ Show \/ Flush \/ Fail \/ Finalize
         \/ Message \/ AnswerQuestion \/ Dismiss \/ Accepted \/ Rejected
BY DEF RemoteNext, Told

\* Whatever happens in the workflow, the translator does one of these things.
LEMMA ToldTranslates ==
  ASSUME RemoteTypeOK, CallsTold, Told
  PROVE  \E r : Translates(r)
<1>1. ASSUME NEW c \in RemoteCall, NEW s \in {"started", "over"}, ToolTask(c, s)
      PROVE  Translates(<<c, "call">>)
  BY <1>1 DEF ToolTask, EmitCall, EmitResult, Translates, Row, Nothing, Text, Asked
<1>2. ASSUME NEW c \in RemoteCall, NEW s \in {"started", "over"}, NEW id \in {"call", "working"},
             WorkingTask(c, s, id)
      PROVE  Translates(<<c, id>>)
  <2>1. <<c, id>> \in Row /\ Consumes
    BY <1>2 DEF WorkingTask, Row
  <2>2. CASE workTask[c] = "none" /\ s = "started" /\ id = "working"
    BY <1>2, <2>2 DEF WorkingTask, Translates, Consumes, Nothing, Text, Asked
  <2>3. CASE ~(workTask[c] = "none" /\ s = "started" /\ id = "working")
    BY <1>2, <2>1, <2>3 DEF WorkingTask, EmitCall, EmitResult, Translates, Nothing, Text, Asked
  <2> QED
    BY <2>2, <2>3
<1>3. ASSUME NEW c \in RemoteCall, ToolTaskFails(c)
      PROVE  Translates(<<c, "call">>)
  <2>1. CASE toolTask[c] = "started"
    <3>1. <<c, "call">> \in called
      BY <2>1 DEF CallsTold
    <3>2. ResultEvents(<<c, "call">>) = ResultEvents(<<c, "call">>) \o <<>>
      BY Short DEF ResultEvents
    <3> QED
      BY <1>3, <2>1, <3>1, <3>2 DEF ToolTaskFails, EmitResult, Translates, Nothing, Text, Asked
  <2>2. CASE toolTask[c] # "started"
    BY <1>3, <2>2 DEF ToolTaskFails, Translates, Consumes, Nothing, Text, Asked
  <2> QED
    BY <2>1, <2>2
<1>4. ASSUME NEW c \in RemoteCall, WorkingTaskFails(c)
      PROVE  Translates(NoCall)
  BY <1>4 DEF WorkingTaskFails, Translates, Consumes, translatorVars, Nothing, Text, Asked
<1>5. ASSUME NEW w \in Wait, NEW choice \in BOOLEAN, WaitStarts(w, choice)
      PROVE  Translates(NoCall)
  BY <1>5 DEF WaitStarts, Translates, WaitEvents, Nothing, Text, Asked
<1>10. ASSUME NEW w \in Wait, NEW told \in BOOLEAN, WaitUnread(w, told)
      PROVE  Translates(NoCall)
  BY <1>10 DEF WaitUnread, Translates, WaitEvents, Nothing, Text, Asked
<1>6. ASSUME NEW w \in Wait, NEW how \in Ends, WaitEnds(w, how)
      PROVE  Translates(pendingAsk)
  <2>1. CASE pendingAsk # NoCall /\ how # "nothing"
    BY <1>6, <2>1 DEF WaitEnds, EmitResult, Translates, CallsTold, UserEvent, Nothing, Text, Asked
  <2>2. CASE ~(pendingAsk # NoCall /\ how # "nothing")
    BY <1>6, <2>2 DEF WaitEnds, Translates, UserEvent, Nothing, Text, Asked
  <2> QED
    BY <2>1, <2>2
<1>7. ASSUME NEW valid \in BOOLEAN, SteerStarts(valid)
      PROVE  Translates(NoCall)
  BY <1>7 DEF SteerStarts, Translates, Consumes, Nothing, Text, Asked
<1>8. ASSUME NEW how \in Ends, SteerEnds(how)
      PROVE  Translates(NoCall)
  BY <1>8 DEF SteerEnds, Translates, UserEvent, Nothing, Text, Asked
<1>9. ASSUME WorkflowEnds
      PROVE  Translates(NoCall)
  BY <1>9 DEF WorkflowEnds, Translates, Consumes, Nothing, Text, Asked
<1> QED
  BY <1>1, <1>2, <1>3, <1>4, <1>5, <1>6, <1>7, <1>8, <1>9, <1>10 DEF Told

\* The workflow's steps keep the types of its tasks and of what was told of them.
LEMMA ToldTyped ==
  ASSUME RemoteTypeOK, CallsTold, Told
  PROVE  RemoteTypeOK'
<1>1. PICK r : Translates(r)
  BY ToldTranslates
<1>2. called' \in SUBSET Row /\ resulted' \in SUBSET called'
  BY <1>1 DEF Translates, RemoteTypeOK
<1>3. UNCHANGED <<asking, stream, row, waiting, bottom, send, answered, forgotten>>
  BY <1>1 DEF Translates, Consumes
<1> DEFINE Tasks == /\ {toolTask', workTask'} \subseteq [RemoteCall -> {"none", "started", "over"}]
                    /\ input' \in [Input -> {"none", "open", "unread", "over"}]
                    /\ badSteer' \in BOOLEAN /\ pending' \in Input \cup {None}
                    /\ pendingAsk' \in Row \cup {NoCall} /\ status' \in {"running", "over"}
<1>4. ASSUME NEW c \in RemoteCall, NEW s \in {"started", "over"},
             \/ ToolTask(c, s) \/ \E id \in {"call", "working"} : WorkingTask(c, s, id)
             \/ ToolTaskFails(c) \/ WorkingTaskFails(c)
      PROVE  Tasks
  BY <1>4 DEF ToolTask, ToolTaskFails, WorkingTask, WorkingTaskFails, EmitCall, RemoteTypeOK,
    translatorVars, Row
<1>5. ASSUME NEW w \in Wait, \/ \E choice \in BOOLEAN : WaitStarts(w, choice)
                            \/ \E told \in BOOLEAN : WaitUnread(w, told)
                            \/ \E how \in Ends : WaitEnds(w, how)
      PROVE  Tasks
  BY <1>5, Requests DEF WaitStarts, WaitUnread, WaitEnds, RemoteTypeOK
<1>6. ASSUME \/ \E valid \in BOOLEAN : SteerStarts(valid)
             \/ \E how \in Ends : SteerEnds(how)
             \/ WorkflowEnds
      PROVE  Tasks
  <2>1. ASSUME NEW valid \in BOOLEAN, SteerStarts(valid) PROVE Tasks
    BY <2>1, Requests DEF SteerStarts, RemoteTypeOK
  <2>2. ASSUME NEW how \in Ends, SteerEnds(how) PROVE Tasks
    BY <2>2, Requests DEF SteerEnds, RemoteTypeOK
  <2>3. ASSUME WorkflowEnds PROVE Tasks
    BY <2>3 DEF WorkflowEnds, RemoteTypeOK, workflowVars
  <2> QED
    BY <1>6, <2>1, <2>2, <2>3
<1> HIDE DEF Tasks
<1>7. Tasks
  BY <1>4, <1>5, <1>6 DEF Told
<1> QED
  BY <1>2, <1>3, <1>7 DEF RemoteTypeOK, Tasks

\* So do the steps of the stream task and of the user.
LEMMA ScreenTyped ==
  ASSUME RemoteTypeOK, RowsShown, WaitsInOrder,
         \/ Show \/ Flush \/ Fail \/ Finalize
         \/ Message \/ AnswerQuestion \/ Dismiss \/ Accepted \/ Rejected
  PROVE  RemoteTypeOK'
<1>1. ASSUME Show PROVE RemoteTypeOK'
  <2>1. row' \in [Row -> {"none", "open", "closed", "wrong"}]
    BY <1>1 DEF Show, RowShown, RemoteTypeOK
  <2>2. waiting' \in Input \cup {None}
    <3>1. CASE \E e \in WaitEvents : emitted = Asked(e)
      <4>1. PICK e \in WaitEvents : Head(emitted) = e
        BY <3>1, Short DEF Asked
      <4>2. e.task \in Wait
        BY DEF WaitEvents
      <4> QED
        BY <1>1, <4>1, <4>2, Requests DEF Show, RemoteTypeOK
    <3>2. CASE ~\E e \in WaitEvents : emitted = Asked(e)
      <4>1. PICK e : Head(emitted) = e /\ e \in {UserEvent} \cup {CallEvent(r) : r \in Row}
                                                    \cup {ResultEvent(r) : r \in Row}
        BY <1>1, <3>2, Short DEF Show, RowsShown, EmittedTogether, Nothing, Text, Made, RowEnded,
          MadeEnded, EndedText
      <4>2. Head(emitted).kind # "waiting"
        BY <4>1 DEF CallEvent, ResultEvent, UserEvent
      <4> QED
        BY <1>1, <4>2 DEF Show, RemoteTypeOK
    <3> QED
      BY <3>1, <3>2
  <2> QED
    BY <1>1, <2>1, <2>2 DEF Show, RemoteTypeOK, workflowVars, translatorVars
<1>2. ASSUME Flush \/ Fail \/ Finalize PROVE RemoteTypeOK'
  BY <1>2 DEF Flush, Fail, Finalize, RemoteTypeOK, workflowVars, translatorVars
<1>3. ASSUME Message \/ AnswerQuestion \/ Dismiss PROVE RemoteTypeOK'
  BY <1>3 DEF Message, AnswerQuestion, Dismiss, Post, RemoteTypeOK, workflowVars, translatorVars,
    None
<1>4. ASSUME Accepted \/ Rejected PROVE RemoteTypeOK'
  <2>1. send.to \in Input /\ send.saved \in Input \cup {None}
    BY <1>4 DEF Accepted, Rejected, WaitsInOrder, RemoteTypeOK
  <2>2. send' \in [to : Input \cup {None}, saved : Input \cup {None}, from : {"input", "question"}]
    BY <1>4 DEF Accepted, Rejected, NoSend
  <2>3. answered' \in SUBSET Input /\ forgotten' \in SUBSET Input
    BY <1>4, <2>1 DEF Accepted, Rejected, RemoteTypeOK, workflowVars, translatorVars
  <2> QED
    BY <1>4, <2>1, <2>2, <2>3 DEF Accepted, Rejected, RemoteTypeOK, workflowVars, translatorVars
<1> QED
  BY <1>1, <1>2, <1>3, <1>4

\* A call that has a task at work, or a question, has been told of.
LEMMA StepCalls ==
  ASSUME RemoteTypeOK, CallsTold, RemoteNext
  PROVE  CallsTold'
<1> USE RowsAreCalls
<1>1. ASSUME NEW c \in RemoteCall, NEW s \in {"started", "over"}, ToolTask(c, s) PROVE CallsTold'
  BY <1>1 DEF ToolTask, EmitCall, CallsTold, RemoteTypeOK
<1>2. ASSUME NEW c \in RemoteCall, NEW s \in {"started", "over"}, NEW id \in {"call", "working"},
             WorkingTask(c, s, id)
      PROVE  CallsTold'
  BY <1>2 DEF WorkingTask, EmitCall, CallsTold
<1>3. ASSUME NEW c \in RemoteCall, ToolTaskFails(c) \/ WorkingTaskFails(c) PROVE CallsTold'
  BY <1>3 DEF ToolTaskFails, WorkingTaskFails, CallsTold, RemoteTypeOK, translatorVars
<1>4. ASSUME NEW w \in Wait, \/ \E choice \in BOOLEAN : WaitStarts(w, choice)
                             \/ \E told \in BOOLEAN : WaitUnread(w, told)
                             \/ \E how \in Ends : WaitEnds(w, how)
      PROVE  CallsTold'
  BY <1>4 DEF WaitStarts, WaitUnread, WaitEnds, CallsTold
<1>5. ASSUME \/ \E valid \in BOOLEAN : SteerStarts(valid)
             \/ \E how \in Ends : SteerEnds(how)
             \/ WorkflowEnds
      PROVE  CallsTold'
  BY <1>5 DEF SteerStarts, SteerEnds, WorkflowEnds, CallsTold, workflowVars
<1>6. ASSUME Show \/ Flush \/ Fail \/ Finalize \/ Message \/ AnswerQuestion \/ Dismiss \/ Accepted
             \/ Rejected
      PROVE  CallsTold'
  BY <1>6 DEF Show, Flush, Fail, Finalize, Message, AnswerQuestion, Dismiss, Accepted, Rejected,
    CallsTold, workflowVars, translatorVars
<1> QED
  BY <1>1, <1>2, <1>3, <1>4, <1>5, <1>6, RemoteSteps DEF Told

\* Inputs stay in order, and what may be answered is what the workflow waits for.
LEMMA StepInputs ==
  ASSUME RemoteTypeOK, WaitsInOrder, AnswersReachTheQuestion, RemoteNext
  PROVE  WaitsInOrder' /\ AnswersReachTheQuestion'
<1> USE Requests
<1>1. ASSUME UNCHANGED <<input, pending, status, send, answered, forgotten>>
      PROVE  WaitsInOrder' /\ AnswersReachTheQuestion'
  BY <1>1 DEF WaitsInOrder, AnswersReachTheQuestion, Idle
<1>2. ASSUME NEW c \in RemoteCall,
             \/ \E s \in {"started", "over"} : ToolTask(c, s)
             \/ \E s \in {"started", "over"}, id \in {"call", "working"} : WorkingTask(c, s, id)
             \/ ToolTaskFails(c) \/ WorkingTaskFails(c)
      PROVE  WaitsInOrder' /\ AnswersReachTheQuestion'
  BY <1>1, <1>2 DEF ToolTask, WorkingTask, ToolTaskFails, WorkingTaskFails, Consumes, translatorVars
<1>3. ASSUME NEW w \in Wait, NEW choice \in BOOLEAN, WaitStarts(w, choice)
      PROVE  WaitsInOrder' /\ AnswersReachTheQuestion'
  <2>1. WaitsInOrder'
    BY <1>3 DEF WaitStarts, MayStart, Consumes, WaitsInOrder, RemoteTypeOK, Idle
  <2>2. \A v \in Wait : input'[v] = "open" => v = w
    BY <1>3 DEF WaitStarts, MayStart, WaitsInOrder, RemoteTypeOK
  <2>3. pending' = w /\ input'[w] = "open"
    BY <1>3 DEF WaitStarts, RemoteTypeOK
  <2> QED
    BY <2>1, <2>2, <2>3 DEF AnswersReachTheQuestion
<1>9. ASSUME NEW w \in Wait, NEW told \in BOOLEAN, WaitUnread(w, told)
      PROVE  WaitsInOrder' /\ AnswersReachTheQuestion'
  <2>1. WaitsInOrder'
    BY <1>9 DEF WaitUnread, MayStart, Consumes, WaitsInOrder, RemoteTypeOK, Idle
  <2>2. \A v \in Wait : input'[v] # "open"
    BY <1>9 DEF WaitUnread, MayStart, WaitsInOrder, RemoteTypeOK
  <2>3. pending' = pending /\ (pending # None => pending # w /\ input'[pending] = "open")
    BY <1>9 DEF WaitUnread, MayStart, AnswersReachTheQuestion, RemoteTypeOK
  <2> QED
    BY <2>1, <2>2, <2>3 DEF AnswersReachTheQuestion
<1>4. ASSUME NEW w \in Wait, NEW how \in Ends, WaitEnds(w, how)
      PROVE  WaitsInOrder' /\ AnswersReachTheQuestion'
  <2>1. WaitsInOrder'
    BY <1>4 DEF WaitEnds, Consumes, WaitsInOrder, RemoteTypeOK, Idle
  <2>2. \A v \in Wait : input'[v] # "open"
    BY <1>4 DEF WaitEnds, WaitsInOrder, RemoteTypeOK
  <2>3. pending' = None
    BY <1>4 DEF WaitEnds
  <2> QED
    BY <2>1, <2>2, <2>3 DEF AnswersReachTheQuestion
<1>5. ASSUME \/ \E valid \in BOOLEAN : SteerStarts(valid)
             \/ \E how \in Ends : SteerEnds(how)
      PROVE  WaitsInOrder' /\ AnswersReachTheQuestion'
  <2>1. WaitsInOrder'
    BY <1>5 DEF SteerStarts, SteerEnds, Consumes, WaitsInOrder, RemoteTypeOK, Idle
  <2>2. pending' # None => input'[pending'] = "open"
    <3>1. ASSUME NEW valid \in BOOLEAN, SteerStarts(valid)
          PROVE  pending' # None => input'[pending'] = "open"
      BY <3>1 DEF SteerStarts, AnswersReachTheQuestion, RemoteTypeOK
    <3>2. ASSUME NEW how \in Ends, SteerEnds(how)
          PROVE  pending' # None => input'[pending'] = "open"
      BY <3>2 DEF SteerEnds, AnswersReachTheQuestion, RemoteTypeOK
    <3> QED
      BY <1>5, <3>1, <3>2
  <2>3. \A w \in Wait : input'[w] = input[w] /\ (pending = w => pending' = w)
    <3>1. ASSUME NEW valid \in BOOLEAN, SteerStarts(valid), NEW w \in Wait
          PROVE  input'[w] = input[w] /\ (pending = w => pending' = w)
      BY <3>1 DEF SteerStarts, RemoteTypeOK
    <3>2. ASSUME NEW how \in Ends, SteerEnds(how), NEW w \in Wait
          PROVE  input'[w] = input[w] /\ (pending = w => pending' = w)
      BY <3>2 DEF SteerEnds, RemoteTypeOK
    <3> QED
      BY <1>5, <3>1, <3>2
  <2>4. UNCHANGED <<forgotten, status, answered>>
    BY <1>5 DEF SteerStarts, SteerEnds, Consumes
  <2> QED
    BY <2>1, <2>2, <2>3, <2>4 DEF AnswersReachTheQuestion
<1>6. ASSUME WorkflowEnds \/ Accepted
      PROVE  WaitsInOrder' /\ AnswersReachTheQuestion'
  BY <1>6 DEF WorkflowEnds, Accepted, Consumes, WaitsInOrder, AnswersReachTheQuestion, Idle,
    workflowVars
<1>7. ASSUME Show \/ Flush \/ Fail \/ Finalize \/ Dismiss
      PROVE  WaitsInOrder' /\ AnswersReachTheQuestion'
  BY <1>1, <1>7 DEF Show, Flush, Fail, Finalize, Dismiss, workflowVars, translatorVars
<1>8. ASSUME Message \/ AnswerQuestion \/ Rejected
      PROVE  WaitsInOrder' /\ AnswersReachTheQuestion'
  BY <1>8 DEF Message, AnswerQuestion, Rejected, Post, WaitsInOrder, AnswersReachTheQuestion, Idle,
    RemoteTypeOK, workflowVars, translatorVars
<1> QED
  BY <1>2, <1>3, <1>4, <1>5, <1>6, <1>7, <1>8, <1>9, RemoteSteps DEF Told

-----------------------------------------------------------------------------
(* Rows *)

\* Which calls and results there are in what was emitted together.
LEMMA InEmitted ==
  ASSUME NEW r, NEW q
  PROVE  /\ ~In(CallEvent(q), Nothing) /\ ~In(ResultEvent(q), Nothing)
         /\ ~In(CallEvent(q), Text) /\ ~In(ResultEvent(q), Text)
         /\ \A e \in WaitEvents : ~In(CallEvent(q), Asked(e)) /\ ~In(ResultEvent(q), Asked(e))
         /\ In(CallEvent(q), Made(r)) <=> q = r
         /\ ~In(ResultEvent(q), Made(r))
         /\ ~In(CallEvent(q), RowEnded(r))
         /\ In(ResultEvent(q), RowEnded(r)) <=> q = r
         /\ In(CallEvent(q), MadeEnded(r)) <=> q = r
         /\ In(ResultEvent(q), MadeEnded(r)) <=> q = r
         /\ ~In(CallEvent(q), EndedText(r))
         /\ In(ResultEvent(q), EndedText(r)) <=> q = r
<1>1. ASSUME NEW a
      PROVE  /\ ~In(CallEvent(q), <<>>) /\ ~In(ResultEvent(q), <<>>)
             /\ In(CallEvent(q), <<a>>) <=> CallEvent(q) = a
             /\ In(ResultEvent(q), <<a>>) <=> ResultEvent(q) = a
  BY ShortIn
<1>2. ASSUME NEW a, NEW b
      PROVE  /\ In(CallEvent(q), <<a, b>>) <=> CallEvent(q) \in {a, b}
             /\ In(ResultEvent(q), <<a, b>>) <=> ResultEvent(q) \in {a, b}
  BY ShortIn
<1>3. \A e \in WaitEvents : ~In(CallEvent(q), <<e>>) /\ ~In(ResultEvent(q), <<e>>)
  BY <1>1, EventsDiffer
<1>4. /\ In(CallEvent(q), <<CallEvent(r), ResultEvent(r)>>) <=> q = r
      /\ In(ResultEvent(q), <<CallEvent(r), ResultEvent(r)>>) <=> q = r
  BY <1>2, EventsDiffer
<1>5. /\ ~In(CallEvent(q), <<ResultEvent(r), UserEvent>>)
      /\ In(ResultEvent(q), <<ResultEvent(r), UserEvent>>) <=> q = r
  BY <1>2, EventsDiffer
<1>6. /\ ~In(CallEvent(q), <<UserEvent>>) /\ ~In(ResultEvent(q), <<UserEvent>>)
      /\ In(CallEvent(q), <<CallEvent(r)>>) <=> q = r
      /\ ~In(ResultEvent(q), <<CallEvent(r)>>)
      /\ ~In(CallEvent(q), <<ResultEvent(r)>>)
      /\ In(ResultEvent(q), <<ResultEvent(r)>>) <=> q = r
  BY <1>1, EventsDiffer
<1> QED
  BY <1>1, <1>3, <1>4, <1>5, <1>6 DEF Nothing, Text, Asked, Made, RowEnded, MadeEnded, EndedText

\* What the translator tells of a row fits what it has told before: it emits the calls
\* and the results that are new to it.
LEMMA TranslatedRows ==
  ASSUME RemoteTypeOK, RowsShown, NEW r, Translates(r)
  PROVE  RowsShown'
<1> SUFFICES ASSUME stream' = "running" PROVE RowsShown'
  BY DEF RowsShown
<1>1. emitted = Nothing /\ row' = row /\ stream = "running"
  BY DEF Translates, Consumes, Nothing
<1>2. \A q \in Row : row'[q] = IF q \notin called THEN "none"
                               ELSE IF q \notin resulted THEN "open" ELSE "closed"
  BY <1>1, InEmitted DEF RowsShown, RowOf
<1>3. resulted \subseteq called /\ called \subseteq Row
  BY DEF RemoteTypeOK
<1> DEFINE New == \A q \in Row : /\ In(CallEvent(q), emitted') <=> q \in called' \ called
                                 /\ In(ResultEvent(q), emitted') <=> q \in resulted' \ resulted
<1>4. ASSUME r \in Row, called' = called \cup {r}, resulted' = resulted, emitted' = CallEvents(r)
      PROVE  EmittedTogether' /\ New
  <2>1. CASE r \in called
    <3>1. emitted' = Nothing /\ called' = called
      BY <1>4, <2>1 DEF CallEvents, Nothing
    <3> QED
      BY <1>4, <3>1, InEmitted DEF EmittedTogether
  <2>2. CASE r \notin called
    <3>1. emitted' = Made(r)
      BY <1>4, <2>2 DEF CallEvents, CallEvent, Made
    <3>2. New
      BY <1>4, <2>2, <3>1, InEmitted
    <3> QED
      BY <1>4, <3>1, <3>2 DEF EmittedTogether
  <2> QED
    BY <2>1, <2>2
<1>5. ASSUME r \in Row, called' = called \cup {r}, resulted' = resulted \cup {r},
             emitted' = CallEvents(r) \o ResultEvents(r)
      PROVE  EmittedTogether' /\ New
  <2>1. CASE r \in resulted
    <3>1. emitted' = Nothing /\ called' = called /\ resulted' = resulted
      BY <1>3, <1>5, <2>1, Short DEF CallEvents, ResultEvents, Nothing
    <3> QED
      BY <3>1, InEmitted DEF EmittedTogether
  <2>2. CASE r \in called /\ r \notin resulted
    <3>1. emitted' = RowEnded(r) /\ called' = called
      BY <1>5, <2>2, Short DEF CallEvents, ResultEvents, ResultEvent, RowEnded
    <3>2. New
      BY <1>5, <2>2, <3>1, InEmitted
    <3> QED
      BY <1>5, <3>1, <3>2 DEF EmittedTogether
  <2>3. CASE r \notin called
    <3>1. emitted' = MadeEnded(r) /\ r \notin resulted
      BY <1>3, <1>5, <2>3, Short DEF CallEvents, ResultEvents, CallEvent, ResultEvent, MadeEnded
    <3>2. New
      BY <1>5, <2>3, <3>1, InEmitted
    <3> QED
      BY <1>5, <3>1, <3>2 DEF EmittedTogether
  <2> QED
    BY <1>3, <2>1, <2>2, <2>3
<1>6. ASSUME r \in called, called' = called, resulted' = resulted \cup {r},
             NEW text \in {Nothing, Text}, emitted' = ResultEvents(r) \o text
      PROVE  EmittedTogether' /\ New
  <2>0. called' = called /\ resulted' = resulted \cup {r} /\ r \in Row
    BY <1>3, <1>6
  <2>1. CASE r \in resulted
    <3>1. emitted' \in {Nothing, Text} /\ resulted' = resulted
      BY <1>6, <2>1, Short DEF ResultEvents, Nothing, Text
    <3>2. New
      BY <2>0, <3>1, InEmitted
    <3> QED
      BY <3>1, <3>2 DEF EmittedTogether
  <2>2. CASE r \notin resulted
    <3>1. emitted' \in {RowEnded(r), EndedText(r)}
      <4>1. ResultEvents(r) = <<ResultEvent(r)>>
        BY <2>2 DEF ResultEvents, ResultEvent
      <4> QED
        BY <1>6, <4>1, Short DEF Nothing, Text, RowEnded, EndedText
    <3>2. New
      BY <2>0, <2>2, <3>1, InEmitted
    <3> QED
      BY <2>0, <3>1, <3>2 DEF EmittedTogether
  <2> QED
    BY <2>1, <2>2
<1>7. ASSUME UNCHANGED <<called, resulted>>,
             emitted' \in {Nothing, Text} \/ \E e \in WaitEvents : emitted' = Asked(e)
      PROVE  EmittedTogether' /\ New
  <2>1. New
    BY <1>7, InEmitted
  <2> QED
    BY <1>7, <2>1 DEF EmittedTogether
<1> HIDE DEF New
<1>8. EmittedTogether' /\ New
  BY <1>4, <1>5, <1>6, <1>7 DEF Translates
<1>9. called \subseteq called' /\ resulted \subseteq resulted'
  BY DEF Translates
<1>10. \A q \in Row : row'[q] = RowOf(q)'
  BY <1>2, <1>3, <1>8, <1>9 DEF New, RowOf
<1> QED
  BY <1>3, <1>8, <1>10 DEF RowsShown, New

\* What is shown of what was emitted together, and what is left.
LEMMA HeadAndTail ==
  ASSUME NEW r
  PROVE  /\ Made(r) # Nothing /\ Head(Made(r)) = CallEvent(r) /\ Tail(Made(r)) = Nothing
         /\ MadeEnded(r) # Nothing /\ Head(MadeEnded(r)) = CallEvent(r)
         /\ Tail(MadeEnded(r)) = RowEnded(r)
         /\ RowEnded(r) # Nothing /\ Head(RowEnded(r)) = ResultEvent(r)
         /\ Tail(RowEnded(r)) = Nothing
         /\ EndedText(r) # Nothing /\ Head(EndedText(r)) = ResultEvent(r)
         /\ Tail(EndedText(r)) = Text
         /\ Text # Nothing /\ Head(Text) = UserEvent /\ Tail(Text) = Nothing
         /\ \A e : Asked(e) # Nothing /\ Head(Asked(e)) = e /\ Tail(Asked(e)) = Nothing
BY Short DEF Nothing, Text, Asked, Made, RowEnded, MadeEnded, EndedText

\* A call makes its row, a result ends it, and nothing else touches rows.
LEMMA ShownRows ==
  ASSUME RemoteTypeOK, RowsShown, RowsKept, Show
  PROVE  RowsShown' /\ RowsKept'
<1>1. /\ stream = "running" /\ emitted # Nothing /\ emitted' = Tail(emitted)
      /\ stream' \in {"running", "failed"} /\ UNCHANGED <<called, resulted>>
  BY DEF Show, translatorVars, Nothing
<1>2. /\ resulted \subseteq called /\ called \subseteq Row
      /\ row \in [Row -> {"none", "open", "closed", "wrong"}]
  BY DEF RemoteTypeOK
<1>3. ASSUME NEW r \in Row, emitted \in {Made(r), MadeEnded(r)}
      PROVE  RowsShown' /\ RowsKept'
  <2>1. Head(emitted) = CallEvent(r)
    BY <1>3, HeadAndTail
  <2>2. row[r] = "none" /\ r \in called
    BY <1>1, <1>3, InEmitted DEF RowsShown, RowOf
  <2>3. row' = [row EXCEPT ![r] = "open"]
    BY <2>1, <2>2 DEF Show, RowShown, CallEvent
  <2>4. /\ EmittedTogether'
        /\ \A q \in Row : ~In(CallEvent(q), emitted')
        /\ \A q \in Row \ {r} : /\ ~In(CallEvent(q), emitted) /\ ~In(ResultEvent(q), emitted)
                               /\ ~In(ResultEvent(q), emitted')
    <3>1. \/ emitted = Made(r) /\ emitted' = Nothing
          \/ emitted = MadeEnded(r) /\ emitted' = RowEnded(r)
      BY <1>1, <1>3, HeadAndTail
    <3>2. EmittedTogether'
      BY <3>1 DEF EmittedTogether
    <3>3. \A q \in Row : ~In(CallEvent(q), emitted')
      BY <3>1, InEmitted
    <3>4. \A q \in Row : In(CallEvent(q), emitted) <=> q = r
      BY <3>1, InEmitted
    <3>5. \A q \in Row : q # r => ~In(ResultEvent(q), emitted) /\ ~In(ResultEvent(q), emitted')
      BY <3>1, InEmitted
    <3> QED
      BY <3>2, <3>3, <3>4, <3>5
  <2>5. r \in resulted <=> In(ResultEvent(r), emitted')
    <3>1. r \in resulted <=> In(ResultEvent(r), emitted)
      BY <1>1, <1>3, InEmitted DEF RowsShown
    <3>2. CASE emitted = Made(r)
      <4>1. emitted' = Nothing
        BY <1>1, <3>2, HeadAndTail
      <4> QED
        BY <3>1, <3>2, <4>1, InEmitted
    <3>3. CASE emitted = MadeEnded(r)
      <4>1. emitted' = RowEnded(r)
        BY <1>1, <3>3, HeadAndTail
      <4> QED
        BY <3>1, <3>3, <4>1, InEmitted
    <3> QED
      BY <1>3, <3>2, <3>3
  <2>6. RowsKept'
    BY <1>1, <1>2, <2>3 DEF RowsKept
  <2>7. \A q \in Row : row'[q] = RowOf(q)'
    BY <1>1, <1>2, <2>2, <2>3, <2>4, <2>5 DEF RowsShown, RowOf
  <2> QED
    BY <1>1, <2>4, <2>5, <2>6, <2>7 DEF RowsShown
<1>4. ASSUME NEW r \in Row, emitted \in {RowEnded(r), EndedText(r)}
      PROVE  RowsShown' /\ RowsKept'
  <2>1. Head(emitted) = ResultEvent(r) /\ emitted' \in {Nothing, Text}
    BY <1>1, <1>4, HeadAndTail
  <2>2. row[r] = "open" /\ r \in called /\ r \in resulted
    BY <1>1, <1>2, <1>4, InEmitted DEF RowsShown, RowOf
  <2>3. row' = [row EXCEPT ![r] = "closed"]
    BY <2>1, <2>2 DEF Show, RowShown, ResultEvent
  <2>4. \A q \in Row : /\ ~In(CallEvent(q), emitted') /\ ~In(CallEvent(q), emitted)
                       /\ ~In(ResultEvent(q), emitted')
                       /\ q # r => ~In(ResultEvent(q), emitted)
    BY <1>4, <2>1, InEmitted
  <2>5. EmittedTogether'
    BY <2>1 DEF EmittedTogether
  <2>6. RowsKept'
    BY <1>1, <1>2, <2>3 DEF RowsKept
  <2>7. \A q \in Row : row'[q] = RowOf(q)'
    BY <1>1, <1>2, <2>2, <2>3, <2>4 DEF RowsShown, RowOf
  <2> QED
    BY <2>4, <2>5, <2>6, <2>7 DEF RowsShown
<1>5. ASSUME emitted = Text \/ \E e \in WaitEvents : emitted = Asked(e)
      PROVE  RowsShown' /\ RowsKept'
  <2>1. emitted' = Nothing /\ Head(emitted) \in {UserEvent} \cup WaitEvents
    BY <1>1, <1>5, HeadAndTail
  <2>2. UNCHANGED row
    BY <2>1 DEF Show, UserEvent, WaitEvents
  <2>3. \A q \in Row : /\ ~In(CallEvent(q), emitted') /\ ~In(CallEvent(q), emitted)
                       /\ ~In(ResultEvent(q), emitted') /\ ~In(ResultEvent(q), emitted)
    BY <1>5, <2>1, InEmitted
  <2>4. RowsKept'
    BY <1>1, <2>2 DEF RowsKept
  <2>5. \A q \in Row : row'[q] = RowOf(q)'
    BY <1>1, <2>2, <2>3 DEF RowsShown, RowOf
  <2> QED
    BY <2>1, <2>3, <2>4, <2>5 DEF RowsShown, EmittedTogether
<1> QED
  BY <1>1, <1>3, <1>4, <1>5 DEF RowsShown, EmittedTogether

\* The rows through every step; the end of the stream ends those that are open.
LEMMA StepRows ==
  ASSUME RemoteTypeOK, RowsShown, RowsKept, CallsTold, RemoteNext
  PROVE  RowsShown' /\ RowsKept'
<1>1. ASSUME Told PROVE RowsShown' /\ RowsKept'
  <2>1. PICK r : Translates(r)
    BY <1>1, ToldTranslates
  <2>2. RowsKept'
    BY <2>1 DEF Translates, Consumes, RowsKept
  <2> QED
    BY <2>1, <2>2, TranslatedRows
<1>2. ASSUME Show PROVE RowsShown' /\ RowsKept'
  BY <1>2, ShownRows
<1>3. ASSUME Flush PROVE RowsShown' /\ RowsKept'
  BY <1>3 DEF Flush, RowsShown, RowsKept
<1>4. ASSUME Fail \/ Finalize PROVE RowsShown' /\ RowsKept'
  BY <1>4 DEF Fail, Finalize, RowsShown, RowsKept
<1>5. ASSUME Message \/ AnswerQuestion \/ Dismiss \/ Accepted \/ Rejected
      PROVE  RowsShown' /\ RowsKept'
  <2>1. UNCHANGED <<called, resulted, emitted, stream, row>>
    BY <1>5 DEF Message, AnswerQuestion, Dismiss, Accepted, Rejected, translatorVars
  <2> QED
    BY <2>1 DEF RowsShown, RowsKept, RowOf, EmittedTogether
<1> QED
  BY <1>1, <1>2, <1>3, <1>4, <1>5, RemoteSteps

-----------------------------------------------------------------------------
(* The theorems *)

\* The invariant is inductive.
LEMMA RemoteKeeps == RemoteInv /\ [RemoteNext]_remoteVars => RemoteInv'
<1> SUFFICES ASSUME RemoteInv, [RemoteNext]_remoteVars PROVE RemoteInv'
  OBVIOUS
<1>1. CASE RemoteNext
  <2>1. RemoteTypeOK'
    BY <1>1, RemoteSteps, ToldTyped, ScreenTyped DEF RemoteInv
  <2>2. RowsShown' /\ RowsKept'
    BY <1>1, StepRows DEF RemoteInv
  <2>3. CallsTold' /\ WaitsInOrder' /\ AnswersReachTheQuestion'
    BY <1>1, StepCalls, StepInputs DEF RemoteInv
  <2> QED
    BY <2>1, <2>2, <2>3 DEF RemoteInv
<1>2. CASE UNCHANGED remoteVars
  <2>1. RemoteTypeOK'
    BY <1>2 DEF remoteVars, workflowVars, translatorVars, screenVars, RemoteInv, RemoteTypeOK
  <2>2. RowsShown' /\ RowsKept'
    BY <1>2 DEF remoteVars, workflowVars, translatorVars, screenVars, RemoteInv, RowsShown,
      RowsKept, RowOf, EmittedTogether
  <2>3. CallsTold' /\ WaitsInOrder' /\ AnswersReachTheQuestion'
    BY <1>2 DEF remoteVars, workflowVars, translatorVars, screenVars, RemoteInv, CallsTold,
      WaitsInOrder, AnswersReachTheQuestion, Idle
  <2> QED
    BY <2>1, <2>2, <2>3 DEF RemoteInv
<1> QED
  BY <1>1, <1>2

\* The inductive invariant holds of every behaviour of a session.
LEMMA RemoteInvHolds == RemoteSpec => []RemoteInv
BY RemoteStarts, RemoteKeeps, PTL DEF RemoteSpec

\* The type invariant of the workflow's tasks, the translator and the screen.
THEOREM RemoteTypes == RemoteSpec => []RemoteTypeOK
<1>1. RemoteInv => RemoteTypeOK
  BY DEF RemoteInv
<1> QED
  BY <1>1, RemoteInvHolds, PTL

\* However often a call is told of, its row is made once and ended once; and what the
\* user may answer is the request the workflow waits for.
THEOREM RemoteIsFollowed == RemoteSpec => []RemoteFollowed
<1>1. RemoteInv => RemoteFollowed
  BY DEF RemoteInv, RemoteFollowed, RowsOnce, RowsKept
<1> QED
  BY <1>1, RemoteInvHolds, PTL
===============================================================================
