------------------------------- MODULE AcpServer -------------------------------
(***************************************************************************)
(* The ACP server (vibe/acp/acp_agent_loop.py, session.py and the terminal *)
(* tool): sessions, the prompt task of each, its background tasks, and the *)
(* requests of a client that are handled side by side.                     *)
(*                                                                         *)
(* A session object (AcpSessionLoop with its AgentLoop) is a number, a     *)
(* session id maps to the object that is registered for it.  A request is  *)
(* handled in one step up to its first await and goes on from there.  The  *)
(* AgentLoop is reduced to what this layer can tell apart: it waits for    *)
(* its start-up, for the model, for one tool that uses a client terminal,  *)
(* or for the client to take an update.                                    *)
(***************************************************************************)
EXTENDS Integers, FiniteSets

CONSTANTS
  Id,        \* session ids
  NoId,      \* no session id
  Active,    \* bound: the ids that get prompts, commands and modes
  MaxLoops,  \* bound: session objects are 1..MaxLoops, in order of creation
  Req        \* bound: slots for requests in flight, a set of numbers

ASSUME ServerAssumption ==
  MaxLoops \in Nat /\ Req \subseteq Nat /\ NoId \notin Id /\ Active \subseteq Id

Loop   == 1..MaxLoops
NoLoop == 0

VARIABLES
  patient,     \* the client has one prompt or command per session under way,
               \* closes no session while a command is, and loads none that is open
  sessions,    \* VibeAcpAgentLoop.sessions: the object registered for an id
  created,     \* objects created so far
  sid,         \* the id an object was created with
  status,      \* of an object: unused, open, closing, closed
  tasks,       \* objects with background tasks that have not ended
  experiments, \* objects whose experiments task is still running
  prompt,      \* the await at which an object's prompt task is suspended
  cancelled,   \* prompt tasks with a cancel() not yet delivered
  wanted,      \* history: objects whose current prompt was to be cancelled
  bypass,      \* objects whose active configuration skips permission checks
  callback,    \* the object an object's approval callback grants to, or NoLoop
  unsettled,   \* objects whose last switch failed or whose reload changed bypass
  tool,        \* the await of the object's terminal tool
  toolCancel,  \* tools with a cancel() not yet delivered
  stray,       \* running tools of prompts that dropped their generators
  terms,       \* terminals of the client whose id the object's tool was told
  req          \* requests in flight

sessionVars == <<sessions, created, sid, status>>
promptVars  == <<prompt, cancelled, wanted>>
modeVars    == <<bypass, callback, unsettled>>
toolVars    == <<tool, toolCancel, stray, terms>>
vars == <<patient, sessionVars, tasks, experiments, promptVars, modeVars, toolVars, req>>

Free == [kind |-> "none", id |-> NoId, loop |-> NoLoop]

NextSlot(r) == req[r] = Free /\ \A q \in Req : req[q] = Free => r <= q

\* Prompts and commands under way for an object.
Commands(l) == {r \in Req : req[r].loop = l /\ req[r].kind \in {"compact", "reload"}}
Busy(l) == Commands(l) \cup {r \in Req : req[r].loop = l /\ req[r].kind = "prompt"}

Init ==
  /\ patient \in BOOLEAN
  /\ sessions = [i \in Id |-> NoLoop] /\ created = 0
  /\ sid = [l \in Loop |-> NoId] /\ status = [l \in Loop |-> "unused"]
  /\ tasks = {} /\ experiments = {}
  /\ prompt = [l \in Loop |-> "none"] /\ cancelled = {} /\ wanted = {}
  /\ bypass = {} /\ callback = [l \in Loop |-> NoLoop] /\ unsettled = {}
  /\ tool = [l \in Loop |-> "none"] /\ toolCancel = {} /\ stray = {}
  /\ terms = [l \in Loop |-> 0]
  /\ req = [r \in Req |-> Free]

-----------------------------------------------------------------------------
(* Sessions *)

\* _create_acp_session: the object is registered under its id, gets its
\* approval callback and starts to advertise commands and to warm up.
Register(i, b) ==
  LET l == created + 1
  IN  /\ created' = l
      /\ sessions' = [sessions EXCEPT ![i] = l]
      /\ sid' = [sid EXCEPT ![l] = i]
      /\ status' = [status EXCEPT ![l] = "open"]
      /\ tasks' = tasks \cup {l}
      /\ bypass' = IF b THEN bypass \cup {l} ELSE bypass
      /\ callback' = [callback EXCEPT ![l] = IF b THEN NoLoop ELSE l]
      /\ UNCHANGED unsettled

\* new_session: a fresh id; the experiments are fetched in a task of their own.
NewSession(i) ==
  /\ created < MaxLoops /\ \A l \in Loop : sid[l] # i
  /\ \A r \in Req : req[r].id # i
  /\ Register(i, FALSE)
  /\ experiments' = experiments \cup {created + 1}
  /\ UNCHANGED <<promptVars, toolVars, req>>

\* load_session: the saved session is read, then its experiments are awaited.
StartLoad(r, i) ==
  /\ NextSlot(r) /\ created < MaxLoops
  /\ patient => /\ sessions[i] = NoLoop
                /\ \A q \in Req : req[q].id # i
                /\ \A l \in Loop : sid[l] = i => status[l] = "closed"
  /\ req' = [req EXCEPT ![r] = [kind |-> "load", id |-> i, loop |-> NoLoop]]
  /\ UNCHANGED <<sessionVars, tasks, experiments, promptVars, modeVars, toolVars>>

\* The object takes over the id, then the history is replayed to the client.
FinishLoad(r) ==
  /\ req[r].kind = "load" /\ created < MaxLoops
  /\ Register(req[r].id, FALSE)
  /\ req' = [req EXCEPT ![r] = [@ EXCEPT !.kind = "replay", !.loop = created + 1]]
  /\ UNCHANGED <<experiments, promptVars, toolVars>>

\* Mutant: a closed object takes new tasks.
SpawnedAlways(l) == tasks' = tasks \cup {l}

\* spawn: refused by an object that was closed.
Spawned(l) == tasks' = IF status[l] = "open" THEN tasks \cup {l} ELSE tasks

Replayed(r) ==
  /\ req[r].kind = "replay"
  /\ Spawned(req[r].loop)
  /\ req' = [req EXCEPT ![r] = Free]
  /\ UNCHANGED <<sessionVars, experiments, promptVars, modeVars, toolVars>>

\* fork_session: refused while a prompt runs; the copy is saved, then registered.
StartFork(r, i, j) ==
  /\ NextSlot(r) /\ created < MaxLoops
  /\ sessions[i] # NoLoop /\ prompt[sessions[i]] = "none"
  /\ \A l \in Loop : sid[l] # j
  /\ \A q \in Req : req[q].id # j
  /\ req' = [req EXCEPT ![r] = [kind |-> "fork", id |-> j, loop |-> sessions[i]]]
  /\ UNCHANGED <<sessionVars, tasks, experiments, promptVars, modeVars, toolVars>>

\* A fork has no experiments task of its own; its profile is that of its source.
FinishFork(r) ==
  /\ req[r].kind = "fork" /\ created < MaxLoops
  /\ \E b \in BOOLEAN : Register(req[r].id, b)
  /\ req' = [req EXCEPT ![r] = Free]
  /\ UNCHANGED <<experiments, promptVars, toolVars>>

\* close_session: the id is given up, every task of the object is cancelled.
StartClose(r, i) ==
  LET l == sessions[i]
  IN  /\ NextSlot(r) /\ l # NoLoop
      /\ patient => Commands(l) = {}
      /\ sessions' = [sessions EXCEPT ![i] = NoLoop]
      /\ status' = [status EXCEPT ![l] = "closing"]
      /\ cancelled' = IF prompt[l] # "none" THEN cancelled \cup {l} ELSE cancelled
      /\ wanted' = IF prompt[l] # "none" THEN wanted \cup {l} ELSE wanted
      /\ req' = [req EXCEPT ![r] = [kind |-> "close", id |-> NoId, loop |-> l]]
      /\ UNCHANGED <<created, sid, tasks, experiments, prompt, modeVars, toolVars>>

\* Mutant: the session is closed without waiting for its cancelled tasks.
FinishCloseAtOnce(r) ==
  LET l == req[r].loop
  IN  /\ req[r].kind = "close"
      /\ status' = [status EXCEPT ![l] = "closed"]
      /\ experiments' = experiments \ {l}
      /\ req' = [req EXCEPT ![r] = Free]
      /\ UNCHANGED <<sessions, created, sid, tasks, promptVars, modeVars, toolVars>>

\* ... and awaited, before the agent loop itself is closed.
FinishClose(r) ==
  LET l == req[r].loop
  IN  /\ req[r].kind = "close" /\ l \notin tasks /\ prompt[l] = "none"
      /\ status' = [status EXCEPT ![l] = "closed"]
      /\ experiments' = experiments \ {l}
      /\ req' = [req EXCEPT ![r] = Free]
      /\ UNCHANGED <<sessions, created, sid, tasks, promptVars, modeVars, toolVars>>

\* The last update was taken by the client, failed or was cancelled, and the
\* warm-up ended with the start-up.
TasksEnd(l) ==
  /\ l \in tasks
  /\ tasks' = tasks \ {l}
  /\ UNCHANGED <<sessionVars, experiments, promptVars, modeVars, toolVars, req>>

ExperimentsEnd(l) ==
  /\ l \in experiments
  /\ experiments' = experiments \ {l}
  /\ UNCHANGED <<sessionVars, tasks, promptVars, modeVars, toolVars, req>>

-----------------------------------------------------------------------------
(* Prompts *)

\* prompt: refused while the object has a prompt task; there is no await
\* between that check and the new task.
StartPrompt(r, i) ==
  LET l == sessions[i]
  IN  /\ NextSlot(r) /\ l # NoLoop /\ prompt[l] = "none"
      /\ patient => Busy(l) = {}
      /\ prompt' = [prompt EXCEPT ![l] = "startup"]
      /\ wanted' = wanted \ {l}
      /\ req' = [req EXCEPT ![r] = [kind |-> "prompt", id |-> NoId, loop |-> l]]
      /\ UNCHANGED <<sessionVars, tasks, experiments, cancelled, modeVars, toolVars>>

\* The prompt task is done: the usage is sent, the prompt is answered and so is
\* every cancel() that waited for the task.
PromptOver(l) ==
  /\ prompt' = [prompt EXCEPT ![l] = "none"]
  /\ cancelled' = cancelled \ {l} /\ wanted' = wanted \ {l}
  /\ Spawned(l)
  /\ req' = [r \in Req |-> IF req[r].kind \in {"prompt", "cancel"} /\ req[r].loop = l
                          THEN Free ELSE req[r]]

Goes(l, p) == prompt' = [prompt EXCEPT ![l] = p]

\* wait_until_ready: the start-up thread, then the experiments task; the start-up
\* may have failed.
Ready(l) ==
  /\ prompt[l] = "startup" /\ l \notin cancelled
  /\ \/ /\ l \notin experiments /\ Goes(l, "model")
        /\ UNCHANGED <<cancelled, wanted, tasks, req>>
     \/ PromptOver(l)
  /\ UNCHANGED <<sessionVars, experiments, modeVars, toolVars>>

\* The client took the update that the terminal is open.  (Any other update is
\* part of the wait for the model: cut off, it leaves nothing behind.)
Updated(l) ==
  /\ prompt[l] = "update" /\ l \notin cancelled
  /\ Goes(l, IF tool[l] # "none" /\ l \notin stray THEN "tools" ELSE "model")
  /\ UNCHANGED <<sessionVars, tasks, experiments, cancelled, wanted, modeVars, toolVars, req>>

\* The model stops or fails.
Ends(l) ==
  /\ prompt[l] = "model" /\ l \notin cancelled
  /\ PromptOver(l)
  /\ UNCHANGED <<sessionVars, experiments, modeVars, toolVars>>

-----------------------------------------------------------------------------
(* The terminal tool of a prompt (bound: one at a time for each object) *)

Tool(l, t) == tool' = [tool EXCEPT ![l] = t]

\* A call runs or the client is asked; without a callback it is refused unasked.
CallTool(l) ==
  /\ prompt[l] = "model" /\ l \notin cancelled /\ tool[l] = "none"
  /\ l \in bypass \/ callback[l] # NoLoop
  /\ Goes(l, "tools")
  /\ Tool(l, IF l \in bypass THEN "creating" ELSE "asking")
  /\ UNCHANGED <<sessionVars, tasks, experiments, cancelled, wanted, modeVars,
                 toolCancel, stray, terms, req>>

\* The result of the tool, or its failure, is an event for the prompt that
\* still waits for it.
ToolOver(l) ==
  /\ Tool(l, "none") /\ stray' = stray \ {l}
  /\ prompt' = [prompt EXCEPT ![l] = IF @ = "tools" THEN "model" ELSE @]

Answered(l, allow) ==
  /\ tool[l] = "asking" /\ l \notin toolCancel
  /\ IF allow THEN Tool(l, "creating") /\ UNCHANGED <<prompt, stray>> ELSE ToolOver(l)
  /\ UNCHANGED <<sessionVars, tasks, experiments, cancelled, wanted, modeVars,
                 toolCancel, terms, req>>

\* create_terminal succeeds, and its event becomes an update; or it fails.
Created(l) ==
  /\ tool[l] = "creating" /\ l \notin toolCancel
  /\ \/ /\ Tool(l, "opened")
        /\ terms' = [terms EXCEPT ![l] = @ + 1]
        /\ prompt' = [prompt EXCEPT ![l] = IF @ = "tools" THEN "update" ELSE @]
        /\ UNCHANGED stray
     \/ ToolOver(l) /\ UNCHANGED terms
  /\ UNCHANGED <<sessionVars, tasks, experiments, cancelled, wanted, modeVars,
                 toolCancel, req>>

\* The command exits and its output is read, or it is killed at its timeout.
Exited(l) ==
  /\ tool[l] = "opened" /\ l \notin toolCancel
  /\ Tool(l, "releasing")
  /\ UNCHANGED <<sessionVars, tasks, experiments, promptVars, modeVars,
                 toolCancel, stray, terms, req>>

\* release_terminal in the finally of the tool.
Released(l) ==
  /\ tool[l] = "releasing" /\ l \notin toolCancel
  /\ terms' = [terms EXCEPT ![l] = @ - 1]
  /\ ToolOver(l)
  /\ UNCHANGED <<sessionVars, tasks, experiments, cancelled, wanted, modeVars,
                 toolCancel, req>>

\* Mutant: a cancelled tool does not release its terminal.
ToolInterruptedNoFinally(l) ==
  /\ l \in toolCancel
  /\ toolCancel' = toolCancel \ {l}
  /\ ToolOver(l)
  /\ UNCHANGED <<sessionVars, tasks, experiments, cancelled, wanted, modeVars,
                 terms, req>>

\* CancelledError in the tool: while a terminal is created, nobody learns its
\* id; an open one is released; a release that was sent is carried out.
ToolInterrupted(l) ==
  /\ l \in toolCancel
  /\ toolCancel' = toolCancel \ {l}
  /\ CASE tool[l] \in {"none", "asking", "creating"} -> ToolOver(l) /\ UNCHANGED terms
       [] tool[l] = "opened" ->
            Tool(l, "releasing") /\ UNCHANGED <<terms, prompt, stray>>
       [] tool[l] = "releasing" ->
            /\ ToolOver(l)
            /\ terms' = [terms EXCEPT ![l] = @ - 1]
  /\ UNCHANGED <<sessionVars, tasks, experiments, cancelled, wanted, modeVars, req>>

\* Mutant: nobody closes the generators that a closed session leaves behind.
CloseStrayIfOpen(l) ==
  /\ l \in stray \ toolCancel /\ tool[l] # "releasing" /\ status[l] = "open"
  /\ toolCancel' = toolCancel \cup {l}
  /\ UNCHANGED <<sessionVars, tasks, experiments, promptVars, modeVars,
                 tool, stray, terms, req>>

\* The dropped generator of a cancelled prompt is closed: its tool is cancelled,
\* once.
CloseStray(l) ==
  /\ l \in stray \ toolCancel /\ tool[l] # "releasing"
  /\ toolCancel' = toolCancel \cup {l}
  /\ UNCHANGED <<sessionVars, tasks, experiments, promptVars, modeVars,
                 tool, stray, terms, req>>

-----------------------------------------------------------------------------
(* Cancellation *)

\* cancel: nothing to do without a prompt task, else the handler awaits the task.
StartCancel(r, i) ==
  LET l == sessions[i]
  IN  /\ NextSlot(r) /\ l # NoLoop /\ prompt[l] # "none"
      /\ cancelled' = cancelled \cup {l} /\ wanted' = wanted \cup {l}
      /\ req' = [req EXCEPT ![r] = [kind |-> "cancel", id |-> NoId, loop |-> l]]
      /\ UNCHANGED <<sessionVars, tasks, experiments, prompt, modeVars, toolVars>>

\* Mutant: the cancelled prompt leaves its tools alone and waits for them.
InterruptedPatiently(l) ==
  /\ l \in cancelled
  /\ \/ /\ prompt[l] = "tools"
        /\ Goes(l, "joining") /\ cancelled' = cancelled \ {l}
        /\ UNCHANGED <<wanted, tasks, experiments, req, toolCancel, stray>>
     \/ /\ prompt[l] \in {"startup", "model", "joining"}
        /\ PromptOver(l)
        /\ UNCHANGED <<experiments, toolCancel, stray>>
     \/ /\ prompt[l] = "update"
        /\ PromptOver(l)
        /\ stray' = IF tool[l] # "none" THEN stray \cup {l} ELSE stray
        /\ UNCHANGED <<experiments, toolCancel>>
     \/ /\ prompt[l] = "startup" /\ l \in experiments
        /\ Goes(l, "model") /\ cancelled' = cancelled \ {l}
        /\ experiments' = experiments \ {l}
        /\ UNCHANGED <<wanted, tasks, req, toolCancel, stray>>
  /\ UNCHANGED <<sessionVars, modeVars, tool, terms>>

\* CancelledError in the prompt task.  At the queue of its tools it cancels and
\* awaits them; in the middle of an update the generators are dropped; while it
\* waits for the experiments, their task is cancelled and the error suppressed.
Interrupted(l) ==
  /\ l \in cancelled
  /\ \/ /\ prompt[l] \in {"tools", "joining"}
        /\ Goes(l, "joining") /\ cancelled' = cancelled \ {l}
        /\ toolCancel' = IF tool[l] # "none" THEN toolCancel \cup {l} ELSE toolCancel
        /\ UNCHANGED <<wanted, tasks, experiments, req, stray>>
     \/ /\ prompt[l] \in {"startup", "model"}
        /\ PromptOver(l)
        /\ UNCHANGED <<experiments, toolCancel, stray>>
     \/ /\ prompt[l] = "update"
        /\ PromptOver(l)
        /\ stray' = IF tool[l] # "none" THEN stray \cup {l} ELSE stray
        /\ UNCHANGED <<experiments, toolCancel>>
     \/ /\ prompt[l] = "startup" /\ l \in experiments
        /\ Goes(l, "model") /\ cancelled' = cancelled \ {l}
        /\ experiments' = experiments \ {l}
        /\ UNCHANGED <<wanted, tasks, req, toolCancel, stray>>
  /\ UNCHANGED <<sessionVars, modeVars, tool, terms>>

ToolsJoined(l) ==
  /\ prompt[l] = "joining" /\ tool[l] = "none" /\ l \notin cancelled
  /\ PromptOver(l)
  /\ UNCHANGED <<sessionVars, experiments, modeVars, toolVars>>

-----------------------------------------------------------------------------
(* Modes and commands *)

\* set_session_mode: once the agent loop is ready the profile is switched, then
\* the reload is awaited.  (A request that waits for the start-up is not there yet.)
StartMode(r, i, b) ==
  LET l == sessions[i]
  IN  /\ NextSlot(r) /\ l # NoLoop /\ l \notin experiments
      /\ bypass' = IF b THEN bypass \cup {l} ELSE bypass \ {l}
      /\ req' = [req EXCEPT ![r] = [kind |-> "mode", id |-> NoId, loop |-> l]]
      /\ UNCHANGED <<sessionVars, tasks, experiments, promptVars, callback,
                     unsettled, toolVars>>

\* Mutant: the callback is set and never removed.
FinishModeKeep(r) ==
  LET l == req[r].loop
  IN  /\ req[r].kind = "mode"
      /\ callback' = [callback EXCEPT ![l] = IF l \in bypass THEN @ ELSE sessions[sid[l]]]
      /\ unsettled' = unsettled \ {l}
      /\ req' = [req EXCEPT ![r] = Free]
      /\ UNCHANGED <<sessionVars, tasks, experiments, promptVars, bypass, toolVars>>

\* Then the approval callback follows the profile that is active by now, unless
\* the reload failed; it belongs to whatever is registered for the id, if anything.
FinishMode(r) ==
  LET l == req[r].loop
  IN  /\ req[r].kind = "mode"
      /\ \/ /\ l \in bypass \/ sessions[sid[l]] # NoLoop
            /\ callback' = [callback EXCEPT ![l] =
                              IF l \in bypass THEN NoLoop ELSE sessions[sid[l]]]
            /\ unsettled' = unsettled \ {l}
         \/ unsettled' = unsettled \cup {l} /\ UNCHANGED callback
      /\ req' = [req EXCEPT ![r] = Free]
      /\ UNCHANGED <<sessionVars, tasks, experiments, promptVars, bypass, toolVars>>

\* A "/" command of a prompt: no task is created for it, so nothing cancels it.
StartCommand(r, i, k) ==
  LET l == sessions[i]
  IN  /\ NextSlot(r) /\ l # NoLoop /\ prompt[l] = "none"
      /\ patient => Busy(l) = {}
      /\ req' = [req EXCEPT ![r] = [kind |-> k, id |-> NoId, loop |-> l]]
      /\ UNCHANGED <<sessionVars, tasks, experiments, promptVars, modeVars, toolVars>>

\* set_session_model and the thinking option: also while a prompt runs.
StartModel(r, i) ==
  /\ NextSlot(r) /\ sessions[i] # NoLoop
  /\ req' = [req EXCEPT ![r] = [kind |-> "model", id |-> NoId, loop |-> sessions[i]]]
  /\ UNCHANGED <<sessionVars, tasks, experiments, promptVars, modeVars, toolVars>>

\* /compact, and the commands that only reply.
FinishCompact(r) ==
  /\ req[r].kind = "compact"
  /\ req' = [req EXCEPT ![r] = Free]
  /\ UNCHANGED <<sessionVars, tasks, experiments, promptVars, modeVars, toolVars>>

\* The configuration is read again: the file may skip permission checks by now, or
\* no longer, and the approval callback stays as it is.
Reconfigured(l) ==
  \E flips \in BOOLEAN :
    /\ bypass' = IF flips THEN (bypass \cup {l}) \ (bypass \cap {l}) ELSE bypass
    /\ unsettled' = IF flips THEN unsettled \cup {l} ELSE unsettled
    /\ UNCHANGED callback

\* /reload advertises the commands again.
FinishReload(r) ==
  /\ req[r].kind = "reload"
  /\ Reconfigured(req[r].loop) /\ Spawned(req[r].loop)
  /\ req' = [req EXCEPT ![r] = Free]
  /\ UNCHANGED <<sessionVars, experiments, promptVars, toolVars>>

\* /leanstall and /unleanstall only update the options.
FinishInstall(r) ==
  /\ req[r].kind \in {"reload", "model"}
  /\ Reconfigured(req[r].loop)
  /\ req' = [req EXCEPT ![r] = Free]
  /\ UNCHANGED <<sessionVars, tasks, experiments, promptVars, toolVars>>

-----------------------------------------------------------------------------
Client ==
  \/ \E i \in Id : NewSession(i)
  \/ \E r \in Req, i \in Id :
       \/ StartLoad(r, i) \/ StartClose(r, i)
       \/ \E j \in Id : StartFork(r, i, j)
  \/ \E r \in Req, i \in Active :
       \/ StartPrompt(r, i) \/ StartCancel(r, i) \/ StartModel(r, i)
       \/ \E b \in BOOLEAN : StartMode(r, i, b)
       \/ \E k \in {"compact", "reload"} : StartCommand(r, i, k)

Handler(r) ==
  \/ FinishLoad(r) \/ Replayed(r) \/ FinishFork(r) \/ FinishClose(r)
  \/ FinishMode(r) \/ FinishCompact(r) \/ FinishReload(r) \/ FinishInstall(r)

PromptTask(l) ==
  \/ Ready(l) \/ Updated(l) \/ Ends(l)
  \/ CallTool(l) \/ Interrupted(l) \/ ToolsJoined(l)

ToolTask(l) ==
  \/ \E allow \in BOOLEAN : Answered(l, allow)
  \/ Created(l) \/ Exited(l) \/ Released(l) \/ ToolInterrupted(l) \/ CloseStray(l)

Background(l) ==
  ExperimentsEnd(l) \/ TasksEnd(l)

Next ==
  /\ \/ Client
     \/ \E r \in Req : Handler(r)
     \/ \E l \in Loop : PromptTask(l) \/ ToolTask(l) \/ Background(l)
  /\ UNCHANGED patient

\* What is cancelled gets its CancelledError, dropped generators are closed and
\* the client answers what asks nothing of a user.  Neither the model nor the
\* user nor a command in a terminal has to end.
Fairness ==
  \A l \in Loop :
    /\ WF_vars(UNCHANGED patient /\ (Interrupted(l) \/ ToolsJoined(l)))
    /\ WF_vars(UNCHANGED patient /\ (ToolInterrupted(l) \/ CloseStray(l) \/ Released(l)))

Spec == Init /\ [][Next]_vars /\ Fairness

-----------------------------------------------------------------------------
(* Properties *)

\* Type invariant of the registry, the objects and the requests.
TypeOK ==
  /\ patient \in BOOLEAN
  /\ sessions \in [Id -> 0..MaxLoops] /\ created \in 0..MaxLoops
  /\ sid \in [Loop -> Id \cup {NoId}]
  /\ status \in [Loop -> {"unused", "open", "closing", "closed"}]
  /\ tasks \in SUBSET Loop /\ experiments \in SUBSET Loop
  /\ prompt \in [Loop -> {"none", "startup", "model", "update", "tools", "joining"}]
  /\ wanted \in SUBSET {l \in Loop : prompt[l] # "none"} /\ cancelled \in SUBSET wanted
  /\ bypass \in SUBSET Loop /\ callback \in [Loop -> 0..MaxLoops]
  /\ unsettled \in SUBSET Loop
  /\ tool \in [Loop -> {"none", "asking", "creating", "opened", "releasing"}]
  /\ {toolCancel, stray} \subseteq SUBSET {l \in Loop : tool[l] # "none"}
  /\ terms \in [Loop -> 0..1]
  /\ req \in [Req -> [kind : {"none", "load", "replay", "fork", "close", "prompt",
                               "cancel", "mode", "model", "compact", "reload"},
                      id : Id \cup {NoId}, loop : 0..MaxLoops]]

\* A patient client never has two turns, or a turn and a compaction or reload, at
\* work on one saved session, whatever it closes, loads and forks meanwhile.
OneWorkerPerSession ==
  patient => \A i \in Id :
    Cardinality(UNION {Busy(l) : l \in {k \in Loop : sid[k] = i}}) <= 1

\* Once close_session has answered, no task of the session sends an update, and
\* none starts, although requests that knew the session are still being handled.
ClosedIsQuiet ==
  \A l \in Loop : status[l] = "closed" => l \notin tasks /\ prompt[l] = "none"

\* When no switch is under way the approval callback is there exactly if the
\* profile asks for permission, and grants to the session that asks: else calls
\* are refused unasked.  Excepted are failed switches and reloads that change it.
CallbackFollowsMode ==
  \A l \in Loop :
    (sid[l] # NoId /\ sessions[sid[l]] = l /\ l \notin unsettled
       /\ \A r \in Req : ~(req[r].kind = "mode" /\ req[r].loop = l))
      => callback[l] = IF l \in bypass THEN NoLoop ELSE l

\* Whatever is cancelled, refused or closed meanwhile, a terminal whose id a tool
\* was told is released exactly when that tool ends.
TerminalsOwned ==
  \A l \in Loop :
    terms[l] = IF tool[l] \in {"opened", "releasing"} THEN 1 ELSE 0

\* session.py:57 "Cancel the active prompt task": a prompt that was to be cancelled
\* has the cancellation pending, waits for its tools or is over.
CancelIsFinal ==
  \A l \in wanted : prompt[l] \in {"none", "joining"} \/ l \in cancelled

Swallowed(l) == l \in wanted /\ l \notin cancelled /\ prompt[l] \notin {"none", "joining"}

\* Cancelling or closing ends the prompt, and so answers the cancel request,
\* although a tool, a prompt for permission or the model never ends, unless the
\* cancellation was swallowed by the start-up.
CancelAnswered ==
  \A l \in Loop : []<>(l \notin wanted \/ Swallowed(l))

\* The tool of a prompt that was cancelled in the middle of an update ends, and
\* so its terminal is released, also when the session is closed meanwhile.
StrayToolsEnd ==
  \A l \in Loop : []<>(l \notin stray)
=============================================================================
