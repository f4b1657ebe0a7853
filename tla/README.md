# Verification of the coding agent

This directory models the coding agent under `src/vibe` in TLA+: the agent loop with its
concurrent tool calls, what decides whether the model is asked again, the session log,
rewinding, the terminal front end, the ACP server, remote sessions, the tools that touch
files and processes, and the configuration they obey. TLC checks small instances, TLAPS
proves the most important facts for all values of the constants. `PROJECT.json` maps every
definition to the lines it models and lists the hazards the properties are for.

## 1. The system

`vibe` is one asyncio process. A front end (Textual, ACP or programmatic) drives one
`AgentLoop`, which talks to an LLM backend and runs tools. Coroutines are switched only
at an `await`. Truly parallel are the deferred initialization, the threads of shift+tab,
of the file index, of path completions, of the audio recorder and player, and the
subprocesses of tools and hooks; several instances of the program share the files in the
user's home.

| Part | State | Operations | Talks to | Hard because of | What makes it correct |
|---|---|---|---|---|---|
| Agent loop (`core/agent_loop.py`) | messages, statistics, pending injections, callbacks | `act`, `compact`, `clear_history`, `inject_user_context`, `switch_agent`, reload | all parts below | one task per tool call, a queue, cancellation at any await, dropped generators | every call answered; no request before the tools ended; a cancelled act stays cancelled |
| Message history (`core/types.py`) | list of messages, reset hooks | append, insert, reset | loop, rewind, log | mutated by loop, tools, "!" commands | well formed for the API |
| Permissions (`core/tools/permissions.py`, `builtins/bash.py`, `utils.py`) | lock, rules, tool grants, saved allowlists | `covers`, `add_rule`, `resolve_permission`, prompt | loop, approval UI, config.toml | concurrent calls, a prompt under a lock, answers for a session or for good | one prompt, never a needless one, nothing runs that was not allowed |
| Middleware (`core/middleware.py`) | warned flag, `_was_active` flags | `before_turn`, `reset` | statistics, profile | early end of the pipeline, resets apart from the history | limits hold, notices match the profile |
| Hooks (`core/hooks`) | retry counts, a process | `run`, `reset_retry_count` | loop | several hooks, retries, timeouts | bounded retries, the act ends |
| Compaction (`core/compaction.py`) | – | summary replaces the history | loop, log, middleware | fails half-way; repeated | history, counters and middlewares agree; the user's last words stay |
| Session log (`core/session`) | `messages.jsonl`, `metadata.json` with title and loops, a pointer per terminal | `save_interaction`, `persist_loops`, `persist_experiments`, rename, reset, list, find, load | every saver, other instances | overlapping writers, interrupts, crashes, damaged files | nothing saved is lost or written twice; a saved session is found and resumed in its directory |
| Rewind (`core/rewind`) | checkpoints with file snapshots | `create_checkpoint`, `add_snapshot`, `rewind_to_message` | history, file tools, widgets | indices into a history that changes; parallel and late writes; failing files | edits undoable; indices right |
| Agent profiles (`core/agents`) | active profile, cached configuration | `switch_profile`, `invalidate_config`, discovery | permissions, middleware, tools | switched from threads, tools and commands | what the screen shows is in force; nothing runs unasked that it forbids |
| Front end (`cli/textual_ui/app.py`, widgets, windowing) | running flags, pending prompts, panels, widgets with indices | submit, interrupt, approve, panels, pickers, rewind mode, windowing, streams | loop | handlers with awaits beside the escape key, the poll and the turn; late messages of panels | one turn, nothing lost, text shown once and in order |
| Text box and completions (`widgets/chat_input`, `cli/autocompletion`, `core/autocompletion`) | draft, history file, popup, file index | keys, Up and Down, queries, rebuild, watch | threads, other instances | late answers, two widgets' queues, three threads | draft and history kept; suggestions fit; index true |
| Scheduled loops (`core/loop.py`) | list of loops | add, cancel, `pop_due` | log, front end | check, await, fire | never into a turn; kept over restarts |
| ACP server (`acp`) | sessions, prompt task, background tasks, terminals, pending sign-ins | prompt, cancel, close, load, fork, updates | loop, client | check, await, set; calls side by side | one worker per session; close leaves nothing; the client can follow each call |
| Tools (`core/tools/builtins`) | a process, a file, a form | run, kill, read, write, replace, ask | disk, shell, user | timeouts, cancellations, concurrent calls | no strays, files hold what was written, answers are the user's |
| Remote tools (`core/tools/mcp`, `connectors`, `manager.py`) | caches, available tools, switches | discover, refresh, toggle, authorise | servers, config | refreshes that fail or are cancelled | nothing lost, switches kept |
| Configuration (`core/config`, `trusted_folders.py`) | layers with trust, files | load, trust, patch, save | files, other instances | trust against loads, stale writes | untrusted data never used, decisions kept |
| Discovery (agents, skills, tools) | modules, directories | search, reload | files | names met twice, files that break | the rule of each kind |
| Remote sessions (`core/nuage`), teleport (`core/teleport`) | cursor, rows, pending question; repository | stream, answer, push, start | services, git | disconnects, repeats; work going on meanwhile | events once and in order; no work left behind |
| Voice, narrator (`core/audio_*`, `cli/voice_manager`, `cli/narrator_manager`) | recording, tasks, state shown | start, stop, cancel, speak | services, threads | timeouts, late callbacks | the screen says what happens |
| Backends (`core/llm`) | parser state | complete, stream | services | four formats, pieces, retries, early ends | requests accepted, replies whole |
| Sign-in (`setup/auth`, `setup/onboarding`, `acp`) | attempt, key in file and environment | start, poll, exchange, cancel, sign out | service | attempts abandoned, lost answers | only a wanted key is stored |
| Debug console (`core/log_reader.py`, `widgets/debug_console.py`) | position in the log, cursor of its pages | poll, page, open, close | log file, a thread | lines come while pages are read | each line once, in order |
| Telemetry, experiments, updates, prompts | little or none | I/O and formatting | services, files | – | out of scope here |

## 2. Modules

* **`MessageHistory`** – a history as a sequence of messages with a role and the ids
  they call or answer; `FillMissing` is the repair at the start of an `act()`,
  `FillOne` done for each message; `WellFormed` is what the completion APIs require. One
  loop iteration of the code is one `FillOne`. The code walks the history from the front and
  steps over the answers it inserts; the model does the messages from the back. Both look
  only at the run of tool messages behind one assistant message, which no other
  insertion changes.
* **`AgentLoop`** – `act()`, the turn, the tool tasks and the prompt. `phase` is the
  await at which the running `act()` hangs:

  | phase | in the code |
  |---|---|
  | `idle` | no `act()` |
  | `request` | middleware and completion; `Reply(n)` appends a message with `n` calls |
  | `announce` | failed calls are answered, `ToolCallEvent`s are handled |
  | `draining` | `queue.get()` in `_run_tools_concurrently` |
  | `yielding` | the consumer handles a result event, the save after it runs |
  | `joining` | `gather` after a `CancelledError` |
  | `after` | end of one iteration: injections, cancellation, hooks |

  `task[c]` is where the task of a call stands, from its creation over the decision
  under the lock, the prompt and the run to its end. `Finish` is the end of a task:
  answer appended, event queued. `stray` are the calls of generators that an interrupt
  dropped and that nobody has closed yet. The consumer closes only the outermost
  generator (`aclosing` in `app.py`); the others are closed by the event loop when they
  are collected, which is `CloseStray`. `disturbed` remembers that this, or a message
  injected among answers, ever happened. Middleware, hooks and compaction appear as
  their effect: `Leave` ends the `act()`, `AfterTurn` may append a message and ask again.
* **`TurnControl`** – the same loop with tools abstracted and the decisions in detail:
  the middleware pipeline in its order, compaction with its failure in the middle
  (`Summarize` replaces the history, `Compact` resets the middlewares), the hooks with
  their retry counts, profile switches at any time, reload and clear. A unit of tokens
  is one completion.
* **`SessionLog`** – `messages.jsonl` as a sequence, `metadata.json` as its
  `total_messages`. Any number of coroutines save or patch at once; every await of the
  code lies between two actions (`StartSave`, `PlanSave`, one `WriteLine` per line,
  `Commit`; `StartPatch`, `CommitPatch`). `Interrupt`, `Crash`, `Load`, `StartOver`,
  `Reset` and `Repair` come in between.
* **`Rewind`** – checkpoints, the snapshot a file tool takes before it runs and its write
  later, edits by the user, unreadable files, and the index the front end remembers per
  shown message. A compaction takes three steps, as in the code: the history is replaced
  (`Summarize`), the rest of `compact()` succeeds or fails, and the screen removes the old
  widgets later; `leftover` counts those whose messages are gone from the history, also
  after a clear that failed. A file's content is the number of the edit that wrote it; a
  checkpoint's `was` is a history variable with what a restore ought to give back.
* **`AcpServer`** – session objects, the map from ids to them, and two requests at a time,
  each one step up to its first await. The prompt of a session waits for its start-up,
  the model, an update to the client or its tools; the terminal tool is followed from
  the creation of the terminal to its release. `patient` says that the client has one
  prompt or command under way and loads no open session.
* **`AcpUpdates`** – the calls of one reply and the queue of their events, from the
  announcement of a call to its result, with the plan of the todo tool and the backup of
  edited files. The request to the model may fail at any point of the reply (`RequestFails`).
* **`FrontEnd`** – the app's message handlers, the escape key, the poll of the loops,
  teleport and the turns as coroutines suspended at named awaits, with the prompts'
  panels and their lock. `calm` is the user who waits.
* **`EventView`, `Windowing`, `Panels`, `QuestionPanel`** – what becomes of the events of
  a turn on the screen; which part of the history is mounted; the panels in place of the
  text box; and the form of the question tool. Each has the keys and messages that are
  still under way when their panel is gone.
* **`ChatInput`, `Suggestions`, `FileIndex`** – the text box with its history file, the
  popup with its thread, and the index with its rebuilds and its watcher.
* **`Profiles`** – profiles, the effective configuration each gives, the tools offered,
  the three ways the profile changes while a turn runs, and the two ways the configuration
  under it is read again: `Reload` with the prompt, `Refresh` (`refresh_config`) without it.
  Both read the files only, so the tools listed on the command line (`only`) are lost.
* **`Discovery`** – the search for agents, skills and tools through the directories, with
  files that break or change and modules that stay loaded.
* **`KeptMessages`** – the user's messages that survive compactions, as a fold over the
  history from its end with a budget.
* **`Completion`** – a history put into a request and a reply put together from its
  chunks, in four API styles, with retries; messages without text, chunks of calls without
  an index (the read fails) and thoughts with the signatures they are sent back under.
* **`ShellCommands`, `FileTools`, `ToolPermissions`, `ToolSources`** – a process with its
  child, timeout and cancellations, for the shell and search tools, hooks and "!" lines;
  the file tools with concurrent calls; the decision on a call and what its answer
  changes, with rules that are globs (`Fnmatch`: a `*` stands for any words, brackets for
  one of their letters, the glob of a directory for those below it) and a saved list whose
  entries are words; remote tools with their caches, panels and switches.
* **`ConfigLayers`, `ConfigFiles`** – layers with trust, lock and merging, the project's
  with a file that is looked for once, may be missing, may break, and whose folder is judged
  by the closest entry of the list; the files that
  all instances write.
* **`EventFeed`, `RemoteStream`, `RemoteSession`** – the promise to a reader of recorded
  events, the reader with its reconnections that implements it (`INSTANCE EventFeed` at
  the end of `RemoteStream`), and the rows and questions its events become.
* **`SessionMetadata`** – title and loops in memory, in the metadata object and on disk,
  with a writer per coroutine and an await in each.
* **`SavedSessions`** – which session a process finds, lists, continues and resumes, with
  the pointer of each terminal, the picker and files that are torn, foreign or old.
* **`LogTail`** – the debug console, which pages backwards through the log while a thread
  reads the lines that are written.
* **`Teleport`** – the states of the repository against those of a teleport: the refs
  that fetches have seen and never prune, a first GitHub remote that need not be origin, and
  the closing of the service, which waits between the executor's end and the moment the loop
  forgets the service.
* **`SignIn`**, **`Voice`**, **`Narrator`** – one per protocol with a
  service.
* **`MCAgentLoop`** – the policy, needs and malformed calls for TLC. **`MCParts`** – small
  instances of the parts that share no state with one another: a behaviour chooses one of
  them at its start and leaves the others alone. `RemoteStream`, `RemoteSession`,
  `FrontEnd`, `SessionMetadata`, `ShellCommands` and `ToolPermissions`, which theorems are
  about, keep their own variables there and their own properties; the rest use the variables `v1`, `v2`, ...
  in turn, and their properties are conjunctions of the parts' own, one per question, each
  conjunct under the name of its part. The other modules are checked as they are.
* **`AgentLoopProofs`, `TurnControlProofs`, `SessionLogProofs`, `RewindProofs`,
  `AcpServerProofs`, `PermissionProofs`, `PartsProofs`** – theorems; `PermissionProofs` is
  about `ToolPermissions`, `PartsProofs` about `FrontEnd`, `ShellCommands`,
  `SessionMetadata`, `RemoteStream` and `RemoteSession`, and the first section of
  `AgentLoopProofs` about what the repair of `MessageHistory` computes. **`Recursion`** – lemmas on induction over
  naturals, recursive functions and sums, for all of them.

How they hang together: `AgentLoop` extends `MessageHistory`; the proof modules and
`MCParts` extend what they are about. The parts of `MCParts` are joined to the loop by
abstraction instead of composition: in `FrontEnd` and `AcpServer` a turn is what `AgentLoop`
allows it to be (it ends, waits for a prompt, or is cancelled at any await), `Completion`
requires of a history what `WellFormedUndisturbed` gives it, `RemoteSession` consumes the
events in the order `ReadsTheFeed` guarantees, `Windowing` and `EventView` take the events
of a turn as `AgentLoop` emits them.

Definitions marked "Mutant" are plausible bugs, used to see that each property notices
one; no specification refers to them.

## 3. Runs

| Run | Bounds | Result |
|---|---|---|
| `AgentLoop` | 4 calls, 2 messages, one permission, one malformed and one forbidden call | 155 thousand states, all properties hold |
| `AgentLoopRepair` | 3 calls, 3 messages | `EveryCallAnswered` violated |
| `TurnControl` | 5 turns, 3 tokens, threshold 2, context 2, 2 hooks, 1 retry, both read-only profiles | 129 thousand states, all hold, no deadlock |
| `TurnControlHooks` | 2 hooks, 3 retries as in the code | `RetriesPerHookBounded` violated |
| `TurnControlMode` | both profiles, no compaction | `LastNoticeIsMode` violated |
| `SessionLog` | 2 savers, 1 patcher, 3 messages, 3 lines, 2 faults | 1.2 million states, all hold |
| `SessionLogTwice` | 1 saver, 2 messages, 1 interrupt | `WrittenOnce` violated |
| `Rewind` | 1 file, 2 tools, 4 messages, 2 submissions, 2 edits, 1 fault (5 messages or 2 faults checked once: 11 and 10 million) | 2.5 million states, all hold |
| `RewindIndex` | no edits | `WidgetIndexIsWhereItLanded` violated |
| `Acp` | 2 ids, 2 session objects, 2 requests at a time | 1.1 million states, all hold |
| `AcpCancel` | 1 id, 1 object, 2 requests | `CancelIsFinal` violated |
| `Parts` | see below | 1.8 million states, all hold |

The instances of `Parts`:

| Part | Bounds | States |
|---|---|---|
| front end | 2 tasks, 1 lost message | 141,132 |
| stream | 3 events, 2 in flight, 1 unnumbered, 3 retries | small |
| remote session | 1 call, 2 waits, 3 tasks | 262,813 |
| metadata | 1 loop, 2 sessions, 3 steps | 130,969 |
| sessions | 1 terminal, 2 directories, 2 sessions, 3 starts, 2 turns | 17,154 |
| completion | 2 items of 2 pieces, 5 messages, 3 tries | 132,072 |
| voice, narrator | 2 recordings with a text; 3 turns | 1,741 and 601 |
| tool sources | one server and one connector with a tool, 2 refreshes, 2 switches | 61,724 |
| layers | three layers, one field of two values, 1 change; the project's file there, missing or broken | 165,872 |
| config files | 2 instances, 3 starts, 2 patterns | 53,317 |
| permissions | the command lines of `CommandLines`, the files of `PathMarks`, 2 answers | 229,933 |
| commands | 2 cancellations, four kinds | 185 |
| file tools | 2 calls on a file of up to 3 lines, pages of 2 | 54,785 |
| text box | 2 entries, 4 keys, one line of another instance | 25,715 |
| suggestions | 3 texts | 8,217 |
| file index | 2 changes, 1 switch | 28,379 |
| questions | three forms, 9 keys, 1 late message | 7,877 |
| teleport | 2 teleports, 2 branches, 2 remotes, 1 piece of work | 195,874 |
| sign-in | 2 attempts (3 checked once: 2.3 million) | 32,642 |
| windowing | 1 turn, 1 change (2 and 2 checked once: 2.8 million) | 11,099 |
| event view | 2 pieces, 1 input (3 and 2 checked once: 413,044) | 26,124 |
| panels | 3 keys, 2 prompts (4 keys checked once: about 80,000) | 17,218 |
| profiles | 2 threads, 2 configurations, 1 list of the command line, 2 changes | 151,296 |
| updates | 2 calls of five kinds | 16,333 |
| discovery | 2 directories, 2 names, 1 reload (2 reloads checked once: 92,822) | 15,746 |
| compaction | 3 messages of three lengths, 1 other, 1 failure | 13,761 |
| log | 4 lines, 1 of them no entry, pages of 1, 2 openings | 27,283 |

Why the bounds are enough. `AgentLoop`: two calls compete for one prompt while a third
fails to resolve and a fourth is refused; two messages give an interrupted `act()` and
the one after it, and two calls of the first can still be alive in the second. With
three messages (the repair run) a stray answer can disturb a repair. `TurnControl`: two
hooks are the least with which one hook's retry restarts another; the retry limit is 1
there (3 in the code) because the states grow with its power, and the hook run uses 3.
The counter of turns also counts user messages, compactions and failed requests, so
with 5 turns and 3 tokens either limit may be reached first, and the overrun of the other. The threshold is reached, passed and fallen
below within the context bound. `SessionLog`: three concurrent writers, each with at least
two messages to lose and two faults, so that a crash can follow an interrupt or a reset.
`Rewind`: two tools racing on one file are worse than on two; four messages hold a
submission, an answer with a gap, the placeholder in it and the next submission, or what a
compaction left, a submission and its answer. `Acp`: an id that is closed,
loaded again or forked needs a second object, a cancel or close against a prompt a second
request. In `Parts` two of whatever races are there (turns, recordings, attempts,
teleports, calls, instances, threads), and one step more than the shortest way to the
race; where a larger instance was checked once, the table says so. `Panels` assumes that keys
pressed before a prompt's panel came are handled within its half-second of grace.
`CHECK_DEADLOCK FALSE` stands where the bounds use up every action or where the user may
simply stop; `TurnControl` needs no such bound and is checked for deadlock.

What the passing runs say of the code:

* `PromptHoldsLock`, `NoRedundantPrompt`: one prompt at a time, its call holds the lock,
  and an "always" given to one of several waiting calls spares the others.
* `RequestAfterTools`: the model is never asked while a tool of its turn is running;
  what may still run was left by an interrupt and is being cancelled.
* `WellFormedUndisturbed`: interrupts, refusals and failures anywhere leave a history
  that the next `act()` makes well formed, as long as no interrupt left a tool behind.
* `CancelledActAsksNoMore`: after a "no" or an interrupt no injected message restarts
  the act.
* `InterruptedToolsEnd`, `TurnSettles` (liveness): interrupted tools end, a turn never
  hangs at its queue.
* `TurnsWithinLimit`, `OverrunBounded`: `--max-turns` bounds the requests although its
  counter counts other things; `--max-tokens` is overrun by at most a summary and a turn.
  Both limits exist in programmatic mode only, which has no `/compact` command; a manual
  compaction is therefore not among the actions.
* `ModeNoticed`, `WarnedOnce`: after a complete pipeline the notices name exactly the
  active read-only profile, and the context warning comes once. Excepted are a reload
  and a compaction that fails between history and middlewares, which reset one without
  the other (`outOfStep`).
* `HookRetriesBounded`, `ActEnds`: retries are bounded, by a product over the hooks, and
  every `act()` with a turn limit ends.
* `CountWithinFile`, `ConfirmedOnDisk`, `ConfirmedInMemory`: overlapping writers,
  interrupts and crashes may write messages twice but lose none that a completed save
  covered, neither on disk nor in a resumed history. Placeholders are excepted: the code
  inserts them into a part that was saved, and they are never written. A crash inside a
  line and failing disks are not modelled.
* `SequentialLogExact`: without overlap and faults the log is exactly the history.
* `CheckpointsAtTheirMessages`, `EditsUndoable`, `WidgetRestoresItsOwn`: checkpoints stay
  at their messages through repairs, compactions and rewinds; restoring any of them
  undoes every tool edit, that of two racing tools and of a tool that an interrupt left
  behind included; and a wrong index never restores another message's files. Files that
  could not be read at the snapshot are excepted (the code takes them for absent), and so are
  widgets whose messages a compaction or a clear has removed from the history and left on the
  screen: when it fails after `messages.reset` (`agent_loop.py:1728-1742`), nothing removes
  them (`app.py:2214-2218`), and their indices do fit the checkpoints of later messages.
* `OneWorkerPerSession`, `ClosedIsQuiet`, `CallbackFollowsMode`, `TerminalsOwned`,
  `CancelAnswered`, `StrayToolsEnd`: what an ACP client with one request per session at
  work can rely on. An impatient client may start a second worker; a cancel during the
  start-up may be lost (`AcpCancel`).
* `CalmUserServed`: a user who waits for an interrupt before submitting again
  has one turn, every message sent and every prompt on the screen.
* `ReadsTheFeed`, `RemoteFollowed`: the events of a remote workflow are
  read once and in order through any number of connections; each row is made and ended
  once; an open input can be answered, and nothing else. Excepted are inputs whose payload
  or schema cannot be read, which the code never makes pending, and the one that was asked
  while the answer to an earlier one was under way (`forgotten`): `send_prompt` clears the
  pending request after its await (`remote_events_source.py:115`).
* `WaitsEnd` (liveness): interrupts, the end of a dictation and commands come to their end
  though model, service and command do not, and a reader of remote events that is behind
  catches up, while the connections fail fewer times in a row than the code retries.
* `MetadataSettles`: after writers that did not overlap a restart finds title and loops.
* `EndsClean`: a command that is over leaves no process behind, but for cancelled searches
  and hooks, and was told of.
* `ShownWhole`: well-formed histories become requests each API style accepts (a reply
  without text is an empty message, taken for acceptable only as the last one), replies arrive
  and are shown whole, and the beginning of one that just ends, each piece in its place; a
  single thought goes back under its own signature (several are joined); an ACP client can
  follow each call, and a prompt that fails leaves it in doubt only about calls that never
  began or stood behind a failed plan; a compaction keeps what the user wrote last. Microphone, narration, popup, index and debug console show what
  there is, although tasks, timers, callbacks and threads end late. Of the console: a page that is read while lines
  wait to be handed over may show lines twice or leave some out (`slipped`), and so may a
  log that is emptied under it (`emptied`); the lines written while it is open still end what
  is shown, once and in order.
* `PermissionsHold`: a command runs without a question only if the defaults or the user's
  answers allow each of its commands and each directory outside the project; what ran
  silently or was allowed for good is not asked for again; a saved answer is found by the
  next start. Answers are read as what the code makes of them, globs: an "always" for
  `sudo rm *` allows every `sudo rm`, although `bash.py:240-243` says that sensitive commands
  always ask, and of several commands with one pattern in a line only the first is looked up
  (`LikeGiven`). What is never allowed in passing is a sensitive command by an answer about
  the whole tool. Three cases are excepted. A word or a directory with brackets does not match
  its own rule and is asked for again (`HasBrackets`). A list that is saved replaces the default list, and what only
  that allowed is asked for again (`displaced`). And the question names, and the answer
  saves, only what the rules of the session leave over: a call that is partly allowed for
  the session and then for good is asked for again after a restart (`agent_loop.py:1500`).
* `ToolsRight`: what runs unasked is what the profile on the screen lets run; files hold
  what was written; answers are the user's; a teleport carries the work over. Excepted are an
  edit whose file another call empties or writes between its reading and its writing
  (`overlapped`: that edit is lost), a first GitHub remote that is not origin, and branches
  deleted there, whose refs no fetch prunes (`Gone`).
* `SettingsHold`: discovery, switches, trust, approvals, drafts, keys, panels and profiles
  are what the user set, now and at the next start; every session whose save ended is found
  and loads, each process writes to a session of its own directory, and no session holds
  two conversations. A project's layer is trusted as the list says, or has no file and
  nothing marked. After `refresh_config` the system prompt may name other tools than are
  offered, until it is written again (`stale`). Excepted (`mixed`) are a resume under a running turn and one of a
  session whose metadata is of another version. A saved message with a Unicode line
  separator makes a session unfindable: `_is_valid_session` splits the lines with
  `splitlines()`, `load_session` at newlines only.

Excuses. Where the code does get a case wrong, the module still has the case as a step and
records it in a history variable (`hurried`, `overlapped`, `torn`, `slipped`, `crossed`,
`adrift`, `mixed` and the like, each explained where it is declared); the property is
claimed for the behaviours without it. The hazards in `PROJECT.json` say which.

Besides the mutant of each property of a run in `PROJECT.json`, the part modules define
mutants of their own ("Mutant" in a comment, in front of the definition they replace):
each violates the property of its part.

The violated runs are the findings of `PROJECT.json`: tools left running by an interrupt
can make the repair miss a call; one hook can be retried more often than documented; the
last mode notice may be the wrong one; an interrupted save repeats its lines; a shown
message's index may be one too small; a cancel during the start-up of an ACP prompt is lost.

## 4. Fairness

`AgentLoop` assumes that the event loop runs every coroutine that is ready: the reader of
a filled queue, a task that was created, cancelled or answered, the closing of a dropped
generator. Nothing is assumed of the model, the user and the tools, which may never
answer. `TurnControl` assumes that a turn goes on (`WF_vars(Turn)`): completions have
the API timeout, hooks their own, and a stuck tool or prompt is outside this module.
`AcpServer`: a pending cancellation is delivered, dropped
generators are closed, a terminal's release is answered; not that the model, the user or a
tool ends. `FrontEnd`: tasks and interrupts that are ready go on; again nothing of the
model or the user. `RemoteStream`: the service sends what is recorded, the reader reads and
reconnects; connections may break at any time. `Voice`: the drain timeout passes and
cancelled tasks unwind. `ShellCommands`: the timeout of a command passes and a ready
coroutine runs; neither shell nor child need ever end. A behaviour of `PartsSpec` is of one
part, so one condition there may stand for a step of each of several. The other modules have safety
properties only.

## 5. Proofs

The theorems hold for every value of the constants that satisfies the named assumptions
(bounds are naturals and there may be at least one session, savers and patchers are disjoint, profiles are "plan" and "chat",
the policy is one of three answers per call; a shell command has a first word, which is
none of the wildcards).

* `AgentLoopProofs!IInv` adds to the type invariant and the two prompt invariants what a
  step needs: `LiveTasks` (a live task belongs to the batch being drained or is stray or
  cancelled) and `FreshIds` (ids above `issued` have no task, a batch not started is not
  live). `RequestAfterTools` follows at the phases where nothing is drained. Without
  `FreshIds` a reply could hand out an id whose task is alive. `CancellationIsFinal`, an
  action property, rests on one more invariant: a request is only pending while the act
  is not cancelled.
* `AskedWithWellFormed` (`WellFormedUndisturbed`) has an invariant of its own, `HInv`, for
  behaviours in which nothing is disturbed. `OwnTasks` says that every live task is one of
  the running turn, so no answer can come from elsewhere. `HistoryByPhase` says how much of
  the history is answered: when idle, any calls may lack answers, but each message's
  answers stand right behind it; at a request and after the tools nothing is missing; in
  between, all but the last turn is answered, and of that turn exactly the calls whose task
  is done (`TurnAnswers`; after an interrupt only some of them). The lemmas on histories
  supply what the steps do to such a history: `RepairMakesWhole` (the repair answers every call, for histories and
  batches of any length) and `WholeIsWellFormed`. It follows `FillMissing` from the end of the
  history; histories are described by positions (`Answered`, `Stops`), which
  an insertion in front shifts, where suffixes would have to be taken apart anew.
* `TurnControlProofs!IInv`: `StepsCountTurns` and `TokensByPhase` say how far the counters
  are ahead in each phase, since a limit is read two steps before the request counts;
  `NoticesRemembered` and `WarningRemembered` tie the middlewares' flags to the history;
  `LastHookCounted` says that nothing restarts the last hook's count within an act.
* `HookBudgetHolds`: the retries of one message are paid for by the hooks' counts, where a
  count of hook `h` is worth what the hooks before it can use up once more, since a retry of
  `h` lets them start again (`Worth`, `BudgetKept`). `MostRetries` solves its recursion for
  any number of hooks, and the sums are those of `Recursion`.
* `SessionLogProofs!IInv`: `CountWithinFile` is not inductive by itself, because a writer
  carries a count across its awaits. `ReadWithinFile` bounds the count read,
  `GoalReachable` the count to be set by the lines there and to come, `GoalInHistory`
  excludes that the history shrinks meanwhile.
* `SessionLogProofs!DInv`, for `ConfirmedOnDisk` and `ConfirmedInMemory`: every total there
  is, in the metadata or read by a writer, counts only messages that are in the file, and
  the one a saver will set counts only messages that are there or that it still has to
  write (`TotalsKept`). Overlapping writers may write messages twice and set totals in any
  order; that each total is covered is why none is lost.
* `SessionLogProofs!SInv`, for `SequentialLogExact`: while writers do not overlap and nothing
  fails there is one writer, the file is the beginning of the history, the total is its length,
  and what a saver still writes is the piece up to its goal (`RestExact`).
* `RewindProofs` has one invariant per theorem on top of the types. `CInv`: no checkpoint
  lies behind the place where a repair inserts, so inserting moves none. `EInv`: all checkpoints track
  the same files, and a file a tool has a snapshot of but has not written yet is among them
  (`EditsTracked`), which is what a tool that an interrupt left behind
  relies on. `WInv`: a shown message is at its index or before the end of the history, and
  indices rise in the order shown, so a wrong index points at no later message's
  checkpoint. It speaks of the widgets that show the history there is (`Shown`), for those a
  compaction left behind have any index. It needs `CInv`, the other two do not need each other.
* `PartsProofs!StreamInv` says that what is in flight on a connection are the events
  from the cursor up to the service's position, and that the cursor counts what was
  consumed. From it each step of `RemoteStream` is a step of `EventFeed` or a stutter, for
  any log, number of retries and number of events in flight; that the reader catches up
  is liveness and stays with TLC.
* `AcpServerProofs!IInv` ties requests to objects. `ObjectsOK` says that a registered
  object is open and registered under its own id, so no prompt or command begins at one that
  is being closed; `RequestsOK` that a request names an object there is and a prompt request
  has its prompt. `OneWorkerPerSession` is not inductive: a second worker could come with a
  second object of the same id. Of a patient client, `OneOpen` and `LoadsAlone` exclude that
  (all but one object of an id are closed, and an id is loaded once at a time and only when
  all are), `OneCommand` and `ClosingHasNone` a second one at the same object or one left
  behind by a close. What the tasks of an object do is summed up in `ObjectStep`, which is
  all that most parts of the invariant need to know of fourteen of the actions.
* `PartsProofs!RemoteInv`: `RowsShown` says that a row on the screen is what the
  translator has told of its call, less what it has emitted and not been shown yet
  (`RowOf`), and lists what can be emitted together; `RowsKept` what is left of it once the
  stream has ended. Without it an ended row could be ended again by an event still on its
  way. `CallsTold` and `WaitsInOrder` are for questions: a task that starts belongs to a call
  that was told of, and a new input comes only when the earlier ones are over, so an answer
  under way is meant for the request that is asked.
* `PartsProofs!FrontInv`: the lock is held by exactly the asker between its acquisition and
  the end of its prompt (`LockHeld`), and `_agent_task` is a task at work or about to be, never one
  cancelled before it ran (`TasksInOrder`); these hold for any user. For the calm one,
  `OneActor` says that submission and escape do not overlap, `OneTurn` that no other task
  than `_agent_task` is alive while an interrupt waits for it, and `ApprovalShown` that the
  panel of a rewind is gone before a turn can ask. `CalmUserServed` alone does not exclude a
  second live task that is about to clear the flag of the first.
* `PartsProofs!CommandInv`: a tool's command and a "!" line end by different code, so each has
  its conjunct (`ToolRuns`, `LineRuns`) that says at each await whether shell and child may
  still be there and what was told so far. For a line, what was told twice is told of a
  cancel that came after the first telling.
* `PermissionProofs!PermInv`, for `NothingRunsUnasked`: each rule, each word that a list has
  beyond the default ones and a permission for the whole tool is something the user gave
  (`RulesGiven`, `ListsGiven`, `ToolGiven`). What makes it more than bookkeeping is that a
  question names each session pattern once, for the first command that has it. So a pattern
  that covers this command has to cover the others with the same pattern, for commands of
  any length: `PatternExtends` says that the pattern of a command which another one's pattern
  covers is no shorter, `SamePattern` that therefore both are covered. That holds of answers
  without wildcards (`PlainMatch`); of one with wildcards what it matches counts as given.
* `PermissionProofs!PermHist`, for the rest of `PermissionsHold`: settings only grow while no saved list
  displaced the default one (`SettingsGrow`), and a question asks for exactly what is
  uncovered (`AskedNow`), so an answer leaves nothing to ask. `SavedHolds` says what the file must hold
  for the call that was answered; that the next start then decides "always" follows from it
  (`SavedIsKept`). With globs a rule need not cover the command it was made from
  (`OwnPattern` is about words without brackets), so that what ran silently stays silent rests
  on another fact: what a line requires only shrinks as lists grow (`FewerRequired`).
* `PartsProofs!MetaInv`: while writers do not overlap there is one, it writes the session the logger is
  on (`OneWriter`), and what it carries across its await is what it leaves alone: a save the
  metadata in memory, the others the file's title or loops (`Carries`). Thus memory and file
  agree but for loops that are on their way (`LoopsInMemory`, `LoopsOnDisk`, `TitleOnDisk`).
  A file without a writer is `MetadataSettles`; with one it says nothing, which is why that
  property is not inductive.

The attempt to prove `PermissionsHold` corrected the model. Without the exception for
calls that are partly allowed it failed at an answer whose question left out what a session rule covered; and
arms of a `CASE` in `ToolPermissions`, `ConfigLayers` and `SignIn` overlapped, which leaves
to the tool what the code decides by their order.

`Recursion` states induction over a set of naturals instead of a predicate (the library's
theorems take an operator as a parameter, which the provers cannot instantiate) and derives
from it that a recursive function on `0..N` exists, has the values its equation says and is
the only one, and that `SumFunction` may be taken apart at any element.

Only model-checked: liveness (`InterruptedToolsEnd`, `TurnSettles`, `ActEnds`,
`CancelAnswered`, `StrayToolsEnd`, `WaitsEnd`), which needs fairness and `ENABLED`, and of
`Parts` the type invariant and `ShownWhole`, `SettingsHold` and `ToolsRight`: they are conjunctions over parts that have no inductive invariant stated yet
(of the parts with theorems, the types are proved, each under its own name). All invariants
of the runs `AgentLoop`, `TurnControl`, `SessionLog`, `Rewind` and `Acp` are proved.

## 6. Not modelled, and the plan

Not modelled:

* telemetry, experiments and tracing (best effort; only the metadata they persist is in
  `SessionLog`), the command line but for the session it chooses (`SavedSessions`), programmatic
  mode (one `act()` with the limits of `TurnControl`), session ids that agree in their first
  eight characters, update checks and plan offers, rendering, themes, prompts' text;
* of the ACP server: capabilities, the replay of a loaded history, listing and naming
  sessions; of the remote translator: the content of rows beyond their identity and end;
* the transports of MCP and of the web tools, HTTP and authentication of the backends,
  audio devices: external, as they are used;
* validation and migration of the configuration, fuzzy scores, .gitignore patterns: data;
* `cli/textual_ui/message_queue.py` and the widget `queued_messages.py`: nothing creates them;
* a crash inside a line of the log, failing disks outside `Rewind` and `FileTools`.

What a next step would take up, in this order:

1. Theorems: `KeptMessages` within its budget, by the recursion of `Recursion`;
   `FileTools!FilesRight` and `Panels!OwnAnswers`, the safety properties of `ToolsRight` with
   the most actors.
2. `ToolTurn`, an abstract turn (calls are issued, each is answered once, then the model is
   asked), implemented by `AgentLoop` while nothing is disturbed.
3. `FrontEnd` composed with `Profiles` and `Panels`, which share the bottom panel.
4. Listing and replay of ACP sessions.
