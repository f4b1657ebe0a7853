-------------------------------- MODULE MCParts --------------------------------
(***************************************************************************)
(* Small instances of the parts of the system that do not share state: in  *)
(* each behaviour one of them runs, chosen at the start.  The modules this *)
(* one extends have their own variables, which rest in one initial state   *)
(* while another part runs; the others share v1, v2, ...                   *)
(* A part with k variables uses the first k of them; the rest stay 0.      *)
(***************************************************************************)
EXTENDS RemoteStream, RemoteSession, FrontEnd, SessionMetadata, ShellCommands,
        ToolPermissions

\* Lines for the shell tool: each a sequence of commands.
CommandLines ==
  {<<>>, <<<<"vim">>>>, <<<<"ls", "out">>>>, <<<<"ls", "out/sub">>>>, <<<<"find", "-exec">>>>,
   <<<<"git", "push">>, <<"ls">>>>, <<<<"git", "push", "x">>, <<"rm", "x">>>>,
   <<<<"sudo", "rm", "*">>>>, <<<<"sudo", "rm", "[ab]">>>>, <<<<"sudo", "rm", "x">>>>,
   <<<<"aws", "*", "x">>>>, <<<<"aws", "s3", "ls", "x">>, <<"aws", "s3", "ls">>>>}

\* Paths for a file tool, each with its marks.
PathMarks == {{}, {"out", "sensitive"}, {"odd"}, {"scratchpad"}}

\* Saved sessions.
Sessions ==
  {<<"user", "text">>, <<"user", "calls", "text", "user", "text">>,
   <<"user", "text", "user", "injected", "text">>,
   <<"user", "calls", "text", "injected", "user">>}

\* Forms for the question tool.
Single == [multi |-> FALSE, hideOther |-> FALSE]
Several == [multi |-> TRUE, hideOther |-> FALSE]
SeveralListed == [multi |-> TRUE, hideOther |-> TRUE]
Forms == {<<Several>>, <<Single, Several>>, <<Several, SeveralListed>>}

\* Configurations: what an allowlist names, what the files disable.
ProfileBases ==
  {[enabled |-> {}, disabled |-> {"grep"}, lean |-> TRUE, off |-> {"remote"}],
   [enabled |-> {"bash", "exit_plan_mode"}, disabled |-> {}, lean |-> TRUE, off |-> {}]}

\* The directories of agents, skills and tools: the project's, then the user's.
SearchPaths == <<"project", "user">>

VARIABLES part,
  v1, v2, v3, v4, v5, v6, v7, v8, v9, v10, v11, v12, v13, v14, v15, v16, v17, v18, v19, v20,
  v21, v22

Voice == INSTANCE Voice WITH
  MaxRecordings <- 2, MaxTexts <- 1,
  state <- v1, current <- v2, task <- v3, recorder <- v4, queue <- v5, fed <- v6,
  timer <- v7, key <- v8, crashed <- v9, texts <- v10, typed <- v11, unasked <- v12

Narrator == INSTANCE Narrator WITH
  MaxTurns <- 3,
  generation <- v1, tracked <- v2, state <- v3, summary <- v4, stoppable <- v5, speech <- v6,
  speaking <- v7, player <- v8, finished <- v9

Completion == INSTANCE Completion WITH
  MaxItems <- 2, MaxPieces <- 2, MaxHistory <- 5, MaxTries <- 3,
  style <- v1, stream <- v2, history <- v3, said <- v4, indexed <- v5, reply <- v6,
  dones <- v7, phase <- v8, tries <- v9, events <- v10, parser <- v11, total <- v12,
  cut <- v13

Sources == INSTANCE ToolSources WITH
  Server <- {"s"}, ProfileOnly <- {}, Connector <- {"c"}, Tool <- {"t"}, MaxRefreshes <- 2,
  MaxToggles <- 2,
  registry <- v1, integrated <- v2, available <- v3, heard <- v4, failed <- v5,
  connectors <- v6, lock <- v7, jobs <- v8, cut <- v9, config <- v10, file <- v11,
  panel <- v12, toggles <- v13, wish <- v14, sneaked <- v15, refreshes <- v16, toggled <- v17

Layers == INSTANCE ConfigLayers WITH
  Value <- {<<<<"a", 1>>>>, <<<<"b", 1>>, <<"a", 2>>>>}, MaxChanges <- 1,
  strategy <- v1, store <- v2, mark <- v3, above <- v4, found <- v5, listed <- v6,
  layer <- v7, build <- v8, config <- v9, changes <- v10

Files == INSTANCE ConfigFiles WITH
  Instance <- {"i", "j"}, Pattern <- {"p", "q"}, MaxStarts <- 3,
  trustFile <- v1, lists <- v2, session <- v3, allowFile <- v4, memory <- v5, phase <- v6,
  starts <- v7, decided <- v8, approved <- v9, overrun <- v10, behind <- v11

FileTools == INSTANCE FileTools WITH
  Call <- {"c", "d"}, MaxBytes <- 2, MaxLines <- 3,
  disk <- v1, job <- v2, at <- v3, text <- v4, offset <- v5, got <- v6, state <- v7,
  expected <- v8, overlapped <- v9, moved <- v10

Box == INSTANCE ChatInput WITH
  Text <- {"", "a"}, MaxEntries <- 2, MaxKeys <- 4, HurryAllowed <- TRUE, MaxOthers <- 1,
  mode <- v1, text <- v2, start <- v3, last <- v4, navigating <- v5, original <- v6,
  loaded <- v7, moved <- v8, area <- v9, body <- v10, entries <- v11, index <- v12,
  temp <- v13, file <- v14, adding <- v15, log <- v16, draft <- v17, hurried <- v18,
  unnoticed <- v19, overlapped <- v20, keys <- v21, others <- v22

Suggestions == INSTANCE Suggestions WITH
  Slash <- {"/a", "/z"}, Path <- {"@a", "@b", "@z"}, Matching <- {"/a", "@a", "@b"},
  MaxTexts <- 3,
  text <- v1, due <- v2, active <- v3, commands <- v4, path <- v5, futures <- v6,
  worker <- v7, ui <- v8, calls <- v9, popup <- v10, overtaken <- v11, texts <- v12

Index == INSTANCE FileIndex WITH
  Threshold <- 2, MaxChanges <- 2, MaxToggles <- 1,
  fs <- v1, index <- v2, rooted <- v3, task <- v4, cancel <- v5, walked <- v6, todo <- v7,
  lock <- v8, caller <- v9, enabled <- v10, watcher <- v11, events <- v12, batch <- v13,
  missed <- v14, mixed <- v15, shut <- v16, changes <- v17, toggles <- v18

Questions == INSTANCE QuestionPanel WITH
  Form <- Forms, Options <- 2, MaxKeys <- 9, MaxLate <- 1,
  form <- v1, at <- v2, cursor <- v3, answers <- v4, selections <- v5, texts <- v6,
  input <- v7, late <- v8, posted <- v9, crashed <- v10, ticked <- v11, confirmed <- v12,
  strayed <- v13, keys <- v14

Teleporting == INSTANCE Teleport WITH
  Job <- 1..2, Branch <- {"main", "side"}, Main <- "main", MaxWork <- 1,
  head <- v1, on <- v2, dirty <- v3, remote <- v4, tracked <- v5, github <- v6, job <- v7,
  end <- v8, info <- v9, service <- v10, used <- v11, shut <- v12, told <- v13,
  started <- v14, version <- v15, slipped <- v16, work <- v17

SignIn == INSTANCE SignIn WITH
  MaxFlows <- 2,
  host <- v1, process <- v2, flow <- v3, cut <- v4, next <- v5, active <- v6, view <- v7,
  running <- v8, pending <- v9, before <- v10, file <- v11, env <- v12, stored <- v13,
  dropped <- v14, mislaid <- v15, unsaved <- v16

Window == INSTANCE Windowing WITH
  TailSize <- 2, BatchSize <- 2, Session <- Sessions, MaxTurns <- 1, MaxChanges <- 1,
  history <- v1, screen <- v2, cursor <- v3, backfill <- v4, button <- v5, loading <- v6,
  turn <- v7, next <- v8, adrift <- v9, cutOff <- v10, turns <- v11, changes <- v12

View == INSTANCE EventView WITH
  Call <- {"c"}, MaxPieces <- 2, MaxInputs <- 1,
  turn <- v1, todo <- v2, replies <- v3, current <- v4, unfolding <- v5, bottom <- v6,
  row <- v7, tracked <- v8, result <- v9, folded <- v10, compact <- v11, torn <- v12,
  doubled <- v13, stuck <- v14, pieces <- v15, inputs <- v16

Panels == INSTANCE Panels WITH
  Menu <- {"config", "theme", "voice", "mcp", "form", "session"}, MaxKeys <- 3,
  MaxPrompts <- 2,
  bottom <- v1, mounted <- v2, inbox <- v3, at <- v4, pos <- v5, made <- v6, preview <- v7,
  file <- v8, config <- v9, shown <- v10, stale <- v11, prompt <- v12, young <- v13,
  verdict <- v14, wanted <- v15, crashed <- v16, hurried <- v17, twice <- v18,
  overlapped <- v19, hasty <- v20, keys <- v21

Profiles == INSTANCE Profiles WITH
  Threads <- {"thread1", "thread2"}, Bases <- ProfileBases, Lists <- {{"edit", "remote"}},
  MaxChanges <- 2,
  file <- v1, base <- v2, only <- v3, active <- v4, cached <- v5, inited <- v6, prompt <- v7,
  stale <- v8, label <- v9, switching <- v10, gen <- v11, press <- v12, after <- v13,
  job <- v14, turn <- v15, before <- v16, panel <- v17, mixed <- v18, ran <- v19,
  crashed <- v20, changes <- v21

Updates == INSTANCE AcpUpdates WITH
  Kind <- {"bash", "edit", "todo", "other", "unknown"}, Calls <- 2,
  kind <- v1, args <- v2, path <- v3, phase <- v4, answer <- v5, outbox <- v6, queue <- v7,
  at <- v8, decided <- v9, told <- v10, disk <- v11, bak <- v12, read <- v13, backup <- v14,
  crossed <- v15

Discovery == INSTANCE Discovery WITH
  Paths <- SearchPaths, Kinds <- {"agents", "skills", "tools"}, MaxReloads <- 1,
  kind <- v1, disk <- v2, known <- v3, left <- v4, found <- v5, seen <- v6, reloads <- v7

Kept == INSTANCE KeptMessages WITH
  Sizes <- {1, 5, 9}, RequestSize <- 3, BytesPerToken <- 2, MarkerSize <- 3, MaxTokens <- 4,
  MaxMessages <- 3, MaxOthers <- 1, MaxFailures <- 1,
  history <- v1, sent <- v2, others <- v3, failures <- v4

Saved == INSTANCE SavedSessions WITH
  Terminal <- {"tty"}, Dir <- {"here", "there"}, MaxSessions <- 2, MaxStarts <- 3,
  MaxTurns <- 2,
  disk <- v1, order <- v2, pointer <- v3, proc <- v4, whole <- v5, mixed <- v6, starts <- v7,
  turns <- v8

Log == INSTANCE LogTail WITH
  PageSize <- 1, Height <- 1, Noise <- {2}, MaxLines <- 4, MaxOpens <- 2,
  first <- v1, written <- v2, position <- v3, newLines <- v4, open <- v5, view <- v6,
  cursor <- v7, more <- v8, filling <- v9, skip <- v10, pending <- v11, slipped <- v12,
  emptied <- v13, opens <- v14

-----------------------------------------------------------------------------
(* The shared variables from the k-th on. *)

From22 == <<v22>>
From19 == <<v19, v20, v21, From22>>
From18 == <<v18, From19>>
From17 == <<v17, From18>>
From16 == <<v16, From17>>
From15 == <<v15, From16>>
From14 == <<v14, From15>>
From13 == <<v13, From14>>
From12 == <<v12, From13>>
From11 == <<v11, From12>>
From10 == <<v10, From11>>
From9 == <<v9, From10>>
From8 == <<v8, From9>>
From5 == <<v5, v6, v7, From8>>
From1 == <<v1, v2, v3, v4, From5>>

Idle22 == v22 = 0
Idle19 == v19 = 0 /\ v20 = 0 /\ v21 = 0 /\ Idle22
Idle18 == v18 = 0 /\ Idle19
Idle17 == v17 = 0 /\ Idle18
Idle16 == v16 = 0 /\ Idle17
Idle15 == v15 = 0 /\ Idle16
Idle14 == v14 = 0 /\ Idle15
Idle13 == v13 = 0 /\ Idle14
Idle12 == v12 = 0 /\ Idle13
Idle11 == v11 = 0 /\ Idle12
Idle10 == v10 = 0 /\ Idle11
Idle9 == v9 = 0 /\ Idle10
Idle8 == v8 = 0 /\ Idle9
Idle5 == v5 = 0 /\ v6 = 0 /\ v7 = 0 /\ Idle8
Idle1 == v1 = 0 /\ v2 = 0 /\ v3 = 0 /\ v4 = 0 /\ Idle5

StreamIdle == StreamInit
RemoteIdle == RemoteInit /\ asking = {}
FrontEndIdle == FrontInit /\ calm
MetadataIdle == MetaInit
CommandsIdle == CommandInit /\ kind = "bash"
PermissionsIdle ==
  PermInit /\ watched = <<"bash", <<>>>> /\ toml.allow["bash"] = NoList

\* All of them but the one that runs.
IdleBut(p) ==
  /\ p # "stream" => StreamIdle
  /\ p # "remote" => RemoteIdle
  /\ p # "front end" => FrontEndIdle
  /\ p # "metadata" => MetadataIdle
  /\ p # "commands" => CommandsIdle
  /\ p # "permissions" => PermissionsIdle

own == <<streamVars, remoteVars, frontVars, metaVars, commandVars, permVars>>
all == <<part, own, From1>>

PartsInit ==
  /\ \/ part = "stream" /\ StreamInit /\ Idle1
     \/ part = "remote" /\ RemoteInit /\ Idle1
     \/ part = "front end" /\ FrontInit /\ Idle1
     \/ part = "metadata" /\ MetaInit /\ Idle1
     \/ part = "commands" /\ CommandInit /\ Idle1
     \/ part = "permissions" /\ PermInit /\ Idle1
     \/ part = "voice" /\ Voice!Init /\ Idle13
     \/ part = "narrator" /\ Narrator!Init /\ Idle10
     \/ part = "completion" /\ Completion!Init /\ Idle14
     \/ part = "tool sources" /\ Sources!Init /\ Idle18
     \/ part = "layers" /\ Layers!Init /\ Idle11
     \/ part = "config files" /\ Files!Init /\ Idle12
     \/ part = "file tools" /\ FileTools!Init /\ Idle11
     \/ part = "text box" /\ Box!Init
     \/ part = "suggestions" /\ Suggestions!Init /\ Idle13
     \/ part = "file index" /\ Index!Init /\ Idle19
     \/ part = "questions" /\ Questions!Init /\ Idle15
     \/ part = "teleport" /\ Teleporting!Init /\ Idle18
     \/ part = "sign-in" /\ SignIn!Init /\ Idle17
     \/ part = "windowing" /\ Window!Init /\ Idle13
     \/ part = "event view" /\ View!Init /\ Idle17
     \/ part = "panels" /\ Panels!Init /\ Idle22
     \/ part = "profiles" /\ Profiles!Init /\ Idle22
     \/ part = "updates" /\ Updates!Init /\ Idle16
     \/ part = "discovery" /\ Discovery!Init /\ Idle8
     \/ part = "compaction" /\ Kept!Init /\ Idle5
     \/ part = "sessions" /\ Saved!Init /\ Idle9
     \/ part = "log" /\ Log!Init /\ Idle15
  /\ IdleBut(part)

Runs(p, step) == part = p /\ step /\ UNCHANGED part

StreamDoes(step) ==
  Runs("stream", step) /\ UNCHANGED <<remoteVars, frontVars, metaVars, commandVars, permVars, From1>>
RemoteDoes(step) ==
  Runs("remote", step) /\ UNCHANGED <<streamVars, frontVars, metaVars, commandVars, permVars, From1>>
FrontEndDoes(step) ==
  Runs("front end", step) /\ UNCHANGED <<streamVars, remoteVars, metaVars, commandVars, permVars, From1>>
MetadataDoes(step) ==
  Runs("metadata", step) /\ UNCHANGED <<streamVars, remoteVars, frontVars, commandVars, permVars, From1>>
CommandsDoes(step) ==
  Runs("commands", step) /\ UNCHANGED <<streamVars, remoteVars, frontVars, metaVars, permVars, From1>>
PermissionsDoes(step) ==
  Runs("permissions", step) /\ UNCHANGED <<streamVars, remoteVars, frontVars, metaVars, commandVars, From1>>
VoiceDoes(step) == Runs("voice", step) /\ UNCHANGED <<own, From13>>
NarratorDoes(step) == Runs("narrator", step) /\ UNCHANGED <<own, From10>>
CompletionDoes(step) == Runs("completion", step) /\ UNCHANGED <<own, From14>>
SourcesDoes(step) == Runs("tool sources", step) /\ UNCHANGED <<own, From18>>
LayersDoes(step) == Runs("layers", step) /\ UNCHANGED <<own, From11>>
FilesDoes(step) == Runs("config files", step) /\ UNCHANGED <<own, From12>>
FileToolsDoes(step) == Runs("file tools", step) /\ UNCHANGED <<own, From11>>
BoxDoes(step) == Runs("text box", step) /\ UNCHANGED own
SuggestionsDoes(step) == Runs("suggestions", step) /\ UNCHANGED <<own, From13>>
IndexDoes(step) == Runs("file index", step) /\ UNCHANGED <<own, From19>>
QuestionsDoes(step) == Runs("questions", step) /\ UNCHANGED <<own, From15>>
TeleportingDoes(step) == Runs("teleport", step) /\ UNCHANGED <<own, From18>>
SignInDoes(step) == Runs("sign-in", step) /\ UNCHANGED <<own, From17>>
WindowDoes(step) == Runs("windowing", step) /\ UNCHANGED <<own, From13>>
ViewDoes(step) == Runs("event view", step) /\ UNCHANGED <<own, From17>>
PanelsDoes(step) == Runs("panels", step) /\ UNCHANGED <<own, From22>>
ProfilesDoes(step) == Runs("profiles", step) /\ UNCHANGED <<own, From22>>
UpdatesDoes(step) == Runs("updates", step) /\ UNCHANGED <<own, From16>>
DiscoveryDoes(step) == Runs("discovery", step) /\ UNCHANGED <<own, From8>>
KeptDoes(step) == Runs("compaction", step) /\ UNCHANGED <<own, From5>>
SavedDoes(step) == Runs("sessions", step) /\ UNCHANGED <<own, From9>>
LogDoes(step) == Runs("log", step) /\ UNCHANGED <<own, From15>>

PartsNext ==
  \/ StreamDoes(StreamNext)
  \/ RemoteDoes(RemoteNext)
  \/ FrontEndDoes(FrontNext)
  \/ MetadataDoes(MetaNext)
  \/ CommandsDoes(CommandNext)
  \/ PermissionsDoes(PermNext)
  \/ VoiceDoes(Voice!Next)
  \/ NarratorDoes(Narrator!Next)
  \/ CompletionDoes(Completion!Next)
  \/ SourcesDoes(Sources!Next)
  \/ LayersDoes(Layers!Next)
  \/ FilesDoes(Files!Next)
  \/ FileToolsDoes(FileTools!Next)
  \/ BoxDoes(Box!Next)
  \/ SuggestionsDoes(Suggestions!Next)
  \/ IndexDoes(Index!Next)
  \/ QuestionsDoes(Questions!Next)
  \/ TeleportingDoes(Teleporting!Next)
  \/ SignInDoes(SignIn!Next)
  \/ WindowDoes(Window!Next)
  \/ ViewDoes(View!Next)
  \/ PanelsDoes(Panels!Next)
  \/ ProfilesDoes(Profiles!Next)
  \/ UpdatesDoes(Updates!Next)
  \/ DiscoveryDoes(Discovery!Next)
  \/ KeptDoes(Kept!Next)
  \/ SavedDoes(Saved!Next)
  \/ LogDoes(Log!Next)

\* The fairness of RemoteStream, ShellCommands, Voice and FrontEnd.  A behaviour is of one part, so
\* that a condition may stand for a step of each.
PartsSpec ==
  /\ PartsInit /\ [][PartsNext]_all
  /\ WF_all(StreamDoes(Send) \/ CommandsDoes(TimesOut) \/ VoiceDoes(Voice!DrainTimeout))
  /\ WF_all(StreamDoes(Read) \/ CommandsDoes(GoesOn) \/ VoiceDoes(Voice!StopReturns))
  /\ WF_all(StreamDoes(Connect) \/ \E r \in Voice!Recording : VoiceDoes(Voice!Unwound(r)))
  /\ \A t \in Task : WF_all(FrontEndDoes(TaskStarts(t) \/ TaskGoesOn(t)))
  /\ \A k \in Asker : WF_all(FrontEndDoes(AskGoesOn(k)))
  /\ \A a \in Actor : WF_all(FrontEndDoes(InterruptGoesOn(a)))

-----------------------------------------------------------------------------
(* Properties *)

\* Type invariants of the parts.
PartsTypeOK ==
  /\ part = "stream" => StreamTypeOK
  /\ part = "remote" => RemoteTypeOK
  /\ part = "front end" => FrontTypeOK
  /\ part = "metadata" => MetaTypeOK
  /\ part = "commands" => CommandTypeOK
  /\ part = "permissions" => PermTypeOK
  /\ part = "voice" => Voice!TypeOK
  /\ part = "narrator" => Narrator!TypeOK
  /\ part = "completion" => Completion!TypeOK
  /\ part = "tool sources" => Sources!TypeOK
  /\ part = "layers" => Layers!TypeOK
  /\ part = "config files" => Files!TypeOK
  /\ part = "file tools" => FileTools!TypeOK
  /\ part = "text box" => Box!TypeOK
  /\ part = "suggestions" => Suggestions!TypeOK
  /\ part = "file index" => Index!TypeOK
  /\ part = "questions" => Questions!TypeOK
  /\ part = "teleport" => Teleporting!TypeOK
  /\ part = "sign-in" => SignIn!TypeOK
  /\ part = "windowing" => Window!TypeOK
  /\ part = "event view" => View!TypeOK
  /\ part = "panels" => Panels!TypeOK
  /\ part = "profiles" => Profiles!TypeOK
  /\ part = "updates" => Updates!TypeOK
  /\ part = "discovery" => Discovery!TypeOK
  /\ part = "compaction" => Kept!TypeOK
  /\ part = "sessions" => Saved!TypeOK
  /\ part = "log" => Log!TypeOK

\* What the user waits for ends: an interrupt in the front end (FrontEnd), the key that
\* ends a dictation although the service never answers (Voice), a command that does not
\* end (ShellCommands), and a reader that has not caught up with what is recorded
\* (RemoteStream).  A behaviour is of one part, so these are one wait.
Waits ==
  \/ requested \/ Behind \/ awaits # "off"
  \/ part = "voice" /\ v8.awaits # Voice!None
WaitsEnd == Waits ~> ~Waits

\* What is shown and sent is whole.  Voice, Narrator, Suggestions, FileIndex and LogTail: late
\* tasks, timers, callbacks and threads touch nothing that came after them; what the user sees
\* of the microphone, the narration and the completions is what happens, the index holds the
\* files there are, and the log is shown once.  Completion: in every API style a well-formed
\* history becomes a request the API accepts, and the reply arrives whole, each piece once and
\* in place.  EventView and Windowing: so it is shown, with the messages before it, and nothing
\* spins when the turn is over.  AcpUpdates: an ACP client can follow each call, and a prompt
\* that fails leaves none of them open but for a failed plan.  KeptMessages: a compaction keeps what the user wrote last.
ShownWhole ==
  /\ part = "voice" => Voice!ListeningIsShown
  /\ part = "narrator" => Narrator!OnlyTheLastTurnIsRead
  /\ part = "suggestions" => Suggestions!SuggestionsFit
  /\ part = "file index" => Index!IndexTrue /\ Index!NothingLeft
  /\ part = "log" => Log!LogShownOnce
  /\ part = "completion" => /\ Completion!RequestsAccepted /\ Completion!ReplyArrivesWhole
                            /\ Completion!ThoughtsProved
  /\ part = "windowing" => Window!ShownOnceInOrder /\ Window!NoGap
  /\ part = "updates" => Updates!CallsFollowed /\ Updates!ErrorsExplained
  /\ part = "compaction" => Kept!LatestKept
  /\ part = "event view" => View!TextShownOnce /\ View!NothingSpins

\* FileTools: files hold what was written, and are read whole, through an ACP client as well
\* (AcpUpdates); QuestionPanel: the answers are those the user confirmed, and those of
\* prompts their own (Panels); Teleport: the session continues the work there is, and no
\* teleport uses what another one has closed; Profiles: what runs unasked is what the
\* profile on the screen lets run.
ToolsRight ==
  /\ part = "file tools" => FileTools!FilesRight
  /\ part = "questions" => Questions!AnswersConfirmed
  /\ part = "teleport" => Teleporting!WorkCarriedOver /\ Teleporting!ServiceFresh
  /\ part = "panels" => Panels!OwnAnswers
  /\ part = "profiles" => Profiles!NothingUnseen
  /\ part = "updates" => Updates!EditsKept

\* ToolSources, ConfigLayers and ConfigFiles: what was discovered, switched, trusted and
\* approved is what the agent works with and what the next start finds; ChatInput: neither
\* the draft nor a line of the history gets lost; SignIn: the key that arrives is the one
\* the user waits for, and none else; Panels: each panel does what the user does in it;
\* Profiles: the profile on the screen is the one in force, and the text box is given back;
\* Discovery: a name stands for the definition that its kind's rule selects; SavedSessions:
\* a session that was saved is found, holds one conversation and is of its directory.
SettingsHold ==
  /\ part = "tool sources" => Sources!NothingLost /\ Sources!TogglesKept
  /\ part = "layers" => Layers!LayersRight
  /\ part = "config files" => Files!DecisionsKept /\ Files!ApprovalsKept
  /\ part = "text box" => Box!DraftKept /\ Box!LinesKept
  /\ part = "sign-in" => SignIn!OnlyWantedKeys /\ SignIn!KeysArrive
  /\ part = "panels" => Panels!PanelsServe
  /\ part = "profiles" => Profiles!ShownIsTrue /\ Profiles!Unfrozen
  /\ part = "discovery" => Discovery!NamesResolved
  /\ part = "sessions" => Saved!ConversationsApart /\ Saved!OwnDirectory /\ Saved!SavedIsFound
===============================================================================
