--------------------------- MODULE AcpServerProofs ---------------------------
(***************************************************************************)
(* The safety of the ACP server for every number of session ids, of        *)
(* session objects and of requests in flight.                              *)
(***************************************************************************)
EXTENDS AcpServer, FiniteSetTheorems, TLAPS

\* The kinds of requests that name an object, and those that will register an id.
WithLoop == {"replay", "fork", "close", "prompt", "cancel", "mode", "model", "compact", "reload"}
WithId   == {"load", "replay", "fork"}

\* Objects come into being in order, with an id; an object that is registered is
\* open, and registered under its own id.
ObjectsOK ==
  /\ \A l \in Loop : sid[l] # NoId <=> l <= created
  /\ bypass \subseteq 1..created
  /\ \A i \in Id : sessions[i] # NoLoop => sid[sessions[i]] = i /\ status[sessions[i]] = "open"

\* A request names an object there is, or the id it will register, or neither.
RequestsOK ==
  \A r \in Req :
    /\ req[r].kind \in WithLoop => req[r].loop \in 1..created
    /\ req[r].kind \in WithId => req[r].id \in Id
    /\ req[r].kind = "prompt" => prompt[req[r].loop] # "none"
    /\ req[r].kind = "close" => status[req[r].loop] \in {"closing", "closed"}

\* What a patient client keeps true: an object has one prompt or command, ...
OneCommand ==
  patient => \A r, q \in Req :
    {req[r].kind, req[q].kind} \subseteq {"prompt", "compact", "reload"}
      /\ req[r].loop = req[q].loop => r = q

\* ... and no command once it is being closed;
ClosingHasNone ==
  patient => \A r \in Req :
    req[r].kind \in {"compact", "reload"} => status[req[r].loop] = "open"

\* of the objects of an id all but one are closed, ...
OneOpen ==
  patient => \A l, k \in Loop : sid[l] = sid[k] /\ sid[l] # NoId /\ l # k =>
               status[l] = "closed" \/ status[k] = "closed"

\* ... and all while the id is loaded or forked, which happens once at a time.
LoadsAlone ==
  patient => \A r \in Req : req[r].kind \in {"load", "fork"} =>
               /\ \A l \in Loop : sid[l] = req[r].id => status[l] = "closed"
               /\ \A q \in Req : req[q].id = req[r].id => q = r

\* The inductive invariant.
IInv ==
  /\ TypeOK /\ ObjectsOK /\ RequestsOK
  /\ OneCommand /\ ClosingHasNone /\ OneOpen /\ LoadsAlone
  /\ ClosedIsQuiet /\ CallbackFollowsMode /\ TerminalsOwned

-----------------------------------------------------------------------------
(* The type invariant in three parts: maps, sets of objects and requests. *)

MapsOK ==
  /\ sessions \in [Id -> 0..MaxLoops] /\ created \in 0..MaxLoops
  /\ sid \in [Loop -> Id \cup {NoId}]
  /\ status \in [Loop -> {"unused", "open", "closing", "closed"}]
  /\ prompt \in [Loop -> {"none", "startup", "model", "update", "tools", "joining"}]
  /\ callback \in [Loop -> 0..MaxLoops]
  /\ tool \in [Loop -> {"none", "asking", "creating", "opened", "releasing"}]
  /\ terms \in [Loop -> 0..1]

SetsOK ==
  /\ tasks \subseteq Loop /\ experiments \subseteq Loop
  /\ bypass \subseteq Loop /\ unsettled \subseteq Loop
  /\ wanted \subseteq Loop /\ cancelled \subseteq wanted
  /\ \A l \in wanted : prompt[l] # "none"
  /\ toolCancel \subseteq Loop /\ stray \subseteq Loop
  /\ \A l \in toolCancel \cup stray : tool[l] # "none"

Request == [kind : {"none", "load", "replay", "fork", "close", "prompt",
                    "cancel", "mode", "model", "compact", "reload"},
            id : Id \cup {NoId}, loop : 0..MaxLoops]

ReqOK ==
  req \in [Req -> Request]

\* The three parts are the type invariant.
LEMMA Types == TypeOK <=> patient \in BOOLEAN /\ MapsOK /\ SetsOK /\ ReqOK
  BY DEF TypeOK, MapsOK, SetsOK, ReqOK, Request

-----------------------------------------------------------------------------
(* What the operators do that several actions use *)

\* The object of a request exists and has an id.
LEMMA RequestLoop ==
  ASSUME IInv, NEW r \in Req, req[r].kind \in WithLoop
  PROVE  /\ req[r].loop \in Loop /\ req[r].loop <= created
         /\ sid[req[r].loop] \in Id
<1>1. req[r].loop \in 1..created /\ created \in 0..MaxLoops
  BY DEF IInv, RequestsOK, TypeOK
<1>2. req[r].loop \in Loop
  BY <1>1, ServerAssumption DEF Loop
<1> QED
  BY <1>1, <1>2 DEF IInv, ObjectsOK, TypeOK

\* The next object to be created.
LEMMA NextLoop ==
  ASSUME IInv, created < MaxLoops
  PROVE  created + 1 \in Loop /\ created \in Nat
  BY ServerAssumption, Types DEF IInv, MapsOK, Loop

\* A request that is answered by a new object is still a request.
LEMMA Taken ==
  ASSUME NEW q \in Request, NEW c \in 0..MaxLoops
  PROVE  [q EXCEPT !.kind = "replay", !.loop = c] \in Request
  BY DEF Request

\* A registered object exists and has the id.
LEMMA RegisteredLoop ==
  ASSUME IInv, NEW i \in Id, sessions[i] # NoLoop
  PROVE  sessions[i] \in Loop /\ sid[sessions[i]] = i /\ status[sessions[i]] = "open"
  BY ServerAssumption DEF IInv, ObjectsOK, TypeOK, Loop, NoLoop

\* The end of a tool changes no prompt but one that waits for it.
LEMMA ToolOverTypes ==
  ASSUME MapsOK, NEW l \in Loop, ToolOver(l)
  PROVE  /\ prompt' \in [Loop -> {"none", "startup", "model", "update", "tools", "joining"}]
         /\ tool' \in [Loop -> {"none", "asking", "creating", "opened", "releasing"}]
         /\ \A k \in Loop : tool'[k] = IF k = l THEN "none" ELSE tool[k]
         /\ \A k \in Loop : prompt[k] = "none" <=> prompt'[k] = "none"
  BY DEF MapsOK, ToolOver, Tool

\* What becomes of a tool that is cancelled.
LEMMA ToolInterruptedCases ==
  ASSUME IInv, NEW l \in Loop, ToolInterrupted(l)
  PROVE  \/ tool[l] \in {"asking", "creating"} /\ ToolOver(l) /\ UNCHANGED terms
         \/ tool[l] = "opened" /\ Tool(l, "releasing") /\ UNCHANGED <<terms, prompt, stray>>
         \/ tool[l] = "releasing" /\ ToolOver(l) /\ terms' = [terms EXCEPT ![l] = @ - 1]
<1>1. tool[l] \in {"asking", "creating", "opened", "releasing"}
  BY DEF ToolInterrupted, IInv, TypeOK
<1> QED
  BY <1>1 DEF ToolInterrupted

\* What becomes of a prompt that is cancelled: it joins its tools, ends, or goes on.
Joins(l) ==
  /\ prompt[l] # "none" /\ Goes(l, "joining") /\ cancelled' = cancelled \ {l}
  /\ toolCancel' = IF tool[l] # "none" THEN toolCancel \cup {l} ELSE toolCancel
  /\ UNCHANGED <<wanted, tasks, experiments, req, stray>>

Dropped(l) ==
  /\ prompt[l] # "none" /\ PromptOver(l)
  /\ stray' = IF prompt[l] = "update" /\ tool[l] # "none" THEN stray \cup {l} ELSE stray
  /\ UNCHANGED <<experiments, toolCancel>>

GoesOn(l) ==
  /\ prompt[l] # "none" /\ Goes(l, "model") /\ cancelled' = cancelled \ {l}
  /\ experiments' = experiments \ {l}
  /\ UNCHANGED <<wanted, tasks, req, toolCancel, stray>>

\* These are the ways of Interrupted.
LEMMA InterruptedCases ==
  ASSUME NEW l \in Loop, Interrupted(l)
  PROVE  Joins(l) \/ Dropped(l) \/ GoesOn(l)
<1>1. CASE prompt[l] \in {"tools", "joining"} /\ Goes(l, "joining")
  BY <1>1 DEF Interrupted, Joins, Dropped, GoesOn
<1>2. CASE prompt[l] \in {"startup", "model"} /\ PromptOver(l)
  BY <1>2 DEF Interrupted, Joins, Dropped, GoesOn
<1>3. CASE prompt[l] = "update"
  BY <1>3 DEF Interrupted, Joins, Dropped, GoesOn
<1>4. CASE prompt[l] = "startup" /\ Goes(l, "model")
  BY <1>4 DEF Interrupted, Joins, Dropped, GoesOn
<1> QED
  BY <1>1, <1>2, <1>3, <1>4 DEF Interrupted

-----------------------------------------------------------------------------
(* Steps of the tasks of an object *)

\* Whatever a task of an object does, the registry and the modes stay, no prompt
\* begins, a closed object gets no task, and requests are answered together with
\* their prompt or stay as they are.
ObjectStep ==
  /\ UNCHANGED <<patient, sessionVars, modeVars>>
  /\ \A k \in Loop : prompt[k] = "none" => prompt'[k] = "none"
  /\ \A k \in tasks' : k \in tasks \/ status[k] = "open"
  /\ \A r \in Req :
       \/ req'[r] = Free /\ req[r].kind \in {"prompt", "cancel"}
       \/ req'[r] = req[r] /\ (req[r].kind = "prompt" => prompt'[req[r].loop] # "none")
  /\ req' = [r \in Req |-> req'[r]]

\* The end of a prompt, a step of one, and the end of a tool are such steps.
LEMMA PromptOverStep ==
  ASSUME IInv, NEW l \in Loop, PromptOver(l), UNCHANGED <<patient, sessionVars, modeVars>>
  PROVE  ObjectStep
  BY Types DEF IInv, MapsOK, ReqOK, Request, RequestsOK, PromptOver, Spawned, ObjectStep,
     sessionVars,
     WithLoop

\* A prompt that goes on to another await.
LEMMA GoesStep ==
  ASSUME IInv, NEW l \in Loop, NEW p, Goes(l, p), p # "none", prompt[l] # "none",
         UNCHANGED <<patient, sessionVars, modeVars, tasks, req>>
  PROVE  ObjectStep
  BY Types DEF IInv, MapsOK, ReqOK, Request, RequestsOK, Goes, ObjectStep, sessionVars,
     WithLoop

\* A tool that ends.
LEMMA ToolStep ==
  ASSUME IInv, NEW l \in Loop, ToolOver(l),
         UNCHANGED <<patient, sessionVars, modeVars, tasks, req>>
  PROVE  ObjectStep
<1>1. MapsOK
  BY Types DEF IInv
<1>2. \A k \in Loop : prompt[k] = "none" <=> prompt'[k] = "none"
  BY <1>1, ToolOverTypes
<1>3. \A r \in Req : req[r].kind = "prompt" => req[r].loop \in Loop /\ prompt[req[r].loop] # "none"
  BY RequestLoop DEF IInv, RequestsOK, WithLoop
<1> QED
  BY <1>2, <1>3, Types DEF ObjectStep, IInv, ReqOK

\* All tasks of an object make only such steps.
LEMMA ObjectSteps ==
  ASSUME IInv, NEW l \in Loop, PromptTask(l) \/ ToolTask(l) \/ Background(l), UNCHANGED patient
  PROVE  ObjectStep
<1> USE Types DEF IInv, MapsOK, ReqOK, Request, RequestsOK, WithLoop, sessionVars,
      promptVars, modeVars, toolVars, ObjectStep
<1>1. CASE TasksEnd(l)
  BY <1>1 DEF TasksEnd
<1>2. CASE ExperimentsEnd(l)
  BY <1>2 DEF ExperimentsEnd
<1>3. CASE Ready(l)
  BY <1>3, PromptOverStep, GoesStep DEF Ready, Goes, Free
<1>4. CASE Updated(l)
  BY <1>4, GoesStep DEF Updated, Goes
<1>5. CASE Ends(l)
  BY <1>5, PromptOverStep DEF Ends, Free
<1>6. CASE CallTool(l)
  BY <1>6, GoesStep DEF CallTool, Goes, Tool
<1>7. ASSUME NEW b \in BOOLEAN, Answered(l, b) PROVE ObjectStep
  BY <1>7, ToolStep DEF Answered, Tool
<1>8. CASE Created(l)
  <2>1. CASE prompt' = [prompt EXCEPT ![l] = IF @ = "tools" THEN "update" ELSE @]
    BY <1>8, <2>1 DEF Created
  <2>2. CASE ToolOver(l)
    BY <1>8, <2>2, ToolStep DEF Created
  <2> QED
    BY <1>8, <2>1, <2>2 DEF Created
<1>9. CASE Exited(l)
  BY <1>9 DEF Exited, Tool
<1>10. CASE Released(l)
  BY <1>10, ToolStep DEF Released, Tool
<1>11. CASE ToolInterrupted(l)
  BY <1>11, ToolStep, ToolInterruptedCases DEF ToolInterrupted, Tool
<1>12. CASE CloseStray(l)
  BY <1>12 DEF CloseStray
<1>13. CASE Interrupted(l)
  BY <1>13, PromptOverStep, GoesStep, InterruptedCases DEF Interrupted, Joins, Dropped,
    GoesOn, Goes, Free
<1>14. CASE ToolsJoined(l)
  BY <1>14, PromptOverStep DEF ToolsJoined, Free
<1> QED
  BY <1>1, <1>2, <1>3, <1>4, <1>5, <1>6, <1>7, <1>8, <1>9, <1>10, <1>11, <1>12, <1>13, <1>14
    DEF PromptTask, ToolTask, Background

\* Every step keeps the types of the registry, the prompts and the tools.
LEMMA MapsOKKept == ASSUME IInv, Next PROVE MapsOK'
<1> USE ServerAssumption, Types DEF IInv, Loop, NoLoop, sessionVars, promptVars, modeVars,
      toolVars, MapsOK, ObjectsOK, RequestsOK, WithLoop, WithId
<1>1. ASSUME NEW i \in Id, NewSession(i), UNCHANGED patient PROVE MapsOK'
  BY <1>1 DEF NewSession, Register
<1>2. ASSUME NEW r \in Req, NEW i \in Id, StartLoad(r, i), UNCHANGED patient PROVE MapsOK'
  BY <1>2 DEF StartLoad, NextSlot, Free
<1>3. ASSUME NEW r \in Req, FinishLoad(r), UNCHANGED patient PROVE MapsOK'
  BY <1>3 DEF FinishLoad, Register
<1>4. ASSUME NEW r \in Req, Replayed(r), UNCHANGED patient PROVE MapsOK'
  BY <1>4, RequestLoop DEF Replayed, Spawned, Free
<1>5. ASSUME NEW r \in Req, NEW i \in Id, NEW j \in Id, StartFork(r, i, j), UNCHANGED patient
      PROVE  MapsOK'
  BY <1>5 DEF StartFork, NextSlot, Free
<1>6. ASSUME NEW r \in Req, FinishFork(r), UNCHANGED patient PROVE MapsOK'
  <2>1. PICK b \in BOOLEAN : Register(req[r].id, b)
    BY <1>6 DEF FinishFork
  <2> QED
    BY <1>6, <2>1, RequestLoop, SMTT(20) DEF FinishFork, Register, Free
<1>7. ASSUME NEW r \in Req, NEW i \in Id, StartClose(r, i), UNCHANGED patient PROVE MapsOK'
  BY <1>7 DEF StartClose, NextSlot, Free
<1>8. ASSUME NEW r \in Req, FinishClose(r), UNCHANGED patient PROVE MapsOK'
  BY <1>8, RequestLoop DEF FinishClose, Free
<1>9. ASSUME NEW l \in Loop, TasksEnd(l), UNCHANGED patient PROVE MapsOK'
  BY <1>9 DEF TasksEnd
<1>10. ASSUME NEW l \in Loop, ExperimentsEnd(l), UNCHANGED patient PROVE MapsOK'
  BY <1>10 DEF ExperimentsEnd
<1>11. ASSUME NEW r \in Req, NEW i \in Id, StartPrompt(r, i), UNCHANGED patient PROVE MapsOK'
  BY <1>11 DEF StartPrompt, NextSlot, Free
<1>12. ASSUME NEW l \in Loop, Ready(l), UNCHANGED patient PROVE MapsOK'
  <2>1. CASE Goes(l, "model") /\ UNCHANGED <<cancelled, wanted, tasks, req>>
    BY <2>1, <1>12 DEF Ready, Goes, PromptOver, Spawned, Free
  <2>2. CASE PromptOver(l)
    BY <2>2, <1>12 DEF Ready, Goes, PromptOver, Spawned, Free
  <2> QED
    BY <1>12, <2>1, <2>2 DEF Ready
<1>13. ASSUME NEW l \in Loop, Updated(l), UNCHANGED patient PROVE MapsOK'
  BY <1>13 DEF Updated, Goes
<1>14. ASSUME NEW l \in Loop, Ends(l), UNCHANGED patient PROVE MapsOK'
  BY <1>14 DEF Ends, PromptOver, Spawned, Free
<1>15. ASSUME NEW l \in Loop, CallTool(l), UNCHANGED patient PROVE MapsOK'
  BY <1>15 DEF CallTool, Goes, Tool
<1>16. ASSUME NEW l \in Loop, NEW b \in BOOLEAN, Answered(l, b), UNCHANGED patient PROVE MapsOK'
  BY <1>16, ToolOverTypes, ZenonT(40) DEF Answered, Tool, ToolOver
<1>17. ASSUME NEW l \in Loop, Created(l), UNCHANGED patient PROVE MapsOK'
  <2>1. CASE /\ Tool(l, "opened") /\ terms' = [terms EXCEPT ![l] = @ + 1]
             /\ prompt' = [prompt EXCEPT ![l] = IF @ = "tools" THEN "update" ELSE @]
    <3>1. terms[l] = 0
      BY <1>17 DEF Created, TerminalsOwned
    <3>2. terms' \in [Loop -> 0..1]
      BY <2>1, <3>1
    <3>3. prompt' \in [Loop -> {"none", "startup", "model", "update", "tools", "joining"}]
      BY <2>1
    <3>4. tool' \in [Loop -> {"none", "asking", "creating", "opened", "releasing"}]
      BY <2>1 DEF Tool
    <3>5. UNCHANGED <<sessions, created, sid, status, callback>>
      BY <1>17 DEF Created
    <3> QED
      BY <3>2, <3>3, <3>4, <3>5
  <2>2. CASE ToolOver(l) /\ UNCHANGED terms
    BY <2>2, <1>17, ToolOverTypes DEF Created
  <2> QED
    BY <1>17, <2>1, <2>2 DEF Created
<1>18. ASSUME NEW l \in Loop, Exited(l), UNCHANGED patient PROVE MapsOK'
  BY <1>18 DEF Exited, Tool
<1>19. ASSUME NEW l \in Loop, Released(l), UNCHANGED patient PROVE MapsOK'
  <2>1. terms[l] = 1 /\ terms' \in [Loop -> 0..1]
    BY <1>19 DEF Released, TerminalsOwned
  <2> QED
    BY <1>19, <2>1, ToolOverTypes DEF Released
<1>20. ASSUME NEW l \in Loop, ToolInterrupted(l), UNCHANGED patient PROVE MapsOK'
  <2>1. CASE tool[l] \in {"asking", "creating"} /\ ToolOver(l) /\ UNCHANGED terms
    BY <2>1, <1>20, ToolOverTypes DEF ToolInterrupted
  <2>2. CASE tool[l] = "opened" /\ Tool(l, "releasing") /\ UNCHANGED <<terms, prompt, stray>>
    BY <2>2, <1>20 DEF ToolInterrupted, Tool
  <2>3. CASE tool[l] = "releasing" /\ ToolOver(l) /\ terms' = [terms EXCEPT ![l] = @ - 1]
    <3>1. terms[l] = 1 /\ terms' \in [Loop -> 0..1]
      BY <2>3 DEF TerminalsOwned
    <3> QED
      BY <1>20, <2>3, <3>1, ToolOverTypes DEF ToolInterrupted
  <2> QED
    BY <1>20, <2>1, <2>2, <2>3, ToolInterruptedCases
<1>21. ASSUME NEW l \in Loop, CloseStray(l), UNCHANGED patient PROVE MapsOK'
  BY <1>21 DEF CloseStray
<1>22. ASSUME NEW r \in Req, NEW i \in Id, StartCancel(r, i), UNCHANGED patient PROVE MapsOK'
  BY <1>22 DEF StartCancel, NextSlot, Free
<1>23. ASSUME NEW l \in Loop, Interrupted(l), UNCHANGED patient PROVE MapsOK'
  <2>1. CASE Joins(l)
    BY <2>1, <1>23 DEF Goes, PromptOver, Spawned, Free, Joins, Dropped, GoesOn, Interrupted
  <2>2. CASE Dropped(l)
    BY <2>2, <1>23 DEF Goes, PromptOver, Spawned, Free, Joins, Dropped, GoesOn, Interrupted
  <2>3. CASE GoesOn(l)
    BY <2>3, <1>23 DEF Goes, PromptOver, Spawned, Free, Joins, Dropped, GoesOn, Interrupted
  <2> QED
    BY <1>23, <2>1, <2>2, <2>3, InterruptedCases
<1>24. ASSUME NEW l \in Loop, ToolsJoined(l), UNCHANGED patient PROVE MapsOK'
  BY <1>24 DEF ToolsJoined, PromptOver, Spawned, Free
<1>25. ASSUME NEW r \in Req, NEW i \in Id, NEW b \in BOOLEAN, StartMode(r, i, b), UNCHANGED patient
      PROVE  MapsOK'
  <2>1. CASE b = TRUE
    BY <2>1, <1>25, RegisteredLoop DEF StartMode, NextSlot, Free
  <2>2. CASE b = FALSE
    BY <2>2, <1>25, RegisteredLoop DEF StartMode, NextSlot, Free
  <2> QED
    BY <1>25, <2>1, <2>2 DEF StartMode
<1>26. ASSUME NEW r \in Req, FinishMode(r), UNCHANGED patient PROVE MapsOK'
  <2>1. req[r].loop \in Loop /\ sid[req[r].loop] \in Id
    BY <1>26, RequestLoop DEF FinishMode
  <2>2. callback' \in [Loop -> 0..MaxLoops]
    BY <1>26, <2>1 DEF FinishMode
  <2> QED
    BY <1>26, <2>2 DEF FinishMode
<1>27. ASSUME NEW r \in Req, NEW i \in Id, NEW k \in {"compact", "reload"}, StartCommand(r, i, k),
             UNCHANGED patient PROVE MapsOK'
  BY <1>27 DEF StartCommand, NextSlot, Free
<1>28. ASSUME NEW r \in Req, NEW i \in Id, StartModel(r, i), UNCHANGED patient PROVE MapsOK'
  BY <1>28 DEF StartModel, NextSlot, Free
<1>29. ASSUME NEW r \in Req, FinishCompact(r), UNCHANGED patient PROVE MapsOK'
  BY <1>29 DEF FinishCompact, Free
<1>30. ASSUME NEW r \in Req, FinishReload(r), UNCHANGED patient PROVE MapsOK'
  BY <1>30, RequestLoop DEF FinishReload, Reconfigured, Spawned, Free
<1>31. ASSUME NEW r \in Req, FinishInstall(r), UNCHANGED patient PROVE MapsOK'
  BY <1>31, RequestLoop DEF FinishInstall, Reconfigured, Free
<1> HIDE DEF IInv, Loop, NoLoop, sessionVars, promptVars, modeVars,
      toolVars, MapsOK, ObjectsOK, RequestsOK, WithLoop, WithId
<1>32. CASE Client /\ UNCHANGED patient
  BY <1>1, <1>2, <1>5, <1>7, <1>11, <1>22, <1>25, <1>27, <1>28, <1>32, ServerAssumption DEF
     Client
<1>33. CASE \E r \in Req : Handler(r) /\ UNCHANGED patient
  BY <1>3, <1>4, <1>6, <1>8, <1>26, <1>29, <1>30, <1>31, <1>33 DEF Handler
<1> QED
  BY <1>9, <1>10, <1>12, <1>13, <1>14, <1>15, <1>16, <1>17, <1>18, <1>19, <1>20, <1>21,
     <1>23, <1>24, <1>32, <1>33 DEF Next, PromptTask, ToolTask, Background


\* Every step keeps the sets of objects: what is cancelled or stray has a prompt or tool.
LEMMA SetsOKKept == ASSUME IInv, Next PROVE SetsOK'
<1> USE ServerAssumption, Types DEF IInv, Loop, NoLoop, sessionVars, promptVars, modeVars,
      toolVars, MapsOK, SetsOK, ObjectsOK, RequestsOK, WithLoop, WithId
<1>1. ASSUME NEW i \in Id, NewSession(i), UNCHANGED patient PROVE SetsOK'
  BY <1>1 DEF NewSession, Register
<1>2. ASSUME NEW r \in Req, NEW i \in Id, StartLoad(r, i), UNCHANGED patient PROVE SetsOK'
  BY <1>2 DEF StartLoad, NextSlot, Free
<1>3. ASSUME NEW r \in Req, FinishLoad(r), UNCHANGED patient PROVE SetsOK'
  BY <1>3 DEF FinishLoad, Register
<1>4. ASSUME NEW r \in Req, Replayed(r), UNCHANGED patient PROVE SetsOK'
  BY <1>4, RequestLoop, SMTT(20) DEF Replayed, Spawned, Free
<1>5. ASSUME NEW r \in Req, NEW i \in Id, NEW j \in Id, StartFork(r, i, j), UNCHANGED patient
      PROVE  SetsOK'
  BY <1>5 DEF StartFork, NextSlot, Free
<1>6. ASSUME NEW r \in Req, FinishFork(r), UNCHANGED patient PROVE SetsOK'
  <2>1. PICK b \in BOOLEAN : Register(req[r].id, b)
    BY <1>6 DEF FinishFork
  <2>2. req[r].kind = "fork" /\ created < MaxLoops /\ req[r].id \in Id
    BY <1>6 DEF FinishFork
  <2>3. created + 1 \in Loop /\ created \in Nat
    BY <2>2, NextLoop
  <2>4. bypass' \subseteq Loop /\ tasks' \subseteq Loop /\ UNCHANGED unsettled
    BY <2>1, <2>3 DEF Register
  <2> QED
    BY <1>6, <2>4 DEF FinishFork
<1>7. ASSUME NEW r \in Req, NEW i \in Id, StartClose(r, i), UNCHANGED patient PROVE SetsOK'
  BY <1>7 DEF StartClose, NextSlot, Free
<1>8. ASSUME NEW r \in Req, FinishClose(r), UNCHANGED patient PROVE SetsOK'
  BY <1>8, RequestLoop DEF FinishClose, Free
<1>9. ASSUME NEW l \in Loop, TasksEnd(l), UNCHANGED patient PROVE SetsOK'
  BY <1>9 DEF TasksEnd
<1>10. ASSUME NEW l \in Loop, ExperimentsEnd(l), UNCHANGED patient PROVE SetsOK'
  BY <1>10 DEF ExperimentsEnd
<1>11. ASSUME NEW r \in Req, NEW i \in Id, StartPrompt(r, i), UNCHANGED patient PROVE SetsOK'
  BY <1>11 DEF StartPrompt, NextSlot, Free
<1>12. ASSUME NEW l \in Loop, Ready(l), UNCHANGED patient PROVE SetsOK'
  <2>1. CASE Goes(l, "model") /\ UNCHANGED <<cancelled, wanted, tasks, req>>
    BY <2>1, <1>12 DEF Ready, Goes, PromptOver, Spawned, Free
  <2>2. CASE PromptOver(l)
    BY <2>2, <1>12 DEF Ready, Goes, PromptOver, Spawned, Free
  <2> QED
    BY <1>12, <2>1, <2>2 DEF Ready
<1>13. ASSUME NEW l \in Loop, Updated(l), UNCHANGED patient PROVE SetsOK'
  BY <1>13 DEF Updated, Goes
<1>14. ASSUME NEW l \in Loop, Ends(l), UNCHANGED patient PROVE SetsOK'
  BY <1>14 DEF Ends, PromptOver, Spawned, Free
<1>15. ASSUME NEW l \in Loop, CallTool(l), UNCHANGED patient PROVE SetsOK'
  BY <1>15 DEF CallTool, Goes, Tool
<1>16. ASSUME NEW l \in Loop, NEW b \in BOOLEAN, Answered(l, b), UNCHANGED patient PROVE SetsOK'
  BY <1>16, ToolOverTypes DEF Answered, Tool, ToolOver
<1>17. ASSUME NEW l \in Loop, Created(l), UNCHANGED patient PROVE SetsOK'
  <2>1. CASE Tool(l, "opened") /\ terms' = [terms EXCEPT ![l] = @ + 1] /\ UNCHANGED stray
    BY <2>1, <1>17, ToolOverTypes DEF Created, Tool, ToolOver
  <2>2. CASE ToolOver(l) /\ UNCHANGED terms
    BY <2>2, <1>17, ToolOverTypes DEF Created, Tool, ToolOver
  <2> QED
    BY <1>17, <2>1, <2>2 DEF Created
<1>18. ASSUME NEW l \in Loop, Exited(l), UNCHANGED patient PROVE SetsOK'
  BY <1>18 DEF Exited, Tool
<1>19. ASSUME NEW l \in Loop, Released(l), UNCHANGED patient PROVE SetsOK'
  BY <1>19, ToolOverTypes DEF Released, Tool, ToolOver
<1>20. ASSUME NEW l \in Loop, ToolInterrupted(l), UNCHANGED patient PROVE SetsOK'
  <2>1. CASE tool[l] \in {"asking", "creating"} /\ ToolOver(l) /\ UNCHANGED terms
    BY <2>1, <1>20, ToolOverTypes DEF ToolInterrupted, Tool, ToolOver
  <2>2. CASE tool[l] = "opened" /\ Tool(l, "releasing") /\ UNCHANGED <<terms, prompt, stray>>
    BY <2>2, <1>20, ToolOverTypes DEF ToolInterrupted, Tool, ToolOver
  <2>3. CASE tool[l] = "releasing" /\ ToolOver(l) /\ terms' = [terms EXCEPT ![l] = @ - 1]
    BY <2>3, <1>20, ToolOverTypes DEF ToolInterrupted, Tool, ToolOver
  <2> QED
    BY <1>20, <2>1, <2>2, <2>3, ToolInterruptedCases
<1>21. ASSUME NEW l \in Loop, CloseStray(l), UNCHANGED patient PROVE SetsOK'
  BY <1>21 DEF CloseStray
<1>22. ASSUME NEW r \in Req, NEW i \in Id, StartCancel(r, i), UNCHANGED patient PROVE SetsOK'
  BY <1>22 DEF StartCancel, NextSlot, Free
<1>23. ASSUME NEW l \in Loop, Interrupted(l), UNCHANGED patient PROVE SetsOK'
  <2>1. CASE Joins(l)
    BY <2>1, <1>23 DEF Goes, PromptOver, Spawned, Free, Joins, Dropped, GoesOn, Interrupted
  <2>2. CASE Dropped(l)
    BY <2>2, <1>23 DEF Goes, PromptOver, Spawned, Free, Joins, Dropped, GoesOn, Interrupted
  <2>3. CASE GoesOn(l)
    BY <2>3, <1>23 DEF Goes, PromptOver, Spawned, Free, Joins, Dropped, GoesOn, Interrupted
  <2> QED
    BY <1>23, <2>1, <2>2, <2>3, InterruptedCases
<1>24. ASSUME NEW l \in Loop, ToolsJoined(l), UNCHANGED patient PROVE SetsOK'
  BY <1>24 DEF ToolsJoined, PromptOver, Spawned, Free
<1>25. ASSUME NEW r \in Req, NEW i \in Id, NEW b \in BOOLEAN, StartMode(r, i, b), UNCHANGED patient
      PROVE  SetsOK'
  <2>1. sessions[i] \in Loop /\ sid[sessions[i]] # NoId
    BY <1>25, RegisteredLoop DEF StartMode
  <2>2. bypass' \subseteq bypass \cup {sessions[i]}
    BY <1>25 DEF StartMode
  <2> QED
    BY <1>25, <2>1, <2>2, ZenonT(40) DEF StartMode
<1>26. ASSUME NEW r \in Req, FinishMode(r), UNCHANGED patient PROVE SetsOK'
  <2>1. req[r].loop \in Loop
    BY <1>26, RequestLoop DEF FinishMode
  <2>2. unsettled' \subseteq Loop
    BY <1>26, <2>1 DEF FinishMode
  <2> QED
    BY <1>26, <2>2 DEF FinishMode
<1>27. ASSUME NEW r \in Req, NEW i \in Id, NEW k \in {"compact", "reload"}, StartCommand(r, i, k),
             UNCHANGED patient PROVE SetsOK'
  BY <1>27 DEF StartCommand, NextSlot, Free
<1>28. ASSUME NEW r \in Req, NEW i \in Id, StartModel(r, i), UNCHANGED patient PROVE SetsOK'
  BY <1>28 DEF StartModel, NextSlot, Free
<1>29. ASSUME NEW r \in Req, FinishCompact(r), UNCHANGED patient PROVE SetsOK'
  BY <1>29 DEF FinishCompact, Free
<1>30. ASSUME NEW r \in Req, FinishReload(r), UNCHANGED patient PROVE SetsOK'
  <2>1. req[r].loop \in Loop
    BY <1>30, RequestLoop DEF FinishReload
  <2>2. bypass' \subseteq Loop /\ unsettled' \subseteq Loop
    BY <1>30, <2>1, ZenonT(40) DEF FinishReload, Reconfigured
  <2> QED
    BY <1>30, <2>1, <2>2 DEF FinishReload, Spawned
<1>31. ASSUME NEW r \in Req, FinishInstall(r), UNCHANGED patient PROVE SetsOK'
  <2>1. req[r].loop \in Loop
    BY <1>31, RequestLoop DEF FinishInstall
  <2>2. bypass' \subseteq Loop /\ unsettled' \subseteq Loop
    BY <1>31, <2>1 DEF FinishInstall, Reconfigured
  <2> QED
    BY <1>31, <2>1, <2>2 DEF FinishInstall, Spawned
<1> HIDE DEF IInv, Loop, NoLoop, sessionVars, promptVars, modeVars,
      toolVars, MapsOK, SetsOK, ObjectsOK, RequestsOK, WithLoop, WithId
<1>32. CASE Client /\ UNCHANGED patient
  BY <1>1, <1>2, <1>5, <1>7, <1>11, <1>22, <1>25, <1>27, <1>28, <1>32, ServerAssumption DEF
     Client
<1>33. CASE \E r \in Req : Handler(r) /\ UNCHANGED patient
  BY <1>3, <1>4, <1>6, <1>8, <1>26, <1>29, <1>30, <1>31, <1>33 DEF Handler
<1> QED
  BY <1>9, <1>10, <1>12, <1>13, <1>14, <1>15, <1>16, <1>17, <1>18, <1>19, <1>20, <1>21,
     <1>23, <1>24, <1>32, <1>33 DEF Next, PromptTask, ToolTask, Background


\* Every step keeps requests what they are.
LEMMA ReqOKKept == ASSUME IInv, Next PROVE ReqOK'
<1> USE ServerAssumption, Types DEF IInv, Loop, NoLoop, sessionVars, promptVars, modeVars,
      toolVars, MapsOK, SetsOK, ReqOK, Request, ObjectsOK, RequestsOK, WithLoop, WithId
<1>1. ASSUME NEW i \in Id, NewSession(i), UNCHANGED patient PROVE ReqOK'
  BY <1>1 DEF NewSession, Register
<1>2. ASSUME NEW r \in Req, NEW i \in Id, StartLoad(r, i), UNCHANGED patient PROVE ReqOK'
  BY <1>2 DEF StartLoad, NextSlot, Free
<1>3. ASSUME NEW r \in Req, FinishLoad(r), UNCHANGED patient PROVE ReqOK'
  <2>1. req[r] \in Request /\ created + 1 \in 0..MaxLoops
    BY <1>3, NextLoop DEF FinishLoad
  <2>2. [req[r] EXCEPT !.kind = "replay", !.loop = created + 1] \in Request
    BY <2>1, Taken
  <2>3. req' = [req EXCEPT ![r] = [@ EXCEPT !.kind = "replay", !.loop = created + 1]]
    BY <1>3 DEF FinishLoad
  <2> QED
    BY <2>2, <2>3
<1>4. ASSUME NEW r \in Req, Replayed(r), UNCHANGED patient PROVE ReqOK'
  BY <1>4, RequestLoop DEF Replayed, Free
<1>5. ASSUME NEW r \in Req, NEW i \in Id, NEW j \in Id, StartFork(r, i, j), UNCHANGED patient
      PROVE  ReqOK'
  BY <1>5 DEF StartFork, NextSlot, Free
<1>6. ASSUME NEW r \in Req, FinishFork(r), UNCHANGED patient PROVE ReqOK'
  <2>1. PICK b \in BOOLEAN : Register(req[r].id, b)
    BY <1>6 DEF FinishFork
  <2> QED
    BY <1>6, <2>1, RequestLoop DEF FinishFork, Register, Free
<1>7. ASSUME NEW r \in Req, NEW i \in Id, StartClose(r, i), UNCHANGED patient PROVE ReqOK'
  BY <1>7 DEF StartClose, NextSlot, Free
<1>8. ASSUME NEW r \in Req, FinishClose(r), UNCHANGED patient PROVE ReqOK'
  BY <1>8, RequestLoop DEF FinishClose, Free
<1>9. ASSUME NEW r \in Req, NEW i \in Id, StartPrompt(r, i), UNCHANGED patient PROVE ReqOK'
  BY <1>9 DEF StartPrompt, NextSlot, Free
<1>10. ASSUME NEW r \in Req, NEW i \in Id, StartCancel(r, i), UNCHANGED patient PROVE ReqOK'
  BY <1>10 DEF StartCancel, NextSlot, Free
<1>11. ASSUME NEW r \in Req, NEW i \in Id, NEW b \in BOOLEAN, StartMode(r, i, b), UNCHANGED patient
      PROVE  ReqOK'
  <2>1. CASE b = TRUE
    BY <2>1, <1>11, RegisteredLoop DEF StartMode, NextSlot, Free
  <2>2. CASE b = FALSE
    BY <2>2, <1>11, RegisteredLoop DEF StartMode, NextSlot, Free
  <2> QED
    BY <1>11, <2>1, <2>2 DEF StartMode
<1>12. ASSUME NEW r \in Req, FinishMode(r), UNCHANGED patient PROVE ReqOK'
  BY <1>12, RequestLoop DEF FinishMode, Free
<1>13. ASSUME NEW r \in Req, NEW i \in Id, NEW k \in {"compact", "reload"}, StartCommand(r, i, k),
             UNCHANGED patient PROVE ReqOK'
  BY <1>13 DEF StartCommand, NextSlot, Free
<1>14. ASSUME NEW r \in Req, NEW i \in Id, StartModel(r, i), UNCHANGED patient PROVE ReqOK'
  BY <1>14 DEF StartModel, NextSlot, Free
<1>15. ASSUME NEW r \in Req, FinishCompact(r), UNCHANGED patient PROVE ReqOK'
  BY <1>15 DEF FinishCompact, Free
<1>16. ASSUME NEW r \in Req, FinishReload(r), UNCHANGED patient PROVE ReqOK'
  BY <1>16, RequestLoop DEF FinishReload, Free
<1>17. ASSUME NEW r \in Req, FinishInstall(r), UNCHANGED patient PROVE ReqOK'
  BY <1>17, RequestLoop DEF FinishInstall, Free
<1>18. CASE ObjectStep
  BY <1>18 DEF ObjectStep, Free
<1> HIDE DEF IInv, Loop, NoLoop, sessionVars, promptVars, modeVars,
      toolVars, MapsOK, SetsOK, ReqOK, Request, ObjectsOK, RequestsOK, WithLoop, WithId
<1>19. CASE Client /\ UNCHANGED patient
  BY <1>1, <1>2, <1>5, <1>7, <1>9, <1>10, <1>11, <1>13, <1>14, <1>19, ServerAssumption DEF
     Client
<1>20. CASE \E r \in Req : Handler(r) /\ UNCHANGED patient
  BY <1>3, <1>4, <1>6, <1>8, <1>12, <1>15, <1>16, <1>17, <1>20 DEF Handler
<1> QED
  BY <1>18, <1>19, <1>20, ObjectSteps DEF Next


\* Every step keeps the order of the objects and registers open ones only.
LEMMA ObjectsOKKept == ASSUME IInv, Next PROVE ObjectsOK'
<1> USE ServerAssumption, Types DEF IInv, Loop, NoLoop, sessionVars, promptVars, modeVars,
      toolVars, MapsOK, SetsOK, ReqOK, Request, ObjectsOK, RequestsOK, WithLoop, WithId
<1>1. ASSUME NEW i \in Id, NewSession(i), UNCHANGED patient PROVE ObjectsOK'
  BY <1>1 DEF NewSession, Register
<1>2. ASSUME NEW r \in Req, NEW i \in Id, StartLoad(r, i), UNCHANGED patient PROVE ObjectsOK'
  BY <1>2 DEF StartLoad, NextSlot, Free
<1>3. ASSUME NEW r \in Req, FinishLoad(r), UNCHANGED patient PROVE ObjectsOK'
  BY <1>3 DEF FinishLoad, Register
<1>4. ASSUME NEW r \in Req, Replayed(r), UNCHANGED patient PROVE ObjectsOK'
  BY <1>4, RequestLoop DEF Replayed, Spawned, Free
<1>5. ASSUME NEW r \in Req, NEW i \in Id, NEW j \in Id, StartFork(r, i, j), UNCHANGED patient
      PROVE  ObjectsOK'
  BY <1>5 DEF StartFork, NextSlot, Free
<1>6. ASSUME NEW r \in Req, FinishFork(r), UNCHANGED patient PROVE ObjectsOK'
  <2>1. PICK b \in BOOLEAN : Register(req[r].id, b)
    BY <1>6 DEF FinishFork
  <2>2. req[r].kind = "fork" /\ created < MaxLoops /\ req[r].id \in Id
    BY <1>6 DEF FinishFork
  <2>3. created + 1 \in Loop /\ created \in Nat
    BY <2>2, NextLoop
  <2>4. created' = created + 1 /\ bypass' \subseteq bypass \cup {created + 1}
    BY <2>1 DEF Register
  <2>5. bypass' \subseteq 1..created'
    BY <2>3, <2>4
  <2> QED
    BY <2>1, <2>2, <2>3, <2>5 DEF Register
<1>7. ASSUME NEW r \in Req, NEW i \in Id, StartClose(r, i), UNCHANGED patient PROVE ObjectsOK'
  BY <1>7 DEF StartClose, NextSlot, Free
<1>8. ASSUME NEW r \in Req, FinishClose(r), UNCHANGED patient PROVE ObjectsOK'
  <2>1. req[r].loop \in Loop /\ status[req[r].loop] # "open"
    BY <1>8, RequestLoop DEF FinishClose
  <2>2. UNCHANGED <<sessions, created, sid, bypass>>
    BY <1>8 DEF FinishClose
  <2>3. \A l \in Loop : status[l] = "open" => status'[l] = "open"
    BY <1>8, <2>1 DEF FinishClose
  <2> QED
    BY <2>2, <2>3
<1>9. ASSUME NEW r \in Req, NEW i \in Id, StartPrompt(r, i), UNCHANGED patient PROVE ObjectsOK'
  BY <1>9 DEF StartPrompt, NextSlot, Free
<1>10. ASSUME NEW r \in Req, NEW i \in Id, StartCancel(r, i), UNCHANGED patient PROVE ObjectsOK'
  BY <1>10 DEF StartCancel, NextSlot, Free
<1>11. ASSUME NEW r \in Req, NEW i \in Id, NEW b \in BOOLEAN, StartMode(r, i, b), UNCHANGED patient
      PROVE  ObjectsOK'
  <2>1. sessions[i] \in 1..created
    BY <1>11, RegisteredLoop DEF StartMode
  <2>2. bypass' \subseteq bypass \cup {sessions[i]}
    BY <1>11 DEF StartMode
  <2> QED
    BY <1>11, <2>1, <2>2, ZenonT(40) DEF StartMode
<1>12. ASSUME NEW r \in Req, FinishMode(r), UNCHANGED patient PROVE ObjectsOK'
  BY <1>12, RequestLoop DEF FinishMode, Free
<1>13. ASSUME NEW r \in Req, NEW i \in Id, NEW k \in {"compact", "reload"}, StartCommand(r, i, k),
             UNCHANGED patient PROVE ObjectsOK'
  BY <1>13 DEF StartCommand, NextSlot, Free
<1>14. ASSUME NEW r \in Req, NEW i \in Id, StartModel(r, i), UNCHANGED patient PROVE ObjectsOK'
  BY <1>14 DEF StartModel, NextSlot, Free
<1>15. ASSUME NEW r \in Req, FinishCompact(r), UNCHANGED patient PROVE ObjectsOK'
  BY <1>15 DEF FinishCompact, Free
<1>16. ASSUME NEW r \in Req, FinishReload(r), UNCHANGED patient PROVE ObjectsOK'
  BY <1>16, RequestLoop, ZenonT(40) DEF FinishReload, Reconfigured, Spawned, Free
<1>17. ASSUME NEW r \in Req, FinishInstall(r), UNCHANGED patient PROVE ObjectsOK'
  BY <1>17, RequestLoop, ZenonT(40) DEF FinishInstall, Reconfigured, Free
<1>18. CASE ObjectStep
  BY <1>18 DEF ObjectStep, Free
<1> HIDE DEF IInv, Loop, NoLoop, sessionVars, promptVars, modeVars,
      toolVars, MapsOK, SetsOK, ReqOK, Request, ObjectsOK, RequestsOK, WithLoop, WithId
<1>19. CASE Client /\ UNCHANGED patient
  BY <1>1, <1>2, <1>5, <1>7, <1>9, <1>10, <1>11, <1>13, <1>14, <1>19, ServerAssumption DEF
     Client
<1>20. CASE \E r \in Req : Handler(r) /\ UNCHANGED patient
  BY <1>3, <1>4, <1>6, <1>8, <1>12, <1>15, <1>16, <1>17, <1>20 DEF Handler
<1> QED
  BY <1>18, <1>19, <1>20, ObjectSteps DEF Next


\* Every step leaves each request with an object that exists, and each prompt
\* request with a prompt.
LEMMA RequestsOKKept == ASSUME IInv, Next PROVE RequestsOK'
<1> USE ServerAssumption, Types DEF IInv, Loop, NoLoop, sessionVars, promptVars, modeVars,
      toolVars, MapsOK, SetsOK, ReqOK, Request, ObjectsOK, RequestsOK, WithLoop, WithId
<1>1. ASSUME NEW i \in Id, NewSession(i), UNCHANGED patient PROVE RequestsOK'
  BY <1>1 DEF NewSession, Register
<1>2. ASSUME NEW r \in Req, NEW i \in Id, StartLoad(r, i), UNCHANGED patient PROVE RequestsOK'
  BY <1>2 DEF StartLoad, NextSlot, Free
<1>3. ASSUME NEW r \in Req, FinishLoad(r), UNCHANGED patient PROVE RequestsOK'
  BY <1>3 DEF FinishLoad, Register
<1>4. ASSUME NEW r \in Req, Replayed(r), UNCHANGED patient PROVE RequestsOK'
  BY <1>4, RequestLoop DEF Replayed, Free
<1>5. ASSUME NEW r \in Req, NEW i \in Id, NEW j \in Id, StartFork(r, i, j), UNCHANGED patient
      PROVE  RequestsOK'
  BY <1>5 DEF StartFork, NextSlot, Free
<1>6. ASSUME NEW r \in Req, FinishFork(r), UNCHANGED patient PROVE RequestsOK'
  <2>1. PICK b \in BOOLEAN : Register(req[r].id, b)
    BY <1>6 DEF FinishFork
  <2> QED
    BY <1>6, <2>1, RequestLoop DEF FinishFork, Register, Free
<1>7. ASSUME NEW r \in Req, NEW i \in Id, StartClose(r, i), UNCHANGED patient PROVE RequestsOK'
  BY <1>7 DEF StartClose, NextSlot, Free
<1>8. ASSUME NEW r \in Req, FinishClose(r), UNCHANGED patient PROVE RequestsOK'
  BY <1>8, RequestLoop DEF FinishClose, Free
<1>9. ASSUME NEW r \in Req, NEW i \in Id, StartPrompt(r, i), UNCHANGED patient PROVE RequestsOK'
  BY <1>9 DEF StartPrompt, NextSlot, Free
<1>10. ASSUME NEW r \in Req, NEW i \in Id, StartCancel(r, i), UNCHANGED patient PROVE RequestsOK'
  BY <1>10 DEF StartCancel, NextSlot, Free
<1>11. ASSUME NEW r \in Req, NEW i \in Id, NEW b \in BOOLEAN, StartMode(r, i, b), UNCHANGED patient
      PROVE  RequestsOK'
  <2>1. CASE b = TRUE
    BY <2>1, <1>11, RegisteredLoop DEF StartMode, NextSlot, Free
  <2>2. CASE b = FALSE
    BY <2>2, <1>11, RegisteredLoop DEF StartMode, NextSlot, Free
  <2> QED
    BY <1>11, <2>1, <2>2 DEF StartMode
<1>12. ASSUME NEW r \in Req, FinishMode(r), UNCHANGED patient PROVE RequestsOK'
  BY <1>12, RequestLoop DEF FinishMode, Free
<1>13. ASSUME NEW r \in Req, NEW i \in Id, NEW k \in {"compact", "reload"}, StartCommand(r, i, k),
             UNCHANGED patient PROVE RequestsOK'
  BY <1>13 DEF StartCommand, NextSlot, Free
<1>14. ASSUME NEW r \in Req, NEW i \in Id, StartModel(r, i), UNCHANGED patient PROVE RequestsOK'
  BY <1>14 DEF StartModel, NextSlot, Free
<1>15. ASSUME NEW r \in Req, FinishCompact(r), UNCHANGED patient PROVE RequestsOK'
  BY <1>15 DEF FinishCompact, Free
<1>16. ASSUME NEW r \in Req, FinishReload(r), UNCHANGED patient PROVE RequestsOK'
  BY <1>16, RequestLoop DEF FinishReload, Free
<1>17. ASSUME NEW r \in Req, FinishInstall(r), UNCHANGED patient PROVE RequestsOK'
  BY <1>17, RequestLoop DEF FinishInstall, Free
<1>18. CASE ObjectStep
  BY <1>18 DEF ObjectStep, Free
<1> HIDE DEF IInv, Loop, NoLoop, sessionVars, promptVars, modeVars,
      toolVars, MapsOK, SetsOK, ReqOK, Request, ObjectsOK, RequestsOK, WithLoop, WithId
<1>19. CASE Client /\ UNCHANGED patient
  BY <1>1, <1>2, <1>5, <1>7, <1>9, <1>10, <1>11, <1>13, <1>14, <1>19, ServerAssumption DEF
     Client
<1>20. CASE \E r \in Req : Handler(r) /\ UNCHANGED patient
  BY <1>3, <1>4, <1>6, <1>8, <1>12, <1>15, <1>16, <1>17, <1>20 DEF Handler
<1> QED
  BY <1>18, <1>19, <1>20, ObjectSteps DEF Next


\* No step gives a closed object a task or a prompt.
LEMMA ClosedIsQuietKept == ASSUME IInv, Next PROVE ClosedIsQuiet'
<1> USE ServerAssumption, Types DEF IInv, Loop, NoLoop, sessionVars, promptVars, modeVars,
      toolVars, MapsOK, ClosedIsQuiet, ReqOK, Request, ObjectsOK, RequestsOK, WithLoop, WithId
<1>1. ASSUME NEW i \in Id, NewSession(i), UNCHANGED patient PROVE ClosedIsQuiet'
  BY <1>1 DEF NewSession, Register
<1>2. ASSUME NEW r \in Req, NEW i \in Id, StartLoad(r, i), UNCHANGED patient PROVE ClosedIsQuiet'
  BY <1>2 DEF StartLoad, NextSlot, Free
<1>3. ASSUME NEW r \in Req, FinishLoad(r), UNCHANGED patient PROVE ClosedIsQuiet'
  BY <1>3 DEF FinishLoad, Register
<1>4. ASSUME NEW r \in Req, Replayed(r), UNCHANGED patient PROVE ClosedIsQuiet'
  BY <1>4, RequestLoop DEF Replayed, Spawned, Free
<1>5. ASSUME NEW r \in Req, NEW i \in Id, NEW j \in Id, StartFork(r, i, j), UNCHANGED patient
      PROVE  ClosedIsQuiet'
  BY <1>5 DEF StartFork, NextSlot, Free
<1>6. ASSUME NEW r \in Req, FinishFork(r), UNCHANGED patient PROVE ClosedIsQuiet'
  <2>1. PICK b \in BOOLEAN : Register(req[r].id, b)
    BY <1>6 DEF FinishFork
  <2> QED
    BY <1>6, <2>1, RequestLoop DEF FinishFork, Register, Free
<1>7. ASSUME NEW r \in Req, NEW i \in Id, StartClose(r, i), UNCHANGED patient PROVE ClosedIsQuiet'
  BY <1>7 DEF StartClose, NextSlot, Free
<1>8. ASSUME NEW r \in Req, FinishClose(r), UNCHANGED patient PROVE ClosedIsQuiet'
  BY <1>8, RequestLoop DEF FinishClose, Free
<1>9. ASSUME NEW r \in Req, NEW i \in Id, StartPrompt(r, i), UNCHANGED patient PROVE ClosedIsQuiet'
  BY <1>9 DEF StartPrompt, NextSlot, Free
<1>10. ASSUME NEW r \in Req, NEW i \in Id, StartCancel(r, i), UNCHANGED patient
      PROVE  ClosedIsQuiet'
  BY <1>10 DEF StartCancel, NextSlot, Free
<1>11. ASSUME NEW r \in Req, NEW i \in Id, NEW b \in BOOLEAN, StartMode(r, i, b), UNCHANGED patient
      PROVE  ClosedIsQuiet'
  <2>1. CASE b = TRUE
    BY <2>1, <1>11, RegisteredLoop DEF StartMode, NextSlot, Free
  <2>2. CASE b = FALSE
    BY <2>2, <1>11, RegisteredLoop DEF StartMode, NextSlot, Free
  <2> QED
    BY <1>11, <2>1, <2>2 DEF StartMode
<1>12. ASSUME NEW r \in Req, FinishMode(r), UNCHANGED patient PROVE ClosedIsQuiet'
  BY <1>12, RequestLoop DEF FinishMode, Free
<1>13. ASSUME NEW r \in Req, NEW i \in Id, NEW k \in {"compact", "reload"}, StartCommand(r, i, k),
             UNCHANGED patient PROVE ClosedIsQuiet'
  BY <1>13 DEF StartCommand, NextSlot, Free
<1>14. ASSUME NEW r \in Req, NEW i \in Id, StartModel(r, i), UNCHANGED patient PROVE ClosedIsQuiet'
  BY <1>14 DEF StartModel, NextSlot, Free
<1>15. ASSUME NEW r \in Req, FinishCompact(r), UNCHANGED patient PROVE ClosedIsQuiet'
  BY <1>15 DEF FinishCompact, Free
<1>16. ASSUME NEW r \in Req, FinishReload(r), UNCHANGED patient PROVE ClosedIsQuiet'
  BY <1>16, RequestLoop DEF FinishReload, Reconfigured, Spawned, Free
<1>17. ASSUME NEW r \in Req, FinishInstall(r), UNCHANGED patient PROVE ClosedIsQuiet'
  BY <1>17, RequestLoop DEF FinishInstall, Reconfigured, Free
<1>18. CASE ObjectStep
  BY <1>18 DEF ObjectStep, Free
<1> HIDE DEF IInv, Loop, NoLoop, sessionVars, promptVars, modeVars,
      toolVars, MapsOK, ClosedIsQuiet, ReqOK, Request, ObjectsOK, RequestsOK, WithLoop, WithId
<1>19. CASE Client /\ UNCHANGED patient
  BY <1>1, <1>2, <1>5, <1>7, <1>9, <1>10, <1>11, <1>13, <1>14, <1>19, ServerAssumption DEF
     Client
<1>20. CASE \E r \in Req : Handler(r) /\ UNCHANGED patient
  BY <1>3, <1>4, <1>6, <1>8, <1>12, <1>15, <1>16, <1>17, <1>20 DEF Handler
<1> QED
  BY <1>18, <1>19, <1>20, ObjectSteps DEF Next


\* Every step that changes the profile, the callback or the registry either sets the
\* callback right or leaves the object unsettled.
LEMMA CallbackFollowsModeKept == ASSUME IInv, Next PROVE CallbackFollowsMode'
<1> USE ServerAssumption, Types DEF IInv, Loop, NoLoop, sessionVars, promptVars, modeVars,
      toolVars, MapsOK, SetsOK, ReqOK, Request, CallbackFollowsMode, ObjectsOK, RequestsOK, WithLoop,
      WithId
<1>1. ASSUME NEW i \in Id, NewSession(i), UNCHANGED patient PROVE CallbackFollowsMode'
  BY <1>1 DEF NewSession, Register
<1>2. ASSUME NEW r \in Req, NEW i \in Id, StartLoad(r, i), UNCHANGED patient
      PROVE  CallbackFollowsMode'
  BY <1>2 DEF StartLoad, NextSlot, Free
<1>3. ASSUME NEW r \in Req, FinishLoad(r), UNCHANGED patient PROVE CallbackFollowsMode'
  BY <1>3 DEF FinishLoad, Register
<1>4. ASSUME NEW r \in Req, Replayed(r), UNCHANGED patient PROVE CallbackFollowsMode'
  BY <1>4, RequestLoop DEF Replayed, Spawned, Free
<1>5. ASSUME NEW r \in Req, NEW i \in Id, NEW j \in Id, StartFork(r, i, j), UNCHANGED patient
      PROVE  CallbackFollowsMode'
  BY <1>5 DEF StartFork, NextSlot, Free
<1>6. ASSUME NEW r \in Req, FinishFork(r), UNCHANGED patient PROVE CallbackFollowsMode'
  <2>1. PICK b \in BOOLEAN : Register(req[r].id, b)
    BY <1>6 DEF FinishFork
  <2> QED
    BY <1>6, <2>1, RequestLoop DEF FinishFork, Register, Free
<1>7. ASSUME NEW r \in Req, NEW i \in Id, StartClose(r, i), UNCHANGED patient
      PROVE  CallbackFollowsMode'
  BY <1>7 DEF StartClose, NextSlot, Free
<1>8. ASSUME NEW r \in Req, FinishClose(r), UNCHANGED patient PROVE CallbackFollowsMode'
  BY <1>8, RequestLoop DEF FinishClose, Free
<1>9. ASSUME NEW r \in Req, NEW i \in Id, StartPrompt(r, i), UNCHANGED patient
      PROVE  CallbackFollowsMode'
  BY <1>9 DEF StartPrompt, NextSlot, Free
<1>10. ASSUME NEW r \in Req, NEW i \in Id, StartCancel(r, i), UNCHANGED patient
      PROVE  CallbackFollowsMode'
  BY <1>10 DEF StartCancel, NextSlot, Free
<1>11. ASSUME NEW r \in Req, NEW i \in Id, NEW b \in BOOLEAN, StartMode(r, i, b), UNCHANGED patient
      PROVE  CallbackFollowsMode'
  <2>1. CASE b = TRUE
    BY <2>1, <1>11, RegisteredLoop DEF StartMode, NextSlot, Free
  <2>2. CASE b = FALSE
    BY <2>2, <1>11, RegisteredLoop DEF StartMode, NextSlot, Free
  <2> QED
    BY <1>11, <2>1, <2>2 DEF StartMode
<1>12. ASSUME NEW r \in Req, FinishMode(r), UNCHANGED patient PROVE CallbackFollowsMode'
  BY <1>12, RequestLoop, SMTT(20) DEF FinishMode, Free
<1>13. ASSUME NEW r \in Req, NEW i \in Id, NEW k \in {"compact", "reload"}, StartCommand(r, i, k),
             UNCHANGED patient PROVE CallbackFollowsMode'
  BY <1>13 DEF StartCommand, NextSlot, Free
<1>14. ASSUME NEW r \in Req, NEW i \in Id, StartModel(r, i), UNCHANGED patient
      PROVE  CallbackFollowsMode'
  BY <1>14 DEF StartModel, NextSlot, Free
<1>15. ASSUME NEW r \in Req, FinishCompact(r), UNCHANGED patient PROVE CallbackFollowsMode'
  BY <1>15 DEF FinishCompact, Free
<1>16. ASSUME NEW r \in Req, FinishReload(r), UNCHANGED patient PROVE CallbackFollowsMode'
  BY <1>16, RequestLoop DEF FinishReload, Reconfigured, Spawned, Free
<1>17. ASSUME NEW r \in Req, FinishInstall(r), UNCHANGED patient PROVE CallbackFollowsMode'
  BY <1>17, RequestLoop DEF FinishInstall, Reconfigured, Free
<1>18. CASE ObjectStep
  <2>1. \A r \in Req : req[r].kind = "mode" => req'[r] = req[r]
    BY <1>18 DEF ObjectStep
  <2> QED
    BY <1>18, <2>1 DEF ObjectStep
<1> HIDE DEF IInv, Loop, NoLoop, sessionVars, promptVars, modeVars,
      toolVars, MapsOK, SetsOK, ReqOK, Request, CallbackFollowsMode, ObjectsOK, RequestsOK, WithLoop,
      WithId
<1>19. CASE Client /\ UNCHANGED patient
  BY <1>1, <1>2, <1>5, <1>7, <1>9, <1>10, <1>11, <1>13, <1>14, <1>19, ServerAssumption DEF
     Client
<1>20. CASE \E r \in Req : Handler(r) /\ UNCHANGED patient
  BY <1>3, <1>4, <1>6, <1>8, <1>12, <1>15, <1>16, <1>17, <1>20 DEF Handler
<1> QED
  BY <1>18, <1>19, <1>20, ObjectSteps DEF Next


\* Every step of a tool opens and releases its terminal in pairs.
LEMMA TerminalsOwnedKept == ASSUME IInv, Next PROVE TerminalsOwned'
<1> USE ServerAssumption, Types DEF IInv, Loop, NoLoop, sessionVars, promptVars, modeVars,
      toolVars, MapsOK, SetsOK, TerminalsOwned
<1>1. ASSUME NEW i \in Id, NewSession(i), UNCHANGED patient PROVE TerminalsOwned'
  BY <1>1 DEF NewSession, Register
<1>2. ASSUME NEW r \in Req, NEW i \in Id, StartLoad(r, i), UNCHANGED patient PROVE TerminalsOwned'
  BY <1>2 DEF StartLoad, NextSlot, Free
<1>3. ASSUME NEW r \in Req, FinishLoad(r), UNCHANGED patient PROVE TerminalsOwned'
  BY <1>3 DEF FinishLoad, Register
<1>4. ASSUME NEW r \in Req, Replayed(r), UNCHANGED patient PROVE TerminalsOwned'
  BY <1>4, RequestLoop DEF Replayed, Spawned, Free
<1>5. ASSUME NEW r \in Req, NEW i \in Id, NEW j \in Id, StartFork(r, i, j), UNCHANGED patient
      PROVE  TerminalsOwned'
  BY <1>5 DEF StartFork, NextSlot, Free
<1>6. ASSUME NEW r \in Req, FinishFork(r), UNCHANGED patient PROVE TerminalsOwned'
  <2>1. PICK b \in BOOLEAN : Register(req[r].id, b)
    BY <1>6 DEF FinishFork
  <2> QED
    BY <1>6, <2>1, RequestLoop DEF FinishFork, Register, Free
<1>7. ASSUME NEW r \in Req, NEW i \in Id, StartClose(r, i), UNCHANGED patient PROVE TerminalsOwned'
  BY <1>7 DEF StartClose, NextSlot, Free
<1>8. ASSUME NEW r \in Req, FinishClose(r), UNCHANGED patient PROVE TerminalsOwned'
  BY <1>8, RequestLoop DEF FinishClose, Free
<1>9. ASSUME NEW l \in Loop, TasksEnd(l), UNCHANGED patient PROVE TerminalsOwned'
  BY <1>9 DEF TasksEnd
<1>10. ASSUME NEW l \in Loop, ExperimentsEnd(l), UNCHANGED patient PROVE TerminalsOwned'
  BY <1>10 DEF ExperimentsEnd
<1>11. ASSUME NEW r \in Req, NEW i \in Id, StartPrompt(r, i), UNCHANGED patient
      PROVE  TerminalsOwned'
  BY <1>11 DEF StartPrompt, NextSlot, Free
<1>12. ASSUME NEW l \in Loop, Ready(l), UNCHANGED patient PROVE TerminalsOwned'
  <2>1. CASE Goes(l, "model") /\ UNCHANGED <<cancelled, wanted, tasks, req>>
    BY <2>1, <1>12 DEF Ready, Goes, PromptOver, Spawned, Free
  <2>2. CASE PromptOver(l)
    BY <2>2, <1>12 DEF Ready, Goes, PromptOver, Spawned, Free
  <2> QED
    BY <1>12, <2>1, <2>2 DEF Ready
<1>13. ASSUME NEW l \in Loop, Updated(l), UNCHANGED patient PROVE TerminalsOwned'
  BY <1>13 DEF Updated, Goes
<1>14. ASSUME NEW l \in Loop, Ends(l), UNCHANGED patient PROVE TerminalsOwned'
  BY <1>14 DEF Ends, PromptOver, Spawned, Free
<1>15. ASSUME NEW l \in Loop, CallTool(l), UNCHANGED patient PROVE TerminalsOwned'
  BY <1>15 DEF CallTool, Goes, Tool
<1>16. ASSUME NEW l \in Loop, NEW b \in BOOLEAN, Answered(l, b), UNCHANGED patient
      PROVE  TerminalsOwned'
  BY <1>16, ToolOverTypes, ZenonT(40) DEF Answered, Tool, ToolOver
<1>17. ASSUME NEW l \in Loop, Created(l), UNCHANGED patient PROVE TerminalsOwned'
  <2>1. CASE Tool(l, "opened") /\ terms' = [terms EXCEPT ![l] = @ + 1]
    <3>1. terms[l] = 0
      BY <1>17 DEF Created
    <3> QED
      BY <2>1, <3>1 DEF Tool
  <2>2. CASE ToolOver(l) /\ UNCHANGED terms
    BY <2>2, <1>17, ToolOverTypes DEF Created
  <2> QED
    BY <1>17, <2>1, <2>2 DEF Created
<1>18. ASSUME NEW l \in Loop, Exited(l), UNCHANGED patient PROVE TerminalsOwned'
  BY <1>18 DEF Exited, Tool
<1>19. ASSUME NEW l \in Loop, Released(l), UNCHANGED patient PROVE TerminalsOwned'
  BY <1>19, ToolOverTypes DEF Released, Tool, ToolOver
<1>20. ASSUME NEW l \in Loop, ToolInterrupted(l), UNCHANGED patient PROVE TerminalsOwned'
  <2>1. CASE tool[l] \in {"asking", "creating"} /\ ToolOver(l) /\ UNCHANGED terms
    BY <2>1, <1>20, ToolOverTypes DEF ToolInterrupted, Tool, ToolOver
  <2>2. CASE tool[l] = "opened" /\ Tool(l, "releasing") /\ UNCHANGED <<terms, prompt, stray>>
    BY <2>2, <1>20, ToolOverTypes DEF ToolInterrupted, Tool, ToolOver
  <2>3. CASE tool[l] = "releasing" /\ ToolOver(l) /\ terms' = [terms EXCEPT ![l] = @ - 1]
    BY <2>3, <1>20, ToolOverTypes DEF ToolInterrupted, Tool, ToolOver
  <2> QED
    BY <1>20, <2>1, <2>2, <2>3, ToolInterruptedCases
<1>21. ASSUME NEW l \in Loop, CloseStray(l), UNCHANGED patient PROVE TerminalsOwned'
  BY <1>21 DEF CloseStray
<1>22. ASSUME NEW r \in Req, NEW i \in Id, StartCancel(r, i), UNCHANGED patient
      PROVE  TerminalsOwned'
  BY <1>22 DEF StartCancel, NextSlot, Free
<1>23. ASSUME NEW l \in Loop, Interrupted(l), UNCHANGED patient PROVE TerminalsOwned'
  <2>1. CASE Joins(l)
    BY <2>1, <1>23 DEF Goes, PromptOver, Spawned, Free, Joins, Dropped, GoesOn, Interrupted
  <2>2. CASE Dropped(l)
    BY <2>2, <1>23 DEF Goes, PromptOver, Spawned, Free, Joins, Dropped, GoesOn, Interrupted
  <2>3. CASE GoesOn(l)
    BY <2>3, <1>23 DEF Goes, PromptOver, Spawned, Free, Joins, Dropped, GoesOn, Interrupted
  <2> QED
    BY <1>23, <2>1, <2>2, <2>3, InterruptedCases
<1>24. ASSUME NEW l \in Loop, ToolsJoined(l), UNCHANGED patient PROVE TerminalsOwned'
  BY <1>24 DEF ToolsJoined, PromptOver, Spawned, Free
<1>25. ASSUME NEW r \in Req, NEW i \in Id, NEW b \in BOOLEAN, StartMode(r, i, b), UNCHANGED patient
      PROVE  TerminalsOwned'
  <2>1. CASE b = TRUE
    BY <2>1, <1>25, RegisteredLoop DEF StartMode, NextSlot, Free
  <2>2. CASE b = FALSE
    BY <2>2, <1>25, RegisteredLoop DEF StartMode, NextSlot, Free
  <2> QED
    BY <1>25, <2>1, <2>2 DEF StartMode
<1>26. ASSUME NEW r \in Req, FinishMode(r), UNCHANGED patient PROVE TerminalsOwned'
  BY <1>26, RequestLoop DEF FinishMode, Free
<1>27. ASSUME NEW r \in Req, NEW i \in Id, NEW k \in {"compact", "reload"}, StartCommand(r, i, k),
             UNCHANGED patient PROVE TerminalsOwned'
  BY <1>27 DEF StartCommand, NextSlot, Free
<1>28. ASSUME NEW r \in Req, NEW i \in Id, StartModel(r, i), UNCHANGED patient
      PROVE  TerminalsOwned'
  BY <1>28 DEF StartModel, NextSlot, Free
<1>29. ASSUME NEW r \in Req, FinishCompact(r), UNCHANGED patient PROVE TerminalsOwned'
  BY <1>29 DEF FinishCompact, Free
<1>30. ASSUME NEW r \in Req, FinishReload(r), UNCHANGED patient PROVE TerminalsOwned'
  BY <1>30, RequestLoop DEF FinishReload, Reconfigured, Spawned, Free
<1>31. ASSUME NEW r \in Req, FinishInstall(r), UNCHANGED patient PROVE TerminalsOwned'
  BY <1>31, RequestLoop DEF FinishInstall, Reconfigured, Free
<1> HIDE DEF IInv, Loop, NoLoop, sessionVars, promptVars, modeVars,
      toolVars, MapsOK, SetsOK, TerminalsOwned
<1>32. CASE Client /\ UNCHANGED patient
  BY <1>1, <1>2, <1>5, <1>7, <1>11, <1>22, <1>25, <1>27, <1>28, <1>32, ServerAssumption DEF
     Client
<1>33. CASE \E r \in Req : Handler(r) /\ UNCHANGED patient
  BY <1>3, <1>4, <1>6, <1>8, <1>26, <1>29, <1>30, <1>31, <1>33 DEF Handler
<1> QED
  BY <1>9, <1>10, <1>12, <1>13, <1>14, <1>15, <1>16, <1>17, <1>18, <1>19, <1>20, <1>21,
     <1>23, <1>24, <1>32, <1>33 DEF Next, PromptTask, ToolTask, Background


\* A new prompt or command of an object that had none.
LEMMA NewWorker ==
  ASSUME OneCommand, UNCHANGED patient, NEW l, NEW r \in Req, req'[r].loop = l,
         \A q \in Req : q # r => req'[q] = req[q],
         patient => \A q \in Req : req[q].kind \in {"prompt", "compact", "reload"}
                                     => req[q].loop # l
  PROVE  OneCommand'
  BY DEF OneCommand

\* An object without commands that begins to be closed.
LEMMA NewClose ==
  ASSUME ClosingHasNone, UNCHANGED patient, NEW l \in Loop, NEW r \in Req,
         req'[r].kind = "close", status' = [status EXCEPT ![l] = "closing"],
         status \in [Loop -> {"unused", "open", "closing", "closed"}],
         \A q \in Req : q # r => req'[q] = req[q],
         \A q \in Req : req[q].kind \in {"compact", "reload"} => req[q].loop \in Loop,
         patient => \A q \in Req : req[q].kind \in {"compact", "reload"} => req[q].loop # l
  PROVE  ClosingHasNone'
  BY DEF ClosingHasNone

\* No step of a patient client gives an object a second prompt or command.
LEMMA OneCommandKept == ASSUME IInv, Next PROVE OneCommand'
<1> USE ServerAssumption, Types DEF IInv, Loop, NoLoop, sessionVars, promptVars, modeVars,
      toolVars, MapsOK, ReqOK, Request, OneCommand, ClosedIsQuiet, ObjectsOK,
      RequestsOK, WithLoop, WithId
<1>1. ASSUME NEW i \in Id, NewSession(i), UNCHANGED patient PROVE OneCommand'
  BY <1>1 DEF NewSession, Register
<1>2. ASSUME NEW r \in Req, NEW i \in Id, StartLoad(r, i), UNCHANGED patient PROVE OneCommand'
  BY <1>2 DEF StartLoad, NextSlot, Free
<1>3. ASSUME NEW r \in Req, FinishLoad(r), UNCHANGED patient PROVE OneCommand'
  BY <1>3 DEF FinishLoad, Register
<1>4. ASSUME NEW r \in Req, Replayed(r), UNCHANGED patient PROVE OneCommand'
  BY <1>4, RequestLoop DEF Replayed, Free
<1>5. ASSUME NEW r \in Req, NEW i \in Id, NEW j \in Id, StartFork(r, i, j), UNCHANGED patient
      PROVE  OneCommand'
  BY <1>5 DEF StartFork, NextSlot, Free
<1>6. ASSUME NEW r \in Req, FinishFork(r), UNCHANGED patient PROVE OneCommand'
  <2>1. PICK b \in BOOLEAN : Register(req[r].id, b)
    BY <1>6 DEF FinishFork
  <2> QED
    BY <1>6, <2>1, RequestLoop DEF FinishFork, Register, Free
<1>7. ASSUME NEW r \in Req, NEW i \in Id, StartClose(r, i), UNCHANGED patient PROVE OneCommand'
  BY <1>7 DEF StartClose, NextSlot, Free
<1>8. ASSUME NEW r \in Req, FinishClose(r), UNCHANGED patient PROVE OneCommand'
  BY <1>8, RequestLoop DEF FinishClose, Free
<1>9. ASSUME NEW r \in Req, NEW i \in Id, StartPrompt(r, i), UNCHANGED patient PROVE OneCommand'
  <2>1. patient => \A q \in Req : req[q].kind \in {"prompt", "compact", "reload"}
                                    => req[q].loop # sessions[i]
    BY <1>9 DEF StartPrompt, Busy, Commands
  <2>2. \A q \in Req : q # r => req'[q] = req[q]
    BY <1>9 DEF StartPrompt
  <2>3. req'[r].loop = sessions[i]
    BY <1>9 DEF StartPrompt
  <2>4. OneCommand /\ UNCHANGED patient
    BY <1>9
  <2> HIDE DEF OneCommand, MapsOK, ReqOK, Request, ObjectsOK, RequestsOK, IInv, Loop
  <2> QED
    BY <2>1, <2>2, <2>3, <2>4, NewWorker
<1>10. ASSUME NEW r \in Req, NEW i \in Id, StartCancel(r, i), UNCHANGED patient PROVE OneCommand'
  BY <1>10 DEF StartCancel, NextSlot, Free
<1>11. ASSUME NEW r \in Req, NEW i \in Id, NEW b \in BOOLEAN, StartMode(r, i, b), UNCHANGED patient
      PROVE  OneCommand'
  <2>1. CASE b = TRUE
    BY <2>1, <1>11, RegisteredLoop DEF StartMode, NextSlot, Free
  <2>2. CASE b = FALSE
    BY <2>2, <1>11, RegisteredLoop DEF StartMode, NextSlot, Free
  <2> QED
    BY <1>11, <2>1, <2>2 DEF StartMode
<1>12. ASSUME NEW r \in Req, FinishMode(r), UNCHANGED patient PROVE OneCommand'
  BY <1>12, RequestLoop DEF FinishMode, Free
<1>13. ASSUME NEW r \in Req, NEW i \in Id, NEW k \in {"compact", "reload"}, StartCommand(r, i, k),
             UNCHANGED patient PROVE OneCommand'
  <2>1. patient => \A q \in Req : req[q].kind \in {"prompt", "compact", "reload"}
                                    => req[q].loop # sessions[i]
    BY <1>13 DEF StartCommand, Busy, Commands
  <2>2. \A q \in Req : q # r => req'[q] = req[q]
    BY <1>13 DEF StartCommand
  <2>3. req'[r].loop = sessions[i]
    BY <1>13 DEF StartCommand
  <2>4. OneCommand /\ UNCHANGED patient
    BY <1>13
  <2> HIDE DEF OneCommand, MapsOK, ReqOK, Request, ObjectsOK, RequestsOK, IInv, Loop
  <2> QED
    BY <2>1, <2>2, <2>3, <2>4, NewWorker
<1>14. ASSUME NEW r \in Req, NEW i \in Id, StartModel(r, i), UNCHANGED patient PROVE OneCommand'
  BY <1>14 DEF StartModel, NextSlot, Free
<1>15. ASSUME NEW r \in Req, FinishCompact(r), UNCHANGED patient PROVE OneCommand'
  BY <1>15 DEF FinishCompact, Free
<1>16. ASSUME NEW r \in Req, FinishReload(r), UNCHANGED patient PROVE OneCommand'
  BY <1>16, RequestLoop DEF FinishReload, Free
<1>17. ASSUME NEW r \in Req, FinishInstall(r), UNCHANGED patient PROVE OneCommand'
  BY <1>17, RequestLoop DEF FinishInstall, Free
<1>18. CASE ObjectStep
  <2>1. \A r \in Req : req'[r] = req[r] \/ req'[r] = Free
    BY <1>18 DEF ObjectStep
  <2> QED
    BY <1>18, <2>1 DEF ObjectStep, Free
<1> HIDE DEF IInv, Loop, NoLoop, sessionVars, promptVars, modeVars,
      toolVars, MapsOK, ReqOK, Request, OneCommand, ClosedIsQuiet, ObjectsOK,
      RequestsOK, WithLoop, WithId
<1>19. CASE Client /\ UNCHANGED patient
  BY <1>1, <1>2, <1>5, <1>7, <1>9, <1>10, <1>11, <1>13, <1>14, <1>19, ServerAssumption DEF
     Client
<1>20. CASE \E r \in Req : Handler(r) /\ UNCHANGED patient
  BY <1>3, <1>4, <1>6, <1>8, <1>12, <1>15, <1>16, <1>17, <1>20 DEF Handler
<1> QED
  BY <1>18, <1>19, <1>20, ObjectSteps DEF Next


\* No step of a patient client closes an object that has a command, nor gives a
\* command to one that is being closed.
LEMMA ClosingHasNoneKept == ASSUME IInv, Next PROVE ClosingHasNone'
<1> USE ServerAssumption, Types DEF IInv, Loop, NoLoop, sessionVars, promptVars, modeVars,
      toolVars, MapsOK, ReqOK, Request, ClosingHasNone, ObjectsOK, RequestsOK, WithLoop,
      WithId
<1>1. ASSUME NEW i \in Id, NewSession(i), UNCHANGED patient PROVE ClosingHasNone'
  BY <1>1 DEF NewSession, Register
<1>2. ASSUME NEW r \in Req, NEW i \in Id, StartLoad(r, i), UNCHANGED patient PROVE ClosingHasNone'
  BY <1>2 DEF StartLoad, NextSlot, Free
<1>3. ASSUME NEW r \in Req, FinishLoad(r), UNCHANGED patient PROVE ClosingHasNone'
  BY <1>3 DEF FinishLoad, Register
<1>4. ASSUME NEW r \in Req, Replayed(r), UNCHANGED patient PROVE ClosingHasNone'
  BY <1>4, RequestLoop DEF Replayed, Free
<1>5. ASSUME NEW r \in Req, NEW i \in Id, NEW j \in Id, StartFork(r, i, j), UNCHANGED patient
      PROVE  ClosingHasNone'
  BY <1>5 DEF StartFork, NextSlot, Free
<1>6. ASSUME NEW r \in Req, FinishFork(r), UNCHANGED patient PROVE ClosingHasNone'
  <2>1. PICK b \in BOOLEAN : Register(req[r].id, b)
    BY <1>6 DEF FinishFork
  <2> QED
    BY <1>6, <2>1, RequestLoop DEF FinishFork, Register, Free
<1>7. ASSUME NEW r \in Req, NEW i \in Id, StartClose(r, i), UNCHANGED patient PROVE ClosingHasNone'
  <2>1. patient => \A q \in Req : req[q].kind \in {"compact", "reload"}
                                    => req[q].loop # sessions[i]
    BY <1>7 DEF StartClose, Commands
  <2>2. \A q \in Req : q # r => req'[q] = req[q]
    BY <1>7 DEF StartClose
  <2>3. req'[r].kind = "close" /\ status' = [status EXCEPT ![sessions[i]] = "closing"]
    BY <1>7 DEF StartClose
  <2>4. \A q \in Req : req[q].kind \in {"compact", "reload"} => req[q].loop \in Loop
    BY RequestLoop
  <2>5. sessions[i] \in Loop
    BY <1>7, RegisteredLoop DEF StartClose
  <2>6. /\ ClosingHasNone /\ UNCHANGED patient
        /\ status \in [Loop -> {"unused", "open", "closing", "closed"}]
    BY <1>7
  <2> HIDE DEF ClosingHasNone, MapsOK, ReqOK, Request, ObjectsOK, RequestsOK, IInv, Loop
  <2> QED
    BY <2>1, <2>2, <2>3, <2>4, <2>5, <2>6, NewClose
<1>8. ASSUME NEW r \in Req, FinishClose(r), UNCHANGED patient PROVE ClosingHasNone'
  <2>1. status' = [status EXCEPT ![req[r].loop] = "closed"] /\ req' = [req EXCEPT ![r] = Free]
    BY <1>8 DEF FinishClose
  <2>2. status[req[r].loop] # "open"
    BY <1>8 DEF FinishClose
  <2>3. \A q \in Req : req[q].kind \in {"compact", "reload"} => req[q].loop \in Loop
    BY RequestLoop
  <2> QED
    BY <1>8, <2>1, <2>2, <2>3 DEF Free
<1>9. ASSUME NEW r \in Req, NEW i \in Id, StartPrompt(r, i), UNCHANGED patient
      PROVE  ClosingHasNone'
  BY <1>9 DEF StartPrompt, NextSlot, Free
<1>10. ASSUME NEW r \in Req, NEW i \in Id, StartCancel(r, i), UNCHANGED patient
      PROVE  ClosingHasNone'
  BY <1>10 DEF StartCancel, NextSlot, Free
<1>11. ASSUME NEW r \in Req, NEW i \in Id, NEW b \in BOOLEAN, StartMode(r, i, b), UNCHANGED patient
      PROVE  ClosingHasNone'
  <2>1. CASE b = TRUE
    BY <2>1, <1>11, RegisteredLoop DEF StartMode, NextSlot, Free
  <2>2. CASE b = FALSE
    BY <2>2, <1>11, RegisteredLoop DEF StartMode, NextSlot, Free
  <2> QED
    BY <1>11, <2>1, <2>2 DEF StartMode
<1>12. ASSUME NEW r \in Req, FinishMode(r), UNCHANGED patient PROVE ClosingHasNone'
  BY <1>12, RequestLoop DEF FinishMode, Free
<1>13. ASSUME NEW r \in Req, NEW i \in Id, NEW k \in {"compact", "reload"}, StartCommand(r, i, k),
             UNCHANGED patient PROVE ClosingHasNone'
  BY <1>13 DEF StartCommand, NextSlot, Free
<1>14. ASSUME NEW r \in Req, NEW i \in Id, StartModel(r, i), UNCHANGED patient
      PROVE  ClosingHasNone'
  BY <1>14 DEF StartModel, NextSlot, Free
<1>15. ASSUME NEW r \in Req, FinishCompact(r), UNCHANGED patient PROVE ClosingHasNone'
  BY <1>15 DEF FinishCompact, Free
<1>16. ASSUME NEW r \in Req, FinishReload(r), UNCHANGED patient PROVE ClosingHasNone'
  BY <1>16, RequestLoop DEF FinishReload, Free
<1>17. ASSUME NEW r \in Req, FinishInstall(r), UNCHANGED patient PROVE ClosingHasNone'
  BY <1>17, RequestLoop DEF FinishInstall, Free
<1>18. CASE ObjectStep
  <2>1. \A r \in Req : req'[r] = req[r] \/ req'[r] = Free
    BY <1>18 DEF ObjectStep
  <2> QED
    BY <1>18, <2>1 DEF ObjectStep, Free
<1> HIDE DEF IInv, Loop, NoLoop, sessionVars, promptVars, modeVars,
      toolVars, MapsOK, ReqOK, Request, ClosingHasNone, ObjectsOK, RequestsOK, WithLoop,
      WithId
<1>19. CASE Client /\ UNCHANGED patient
  BY <1>1, <1>2, <1>5, <1>7, <1>9, <1>10, <1>11, <1>13, <1>14, <1>19, ServerAssumption DEF
     Client
<1>20. CASE \E r \in Req : Handler(r) /\ UNCHANGED patient
  BY <1>3, <1>4, <1>6, <1>8, <1>12, <1>15, <1>16, <1>17, <1>20 DEF Handler
<1> QED
  BY <1>18, <1>19, <1>20, ObjectSteps DEF Next


\* A patient client registers a new object for an id only when the others are closed.
LEMMA OneOpenKept == ASSUME IInv, Next PROVE OneOpen'
<1> USE ServerAssumption, Types DEF IInv, Loop, NoLoop, sessionVars, promptVars, modeVars,
      toolVars, MapsOK, ReqOK, Request, OneOpen, LoadsAlone, ObjectsOK, RequestsOK, WithLoop, WithId
<1>1. ASSUME NEW i \in Id, NewSession(i), UNCHANGED patient PROVE OneOpen'
  BY <1>1 DEF NewSession, Register
<1>2. ASSUME NEW r \in Req, NEW i \in Id, StartLoad(r, i), UNCHANGED patient PROVE OneOpen'
  BY <1>2 DEF StartLoad, NextSlot, Free
<1>3. ASSUME NEW r \in Req, FinishLoad(r), UNCHANGED patient PROVE OneOpen'
  BY <1>3 DEF FinishLoad, Register
<1>4. ASSUME NEW r \in Req, Replayed(r), UNCHANGED patient PROVE OneOpen'
  BY <1>4, RequestLoop DEF Replayed, Free
<1>5. ASSUME NEW r \in Req, NEW i \in Id, NEW j \in Id, StartFork(r, i, j), UNCHANGED patient
      PROVE  OneOpen'
  BY <1>5 DEF StartFork, NextSlot, Free
<1>6. ASSUME NEW r \in Req, FinishFork(r), UNCHANGED patient PROVE OneOpen'
  <2>1. PICK b \in BOOLEAN : Register(req[r].id, b)
    BY <1>6 DEF FinishFork
  <2> QED
    BY <1>6, <2>1, RequestLoop, SMTT(20) DEF FinishFork, Register, Free
<1>7. ASSUME NEW r \in Req, NEW i \in Id, StartClose(r, i), UNCHANGED patient PROVE OneOpen'
  BY <1>7 DEF StartClose, NextSlot, Free
<1>8. ASSUME NEW r \in Req, FinishClose(r), UNCHANGED patient PROVE OneOpen'
  BY <1>8, RequestLoop DEF FinishClose, Free
<1>9. ASSUME NEW r \in Req, NEW i \in Id, StartPrompt(r, i), UNCHANGED patient PROVE OneOpen'
  BY <1>9 DEF StartPrompt, NextSlot, Free
<1>10. ASSUME NEW r \in Req, NEW i \in Id, StartCancel(r, i), UNCHANGED patient PROVE OneOpen'
  BY <1>10 DEF StartCancel, NextSlot, Free
<1>11. ASSUME NEW r \in Req, NEW i \in Id, NEW b \in BOOLEAN, StartMode(r, i, b), UNCHANGED patient
      PROVE  OneOpen'
  <2>1. CASE b = TRUE
    BY <2>1, <1>11, RegisteredLoop DEF StartMode, NextSlot, Free
  <2>2. CASE b = FALSE
    BY <2>2, <1>11, RegisteredLoop DEF StartMode, NextSlot, Free
  <2> QED
    BY <1>11, <2>1, <2>2 DEF StartMode
<1>12. ASSUME NEW r \in Req, FinishMode(r), UNCHANGED patient PROVE OneOpen'
  BY <1>12, RequestLoop DEF FinishMode, Free
<1>13. ASSUME NEW r \in Req, NEW i \in Id, NEW k \in {"compact", "reload"}, StartCommand(r, i, k),
             UNCHANGED patient PROVE OneOpen'
  BY <1>13 DEF StartCommand, NextSlot, Free
<1>14. ASSUME NEW r \in Req, NEW i \in Id, StartModel(r, i), UNCHANGED patient PROVE OneOpen'
  BY <1>14 DEF StartModel, NextSlot, Free
<1>15. ASSUME NEW r \in Req, FinishCompact(r), UNCHANGED patient PROVE OneOpen'
  BY <1>15 DEF FinishCompact, Free
<1>16. ASSUME NEW r \in Req, FinishReload(r), UNCHANGED patient PROVE OneOpen'
  BY <1>16, RequestLoop DEF FinishReload, Free
<1>17. ASSUME NEW r \in Req, FinishInstall(r), UNCHANGED patient PROVE OneOpen'
  BY <1>17, RequestLoop DEF FinishInstall, Free
<1>18. CASE ObjectStep
  BY <1>18 DEF ObjectStep, Free
<1> HIDE DEF IInv, Loop, NoLoop, sessionVars, promptVars, modeVars,
      toolVars, MapsOK, ReqOK, Request, OneOpen, LoadsAlone, ObjectsOK, RequestsOK, WithLoop, WithId
<1>19. CASE Client /\ UNCHANGED patient
  BY <1>1, <1>2, <1>5, <1>7, <1>9, <1>10, <1>11, <1>13, <1>14, <1>19, ServerAssumption DEF
     Client
<1>20. CASE \E r \in Req : Handler(r) /\ UNCHANGED patient
  BY <1>3, <1>4, <1>6, <1>8, <1>12, <1>15, <1>16, <1>17, <1>20 DEF Handler
<1> QED
  BY <1>18, <1>19, <1>20, ObjectSteps DEF Next


\* No step of a patient client gives an id that is loaded or forked to another object
\* or request.
LEMMA LoadsAloneKept == ASSUME IInv, Next PROVE LoadsAlone'
<1> USE ServerAssumption, Types DEF IInv, Loop, NoLoop, sessionVars, promptVars, modeVars,
      toolVars, MapsOK, ReqOK, Request, LoadsAlone, ObjectsOK, RequestsOK, WithLoop, WithId
<1>1. ASSUME NEW i \in Id, NewSession(i), UNCHANGED patient PROVE LoadsAlone'
  BY <1>1 DEF NewSession, Register
<1>2. ASSUME NEW r \in Req, NEW i \in Id, StartLoad(r, i), UNCHANGED patient PROVE LoadsAlone'
  BY <1>2 DEF StartLoad, NextSlot, Free
<1>3. ASSUME NEW r \in Req, FinishLoad(r), UNCHANGED patient PROVE LoadsAlone'
  BY <1>3 DEF FinishLoad, Register
<1>4. ASSUME NEW r \in Req, Replayed(r), UNCHANGED patient PROVE LoadsAlone'
  BY <1>4, RequestLoop, SMTT(20) DEF Replayed, Free
<1>5. ASSUME NEW r \in Req, NEW i \in Id, NEW j \in Id, StartFork(r, i, j), UNCHANGED patient
      PROVE  LoadsAlone'
  BY <1>5 DEF StartFork, NextSlot, Free
<1>6. ASSUME NEW r \in Req, FinishFork(r), UNCHANGED patient PROVE LoadsAlone'
  <2>1. PICK b \in BOOLEAN : Register(req[r].id, b)
    BY <1>6 DEF FinishFork
  <2>2. req[r].kind = "fork" /\ created < MaxLoops /\ req[r].id \in Id
    BY <1>6 DEF FinishFork
  <2>3. created + 1 \in Loop /\ created \in Nat
    BY <2>2, NextLoop
  <2>4. /\ sid' = [sid EXCEPT ![created + 1] = req[r].id]
        /\ status' = [status EXCEPT ![created + 1] = "open"]
        /\ req' = [req EXCEPT ![r] = Free]
    BY <1>6, <2>1 DEF FinishFork, Register
  <2>5. patient => \A q \in Req : q # r => req[q].id # req[r].id
    BY <1>6, <2>2
  <2> QED
    BY <1>6, <2>2, <2>3, <2>4, <2>5, SMTT(20) DEF Free
<1>7. ASSUME NEW r \in Req, NEW i \in Id, StartClose(r, i), UNCHANGED patient PROVE LoadsAlone'
  BY <1>7 DEF StartClose, NextSlot, Free
<1>8. ASSUME NEW r \in Req, FinishClose(r), UNCHANGED patient PROVE LoadsAlone'
  BY <1>8, RequestLoop, SMTT(20) DEF FinishClose, Free
<1>9. ASSUME NEW r \in Req, NEW i \in Id, StartPrompt(r, i), UNCHANGED patient PROVE LoadsAlone'
  BY <1>9 DEF StartPrompt, NextSlot, Free
<1>10. ASSUME NEW r \in Req, NEW i \in Id, StartCancel(r, i), UNCHANGED patient PROVE LoadsAlone'
  BY <1>10 DEF StartCancel, NextSlot, Free
<1>11. ASSUME NEW r \in Req, NEW i \in Id, NEW b \in BOOLEAN, StartMode(r, i, b), UNCHANGED patient
      PROVE  LoadsAlone'
  <2>1. CASE b = TRUE
    BY <2>1, <1>11, RegisteredLoop, SMTT(20) DEF StartMode, NextSlot, Free
  <2>2. CASE b = FALSE
    BY <2>2, <1>11, RegisteredLoop, SMTT(20) DEF StartMode, NextSlot, Free
  <2> QED
    BY <1>11, <2>1, <2>2 DEF StartMode
<1>12. ASSUME NEW r \in Req, FinishMode(r), UNCHANGED patient PROVE LoadsAlone'
  BY <1>12, RequestLoop, SMTT(20) DEF FinishMode, Free
<1>13. ASSUME NEW r \in Req, NEW i \in Id, NEW k \in {"compact", "reload"}, StartCommand(r, i, k),
             UNCHANGED patient PROVE LoadsAlone'
  BY <1>13 DEF StartCommand, NextSlot, Free
<1>14. ASSUME NEW r \in Req, NEW i \in Id, StartModel(r, i), UNCHANGED patient PROVE LoadsAlone'
  BY <1>14 DEF StartModel, NextSlot, Free
<1>15. ASSUME NEW r \in Req, FinishCompact(r), UNCHANGED patient PROVE LoadsAlone'
  BY <1>15 DEF FinishCompact, Free
<1>16. ASSUME NEW r \in Req, FinishReload(r), UNCHANGED patient PROVE LoadsAlone'
  BY <1>16, RequestLoop, SMTT(20) DEF FinishReload, Free
<1>17. ASSUME NEW r \in Req, FinishInstall(r), UNCHANGED patient PROVE LoadsAlone'
  BY <1>17, RequestLoop DEF FinishInstall, Free
<1>18. CASE ObjectStep
  <2>1. UNCHANGED <<patient, sid, status>>
    BY <1>18 DEF ObjectStep
  <2>2. \A r \in Req : req'[r] = req[r] \/ req'[r] = Free
    BY <1>18 DEF ObjectStep
  <2>3. \A r \in Req : req'[r].kind \in {"load", "fork"} => req'[r] = req[r] /\ req[r].id # NoId
    BY <2>2 DEF Free
  <2>4. \A r, q \in Req : /\ req'[r].kind \in {"load", "fork"}
                          /\ req'[q].id = req'[r].id
                          => req'[q] = req[q]
    BY <2>2, <2>3 DEF Free
  <2> QED
    BY <2>1, <2>3, <2>4, SMTT(20)
<1> HIDE DEF IInv, Loop, NoLoop, sessionVars, promptVars, modeVars,
      toolVars, MapsOK, ReqOK, Request, LoadsAlone, ObjectsOK, RequestsOK, WithLoop, WithId
<1>19. CASE Client /\ UNCHANGED patient
  BY <1>1, <1>2, <1>5, <1>7, <1>9, <1>10, <1>11, <1>13, <1>14, <1>19, ServerAssumption DEF
     Client
<1>20. CASE \E r \in Req : Handler(r) /\ UNCHANGED patient
  BY <1>3, <1>4, <1>6, <1>8, <1>12, <1>15, <1>16, <1>17, <1>20 DEF Handler
<1> QED
  BY <1>18, <1>19, <1>20, ObjectSteps DEF Next

-----------------------------------------------------------------------------
(* The invariant, and what follows from it *)

\* The invariant holds before the first request.
LEMMA InitIInv == Init => IInv
<1> SUFFICES ASSUME Init PROVE IInv
  OBVIOUS
<1>1. MapsOK /\ SetsOK /\ ReqOK
  BY ServerAssumption DEF Init, MapsOK, SetsOK, ReqOK, Request, Free, NoLoop, Loop
<1>2. TypeOK
  BY <1>1, Types DEF Init
<1>3. ObjectsOK /\ RequestsOK
  BY ServerAssumption DEF Init, ObjectsOK, RequestsOK, Free, NoLoop, Loop, WithLoop, WithId
<1>4. OneCommand /\ ClosingHasNone /\ OneOpen /\ LoadsAlone
  BY DEF Init, OneCommand, ClosingHasNone, OneOpen, LoadsAlone, Free
<1>5. ClosedIsQuiet /\ CallbackFollowsMode /\ TerminalsOwned
  BY DEF Init, ClosedIsQuiet, CallbackFollowsMode, TerminalsOwned
<1> QED
  BY <1>2, <1>3, <1>4, <1>5 DEF IInv

\* Every step keeps it.
LEMMA NextIInv == IInv /\ [Next]_vars => IInv'
<1> SUFFICES ASSUME IInv, [Next]_vars PROVE IInv'
  OBVIOUS
<1>1. CASE Next
  <2>1. patient' \in BOOLEAN
    BY <1>1, Types DEF Next, IInv
  <2>2. TypeOK'
    BY <1>1, <2>1, MapsOKKept, SetsOKKept, ReqOKKept DEF TypeOK, MapsOK, SetsOK, ReqOK, Request
  <2> QED
    BY <1>1, <2>2, ObjectsOKKept, RequestsOKKept, OneCommandKept, ClosingHasNoneKept,
       OneOpenKept, LoadsAloneKept, ClosedIsQuietKept, CallbackFollowsModeKept,
       TerminalsOwnedKept DEF IInv
<1>2. CASE UNCHANGED vars
  <2>1. TypeOK' /\ ObjectsOK' /\ RequestsOK'
    BY <1>2 DEF vars, IInv, TypeOK, ObjectsOK, RequestsOK, sessionVars, promptVars, modeVars,
       toolVars
  <2>2. OneCommand' /\ ClosingHasNone' /\ OneOpen' /\ LoadsAlone'
    BY <1>2 DEF vars, IInv, OneCommand, ClosingHasNone, OneOpen, LoadsAlone, sessionVars
  <2>3. ClosedIsQuiet' /\ CallbackFollowsMode' /\ TerminalsOwned'
    BY <1>2 DEF vars, IInv, ClosedIsQuiet, CallbackFollowsMode, TerminalsOwned, sessionVars,
       promptVars, modeVars, toolVars
  <2> QED
    BY <2>1, <2>2, <2>3 DEF IInv
<1> QED
  BY <1>1, <1>2

\* A session has one worker: of two prompts or commands of objects of one id, one is at a
\* closed object, which has neither.
LEMMA WorkersAlone == IInv => OneWorkerPerSession
<1> SUFFICES ASSUME IInv, patient, NEW i \in Id
             PROVE  Cardinality(UNION {Busy(l) : l \in {k \in Loop : sid[k] = i}}) <= 1
  BY DEF OneWorkerPerSession
<1> DEFINE W == UNION {Busy(l) : l \in {k \in Loop : sid[k] = i}}
<1>1. ASSUME NEW r \in W
      PROVE  /\ r \in Req /\ req[r].kind \in {"prompt", "compact", "reload"}
             /\ req[r].loop \in Loop /\ sid[req[r].loop] = i
             /\ status[req[r].loop] # "closed"
  <2>1. /\ r \in Req /\ req[r].kind \in {"prompt", "compact", "reload"}
        /\ req[r].loop \in Loop /\ sid[req[r].loop] = i
    BY DEF Busy, Commands
  <2>2. req[r].kind = "prompt" => prompt[req[r].loop] # "none"
    BY <2>1 DEF IInv, RequestsOK
  <2>3. req[r].kind # "prompt" => status[req[r].loop] = "open"
    BY <2>1 DEF IInv, ClosingHasNone
  <2> QED
    BY <2>1, <2>2, <2>3 DEF IInv, ClosedIsQuiet
<1>2. ASSUME NEW r \in W, NEW q \in W PROVE r = q
  <2>1. req[r].loop = req[q].loop
    BY <1>1, ServerAssumption DEF IInv, OneOpen
  <2> QED
    BY <1>1, <2>1 DEF IInv, OneCommand
<1> HIDE DEF W
<1>3. Cardinality(W) <= 1
  <2>1. CASE W = {}
    BY <2>1, FS_EmptySet
  <2>2. CASE W # {}
    <3>1. PICK r \in W : TRUE
      BY <2>2
    <3>2. W = {r}
      BY <1>2, <3>1
    <3>3. Cardinality({r}) = 1
      BY FS_Singleton
    <3> QED
      BY <3>2, <3>3
  <2> QED
    BY <2>1, <2>2
<1> QED
  BY <1>3 DEF W

\* The invariant always holds, with any number of ids, objects and requests.
THEOREM Invariant == Spec => []IInv
  BY InitIInv, NextIInv, PTL DEF Spec

\* The registry, the objects and the requests are always what they should be.
THEOREM TypeCorrect == Spec => []TypeOK
<1>1. IInv => TypeOK
  BY DEF IInv
<1> QED
  BY <1>1, Invariant, PTL

\* A patient client never has two workers on a session.
THEOREM WorkersAreAlone == Spec => []OneWorkerPerSession
  BY WorkersAlone, Invariant, PTL

\* A closed session sends nothing more.
THEOREM ClosedStaysQuiet == Spec => []ClosedIsQuiet
<1>1. IInv => ClosedIsQuiet
  BY DEF IInv
<1> QED
  BY <1>1, Invariant, PTL

\* The approval callback is there exactly when the profile asks.
THEOREM CallbacksFollow == Spec => []CallbackFollowsMode
<1>1. IInv => CallbackFollowsMode
  BY DEF IInv
<1> QED
  BY <1>1, Invariant, PTL

\* No terminal outlives its tool.
THEOREM TerminalsReleased == Spec => []TerminalsOwned
<1>1. IInv => TerminalsOwned
  BY DEF IInv
<1> QED
  BY <1>1, Invariant, PTL
=============================================================================
