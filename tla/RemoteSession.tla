----------------------------- MODULE RemoteSession -----------------------------
(***************************************************************************)
(* A remote workflow on the screen: the translation of its events          *)
(* (core/nuage/remote_workflow_event_translator.py), the task that shows   *)
(* them and the answers the user sends (ui/remote/remote_session_manager.py*)
(* and app.py).  The events come one by one and in order, as RemoteStream  *)
(* delivers them, so each action below is an event of the workflow that is *)
(* consumed.                                                               *)
(*                                                                         *)
(* A tool call is told of by a task of its own and by a "working" task,    *)
(* which may know the id of the call from its start or only later, and has *)
(* a row under its own id until then.                                      *)
(***************************************************************************)
EXTENDS Integers, Sequences, FiniteSets

CONSTANTS
  RemoteCall,        \* tool calls of the workflow
  MaxWaits,    \* bound: inputs the workflow waits for, one after the other
  MaxTold      \* bound: tasks of the workflow, of whatever kind

ASSUME RemoteBounds == MaxWaits \in Nat /\ MaxTold \in Nat

None  == 0
Wait  == 1..MaxWaits
Steer == MaxWaits + 1     \* the input that may steer a workflow at work
Input == Wait \cup {Steer}
Row   == RemoteCall \X {"call", "working"}

VARIABLES
  asking,      \* the calls that are ask_user_question
  toolTask,    \* the task of a call: none, started or over
  workTask,    \* its working task, likewise
  input,       \* an input request: none, open, unread (open, not understood) or over
  badSteer,    \* _invalid_steer_task_ids
  pending,     \* _pending_input_request
  pendingAsk,  \* _pending_ask_user_question_call_id
  called,      \* _seen_tool_call_ids
  resulted,    \* _seen_tool_results
  status,      \* _last_status: running or over
  emitted,     \* translated events the stream task has not shown yet
  stream,      \* the stream task
  row,         \* the row of a call on the screen
  waiting,     \* _pending_waiting_input
  bottom,      \* what is mounted at the bottom: input or question
  send,        \* the request send_prompt awaits
  answered,    \* history: requests whose answer was accepted
  forgotten    \* history: requests the source forgot when an earlier answer was accepted

workflowVars   == <<toolTask, workTask, input>>
translatorVars == <<badSteer, pending, pendingAsk, called, resulted, status>>
screenVars     == <<stream, row, waiting, bottom, send, answered, forgotten>>
remoteVars == <<asking, workflowVars, translatorVars, emitted, screenVars>>

NoSend == [to |-> None, saved |-> None, from |-> "input"]
NoCall == <<>>
Idle   == send = NoSend

RemoteInit ==
  /\ asking \in SUBSET RemoteCall
  /\ toolTask = [c \in RemoteCall |-> "none"] /\ workTask = [c \in RemoteCall |-> "none"]
  /\ input = [i \in Input |-> "none"]
  /\ badSteer = FALSE /\ pending = None /\ pendingAsk = NoCall
  /\ called = {} /\ resulted = {} /\ status = "running"
  /\ emitted = <<>> /\ stream = "running"
  /\ row = [r \in Row |-> "none"]
  /\ waiting = None /\ bottom = "input" /\ send = NoSend
  /\ answered = {} /\ forgotten = {}

-----------------------------------------------------------------------------
(* Tool calls *)

\* The stream task takes the next event when it has shown what the last one gave.
Consumes ==
  /\ stream = "running" /\ emitted = <<>> /\ status = "running"
  /\ UNCHANGED <<asking, stream, row, waiting, bottom, send, answered, forgotten>>

CallEvents(r)   == IF r \in called THEN <<>> ELSE <<[kind |-> "call", row |-> r]>>
ResultEvents(r) == IF r \in resulted THEN <<>> ELSE <<[kind |-> "result", row |-> r]>>

\* _emit_tool_call_events: the first one of a row makes it; the row of a working task
\* is asked for like that of a call.
EmitCall(r) ==
  /\ called' = called \cup {r}
  /\ pendingAsk' = IF r \notin called /\ r[1] \in asking THEN r ELSE pendingAsk

\* Mutant: the result is not remembered.
EmitResultAgain(r) == UNCHANGED resulted

\* _emit_tool_result_events, _finalize_tool_call: later results are left out.
EmitResult(r) == resulted' = resulted \cup {r}

\* Started, in progress or completed, of the call's own task.
ToolTask(c, state) ==
  LET r == <<c, "call">>
  IN  /\ Consumes
      /\ toolTask[c] \in {"none", "started"}
      /\ toolTask' = [toolTask EXCEPT ![c] = state]
      /\ EmitCall(r)
      /\ IF state = "over"
         THEN EmitResult(r) /\ emitted' = CallEvents(r) \o ResultEvents(r)
         ELSE UNCHANGED resulted /\ emitted' = CallEvents(r)
      /\ UNCHANGED <<workTask, input, badSteer, pending, status>>

\* Mutant: the failure of a call whose name is not known ends its row, too.
ToolTaskFailsUnnamed(c) ==
  LET r == <<c, "call">>
  IN  /\ Consumes
      /\ toolTask[c] \in {"none", "started"}
      /\ toolTask' = [toolTask EXCEPT ![c] = "over"]
      /\ EmitResult(r) /\ emitted' = ResultEvents(r)
      /\ UNCHANGED <<workTask, input, badSteer, pending, pendingAsk, called, status>>

\* Failed, timed out or canceled: without an earlier state the name is not known.
ToolTaskFails(c) ==
  LET r == <<c, "call">>
  IN  /\ Consumes
      /\ toolTask[c] \in {"none", "started"}
      /\ toolTask' = [toolTask EXCEPT ![c] = "over"]
      /\ IF toolTask[c] = "started"
         THEN EmitResult(r) /\ emitted' = ResultEvents(r)
         ELSE UNCHANGED <<resulted, emitted>>
      /\ UNCHANGED <<workTask, input, badSteer, pending, pendingAsk, called, status>>

\* A working task; its start has no row unless it names the call.
WorkingTask(c, state, id) ==
  LET r == <<c, id>>
  IN  /\ Consumes
      /\ workTask[c] \in {"none", "started"}
      /\ workTask' = [workTask EXCEPT ![c] = state]
      /\ IF workTask[c] = "none" /\ state = "started" /\ id = "working"
         THEN UNCHANGED <<called, resulted, pendingAsk, emitted>>
         ELSE /\ EmitCall(r)
              /\ IF state = "over"
                 THEN EmitResult(r) /\ emitted' = CallEvents(r) \o ResultEvents(r)
                 ELSE UNCHANGED resulted /\ emitted' = CallEvents(r)
      /\ UNCHANGED <<toolTask, input, badSteer, pending, status>>

\* A working task that fails is passed over.
WorkingTaskFails(c) ==
  /\ Consumes
  /\ workTask[c] \in {"none", "started"}
  /\ workTask' = [workTask EXCEPT ![c] = "over"]
  /\ UNCHANGED <<toolTask, input, translatorVars, emitted>>

-----------------------------------------------------------------------------
(* Inputs *)

\* Inputs are asked for one after the other.
MayStart(w) == input[w] = "none" /\ \A v \in Wait : v < w => input[v] = "over"

\* wait_for_input started, with or without a choice of answers.
WaitStarts(w, choice) ==
  /\ Consumes /\ MayStart(w)
  /\ input' = [input EXCEPT ![w] = "open"]
  /\ pending' = w
  /\ emitted' = <<[kind |-> "waiting", task |-> w, choice |-> choice]>>
  /\ UNCHANGED <<toolTask, workTask, badSteer, pendingAsk, called, resulted, status>>

\* The payload is not a record: the wait is told of and cannot be answered.  Or its
\* schema cannot be read: the event is dropped (_consume_workflow_event).
WaitUnread(w, told) ==
  /\ Consumes /\ MayStart(w)
  /\ input' = [input EXCEPT ![w] = "unread"]
  /\ emitted' = IF told THEN <<[kind |-> "waiting", task |-> w, choice |-> FALSE]>> ELSE <<>>
  /\ UNCHANGED <<toolTask, workTask, badSteer, pending, pendingAsk, called, resulted, status>>

\* wait_for_input ended, with the user's text, without one, or not completed: the
\* question the request stood for is answered with it.
WaitEnds(w, how) ==
  /\ Consumes
  /\ input[w] \in {"open", "unread"}
  /\ input' = [input EXCEPT ![w] = "over"]
  /\ pending' = None /\ pendingAsk' = NoCall
  /\ LET text     == IF how = "text" THEN <<[kind |-> "user"]>> ELSE <<>>
         question == pendingAsk # NoCall /\ how # "nothing"
     IN  IF question
         THEN EmitResult(pendingAsk) /\ emitted' = ResultEvents(pendingAsk) \o text
         ELSE UNCHANGED resulted /\ emitted' = text
  /\ UNCHANGED <<toolTask, workTask, badSteer, called, status>>

\* A steer is not shown, and is sent to unless something else is asked.  One whose
\* schema cannot be read is remembered as such.
SteerStarts(valid) ==
  /\ Consumes
  /\ input[Steer] = "none"
  /\ input' = [input EXCEPT ![Steer] = "open"]
  /\ badSteer' = (pending = None /\ ~valid)
  /\ pending' = IF pending = None /\ valid THEN Steer ELSE pending
  /\ UNCHANGED <<toolTask, workTask, pendingAsk, called, resulted, status, emitted>>

\* Mutant: the end of a steer leaves the request to it pending.
SteerEndsPending(how) ==
  /\ Consumes
  /\ input[Steer] = "open"
  /\ input' = [input EXCEPT ![Steer] = "over"]
  /\ badSteer' = FALSE
  /\ emitted' = IF how = "text" /\ ~badSteer THEN <<[kind |-> "user"]>> ELSE <<>>
  /\ UNCHANGED <<toolTask, workTask, pending, pendingAsk, called, resulted, status>>

SteerEnds(how) ==
  /\ Consumes
  /\ input[Steer] = "open"
  /\ input' = [input EXCEPT ![Steer] = "over"]
  /\ badSteer' = FALSE
  /\ pending' = IF pending = Steer THEN None ELSE pending
  /\ emitted' = IF how = "text" /\ ~badSteer THEN <<[kind |-> "user"]>> ELSE <<>>
  /\ UNCHANGED <<toolTask, workTask, pendingAsk, called, resulted, status>>

\* The workflow completes, fails or is canceled.
WorkflowEnds ==
  /\ Consumes
  /\ status' = "over" /\ pending' = None
  /\ UNCHANGED <<workflowVars, badSteer, pendingAsk, called, resulted, emitted>>

-----------------------------------------------------------------------------
(* The stream task *)

\* A call makes a row, a result ends it; a row has one of each.
RowShown(event) ==
  row' = [row EXCEPT ![event.row] =
            IF event.kind = "call" /\ @ = "none" THEN "open"
            ELSE IF event.kind = "result" /\ @ = "open" THEN "closed" ELSE "wrong"]

\* _consume_stream: the next event.  Panels have an id, and a second question on
\* top of a first one cannot be mounted: the exception ends the stream.
Show ==
  /\ stream = "running" /\ emitted # <<>>
  /\ emitted' = Tail(emitted)
  /\ LET event == Head(emitted)
     IN  \/ /\ event.kind \in {"call", "result"}
            /\ RowShown(event)
            /\ UNCHANGED <<stream, waiting, bottom>>
         \/ /\ event.kind = "waiting"
            /\ waiting' = event.task
            /\ bottom' = IF event.choice THEN "question" ELSE "input"
            /\ stream' = IF event.choice /\ bottom = "question" THEN "failed" ELSE stream
            /\ UNCHANGED row
         \/ /\ event.kind = "user"
            /\ bottom' = IF waiting # None THEN "input" ELSE bottom
            /\ waiting' = None
            /\ UNCHANGED <<stream, row>>
  /\ UNCHANGED <<asking, workflowVars, translatorVars, send, answered, forgotten>>

\* attach is over, for the workflow is or the reader gave up: flush_open_tool_calls.
Flush ==
  /\ stream = "running" /\ emitted = <<>>
  /\ row' = [r \in Row |-> IF row[r] = "open" THEN "closed" ELSE row[r]]
  /\ stream' = "flushed"
  /\ UNCHANGED <<asking, workflowVars, translatorVars, emitted, waiting, bottom,
                 send, answered, forgotten>>

\* The stream fails while it reads or shows.
Fail ==
  /\ stream = "running"
  /\ stream' = "failed" /\ emitted' = <<>>
  /\ UNCHANGED <<asking, workflowVars, translatorVars, row, waiting, bottom,
                 send, answered, forgotten>>

\* The finally of the stream task.
Finalize ==
  /\ stream \in {"flushed", "failed"}
  /\ stream' = IF stream = "flushed" THEN "ended" ELSE "broken"
  /\ waiting' = None
  /\ UNCHANGED <<asking, workflowVars, translatorVars, emitted, row, bottom,
                 send, answered, forgotten>>

-----------------------------------------------------------------------------
(* The user; the app handles one thing at a time *)

\* send_prompt: nothing is pending in the source, or the request is posted.
Post(from) ==
  /\ waiting' = None
  /\ send' = [to |-> pending, saved |-> waiting, from |-> from]

\* A message: refused with a warning unless the workflow waits for an input.
Message ==
  /\ Idle /\ bottom = "input"
  /\ status = "running" /\ pending # None
  /\ Post("input")
  /\ UNCHANGED <<asking, workflowVars, translatorVars, emitted, stream, row, bottom,
                 answered, forgotten>>

\* The question panel: without a pending event the answer goes to nobody and the
\* panel stays.
AnswerQuestion ==
  /\ Idle /\ bottom = "question" /\ waiting # None
  /\ IF pending = None
     THEN /\ waiting' = None /\ bottom' = "input" /\ UNCHANGED send
     ELSE Post("question") /\ UNCHANGED bottom
  /\ UNCHANGED <<asking, workflowVars, translatorVars, emitted, stream, row,
                 answered, forgotten>>

Dismiss ==
  /\ Idle /\ bottom = "question" /\ waiting # None
  /\ waiting' = None /\ bottom' = "input"
  /\ UNCHANGED <<asking, workflowVars, translatorVars, emitted, stream, row,
                 send, answered, forgotten>>

\* The workflow accepted the answer.  Whatever is pending by now is forgotten.
Accepted ==
  /\ ~Idle
  /\ pending' = None
  /\ bottom' = IF send.from = "question" THEN "input" ELSE bottom
  /\ answered' = answered \cup {send.to}
  /\ forgotten' = forgotten \cup ({pending} \ {None, send.to})
  /\ send' = NoSend
  /\ UNCHANGED <<asking, workflowVars, badSteer, pendingAsk, called, resulted, status,
                 emitted, stream, row, waiting>>

\* The update fails; the answer of a panel has no handler for that, and the
\* exception ends the app (no step here).
Rejected ==
  /\ ~Idle /\ send.from = "input"
  /\ waiting' = send.saved
  /\ send' = NoSend
  /\ UNCHANGED <<asking, workflowVars, translatorVars, emitted, stream, row, bottom,
                 answered, forgotten>>

-----------------------------------------------------------------------------
Ends == {"text", "nothing", "cancelled"}

Begun(task) == Cardinality({k \in DOMAIN task : task[k] # "none"})

RemoteNext ==
  /\ \/ \E c \in RemoteCall :
          \/ \E s \in {"started", "over"} : ToolTask(c, s)
          \/ \E s \in {"started", "over"}, id \in {"call", "working"} : WorkingTask(c, s, id)
          \/ ToolTaskFails(c) \/ WorkingTaskFails(c)
     \/ \E w \in Wait :
          \/ \E choice \in BOOLEAN : WaitStarts(w, choice)
          \/ \E told \in BOOLEAN : WaitUnread(w, told)
          \/ \E how \in Ends : WaitEnds(w, how)
     \/ \E valid \in BOOLEAN : SteerStarts(valid)
     \/ \E how \in Ends : SteerEnds(how)
     \/ WorkflowEnds \/ Show \/ Flush \/ Fail \/ Finalize
     \/ Message \/ AnswerQuestion \/ Dismiss \/ Accepted \/ Rejected
  /\ Begun(toolTask') + Begun(workTask') + Begun(input') <= MaxTold

RemoteSpec == RemoteInit /\ [][RemoteNext]_remoteVars

-----------------------------------------------------------------------------
(* Properties *)

\* Type invariant of the workflow's tasks, the translator and the screen.
RemoteTypeOK ==
  /\ asking \in SUBSET RemoteCall
  /\ {toolTask, workTask} \subseteq [RemoteCall -> {"none", "started", "over"}]
  /\ input \in [Input -> {"none", "open", "unread", "over"}]
  /\ badSteer \in BOOLEAN /\ {pending, waiting} \subseteq Input \cup {None}
  /\ pendingAsk \in Row \cup {NoCall} /\ called \in SUBSET Row /\ resulted \in SUBSET called
  /\ status \in {"running", "over"}
  /\ stream \in {"running", "flushed", "failed", "ended", "broken"}
  /\ row \in [Row -> {"none", "open", "closed", "wrong"}]
  /\ bottom \in {"input", "question"}
  /\ send \in [to : Input \cup {None}, saved : Input \cup {None}, from : {"input", "question"}]
  /\ {answered, forgotten} \subseteq SUBSET Input

\* However a call is told of, by its task, its working task or the question it
\* asks, each row on the screen is made once and ended once, by a result or by the
\* end of the stream.
RowsOnce ==
  /\ \A r \in Row : row[r] # "wrong"
  /\ stream = "ended" => \A r \in Row : row[r] # "open"

\* What the user may answer is what the workflow waits for: nothing that is over, and
\* the request that is open, if it could be read and is not answered.  When an answer is
\* accepted after the workflow has asked again, send_prompt forgets the new request, too
\* (remote_events_source.py:115): that one is lost to the user, and no request after it.
AnswersReachTheQuestion ==
  /\ pending # None => input[pending] = "open"
  /\ status = "running" =>
       \A w \in Wait \ (answered \cup forgotten) : input[w] = "open" => pending = w

\* Rows and answers of a remote workflow.
RemoteFollowed == RowsOnce /\ AnswersReachTheQuestion
===============================================================================
