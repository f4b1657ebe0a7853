------------------------------ MODULE AcpUpdates -------------------------------
(***************************************************************************)
(* What an ACP client is told of the tool calls of one reply               *)
(* (acp_agent_loop.py, acp/tools): a call is announced while the reply     *)
(* streams, again with its arguments, asked about, and ended by its        *)
(* result.  The calls run side by side, each with the one instance of its  *)
(* tool, and their events pass through one queue; files are read and       *)
(* written through the client.                                             *)
(*                                                                         *)
(* Calls are numbered in the order of the reply.  Terminals, sessions and  *)
(* cancelled prompts are in AcpServer; here a cancelled prompt is one that *)
(* says no more.                                                           *)
(***************************************************************************)
EXTENDS Integers, Sequences, FiniteSets, SequencesExt

CONSTANTS
  Kind,     \* what the model calls: "bash" (a terminal), "edit" (of a file), "todo" (a plan,
            \* with no announcement of its own), "other", "unknown" (a name that is no tool)
  Calls     \* bound: the calls of the reply

Call == 1..Calls
File == {"a", "b"}

VARIABLES
  kind, args, path, \* of each call: its tool, whether its arguments are valid, its file
  phase,    \* the prompt: "reply", "calls", "tools", "end_turn", "cancelled", "error"
  answer,   \* what the client is answered, or "none"
  outbox,   \* events the agent loop yields before it runs the tools
  queue,    \* events of the running tools
  at,       \* each tool: how far it is
  decided,  \* its outcome: "none", "ok", "error", "skipped", "stopped" (by the user)
  told,     \* the client's record of a call: its announcement and its status
  disk,     \* the edits a file of the client holds
  bak,      \* the file its backup was made of, or "none"
  read,     \* the content an edit has read
  backup,   \* file_backup_content of the instance: the file it is the content of
  crossed   \* an edit began while another one was at work

vars == <<kind, args, path, phase, answer, outbox, queue, at, decided, told, disk, bak, read,
          backup, crossed>>
model == <<kind, args, path>>
files == <<disk, bak, read, backup, crossed>>
events == <<outbox, queue>>

Final == {"completed", "failed"}
Known(c) == kind[c] # "unknown"
Announced(c) == kind[c] \notin {"unknown", "todo"}
Over == phase \in {"end_turn", "cancelled", "error"}
Failure == {"rate_limit", "context_too_long", "internal"}
Event(type, c) == [type |-> type, call |-> c]

Init ==
  /\ kind \in [Call -> Kind] /\ path \in [Call -> File]
  /\ \A c \in Call : kind[c] # "edit" => path[c] = "a"
  /\ args \in [Call -> BOOLEAN] /\ \A c \in Call : kind[c] = "unknown" => args[c]
  /\ phase = "reply" /\ answer = "none" /\ outbox = <<>> /\ queue = <<>>
  /\ at = [c \in Call |-> "none"] /\ decided = [c \in Call |-> "none"]
  /\ told = [c \in Call |-> [start |-> "no", status |-> "none"]]
  /\ disk = [f \in File |-> {}] /\ bak = [f \in File |-> "none"]
  /\ read = [c \in Call |-> {}] /\ backup = "none" /\ crossed = FALSE

\* tool_call_session_update: the call without and with its arguments.
Announce(c, start) == told' = IF Announced(c) THEN [told EXCEPT ![c].start = start] ELSE told

\* _stream_assistant_events: the name of a call has arrived; each is announced once.
Streams(c) ==
  /\ phase = "reply" /\ at[c] = "none" /\ Known(c)
  /\ \A d \in 1..(c - 1) : at[d] = "named" \/ ~Known(d)
  /\ at' = [at EXCEPT ![c] = "named"] /\ Announce(c, "named")
  /\ UNCHANGED <<model, phase, answer, events, decided, files>>

\* The whole reply is there: calls that cannot be resolved fail first.
ReplyEnds ==
  /\ phase = "reply" /\ \A c \in Call : at[c] = "named" \/ ~Known(c)
  /\ LET good(c) == Known(c) /\ args[c]
         all == [c \in Call |-> c]
     IN /\ outbox' = [i \in 1..Len(SelectSeq(all, LAMBDA c : ~good(c))) |->
                        Event("failed", SelectSeq(all, LAMBDA c : ~good(c))[i])]
                     \o [i \in 1..Len(SelectSeq(all, good)) |->
                          Event("call", SelectSeq(all, good)[i])]
        /\ at' = [c \in Call |-> IF good(c) THEN "resolved" ELSE "done"]
        /\ decided' = [c \in Call |-> IF good(c) THEN "none" ELSE "error"]
  /\ phase' = "calls"
  /\ UNCHANGED <<model, answer, queue, told, files>>

\* The tools start once every call has been announced.
ToolsStart ==
  /\ phase = "calls" /\ outbox = <<>> /\ phase' = "tools"
  /\ at' = [c \in Call |-> IF at[c] = "resolved" THEN "started" ELSE at[c]]
  /\ UNCHANGED <<model, answer, events, decided, told, files>>

------------------------------------------------------------------------------
\* The tools, side by side.

Put(c, type) == queue' = Append(queue, Event(type, c))
Ends(c, outcome) ==
  /\ at' = [at EXCEPT ![c] = "done"] /\ decided' = [decided EXCEPT ![c] = outcome]
  /\ Put(c, "result")

\* approval_callback; a plan needs no permission.
Asks(c) ==
  /\ phase = "tools" /\ at[c] = "started" /\ kind[c] # "todo"
  /\ at' = [at EXCEPT ![c] = "asking"]
  /\ UNCHANGED <<model, phase, answer, events, decided, told, files>>
Answers(c) ==
  /\ phase = "tools" /\ at[c] = "asking"
  /\ \/ at' = [at EXCEPT ![c] = "runs"] /\ UNCHANGED <<queue, decided>>
     \/ Ends(c, "skipped")
     \/ Ends(c, "stopped")
  /\ UNCHANGED <<model, phase, answer, outbox, told, files>>
NeedsNoAnswer(c) ==
  /\ phase = "tools" /\ at[c] = "started" /\ at' = [at EXCEPT ![c] = "runs"]
  /\ UNCHANGED <<model, phase, answer, events, decided, told, files>>

\* The terminal of a command is shown before it ends.
TerminalOpens(c) ==
  /\ phase = "tools" /\ at[c] = "runs" /\ kind[c] = "bash"
  /\ at' = [at EXCEPT ![c] = "waits"] /\ Put(c, "terminal")
  /\ UNCHANGED <<model, phase, answer, outbox, decided, told, files>>
Runs(c) ==
  /\ phase = "tools"
  /\ at[c] = "waits" \/ (at[c] = "runs" /\ kind[c] # "edit")
  /\ Ends(c, "ok") \/ Ends(c, "error")
  /\ UNCHANGED <<model, phase, answer, outbox, told, files>>

\* SearchReplace._read_file, _backup_file, _write_file.
Editing == {d \in Call : at[d] \in {"reads", "writes"}}
EditReadsFirst(c) ==
  /\ read' = [read EXCEPT ![c] = disk[path[c]]]
  /\ backup' = IF backup = "none" THEN path[c] ELSE backup

EditReads(c) ==
  /\ read' = [read EXCEPT ![c] = disk[path[c]]] /\ backup' = path[c]

EditBegins(c) ==
  /\ phase = "tools" /\ at[c] = "runs" /\ kind[c] = "edit"
  /\ \/ Ends(c, "error") /\ UNCHANGED <<read, backup, crossed>>
     \/ /\ at' = [at EXCEPT ![c] = "reads"] /\ crossed' = (crossed \/ Editing # {})
        /\ EditReads(c) /\ UNCHANGED <<queue, decided>>
  /\ UNCHANGED <<model, phase, answer, outbox, told, disk, bak>>
BackupFile(c) ==
  /\ phase = "tools" /\ at[c] = "reads"
  /\ bak' = IF backup = "none" THEN bak ELSE [bak EXCEPT ![path[c]] = backup]
  /\ at' = [at EXCEPT ![c] = "writes"]
  /\ UNCHANGED <<model, phase, answer, events, decided, told, disk, read, backup, crossed>>
EditWrites(c) ==
  /\ phase = "tools" /\ at[c] = "writes"
  /\ \/ disk' = [disk EXCEPT ![path[c]] = read[c] \cup {c}] /\ Ends(c, "ok")
     \/ Ends(c, "error") /\ UNCHANGED disk
  /\ UNCHANGED <<model, phase, answer, outbox, told, bak, read, backup, crossed>>

------------------------------------------------------------------------------
\* _run_agent_loop: an event becomes an update, and the next one waits until the client has
\* it.

\* tool_result_session_update; a plan has no other answer than its entries, and one that
\* failed has none, which raises.
StatusCompleted(c) == "completed"

Status(c) == IF decided[c] = "ok" THEN "completed" ELSE "failed"

Told(c, status) == told' = [told EXCEPT ![c].status = status]
Breaks(e) == e.type = "result" /\ kind[e.call] = "todo" /\ decided[e.call] # "ok"

Update(e) ==
  CASE e.type = "call" -> Announce(e.call, "args")
    [] e.type = "failed" -> Told(e.call, "failed")
    [] e.type = "terminal" -> Told(e.call, "in_progress")
    [] e.type = "result" /\ kind[e.call] = "todo" -> UNCHANGED told
    [] OTHER -> Told(e.call, Status(e.call))

YieldsCall ==
  /\ phase = "calls" /\ outbox # <<>>
  /\ Update(Head(outbox)) /\ outbox' = Tail(outbox)
  /\ UNCHANGED <<model, phase, answer, queue, at, decided, files>>
YieldsEvent ==
  /\ phase = "tools" /\ queue # <<>>
  /\ LET e == Head(queue)
     IN \/ /\ ~Breaks(e) /\ Update(e) /\ queue' = Tail(queue) /\ UNCHANGED <<phase, answer>>
        \/ /\ Breaks(e) /\ phase' = "error" /\ answer' = "internal" /\ UNCHANGED <<told, queue>>
  /\ UNCHANGED <<model, outbox, at, decided, files>>

\* All tools have ended: the turn is over for this reply.
AllEnded == phase = "tools" /\ queue = <<>> /\ \A c \in Call : at[c] = "done"
EndTurn ==
  /\ AllEnded /\ phase' = "end_turn" /\ answer' = "end_turn"
  /\ UNCHANGED <<model, events, at, decided, told, files>>

\* The request of the reply fails, at any point of its stream, or that of the next reply,
\* which is made unless the user stopped a tool: the exception ends the prompt.
RequestFails(why) ==
  /\ phase = "reply" \/ (AllEnded /\ \A c \in Call : decided[c] # "stopped")
  /\ phase' = "error" /\ answer' = why
  /\ UNCHANGED <<model, events, at, decided, told, files>>

\* session/cancel: nothing more is told.
Cancel ==
  /\ ~Over /\ phase' = "cancelled" /\ answer' = "cancelled"
  /\ UNCHANGED <<model, events, at, decided, told, files>>

Next ==
  \/ ReplyEnds \/ ToolsStart \/ YieldsCall \/ YieldsEvent \/ EndTurn \/ Cancel
  \/ \E c \in Call :
       \/ Streams(c) \/ Asks(c) \/ Answers(c) \/ NeedsNoAnswer(c) \/ TerminalOpens(c)
       \/ Runs(c) \/ EditBegins(c) \/ BackupFile(c) \/ EditWrites(c)
  \/ \E why \in Failure : RequestFails(why)

Spec == Init /\ [][Next]_vars

------------------------------------------------------------------------------
TypeOK ==
  /\ kind \in [Call -> Kind] /\ path \in [Call -> File]
  /\ phase \in {"reply", "calls", "tools", "end_turn", "cancelled", "error"}
  /\ answer \in {"none", "end_turn", "cancelled"} \cup Failure
  /\ \A c \in Call :
       /\ at[c] \in {"none", "named", "resolved", "started", "asking", "runs", "waits",
                     "reads", "writes", "done"}
       /\ decided[c] \in {"none", "ok", "error", "skipped", "stopped"}
       /\ told[c].start \in {"no", "named", "args"}
       /\ told[c].status \in {"none", "in_progress"} \cup Final

\* The client follows every call: it is asked about a call only after it has seen its
\* arguments; a call it was told the end of has ended, as told, and says no more; when the
\* turn ends, the client knows the end of each call it knows of.
CallsFollowed ==
  \A c \in Call :
     /\ at[c] = "asking" => told[c].start = "args"
     /\ told[c].status \in Final =>
          /\ at[c] = "done" /\ (told[c].status = "completed" <=> decided[c] = "ok")
          /\ \A i \in DOMAIN queue : queue[i].call # c
     /\ phase = "end_turn" /\ told[c].start # "no" => told[c].status \in Final

\* A prompt that fails leaves no tool the client is not told the end of: its request failed
\* before a tool began or after the client had followed every call to its end.  The one
\* other cause is a plan that failed, an internal error; the results before it were told.
Followed(c) == Announced(c) => told[c].status \in Final
ErrorsExplained ==
  phase = "error" =>
    \/ \A c \in Call : at[c] \in {"none", "named"}
    \/ queue = <<>> /\ \A c \in Call : at[c] = "done" /\ Followed(c)
    \/ /\ answer = "internal" /\ queue # <<>> /\ Breaks(Head(queue))
       /\ \A c \in Call : at[c] = "done" => Followed(c) \/ \E i \in DOMAIN queue : queue[i].call = c

\* As long as no edit began while another was at work, each edit that succeeded is in its
\* file, and a backup is one of the file it is named after.
EditsKept ==
  ~crossed =>
    /\ \A c \in Call : kind[c] = "edit" /\ decided[c] = "ok" => c \in disk[path[c]]
    /\ \A f \in File : bak[f] \in {"none", f}
================================================================================
