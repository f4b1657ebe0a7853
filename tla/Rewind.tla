------------------------------- MODULE Rewind -------------------------------
(***************************************************************************)
(* Rewinding a session (vibe/core/rewind/manager.py): the checkpoint taken *)
(* at every user message, the file snapshots the tools add to it, and the  *)
(* front end (vibe/cli/textual_ui/app.py), which remembers at which index  *)
(* of the history each message it shows should be.                         *)
(*                                                                         *)
(* The content of a file is the number of the edit that wrote it, Absent   *)
(* when there is no file.  A message is the number of the user message the *)
(* front end shows, or one of the two kinds it does not show.              *)
(***************************************************************************)
EXTENDS Integers, Sequences, FiniteSets, SequencesExt

CONSTANTS
  Path,         \* files the tools edit
  Tool,         \* running calls of write_file and search_replace
  MaxMessages,  \* bound: length of the history
  MaxSubmits,   \* bound: messages submitted
  MaxEdits,     \* bound: edits of files
  MaxFaults     \* bound: interrupts, failures and changes of access

Absent   == 0    \* FileSnapshot.content is None
Other    == 0    \* an assistant or tool message
Injected == -1   \* an injected user message or a summary
NoPath   == "none"

Content == 0..MaxEdits + 1
Message == -1..MaxSubmits + 1

ASSUME BoundsAssumption ==
  /\ MaxMessages \in Nat \ {0}
  /\ MaxSubmits \in Nat /\ MaxEdits \in Nat /\ MaxFaults \in Nat
ASSUME PathAssumption == NoPath \notin Path

VARIABLES
  phase,       \* "idle", "submitted" (shown, act() not begun), "running", "rewinding";
               \* after a summary "compacting" or, within an act(), "summarizing"
  messages,    \* the history without the system prompt
  gap,         \* the message behind which the next act() inserts an answer, or 0
  submits,     \* messages submitted so far
  \* RewindManager
  checkpoints,
  \* the front end
  widgets,     \* the user messages shown: their number and supposed index
  abandoned,   \* history: messages shown whose act() never began
  target,      \* the widget being rewound to, or 0
  leftover,    \* how many of the widgets show messages a reset removed
  removing,    \* CompactMessage.Completed is posted: they are about to be removed
  \* the files
  disk, unreadable, edits,
  misread,     \* history: paths of which a snapshot was taken while unreadable
  \* the tools between their snapshot and their write
  editing,
  stale,       \* history: those whose snapshot no checkpoint got, or no longer has
  faults

historyVars == <<messages, gap, submits>>
shownVars == <<widgets, leftover, removing>>
uiVars   == <<shownVars, abandoned, target>>
fileVars == <<disk, unreadable, edits>>
toolVars == <<editing, stale>>
vars == <<phase, historyVars, checkpoints, uiVars, fileVars, misread, toolVars, faults>>

Tracked(cp) == DOMAIN cp.files
Tracking    == UNION {Tracked(checkpoints[k]) : k \in DOMAIN checkpoints}

\* _read_snapshot: a file that cannot be read is taken for one that does not exist.
Snapshot(p)  == IF p \in unreadable THEN Absent ELSE disk[p]
Misread(ps)  == misread' = misread \cup {p \in ps : Snapshot(p) # disk[p]}

\* History only: an edit of p, by the user or by a tool that no checkpoint could
\* know of, is what a checkpoint without a snapshot of p has to give back.
Foreign(p, v) ==
  checkpoints' = [k \in DOMAIN checkpoints |->
     IF p \in Tracked(checkpoints[k]) THEN checkpoints[k]
     ELSE [checkpoints[k] EXCEPT !.was[p] = v]]

-----------------------------------------------------------------------------
\* A new session, or a resumed one of which one message is shown.
Init ==
  /\ phase = "idle" /\ gap = 0
  /\ \E resumed \in 0..1 :
       /\ messages = [k \in 1..resumed |-> k]
       /\ widgets = [k \in 1..resumed |-> [id |-> k, index |-> k]]
       /\ submits = resumed
  /\ checkpoints = <<>> /\ abandoned = {} /\ target = 0 /\ leftover = 0 /\ removing = FALSE
  /\ disk \in [Path -> {Absent, 1}] /\ unreadable = {} /\ edits = 0 /\ misread = {}
  /\ editing = [t \in Tool |-> NoPath] /\ stale = {} /\ faults = 0

-----------------------------------------------------------------------------
(* The conversation *)

\* Where the next user message should land.
LandingIndex == Len(messages) + 1

\* _handle_user_message: the message is shown with the index it should get.
Submit ==
  /\ phase = "idle" /\ submits <= MaxSubmits
  /\ submits' = submits + 1
  /\ widgets' = Append(widgets, [id |-> submits', index |-> LandingIndex])
  /\ phase' = "submitted"
  /\ UNCHANGED <<messages, gap, checkpoints, abandoned, target, leftover, removing, fileVars,
                 misread, toolVars, faults>>

\* An interrupt, or a failed deferred initialization, before act().
Abandon ==
  /\ phase = "submitted" /\ faults < MaxFaults
  /\ abandoned' = abandoned \cup {submits}
  /\ faults' = faults + 1
  /\ phase' = "idle"
  /\ UNCHANGED <<historyVars, checkpoints, shownVars, target, fileVars, misread, toolVars>>

\* create_checkpoint for a history of length n: the files of the last checkpoint
\* are read again.
CreateCheckpoint(n) ==
  LET known == IF checkpoints = <<>> THEN {} ELSE Tracked(Last(checkpoints))
  IN  /\ checkpoints' = Append(checkpoints,
            [id |-> submits, index |-> n + 1,
             files |-> [p \in known |-> Snapshot(p)], was |-> disk])
      /\ Misread(known)

\* _fill_missing_tool_responses
Repaired == IF gap = 0 THEN messages ELSE InsertAt(messages, gap + 1, Other)

\* act(): the history is repaired, the checkpoint created, the message appended.
Act ==
  /\ phase = "submitted" /\ Len(messages) + 1 < MaxMessages
  /\ CreateCheckpoint(Len(Repaired))
  /\ messages' = Append(Repaired, submits)
  /\ gap' = 0
  /\ phase' = "running"
  /\ UNCHANGED <<submits, uiVars, fileVars, toolVars, faults>>

\* Assistant, tool and injected messages: those of the act(); at any time the output
\* of a "!" command, for a submission cancels the command and does not wait for the
\* message it injects then; and outside an act() the answer of a tool that an
\* interrupt left behind.
AppendMessage(m) ==
  /\ m \in {Other, Injected} /\ Len(messages) < MaxMessages
  /\ IF m = Other /\ phase # "running"
     THEN gap > 0 /\ gap' \in {gap, 0}
     ELSE UNCHANGED gap
  /\ messages' = Append(messages, m)
  /\ UNCHANGED <<phase, submits, checkpoints, uiVars, fileVars, misread, toolVars,
                 faults>>

\* The act() ends; an interrupt may leave calls of the last message unanswered,
\* and tools that have not written yet.
EndAct(unanswered) ==
  /\ phase = "running"
  /\ IF unanswered
     THEN /\ Last(messages) = Other /\ faults < MaxFaults
          /\ gap' = Len(messages) /\ faults' = faults + 1
     ELSE UNCHANGED <<gap, faults>>
  /\ phase' = "idle"
  /\ UNCHANGED <<messages, submits, checkpoints, uiVars, fileVars, misread, toolVars>>

\* The list of messages is reset: the checkpoints go with them (_on_messages_reset), and what
\* a tool has taken a snapshot of is in none.
Reset(msgs) ==
  /\ messages' = msgs /\ gap' = 0 /\ checkpoints' = <<>>
  /\ stale' = {t \in Tool : editing[t] # NoPath}

\* clear_history, and then the screen, which is not cleared if the new session fails.  What a
\* compaction's end posted is done before the next command.
Clear(fails) ==
  /\ phase = "idle" /\ ~removing
  /\ Reset(<<>>)
  /\ IF fails
     THEN /\ faults < MaxFaults /\ faults' = faults + 1
          /\ leftover' = Len(widgets) /\ widgets' = widgets
     ELSE /\ widgets' = <<>> /\ leftover' = 0 /\ faults' = faults
  /\ UNCHANGED <<phase, submits, removing, abandoned, target, fileVars, misread, editing>>

\* compact, by the user or within an act(), up to the new history: some of the user's
\* messages, which no widget shows any more, and the summary.  The request to the model takes
\* longer than the screen needs for what an earlier compaction left.
Summarize(kept) ==
  /\ phase \in {"idle", "running"} /\ ~removing
  /\ kept <= Cardinality({i \in DOMAIN messages : messages[i] # Other}) /\ kept < MaxMessages
  /\ Reset([i \in 1..kept + 1 |-> Injected])
  /\ leftover' = Len(widgets)
  /\ phase' = IF phase = "idle" THEN "compacting" ELSE "summarizing"
  /\ UNCHANGED <<submits, widgets, removing, abandoned, target, fileVars, misread, editing,
                 faults>>

\* It fails or is cancelled before that: the repair stays, and the request for a summary.
FailSummary(asked) ==
  /\ phase \in {"idle", "running"} /\ faults < MaxFaults
  /\ Len(messages) + 1 < MaxMessages
  /\ messages' = IF asked THEN Append(Repaired, Injected) ELSE Repaired
  /\ gap' = 0
  /\ faults' = faults + 1
  /\ phase' = "idle"
  /\ UNCHANGED <<submits, checkpoints, uiVars, fileVars, misread, toolVars>>

\* The rest of compact: the new session, the count of tokens, the save.  If one fails or is
\* cancelled, the widgets of the old history stay (_run_compact only shows the error).
EndCompact(fails) ==
  /\ phase \in {"compacting", "summarizing"}
  /\ IF fails THEN faults < MaxFaults /\ faults' = faults + 1 ELSE UNCHANGED faults
  /\ removing' = ~fails
  /\ phase' = IF phase = "summarizing" /\ ~fails THEN "running" ELSE "idle"
  /\ UNCHANGED <<historyVars, checkpoints, widgets, leftover, abandoned, target, fileVars, misread,
                 toolVars>>

\* on_compact_message_completed: what is above the compaction's own widget is removed.
RemoveOld ==
  /\ removing /\ phase # "rewinding"
  /\ widgets' = SubSeq(widgets, leftover + 1, Len(widgets))
  /\ leftover' = 0 /\ removing' = FALSE
  /\ UNCHANGED <<phase, historyVars, checkpoints, abandoned, target, fileVars, misread, toolVars,
                 faults>>

-----------------------------------------------------------------------------
(* The tools that edit files *)

WithSnapshot(cp, p) ==
  [cp EXCEPT !.files = [q \in DOMAIN @ \cup {p} |-> IF q = p THEN Snapshot(p) ELSE @[q]]]

\* Mutant: only the last checkpoint gets the snapshot.
AddSnapshotLast(p) ==
  checkpoints' = [k \in DOMAIN checkpoints |->
     IF p \in Tracked(checkpoints[k]) \/ k < Len(checkpoints) THEN checkpoints[k]
     ELSE WithSnapshot(checkpoints[k], p)]

\* add_snapshot: into every checkpoint that has none of p yet.
AddSnapshot(p) ==
  checkpoints' = [k \in DOMAIN checkpoints |->
     IF p \in Tracked(checkpoints[k]) THEN checkpoints[k]
     ELSE WithSnapshot(checkpoints[k], p)]

\* _execute_tool_call takes the snapshot just before it runs the tool.
BeginEdit(t, p) ==
  /\ phase = "running" /\ editing[t] = NoPath
  /\ editing' = [editing EXCEPT ![t] = p]
  /\ AddSnapshot(p)
  /\ Misread({p})
  /\ stale' = IF checkpoints = <<>> THEN stale \cup {t} ELSE stale
  /\ UNCHANGED <<phase, historyVars, uiVars, fileVars, faults>>

\* The tool writes the file or fails, maybe after the act() that ran it.
Write(t, fails) ==
  /\ editing[t] # NoPath
  /\ IF fails
     THEN UNCHANGED <<disk, edits, checkpoints>>
     ELSE /\ edits < MaxEdits
          /\ edits' = edits + 1
          /\ disk' = [disk EXCEPT ![editing[t]] = edits' + 1]
          /\ IF t \in stale THEN Foreign(editing[t], edits' + 1)
                            ELSE UNCHANGED checkpoints
  /\ editing' = [editing EXCEPT ![t] = NoPath]
  /\ stale' = stale \ {t}
  /\ UNCHANGED <<phase, historyVars, uiVars, unreadable, misread, faults>>

\* The user or a shell command changes a file or deletes it.
UserEdit(p, deletes) ==
  /\ edits < MaxEdits
  /\ edits' = edits + 1
  /\ disk' = [disk EXCEPT ![p] = IF deletes THEN Absent ELSE edits' + 1]
  /\ Foreign(p, disk'[p])
  /\ UNCHANGED <<phase, historyVars, uiVars, unreadable, misread, toolVars, faults>>

\* A file can no longer be read (its mode, too many open files), or again.
ChangeAccess(p) ==
  /\ faults < MaxFaults
  /\ faults' = faults + 1
  /\ unreadable' = IF p \in unreadable THEN unreadable \ {p} ELSE unreadable \cup {p}
  /\ UNCHANGED <<phase, historyVars, checkpoints, uiVars, disk, edits, misread, toolVars>>

-----------------------------------------------------------------------------
(* Rewinding *)

\* _get_checkpoint: the first checkpoint with the index.
CheckpointAt(i)  == SelectInSeq(checkpoints, LAMBDA cp : cp.index = i)

\* has_file_changes_at: what the panel offers to restore.
HasChanges(cp) == \E p \in Tracked(cp) \ unreadable : disk[p] # cp.files[p]

\* _restore_checkpoint; what cannot be written or deleted is reported only.
Restore(cp, failed) ==
  disk' = [p \in Path |-> IF p \in Tracked(cp) \ failed THEN cp.files[p] ELSE disk[p]]

\* rewind_to_message up to its save: the files come first.  An index that names no
\* user message is refused.
StartRewind(w, restore, failed) ==
  /\ phase = "idle" /\ w \in DOMAIN widgets
  /\ widgets[w].index <= Len(messages) /\ messages[widgets[w].index] # Other
  /\ IF restore
     THEN LET k == CheckpointAt(widgets[w].index)
          IN  k > 0 /\ HasChanges(checkpoints[k]) /\ Restore(checkpoints[k], failed)
     ELSE failed = {} /\ UNCHANGED disk
  /\ target' = w
  /\ phase' = "rewinding"
  /\ UNCHANGED <<historyVars, checkpoints, shownVars, abandoned, unreadable, edits, misread,
                 toolVars, faults>>

\* The checkpoints of messages before index i.
Before(cps, i) ==
  LET kept[k \in 0..Len(cps)] ==
        IF k = 0 THEN <<>>
        ELSE IF cps[k].index < i THEN Append(kept[k - 1], cps[k]) ELSE kept[k - 1]
  IN  kept[Len(cps)]

\* Mutant: the checkpoint of the removed message stays.
DropCheckpointsAfter(i) == checkpoints' = Before(checkpoints, i + 1)

DropCheckpoints(i) == checkpoints' = Before(checkpoints, i)

\* Mutant: the widgets after the target stay.
DropWidgetsKeep(w) == widgets' = widgets

DropWidgets(w) == widgets' = SubSeq(widgets, 1, w - 1)

\* The session is saved: checkpoints, messages and widgets from the message on go; with an
\* old one the compaction's own widget, so that nothing else is removed for it.
FinishRewind ==
  /\ phase = "rewinding"
  /\ LET i == widgets[target].index
     IN  /\ DropCheckpoints(i)
         /\ messages' = SubSeq(messages, 1, i - 1)
         /\ gap' = IF gap < i THEN gap ELSE 0
  /\ DropWidgets(target)
  /\ IF target <= leftover THEN leftover' = target - 1 /\ removing' = FALSE
                           ELSE UNCHANGED <<leftover, removing>>
  /\ stale' = {t \in Tool : editing[t] # NoPath}
  /\ target' = 0
  /\ phase' = "idle"
  /\ UNCHANGED <<submits, abandoned, fileVars, misread, editing, faults>>

\* The save fails: the files are restored, the conversation is as it was.
FailRewind ==
  /\ phase = "rewinding" /\ faults < MaxFaults
  /\ faults' = faults + 1
  /\ target' = 0
  /\ phase' = "idle"
  /\ UNCHANGED <<historyVars, checkpoints, shownVars, abandoned, fileVars, misread, toolVars>>

-----------------------------------------------------------------------------
Conversation ==
  \/ Submit \/ Abandon \/ Act
  \/ \E m \in {Other, Injected} : AppendMessage(m)
  \/ \E b \in BOOLEAN : EndAct(b) \/ Clear(b) \/ FailSummary(b) \/ EndCompact(b)
  \/ \E kept \in 0..MaxMessages : Summarize(kept)
  \/ RemoveOld

Files ==
  \/ \E t \in Tool, p \in Path : BeginEdit(t, p)
  \/ \E t \in Tool, fails \in BOOLEAN : Write(t, fails)
  \/ \E p \in Path, deletes \in BOOLEAN : UserEdit(p, deletes)
  \/ \E p \in Path : ChangeAccess(p)

Rewinding ==
  \/ \E w \in DOMAIN widgets, b \in BOOLEAN, f \in SUBSET Path : StartRewind(w, b, f)
  \/ FinishRewind \/ FailRewind

Next == Conversation \/ Files \/ Rewinding

Spec == Init /\ [][Next]_vars

\* The calls are alike.
ToolSymmetry == Permutations(Tool)

-----------------------------------------------------------------------------
(* Properties *)

Snapshots  == UNION {[ps -> Content] : ps \in SUBSET Path}
Checkpoint ==
  [id : 1..MaxSubmits + 1, index : 1..MaxMessages, files : Snapshots,
   was : [Path -> Content]]

\* Type invariant of the conversation, the checkpoints, the widgets and the files.
TypeOK ==
  /\ phase \in {"idle", "submitted", "running", "rewinding", "compacting", "summarizing"}
  /\ messages \in Seq(Message) /\ Len(messages) <= MaxMessages
  /\ gap \in 0..Len(messages) /\ submits \in 0..MaxSubmits + 1
  /\ checkpoints \in Seq(Checkpoint)
  /\ widgets \in Seq([id : 1..MaxSubmits + 1, index : 1..MaxMessages + 1])
  /\ abandoned \in SUBSET (1..MaxSubmits + 1) /\ target \in 0..Len(widgets)
  /\ leftover \in 0..Len(widgets) /\ removing \in BOOLEAN
  /\ disk \in [Path -> Content] /\ unreadable \in SUBSET Path /\ edits \in 0..MaxEdits
  /\ misread \in SUBSET Path /\ editing \in [Tool -> Path \cup {NoPath}]
  /\ stale \in SUBSET Tool /\ faults \in 0..MaxFaults

\* Every checkpoint stands at the user message it was created for, whatever was
\* repaired, rewound, compacted or left unanswered since.
CheckpointsAtTheirMessages ==
  \A k \in DOMAIN checkpoints :
     /\ checkpoints[k].index <= Len(messages)
     /\ messages[checkpoints[k].index] = checkpoints[k].id

\* Every edit a tool made can be undone back to every checkpoint: restoring it
\* gives each file the content it had then, or that the user gave it before the
\* first tool touched it; files a snapshot could not read excepted.
EditsUndoable ==
  \A k \in DOMAIN checkpoints : \A p \in Path \ misread :
     checkpoints[k].was[p] = IF p \in Tracked(checkpoints[k])
                             THEN checkpoints[k].files[p] ELSE disk[p]

\* An index that has become wrong never restores the files of another message: where a widget
\* finds a checkpoint it is its own, unless its act() never began, or a compaction or a clear
\* took its message from the history and what then removes the widget failed or is to come.
WidgetRestoresItsOwn ==
  \A w \in leftover + 1..Len(widgets), k \in DOMAIN checkpoints :
     widgets[w].index = checkpoints[k].index =>
        widgets[w].id \in {checkpoints[k].id} \cup abandoned

\* app.py:1206 says message_index is where the user message will land.
WidgetIndexIsWhereItLanded ==
  \A w \in DOMAIN widgets, i \in DOMAIN messages :
     messages[i] = widgets[w].id => widgets[w].index = i
=============================================================================
