------------------------------ MODULE SessionLog ------------------------------
(***************************************************************************)
(* The session log on disk (vibe/core/session/session_logger.py and        *)
(* session_loader.py) and the coroutines that write it.  A session         *)
(* directory holds messages.jsonl, to which lines are only appended, and   *)
(* metadata.json, replaced atomically, of which only total_messages        *)
(* matters here.  save_interaction appends what lies beyond that total and *)
(* then replaces the metadata; persist_loops and persist_experiments read  *)
(* the metadata, patch it and replace it.  Nothing serializes the writers, *)
(* and every step below is followed by an await.                           *)
(***************************************************************************)
EXTENDS Integers, Sequences, FiniteSets, SequencesExt

CONSTANTS
  Savers,     \* coroutines in save_interaction: the act(), a "!" command
  Patchers,   \* coroutines in persist_loops or persist_experiments
  MaxMsgs,    \* bound: messages ever created, placeholders included
  MaxLines,   \* bound: no save starts once the file has this many lines
  MaxFaults   \* bound: interrupts, crashes, repairs and resets

Writers == Savers \cup Patchers
Msg     == 1..MaxMsgs
None    == -1

ASSUME BoundsAssumption == MaxMsgs \in Nat /\ MaxLines \in Nat /\ MaxFaults \in Nat
ASSUME WritersAssumption == Savers \cap Patchers = {}

VARIABLES
  history,    \* AgentLoop.messages without the system prompt
  created,    \* messages created so far
  placeholders, \* history: the answers inserted by _fill_missing_tool_responses
  up,         \* the process runs
  file,       \* messages.jsonl of the current session directory
  total,      \* total_messages of its metadata.json, None before it exists
  pc, base, rest, goal, \* per writer: where it stands, the total it read, the
                        \* lines it has still to append, the total it will set
  resetting,  \* savers that reset the history once they have saved
  confirmed,  \* history: messages some completed save of this session covered
  faults,     \* interrupts, crashes, repairs and resets so far (bounded)
  overlapped  \* history: two writers were active at once

diskVars   == <<file, total>>
memVars    == <<history, created, placeholders>>
writerVars == <<pc, base, rest, goal, resetting>>
vars == <<memVars, up, diskVars, writerVars, confirmed, faults, overlapped>>

Steps == {"idle", "reading", "writing", "resetting"}

Busy(w) == pc[w] # "idle"

-----------------------------------------------------------------------------
Init ==
  /\ history = <<>> /\ created = 0 /\ placeholders = {}
  /\ up = TRUE /\ file = <<>> /\ total = None
  /\ pc = [w \in Writers |-> "idle"] /\ base = [w \in Writers |-> 0]
  /\ rest = [w \in Writers |-> <<>>] /\ goal = [w \in Writers |-> 0]
  /\ resetting = {} /\ confirmed = {} /\ faults = 0 /\ overlapped = FALSE

-----------------------------------------------------------------------------
(* The history in memory *)

\* A user, assistant or tool message is appended, whoever is saving meanwhile.
AppendMessage ==
  /\ up /\ created < MaxMsgs
  /\ created' = created + 1
  /\ history' = Append(history, created')
  /\ UNCHANGED <<placeholders, up, diskVars, writerVars, confirmed, faults, overlapped>>

\* _fill_missing_tool_responses, run by a coroutine that is not saving meanwhile,
\* inserts an answer inside the history.
Repair(i) ==
  /\ up /\ created < MaxMsgs /\ faults < MaxFaults
  /\ \E w \in Savers : ~Busy(w)
  /\ i \in 1..Len(history)
  /\ created' = created + 1
  /\ placeholders' = placeholders \cup {created'}
  /\ history' = InsertAt(history, i, created')
  /\ faults' = faults + 1
  /\ UNCHANGED <<up, diskVars, writerVars, confirmed, overlapped>>

-----------------------------------------------------------------------------
(* save_interaction *)

Overlap(w) == overlapped' = (overlapped \/ \E v \in Writers \ {w} : Busy(v))

\* What a saver does once it has nothing left to write.
After(w) == IF w \in resetting THEN "resetting" ELSE "idle"

\* Mutant: the slice starts one message too late.
SliceLate(n) == SubSeq(history, n + 2, Len(history))

\* Mutant: the slice starts at the last saved message.
SliceEarly(n) == SubSeq(history, IF n = 0 THEN 1 ELSE n, Len(history))

\* The messages beyond the first n.
Slice(n) == SubSeq(history, n + 1, Len(history))

\* With the total n of the metadata, the messages beyond it are to be written;
\* when there are none the save is over.
Plan(w, n) ==
  /\ pc' = [pc EXCEPT ![w] = IF Len(history) > n THEN "writing" ELSE After(w)]
  /\ rest' = [rest EXCEPT ![w] = Slice(n)]
  /\ goal' = [goal EXCEPT ![w] = Len(history)]

\* Without metadata nothing is read and the first await is that of the first
\* line.  A save that precedes a reset belongs to clear, compact or rewind.
StartSave(w, reset) ==
  /\ up /\ w \in Savers /\ ~Busy(w)
  /\ history # <<>> /\ Len(file) < MaxLines
  /\ reset => faults < MaxFaults
  /\ IF total = None
     THEN /\ Plan(w, 0)
          /\ UNCHANGED base
     ELSE /\ pc' = [pc EXCEPT ![w] = "reading"]
          /\ base' = [base EXCEPT ![w] = total]
          /\ UNCHANGED <<rest, goal>>
  /\ resetting' = IF reset THEN resetting \cup {w} ELSE resetting
  /\ Overlap(w)
  /\ UNCHANGED <<memVars, up, diskVars, confirmed, faults>>

\* The text of the metadata has been read: the messages are sliced now.
PlanSave(w) ==
  /\ w \in Savers /\ pc[w] = "reading"
  /\ Plan(w, base[w])
  /\ UNCHANGED <<memVars, up, diskVars, base, resetting, confirmed, faults, overlapped>>

\* One line is written, flushed and synced.
WriteLine(w) ==
  /\ pc[w] = "writing" /\ rest[w] # <<>>
  /\ file' = Append(file, Head(rest[w]))
  /\ rest' = [rest EXCEPT ![w] = Tail(@)]
  /\ UNCHANGED <<memVars, up, total, pc, base, goal, resetting, confirmed, faults, overlapped>>

\* Mutant: total_messages is the length of the history when the metadata is written.
CommitCurrent(w) ==
  /\ w \in Savers /\ pc[w] = "writing" /\ rest[w] = <<>>
  /\ total' = Len(history)
  /\ pc' = [pc EXCEPT ![w] = After(w)]
  /\ confirmed' = confirmed \cup Range(SubSeq(history, 1, goal[w]))
  /\ UNCHANGED <<memVars, up, file, base, rest, goal, resetting, faults, overlapped>>

\* The metadata is replaced, and with it the number of messages saved.
Commit(w) ==
  /\ w \in Savers /\ pc[w] = "writing" /\ rest[w] = <<>>
  /\ total' = goal[w]
  /\ pc' = [pc EXCEPT ![w] = After(w)]
  /\ confirmed' = confirmed \cup Range(SubSeq(history, 1, goal[w]))
  /\ UNCHANGED <<memVars, up, file, base, rest, goal, resetting, faults, overlapped>>

\* clear_history, compact and rewind_to_message go on to a new session directory
\* with what they keep of the history.  Writers that still hold the old
\* directory go on there, unseen.
Reset(w, n) ==
  /\ pc[w] = "resetting" /\ faults < MaxFaults
  /\ n \in 0..Len(history)
  /\ history' = SubSeq(history, 1, n)
  /\ file' = <<>> /\ total' = None
  /\ confirmed' = {}
  /\ pc' = [v \in Writers |-> "idle"] /\ resetting' = {}
  /\ rest' = [v \in Writers |-> <<>>]
  /\ faults' = faults + 1
  /\ UNCHANGED <<created, placeholders, up, base, goal, overlapped>>

-----------------------------------------------------------------------------
(* persist_loops and persist_experiments *)

\* Mutant: the check that there is metadata is missing.
StartPatchUnchecked(w) ==
  /\ up /\ w \in Patchers /\ ~Busy(w)
  /\ pc' = [pc EXCEPT ![w] = "reading"]
  /\ base' = [base EXCEPT ![w] = total]
  /\ Overlap(w)
  /\ UNCHANGED <<memVars, up, diskVars, rest, goal, resetting, confirmed, faults>>

\* Before the first save there is no metadata to patch.
StartPatch(w) ==
  /\ up /\ w \in Patchers /\ ~Busy(w) /\ total # None
  /\ pc' = [pc EXCEPT ![w] = "reading"]
  /\ base' = [base EXCEPT ![w] = total]
  /\ Overlap(w)
  /\ UNCHANGED <<memVars, up, diskVars, rest, goal, resetting, confirmed, faults>>

\* Every other field of the metadata is written back as it was read.
CommitPatch(w) ==
  /\ w \in Patchers /\ pc[w] = "reading"
  /\ total' = base[w]
  /\ pc' = [pc EXCEPT ![w] = "idle"]
  /\ UNCHANGED <<memVars, up, file, base, rest, goal, resetting, confirmed, faults, overlapped>>

-----------------------------------------------------------------------------
(* Faults *)

\* CancelledError inside a save: what was appended stays, the metadata too, and
\* the "finally" of the conversation loop may save again.
Interrupt(w) ==
  /\ Busy(w) /\ w \notin resetting /\ faults < MaxFaults
  /\ pc' = [pc EXCEPT ![w] = "idle"] /\ rest' = [rest EXCEPT ![w] = <<>>]
  /\ faults' = faults + 1
  /\ UNCHANGED <<memVars, up, diskVars, base, goal, resetting, confirmed, overlapped>>

Crash ==
  /\ up /\ faults < MaxFaults
  /\ up' = FALSE
  /\ history' = <<>>
  /\ pc' = [w \in Writers |-> "idle"] /\ rest' = [w \in Writers |-> <<>>]
  /\ resetting' = {}
  /\ faults' = faults + 1
  /\ UNCHANGED <<created, placeholders, diskVars, base, goal, confirmed, overlapped>>

\* Mutant: only the lines the metadata counts are loaded.
LoadCounted ==
  /\ ~up /\ total # None /\ file # <<>>
  /\ history' = SubSeq(file, 1, total)
  /\ up' = TRUE
  /\ UNCHANGED <<created, placeholders, diskVars, writerVars, confirmed, faults, overlapped>>

\* load_session: every line of the file, when both files are there.
Load ==
  /\ ~up /\ total # None /\ file # <<>>
  /\ history' = file
  /\ up' = TRUE
  /\ UNCHANGED <<created, placeholders, diskVars, writerVars, confirmed, faults, overlapped>>

\* A directory without metadata is no valid session: a new one is started.
StartOver ==
  /\ ~up /\ (total = None \/ file = <<>>)
  /\ file' = <<>> /\ total' = None /\ up' = TRUE
  /\ confirmed' = {}
  /\ UNCHANGED <<memVars, writerVars, faults, overlapped>>

-----------------------------------------------------------------------------
Save(w) ==
  \/ \E reset \in BOOLEAN : StartSave(w, reset)
  \/ PlanSave(w) \/ WriteLine(w) \/ Commit(w)

Next ==
  \/ AppendMessage
  \/ \E i \in 1..MaxMsgs : Repair(i)
  \/ \E w \in Savers : Save(w) \/ (\E n \in 0..Len(history) : Reset(w, n))
  \/ \E w \in Patchers : StartPatch(w) \/ CommitPatch(w)
  \/ \E w \in Writers : Interrupt(w)
  \/ Crash \/ Load \/ StartOver

Spec == Init /\ [][Next]_vars

-----------------------------------------------------------------------------
(* Properties *)

\* Type invariant of the history, the directory and the writers.
TypeOK ==
  /\ history \in Seq(Msg) /\ created \in 0..MaxMsgs /\ placeholders \in SUBSET Msg
  /\ up \in BOOLEAN /\ file \in Seq(Msg) /\ total \in Nat \cup {None}
  /\ pc \in [Writers -> Steps] /\ base \in [Writers -> Nat]
  /\ rest \in [Writers -> Seq(Msg)] /\ goal \in [Writers -> Nat]
  /\ resetting \in SUBSET Savers /\ confirmed \in SUBSET Msg
  /\ faults \in 0..MaxFaults /\ overlapped \in BOOLEAN

\* The metadata never counts more messages than the file holds, whatever writers
\* overlap and wherever one is interrupted or killed.
CountWithinFile == total # None => total <= Len(file)

\* No message a save has covered is ever missing from the log: a save slices from
\* the total it read, which another writer may have set or set back meanwhile.
ConfirmedOnDisk == confirmed \ placeholders \subseteq Range(file)

\* ... nor from the history, whatever session was killed and resumed on the way.
ConfirmedInMemory == up => confirmed \ placeholders \subseteq Range(history)

\* While writers come one after the other and nothing fails, the log is the
\* history up to the last save.
SequentialLogExact ==
  (faults = 0 /\ ~overlapped /\ \A w \in Writers : ~Busy(w)) =>
     /\ IsPrefix(file, history)
     /\ total # None => total = Len(file)

\* docs_deepdive/learning-path.md:206 says save_interaction is idempotent and
\* atomic: no message is written to the log twice.
WrittenOnce == \A i, j \in DOMAIN file : i # j => file[i] # file[j]
=============================================================================
