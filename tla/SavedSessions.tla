---------------------------- MODULE SavedSessions ----------------------------
(***************************************************************************)
(* Which saved session a process writes to, finds again and shows:         *)
(* --continue with the pointer each terminal keeps, --resume, the picker   *)
(* of /resume and the end of a process (core/session/session_loader.py,    *)
(* last_session_pointer.py, cli/cli.py, textual_ui/app.py).  How the lines *)
(* of a session get to disk is SessionLog's; here a turn ends with one     *)
(* save.  Ids that agree in their first eight characters are left out.     *)
(***************************************************************************)
EXTENDS Integers, Sequences, FiniteSets, SequencesExt

CONSTANTS
  Terminal,   \* terminals, each with one process at a time
  Dir,        \* working directories
  MaxSessions,\* bound: sessions, the first one there before
  MaxStarts,  \* bound: processes
  MaxTurns    \* bound: turns

Session == 1..MaxSessions

\* The lines of a session: as they should be; with one cut off; with a character that
\* splitlines() takes for the end of a line; with an object that is no message.
Text == {"none", "good", "torn", "spaced", "foreign"}
\* Its metadata: "old" is an object that SessionMetadata does not accept.
Meta == {"none", "good", "old"}

VARIABLES
  disk,    \* each session's metadata, lines, directory, and the conversations in its lines
  order,   \* sessions with lines, the one written last at the end
  pointer, \* the session each terminal ended with last, or 0
  proc,    \* the process of each terminal
  whole,   \* history: sessions with a save that ended, no line since cut off or spaced
  mixed,   \* history: a session was resumed under a running turn, or with old metadata
  starts, turns \* bounds

vars == <<disk, order, pointer, proc, whole, mixed, starts, turns>>

NoFolder == [meta |-> "none", text |-> "none", dir |-> "none", holds |-> {}]
Off == [dir |-> "none", loop |-> 0, log |-> 0, talk |-> {}, turn |-> 0, picker |-> "none",
        offered |-> {}, named |-> FALSE]
On(t) == proc[t].dir # "none"

\* One session is there, saved by some version of the program.
Init ==
  /\ \E m \in {"good", "old"}, x \in Text \ {"none"} : LET d == CHOOSE c \in Dir : TRUE IN
       disk = [s \in Session |-> IF s = 1 THEN [meta |-> m, text |-> x, dir |-> d, holds |-> {1}]
                                          ELSE NoFolder]
  /\ order = <<1>>
  /\ pointer = [t \in Terminal |-> 0] /\ proc = [t \in Terminal |-> Off]
  /\ whole = {} /\ mixed = FALSE /\ starts = 0 /\ turns = 0

-----------------------------------------------------------------------------
(* Finding sessions *)

\* _is_valid_session asks for two files of JSON objects, line by line as splitlines() has
\* them.
Valid(s) == disk[s].meta # "none" /\ disk[s].text \in {"good", "foreign"}

\* load_session splits at newlines only, and makes messages of the objects.
Loads(s) == disk[s].text \in {"good", "spaced"}

\* load_metadata
MetadataLoads(s) == disk[s].meta = "good"

\* find_session_by_id: the latest valid one of the folders of that id, of which there is one.
Found(s) == Valid(s)

\* list_sessions
Listed(d) == {s \in Session : Valid(s) /\ disk[s].dir = d}

\* Mutant: the sessions of any directory.
LatestAnywhere(d) == LET found == SelectSeq(order, Valid) IN IF found = <<>> THEN 0 ELSE Last(found)

\* find_latest_session, by the time of the last line.
Latest(d) ==
  LET Here(s) == s \in Listed(d)
      found == SelectSeq(order, Here)
  IN IF found = <<>> THEN 0 ELSE Last(found)

\* load: the session in the pointer of the terminal, when it is one of this directory.
Pointed(t, d) == {pointer[t]} \cap Listed(d)

\* load_session of the command line, for --continue.
Continued(t, d) == IF Pointed(t, d) # {} THEN pointer[t] ELSE Latest(d)

-----------------------------------------------------------------------------
(* Processes *)

\* A session that neither the disk nor a process has.
Unused == {s \in Session : disk[s] = NoFolder /\ \A t \in Terminal : proc[t].log # s}
Fresh == IF Unused = {} THEN 0 ELSE CHOOSE s \in Unused : \A r \in Unused : s <= r

Begin(t, d, s, talk, named) ==
  /\ ~On(t) /\ starts < MaxStarts /\ starts' = starts + 1
  /\ proc' = [proc EXCEPT ![t] = [Off EXCEPT !.dir = d, !.loop = s, !.log = s, !.talk = talk,
                                             !.named = named]]
  /\ UNCHANGED <<disk, order, pointer, whole, mixed, turns>>

Start(t, d) == Fresh # 0 /\ Begin(t, d, Fresh, {}, FALSE)

\* --continue and --resume: a session that cannot be loaded ends the process.
Continue(t, d) ==
  LET s == Continued(t, d)
  IN s # 0 /\ Loads(s) /\ MetadataLoads(s) /\ Begin(t, d, s, disk[s].holds, FALSE)

StartNamed(t, d, s) ==
  Found(s) /\ Loads(s) /\ MetadataLoads(s) /\ Begin(t, d, s, disk[s].holds, TRUE)

\* A message of the user's, or a scheduled loop, which fires while the text box is there.
StartTurn(t) ==
  /\ On(t) /\ proc[t].turn = 0 /\ proc[t].picker # "open"
  /\ turns < MaxTurns /\ turns' = turns + 1
  /\ proc' = [proc EXCEPT ![t].turn = proc[t].log]
  /\ UNCHANGED <<disk, order, pointer, whole, mixed, starts>>

Written(s) == Append(SelectSeq(order, LAMBDA r : r # s), s)

\* Lines of kind x behind lines of kind old; "torn" are lines that neither reader takes.
Behind(old, x) ==
  IF x = "torn" \/ (old = "foreign" /\ x = "spaced") THEN "torn"
  ELSE IF old \in {"none", "good"} THEN x ELSE old

\* What a turn of t leaves on disk: lines of kind x, metadata m.
Saves(t, x, m) ==
  LET s == proc[t].log
      talk == proc[t].talk \cup {proc[t].turn}
  IN /\ disk' = [disk EXCEPT ![s] =
          [meta |-> m, text |-> Behind(@.text, x), holds |-> @.holds \cup talk,
           dir |-> IF @.meta = "none" THEN proc[t].dir ELSE @.dir]]
     /\ order' = Written(s)
     /\ whole' = IF disk'[s].text = "good" /\ m = "good" THEN whole \cup {s} ELSE whole \ {s}

\* The turn is over; its messages went to the history there is now.
EndTurn(t, x) ==
  /\ On(t) /\ proc[t].turn # 0
  /\ Saves(t, x, "good")
  /\ proc' = [proc EXCEPT ![t].turn = 0, ![t].talk = @ \cup {proc[t].turn}]
  /\ UNCHANGED <<pointer, mixed, starts, turns>>

\* /clear, a compaction or a rewind: a new session for the loop and its log.
Clear(t) ==
  /\ On(t) /\ proc[t].turn = 0 /\ proc[t].picker = "none" /\ Fresh # 0
  /\ proc' = [proc EXCEPT ![t].loop = Fresh, ![t].log = Fresh, ![t].talk = {},
                          ![t].named = FALSE]
  /\ UNCHANGED <<disk, order, pointer, whole, mixed, starts, turns>>

\* does_session_exist: there are lines, whatever they are.
Exists(s) == disk[s].text # "none"

\* record, after the application has ended with a session to continue.
Record(t, s) == pointer' = IF Exists(s) THEN [pointer EXCEPT ![t] = s] ELSE pointer

\* The process ends, and a turn with it.
Exit(t) ==
  /\ On(t)
  /\ Record(t, proc[t].log)
  /\ proc' = [proc EXCEPT ![t] = Off]
  /\ UNCHANGED <<disk, order, whole, mixed, starts, turns>>

\* It is killed: between turns, in a line of the save, or before the metadata.
Kill(t) ==
  /\ On(t)
  /\ IF proc[t].turn = 0 THEN UNCHANGED <<disk, order, whole>>
     ELSE \E x \in {"torn", "good"} : Saves(t, x, disk[proc[t].log].meta)
  /\ proc' = [proc EXCEPT ![t] = Off]
  /\ UNCHANGED <<pointer, mixed, starts, turns>>

-----------------------------------------------------------------------------
(* The picker *)

\* _show_session_picker lists the directory's sessions, then waits for the remote ones;
\* from a command it ended the turn first, at the start of the program a worker does it.
List(t) ==
  /\ On(t) /\ proc[t].picker = "none" /\ proc[t].turn = 0
  /\ proc' = [proc EXCEPT ![t].picker = "listing", ![t].offered = Listed(proc[t].dir)]
  /\ UNCHANGED <<disk, order, pointer, whole, mixed, starts, turns>>

Show(t) ==
  /\ proc[t].picker = "listing"
  /\ proc' = [proc EXCEPT ![t].picker = IF proc[t].offered = {} THEN "none" ELSE "open"]
  /\ UNCHANGED <<disk, order, pointer, whole, mixed, starts, turns>>

\* The choice: the panel is replaced by the text box before the session is looked for.
Choose(t, s) ==
  /\ proc[t].picker = "open" /\ s \in proc[t].offered
  /\ proc' = [proc EXCEPT ![t].picker = "chosen", ![t].offered = {s}]
  /\ UNCHANGED <<disk, order, pointer, whole, mixed, starts, turns>>

Cancel(t) ==
  /\ proc[t].picker = "open"
  /\ proc' = [proc EXCEPT ![t].picker = "none", ![t].offered = {}]
  /\ UNCHANGED <<disk, order, pointer, whole, mixed, starts, turns>>

\* Mutant: the messages of the session are put behind those there are.
ResumedKeeps(p, s) ==
  [p EXCEPT !.loop = s, !.log = s, !.talk = @ \cup disk[s].holds, !.named = FALSE]

\* resume_existing_session and the reset of the messages, which old metadata prevents.
Resumed(p, s) ==
  [p EXCEPT !.loop = s, !.log = s, !.talk = IF MetadataLoads(s) THEN disk[s].holds ELSE @,
            !.named = FALSE]

\* _resume_local_session: one that is gone or does not load leaves all as it was.
Resume(t) ==
  /\ proc[t].picker = "chosen"
  /\ \E s \in proc[t].offered :
       LET p == [proc[t] EXCEPT !.picker = "none", !.offered = {}]
           found == Found(s) /\ Loads(s)
       IN /\ proc' = [proc EXCEPT ![t] = IF found THEN Resumed(p, s) ELSE p]
          /\ mixed' = (mixed \/ (found /\ (p.turn # 0 \/ ~MetadataLoads(s))))
  /\ UNCHANGED <<disk, order, pointer, whole, starts, turns>>

Next ==
  \E t \in Terminal :
    \/ \E d \in Dir : Start(t, d) \/ Continue(t, d) \/ \E s \in Session : StartNamed(t, d, s)
    \/ StartTurn(t) \/ Clear(t) \/ Exit(t) \/ Kill(t)
    \/ \E x \in {"good", "spaced"} : EndTurn(t, x)
    \/ List(t) \/ Show(t) \/ Cancel(t) \/ Resume(t)
    \/ \E s \in Session : Choose(t, s)

Spec == Init /\ [][Next]_vars

-----------------------------------------------------------------------------
TypeOK ==
  /\ disk \in [Session -> [meta : Meta, text : Text, dir : Dir \cup {"none"},
                           holds : SUBSET Session]]
  /\ pointer \in [Terminal -> Session \cup {0}] /\ whole \subseteq Session
  /\ \A t \in Terminal : On(t) => proc[t].loop \in Session /\ proc[t].log \in Session

\* Unless a session is resumed under a running turn, or its metadata is of another version
\* (then the log has moved and the messages have not), a conversation stays in one folder:
\* the loop, its log and its messages are of the same session, and no file holds messages
\* of two.
ConversationsApart ==
  ~mixed =>
    /\ \A t \in Terminal : On(t) => proc[t].loop = proc[t].log /\ proc[t].talk \subseteq {proc[t].log}
    /\ \A s \in Session : disk[s].holds \subseteq {s}

\* A process writes to sessions of its own directory, unless the user named another one:
\* neither the pointer of its terminal nor the picker leads it out of there.
OwnDirectory ==
  \A t \in Terminal :
    (On(t) /\ ~proc[t].named /\ disk[proc[t].log].meta # "none")
      => disk[proc[t].log].dir = proc[t].dir

\* What was saved to the end is offered in its directory and can be resumed, although
\* other processes were killed in the middle of theirs.
SavedIsFound == \A s \in whole : s \in Listed(disk[s].dir) /\ Loads(s) /\ MetadataLoads(s)
=============================================================================
