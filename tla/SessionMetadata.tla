---------------------------- MODULE SessionMetadata ----------------------------
(***************************************************************************)
(* The title and the scheduled loops of a session: the loop manager        *)
(* (core/loop.py), the metadata object in memory and metadata.json on disk *)
(* (session_logger.py, saved_sessions.py), with their writers: the save of *)
(* an act(), the app's commands (/loop, /rename, resuming a session) and   *)
(* the poll of the loops.  Every writer awaits the file system between     *)
(* what it reads and the file it replaces.                                 *)
(***************************************************************************)
EXTENDS Integers, FiniteSets

CONSTANTS
  ScheduledLoop, \* loops a user may schedule
  MaxLoops,      \* MAX_LOOPS_PER_SESSION
  MaxSessions,   \* bound: session directories
  MaxSteps       \* bound: writes begun

ASSUME MetadataBounds == MaxLoops \in Nat /\ MaxSessions \in Nat \ {0} /\ MaxSteps \in Nat

Session == 1..MaxSessions
Writer  == {"save", "command", "poll"}
Title   == {"none", "auto", "given"}
Absent  == [title |-> "none", loops |-> {"absent"}]

VARIABLES
  loops,      \* LoopManager._loops
  meta,       \* SessionLogger.session_metadata, the object of each session
  current,    \* the session the logger is on
  file,       \* metadata.json of each session
  writer,     \* a writer: its await, its session, what it will write
  steps,      \* writes begun so far
  adrift,     \* history: the session changed under the loops in the manager
  overlapped  \* history: a writer began while another one wrote

metaVars == <<loops, meta, current, file, writer, steps, adrift, overlapped>>

Quiet == [at |-> "none", session |-> 0, text |-> Absent, title |-> "none"]
Busy(w) == writer[w] # Quiet
Overlaps == overlapped \/ \E v \in Writer : Busy(v)
Manual(t) == t = "given"

MetaInit ==
  /\ loops = {} /\ meta = [s \in Session |-> [title |-> "none", loops |-> {}]]
  /\ current = 1 /\ file = [s \in Session |-> Absent]
  /\ writer = [w \in Writer |-> Quiet]
  /\ steps = 0 /\ adrift = FALSE /\ overlapped = FALSE

\* A writer starts at an await on the current session.
Begin(w, at, text, title) ==
  /\ ~Busy(w) /\ steps < MaxSteps
  /\ writer' = [writer EXCEPT ![w] = [at |-> at, session |-> current, text |-> text,
                                      title |-> title]]
  /\ steps' = steps + 1
  /\ overlapped' = Overlaps

-----------------------------------------------------------------------------
(* save_interaction: the metadata in memory is written when there are new messages *)

StartSave ==
  /\ Begin("save", "messages", Absent, "none")
  /\ UNCHANGED <<loops, meta, current, file, adrift>>

\* The messages are on disk.  _resolve_title asks the metadata of the session the
\* logger is on by now; the rest of the dump is of the session the save began with.
DumpMetadata ==
  /\ writer["save"].at = "messages"
  /\ LET s     == writer["save"].session
         title == IF meta[current].title = "none" THEN "auto" ELSE meta[current].title
     IN  /\ meta' = [meta EXCEPT ![current].title = title]
         /\ writer' = [writer EXCEPT !["save"].at = "replace",
                                     !["save"].text = [title |-> title, loops |-> meta[s].loops]]
  /\ UNCHANGED <<loops, current, file, steps, adrift, overlapped>>

-----------------------------------------------------------------------------
(* LoopManager._persist *)

\* Mutant: the manager's loops are not put into the metadata.
PersistFileOnly(w, kept) ==
  /\ loops' = kept
  /\ adrift' = FALSE
  /\ UNCHANGED meta
  /\ IF file[current] = Absent
     THEN overlapped' = Overlaps /\ UNCHANGED <<writer, steps>>
     ELSE Begin(w, "read", Absent, "none")

\* The loops go into the metadata in memory, then into the file if there is one.
Persist(w, kept) ==
  /\ loops' = kept
  /\ adrift' = FALSE
  /\ meta' = [meta EXCEPT ![current].loops = kept]
  /\ IF file[current] = Absent
     THEN overlapped' = Overlaps /\ UNCHANGED <<writer, steps>>
     ELSE Begin(w, "read", Absent, "none")

\* /loop <interval> <prompt>, refused at the limit.
AddLoop(l) ==
  /\ ~Busy("command") /\ l \notin loops /\ Cardinality(loops) < MaxLoops
  /\ Persist("command", loops \cup {l})
  /\ UNCHANGED <<current, file>>

\* /loop cancel <id|all>.
CancelLoops(gone) ==
  /\ ~Busy("command") /\ (gone = loops \/ \E l \in loops : gone = {l})
  /\ Persist("command", loops \ gone)
  /\ UNCHANGED <<current, file>>

\* pop_due: a loop that is due gets its next time, which is no part of this model,
\* and is fired when the file is written.
PopDue ==
  /\ ~Busy("poll") /\ loops # {}
  /\ Persist("poll", loops)
  /\ UNCHANGED <<current, file>>

\* persist_loops has read the file; the loops are those of the metadata by now.
ReadForLoops(w) ==
  /\ writer[w].at = "read"
  /\ LET s == writer[w].session
     IN  writer' = [writer EXCEPT ![w].at = "replace",
                                  ![w].text = [file[s] EXCEPT !.loops = meta[s].loops]]
  /\ UNCHANGED <<loops, meta, current, file, steps, adrift, overlapped>>

-----------------------------------------------------------------------------
(* /rename and session/set_title *)

\* update_saved_session_title_at_path reads the file without an await; without a
\* file only the metadata in memory is changed.
Rename(t) ==
  /\ ~Busy("command") /\ Manual(t)
  /\ IF file[current] = Absent
     THEN /\ meta' = [meta EXCEPT ![current].title = t]
          /\ overlapped' = Overlaps
          /\ UNCHANGED <<writer, steps>>
     ELSE /\ Begin("command", "rename", [file[current] EXCEPT !.title = t], t)
          /\ UNCHANGED meta
  /\ UNCHANGED <<loops, current, file, adrift>>

\* The file is replaced; a rename then sets the title in memory, in whatever
\* session the logger is on.
Replace(w) ==
  /\ writer[w].at \in {"replace", "rename"}
  /\ file' = [file EXCEPT ![writer[w].session] = writer[w].text]
  /\ meta' = IF writer[w].at = "rename"
             THEN [meta EXCEPT ![current].title = writer[w].title] ELSE meta
  /\ writer' = [writer EXCEPT ![w] = Quiet]
  /\ UNCHANGED <<loops, current, steps, adrift, overlapped>>

\* Mutant: an automatic title replaces any other.
AutoTitleAlways ==
  /\ meta' = [meta EXCEPT ![current].title = "auto"]
  /\ UNCHANGED <<loops, current, file, writer, steps, adrift, overlapped>>

\* act() gives a session its first title (set_initial_auto_title).
AutoTitle ==
  /\ meta[current].title = "none"
  /\ meta' = [meta EXCEPT ![current].title = "auto"]
  /\ UNCHANGED <<loops, current, file, writer, steps, adrift, overlapped>>

-----------------------------------------------------------------------------
(* Other sessions *)

\* reset_session, of a clear, a compaction or a rewind: new metadata without loops
\* or title; the manager is not told.
ResetSession ==
  /\ current < MaxSessions /\ file[current + 1] = Absent
  /\ current' = current + 1
  /\ meta' = [meta EXCEPT ![current + 1] = [title |-> "none", loops |-> {}]]
  /\ adrift' = (loops # {})
  /\ overlapped' = Overlaps
  /\ UNCHANGED <<loops, file, writer, steps>>

\* _resume_local_session: the metadata of the file becomes the current one ...
Resume(s) ==
  /\ ~Busy("command") /\ file[s] # Absent
  /\ meta' = [meta EXCEPT ![s] = file[s]]
  /\ current' = s
  /\ writer' = [writer EXCEPT !["command"] = [Quiet EXCEPT !.at = "resume", !.session = s]]
  /\ adrift' = TRUE
  /\ overlapped' = Overlaps
  /\ UNCHANGED <<loops, file, steps>>

\* ... and, after the experiments and the messages were restored, the loops of the
\* metadata, which the poll may have overwritten meanwhile, those of the manager.
Restore ==
  /\ writer["command"].at = "resume"
  /\ loops' = meta[current].loops
  /\ writer' = [writer EXCEPT !["command"] = Quiet]
  /\ adrift' = FALSE
  /\ UNCHANGED <<meta, current, file, steps, overlapped>>

\* The process dies, and the session is continued by a new one.
Restart ==
  /\ file[current] # Absent /\ steps < MaxSteps
  /\ steps' = steps + 1
  /\ meta' = [meta EXCEPT ![current] = file[current]]
  /\ loops' = file[current].loops
  /\ writer' = [w \in Writer |-> Quiet]
  /\ adrift' = FALSE
  /\ UNCHANGED <<current, file, overlapped>>

-----------------------------------------------------------------------------
MetaNext ==
  \/ StartSave \/ DumpMetadata \/ PopDue \/ AutoTitle
  \/ \E l \in ScheduledLoop : AddLoop(l)
  \/ \E gone \in SUBSET ScheduledLoop : CancelLoops(gone)
  \/ \E t \in Title : Rename(t)
  \/ \E w \in Writer : ReadForLoops(w) \/ Replace(w)
  \/ ResetSession \/ Restore \/ Restart
  \/ \E s \in Session : Resume(s)

MetadataSpec == MetaInit /\ [][MetaNext]_metaVars

-----------------------------------------------------------------------------
(* Properties *)

Meta == [title : Title, loops : SUBSET ScheduledLoop]

\* Type invariant of the metadata in memory, on disk and under way.
MetaTypeOK ==
  /\ loops \in SUBSET ScheduledLoop /\ Cardinality(loops) <= MaxLoops
  /\ meta \in [Session -> Meta] /\ current \in Session
  /\ file \in [Session -> Meta \cup {Absent}]
  /\ writer \in [Writer -> [at : {"none", "messages", "read", "replace", "rename", "resume"},
                            session : Session \cup {0}, text : Meta \cup {Absent}, title : Title]]
  /\ steps \in 0..MaxSteps /\ {adrift, overlapped} \subseteq BOOLEAN

\* As long as writers come one after the other and the session did not change under
\* the loops, a restart finds what the user set: the loops that are scheduled, and
\* the name that was given.
MetadataSettles ==
  (~overlapped /\ ~adrift /\ (\A w \in Writer : ~Busy(w)) /\ file[current] # Absent) =>
     /\ file[current].loops = loops /\ meta[current].loops = loops
     /\ Manual(meta[current].title) \/ Manual(file[current].title)
          => file[current].title = meta[current].title
===============================================================================
