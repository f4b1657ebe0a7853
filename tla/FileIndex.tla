------------------------------- MODULE FileIndex --------------------------------
(***************************************************************************)
(* The index of the project's files behind the completion of paths: one    *)
(* caller, a thread that builds the index, and a thread that watches the   *)
(* directory and keeps the index up to date                                *)
(* (core/autocompletion/file_indexer/).  The directory of the program does *)
(* not change, so there is one root.  A file system of two directories     *)
(* with a file each, one of them ignored, and a file beside them.          *)
(***************************************************************************)
EXTENDS FiniteSets, Integers

CONSTANTS
  Threshold,  \* mass_change_threshold: batches with more changes rebuild the index
  MaxChanges, \* bound: changes of the file system
  MaxToggles  \* bound: toggles of the setting that enables the watcher

Dirs == {"d", "i"}
Paths == {"d", "d/f", "i", "i/f", "f"}
Inside == [x \in Dirs |-> IF x = "d" THEN {"d/f"} ELSE {"i/f"}]
Parent(p) == CASE p = "d/f" -> {"d"} [] p = "i/f" -> {"i"} [] OTHER -> {}
Ignored == {"i"}
Hidden == {"i", "i/f"}

VARIABLES
  fs,      \* the paths that exist
  index,   \* FileIndexStore._entries_by_rel
  rooted,  \* FileIndexStore._root is set
  task,    \* the rebuild: "none", "queued", "walking", "done"
  cancel,  \* its cancel_event
  walked,  \* the entries a walk found so far ...
  todo,    \* ... and the directories it has still to list, "" for the root
  lock,    \* _lock: "free", "worker", "watcher"
  caller,  \* the caller in get_index: "idle", "wait", "watch", "answer"
  enabled, \* file_watcher_for_autocomplete
  watcher, \* the watching thread: "off", "starting", "on"
  events,  \* changes since its last batch
  batch,   \* the batch it handles
  missed,  \* history: a change came after a walk had begun and was not watched
  mixed,   \* history: a batch told of the end and of the beginning of one path
  shut,    \* shutdown: "no", "clearing", "yes"
  changes, toggles \* bounds

storeVars == <<index, rooted>>
walkVars == <<walked, todo>>
taskVars == <<task, cancel>>
watchVars == <<watcher, events, batch>>
fsVars == <<fs, missed, changes>>
settingVars == <<enabled, toggles>>
indexVars == <<storeVars, walkVars, taskVars, watchVars, fsVars, settingVars, lock, caller, mixed, shut>>

Init ==
  /\ fs = Paths /\ index = {} /\ rooted = FALSE
  /\ task = "none" /\ cancel = FALSE /\ walked = {} /\ todo = {} /\ lock = "free"
  /\ caller = "idle" /\ enabled \in BOOLEAN
  /\ watcher = "off" /\ events = {} /\ batch = {}
  /\ missed = FALSE /\ mixed = FALSE /\ shut = "no" /\ changes = 0 /\ toggles = 0

-----------------------------------------------------------------------------
(* The file system *)

Tell(told) ==
  /\ changes < MaxChanges /\ changes' = changes + 1
  /\ events' = IF watcher = "on" THEN events \cup told ELSE events
  /\ missed' = (missed \/ (watcher # "on" /\ (rooted \/ task = "walking")))
  /\ UNCHANGED <<storeVars, walkVars, taskVars, watcher, batch, settingVars, lock, caller, mixed, shut>>

\* A directory may come with its file, moved as a whole, and go like that: one change is told.
Create(p) ==
  /\ p \notin fs /\ Parent(p) \subseteq fs
  /\ \E content \in SUBSET (IF p \in Dirs THEN Inside[p] ELSE {}) : fs' = fs \cup {p} \cup content
  /\ Tell({<<"added", p>>})
Delete(p) ==
  /\ p \in fs
  /\ LET gone == {q \in fs : q = p \/ p \in Parent(q)} IN
     /\ fs' = fs \ gone
     /\ \E told \in {{p}, gone} : Tell({<<"deleted", q>> : q \in told})

-----------------------------------------------------------------------------
(* The caller: the thread that computes completions *)

\* get_index: without an index a rebuild is begun and waited for.
Ask ==
  /\ caller = "idle" /\ lock = "free" /\ shut = "no"
  /\ IF rooted THEN caller' = "watch" /\ UNCHANGED taskVars
     ELSE /\ caller' = "wait" /\ cancel' = FALSE
          /\ task' = IF task \in {"queued", "walking"} THEN task ELSE "queued"
  /\ UNCHANGED <<storeVars, walkVars, watchVars, fsVars, settingVars, lock, mixed, shut>>

\* The event that is waited for is set by the worker, or by a cancellation.
Waited ==
  /\ caller = "wait" /\ (task \in {"none", "done"} \/ cancel)
  /\ caller' = "watch"
  /\ UNCHANGED <<storeVars, walkVars, taskVars, watchVars, fsVars, settingVars, lock, mixed, shut>>

\* WatchController.stop: what is not handled yet is dropped, a batch at work goes on.
Stopped == watcher' = "off" /\ events' = {} /\ UNCHANGED batch

\* WatchController.start: it may begin to watch later than its caller goes on.
Watch ==
  /\ caller = "watch" /\ caller' = "answer"
  /\ IF ~enabled THEN Stopped
     ELSE /\ watcher' = IF watcher = "off" THEN "starting" ELSE watcher
          /\ UNCHANGED <<events, batch>>
  /\ UNCHANGED <<storeVars, walkVars, taskVars, fsVars, settingVars, lock, mixed, shut>>

\* The snapshot.
Answered ==
  /\ caller = "answer" /\ lock = "free" /\ caller' = "idle"
  /\ UNCHANGED <<storeVars, walkVars, taskVars, watchVars, fsVars, settingVars, lock, mixed, shut>>

-----------------------------------------------------------------------------
(* Walks, with the lock *)

BeginWalk == walked' = {} /\ todo' = {""}

\* One directory: what is ignored is left out with all that is in it.
Listed(x) == {p \in fs : (IF x = "" THEN Parent(p) = {} ELSE x \in Parent(p)) /\ p \notin Ignored}
List ==
  /\ todo # {}
  /\ \E x \in todo :
       /\ walked' = walked \cup Listed(x)
       /\ todo' = (todo \ {x}) \cup (Listed(x) \cap Dirs)
  /\ UNCHANGED <<storeVars, taskVars, watchVars, fsVars, settingVars, lock, caller, mixed, shut>>

\* Mutant: the worker does not look at the cancellation.
StartsAnyway ==
  /\ task = "queued" /\ lock = "free"
  /\ task' = "walking" /\ lock' = "worker" /\ BeginWalk
  /\ UNCHANGED <<storeVars, cancel, watchVars, fsVars, settingVars, caller, mixed, shut>>

\* _rebuild_worker: a task that was cancelled before is left.
Starts ==
  /\ task = "queued"
  /\ IF cancel THEN task' = "done" /\ UNCHANGED <<lock, walkVars>>
     ELSE lock = "free" /\ task' = "walking" /\ lock' = "worker" /\ BeginWalk
  /\ UNCHANGED <<storeVars, cancel, watchVars, fsVars, settingVars, caller, mixed, shut>>

\* rebuild() stores what the walk found, all of it or, cancelled, a part.
Rebuilt ==
  /\ lock = "worker" /\ (todo = {} \/ cancel)
  /\ index' = walked /\ rooted' = TRUE
  /\ task' = "done" /\ lock' = "free" /\ walked' = {} /\ todo' = {}
  /\ UNCHANGED <<cancel, watchVars, fsVars, settingVars, caller, mixed, shut>>

-----------------------------------------------------------------------------
(* The watching thread *)

WatchBegins ==
  /\ watcher = "starting" /\ watcher' \in {"on", "off"} /\ events' = {} /\ batch = {}
  /\ UNCHANGED <<storeVars, walkVars, taskVars, batch, fsVars, settingVars, lock, caller, mixed, shut>>

\* A batch, a set of changes, goes to _handle_watch_changes.
Deliver ==
  /\ watcher = "on" /\ events # {} /\ batch = {} /\ lock = "free"
  /\ IF rooted
     THEN /\ batch' = events /\ lock' = "watcher"
          /\ mixed' = (mixed \/ \E p \in Paths : {<<"added", p>>, <<"deleted", p>>} \subseteq events)
          /\ IF Cardinality(events) > Threshold THEN BeginWalk ELSE UNCHANGED walkVars
     ELSE UNCHANGED <<batch, lock, mixed, walkVars>>
  /\ events' = {}
  /\ UNCHANGED <<storeVars, taskVars, watcher, fsVars, settingVars, caller, shut>>

Small == lock = "watcher" /\ batch # {} /\ Cardinality(batch) <= Threshold /\ todo = {}

\* Mutant: a directory that is gone leaves what was in it.
AppliedFlat(c) ==
  IF c[1] = "deleted" THEN index \ {c[2]}
  ELSE IF c[2] \notin fs THEN index
  ELSE (index \cup ({c[2]} \ Ignored)) \cup (IF c[2] \in Dirs THEN Inside[c[2]] \cap fs ELSE {})

\* apply_changes, for one change: only the path itself is matched with the ignored ones,
\* and a directory is walked.
Applied(c) ==
  IF c[1] = "deleted"
  THEN IF c[2] \in index THEN index \ ({c[2]} \cup {q \in Paths : c[2] \in Parent(q)}) ELSE index
  ELSE IF c[2] \notin fs THEN index
  ELSE (index \cup ({c[2]} \ Ignored)) \cup (IF c[2] \in Dirs THEN Inside[c[2]] \cap fs ELSE {})

ApplyOne ==
  /\ Small
  /\ \E c \in batch :
       /\ index' = Applied(c) /\ batch' = batch \ {c}
       /\ lock' = IF batch = {c} THEN "free" ELSE lock
  /\ UNCHANGED <<rooted, walkVars, taskVars, watcher, events, fsVars, settingVars, caller, mixed, shut>>

\* A mass change: the index is built again.
ApplyMass ==
  /\ lock = "watcher" /\ Cardinality(batch) > Threshold /\ todo = {}
  /\ index' = walked /\ batch' = {} /\ lock' = "free" /\ walked' = {}
  /\ UNCHANGED <<rooted, todo, taskVars, watcher, events, fsVars, settingVars, caller, mixed, shut>>

-----------------------------------------------------------------------------
(* The setting, and the end of the program *)

Toggle ==
  /\ toggles < MaxToggles /\ toggles' = toggles + 1 /\ enabled' = ~enabled
  /\ UNCHANGED <<storeVars, walkVars, taskVars, watchVars, fsVars, lock, caller, mixed, shut>>

\* shutdown, refresh: rebuilds are cancelled, then the store is cleared with the lock.
Shutdown ==
  /\ shut = "no" /\ shut' = "clearing"
  /\ Stopped /\ cancel' = TRUE
  /\ UNCHANGED <<storeVars, walkVars, task, fsVars, settingVars, lock, caller, mixed>>

Cleared ==
  /\ shut = "clearing" /\ lock = "free" /\ shut' = "yes"
  /\ index' = {} /\ rooted' = FALSE
  /\ UNCHANGED <<walkVars, taskVars, watchVars, fsVars, settingVars, lock, caller, mixed>>

Next ==
  \/ \E p \in Paths : Create(p) \/ Delete(p)
  \/ Ask \/ Waited \/ Watch \/ Answered
  \/ List \/ Starts \/ Rebuilt
  \/ WatchBegins \/ Deliver \/ ApplyOne \/ ApplyMass
  \/ Toggle \/ Shutdown \/ Cleared

-----------------------------------------------------------------------------
(* Properties *)

TypeOK ==
  /\ \A s \in {fs, index, walked} : s \subseteq Paths
  /\ \A b \in {rooted, cancel, enabled, missed, mixed} : b \in BOOLEAN
  /\ task \in {"none", "queued", "walking", "done"} /\ todo \subseteq Dirs \cup {""}
  /\ lock \in {"free", "worker", "watcher"} /\ caller \in {"idle", "wait", "watch", "answer"}
  /\ watcher \in {"off", "starting", "on"} /\ events \cup batch \subseteq {"added", "deleted"} \X Paths
  /\ shut \in {"no", "clearing", "yes"}

\* An index that is watched, once the changes are handled, has the paths of the project and
\* no others; what is inside an ignored directory may be among them.  Not so when something
\* changed while nobody watched, or a batch held the end and the beginning of a path.
IndexTrue ==
  watcher = "on" /\ rooted /\ shut = "no" /\ events = {} /\ lock = "free"
    /\ ~missed /\ ~mixed =>
    index \ Hidden = fs \ Hidden

\* The end of the program leaves no index and no walk behind, whatever was under way.
NothingLeft == shut = "yes" => index = {} /\ ~rooted /\ lock # "worker"

FileIndexSpec == Init /\ [][Next]_indexVars
=============================================================================
