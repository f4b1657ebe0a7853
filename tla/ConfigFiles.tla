------------------------------- MODULE ConfigFiles -------------------------------
(***************************************************************************)
(* The two files in the user's home that every running instance writes:    *)
(* trusted_folders.toml (core/trusted_folders.py, asked for at the start   *)
(* by cli/entrypoint.py) and config.toml with the commands approved for    *)
(* good (config/_settings.py).  An instance keeps what it read in memory.  *)
(***************************************************************************)
EXTENDS FiniteSets, Functions, Integers

CONSTANTS
  Instance,  \* running programs
  Pattern,   \* command patterns a user may allow permanently
  MaxStarts  \* bound: starts of an instance

\* A folder and the one it lies in.
Folder == {"work", "parent"}
NoLists == [trusted |-> {}, untrusted |-> {}]
Torn == [trusted |-> {"torn"}, untrusted |-> {}]

VARIABLES
  trustFile, \* trusted_folders.toml; Torn after a crash in the middle of a write
  lists,     \* the manager's lists in each instance
  session,   \* folders each instance trusts for the invocation only
  allowFile, \* the allowlist in config.toml
  memory,    \* the allowlist each instance has loaded
  phase,     \* "off", "asking" (before the configuration is loaded) or "on"
  starts,
  decided,   \* history: the user's last decision on each folder
  approved,  \* history: patterns the user allowed for good
  overrun,   \* history: an instance saved lists over those another one had saved, or a
             \* write was cut off
  behind     \* history: an instance saved an allowlist that lacks another one's pattern

fileVars == <<trustFile, lists, session, allowFile, memory, phase, starts, decided, approved,
              overrun, behind>>

Init ==
  /\ trustFile = NoLists /\ lists = [i \in Instance |-> NoLists]
  /\ session = [i \in Instance |-> {}]
  /\ allowFile = {} /\ memory = [i \in Instance |-> {}]
  /\ phase = [i \in Instance |-> "off"] /\ starts = 0
  /\ decided = [f \in Folder |-> "unknown"] /\ approved = {} /\ overrun = FALSE /\ behind = FALSE

-----------------------------------------------------------------------------
(* Trust *)

\* is_trusted: the first folder on the way up that is on a list decides.
Listed(l, extra, f) ==
  IF f \in l.trusted \cup extra THEN "yes" ELSE IF f \in l.untrusted THEN "no" ELSE "unknown"
Above(f) == IF f = "work" THEN <<"work", "parent">> ELSE <<"parent">>
IsTrusted(i, f) ==
  LET found(g) == Listed(lists[i], session[i], g)
      hits == {g \in Range(Above(f)) : found(g) # "unknown"} IN
  IF hits = {} THEN "unknown" ELSE IF f \in hits THEN found(f) ELSE found("parent")

\* add_trusted and add_untrusted.
Added(l, f, answer) ==
  IF answer = "yes" THEN [trusted |-> l.trusted \cup {f}, untrusted |-> l.untrusted \ {f}]
  ELSE [trusted |-> l.trusted \ {f}, untrusted |-> l.untrusted \cup {f}]

\* Mutant: the folders trusted for the invocation are written with the others.
WrittenAll(i) == [lists'[i] EXCEPT !.trusted = @ \cup session[i]]

\* _save writes the instance's own two lists.
Written(i) == lists'[i]

\* _load when the module is imported: a file that cannot be parsed is replaced by an empty
\* one.  --trust and --add-dir hold for the invocation.
Start(i) ==
  /\ phase[i] = "off" /\ starts < MaxStarts
  /\ starts' = starts + 1 /\ phase' = [phase EXCEPT ![i] = "asking"]
  /\ trustFile' = IF trustFile = Torn THEN NoLists ELSE trustFile
  /\ lists' = [lists EXCEPT ![i] = trustFile']
  /\ \E extra \in {{}, {"work"}} : session' = [session EXCEPT ![i] = extra]
  /\ UNCHANGED <<allowFile, memory, decided, approved, overrun, behind>>

Gone(i) ==
  /\ phase' = [phase EXCEPT ![i] = "off"] /\ lists' = [lists EXCEPT ![i] = NoLists]
  /\ session' = [session EXCEPT ![i] = {}] /\ memory' = [memory EXCEPT ![i] = {}]

\* Once the dialog is past, the configuration is loaded.
GoesOn(i) == phase' = [phase EXCEPT ![i] = "on"] /\ memory' = [memory EXCEPT ![i] = allowFile]

\* check_and_resolve_trusted_folder asks about the folder it is started in, unless that is
\* decided or holds nothing that needs trust.  A crash in the middle of _save leaves a file
\* that cannot be parsed.
Decide(i) ==
  /\ phase[i] = "asking"
  /\ \E f \in Folder, answer \in {"yes", "no"} :
       /\ IsTrusted(i, f) = "unknown"
       /\ decided' = [decided EXCEPT ![f] = answer]
       /\ \/ /\ lists' = [lists EXCEPT ![i] = Added(@, f, answer)]
             /\ trustFile' = Written(i) /\ overrun' = (overrun \/ trustFile # lists[i])
             /\ GoesOn(i) /\ UNCHANGED session
          \/ trustFile' = Torn /\ overrun' = TRUE /\ Gone(i)
  /\ UNCHANGED <<allowFile, approved, starts, behind>>

NotAsked(i) ==
  /\ phase[i] = "asking" /\ GoesOn(i)
  /\ UNCHANGED <<trustFile, lists, session, allowFile, starts, decided, approved, overrun, behind>>

Stop(i) ==
  /\ phase[i] # "off" /\ Gone(i)
  /\ UNCHANGED <<trustFile, allowFile, starts, decided, approved, overrun, behind>>

-----------------------------------------------------------------------------
(* The allowlist *)

\* Mutant: only the new patterns are written.
SavedNew(i, new) == allowFile' = new

\* save_updates: the file is read again, but a list in it is replaced by the one given.
Saved(i, new) == allowFile' = memory[i] \cup new

\* add_tool_allowlist_patterns: patterns in memory are not saved again.
Approve(i) ==
  /\ phase[i] = "on"
  /\ \E p \in Pattern :
       /\ p \notin memory[i]
       /\ Saved(i, {p})
       /\ memory' = [memory EXCEPT ![i] = @ \cup {p}]
       /\ approved' = approved \cup {p}
       /\ behind' = (behind \/ ~ (allowFile \subseteq memory[i]))
  /\ UNCHANGED <<trustFile, lists, session, phase, starts, decided, overrun>>

\* A reload of the configuration, by command or by another setting that is changed.
Reload(i) ==
  /\ phase[i] = "on" /\ memory[i] # allowFile
  /\ memory' = [memory EXCEPT ![i] = allowFile]
  /\ UNCHANGED <<trustFile, lists, session, allowFile, phase, starts, decided, approved, overrun,
                 behind>>

Next ==
  \E i \in Instance :
     Start(i) \/ Decide(i) \/ NotAsked(i) \/ Stop(i) \/ Approve(i) \/ Reload(i)

-----------------------------------------------------------------------------
(* Properties *)

ListsOK(l) == l.trusted \cap l.untrusted = {} /\ l.trusted \cup l.untrusted \subseteq Folder
TypeOK ==
  /\ trustFile = Torn \/ ListsOK(trustFile)
  /\ \A i \in Instance : ListsOK(lists[i])
  /\ session \in [Instance -> SUBSET Folder] /\ starts \in 0..MaxStarts
  /\ phase \in [Instance -> {"off", "asking", "on"}]
  /\ allowFile \subseteq Pattern /\ \A i \in Instance : memory[i] \subseteq Pattern

\* Unless one instance wrote over another's list, or a write was cut off, the next instance
\* decides as the user did, and trust for one invocation leaves no trace in the file.
DecisionsKept ==
  ~overrun => \A f \in Folder : Listed(trustFile, {}, f) = decided[f]

\* A pattern allowed for good stays allowed, unless an instance that had not read it wrote.
ApprovalsKept == ~behind => approved \subseteq allowFile

ConfigFilesSpec == Init /\ [][Next]_fileVars
=============================================================================
