------------------------------- MODULE Discovery -------------------------------
(***************************************************************************)
(* Which agent profile, skill or tool a name stands for when several       *)
(* directories define it (core/agents/manager.py, core/skills/manager.py,  *)
(* core/tools/manager.py): the directories are searched one after the      *)
(* other, each kind with its own rule for a name met twice, and a file     *)
(* that does not load is left out.  Files change while the program runs,   *)
(* and /reload searches again.                                             *)
(***************************************************************************)
EXTENDS Integers, Sequences, SequencesExt

CONSTANTS
  Paths,     \* the directories in the order of search: the configuration's, the project's,
             \* the user's
  Kinds,     \* among "agents", "skills" and "tools"
  MaxReloads \* bound: reloads

\* A name of the program's own and one of the user's.
Names == {"builtin", "custom"}

\* A file: absent, as it should be, one that fails at once, and a tool's that fails after
\* its class is defined.
Files(k) == {"none", "good", "bad"} \cup (IF k = "tools" THEN {"half"} ELSE {})

VARIABLES
  kind,    \* what is looked for
  disk,    \* the file of each directory for each name
  known,   \* tool files whose modules are in sys.modules, as they were when they ran
  left,    \* the directories still to search
  found,   \* the directory each name comes from, "program" or "none"
  seen,    \* the files when the last search began
  reloads

vars == <<kind, disk, known, left, found, seen, reloads>>

Program == [n \in Names |-> IF n = "builtin" THEN "program" ELSE "none"]
Fresh == [p \in ToSet(Paths) |-> [n \in Names |-> "none"]]
SomeFiles == [ToSet(Paths) -> [Names -> Files(kind)]]

Init ==
  /\ kind \in Kinds /\ disk \in SomeFiles
  /\ known = Fresh /\ left = Paths /\ found = Program
  /\ seen = disk /\ reloads = 0

\* _load_tools_from_file: a module that was begun once is taken from sys.modules, whatever
\* has become of it and of its file.
ToolLoads(p, n) ==
  /\ disk[p][n] # "none"
  /\ IF known[p][n] = "none" THEN disk[p][n] = "good" ELSE known[p][n] \in {"good", "half"}

\* _try_load_agent, _try_load_skill: a file that cannot be read or parsed is left out.
FileLoads(p, n) == disk[p][n] = "good"

\* _discover_agents: a file takes the place of a profile of the program's, of another file
\* it does not.
AgentReplacesNone(n) == found[n] = "none"

AgentReplaces(n) == n = "builtin" \/ found[n] = "none"

\* _discover_skills: a skill takes no name's place.
SkillReplaces(n) == found[n] = "none"

\* The tool manager's _available: the last one counts.
Takes(p, n) ==
  CASE kind = "agents" -> FileLoads(p, n) /\ AgentReplaces(n)
    [] kind = "skills" -> FileLoads(p, n) /\ SkillReplaces(n)
    [] kind = "tools" -> ToolLoads(p, n)

Search ==
  /\ left # <<>>
  /\ LET p == Head(left)
     IN /\ found' = [n \in Names |-> IF Takes(p, n) THEN p ELSE found[n]]
        /\ known' = IF kind = "tools"
                      THEN [known EXCEPT ![p] = [n \in Names |->
                              IF @[n] = "none" THEN disk[p][n] ELSE @[n]]]
                      ELSE known
  /\ left' = Tail(left)
  /\ UNCHANGED <<kind, disk, seen, reloads>>

\* The user changes a file (bound: one between two searches).
FileChanges ==
  /\ left = <<>> /\ reloads < MaxReloads /\ disk = seen
  /\ \E p \in ToSet(Paths), n \in Names : \E f \in Files(kind) \ {disk[p][n]} :
       disk' = [disk EXCEPT ![p][n] = f]
  /\ UNCHANGED <<kind, known, left, found, seen, reloads>>

\* reload_with_initial_messages makes new managers of tools and skills; that of the agents
\* stays.
Reload ==
  /\ left = <<>> /\ reloads < MaxReloads
  /\ reloads' = reloads + 1
  /\ IF kind = "agents" THEN UNCHANGED <<left, found, seen>>
     ELSE left' = Paths /\ found' = Program /\ seen' = disk
  /\ UNCHANGED <<kind, disk, known>>

Next == Search \/ FileChanges \/ Reload

Spec == Init /\ [][Next]_vars

------------------------------------------------------------------------------
TypeOK ==
  /\ kind \in Kinds /\ disk \in SomeFiles
  /\ \A n \in Names : found[n] \in ToSet(Paths) \cup {"program", "none"}
  /\ \A i \in DOMAIN left : left[i] \in ToSet(Paths)

\* A search finds what the files it began with say: of the directories with a good file the
\* first defines a skill or an agent of the user's, the last a tool or an agent that takes
\* the place of one of the program's; a skill of the program's stays its own; and a broken
\* file hides no good one.  For tools that is so while the files of a name are those its
\* modules were first loaded from, none of them half.
Good(n) == SelectSeq(Paths, LAMBDA p : seen[p][n] = "good")
Expected(n) ==
  IF (kind = "skills" /\ n = "builtin") \/ Good(n) = <<>> THEN Program[n]
  ELSE IF kind = "tools" \/ (kind = "agents" /\ n = "builtin") THEN Last(Good(n))
  ELSE Head(Good(n))

NamesResolved ==
  left = <<>> =>
    \A n \in Names :
      (kind = "tools" => \A p \in ToSet(Paths) : known[p][n] = seen[p][n] /\ seen[p][n] # "half")
        => found[n] = Expected(n)
================================================================================
