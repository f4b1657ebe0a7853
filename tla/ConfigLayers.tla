------------------------------ MODULE ConfigLayers -------------------------------
(***************************************************************************)
(* Configuration layers: a user file, the file of a project that has to be *)
(* trusted, and the overrides of the invocation, each with its cached data *)
(* (core/config/layer.py, layers/), merged field by field by the builder   *)
(* (builder.py, schema.py, utils/merge.py) for the orchestrator.  One      *)
(* field stands for all: its values are lists of items, an item has a key. *)
(***************************************************************************)
EXTENDS Sequences, Integers, SequencesExt

CONSTANTS
  Value,     \* values of the field in a layer: sequences of items <<key, value>>
  MaxChanges \* bound: edits of the files and changes of trust

None == <<<<"none", 0>>>>      \* nothing read
Missing == <<<<"missing", 0>>>>\* a source without the field; of the user, also no file
NoFile == <<<<"no file", 0>>>> \* the project has no file
Broken == <<<<"broken", 0>>>>  \* a file that cannot be parsed
Stored == {Missing, <<>>} \cup Value
Layer == <<"user", "project", "overrides">>
Name == {"user", "project", "overrides"}
Strategies == {"replace", "concat", "union", "conflict"}
Unread == [trust |-> "unknown", data |-> None]

VARIABLES
  strategy, \* how the field merges
  store,    \* the field in the backing store of each layer
  mark,     \* what the list of trusted folders says of the folder of the project's file
  above,    \* the closest entry for a folder above it is one of trust, listed or of this session
  found,    \* the project's file: "unset", "file" or "none", looked for once
  listed,   \* history: what the list said at the start
  layer,    \* _LayerState of each layer: trust, cached data
  build,    \* a build under way: layers loaded, what they gave, the accumulated value
  config,   \* the snapshot of the orchestrator, with what it was built from
  changes   \* bound: edits and changes of trust

layerVars == <<strategy, store, mark, above, found, listed, layer, build, config, changes>>

NoBuild == [k |-> 0, force |-> FALSE, seen |-> <<>>, acc |-> None, calm |-> TRUE]
NoConfig == [value |-> None, seen |-> <<>>, fresh |-> FALSE]

Init ==
  /\ strategy \in Strategies
  /\ store \in [Name -> Stored \cup {NoFile, Broken}] /\ \A l \in Name \ {"project"} : store[l] # <<>>
  /\ store["user"] # NoFile /\ store["overrides"] \notin {NoFile, Broken}
  /\ mark \in {"none", "trusted", "untrusted"} /\ listed = mark
  /\ above \in BOOLEAN /\ (above => mark = "none")  \* read only while the folder is not listed
  /\ found = "unset"
  /\ layer = [l \in Name |-> Unread]
  /\ build = NoBuild /\ config = NoConfig /\ changes = 0

-----------------------------------------------------------------------------
(* One layer: _dispatch handles one action at a time, under a lock *)

\* _find_config_file: what was found stays so, whatever becomes of the file.
Found == IF found # "unset" THEN found ELSE IF store["project"] = NoFile THEN "none" ELSE "file"
Find(l) == found' = IF l = "project" THEN Found ELSE found

\* is_trusted of the folder: the closest entry wins.  A project without a file is trusted,
\* whatever the list says, and there is nothing to read.
FolderTrusted == IF mark # "none" THEN mark = "trusted" ELSE above
CheckTrust(l) == IF l # "project" \/ Found = "none" \/ FolderTrusted THEN "yes" ELSE "no"

\* _read_config; a file that is gone or cannot be parsed raises.
ReadConfig(l) ==
  IF l = "project" /\ Found = "none" THEN Missing
  ELSE IF store[l] = NoFile THEN Broken ELSE store[l]

\* _notify_trust_change and _on_trust_changed: a change is written to the list.
Marked(l, old, new) ==
  mark' = IF l = "project" /\ Found = "file" /\ old # new
          THEN IF new = "yes" THEN "trusted" ELSE "untrusted"
          ELSE mark

\* Mutant: untrusted data stays in the cache, and is used when the layer is loaded.
LoadedUnchecked(l, force) ==
  [trust |-> IF layer[l].trust = "unknown" THEN CheckTrust(l) ELSE layer[l].trust,
   data |-> IF layer[l].data = None \/ force THEN ReadConfig(l) ELSE layer[l].data]

\* _handle_resolve_trust
ResolveTrust(l) ==
  /\ Find(l) /\ Marked(l, layer[l].trust, CheckTrust(l))
  /\ layer' = [layer EXCEPT ![l] =
       [trust |-> CheckTrust(l), data |-> IF CheckTrust(l) = "yes" THEN @.data ELSE None]]

\* _handle_load: trust is asked once; untrusted layers lose their data, trusted ones read it
\* when there is none or the read is forced.
Loaded(l, force) ==
  LET trust == IF layer[l].trust = "unknown" THEN CheckTrust(l) ELSE layer[l].trust IN
  [trust |-> trust,
   data |-> IF trust = "no" THEN None
            ELSE IF layer[l].data = None \/ force THEN ReadConfig(l) ELSE layer[l].data]

\* Without a file a project has nothing to trust; the trust must have been resolved.
GrantTrust(l) ==
  /\ Find(l)
  /\ \/ /\ Found = "file" /\ layer[l].trust = "no" /\ Marked(l, "no", "yes")
        /\ layer' = [layer EXCEPT ![l].trust = "yes"]
     \/ (Found = "none" \/ layer[l].trust # "no") /\ UNCHANGED <<mark, layer>>

RevokeTrust(l) ==
  /\ Find(l)
  /\ \/ /\ Found = "file" /\ layer[l].trust = "yes" /\ Marked(l, "yes", "no")
        /\ layer' = [layer EXCEPT ![l] = [trust |-> "no", data |-> None]]
     \/ (Found = "none" \/ layer[l].trust # "yes") /\ UNCHANGED <<mark, layer>>

InvalidateCache(l) ==
  /\ layer[l].data # None
  /\ layer' = [layer EXCEPT ![l].data = None]
  /\ UNCHANGED <<mark, found>>

\* The user's decisions about the project, and its file changing, while a build may run.
Change ==
  /\ changes < MaxChanges /\ changes' = changes + 1
  /\ \/ /\ GrantTrust("project") \/ RevokeTrust("project") \/ ResolveTrust("project")
        /\ UNCHANGED store
     \/ /\ \E v \in Stored \cup {NoFile, Broken} : store' = [store EXCEPT !["project"] = v]
        /\ UNCHANGED <<layer, mark, found>>
     \/ InvalidateCache("project") /\ UNCHANGED store
  /\ build' = [build EXCEPT !.calm = FALSE]
  /\ config' = [config EXCEPT !.fresh = FALSE]
  /\ UNCHANGED <<strategy, above, listed>>

-----------------------------------------------------------------------------
(* Merging *)

KeysOf(s) == {s[i][1] : i \in DOMAIN s}
LastOf(s, key) == s[CHOOSE i \in DOMAIN s : s[i][1] = key /\ \A j \in DOMAIN s : s[j][1] = key => j <= i]

\* _union fills a dict, as _merge joins two: a key keeps the place of its first item and takes its last one.
Dict(items) ==
  LET firsts == SelectSeq([i \in DOMAIN items |-> <<i, items[i][1]>>],
                          LAMBDA p : \A j \in 1..(p[1] - 1) : items[j][1] # p[2])
  IN [n \in DOMAIN firsts |-> LastOf(items, firsts[n][2])]

Conflict == <<<<"conflict", 0>>>>

\* Mutant: an empty value counts as none.
ApplyTruthy(base, override) ==
  IF base \in {None, <<>>} THEN override
  ELSE IF override = <<>> THEN base
  ELSE
  CASE strategy = "replace" -> override
    [] strategy = "concat" -> base \o override
    [] strategy = "union" -> Dict(base \o override)
    [] strategy = "conflict" -> Conflict

\* MergeStrategy.apply: the first value is taken as it is; two values of a field that must
\* not conflict are an error.
Apply(base, override) ==
  IF base = None THEN override
  ELSE
  CASE strategy = "replace" -> override
    [] strategy = "concat" -> base \o override
    [] strategy = "union" -> Dict(base \o override)
    [] strategy = "conflict" -> Conflict

-----------------------------------------------------------------------------
(* The builder and the orchestrator *)

\* build, the first time or by reload: one at a time, under its lock.
StartBuild(force) ==
  /\ build.k = 0
  /\ build' = [NoBuild EXCEPT !.k = 1, !.force = force]
  /\ UNCHANGED <<strategy, store, mark, above, found, listed, layer, config, changes>>

\* The next layer is loaded; untrusted and empty ones are skipped.  A read that fails is
\* raised out of the build and leaves the layer as it was, though its trust is marked.
BuildStep ==
  /\ build.k \in 1..3
  /\ LET l == Layer[build.k]
         new == Loaded(l, build.force)
     IN /\ Find(l) /\ Marked(l, layer[l].trust, new.trust)
        /\ \/ /\ new.data = Broken
              /\ build' = NoBuild /\ UNCHANGED layer
           \/ /\ new.data # Broken
              /\ layer' = [layer EXCEPT ![l] = new]
              /\ build' = [build EXCEPT !.k = @ + 1,
                       !.seen = IF new.data \in {None, Missing} THEN @ ELSE Append(@, new.data),
                       !.acc = IF new.data \in {None, Missing} THEN @ ELSE Apply(@, new.data)]
  /\ UNCHANGED <<strategy, store, above, listed, config, changes>>

\* The new snapshot replaces the old one; a conflict is raised out of the build.
BuildEnds ==
  /\ build.k = 4
  /\ config' = IF build.acc = Conflict THEN config
               ELSE [value |-> build.acc, seen |-> build.seen, fresh |-> build.force /\ build.calm]
  /\ build' = NoBuild
  /\ UNCHANGED <<strategy, store, mark, above, found, listed, layer, changes>>

Next ==
  \/ Change \/ BuildStep \/ BuildEnds
  \/ \E force \in BOOLEAN : StartBuild(force)

-----------------------------------------------------------------------------
(* Properties *)

TypeOK ==
  /\ \A l \in Name : layer[l].trust \in {"unknown", "yes", "no"}
  /\ {mark, listed} \subseteq {"none", "trusted", "untrusted"} /\ above \in BOOLEAN
  /\ found \in {"unset", "file", "none"}
  /\ build.k \in 0..4 /\ changes \in 0..MaxChanges

\* An untrusted layer has no data.  The trust a project's layer remembers is what the list of
\* folders says, so that a new process decides alike.  A project in which no file was found
\* has nothing marked by that, and no file that appears there later is read unasked.
LayersTrusted ==
  LET project == layer["project"]
  IN /\ \A l \in Name : layer[l].trust # "yes" => layer[l].data = None
     /\ found = "file" => /\ project.trust = "yes" => mark = "trusted"
                          /\ project.trust = "no" => mark = "untrusted"
     /\ found # "file" => mark = listed /\ project.data \in {None, Missing}

\* The snapshot is what the layers it was built from say: the highest one wins, lists are
\* joined in order, a key has its highest item once, and a value set twice is no value.
Expected(seen) ==
  IF seen = <<>> THEN None
  ELSE
  CASE strategy = "replace" -> Last(seen)
    [] strategy = "concat" -> FlattenSeq(seen)
    [] strategy = "conflict" -> IF Len(seen) = 1 THEN seen[1] ELSE Conflict
    [] OTHER -> None
SnapshotMerged ==
  IF strategy = "union" /\ Len(config.seen) > 1
  THEN /\ KeysOf(config.value) = KeysOf(FlattenSeq(config.seen))
       /\ IsInjective([i \in DOMAIN config.value |-> config.value[i][1]])
       /\ \A i \in DOMAIN config.value :
            config.value[i] = LastOf(FlattenSeq(config.seen), config.value[i][1])
  ELSE strategy # "union" => config.value = Expected(config.seen)

\* A reload during which nothing changed shows what the trusted layers hold now.
ReloadIsFresh ==
  config.fresh =>
    config.seen = SelectSeq([k \in 1..3 |-> IF layer[Layer[k]].trust = "yes"
                                            THEN ReadConfig(Layer[k]) ELSE Missing],
                            LAMBDA v : v # Missing)

LayersRight == LayersTrusted /\ SnapshotMerged /\ ReloadIsFresh

ConfigLayersSpec == Init /\ [][Next]_layerVars
=============================================================================
