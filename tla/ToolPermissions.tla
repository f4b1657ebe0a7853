---------------------------- MODULE ToolPermissions -----------------------------
(***************************************************************************)
(* Whether a call of the shell tool or of a file tool runs, is refused or  *)
(* is put to the user (core/tools/builtins/bash.py, core/tools/utils.py,   *)
(* arity.py, AgentLoop._should_execute_tool), and what an answer changes:  *)
(* the rules of the session or the configuration file (approve_always).    *)
(* A command is a sequence of words.  Some stand for directories outside   *)
(* the working directory: "out", "out/sub" below it, and "odd", whose name *)
(* has brackets; some are read as wildcards where a rule has them.         *)
(***************************************************************************)
EXTENDS FiniteSets, Integers, SequencesExt

CONSTANTS
  ShellCall, \* calls of the shell tool: sequences of simple commands
  FileCall,  \* calls of the file tool: sets of the marks of its path
  MaxAnswers \* bound: answers of the user and restarts

\* The glob of each directory outside.
Glob == [d \in {"out", "out/sub", "odd"} |->
           CASE d = "out" -> "out/*" [] d = "out/sub" -> "out/sub/*" [] d = "odd" -> "odd/*"]

\* The wildcards within a word, and the words they match: brackets match a character, so not
\* themselves, and the glob of a directory matches those of the directories below it.
Class == [p \in {"[ab]", "out/*", "out/sub/*", "odd/*"} |->
            CASE p = "[ab]" -> {"a", "b"}        [] p = "out/*" -> {"out/*", "out/sub/*"}
              [] p = "out/sub/*" -> {"out/sub/*"} [] p = "odd/*" -> {}]
Bracketed == {p \in DOMAIN Class : p \notin Class[p]}

\* What the path of a file can be: sensitive, of the scratchpad, in a directory outside.
Marks == {"sensitive", "scratchpad"} \cup DOMAIN Glob

\* Every command has a name without wildcards.
NoNames == DOMAIN Class \cup {"*", "none"}
ASSUME PermBounds ==
  /\ ShellCall \subseteq Seq(Seq(STRING)) /\ MaxAnswers \in Nat
  /\ \A cmds \in ShellCall : \A c \in Range(cmds) : c # <<>> /\ c[1] \notin NoNames
  /\ FileCall \subseteq SUBSET Marks

Tool == {"bash", "file"}
Call == ({"bash"} \X ShellCall) \cup ({"file"} \X FileCall)

VARIABLES
  toml,     \* config.toml: the tools' allowlists (NoList when it has none) and permissions
  config,   \* the same as loaded
  rules,    \* PermissionStore: approved rules
  granted,  \* PermissionStore: tools set to ALWAYS
  asked,    \* the call that is put to the user, with what it requires
  watched,  \* any one call, whose history is kept:
  silent,   \* history: it ran without a question since the start
  approved, \* history: the user answered it "always" since the start
  lasting,  \* history: the user answered it "always, and save it" once, for all it requires
  given,    \* history: all the user ever allowed for longer than a call
  displaced,\* history: a saved allowlist took the place of the default one
  answers   \* bound

permVars == <<toml, config, rules, granted, asked, watched, silent, approved, lasting, given,
              displaced, answers>>

\* No list that is saved is this one: no command has this name.
NoList == {<<"none">>}
NotAsked == [call |-> <<"none", <<>>>>, required |-> {}]

\* The defaults of the shell tool (_get_default_allowlist and so on); find is added to every
\* allowlist that is loaded (_migrate).
DefaultAllowlist ==
  [t \in Tool |-> IF t = "bash" THEN {<<"ls">>, <<"find">>, <<"git", "status">>} ELSE {}]
Denylist == {<<"vim">>}
Standalone == {<<"python">>}
SensitiveWords == {"sudo"}
Arity == [words \in {<<"git">>, <<"git", "stash">>, <<"aws">>, <<"ls">>} |->
            CASE words = <<"git">> -> 2 [] words = <<"git", "stash">> -> 3
              [] words = <<"aws">> -> 3 [] words = <<"ls">> -> 1]

PermInit ==
  /\ \E known \in BOOLEAN :
       toml = [allow |-> [t \in Tool |-> IF known THEN DefaultAllowlist[t] ELSE NoList],
               perm |-> [t \in Tool |-> "ask"]]
  /\ config = toml /\ rules = {} /\ granted = {} /\ asked = NotAsked
  /\ watched \in Call /\ silent = FALSE /\ approved = FALSE /\ lasting = FALSE
  /\ given = {} /\ displaced = FALSE /\ answers = 0

-----------------------------------------------------------------------------
(* The configuration of a tool: get_tool_config *)

Allowlist(t) == IF config.allow[t] = NoList THEN DefaultAllowlist[t] ELSE config.allow[t]
Permission(t) == IF t \in granted THEN "always" ELSE config.perm[t]

-----------------------------------------------------------------------------
(* Patterns: wildcard_match, with Python's fnmatch *)

\* A "*" stands for one or more words, other words for one.
Fits(p, w) == p = "*" \/ IF p \in DOMAIN Class THEN w \in Class[p] ELSE p = w
Plain(p)   == \A i \in 1..Len(p) : p[i] # "*" /\ p[i] \notin DOMAIN Class

\* Each word of the text falls to a word of the pattern, in order and none left out.
Fnmatch(w, p) ==
  IF Plain(p) THEN w = p
  ELSE \E at \in [1..Len(w) -> 1..Len(p)] :
         /\ \A k \in 1..Len(p) : \E i \in 1..Len(w) : at[i] = k
         /\ \A i \in 1..Len(w) : Fits(p[at[i]], w[i])
         /\ \A i \in 2..Len(w) : at[i] = at[i - 1] + 1 \/ (at[i] = at[i - 1] /\ p[at[i]] = "*")

\* An open pattern, one that ends in " *", matches with or without more words.
WildcardMatch(w, pattern) ==
  \E n \in 0..Len(w) : /\ n = Len(w) \/ pattern.open
                       /\ Fnmatch(SubSeq(w, 1, n), pattern.words)

-----------------------------------------------------------------------------
(* The shell tool *)

\* _matches_pattern: the pattern's words, and any after them.
Matches(cmd, patterns) == \E p \in patterns : IsPrefix(p, cmd)
IsDenied(cmd) == Matches(cmd, Denylist) \/ cmd \in Standalone
IsSensitive(cmd) == cmd[1] \in SensitiveWords
HasExec(cmd) == cmd[1] = "find" /\ "-exec" \in Range(cmd)
OutsideDirs(cmd) ==
  {Glob[d] : d \in {d \in DOMAIN Glob : cmd[1] = "ls" /\ \E i \in 2..Len(cmd) : cmd[i] = d}}

\* build_session_pattern: the longest prefix with an arity says how many words name the
\* command; without one it is the first word.
SessionPattern(cmd) ==
  LET known == {n \in 1..Len(cmd) : SubSeq(cmd, 1, n) \in DOMAIN Arity}
      wanted == IF known = {} THEN 1
                ELSE Arity[SubSeq(cmd, 1, CHOOSE n \in known : \A m \in known : m <= n)]
  IN [words |-> SubSeq(cmd, 1, IF wanted < Len(cmd) THEN wanted ELSE Len(cmd)), open |-> TRUE]

\* A pattern that ends in " *" is open, whether it was built so or is the command itself.
Exact(cmd) ==
  IF Len(cmd) > 1 /\ Last(cmd) = "*" THEN [words |-> Front(cmd), open |-> TRUE]
  ELSE [words |-> cmd, open |-> FALSE]
Requires(scope, inv, pattern) == [scope |-> scope, inv |-> inv, pattern |-> pattern]

\* _build_required_permissions: sensitive commands are asked for as they are, others by their
\* pattern, each pattern once, for the first command that has it.
Repeated(cmds, k) ==
  \E j \in 1..(k - 1) : /\ ~IsSensitive(cmds[j]) /\ ~Matches(cmds[j], Allowlist("bash"))
                        /\ SessionPattern(cmds[j]) = SessionPattern(cmds[k])
ShellRequired(cmds) ==
  {Requires("command", cmds[k],
            IF IsSensitive(cmds[k]) THEN Exact(cmds[k]) ELSE SessionPattern(cmds[k])) :
     k \in {k \in DOMAIN cmds : \/ IsSensitive(cmds[k])
                                \/ ~Matches(cmds[k], Allowlist("bash")) /\ ~Repeated(cmds, k)}}
  \cup {Requires("outside", <<d>>, Exact(<<d>>)) : d \in UNION {OutsideDirs(c) : c \in Range(cmds)}}

\* _resolve_guardrail_permission
ExecRequired(cmds) == {Requires("command", c, Exact(c)) : c \in {c \in Range(cmds) : HasExec(c)}}

\* Mutant: the directories outside are not looked at.
UnconditionallyNear(cmds) ==
  /\ \A c \in Range(cmds) : ~IsSensitive(c) /\ ~HasExec(c)
  /\ Permission("bash") = "always" \/ \A c \in Range(cmds) : Matches(c, Allowlist("bash"))

\* _is_unconditionally_allowed, and no guardrail.
Unconditionally(cmds) ==
  /\ \A c \in Range(cmds) : ~IsSensitive(c) /\ ~HasExec(c)
  /\ \/ Permission("bash") = "always"
     \/ \A c \in Range(cmds) : Matches(c, Allowlist("bash")) /\ OutsideDirs(c) = {}

Verdict(level, required) == [level |-> level, required |-> required]

\* resolve_permission; a line without a command has none, and the tool's own permission holds.
ShellVerdict(cmds) ==
  CASE cmds = <<>> -> Verdict(Permission("bash"), {})
    [] \E c \in Range(cmds) : IsDenied(c) -> Verdict("never", {})
    [] OTHER -> IF Unconditionally(cmds) THEN Verdict("always", {})
                ELSE Verdict("ask", ShellRequired(cmds) \cup ExecRequired(cmds))

-----------------------------------------------------------------------------
(* The file tools: resolve_file_tool_permission *)

Everything == [words |-> <<>>, open |-> TRUE]
PathRequired(marks) ==
  {Requires("file", <<"name">>, Everything) : m \in marks \cap {"sensitive"}}
  \cup {Requires("outside", <<Glob[d]>>, Exact(<<Glob[d]>>)) : d \in marks \cap DOMAIN Glob}

\* The patterns of the allowlist are matched with the path itself: those that match a glob
\* match the files of its directory.
PathAllowed(marks) ==
  \/ <<>> \in Allowlist("file")
  \/ \E d \in marks \cap DOMAIN Glob, p \in Allowlist("file") : Fnmatch(<<Glob[d]>>, p)
FileVerdict(marks) ==
  IF "scratchpad" \in marks \/ PathAllowed(marks) THEN Verdict("always", {})
  ELSE IF PathRequired(marks) # {} THEN Verdict("ask", PathRequired(marks))
  ELSE Verdict(Permission("file"), {})

-----------------------------------------------------------------------------
(* AgentLoop *)

VerdictOn(call) == IF call[1] = "bash" THEN ShellVerdict(call[2]) ELSE FileVerdict(call[2])

\* Mutant: the arguments a pattern leaves open are not optional.
CoversWords(t, r) ==
  \E rule \in rules : rule.tool = t /\ rule.scope = r.scope /\ rule.pattern.words = r.inv

\* PermissionStore.covers
Covers(t, r) ==
  \E rule \in rules :
     rule.tool = t /\ rule.scope = r.scope /\ WildcardMatch(r.inv, rule.pattern)

Uncovered(call) == {r \in VerdictOn(call).required : ~Covers(call[1], r)}

\* _should_execute_tool
Decision(call) ==
  LET v == VerdictOn(call) IN
  IF v.level # "ask" THEN v.level
  ELSE IF v.required # {} /\ Uncovered(call) = {} THEN "always" ELSE "ask"

Invoke(call) ==
  /\ asked = NotAsked /\ Decision(call) # "never"
  /\ IF Decision(call) = "always"
     THEN silent' = (silent \/ call = watched) /\ UNCHANGED asked
     ELSE asked' = [call |-> call, required |-> Uncovered(call)] /\ UNCHANGED silent
  /\ UNCHANGED <<toml, config, rules, granted, watched, approved, lasting, given, displaced,
                 answers>>

\* The call is refused, or allowed this once.
AnswerOnce ==
  /\ asked # NotAsked /\ asked' = NotAsked
  /\ UNCHANGED <<toml, config, rules, granted, watched, silent, approved, lasting, given, displaced,
                 answers>>

\* add_tool_allowlist_patterns: added to the list in memory, which is empty when the file
\* has none; " *" at the end of a pattern is cut off, and the words are read as they are.
Added(t, patterns) ==
  (IF config.allow[t] = NoList THEN {} ELSE config.allow[t]) \cup {p.words : p \in patterns}

\* approve_always: rules for what was asked for, or the tool as a whole.
AnswerAlways(save) ==
  LET t == asked.call[1]
      allow == Added(t, {r.pattern : r \in asked.required})
  IN
  /\ asked # NotAsked /\ answers < MaxAnswers /\ answers' = answers + 1
  /\ approved' = (approved \/ asked.call = watched)
  /\ lasting' = (lasting \/ (/\ save /\ asked.call = watched
                             /\ asked.required = VerdictOn(watched).required))
  /\ given' = given \cup (IF asked.required = {} THEN {[tool |-> t, pattern |-> Everything]}
                         ELSE {[tool |-> t, pattern |-> r.pattern] : r \in asked.required})
  /\ IF asked.required # {}
     THEN /\ rules' = rules \cup {[tool |-> t, scope |-> r.scope, pattern |-> r.pattern] :
                                 r \in asked.required}
          /\ toml' = IF save THEN [toml EXCEPT !.allow[t] = allow] ELSE toml
          /\ config' = IF save THEN [config EXCEPT !.allow[t] = allow] ELSE config
          /\ displaced' = (displaced \/ (save /\ ~ (Allowlist(t) \subseteq allow)))
          /\ UNCHANGED granted
     ELSE /\ granted' = granted \cup {t}
          /\ toml' = IF save THEN [toml EXCEPT !.perm[t] = "always"] ELSE toml
          /\ UNCHANGED <<rules, config, displaced>>
  /\ asked' = NotAsked
  /\ UNCHANGED <<watched, silent>>

\* The program starts anew: the rules are gone, the file is loaded.
StartAnew ==
  /\ asked = NotAsked /\ answers < MaxAnswers /\ answers' = answers + 1
  /\ config' = [toml EXCEPT !.allow["bash"] = IF @ = NoList THEN NoList ELSE @ \cup {<<"find">>}]
  /\ toml' = config'
  /\ rules' = {} /\ granted' = {} /\ silent' = FALSE /\ approved' = FALSE
  /\ UNCHANGED <<asked, watched, lasting, given, displaced>>

PermNext ==
  \/ \E call \in Call : Invoke(call)
  \/ AnswerOnce \/ StartAnew
  \/ \E save \in BOOLEAN : AnswerAlways(save)

-----------------------------------------------------------------------------
(* Properties *)

PermTypeOK ==
  /\ \A t \in Tool : toml.perm[t] \in {"ask", "always"} /\ config.perm[t] \in {"ask", "always"}
  /\ granted \subseteq Tool /\ watched \in Call
  /\ answers \in 0..MaxAnswers /\ displaced \in BOOLEAN
  /\ \A rule \in rules : rule.tool \in Tool /\ rule.scope \in {"command", "outside", "file"}

\* What the user allowed covers a command or a directory: read as a pattern, as a rule is,
\* or as words, as the list is.
MeantBy(pattern, w) == WildcardMatch(w, pattern) \/ (pattern.open /\ IsPrefix(pattern.words, w))
Given(t, w) == \E g \in given : g.tool = t /\ MeantBy(g.pattern, w)

\* A command whose like, with the same pattern, is covered by an answer with wildcards: the
\* pattern is asked for, and looked up, for the first command of a line that has it.
LikeGiven(cmds, c) ==
  \E b \in Range(cmds), g \in given :
     /\ SessionPattern(b) = SessionPattern(c)
     /\ g.tool = "bash" /\ ~Plain(g.pattern.words) /\ WildcardMatch(b, g.pattern)

\* Each of its commands is allowed by default or by an answer of the user, and so is each
\* directory outside; no answer about the tool as a whole allows a sensitive command.
Allowed(cmds) ==
  \A c \in Range(cmds) :
    /\ ~IsDenied(c)
    /\ IsSensitive(c) \/ HasExec(c) =>
         \E g \in given : g.tool = "bash" /\ g.pattern # Everything /\ WildcardMatch(c, g.pattern)
    /\ Matches(c, DefaultAllowlist["bash"]) \/ Given("bash", c) \/ LikeGiven(cmds, c)
    /\ \A d \in OutsideDirs(c) : Given("bash", <<d>>)

\* A command line runs without a question only if all of it is allowed; a denied one never does.
NothingRunsUnasked == silent /\ watched[1] = "bash" => Allowed(watched[2])

\* A call with brackets in a word or in the name of a directory: what is asked for then need
\* not match itself.
HasBrackets(call) ==
  IF call[1] = "bash"
  THEN \E c \in Range(call[2]) : Range(c) \cap Bracketed # {} \/ OutsideDirs(c) \cap Bracketed # {}
  ELSE \E d \in call[2] \cap DOMAIN Glob : Glob[d] \in Bracketed

\* No answer makes a call that ran silently a question, and an answer "always" is never asked
\* for again while the program runs, unless a saved list took the default one's place; of a
\* call with brackets only the former holds.
AskedOnce ==
  (silent \/ (approved /\ ~HasBrackets(watched))) /\ ~displaced => Decision(watched) = "always"

\* A saved answer outlives the program, if nothing of what the call requires was allowed for
\* the session only; for the shell only what names plain commands does, and for a file only
\* what has no brackets.
SavedAnswersLast ==
  lasting /\ ~displaced =>
    \/ Decision(watched) = "always"
    \/ IF watched[1] = "bash"
       THEN \E c \in Range(watched[2]) : IsSensitive(c) \/ HasExec(c) \/ OutsideDirs(c) # {}
       ELSE HasBrackets(watched)

PermissionsHold == NothingRunsUnasked /\ AskedOnce /\ SavedAnswersLast

PermSpec == PermInit /\ [][PermNext]_permVars
=============================================================================
