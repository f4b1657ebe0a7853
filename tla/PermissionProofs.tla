--------------------------- MODULE PermissionProofs ----------------------------
(***************************************************************************)
(* Theorems about the permissions of tools, for every set of commands and  *)
(* of files and every number of answers: nothing runs that the defaults or *)
(* the user did not allow, what was allowed is not asked for again, and an *)
(* answer that was saved is found by the next start.                       *)
(***************************************************************************)
EXTENDS ToolPermissions, Recursion

-----------------------------------------------------------------------------
(* Words, and what a rule names of a command *)

\* Words; the provers do not know a literal to be a string.
Word  == STRING \cup {"ls", "find", "git", "status", "none", "name", "out/*", "out/sub/*", "odd/*"}
Words == Seq(Word)
Pattern == [words : Words, open : BOOLEAN]
Command == {c \in Words : c # <<>> /\ c[1] \notin NoNames}

\* What it is for one sequence to be a prefix of another, and what a prefix is.
LEMMA PrefixAt ==
  ASSUME NEW s \in Words, NEW t \in Words
  PROVE  IsPrefix(s, t) <=> Len(s) <= Len(t) /\ \A i \in 1..Len(s) : s[i] = t[i]
<1>1. CASE Len(s) <= Len(t)
  <2>1. /\ Len(SubSeq(s, 1, Len(s))) = Len(s) /\ Len(SubSeq(t, 1, Len(s))) = Len(s)
        /\ \A i \in 1..Len(s) : SubSeq(s, 1, Len(s))[i] = s[i] /\ SubSeq(t, 1, Len(s))[i] = t[i]
    BY <1>1 DEF Words
  <2>2. SubSeq(s, 1, Len(s)) \in Words /\ SubSeq(t, 1, Len(s)) \in Words
    BY <1>1 DEF Words
  <2>3. ASSUME \A i \in 1..Len(s) : s[i] = t[i]
        PROVE  SubSeq(s, 1, Len(s)) = SubSeq(t, 1, Len(s))
    BY <2>1, <2>2, <2>3 DEF Words
  <2> QED
    BY <1>1, <2>1, <2>3 DEF IsPrefix
<1> QED
  BY <1>1 DEF IsPrefix

\* The first words of a command.
LEMMA FirstWords ==
  ASSUME NEW t \in Words, NEW n \in 1..Len(t)
  PROVE  /\ SubSeq(t, 1, n) \in Words /\ Len(SubSeq(t, 1, n)) = n
         /\ \A i \in 1..n : SubSeq(t, 1, n)[i] = t[i]
         /\ IsPrefix(SubSeq(t, 1, n), t)
<1>1. /\ SubSeq(t, 1, n) \in Words /\ Len(SubSeq(t, 1, n)) = n
      /\ \A i \in 1..n : SubSeq(t, 1, n)[i] = t[i]
  BY DEF Words
<1>2. Len(t) \in Nat
  BY DEF Words
<1>3. \A s \in Words : Len(s) = n /\ (\A i \in 1..n : s[i] = t[i]) => IsPrefix(s, t)
  BY <1>2, PrefixAt
<1> QED
  BY <1>1, <1>3

\* Prefixes of the same sequence.
LEMMA PrefixOfPrefix ==
  ASSUME NEW s \in Words, NEW t \in Words, NEW u \in Words, IsPrefix(s, t), IsPrefix(t, u)
  PROVE  IsPrefix(s, u)
<1>1. Len(s) \in Nat /\ Len(t) \in Nat /\ Len(u) \in Nat
  BY DEF Words
<1>2. /\ Len(s) <= Len(t) /\ \A i \in 1..Len(s) : s[i] = t[i]
      /\ Len(t) <= Len(u) /\ \A i \in 1..Len(t) : t[i] = u[i]
  BY PrefixAt
<1>3. Len(s) <= Len(u) /\ \A i \in 1..Len(s) : s[i] = u[i]
  BY <1>1, <1>2
<1> QED
  BY <1>3, PrefixAt

\* How many words name a command.
NameLength(c) ==
  IF c[1] = "aws" THEN 3
  ELSE IF c[1] # "git" THEN 1 ELSE IF Len(c) > 1 /\ c[2] = "stash" THEN 3 ELSE 2
Shorter(c) == IF NameLength(c) < Len(c) THEN NameLength(c) ELSE Len(c)

\* The prefixes of a command that have an arity.
Known(c) == {n \in 1..Len(c) : SubSeq(c, 1, n) \in DOMAIN Arity}

\* Which they are.
LEMMA KnownIs ==
  ASSUME NEW c \in Words, c # <<>>
  PROVE  /\ c[1] \notin {"git", "aws", "ls"} => Known(c) = {}
         /\ c[1] \in {"aws", "ls"} => Known(c) = {1}
         /\ c[1] = "git" => Known(c) = IF Len(c) > 1 /\ c[2] = "stash" THEN {1, 2} ELSE {1}
<1>1. Len(c) \in Nat \ {0}
  BY DEF Words
<1>2. ASSUME NEW n \in 1..Len(c)
      PROVE  n \in Known(c) <=> IF n = 1 THEN c[1] \in {"git", "aws", "ls"}
                                ELSE n = 2 /\ c[1] = "git" /\ c[2] = "stash"
  <2> DEFINE w == SubSeq(c, 1, n)
  <2>1. w \in Words /\ Len(w) = n /\ \A i \in 1..n : w[i] = c[i]
    BY FirstWords
  <2>2. n \in Known(c) <=> w \in {<<"git">>, <<"git", "stash">>, <<"aws">>, <<"ls">>}
    BY DEF Arity, Known
  <2> HIDE DEF w
  <2>3. w = <<"git">> <=> n = 1 /\ c[1] = "git"
    BY <2>1 DEF Words
  <2>4. /\ w = <<"ls">> <=> n = 1 /\ c[1] = "ls"
        /\ w = <<"aws">> <=> n = 1 /\ c[1] = "aws"
    BY <2>1 DEF Words
  <2>5. w = <<"git", "stash">> => n = 2 /\ c[1] = "git" /\ c[2] = "stash"
    BY <2>1 DEF Words
  <2>6. ASSUME n = 2, c[1] = "git", c[2] = "stash"
        PROVE  w = <<"git", "stash">>
    <3>1. Len(w) = 2 /\ w[1] = "git" /\ w[2] = "stash"
      BY <2>1, <2>6
    <3> QED
      BY <2>1, <3>1 DEF Words
  <2> QED
    BY <2>2, <2>3, <2>4, <2>5, <2>6
<1>3. Known(c) \subseteq 1..Len(c)
  BY DEF Known
<1>4. \A n : n \in Known(c) <=> /\ n \in 1..Len(c)
                               /\ IF n = 1 THEN c[1] \in {"git", "aws", "ls"}
                                  ELSE n = 2 /\ c[1] = "git" /\ c[2] = "stash"
  BY <1>2, <1>3
<1> QED
  BY <1>1, <1>4

\* The longest of one.
LEMMA LongestOfOne == (CHOOSE n \in {1} : \A m \in {1} : m <= n) = 1
  OBVIOUS

\* The longest of two.
LEMMA LongestOfTwo == (CHOOSE n \in {1, 2} : \A m \in {1, 2} : m <= n) = 2
<1> DEFINE best == CHOOSE n \in {1, 2} : \A m \in {1, 2} : m <= n
<1>1. \E n \in {1, 2} : \A m \in {1, 2} : m <= n
  OBVIOUS
<1>2. best \in {1, 2} /\ \A m \in {1, 2} : m <= best
  BY <1>1
<1> HIDE DEF best
<1>3. best = 2
  BY <1>2
<1> QED
  BY <1>3, Zenon DEF best

\* The pattern of a command: as many words as its name has, or all of them.
LEMMA PatternIs ==
  ASSUME NEW c \in Words, c # <<>>
  PROVE  SessionPattern(c) = [words |-> SubSeq(c, 1, Shorter(c)), open |-> TRUE]
<1> DEFINE best == CHOOSE n \in Known(c) : \A m \in Known(c) : m <= n
           wanted == IF Known(c) = {} THEN 1 ELSE Arity[SubSeq(c, 1, best)]
<1>1. Len(c) \in Nat \ {0}
  BY DEF Words
<1>2. SubSeq(c, 1, 1) = <<c[1]>> /\ (Len(c) > 1 => SubSeq(c, 1, 2) = <<c[1], c[2]>>)
  <2>1. SubSeq(c, 1, 1) \in Words /\ Len(SubSeq(c, 1, 1)) = 1 /\ SubSeq(c, 1, 1)[1] = c[1]
    BY <1>1, FirstWords
  <2>2. Len(c) > 1 => /\ SubSeq(c, 1, 2) \in Words /\ Len(SubSeq(c, 1, 2)) = 2
                      /\ SubSeq(c, 1, 2)[1] = c[1] /\ SubSeq(c, 1, 2)[2] = c[2]
    BY <1>1, FirstWords
  <2>3. \A w \in Words : /\ Len(w) = 1 => w = <<w[1]>>
                         /\ Len(w) = 2 => w = <<w[1], w[2]>>
    BY DEF Words
  <2>4. SubSeq(c, 1, 1) = <<c[1]>>
    BY <2>1, <2>3
  <2>5. Len(c) > 1 => SubSeq(c, 1, 2) = <<c[1], c[2]>>
    BY <2>2, <2>3
  <2> QED
    BY <2>4, <2>5
<1>3. wanted = NameLength(c)
  <2>1. CASE c[1] \notin {"git", "aws", "ls"}
    BY <2>1, KnownIs DEF NameLength
  <2>2. CASE c[1] \in {"aws", "ls"}
    <3>1. Known(c) = {1}
      BY <2>2, KnownIs
    <3>2. best = 1
      BY <3>1, LongestOfOne
    <3> HIDE DEF best
    <3> QED
      BY <1>2, <2>2, <3>1, <3>2 DEF Arity, NameLength
  <2>3. CASE c[1] = "git" /\ ~(Len(c) > 1 /\ c[2] = "stash")
    <3>1. Known(c) = {1}
      BY <2>3, KnownIs
    <3>2. best = 1
      BY <3>1, LongestOfOne
    <3> HIDE DEF best
    <3> QED
      BY <1>2, <2>3, <3>1, <3>2 DEF Arity, NameLength
  <2>4. CASE c[1] = "git" /\ Len(c) > 1 /\ c[2] = "stash"
    <3>1. Known(c) = {1, 2}
      BY <2>4, KnownIs
    <3>2. best = 2
      BY <3>1, LongestOfTwo
    <3> HIDE DEF best
    <3> QED
      BY <1>2, <2>4, <3>1, <3>2 DEF Arity, NameLength
  <2> QED
    BY <2>1, <2>2, <2>3, <2>4
<1>4. SessionPattern(c) =
        [words |-> SubSeq(c, 1, IF wanted < Len(c) THEN wanted ELSE Len(c)), open |-> TRUE]
  BY DEF SessionPattern, Known
<1> QED
  BY <1>3, <1>4 DEF Shorter

\* The pattern of a command is a prefix of it.
LEMMA PatternOf ==
  ASSUME NEW c \in Words, c # <<>>
  PROVE  /\ Shorter(c) \in 1..Len(c)
         /\ SessionPattern(c).open /\ SessionPattern(c).words \in Words
         /\ Len(SessionPattern(c).words) = Shorter(c)
         /\ \A i \in 1..Shorter(c) : SessionPattern(c).words[i] = c[i]
         /\ IsPrefix(SessionPattern(c).words, c)
<1>1. Len(c) \in Nat \ {0}
  BY DEF Words
<1>2. Shorter(c) \in 1..Len(c)
  BY <1>1 DEF Shorter, NameLength
<1>3. SessionPattern(c).words = SubSeq(c, 1, Shorter(c)) /\ SessionPattern(c).open
  BY PatternIs
<1> QED
  BY <1>2, <1>3, FirstWords

\* Commands that a pattern covers have it, or a longer one.
LEMMA PatternExtends ==
  ASSUME NEW b \in Words, b # <<>>, NEW c \in Words, c # <<>>,
         IsPrefix(SessionPattern(b).words, c)
  PROVE  IsPrefix(SessionPattern(b).words, SessionPattern(c).words)
<1> DEFINE p == SessionPattern(b).words
           q == SessionPattern(c).words
<1>1. /\ Len(b) \in Nat \ {0} /\ Len(c) \in Nat \ {0}
  BY DEF Words
<1>2. /\ Shorter(b) \in 1..Len(b) /\ p \in Words /\ Len(p) = Shorter(b)
      /\ \A i \in 1..Shorter(b) : p[i] = b[i]
      /\ Shorter(c) \in 1..Len(c) /\ q \in Words /\ Len(q) = Shorter(c)
      /\ \A i \in 1..Shorter(c) : q[i] = c[i]
  BY PatternOf
<1>3. Len(p) <= Len(c) /\ \A i \in 1..Len(p) : p[i] = c[i]
  BY <1>2, PrefixAt
<1> HIDE DEF p, q
<1>4. b[1] = c[1] /\ (Shorter(b) > 1 => b[2] = c[2])
  BY <1>1, <1>2, <1>3
<1>5. Shorter(b) <= Shorter(c)
  BY <1>1, <1>2, <1>3, <1>4 DEF Shorter, NameLength
<1>6. Len(p) <= Len(q) /\ \A i \in 1..Len(p) : p[i] = q[i]
  BY <1>1, <1>2, <1>3, <1>5
<1> QED
  BY <1>2, <1>6, PrefixAt DEF p, q

-----------------------------------------------------------------------------
(* Wildcards *)

\* The beginnings of a sequence of words.
LEMMA Beginnings ==
  ASSUME NEW w \in Words, NEW n \in 0..Len(w)
  PROVE  /\ SubSeq(w, 1, n) \in Words /\ Len(SubSeq(w, 1, n)) = n
         /\ \A i \in 1..n : SubSeq(w, 1, n)[i] = w[i]
BY DEF Words

\* Sequences of words are equal when their words are.
LEMMA SameWords ==
  ASSUME NEW v \in Words, NEW w \in Words, Len(v) = Len(w), \A i \in 1..Len(v) : v[i] = w[i]
  PROVE  v = w
BY DEF Words

\* A pattern without wildcards matches what has its words, and no more unless it is open.
LEMMA PlainMatch ==
  ASSUME NEW w \in Words, NEW p \in Pattern, Plain(p.words)
  PROVE  WildcardMatch(w, p) <=> IF p.open THEN IsPrefix(p.words, w) ELSE p.words = w
<1> DEFINE q == p.words
<1>1. q \in Words /\ Len(q) \in Nat /\ Len(w) \in Nat /\ p.open \in BOOLEAN
  BY DEF Pattern, Words
<1>2. \A n \in 0..Len(w) : Fnmatch(SubSeq(w, 1, n), q) <=> SubSeq(w, 1, n) = q
  BY DEF Fnmatch
<1> HIDE DEF q
<1>3. ASSUME NEW n \in 0..Len(w)
      PROVE  SubSeq(w, 1, n) = q <=> Len(q) = n /\ \A i \in 1..n : q[i] = w[i]
  <2>1. /\ SubSeq(w, 1, n) \in Words /\ Len(SubSeq(w, 1, n)) = n
        /\ \A i \in 1..n : SubSeq(w, 1, n)[i] = w[i]
    BY Beginnings
  <2>2. ASSUME Len(q) = n, \A i \in 1..n : q[i] = w[i] PROVE SubSeq(w, 1, n) = q
    BY <1>1, <2>1, <2>2, SameWords
  <2> QED
    BY <2>1, <2>2
<1>4. CASE p.open
  <2>1. WildcardMatch(w, p) <=> \E n \in 0..Len(w) : Len(q) = n /\ \A i \in 1..n : q[i] = w[i]
    BY <1>2, <1>3, <1>4 DEF WildcardMatch, q
  <2>2. IsPrefix(q, w) <=> Len(q) <= Len(w) /\ \A i \in 1..Len(q) : q[i] = w[i]
    BY <1>1, PrefixAt
  <2> QED
    BY <1>1, <1>4, <2>1, <2>2 DEF q
<1>5. CASE ~p.open
  <2>1. WildcardMatch(w, p) <=> SubSeq(w, 1, Len(w)) = q
    BY <1>1, <1>2, <1>5 DEF WildcardMatch, q
  <2>2. SubSeq(w, 1, Len(w)) = w
    <3>1. Len(w) \in 0..Len(w)
      BY <1>1
    <3> QED
      BY <3>1, Beginnings, SameWords
  <2> QED
    BY <1>5, <2>1, <2>2 DEF q
<1> QED
  BY <1>4, <1>5

\* Words without brackets match themselves: each falls to itself.
LEMMA MatchesItself ==
  ASSUME NEW w \in Words, \A i \in 1..Len(w) : w[i] \notin Bracketed
  PROVE  Fnmatch(w, w)
<1>1. Len(w) \in Nat
  BY DEF Words
<1> DEFINE at == [i \in 1..Len(w) |-> i]
<1>2. at \in [1..Len(w) -> 1..Len(w)] /\ \A i \in 1..Len(w) : at[i] = i
  OBVIOUS
<1> HIDE DEF at
<1>3. \A i \in 1..Len(w) : Fits(w[i], w[i])
  BY DEF Fits, Bracketed
<1>4. /\ \A k \in 1..Len(w) : \E i \in 1..Len(w) : at[i] = k
      /\ \A i \in 1..Len(w) : Fits(w[at[i]], w[i])
      /\ \A i \in 2..Len(w) : at[i] = at[i - 1] + 1
  BY <1>1, <1>2, <1>3
<1> QED
  BY <1>2, <1>4 DEF Fnmatch

\* So a pattern that is made of a beginning of them matches them, if it is open or the whole.
LEMMA OwnMatch ==
  ASSUME NEW w \in Words, \A i \in 1..Len(w) : w[i] \notin Bracketed,
         NEW p, NEW n \in 0..Len(w), p.words = SubSeq(w, 1, n), p.open \/ n = Len(w)
  PROVE  WildcardMatch(w, p)
<1>1. /\ SubSeq(w, 1, n) \in Words /\ Len(SubSeq(w, 1, n)) = n /\ n \in Nat /\ Len(w) \in Nat
      /\ \A i \in 1..n : SubSeq(w, 1, n)[i] = w[i]
  BY Beginnings DEF Words
<1>2. \A i \in 1..Len(SubSeq(w, 1, n)) : SubSeq(w, 1, n)[i] \notin Bracketed
  BY <1>1
<1>3. Fnmatch(SubSeq(w, 1, n), SubSeq(w, 1, n))
  BY <1>1, <1>2, MatchesItself
<1> QED
  BY <1>3 DEF WildcardMatch

\* A command as its own pattern is a beginning of it, or all of it.
LEMMA ExactIs ==
  ASSUME NEW w \in Words, w # <<>>
  PROVE  /\ Exact(w) \in Pattern
         /\ \E n \in 1..Len(w) : Exact(w).words = SubSeq(w, 1, n) /\ (Exact(w).open \/ n = Len(w))
<1>1. Len(w) \in Nat \ {0}
  BY DEF Words
<1>2. CASE Len(w) > 1 /\ Last(w) = "*"
  <2>1. Exact(w) = [words |-> SubSeq(w, 1, Len(w) - 1), open |-> TRUE]
    BY <1>2 DEF Exact, Front
  <2>2. SubSeq(w, 1, Len(w) - 1) \in Words /\ Len(w) - 1 \in 1..Len(w)
    BY <1>1, <1>2, Beginnings
  <2> QED
    BY <2>1, <2>2 DEF Pattern
<1>3. CASE ~(Len(w) > 1 /\ Last(w) = "*")
  <2>1. Exact(w) = [words |-> w, open |-> FALSE]
    BY <1>3 DEF Exact
  <2>2. SubSeq(w, 1, Len(w)) = w /\ Len(w) \in 1..Len(w)
    <3>1. Len(w) \in 1..Len(w) /\ Len(w) \in 0..Len(w)
      BY <1>1
    <3> QED
      BY <3>1, Beginnings, SameWords
  <2>3. Exact(w).words = w
    BY <2>1
  <2>4. Exact(w) \in Pattern
    BY <2>1 DEF Pattern
  <2>5. \E n \in 1..Len(w) : Exact(w).words = SubSeq(w, 1, n) /\ (Exact(w).open \/ n = Len(w))
    BY <2>2, <2>3, Zenon
  <2> QED
    BY <2>4, <2>5
<1> QED
  BY <1>2, <1>3

-----------------------------------------------------------------------------
(* The first invariant: what the user gave *)

\* What a command may be put to the user with: its pattern, or itself.
CommandPattern == {SessionPattern(c) : c \in Command}
                  \cup {Exact(c) : c \in {c \in Command : IsSensitive(c) \/ HasExec(c)}}
DirPattern == {Exact(<<Glob[d]>>) : d \in DOMAIN Glob}
ShellPattern == CommandPattern \cup DirPattern
Settings == [allow : [Tool -> SUBSET Words], perm : [Tool -> {"ask", "always"}]]
DirNeed == {Requires("outside", <<Glob[d]>>, Exact(<<Glob[d]>>)) : d \in DOMAIN Glob}
ShellNeed == {Requires("command", c, p) : c \in Command, p \in CommandPattern} \cup DirNeed
FileNeed == {Requires("file", <<"name">>, Everything)} \cup DirNeed

\* Types of the settings, and what the user is asked.
SettingTypes ==
  /\ {toml, config} \subseteq Settings /\ granted \subseteq Tool /\ watched \in Call
  /\ answers \in 0..MaxAnswers
Asking ==
  asked # NotAsked => /\ asked.call \in Call
                      /\ asked.call[1] = "bash" => asked.required \subseteq ShellNeed
                      /\ asked.call[1] = "file" => asked.required \subseteq FileNeed

\* A rule is something the user gave; those for commands have the patterns of commands.
RulesGiven ==
  /\ rules \subseteq [tool : Tool, scope : {"command", "outside", "file"}, pattern : Pattern]
  /\ \A r \in rules : [tool |-> r.tool, pattern |-> r.pattern] \in given
  /\ \A r \in rules : r.tool = "bash" /\ r.scope = "command" => r.pattern \in CommandPattern

\* So is what is on a list and not there by default, and a permission for the whole tool.
ListGiven(allow) ==
  allow = NoList \/ \A w \in allow : \/ w \in DefaultAllowlist["bash"]
                                    \/ \E p \in ShellPattern :
                                         p.words = w /\ [tool |-> "bash", pattern |-> p] \in given
ListsGiven == ListGiven(toml.allow["bash"]) /\ ListGiven(config.allow["bash"])
ToolGiven ==
  "bash" \in granted \/ toml.perm["bash"] = "always" \/ config.perm["bash"] = "always"
  => [tool |-> "bash", pattern |-> Everything] \in given

GivenTypes == given \subseteq [tool : Tool, pattern : Pattern]

PermInv == /\ SettingTypes /\ Asking /\ RulesGiven /\ ListsGiven /\ ToolGiven /\ GivenTypes
           /\ NothingRunsUnasked

\* The commands of a line.
LEMMA LineOf ==
  ASSUME NEW cmds \in ShellCall
  PROVE  /\ cmds \in Seq(Words) /\ Len(cmds) \in Nat /\ DOMAIN cmds = 1..Len(cmds)
         /\ Range(cmds) \subseteq Command /\ \A k \in 1..Len(cmds) : cmds[k] \in Range(cmds)
<1>0. \A c \in Seq(STRING) : c \in Words
  BY DEF Words, Word
<1>1. cmds \in Seq(Words)
  BY <1>0, PermBounds
<1>2. DOMAIN cmds = 1..Len(cmds) /\ Len(cmds) \in Nat
  BY <1>1
<1>3. \A c \in Range(cmds) : c \in Words
  BY <1>1, <1>2 DEF Range
<1>4. Range(cmds) \subseteq Command
  BY <1>3, PermBounds DEF Command, Words
<1> QED
  BY <1>1, <1>2, <1>4 DEF Range

\* The globs of directories are words and no names, and their patterns are closed.
LEMMA Globs ==
  ASSUME NEW d \in DOMAIN Glob
  PROVE  /\ <<Glob[d]>> \in Words /\ Glob[d] \in DOMAIN Class /\ Glob[d] \in NoNames \ {"none"}
         /\ Exact(<<Glob[d]>>) = [words |-> <<Glob[d]>>, open |-> FALSE]
         /\ Len(<<Glob[d]>>) = 1 /\ <<Glob[d]>>[1] = Glob[d]
<1>1. Glob[d] \in {"out/*", "out/sub/*", "odd/*"}
  BY DEF Glob
<1>2. Glob[d] \in Word /\ Glob[d] \in DOMAIN Class /\ Glob[d] \in NoNames \ {"none"}
  BY <1>1 DEF Word, Class, NoNames
<1>3. Len(<<Glob[d]>>) = 1 /\ <<Glob[d]>>[1] = Glob[d] /\ <<Glob[d]>> \in Words
  BY <1>2 DEF Words
<1> QED
  BY <1>2, <1>3 DEF Exact

\* The patterns of commands are prefixes of commands.
LEMMA Patterns ==
  /\ ShellPattern \subseteq Pattern
  /\ \A p \in CommandPattern : \E c \in Command :
        \/ p = SessionPattern(c) /\ p.open
        \/ p = Exact(c) /\ (IsSensitive(c) \/ HasExec(c))
<1>1. \A p \in CommandPattern : \E c \in Command :
        \/ p = SessionPattern(c) /\ p.open
        \/ p = Exact(c) /\ (IsSensitive(c) \/ HasExec(c))
  BY PatternOf DEF CommandPattern, Command
<1>2. \A c \in Words : c # <<>> => Exact(c) \in Pattern
  BY ExactIs
<1>3. ASSUME NEW c \in Command PROVE SessionPattern(c) \in Pattern
  <2>1. c \in Words /\ c # <<>>
    BY DEF Command
  <2>2. SessionPattern(c) = [words |-> SubSeq(c, 1, Shorter(c)), open |-> TRUE]
    BY <2>1, PatternIs
  <2>3. SubSeq(c, 1, Shorter(c)) \in Words
    BY <2>1, PatternOf, FirstWords
  <2> QED
    BY <2>2, <2>3 DEF Pattern
<1>4. ASSUME NEW d \in DOMAIN Glob PROVE Exact(<<Glob[d]>>) \in Pattern
  <2> DEFINE w == <<Glob[d]>>
  <2>1. w \in Words /\ Exact(w) = [words |-> w, open |-> FALSE]
    BY Globs
  <2> HIDE DEF w
  <2>2. Exact(w) \in Pattern
    BY <2>1 DEF Pattern
  <2> QED
    BY <2>2 DEF w
<1> QED
  BY <1>1, <1>2, <1>3, <1>4 DEF ShellPattern, CommandPattern, DirPattern, Command

\* They begin with its name.
LEMMA PatternName ==
  ASSUME NEW c \in Command, NEW p, p = SessionPattern(c) \/ p = Exact(c)
  PROVE  p \in Pattern /\ Len(p.words) \in Nat \ {0} /\ p.words[1] = c[1]
<1>1. c \in Words /\ c # <<>> /\ Len(c) \in Nat \ {0}
  BY DEF Command, Words
<1>2. CASE p = SessionPattern(c)
  <2>1. /\ Shorter(c) \in 1..Len(c) /\ Len(p.words) = Shorter(c)
        /\ \A i \in 1..Shorter(c) : p.words[i] = c[i]
    BY <1>1, <1>2, PatternOf
  <2>2. p \in Pattern
    BY <1>2, Patterns DEF ShellPattern, CommandPattern
  <2> QED
    BY <1>1, <2>1, <2>2
<1>3. CASE p = Exact(c)
  <2>1. PICK n \in 1..Len(c) : p.words = SubSeq(c, 1, n)
    BY <1>1, <1>3, ExactIs
  <2>2. n \in 0..Len(c) /\ n \in Nat \ {0} /\ 1 \in 1..n
    BY <1>1
  <2>3. Len(p.words) = n /\ p.words[1] = c[1]
    BY <1>1, <2>1, <2>2, Beginnings
  <2> QED
    BY <1>1, <1>3, <2>2, <2>3, ExactIs
<1> QED
  BY <1>2, <1>3

\* What the user gave with a pattern that covers words.
LEMMA GivenBy ==
  ASSUME NEW t, NEW p \in Pattern, NEW w, [tool |-> t, pattern |-> p] \in given, MeantBy(p, w)
  PROVE  Given(t, w)
<1> DEFINE g == [tool |-> t, pattern |-> p]
<1>1. g \in given /\ g.tool = t /\ g.pattern = p
  OBVIOUS
<1> HIDE DEF g
<1> QED
  BY <1>1 DEF Given

\* A command that is on the list, and is none of those always asked for, was allowed.
LEMMA ListedIsAllowed ==
  ASSUME ListsGiven, NEW c \in Command, ~IsSensitive(c), ~HasExec(c),
         Matches(c, Allowlist("bash"))
  PROVE  Matches(c, DefaultAllowlist["bash"]) \/ Given("bash", c)
<1>1. PICK w \in Allowlist("bash") : IsPrefix(w, c)
  BY DEF Matches
<1>2. CASE w \in DefaultAllowlist["bash"]
  BY <1>1, <1>2 DEF Matches
<1>3. CASE w \notin DefaultAllowlist["bash"]
  <2>1. PICK p \in ShellPattern : p.words = w /\ [tool |-> "bash", pattern |-> p] \in given
    BY <1>3 DEF ListsGiven, ListGiven, Allowlist
  <2>2. p \in Pattern /\ c \in Words /\ c # <<>> /\ c[1] \notin NoNames
    BY Patterns DEF Command
  <2>3. CASE p.open
    BY <1>1, <2>1, <2>2, <2>3, GivenBy DEF MeantBy
  <2>4. CASE ~p.open /\ p \in DirPattern
    <3>1. PICK d \in DOMAIN Glob : p = Exact(<<Glob[d]>>)
      BY <2>4 DEF DirPattern
    <3>2. p = [words |-> <<Glob[d]>>, open |-> FALSE]
      BY <3>1, Globs
    <3>3. w = <<Glob[d]>>
      BY <2>1, <3>2
    <3>4. w \in Words /\ Len(w) = 1 /\ w[1] \in NoNames
      BY <3>3, Globs
    <3>5. w[1] = c[1]
      BY <1>1, <2>2, <3>4, PrefixAt
    <3> QED
      BY <2>2, <3>4, <3>5
  <2>5. CASE ~p.open /\ p \notin DirPattern
    <3>1. PICK b \in Command : p = Exact(b) /\ (IsSensitive(b) \/ HasExec(b))
      BY <2>5, Patterns DEF ShellPattern
    <3>2. b \in Words /\ b # <<>> /\ w = b
      BY <2>1, <2>5, <3>1 DEF Exact, Command
    <3>3. Len(b) <= Len(c) /\ \A i \in 1..Len(b) : b[i] = c[i]
      BY <1>1, <2>2, <3>2, PrefixAt
    <3>4. Len(b) \in Nat \ {0} /\ Len(c) \in Nat /\ DOMAIN b = 1..Len(b) /\ DOMAIN c = 1..Len(c)
      BY <2>2, <3>2 DEF Words
    <3>5. b[1] = c[1]
      BY <3>3, <3>4
    <3>6. ASSUME HasExec(b) PROVE HasExec(c)
      <4>1. PICK i \in 1..Len(b) : b[i] = "-exec"
        BY <3>4, <3>6 DEF HasExec, Range
      <4>2. i \in 1..Len(c) /\ c[i] = "-exec"
        BY <3>3, <3>4, <4>1
      <4> QED
        BY <3>4, <3>5, <3>6, <4>2 DEF HasExec, Range
    <3> QED
      BY <3>1, <3>5, <3>6 DEF IsSensitive
  <2> QED
    BY <2>3, <2>4, <2>5
<1> QED
  BY <1>2, <1>3

\* What the rules cover of a required permission was given.
LEMMA CoveredIsGiven ==
  ASSUME RulesGiven, NEW t, NEW r, Covers(t, r)
  PROVE  Given(t, r.inv)
BY DEF RulesGiven, Covers, Given, MeantBy

\* The first of the commands that a pattern is asked for.
LEMMA FirstAsked ==
  ASSUME NEW cmds \in ShellCall, NEW k \in 1..Len(cmds),
         ~IsSensitive(cmds[k]), ~Matches(cmds[k], Allowlist("bash"))
  PROVE  \E j \in 1..Len(cmds) :
            /\ SessionPattern(cmds[j]) = SessionPattern(cmds[k]) /\ ~IsSensitive(cmds[j])
            /\ Requires("command", cmds[j], SessionPattern(cmds[j])) \in ShellRequired(cmds)
<1> DEFINE same == {j \in 1..Len(cmds) :
                     /\ ~IsSensitive(cmds[j]) /\ ~Matches(cmds[j], Allowlist("bash"))
                     /\ SessionPattern(cmds[j]) = SessionPattern(cmds[k])}
<1>1. Len(cmds) \in Nat /\ DOMAIN cmds = 1..Len(cmds)
  BY LineOf
<1>2. k \in same /\ same \subseteq Nat
  BY <1>1
<1>3. PICK j \in same : \A i \in same : j <= i
  BY <1>2, LeastNatural
<1>4. ~Repeated(cmds, j)
  BY <1>1, <1>3 DEF Repeated
<1>5. Requires("command", cmds[j], SessionPattern(cmds[j])) \in ShellRequired(cmds)
  BY <1>1, <1>3, <1>4 DEF ShellRequired
<1> QED
  BY <1>3, <1>5

\* The pattern that covers the first command of a pattern covers the others.
LEMMA SamePattern ==
  ASSUME NEW a \in Command, NEW b \in Command, NEW c \in Command,
         SessionPattern(b) = SessionPattern(c), IsPrefix(SessionPattern(a).words, b)
  PROVE  IsPrefix(SessionPattern(a).words, c)
<1>1. /\ a \in Words /\ a # <<>> /\ b \in Words /\ b # <<>> /\ c \in Words /\ c # <<>>
  BY DEF Command
<1>2. IsPrefix(SessionPattern(a).words, SessionPattern(b).words)
  BY <1>1, PatternExtends
<1>3. /\ SessionPattern(a).words \in Words /\ SessionPattern(c).words \in Words
      /\ IsPrefix(SessionPattern(c).words, c)
  BY <1>1, PatternOf
<1> QED
  BY <1>1, <1>2, <1>3, PrefixOfPrefix

\* A search is on the default list.
LEMMA SearchListed ==
  ASSUME NEW c \in Command, c[1] = "find"
  PROVE  Matches(c, DefaultAllowlist["bash"])
<1>1. <<"find">> \in Words /\ Len(<<"find">>) = 1 /\ <<"find">>[1] = "find"
  BY DEF Words, Word
<1>2. c \in Words /\ Len(c) \in Nat \ {0}
  BY DEF Words, Command
<1> DEFINE w == <<"find">>
<1>3. w \in Words /\ Len(w) <= Len(c) /\ \A i \in 1..Len(w) : w[i] = c[i]
  BY <1>1, <1>2
<1> HIDE DEF w
<1>4. IsPrefix(w, c)
  BY <1>2, <1>3, PrefixAt
<1> QED
  BY <1>4 DEF Matches, DefaultAllowlist, Tool, w

\* Commands with the same pattern have the same name.
LEMMA SameName ==
  ASSUME NEW b \in Command, NEW c \in Command, SessionPattern(b) = SessionPattern(c)
  PROVE  b[1] = c[1]
<1>1. b \in Words /\ b # <<>> /\ c \in Words /\ c # <<>> /\ Len(b) \in Nat /\ Len(c) \in Nat
  BY DEF Command, Words
<1>2. /\ Shorter(b) \in 1..Len(b) /\ SessionPattern(b).words[1] = b[1]
      /\ Shorter(c) \in 1..Len(c) /\ SessionPattern(c).words[1] = c[1]
  BY <1>1, PatternOf
<1> QED
  BY <1>2

\* What covers a command covers those with the same pattern, unless it has wildcards or is
\* a search that executes something: searches are allowed by default.
LEMMA CoveredByOther ==
  ASSUME NEW cmds, NEW b \in Command, NEW c \in Command, b \in Range(cmds),
         SessionPattern(b) = SessionPattern(c), ~IsSensitive(b), NEW p \in CommandPattern,
         [tool |-> "bash", pattern |-> p] \in given, WildcardMatch(b, p)
  PROVE  Matches(c, DefaultAllowlist["bash"]) \/ Given("bash", c) \/ LikeGiven(cmds, c)
<1>1. PICK a \in Command : \/ p = SessionPattern(a) /\ p.open
                           \/ p = Exact(a) /\ (IsSensitive(a) \/ HasExec(a))
  BY Patterns
<1>2. b \in Words /\ p \in Pattern /\ p.words \in Words /\ Len(p.words) \in Nat \ {0}
      /\ p.words[1] = a[1]
  BY <1>1, PatternName DEF Command, Pattern
<1>3. CASE ~Plain(p.words)
  <2> DEFINE g == [tool |-> "bash", pattern |-> p]
  <2>1. g \in given /\ g.tool = "bash" /\ g.pattern = p
    OBVIOUS
  <2> HIDE DEF g
  <2> QED
    BY <1>3, <2>1 DEF LikeGiven
<1>4. CASE Plain(p.words) /\ p = SessionPattern(a) /\ p.open
  <2>1. IsPrefix(p.words, b)
    BY <1>2, <1>4, PlainMatch
  <2>2. IsPrefix(p.words, c)
    BY <1>4, <2>1, SamePattern
  <2> QED
    BY <1>2, <1>4, <2>2, GivenBy DEF MeantBy
<1>5. CASE Plain(p.words) /\ p = Exact(a) /\ (IsSensitive(a) \/ HasExec(a))
  <2>1. IF p.open THEN IsPrefix(p.words, b) ELSE p.words = b
    BY <1>2, <1>5, PlainMatch
  <2>2. b[1] = a[1]
    BY <1>2, <2>1, PrefixAt
  <2>3. c[1] = "find"
    BY <1>5, <2>2, SameName DEF HasExec, IsSensitive
  <2> QED
    BY <2>3, SearchListed
<1> QED
  BY <1>1, <1>3, <1>4, <1>5

\* A line that runs without a question is allowed.
LEMMA SilentIsAllowed ==
  ASSUME SettingTypes, RulesGiven, ListsGiven, ToolGiven, NEW cmds \in ShellCall,
         Decision(<<"bash", cmds>>) = "always"
  PROVE  Allowed(cmds)
<1> DEFINE v == ShellVerdict(cmds)
<1>1. /\ VerdictOn(<<"bash", cmds>>) = v
      /\ \/ v.level = "always"
         \/ v.level = "ask" /\ \A r \in v.required : Covers("bash", r)
  BY DEF Decision, Uncovered, VerdictOn
<1>2. CASE cmds = <<>>
  BY <1>2 DEF Allowed, Range
<1>3. CASE cmds # <<>> /\ Unconditionally(cmds)
  <2>1. \A c \in Range(cmds) : ~IsDenied(c)
    BY <1>1, <1>3 DEF ShellVerdict, Verdict
  <2>2. ASSUME NEW c \in Range(cmds)
        PROVE  /\ Matches(c, DefaultAllowlist["bash"]) \/ Given("bash", c)
               /\ \A d \in OutsideDirs(c) : Given("bash", <<d>>)
    <3>0. \A d \in OutsideDirs(c) : <<d>> \in Words
      BY Globs DEF OutsideDirs
    <3>1. c \in Command /\ ~IsSensitive(c) /\ ~HasExec(c)
      BY <1>3, LineOf DEF Unconditionally
    <3>2. CASE Permission("bash") = "always"
      <4>1. [tool |-> "bash", pattern |-> Everything] \in given
        BY <3>2 DEF Permission, ToolGiven
      <4>2. /\ Everything \in Pattern /\ Everything.open /\ Everything.words = <<>>
            /\ <<>> \in Words
        BY DEF Everything, Pattern, Words
      <4>3. ASSUME NEW w \in Words PROVE IsPrefix(<<>>, w)
        <5>1. Len(<<>>) = 0 /\ Len(w) \in Nat
          BY DEF Words
        <5> QED
          BY <4>2, <5>1, PrefixAt
      <4>4. \A w \in Words : Given("bash", w)
        BY <4>1, <4>2, <4>3, GivenBy DEF MeantBy
      <4> QED
        BY <3>0, <3>1, <4>4 DEF Command
    <3>3. CASE Matches(c, Allowlist("bash")) /\ OutsideDirs(c) = {}
      BY <3>1, <3>3, ListedIsAllowed
    <3> QED
      BY <1>3, <3>2, <3>3 DEF Unconditionally
  <2> QED
    BY <1>3, <2>1, <2>2 DEF Allowed, Unconditionally
<1>4. CASE cmds # <<>> /\ ~Unconditionally(cmds)
  <2>1. /\ \A c \in Range(cmds) : ~IsDenied(c)
        /\ \A r \in ShellRequired(cmds) \cup ExecRequired(cmds) : Covers("bash", r)
    BY <1>1, <1>4 DEF ShellVerdict, Verdict
  <2>2. ASSUME NEW c \in Range(cmds), NEW d \in OutsideDirs(c)
        PROVE  Given("bash", <<d>>)
    <3>1. Requires("outside", <<d>>, Exact(<<d>>)) \in ShellRequired(cmds)
      BY <2>2 DEF ShellRequired
    <3> QED
      BY <2>1, <3>1, CoveredIsGiven DEF Requires
  <2>3. ASSUME NEW c \in Range(cmds), IsSensitive(c) \/ HasExec(c)
        PROVE  \E g \in given : /\ g.tool = "bash" /\ g.pattern # Everything
                                /\ WildcardMatch(c, g.pattern)
    <3>1. Requires("command", c, Exact(c)) \in ShellRequired(cmds) \cup ExecRequired(cmds)
      BY <2>3 DEF ShellRequired, ExecRequired, Range
    <3>2. Covers("bash", Requires("command", c, Exact(c)))
      BY <2>1, <3>1
    <3>3. PICK p \in CommandPattern : /\ [tool |-> "bash", pattern |-> p] \in given
                                      /\ WildcardMatch(c, p)
      BY <3>2 DEF Covers, Requires, RulesGiven
    <3>4. p # Everything
      <4>1. PICK a \in Command : p = SessionPattern(a) \/ p = Exact(a)
        BY Patterns
      <4>2. Len(p.words) # 0
        BY <4>1, PatternName
      <4>3. Len(Everything.words) = 0
        BY DEF Everything
      <4> QED
        BY <4>2, <4>3
    <3> DEFINE g == [tool |-> "bash", pattern |-> p]
    <3>5. g \in given /\ g.tool = "bash" /\ g.pattern = p
      BY <3>3
    <3> HIDE DEF g
    <3> QED
      BY <3>3, <3>4, <3>5
  <2>4. ASSUME NEW k \in 1..Len(cmds), ~IsSensitive(cmds[k]), ~HasExec(cmds[k])
        PROVE  \/ Matches(cmds[k], DefaultAllowlist["bash"]) \/ Given("bash", cmds[k])
               \/ LikeGiven(cmds, cmds[k])
    <3>1. cmds[k] \in Command
      BY <2>4, LineOf
    <3>2. CASE Matches(cmds[k], Allowlist("bash"))
      BY <2>4, <3>1, <3>2, ListedIsAllowed
    <3>3. CASE ~Matches(cmds[k], Allowlist("bash"))
      <4>1. PICK j \in 1..Len(cmds) :
              /\ SessionPattern(cmds[j]) = SessionPattern(cmds[k]) /\ ~IsSensitive(cmds[j])
              /\ Requires("command", cmds[j], SessionPattern(cmds[j])) \in ShellRequired(cmds)
        BY <2>4, <3>3, FirstAsked
      <4>2. Covers("bash", Requires("command", cmds[j], SessionPattern(cmds[j])))
        BY <2>1, <4>1
      <4>3. PICK p \in CommandPattern :
              /\ [tool |-> "bash", pattern |-> p] \in given
              /\ WildcardMatch(cmds[j], p)
        BY <4>2 DEF Covers, Requires, RulesGiven
      <4> QED
        BY <2>4, <3>1, <4>1, <4>3, LineOf, CoveredByOther
    <3> QED
      BY <3>2, <3>3
  <2>5. ASSUME NEW c \in Range(cmds), IsSensitive(c) \/ HasExec(c)
        PROVE  Given("bash", c)
    BY <2>3, <2>5 DEF Given, MeantBy
  <2>6. \A c \in Range(cmds) : \/ Matches(c, DefaultAllowlist["bash"]) \/ Given("bash", c)
                               \/ LikeGiven(cmds, c)
    BY <2>4, <2>5, LineOf DEF Range
  <2> QED
    BY <2>1, <2>2, <2>3, <2>6 DEF Allowed
<1> QED
  BY <1>2, <1>3, <1>4

-----------------------------------------------------------------------------
(* Each step keeps it *)

\* What a call may require.
LEMMA ShellNeeds ==
  ASSUME NEW cmds \in ShellCall
  PROVE  ShellVerdict(cmds).required \subseteq ShellNeed
<1>1. /\ Range(cmds) \subseteq Command /\ DOMAIN cmds = 1..Len(cmds)
      /\ \A k \in 1..Len(cmds) : cmds[k] \in Command
  BY LineOf
<1>2. \A c \in Command : IsSensitive(c) \/ HasExec(c) => Exact(c) \in CommandPattern
  BY DEF CommandPattern
<1>3. \A c \in Command : SessionPattern(c) \in CommandPattern
  BY DEF CommandPattern
<1>4. ASSUME NEW k \in DOMAIN cmds
      PROVE  Requires("command", cmds[k],
                      IF IsSensitive(cmds[k]) THEN Exact(cmds[k])
                      ELSE SessionPattern(cmds[k])) \in ShellNeed
  BY <1>1, <1>2, <1>3 DEF ShellNeed
<1>5. ASSUME NEW c \in Range(cmds), NEW d \in OutsideDirs(c)
      PROVE  Requires("outside", <<d>>, Exact(<<d>>)) \in ShellNeed
  BY DEF OutsideDirs, ShellNeed, DirNeed
<1>6. ShellRequired(cmds) \subseteq ShellNeed
  BY <1>4, <1>5 DEF ShellRequired
<1>7. ExecRequired(cmds) \subseteq ShellNeed
  BY <1>1, <1>2 DEF ExecRequired, ShellNeed
<1> QED
  BY <1>6, <1>7 DEF ShellVerdict, Verdict

\* What a file may require.
LEMMA FileNeeds ==
  ASSUME NEW marks
  PROVE  FileVerdict(marks).required \subseteq FileNeed
<1>1. PathRequired(marks) \subseteq FileNeed
  BY DEF PathRequired, FileNeed, DirNeed
<1> QED
  BY <1>1 DEF FileVerdict, Verdict

\* A call is of the shell or of a file tool.
LEMMA Calls ==
  ASSUME NEW call \in Call
  PROVE  /\ call = <<call[1], call[2]>> /\ call[1] \in Tool
         /\ call[1] = "bash" => call[2] \in ShellCall
  BY DEF Call, Tool

\* What is not covered of it.
LEMMA CallNeeds ==
  ASSUME NEW call \in Call
  PROVE  /\ call[1] = "bash" => Uncovered(call) \subseteq ShellNeed
         /\ call[1] = "file" => Uncovered(call) \subseteq FileNeed
<1>1. Uncovered(call) \subseteq VerdictOn(call).required
  BY DEF Uncovered
<1> QED
  BY <1>1, Calls, ShellNeeds, FileNeeds DEF VerdictOn

\* The parts of a requirement.
LEMMA Parts ==
  /\ \A r \in ShellNeed : /\ r.pattern \in ShellPattern /\ r.scope \in {"command", "outside"}
                          /\ r.scope = "command" => r.pattern \in CommandPattern
  /\ \A r \in FileNeed : r.pattern \in Pattern /\ r.scope \in {"file", "outside"}
<1>1. Everything \in Pattern
  BY DEF Everything, Pattern, Words
<1>2. DirPattern \subseteq ShellPattern /\ CommandPattern \subseteq ShellPattern
      /\ ShellPattern \subseteq Pattern
  BY Patterns DEF ShellPattern
<1>3. ASSUME NEW r \in DirNeed PROVE r.pattern \in DirPattern /\ r.scope = "outside"
  <2>1. PICK d \in DOMAIN Glob : r = Requires("outside", <<Glob[d]>>, Exact(<<Glob[d]>>))
    BY DEF DirNeed
  <2>2. r.pattern = Exact(<<Glob[d]>>) /\ r.scope = "outside"
    BY <2>1 DEF Requires
  <2> QED
    BY <2>2 DEF DirPattern
<1>4. \A r \in ShellNeed \ DirNeed : r.pattern \in CommandPattern /\ r.scope = "command"
  BY DEF ShellNeed, Requires
<1>5. \A r \in FileNeed \ DirNeed : r.pattern = Everything /\ r.scope = "file"
  BY DEF FileNeed, Requires
<1> QED
  BY <1>1, <1>2, <1>3, <1>4, <1>5

\* Giving more takes nothing away.
LEMMA GivenGrows ==
  ASSUME given \subseteq given'
  PROVE  /\ \A cmds : Allowed(cmds) => Allowed(cmds)'
         /\ \A allow : ListGiven(allow) => ListGiven(allow)'
<1>1. \A t, w : Given(t, w) => Given(t, w)'
  BY DEF Given, MeantBy
<1>2. \A cmds, c : LikeGiven(cmds, c) => LikeGiven(cmds, c)'
  BY DEF LikeGiven
<1>3. \A cmds : Allowed(cmds) => Allowed(cmds)'
  BY <1>1, <1>2 DEF Allowed
<1>4. \A allow : ListGiven(allow) => ListGiven(allow)'
  BY DEF ListGiven
<1> QED
  BY <1>3, <1>4

\* The default list, and no list.
LEMMA Lists ==
  DefaultAllowlist \in [Tool -> SUBSET Words] /\ NoList \in SUBSET Words
<1>1. /\ <<"ls">> \in Words /\ <<"find">> \in Words /\ <<"git", "status">> \in Words
      /\ <<"none">> \in Words
  BY DEF Words, Word
<1> QED
  BY <1>1 DEF DefaultAllowlist, NoList

\* The invariant holds at the start.
LEMMA PermStarts == PermInit => PermInv
<1> SUFFICES ASSUME PermInit PROVE PermInv
  OBVIOUS
<1>1. PICK known \in BOOLEAN :
        toml = [allow |-> [t \in Tool |-> IF known THEN DefaultAllowlist[t] ELSE NoList],
                perm |-> [t \in Tool |-> "ask"]]
  BY DEF PermInit
<1>2. toml.allow["bash"] \in {DefaultAllowlist["bash"], NoList} /\ toml.perm["bash"] = "ask"
  BY <1>1 DEF Tool
<1>3. toml \in Settings
  BY <1>1, Lists DEF Settings
<1>4. SettingTypes
  BY <1>3, PermBounds DEF PermInit, SettingTypes
<1>5. Asking /\ RulesGiven /\ GivenTypes
  BY DEF PermInit, Asking, RulesGiven, GivenTypes
<1>6. ListsGiven /\ ToolGiven
  BY <1>2 DEF PermInit, ListsGiven, ListGiven, ToolGiven
<1>7. NothingRunsUnasked
  BY DEF PermInit, NothingRunsUnasked
<1> QED
  BY <1>4, <1>5, <1>6, <1>7 DEF PermInv

\* A call that runs is allowed; one that does not is put to the user as it is.
LEMMA InvokeKeeps ==
  ASSUME PermInv, NEW call \in Call, Invoke(call)
  PROVE  PermInv'
<1>1. UNCHANGED <<toml, config, rules, granted, watched, given, answers>>
  BY DEF Invoke
<1>2. (SettingTypes /\ RulesGiven /\ ListsGiven /\ ToolGiven /\ GivenTypes)'
  BY <1>1 DEF PermInv, SettingTypes, RulesGiven, ListsGiven, ListGiven, ToolGiven, GivenTypes
<1>3. Asking'
  BY CallNeeds DEF PermInv, Invoke, Asking
<1>4. NothingRunsUnasked'
  <2> SUFFICES ASSUME silent', watched[1] = "bash" PROVE Allowed(watched[2])'
    BY <1>1 DEF NothingRunsUnasked
  <2>1. \/ silent
        \/ call = watched /\ Decision(watched) = "always"
    BY DEF Invoke
  <2>2. CASE silent
    BY <1>1, <2>2, GivenGrows DEF PermInv, NothingRunsUnasked
  <2>3. CASE call = watched /\ Decision(watched) = "always"
    <3>1. watched = <<"bash", watched[2]>> /\ watched[2] \in ShellCall
      BY <2>3, Calls
    <3>2. Allowed(watched[2])
      BY <2>3, <3>1, SilentIsAllowed DEF PermInv
    <3> QED
      BY <1>1, <3>2, GivenGrows
  <2> QED
    BY <2>1, <2>2, <2>3
<1> QED
  BY <1>2, <1>3, <1>4 DEF PermInv

\* An answer for this once changes nothing.
LEMMA OnceKeeps == PermInv /\ AnswerOnce => PermInv'
<1> SUFFICES ASSUME PermInv, AnswerOnce PROVE PermInv'
  OBVIOUS
<1>1. /\ UNCHANGED <<toml, config, rules, granted, watched, silent, given, answers>>
      /\ asked' = NotAsked
  BY DEF AnswerOnce
<1>2. (SettingTypes /\ RulesGiven /\ ListsGiven /\ ToolGiven /\ GivenTypes /\ Asking)'
  BY <1>1 DEF PermInv, SettingTypes, RulesGiven, ListsGiven, ListGiven, ToolGiven, GivenTypes,
              Asking
<1>3. NothingRunsUnasked'
  BY <1>1, GivenGrows DEF PermInv, NothingRunsUnasked
<1> QED
  BY <1>2, <1>3 DEF PermInv

\* A new start has the lists and permissions of the file, and no rules.
LEMMA RestartKeeps == PermInv /\ StartAnew => PermInv'
<1> SUFFICES ASSUME PermInv, StartAnew PROVE PermInv'
  OBVIOUS
<1> DEFINE old == toml.allow["bash"]
           new == IF old = NoList THEN NoList ELSE old \cup {<<"find">>}
<1>1. /\ config' = [toml EXCEPT !.allow["bash"] = new] /\ toml' = config'
      /\ rules' = {} /\ granted' = {} /\ silent' = FALSE /\ answers' = answers + 1
      /\ answers < MaxAnswers /\ UNCHANGED <<asked, watched, given>>
  BY DEF StartAnew
<1>2. toml \in Settings
  BY DEF PermInv, SettingTypes
<1>3. old \in SUBSET Words /\ new \in SUBSET Words
  <2>1. <<"find">> \in Words
    BY DEF Words, Word
  <2> QED
    BY <1>2, <2>1, Lists DEF Settings, Tool
<1> HIDE DEF old, new
<1>4. config' \in Settings /\ config'.allow["bash"] = new /\ config'.perm = toml.perm
  BY <1>1, <1>2, <1>3 DEF Settings, Tool
<1>5. SettingTypes'
  BY <1>1, <1>4, PermBounds DEF PermInv, SettingTypes
<1>6. (Asking /\ RulesGiven /\ ToolGiven /\ GivenTypes /\ NothingRunsUnasked)'
  BY <1>1, <1>4 DEF PermInv, Asking, RulesGiven, ToolGiven, GivenTypes, NothingRunsUnasked
<1>7. ListsGiven'
  <2>1. ListGiven(old)
    BY DEF PermInv, ListsGiven, old
  <2>2. <<"find">> \in DefaultAllowlist["bash"]
    BY DEF DefaultAllowlist, Tool
  <2>3. ListGiven(new)
    BY <2>1, <2>2 DEF ListGiven, new
  <2> QED
    BY <1>1, <1>4, <2>3 DEF ListsGiven, ListGiven
<1> QED
  BY <1>5, <1>6, <1>7 DEF PermInv

\* An answer for the tool as a whole.
LEMMA WholeKeeps ==
  ASSUME PermInv, NEW save \in BOOLEAN, AnswerAlways(save), asked.required = {}
  PROVE  PermInv'
<1> DEFINE t == asked.call[1]
<1>1. /\ asked # NotAsked /\ asked' = NotAsked /\ answers' = answers + 1 /\ answers < MaxAnswers
      /\ given' = given \cup {[tool |-> t, pattern |-> Everything]} /\ granted' = granted \cup {t}
      /\ toml' = IF save THEN [toml EXCEPT !.perm[t] = "always"] ELSE toml
      /\ UNCHANGED <<rules, config, watched, silent>>
  BY DEF AnswerAlways
<1>2. t \in Tool
  BY <1>1, Calls DEF PermInv, Asking
<1> HIDE DEF t
<1>3. /\ toml \in Settings /\ config \in Settings
  BY DEF PermInv, SettingTypes
<1>4. /\ toml' \in Settings /\ toml'.allow = toml.allow
      /\ \A u \in Tool \ {t} : toml'.perm[u] = toml.perm[u]
  <2>1. CASE save
    BY <1>1, <1>2, <1>3, <2>1 DEF Settings
  <2>2. CASE ~save
    BY <1>1, <1>3, <2>2
  <2> QED
    BY <2>1, <2>2
<1>5. SettingTypes'
  BY <1>1, <1>2, <1>3, <1>4, PermBounds DEF PermInv, SettingTypes
<1>6. Asking' /\ RulesGiven'
  BY <1>1 DEF PermInv, Asking, RulesGiven
<1>7. GivenTypes'
  <2>1. Everything \in Pattern
    BY DEF Everything, Pattern, Words
  <2> QED
    BY <1>1, <1>2, <2>1 DEF PermInv, GivenTypes
<1>8. ListsGiven'
  BY <1>1, <1>4 DEF PermInv, ListsGiven, ListGiven
<1>9. ToolGiven'
  <2>1. CASE t = "bash"
    BY <1>1, <2>1 DEF ToolGiven
  <2>2. CASE t # "bash"
    BY <1>1, <1>4, <2>2 DEF ToolGiven, PermInv, Tool
  <2> QED
    BY <2>1, <2>2
<1>10. NothingRunsUnasked'
  BY <1>1, GivenGrows DEF PermInv, NothingRunsUnasked
<1> QED
  BY <1>5, <1>6, <1>7, <1>8, <1>9, <1>10 DEF PermInv

\* An answer for the patterns that were asked for.
LEMMA PatternsKeep ==
  ASSUME PermInv, NEW save \in BOOLEAN, AnswerAlways(save), asked.required # {}
  PROVE  PermInv'
<1> DEFINE t == asked.call[1]
           need == asked.required
           allow == Added(t, {r.pattern : r \in need})
<1>1. /\ asked # NotAsked /\ asked' = NotAsked /\ answers' = answers + 1 /\ answers < MaxAnswers
      /\ given' = given \cup {[tool |-> t, pattern |-> r.pattern] : r \in need}
      /\ rules' = rules \cup {[tool |-> t, scope |-> r.scope, pattern |-> r.pattern] : r \in need}
      /\ toml' = IF save THEN [toml EXCEPT !.allow[t] = allow] ELSE toml
      /\ config' = IF save THEN [config EXCEPT !.allow[t] = allow] ELSE config
      /\ UNCHANGED <<granted, watched, silent>>
  BY DEF AnswerAlways
<1>2. /\ t \in Tool /\ (t = "bash" => need \subseteq ShellNeed)
      /\ (t = "file" => need \subseteq FileNeed)
  BY <1>1, Calls DEF PermInv, Asking
<1>3. \A r \in need : /\ r.pattern \in Pattern /\ r.scope \in {"command", "outside", "file"}
                      /\ t = "bash" => r.pattern \in ShellPattern
                      /\ t = "bash" /\ r.scope = "command" => r.pattern \in CommandPattern
  BY <1>2, Parts, Patterns DEF Tool
<1>4. toml \in Settings /\ config \in Settings
  BY DEF PermInv, SettingTypes
<1>5. allow = (IF config.allow[t] = NoList THEN {} ELSE config.allow[t])
              \cup {r.pattern.words : r \in need}
  BY DEF Added
<1> HIDE DEF t, need, allow
<1>6. allow \in SUBSET Words
  BY <1>2, <1>3, <1>4, <1>5 DEF Pattern, Settings
<1>7. /\ toml' \in Settings /\ config' \in Settings
      /\ toml'.perm = toml.perm /\ config'.perm = config.perm
      /\ toml'.allow["bash"] \in {toml.allow["bash"],
                                  IF t = "bash" THEN allow ELSE toml.allow["bash"]}
      /\ config'.allow["bash"] \in {config.allow["bash"],
                                    IF t = "bash" THEN allow ELSE config.allow["bash"]}
  BY <1>1, <1>2, <1>4, <1>6 DEF Settings, Tool
<1>8. SettingTypes'
  BY <1>1, <1>7, PermBounds DEF PermInv, SettingTypes
<1>9. Asking' /\ ToolGiven'
  BY <1>1, <1>7 DEF PermInv, Asking, ToolGiven
<1>10. GivenTypes'
  BY <1>1, <1>2, <1>3 DEF PermInv, GivenTypes
<1>11. RulesGiven'
  BY <1>1, <1>2, <1>3 DEF PermInv, RulesGiven
<1>12. ListsGiven'
  <2> DEFINE Held(a) == \A w \in a : \/ w \in DefaultAllowlist["bash"]
                                     \/ \E p \in ShellPattern :
                                          p.words = w /\ [tool |-> "bash", pattern |-> p] \in given'
  <2>1. /\ toml.allow["bash"] = NoList \/ Held(toml.allow["bash"])
        /\ config.allow["bash"] = NoList \/ Held(config.allow["bash"])
    BY <1>1 DEF PermInv, ListsGiven, ListGiven
  <2>2. ASSUME t = "bash" PROVE Held(allow)
    <3>1. \A r \in need : /\ r.pattern \in ShellPattern
                          /\ [tool |-> "bash", pattern |-> r.pattern] \in given'
      BY <1>1, <1>3, <2>2
    <3>2. ASSUME NEW w \in allow
          PROVE  \/ w \in DefaultAllowlist["bash"]
                 \/ \E p \in ShellPattern :
                      p.words = w /\ [tool |-> "bash", pattern |-> p] \in given'
      <4>1. CASE \E r \in need : w = r.pattern.words
        BY <3>1, <4>1
      <4>2. CASE config.allow["bash"] # NoList /\ w \in config.allow["bash"]
        BY <2>1, <4>2
      <4> QED
        BY <1>5, <2>2, <3>2, <4>1, <4>2
    <3> QED
      BY <3>2
  <2> HIDE DEF Held
  <2>3. /\ toml'.allow["bash"] = NoList \/ Held(toml'.allow["bash"])
        /\ config'.allow["bash"] = NoList \/ Held(config'.allow["bash"])
    BY <1>7, <2>1, <2>2
  <2> QED
    BY <2>3 DEF ListsGiven, ListGiven, Held
<1>13. NothingRunsUnasked'
  BY <1>1, GivenGrows DEF PermInv, NothingRunsUnasked
<1> QED
  BY <1>8, <1>9, <1>10, <1>11, <1>12, <1>13 DEF PermInv

\* The invariant holds.
LEMMA PermInvariant == PermSpec => []PermInv
<1>1. ASSUME PermInv, [PermNext]_permVars PROVE PermInv'
  <2>1. CASE UNCHANGED permVars
    <3>1. (SettingTypes /\ Asking /\ RulesGiven /\ ListsGiven /\ ToolGiven /\ GivenTypes)'
      BY <1>1, <2>1 DEF permVars, PermInv, SettingTypes, Asking, RulesGiven, ListsGiven, ListGiven,
                        ToolGiven, GivenTypes
    <3>2. NothingRunsUnasked'
      BY <1>1, <2>1, GivenGrows DEF permVars, PermInv, NothingRunsUnasked
    <3> QED
      BY <3>1, <3>2 DEF PermInv
  <2>2. ASSUME NEW call \in Call, Invoke(call) PROVE PermInv'
    BY <1>1, <2>2, InvokeKeeps
  <2>3. CASE AnswerOnce
    BY <1>1, <2>3, OnceKeeps
  <2>4. CASE StartAnew
    BY <1>1, <2>4, RestartKeeps
  <2>5. ASSUME NEW save \in BOOLEAN, AnswerAlways(save) PROVE PermInv'
    BY <1>1, <2>5, WholeKeeps, PatternsKeep
  <2> QED
    BY <1>1, <2>1, <2>2, <2>3, <2>4, <2>5 DEF PermNext
<1> QED
  BY PermStarts, <1>1, PTL DEF PermSpec

-----------------------------------------------------------------------------
(* The second invariant: what stays allowed *)

\* The settings have one list for each tool, in memory and in the file; a permission for a
\* whole tool that is saved holds now, too.
PermNow ==
  /\ toml.allow = config.allow
  /\ \A t \in Tool : toml.perm[t] = "always" => t \in granted \/ config.perm[t] = "always"
  /\ ~displaced => DefaultAllowlist["bash"] \subseteq Allowlist("bash")

\* What the user is asked is what is not covered now.
AskedNow ==
  asked # NotAsked => /\ Decision(asked.call) = "ask"
                      /\ asked.required = Uncovered(asked.call)

\* What has to be saved for a call, so that it runs after a restart; not all calls of the
\* shell tool can.
SavedLine(cmds) ==
  \/ \E c \in Range(cmds) : IsSensitive(c) \/ HasExec(c) \/ OutsideDirs(c) # {}
  \/ /\ \A c \in Range(cmds) : ~IsDenied(c)
     /\ \/ toml.perm["bash"] = "always"
        \/ cmds # <<>> /\ \A c \in Range(cmds) : Matches(c, Allowlist("bash"))
SavedPath(marks) ==
  \/ \E d \in marks \cap DOMAIN Glob : Glob[d] \in Bracketed
  \/ "scratchpad" \in marks \/ PathAllowed(marks)
  \/ PathRequired(marks) = {} /\ toml.perm["file"] = "always"
SavedFor(call) == IF call[1] = "bash" THEN SavedLine(call[2]) ELSE SavedPath(call[2])
SavedHolds == lasting /\ ~displaced => SavedFor(watched)

\* No setting is taken back.
ListsGrow == \A t \in Tool : Allowlist(t) \subseteq Allowlist(t)'
SettingsGrow ==
  /\ granted \subseteq granted' /\ \A t \in Tool : config'.perm[t] = config.perm[t]
  /\ ListsGrow

\* A longer list matches no less.
LEMMA MatchesMore ==
  ASSUME NEW c, NEW p, NEW q, p \subseteq q, Matches(c, p)
  PROVE  Matches(c, q)
BY DEF Matches

\* All that a call requires is covered after the step.
CoveredAfter(call) == \A r \in VerdictOn(call).required : Covers(call[1], r)'
SettledAfter(call) ==
  \/ VerdictOn(call).level = "always"
  \/ VerdictOn(call).level = "ask" /\ VerdictOn(call).required # {} /\ CoveredAfter(call)

\* A list that runs as a whole goes on to.
LEMMA UnconditionallyStill ==
  ASSUME SettingsGrow, NEW cmds, Unconditionally(cmds)
  PROVE  Unconditionally(cmds)'
<1>1. Permission("bash") = "always" => (Permission("bash") = "always")'
  BY DEF Permission, SettingsGrow, Tool
<1>2. \A c : Matches(c, Allowlist("bash")) => Matches(c, Allowlist("bash"))'
  BY MatchesMore DEF SettingsGrow, ListsGrow, Tool, Matches
<1> QED
  BY <1>1, <1>2 DEF Unconditionally

\* A name of the default list is its own pattern.
LEMMA DefaultNames ==
  ASSUME NEW w \in DefaultAllowlist["bash"]
  PROVE  w \in Command /\ SessionPattern(w).words = w
<1>1. w \in {<<"ls">>, <<"find">>, <<"git", "status">>}
  BY DEF DefaultAllowlist, Tool
<1>2. /\ w \in Words /\ w # <<>> /\ w[1] \in {"ls", "find", "git"} /\ Len(w) \in {1, 2}
      /\ Len(w) = 1 => w[1] \in {"ls", "find"}
      /\ Len(w) = 2 => w[1] = "git" /\ w[2] = "status"
  <2>1. CASE w = <<"ls">>
    BY <2>1 DEF Words, Word
  <2>2. CASE w = <<"find">>
    BY <2>2 DEF Words, Word
  <2>3. CASE w = <<"git", "status">>
    <3>1. w \in Words
      BY <2>3 DEF Words, Word
    <3>2. Len(w) = 2 /\ w[1] = "git" /\ w[2] = "status" /\ w # <<>>
      BY <2>3
    <3> QED
      BY <3>1, <3>2
  <2> QED
    BY <1>1, <2>1, <2>2, <2>3
<1>3. w \in Command
  BY <1>2 DEF Command, NoNames, Class
<1>4. Shorter(w) = Len(w)
  BY <1>2 DEF Shorter, NameLength
<1>5. /\ Len(SessionPattern(w).words) = Len(w) /\ SessionPattern(w).words \in Words
      /\ \A i \in 1..Len(w) : SessionPattern(w).words[i] = w[i]
  BY <1>2, <1>4, PatternOf
<1>6. SessionPattern(w).words = w
  BY <1>2, <1>5, SameWords
<1> QED
  BY <1>3, <1>6

\* A list that holds what is asked for and the names of the default one lists a command with
\* the others of its pattern.
LEMMA ListedTogether ==
  ASSUME NEW allow, DefaultAllowlist["bash"] \subseteq allow,
         \A w \in allow : w \in DefaultAllowlist["bash"] \/ \E p \in ShellPattern : p.words = w,
         NEW b \in Command, NEW c \in Command, SessionPattern(b) = SessionPattern(c),
         ~IsSensitive(b), Matches(b, allow)
  PROVE  Matches(c, allow)
<1>1. PICK w \in allow : IsPrefix(w, b)
  BY DEF Matches
<1>2. b \in Words /\ b # <<>> /\ b[1] \notin NoNames /\ c[1] = b[1]
  BY SameName DEF Command
<1>3. ASSUME NEW a \in Command, w = SessionPattern(a).words PROVE Matches(c, allow)
  <2>1. IsPrefix(w, c)
    BY <1>1, <1>3, SamePattern
  <2> QED
    BY <2>1 DEF Matches
<1>4. CASE w \in DefaultAllowlist["bash"]
  BY <1>3, <1>4, DefaultNames
<1>5. ASSUME NEW a \in Command, w = Exact(a).words, IsSensitive(a) \/ HasExec(a)
      PROVE  Matches(c, allow)
  <2>1. w \in Words /\ Len(w) \in Nat \ {0} /\ w[1] = a[1]
    BY <1>5, PatternName DEF Pattern
  <2>2. b[1] = a[1]
    BY <1>1, <1>2, <2>1, PrefixAt
  <2>3. c[1] = "find"
    BY <1>2, <1>5, <2>2 DEF HasExec, IsSensitive
  <2> QED
    BY <2>3, SearchListed DEF Matches
<1>6. ASSUME NEW d \in DOMAIN Glob, w = Exact(<<Glob[d]>>).words PROVE FALSE
  <2> DEFINE v == <<Glob[d]>>
  <2>1. /\ v \in Words /\ Len(v) = 1 /\ v[1] \in NoNames
        /\ Exact(v) = [words |-> v, open |-> FALSE]
    BY Globs
  <2>0. w = Exact(v).words
    BY <1>6
  <2> HIDE DEF v
  <2>2. w = v
    BY <2>0, <2>1
  <2>3. w \in Words /\ Len(w) = 1 /\ w[1] \in NoNames
    BY <2>1, <2>2
  <2>4. w[1] = b[1]
    <3>1. \A i \in 1..Len(w) : w[i] = b[i]
      BY <1>1, <1>2, <2>3, PrefixAt
    <3>2. 1 \in 1..Len(w)
      BY <2>3
    <3> QED
      BY <3>1, <3>2
  <2> QED
    BY <1>2, <2>3, <2>4
<1>7. CASE w \notin DefaultAllowlist["bash"]
  <2>1. PICK p \in ShellPattern : p.words = w
    BY <1>7
  <2>2. CASE p \in CommandPattern
    BY <1>3, <1>5, <2>1, <2>2, Patterns
  <2>3. CASE p \in DirPattern
    BY <1>6, <2>1, <2>3 DEF DirPattern
  <2> QED
    BY <2>2, <2>3 DEF ShellPattern
<1> QED
  BY <1>4, <1>7

\* A step that takes nothing off the list adds nothing to what a line requires.
LEMMA FewerRequired ==
  ASSUME PermNow, SettingsGrow, ListsGiven', ~displaced, NEW cmds \in ShellCall
  PROVE  ShellRequired(cmds)' \subseteq ShellRequired(cmds)
<1>1. /\ Len(cmds) \in Nat /\ DOMAIN cmds = 1..Len(cmds)
      /\ \A k \in 1..Len(cmds) : cmds[k] \in Command
  BY LineOf
<1>2. \A c : Matches(c, Allowlist("bash")) => Matches(c, Allowlist("bash"))'
  BY DEF SettingsGrow, ListsGrow, Tool, Matches
<1>3. DefaultAllowlist["bash"] \subseteq Allowlist("bash")'
  BY DEF PermNow, SettingsGrow, ListsGrow, Tool
<1>4. \A w \in Allowlist("bash")' : \/ w \in DefaultAllowlist["bash"]
                                    \/ \E p \in ShellPattern : p.words = w
  BY DEF ListsGiven, ListGiven, Allowlist
<1>5. ASSUME NEW k \in 1..Len(cmds), ~IsSensitive(cmds[k]),
             ~Matches(cmds[k], Allowlist("bash"))', ~Repeated(cmds, k)'
      PROVE  Requires("command", cmds[k], SessionPattern(cmds[k])) \in ShellRequired(cmds)
  <2>1. ASSUME NEW j \in 1..(k - 1), ~IsSensitive(cmds[j]),
               SessionPattern(cmds[j]) = SessionPattern(cmds[k])
        PROVE  Matches(cmds[j], Allowlist("bash"))
    <3>1. j \in 1..Len(cmds)
      BY <1>1
    <3>2. Matches(cmds[j], Allowlist("bash"))'
      BY <1>5, <2>1 DEF Repeated
    <3>3. Matches(cmds[k], Allowlist("bash"))'
      <4> DEFINE allow == Allowlist("bash")'
      <4>1. Matches(cmds[j], allow)
        BY <3>2 DEF Matches
      <4> HIDE DEF allow
      <4>2. DefaultAllowlist["bash"] \subseteq allow
        BY <1>3 DEF allow
      <4>3. \A w \in allow : w \in DefaultAllowlist["bash"] \/ \E p \in ShellPattern : p.words = w
        BY <1>4 DEF allow
      <4>4. Matches(cmds[k], allow)
        BY <1>1, <1>5, <2>1, <3>1, <4>1, <4>2, <4>3, ListedTogether
      <4> QED
        BY <4>4 DEF Matches, allow
    <3> QED
      BY <1>5, <3>3
  <2>2. ~Repeated(cmds, k)
    BY <2>1 DEF Repeated
  <2>3. ~Matches(cmds[k], Allowlist("bash"))
    BY <1>2, <1>5
  <2> QED
    BY <1>1, <1>5, <2>2, <2>3 DEF ShellRequired
<1>6. ASSUME NEW k \in 1..Len(cmds), IsSensitive(cmds[k])
      PROVE  Requires("command", cmds[k], Exact(cmds[k])) \in ShellRequired(cmds)
  BY <1>1, <1>6 DEF ShellRequired
<1>7. ASSUME NEW c \in Range(cmds), NEW d \in OutsideDirs(c)
      PROVE  Requires("outside", <<d>>, Exact(<<d>>)) \in ShellRequired(cmds)
  BY DEF ShellRequired
<1> QED
  BY <1>1, <1>5, <1>6, <1>7 DEF ShellRequired

\* A line that is not allowed as a whole after the step requires something then.
LEMMA SomethingRequired ==
  ASSUME NEW cmds \in ShellCall, ShellRequired(cmds)' \cup ExecRequired(cmds) = {}
  PROVE  Unconditionally(cmds)'
<1>1. Len(cmds) \in Nat /\ DOMAIN cmds = 1..Len(cmds)
  BY LineOf
<1>2. \A c \in Range(cmds) : ~HasExec(c) /\ ~IsSensitive(c) /\ OutsideDirs(c) = {}
  <2>1. \A k \in DOMAIN cmds : ~IsSensitive(cmds[k])
    BY DEF ShellRequired
  <2>2. \A c \in Range(cmds) : ~HasExec(c) /\ OutsideDirs(c) = {}
    BY DEF ShellRequired, ExecRequired
  <2> QED
    BY <2>1, <2>2 DEF Range
<1>3. ASSUME NEW k \in 1..Len(cmds), ~Matches(cmds[k], Allowlist("bash"))' PROVE FALSE
  <2> DEFINE new == {j \in 1..Len(cmds) : ~Matches(cmds[j], Allowlist("bash"))'}
  <2>1. k \in new /\ new \subseteq Nat
    BY <1>1, <1>3
  <2>2. PICK j \in new : \A i \in new : j <= i
    BY <2>1, LeastNatural
  <2>3. ~Repeated(cmds, j)'
    BY <1>1, <2>2 DEF Repeated
  <2>4. Requires("command", cmds[j], IF IsSensitive(cmds[j]) THEN Exact(cmds[j])
                                     ELSE SessionPattern(cmds[j])) \in ShellRequired(cmds)'
    BY <1>1, <2>2, <2>3 DEF ShellRequired
  <2> QED
    BY <2>4
<1> QED
  BY <1>1, <1>2, <1>3 DEF Unconditionally, Range

\* A line that is allowed, or all of which is covered after the step, runs then.
LEMMA LineStill ==
  ASSUME PermNow, SettingsGrow, ListsGiven', ~displaced, NEW cmds \in ShellCall,
         SettledAfter(<<"bash", cmds>>)
  PROVE  (Decision(<<"bash", cmds>>) = "always")'
<1> DEFINE call == <<"bash", cmds>>
<1>1. VerdictOn(call) = ShellVerdict(cmds) /\ (VerdictOn(call) = ShellVerdict(cmds))'
  BY DEF VerdictOn
<1>2. CASE cmds = <<>>
  <2>0. Range(cmds) = {}
    BY <1>2 DEF Range
  <2>1. ShellVerdict(cmds) = Verdict(Permission("bash"), {})
    BY <1>2, <2>0 DEF ShellVerdict
  <2>4. ShellVerdict(cmds)' = Verdict(Permission("bash")', {})
    BY <1>2, <2>0 DEF ShellVerdict
  <2>2. Permission("bash") = "always"
    BY <1>1, <2>1 DEF SettledAfter, Verdict
  <2>3. Permission("bash")' = "always"
    BY <2>2 DEF Permission, SettingsGrow, Tool
  <2> QED
    BY <1>1, <2>3, <2>4 DEF Decision, Verdict
<1>3. CASE cmds # <<>> /\ ~ (\A c \in Range(cmds) : ~IsDenied(c))
  BY <1>1, <1>3 DEF ShellVerdict, Verdict, SettledAfter
<1>4. CASE cmds # <<>> /\ (\A c \in Range(cmds) : ~IsDenied(c)) /\ Unconditionally(cmds)'
  BY <1>1, <1>4 DEF ShellVerdict, Verdict, Decision
<1>5. CASE cmds # <<>> /\ (\A c \in Range(cmds) : ~IsDenied(c)) /\ ~Unconditionally(cmds)'
  <2>1. ~Unconditionally(cmds)
    BY <1>5, UnconditionallyStill
  <2>2. /\ ShellVerdict(cmds) = Verdict("ask", ShellRequired(cmds) \cup ExecRequired(cmds))
        /\ ShellVerdict(cmds)' = Verdict("ask", ShellRequired(cmds)' \cup ExecRequired(cmds))
    BY <1>5, <2>1 DEF ShellVerdict, ExecRequired
  <2>3. \A r \in ShellRequired(cmds) \cup ExecRequired(cmds) : Covers("bash", r)'
    BY <1>1, <2>2 DEF SettledAfter, CoveredAfter, Verdict
  <2>4. \A r \in ShellRequired(cmds)' : Covers("bash", r)'
    BY <2>3, FewerRequired
  <2>5. ShellRequired(cmds)' \cup ExecRequired(cmds) # {}
    BY <1>5, SomethingRequired
  <2> QED
    BY <1>1, <2>2, <2>3, <2>4, <2>5 DEF Decision, Uncovered, Verdict
<1> QED
  BY <1>2, <1>3, <1>4, <1>5

\* So does a call of a file tool.
LEMMA PathStill ==
  ASSUME SettingsGrow, NEW marks, SettledAfter(<<"file", marks>>)
  PROVE  (Decision(<<"file", marks>>) = "always")'
<1> DEFINE call == <<"file", marks>>
<1>1. VerdictOn(call) = FileVerdict(marks) /\ (VerdictOn(call) = FileVerdict(marks))'
  BY DEF VerdictOn
<1>2. PathAllowed(marks) => PathAllowed(marks)'
  BY DEF PathAllowed, SettingsGrow, ListsGrow, Tool
<1>3. CASE "scratchpad" \in marks \/ PathAllowed(marks)'
  <2>1. (VerdictOn(call) = Verdict("always", {}))'
    BY <1>1, <1>3 DEF FileVerdict
  <2> QED
    BY <2>1 DEF Decision, Verdict
<1>4. CASE ~("scratchpad" \in marks \/ PathAllowed(marks)') /\ PathRequired(marks) # {}
  <2>1. VerdictOn(call) = Verdict("ask", PathRequired(marks))
    BY <1>1, <1>2, <1>4 DEF FileVerdict
  <2>2. (VerdictOn(call) = Verdict("ask", PathRequired(marks)))'
    BY <1>1, <1>4 DEF FileVerdict, PathRequired
  <2>3. \A r \in PathRequired(marks) : Covers("file", r)'
    BY <2>1 DEF SettledAfter, CoveredAfter, Verdict
  <2> QED
    BY <1>4, <2>2, <2>3 DEF Decision, Uncovered, Verdict
<1>5. CASE ~("scratchpad" \in marks \/ PathAllowed(marks)') /\ PathRequired(marks) = {}
  <2>1. VerdictOn(call) = Verdict(Permission("file"), {})
    BY <1>1, <1>2, <1>5 DEF FileVerdict
  <2>2. (VerdictOn(call) = Verdict(Permission("file"), {}))'
    BY <1>1, <1>5 DEF FileVerdict, PathRequired
  <2>3. Permission("file") = "always"
    BY <2>1 DEF SettledAfter, Verdict
  <2>4. Permission("file")' = "always"
    BY <2>3 DEF Permission, SettingsGrow, Tool
  <2> QED
    BY <2>2, <2>4 DEF Decision, Verdict
<1> QED
  BY <1>3, <1>4, <1>5

\* A call that is allowed, or all of which is now covered, runs without a question.
LEMMA StillAlways ==
  ASSUME PermNow, SettingsGrow, ListsGiven', ~displaced, NEW call \in Call, SettledAfter(call)
  PROVE  Decision(call)' = "always"
<1>1. CASE call[1] = "bash"
  <2>1. call = <<"bash", call[2]>> /\ call[2] \in ShellCall
    BY <1>1, Calls
  <2> QED
    BY <2>1, LineStill
<1>2. CASE call[1] = "file"
  <2>1. call = <<"file", call[2]>>
    BY <1>2, Calls
  <2> QED
    BY <2>1, PathStill
<1> QED
  BY <1>1, <1>2, Calls DEF Tool

\* A call that is allowed stays so while rules are only added.
LEMMA AllowedIsSettled ==
  ASSUME rules \subseteq rules', NEW call, Decision(call) = "always"
  PROVE  SettledAfter(call)
<1>1. CASE VerdictOn(call).level = "always"
  BY <1>1 DEF SettledAfter
<1>2. CASE VerdictOn(call).level # "always"
  <2>1. VerdictOn(call).level = "ask" /\ VerdictOn(call).required # {} /\ Uncovered(call) = {}
    BY <1>2 DEF Decision
  <2>2. \A r \in VerdictOn(call).required : Covers(call[1], r)
    BY <2>1 DEF Uncovered
  <2>3. CoveredAfter(call)
    BY <2>2 DEF CoveredAfter, Covers
  <2> QED
    BY <2>1, <2>3 DEF SettledAfter
<1> QED
  BY <1>1, <1>2

-----------------------------------------------------------------------------
(* Each step keeps it *)

\* What a pattern is not: the mark for no list.
LEMMA NeverNoList ==
  /\ \A p \in ShellPattern : p.words # <<"none">>
  /\ \A r \in FileNeed : r.pattern.words # <<"none">>
<1>1. ASSUME NEW p \in CommandPattern PROVE p.words # <<"none">>
  <2>1. PICK c \in Command : p = SessionPattern(c) \/ p = Exact(c)
    BY Patterns
  <2>2. p.words[1] = c[1] /\ c[1] # "none"
    BY <2>1, PatternName DEF Command, NoNames
  <2> QED
    BY <2>2
<1>2. ASSUME NEW d \in DOMAIN Glob PROVE Exact(<<Glob[d]>>).words # <<"none">>
  <2>1. Exact(<<Glob[d]>>) = [words |-> <<Glob[d]>>, open |-> FALSE] /\ Glob[d] # "none"
    BY Globs
  <2> QED
    BY <2>1
<1>3. \A p \in DirPattern : p.words # <<"none">>
  BY <1>2 DEF DirPattern
<1>4. ASSUME NEW r \in FileNeed PROVE r.pattern.words # <<"none">>
  <2>1. CASE r = Requires("file", <<"name">>, Everything)
    BY <2>1 DEF Requires, Everything
  <2>2. ASSUME NEW d \in DOMAIN Glob, r = Requires("outside", <<Glob[d]>>, Exact(<<Glob[d]>>))
        PROVE  r.pattern.words # <<"none">>
    <3>1. r.pattern = Exact(<<Glob[d]>>)
      BY <2>2 DEF Requires
    <3> QED
      BY <1>2, <3>1
  <2> QED
    BY <2>1, <2>2 DEF FileNeed, DirNeed
<1> QED
  BY <1>1, <1>3, <1>4 DEF ShellPattern

\* An answer takes back no setting, unless a saved list takes the default one's place; what
\* is saved is on the list then.
LEMMA AnswerGrows ==
  ASSUME PermInv, NEW save \in BOOLEAN, AnswerAlways(save), ~displaced',
         NEW t, t = asked.call[1]
  PROVE  /\ SettingsGrow /\ rules \subseteq rules'
         /\ save => \A r \in asked.required : r.pattern.words \in Allowlist(t)'
<1> DEFINE need == asked.required
           allow == Added(t, {r.pattern : r \in need})
<1>1. /\ asked # NotAsked /\ asked.call \in Call /\ t \in Tool
      /\ t = "bash" => need \subseteq ShellNeed
      /\ t = "file" => need \subseteq FileNeed
  BY Calls DEF PermInv, Asking, AnswerAlways
<1>2. toml \in Settings /\ config \in Settings
  BY DEF PermInv, SettingTypes
<1>3. CASE need = {}
  <2>1. UNCHANGED <<config, rules>> /\ granted \subseteq granted'
    BY <1>3 DEF AnswerAlways
  <2> QED
    BY <1>3, <2>1 DEF SettingsGrow, ListsGrow, Allowlist
<1>4. CASE need # {} /\ ~save
  <2>1. UNCHANGED <<config, granted>> /\ rules \subseteq rules'
    BY <1>4 DEF AnswerAlways
  <2> QED
    BY <1>4, <2>1 DEF SettingsGrow, ListsGrow, Allowlist
<1>5. CASE need # {} /\ save
  <2>1. /\ config' = [config EXCEPT !.allow[t] = allow] /\ granted' = granted
        /\ rules \subseteq rules' /\ Allowlist(t) \subseteq allow
    BY <1>5 DEF AnswerAlways
  <2>2. \A r \in need : r.pattern.words \in allow /\ r.pattern.words # <<"none">>
    <3>1. \A r \in need : r.pattern.words # <<"none">>
      BY <1>1, NeverNoList, Parts DEF Tool
    <3> QED
      BY <3>1 DEF Added
  <2> HIDE DEF need, allow
  <2>3. allow # NoList
    BY <1>5, <2>2 DEF NoList
  <2>4. /\ config'.perm = config.perm /\ config'.allow[t] = allow
        /\ \A u \in Tool \ {t} : config'.allow[u] = config.allow[u]
    BY <1>1, <1>2, <2>1 DEF Settings
  <2>5. Allowlist(t)' = allow
    BY <2>3, <2>4 DEF Allowlist
  <2>6. ListsGrow
    BY <2>1, <2>4, <2>5 DEF ListsGrow, Allowlist
  <2>7. SettingsGrow
    BY <2>1, <2>4, <2>6 DEF SettingsGrow
  <2> QED
    BY <2>1, <2>2, <2>5, <2>7 DEF need
<1> QED
  BY <1>3, <1>4, <1>5

\* The second invariant.
PermHist == PermNow /\ AskedNow /\ AskedOnce /\ SavedHolds

\* Decisions are those of the settings and the rules.
LEMMA DecisionSame ==
  ASSUME UNCHANGED <<config, rules, granted>>
  PROVE  /\ \A t : Allowlist(t)' = Allowlist(t)
         /\ \A call : Decision(call)' = Decision(call) /\ Uncovered(call)' = Uncovered(call)
<1>1. \A t : Allowlist(t)' = Allowlist(t) /\ Permission(t)' = Permission(t)
  BY DEF Allowlist, Permission
<1>2. \A cmds : ShellRequired(cmds)' = ShellRequired(cmds)
  BY <1>1 DEF ShellRequired, Repeated
<1>3. \A cmds : Unconditionally(cmds)' = Unconditionally(cmds)
  BY <1>1 DEF Unconditionally
<1>4. \A cmds : ShellVerdict(cmds)' = ShellVerdict(cmds)
  BY <1>1, <1>2, <1>3 DEF ShellVerdict, ExecRequired
<1>5. \A marks : FileVerdict(marks)' = FileVerdict(marks)
  BY <1>1 DEF FileVerdict, PathAllowed, PathRequired
<1>6. \A call : VerdictOn(call)' = VerdictOn(call)
  BY <1>4, <1>5 DEF VerdictOn
<1>7. \A call : Uncovered(call)' = Uncovered(call)
  BY <1>6 DEF Uncovered, Covers
<1>8. \A call : Decision(call)' = Decision(call)
  BY <1>6, <1>7 DEF Decision
<1> QED
  BY <1>1, <1>7, <1>8

\* A decision is one of three.
LEMMA ThreeDecisions ==
  ASSUME SettingTypes, NEW call \in Call
  PROVE  Decision(call) \in {"always", "never", "ask"}
<1>1. \A t \in Tool : Permission(t) \in {"always", "ask"}
  BY DEF Permission, SettingTypes, Settings
<1>2. \A cmds : ShellVerdict(cmds).level \in {"always", "never", "ask"}
  BY <1>1 DEF ShellVerdict, Verdict, Tool
<1>3. \A marks : FileVerdict(marks).level \in {"always", "never", "ask"}
  BY <1>1 DEF FileVerdict, Verdict, Tool
<1> QED
  BY <1>2, <1>3 DEF Decision, VerdictOn

\* What is saved for a call stays saved.
LEMMA SavedGrows ==
  ASSUME ListsGrow, \A t \in Tool : toml.perm[t] = "always" => toml'.perm[t] = "always",
         NEW call, SavedFor(call)
  PROVE  SavedFor(call)'
<1>1. SavedLine(call[2]) => SavedLine(call[2])'
  <2>1. \A c : Matches(c, Allowlist("bash")) => Matches(c, Allowlist("bash"))'
    BY DEF ListsGrow, Tool, Matches
  <2> QED
    BY <2>1 DEF SavedLine, Tool
<1>2. SavedPath(call[2]) => SavedPath(call[2])'
  BY DEF SavedPath, PathAllowed, PathRequired, ListsGrow, Tool
<1> QED
  BY <1>1, <1>2 DEF SavedFor

\* An answer that is saved, for all that the call requires.
LEMMA LineSaved ==
  ASSUME PermInv, AskedNow, AnswerAlways(TRUE), ~displaced', NEW cmds \in ShellCall,
         asked.call = <<"bash", cmds>>, asked.required = ShellVerdict(cmds).required
  PROVE  SavedLine(cmds)'
<1>0. asked.call[1] = "bash" /\ TRUE \in BOOLEAN
  OBVIOUS
<1>1. /\ SettingsGrow
      /\ \A r \in asked.required : r.pattern.words \in Allowlist("bash")'
  BY <1>0, AnswerGrows
<1>2. SUFFICES ASSUME \A c \in Range(cmds) : ~IsSensitive(c) /\ ~HasExec(c) /\ OutsideDirs(c) = {}
               PROVE  SavedLine(cmds)'
  BY DEF SavedLine
<1>3. asked # NotAsked /\ Decision(asked.call) = "ask"
  BY DEF AskedNow, AnswerAlways
<1>4. \A c \in Range(cmds) : ~IsDenied(c)
  BY <1>3 DEF Decision, VerdictOn, ShellVerdict, Verdict
<1>5. CASE asked.required = {}
  <2>1. toml' = [toml EXCEPT !.perm["bash"] = "always"]
    BY <1>5 DEF AnswerAlways
  <2>2. toml'.perm["bash"] = "always"
    BY <2>1 DEF PermInv, SettingTypes, Settings, Tool
  <2> QED
    BY <1>4, <2>2 DEF SavedLine
<1>6. CASE asked.required # {}
  <2>1. cmds # <<>>
    <3> SUFFICES ASSUME cmds = <<>> PROVE FALSE
      OBVIOUS
    <3>1. Range(cmds) = {}
      BY DEF Range
    <3> QED
      BY <1>6, <3>1 DEF ShellVerdict, Verdict
  <2>2. Len(cmds) \in Nat /\ DOMAIN cmds = 1..Len(cmds)
        /\ \A k \in 1..Len(cmds) : cmds[k] \in Command /\ cmds[k] \in Range(cmds)
    BY LineOf
  <2>3. ASSUME NEW k \in 1..Len(cmds) PROVE Matches(cmds[k], Allowlist("bash"))'
    <3>1. CASE Matches(cmds[k], Allowlist("bash"))
      BY <1>1, <3>1 DEF SettingsGrow, ListsGrow, Tool, Matches
    <3>2. CASE ~Matches(cmds[k], Allowlist("bash"))
      <4>1. PICK j \in 1..Len(cmds) :
              /\ SessionPattern(cmds[j]) = SessionPattern(cmds[k])
              /\ Requires("command", cmds[j], SessionPattern(cmds[j])) \in ShellRequired(cmds)
        BY <1>2, <2>2, <3>2, FirstAsked
      <4>2. asked.required = ShellRequired(cmds) \cup ExecRequired(cmds)
        BY <1>4, <1>6, <2>1 DEF ShellVerdict, Verdict
      <4>3. SessionPattern(cmds[k]).words \in Allowlist("bash")'
        BY <1>1, <4>1, <4>2 DEF Requires
      <4>4. IsPrefix(SessionPattern(cmds[k]).words, cmds[k])
        BY <2>2, PatternOf DEF Command
      <4> QED
        BY <4>3, <4>4 DEF Matches
    <3> QED
      BY <3>1, <3>2
  <2> QED
    BY <1>4, <2>1, <2>2, <2>3 DEF SavedLine, Range
<1> QED
  BY <1>5, <1>6

\* So is an answer about a file.
LEMMA PathSaved ==
  ASSUME PermInv, AskedNow, AnswerAlways(TRUE), ~displaced', NEW marks \in FileCall,
         asked.call = <<"file", marks>>, asked.required = FileVerdict(marks).required
  PROVE  SavedPath(marks)'
<1>0. asked.call[1] = "file" /\ TRUE \in BOOLEAN
  OBVIOUS
<1>1. \A r \in asked.required : r.pattern.words \in Allowlist("file")'
  BY <1>0, AnswerGrows
<1>2. asked # NotAsked /\ Decision(asked.call) = "ask"
  BY DEF AskedNow, AnswerAlways
<1>3. ~("scratchpad" \in marks \/ PathAllowed(marks))
  BY <1>2 DEF Decision, VerdictOn, FileVerdict, Verdict
<1>4. asked.required = PathRequired(marks)
  BY <1>3 DEF FileVerdict, Verdict
<1>5. CASE PathRequired(marks) = {}
  <2>1. toml' = [toml EXCEPT !.perm["file"] = "always"]
    BY <1>4, <1>5 DEF AnswerAlways
  <2>2. toml'.perm["file"] = "always"
    BY <2>1 DEF PermInv, SettingTypes, Settings, Tool
  <2> QED
    BY <1>5, <2>2 DEF SavedPath, PathRequired
<1>6. CASE "sensitive" \in marks
  <2>1. Requires("file", <<"name">>, Everything) \in asked.required
    BY <1>4, <1>6 DEF PathRequired
  <2>2. <<>> \in Allowlist("file")'
    BY <1>1, <2>1 DEF Requires, Everything
  <2> QED
    BY <2>2 DEF SavedPath, PathAllowed
<1>7. ASSUME NEW d \in marks \cap DOMAIN Glob PROVE SavedPath(marks)'
  <2>1. CASE Glob[d] \in Bracketed
    BY <2>1 DEF SavedPath
  <2>2. CASE Glob[d] \notin Bracketed
    <3> DEFINE w == <<Glob[d]>>
    <3>1. w \in Words /\ Len(w) = 1 /\ w[1] = Glob[d] /\ Exact(w) = [words |-> w, open |-> FALSE]
      BY Globs
    <3>2. Requires("outside", w, Exact(w)) \in asked.required
      BY <1>4 DEF PathRequired
    <3> HIDE DEF w
    <3>3. Fnmatch(w, w)
      BY <2>2, <3>1, MatchesItself
    <3>4. w \in Allowlist("file")'
      BY <1>1, <3>1, <3>2 DEF Requires
    <3>5. PathAllowed(marks)'
      BY <3>3, <3>4 DEF PathAllowed, w
    <3> QED
      BY <3>5 DEF SavedPath
  <2> QED
    BY <2>1, <2>2
<1> QED
  BY <1>5, <1>6, <1>7 DEF PathRequired

\* So it is for both.
LEMMA AnswerSaved ==
  ASSUME PermInv, AskedNow, AnswerAlways(TRUE), ~displaced', NEW call, call = asked.call,
         asked.required = VerdictOn(call).required
  PROVE  SavedFor(call)'
<1>1. call \in Call
  BY DEF PermInv, Asking, AnswerAlways
<1>2. CASE call[1] = "bash"
  <2>1. /\ call = <<"bash", call[2]>> /\ call[2] \in ShellCall
        /\ VerdictOn(call) = ShellVerdict(call[2])
    BY <1>1, <1>2, Calls DEF VerdictOn
  <2> QED
    BY <1>2, <2>1, LineSaved DEF SavedFor
<1>3. CASE call[1] # "bash"
  <2>1. /\ call = <<"file", call[2]>> /\ call[2] \in FileCall
        /\ VerdictOn(call) = FileVerdict(call[2])
    BY <1>1, <1>3 DEF VerdictOn, Call
  <2> QED
    BY <1>3, <2>1, PathSaved DEF SavedFor
<1> QED
  BY <1>2, <1>3

\* The second invariant holds at the start.
LEMMA HistoryStarts == PermInit => PermHist
<1> SUFFICES ASSUME PermInit PROVE PermHist
  OBVIOUS
<1>1. PICK known \in BOOLEAN :
        toml = [allow |-> [t \in Tool |-> IF known THEN DefaultAllowlist[t] ELSE NoList],
                perm |-> [t \in Tool |-> "ask"]]
  BY DEF PermInit
<1>2. /\ config = toml /\ toml.allow["bash"] \in {DefaultAllowlist["bash"], NoList}
      /\ \A t \in Tool : toml.perm[t] = "ask"
  BY <1>1 DEF PermInit, Tool
<1>3. PermNow
  BY <1>2 DEF PermNow, Allowlist
<1>4. AskedNow /\ AskedOnce /\ SavedHolds
  BY DEF PermInit, AskedNow, AskedOnce, SavedHolds
<1> QED
  BY <1>3, <1>4 DEF PermHist

\* A step that leaves the settings alone keeps it if what runs is allowed.
LEMMA QuietHistory ==
  ASSUME PermHist,
         UNCHANGED <<toml, config, rules, granted, watched, approved, lasting, displaced>>,
         AskedNow', silent' => silent \/ Decision(watched) = "always"
  PROVE  PermHist'
<1>1. PermNow'
  BY DecisionSame DEF PermHist, PermNow
<1>2. AskedOnce'
  <2>1. (Decision(watched) = "always") => (Decision(watched) = "always")'
    BY DecisionSame
  <2> QED
    BY <2>1 DEF PermHist, AskedOnce
<1>3. SavedHolds'
  <2>1. ListsGrow
    BY DecisionSame DEF ListsGrow
  <2>2. SavedFor(watched) => SavedFor(watched)'
    BY <2>1, SavedGrows
  <2> QED
    BY <2>2 DEF PermHist, SavedHolds
<1> QED
  BY <1>1, <1>2, <1>3 DEF PermHist

\* A call is one: it runs when it is allowed, and else asks for what is not covered.
LEMMA InvokeHistory ==
  ASSUME PermInv, PermHist, NEW call \in Call, Invoke(call)
  PROVE  PermHist'
<1>1. UNCHANGED <<toml, config, rules, granted, watched, approved, lasting, displaced>>
  BY DEF Invoke
<1>2. silent' => silent \/ Decision(watched) = "always"
  BY DEF Invoke
<1>3. AskedNow'
  <2>1. CASE Decision(call) = "always"
    BY <2>1 DEF Invoke, AskedNow
  <2>2. CASE Decision(call) # "always"
    <3>1. Decision(call) = "ask"
      BY <2>2, ThreeDecisions DEF Invoke, PermInv
    <3>2. asked' = [call |-> call, required |-> Uncovered(call)]
      BY <2>2 DEF Invoke
    <3>3. Decision(call)' = "ask" /\ Uncovered(call)' = Uncovered(call)
      BY <1>1, <3>1, DecisionSame
    <3>4. asked'.call = call /\ asked'.required = Uncovered(call)
      BY <3>2
    <3> QED
      BY <3>3, <3>4 DEF AskedNow
  <2> QED
    BY <2>1, <2>2
<1> QED
  BY <1>1, <1>2, <1>3, QuietHistory

\* A new start loads all that was saved.
LEMMA RestartHistory == PermInv /\ PermHist /\ StartAnew => PermHist'
<1> SUFFICES ASSUME PermInv, PermHist, StartAnew PROVE PermHist'
  OBVIOUS
<1> DEFINE old == toml.allow["bash"]
           new == IF old = NoList THEN NoList ELSE old \cup {<<"find">>}
<1>1. /\ config' = [toml EXCEPT !.allow["bash"] = new] /\ toml' = config'
      /\ silent' = FALSE /\ approved' = FALSE /\ asked' = NotAsked
      /\ UNCHANGED <<watched, lasting, displaced>>
  BY DEF StartAnew
<1>2. toml \in Settings /\ toml.allow = config.allow
  BY DEF PermInv, SettingTypes, PermHist, PermNow
<1>3. old # NoList => new # NoList
  <2>1. <<"find">> # <<"none">>
    OBVIOUS
  <2> QED
    BY <2>1 DEF NoList
<1> HIDE DEF new
<1>4. /\ config'.perm = toml.perm /\ config'.allow["bash"] = new
      /\ \A u \in Tool \ {"bash"} : config'.allow[u] = toml.allow[u]
  BY <1>1, <1>2 DEF Settings, Tool
<1>5. ListsGrow
  <2>1. old = NoList => new = NoList
    BY DEF new
  <2>2. old # NoList => old \subseteq new
    BY DEF new
  <2>3. Allowlist("bash") \subseteq Allowlist("bash")'
    BY <1>2, <1>3, <1>4, <2>1, <2>2 DEF Allowlist
  <2>4. \A u \in Tool \ {"bash"} : Allowlist(u) = Allowlist(u)'
    BY <1>2, <1>4 DEF Allowlist
  <2> QED
    BY <2>3, <2>4 DEF ListsGrow
<1>6. PermNow'
  <2>1. (~displaced => DefaultAllowlist["bash"] \subseteq Allowlist("bash"))'
    BY <1>1, <1>5 DEF PermHist, PermNow, ListsGrow, Tool
  <2> QED
    BY <1>1, <2>1 DEF PermNow
<1>7. AskedNow' /\ AskedOnce'
  BY <1>1 DEF AskedNow, AskedOnce
<1>8. SavedHolds'
  <2>1. \A t \in Tool : toml.perm[t] = "always" => toml'.perm[t] = "always"
    BY <1>1, <1>4
  <2>2. SavedFor(watched) => SavedFor(watched)'
    BY <1>1, <1>5, <2>1, SavedGrows
  <2> QED
    BY <1>1, <2>2 DEF PermHist, SavedHolds
<1> QED
  BY <1>6, <1>7, <1>8 DEF PermHist

\* Unless there are brackets in it, what a call requires matches the pattern it is asked with.
LEMMA OwnPattern ==
  ASSUME NEW call \in Call, ~HasBrackets(call), NEW r \in VerdictOn(call).required
  PROVE  WildcardMatch(r.inv, r.pattern)
<1>1. ASSUME NEW w \in Words, w # <<>>, \A i \in 1..Len(w) : w[i] \notin Bracketed,
             NEW p, p = SessionPattern(w) \/ p = Exact(w)
      PROVE  WildcardMatch(w, p)
  <2>1. Len(w) \in Nat
    BY DEF Words
  <2>2. CASE p = SessionPattern(w)
    <3>1. p = [words |-> SubSeq(w, 1, Shorter(w)), open |-> TRUE] /\ Shorter(w) \in 1..Len(w)
      BY <1>1, <2>2, PatternIs, PatternOf
    <3>2. Shorter(w) \in 0..Len(w) /\ p.words = SubSeq(w, 1, Shorter(w)) /\ p.open
      BY <2>1, <3>1
    <3> QED
      BY <1>1, <3>2, OwnMatch
  <2>3. CASE p = Exact(w)
    <3>1. PICK n \in 1..Len(w) : p.words = SubSeq(w, 1, n) /\ (p.open \/ n = Len(w))
      BY <1>1, <2>3, ExactIs
    <3>2. n \in 0..Len(w)
      BY <2>1
    <3> QED
      BY <1>1, <3>1, <3>2, OwnMatch
  <2> QED
    BY <1>1, <2>2, <2>3
<1>2. ASSUME NEW d \in DOMAIN Glob, Glob[d] \notin Bracketed
      PROVE  WildcardMatch(<<Glob[d]>>, Exact(<<Glob[d]>>))
  <2> DEFINE w == <<Glob[d]>>
  <2>1. w \in Words /\ Len(w) = 1 /\ w[1] = Glob[d]
    BY Globs
  <2> HIDE DEF w
  <2>2. w # <<>> /\ \A i \in 1..Len(w) : w[i] \notin Bracketed
    BY <1>2, <2>1
  <2>3. WildcardMatch(w, Exact(w))
    BY <1>1, <2>1, <2>2
  <2> QED
    BY <2>3 DEF w
<1>3. CASE call[1] = "bash"
  <2> DEFINE cmds == call[2]
  <2>1. cmds \in ShellCall /\ VerdictOn(call) = ShellVerdict(cmds)
    BY <1>3, Calls DEF VerdictOn
  <2>2. r \in ShellRequired(cmds) \cup ExecRequired(cmds)
    BY <2>1 DEF ShellVerdict, Verdict
  <2>3. \A c \in Range(cmds) : Range(c) \cap Bracketed = {} /\ OutsideDirs(c) \cap Bracketed = {}
    BY <1>3 DEF HasBrackets
  <2>4. ASSUME NEW c \in Range(cmds)
        PROVE  c \in Words /\ c # <<>> /\ \A i \in 1..Len(c) : c[i] \notin Bracketed
    <3>1. c \in Words /\ c # <<>> /\ DOMAIN c = 1..Len(c)
      BY <2>1, LineOf DEF Command, Words
    <3> QED
      BY <2>3, <3>1 DEF Range
  <2>5. DOMAIN cmds = 1..Len(cmds) /\ \A k \in 1..Len(cmds) : cmds[k] \in Range(cmds)
    BY <2>1, LineOf
  <2> HIDE DEF cmds
  <2>6. ASSUME NEW c \in Range(cmds), NEW p, p = SessionPattern(c) \/ p = Exact(c),
               r = Requires("command", c, p)
        PROVE  WildcardMatch(r.inv, r.pattern)
    <3>1. r.inv = c /\ r.pattern = p
      BY <2>6 DEF Requires
    <3> QED
      BY <1>1, <2>4, <2>6, <3>1
  <2>7. ASSUME NEW c \in Range(cmds), NEW d \in OutsideDirs(c),
               r = Requires("outside", <<d>>, Exact(<<d>>))
        PROVE  WildcardMatch(r.inv, r.pattern)
    <3>1. r.inv = <<d>> /\ r.pattern = Exact(<<d>>)
      BY <2>7 DEF Requires
    <3>2. PICK e \in DOMAIN Glob : d = Glob[e]
      BY DEF OutsideDirs
    <3>3. d \notin Bracketed
      BY <2>3
    <3> QED
      BY <1>2, <3>1, <3>2, <3>3
  <2>8. CASE r \in ExecRequired(cmds)
    BY <2>6, <2>8 DEF ExecRequired
  <2>9. CASE r \in ShellRequired(cmds)
    BY <2>5, <2>6, <2>7, <2>9 DEF ShellRequired
  <2> QED
    BY <2>2, <2>8, <2>9
<1>4. CASE call[1] # "bash"
  <2>1. VerdictOn(call) = FileVerdict(call[2])
    BY <1>4 DEF VerdictOn
  <2>2. r \in PathRequired(call[2])
    BY <2>1 DEF FileVerdict, Verdict
  <2>3. CASE r = Requires("file", <<"name">>, Everything)
    <3> DEFINE w == <<"name">>
    <3>1. r.inv = w /\ r.pattern.words = <<>> /\ r.pattern.open
      BY <2>3 DEF Requires, Everything
    <3>2. w \in Words /\ Len(w) = 1 /\ \A i \in 1..Len(w) : w[i] \notin Bracketed
      BY DEF Words, Word, Bracketed, Class
    <3> HIDE DEF w
    <3>3. 0 \in 0..Len(w) /\ SubSeq(w, 1, 0) = <<>>
      BY <3>2 DEF Words
    <3> QED
      BY <3>1, <3>2, <3>3, OwnMatch
  <2>4. ASSUME NEW d \in call[2] \cap DOMAIN Glob,
               r = Requires("outside", <<Glob[d]>>, Exact(<<Glob[d]>>))
        PROVE  WildcardMatch(r.inv, r.pattern)
    <3>1. r.inv = <<Glob[d]>> /\ r.pattern = Exact(<<Glob[d]>>)
      BY <2>4 DEF Requires
    <3>2. Glob[d] \notin Bracketed
      BY <1>4 DEF HasBrackets
    <3> QED
      BY <1>2, <3>1, <3>2
  <2> QED
    BY <2>2, <2>3, <2>4 DEF PathRequired
<1> QED
  BY <1>3, <1>4

\* The rules added for what was asked cover it, unless there are brackets in the call.
LEMMA AnswerCovers ==
  ASSUME PermInv, AskedNow, NEW save \in BOOLEAN, AnswerAlways(save),
         NEW call, call = asked.call, asked.required # {}, ~HasBrackets(call)
  PROVE  SettledAfter(call)
<1>1. /\ asked # NotAsked /\ Decision(call) = "ask" /\ asked.required = Uncovered(call)
      /\ call \in Call
  BY DEF AskedNow, AnswerAlways, PermInv, Asking
<1>2. VerdictOn(call).level = "ask"
  BY <1>1 DEF Decision
<1>3. rules' = rules \cup {[tool |-> call[1], scope |-> r.scope, pattern |-> r.pattern] :
                             r \in asked.required}
  BY DEF AnswerAlways
<1>4. ASSUME NEW r \in VerdictOn(call).required PROVE Covers(call[1], r)'
  <2>1. CASE r \notin asked.required
    <3>1. Covers(call[1], r)
      BY <1>1, <2>1 DEF Uncovered
    <3> QED
      BY <1>3, <3>1 DEF Covers
  <2>2. CASE r \in asked.required
    <3> DEFINE rule == [tool |-> call[1], scope |-> r.scope, pattern |-> r.pattern]
    <3>1. /\ rule \in rules' /\ rule.tool = call[1] /\ rule.scope = r.scope
          /\ rule.pattern = r.pattern
      BY <1>3, <2>2
    <3>2. WildcardMatch(r.inv, r.pattern)
      BY <1>1, OwnPattern
    <3> HIDE DEF rule
    <3> QED
      BY <3>1, <3>2 DEF Covers
  <2> QED
    BY <2>1, <2>2
<1>5. VerdictOn(call).required # {}
  BY <1>1 DEF Uncovered
<1> QED
  BY <1>2, <1>4, <1>5 DEF SettledAfter, CoveredAfter

\* An answer for a tool as a whole: the call required nothing.
LEMMA WholeDecided ==
  ASSUME PermInv, AskedNow, NEW save \in BOOLEAN, AnswerAlways(save),
         NEW call, call = asked.call, asked.required = {}
  PROVE  Decision(call)' = "always"
<1>1. /\ asked # NotAsked /\ Decision(call) = "ask" /\ asked.required = Uncovered(call)
      /\ call \in Call
  BY DEF AskedNow, AnswerAlways, PermInv, Asking
<1>2. VerdictOn(call).level = "ask" /\ VerdictOn(call).required = {}
  BY <1>1 DEF Decision
<1>3. granted' = granted \cup {call[1]} /\ config' = config
  BY DEF AnswerAlways
<1>4. (Permission(call[1]) = "always")'
  BY <1>3 DEF Permission
<1>5. CASE call[1] = "bash"
  <2> DEFINE cmds == call[2]
  <2>1. call = <<"bash", cmds>> /\ cmds \in ShellCall /\ VerdictOn(call) = ShellVerdict(cmds)
    BY <1>1, <1>5, Calls DEF VerdictOn
  <2> HIDE DEF cmds
  <2>2. ~ \E c \in Range(cmds) : IsDenied(c)
    BY <1>2, <2>1 DEF ShellVerdict, Verdict
  <2>3. ASSUME cmds = <<>> PROVE ShellVerdict(cmds)'.level = "always"
    <3>1. Range(cmds) = {}
      BY <2>3 DEF Range
    <3> QED
      BY <1>4, <1>5, <2>3, <3>1 DEF ShellVerdict, Verdict
  <2>4. ASSUME cmds # <<>> PROVE ShellVerdict(cmds)'.level = "always"
    <3>1. VerdictOn(call).required = ShellRequired(cmds) \cup ExecRequired(cmds)
      BY <1>2, <2>1, <2>2, <2>4 DEF ShellVerdict, Verdict
    <3>2. \A k \in DOMAIN cmds : ~IsSensitive(cmds[k])
      BY <1>2, <3>1 DEF ShellRequired
    <3>3. \A c \in Range(cmds) : ~HasExec(c)
      BY <1>2, <3>1 DEF ExecRequired
    <3>4. Unconditionally(cmds)'
      BY <1>4, <1>5, <3>2, <3>3 DEF Unconditionally, Range
    <3> QED
      BY <2>2, <2>4, <3>4 DEF ShellVerdict, Verdict
  <2>6. (VerdictOn(<<"bash", cmds>>).level = "always")'
    BY <2>3, <2>4 DEF VerdictOn
  <2>7. (Decision(<<"bash", cmds>>) = "always")'
    BY <2>6 DEF Decision, Verdict
  <2> QED
    BY <2>1, <2>7
<1>6. CASE call[1] = "file"
  <2> DEFINE marks == call[2]
  <2>1. call = <<"file", marks>> /\ VerdictOn(call) = FileVerdict(marks)
    BY <1>1, <1>6, Calls DEF VerdictOn
  <2> HIDE DEF marks
  <2>2. ~("scratchpad" \in marks \/ PathAllowed(marks)) /\ PathRequired(marks) = {}
    BY <1>2, <2>1 DEF FileVerdict, Verdict
  <2>3. (FileVerdict(marks) = Verdict("always", {}))'
    BY <1>3, <1>4, <1>6, <2>2 DEF FileVerdict, PathAllowed, PathRequired, Allowlist
  <2>4. (VerdictOn(<<"file", marks>>) = Verdict("always", {}))'
    BY <2>3 DEF VerdictOn
  <2>5. (Decision(<<"file", marks>>) = "always")'
    BY <2>4 DEF Decision, Verdict
  <2> QED
    BY <2>1, <2>5
<1> QED
  BY <1>1, <1>5, <1>6, Calls DEF Tool

\* What is saved is allowed.
LEMMA SavedIsKept == PermInv /\ PermHist => SavedAnswersLast
<1> SUFFICES ASSUME PermInv, PermHist, lasting, ~displaced,
                    ~ IF watched[1] = "bash"
                      THEN \E c \in Range(watched[2]) :
                             IsSensitive(c) \/ HasExec(c) \/ OutsideDirs(c) # {}
                      ELSE HasBrackets(watched)
             PROVE  Decision(watched) = "always"
  BY DEF SavedAnswersLast
<1>1. watched \in Call /\ SavedFor(watched)
  BY DEF PermInv, SettingTypes, PermHist, SavedHolds
<1>2. \A t \in Tool : toml.perm[t] = "always" => Permission(t) = "always"
  BY DEF PermHist, PermNow, Permission
<1>3. CASE watched[1] = "bash"
  <2> DEFINE cmds == watched[2]
  <2>1. /\ cmds \in ShellCall /\ VerdictOn(watched) = ShellVerdict(cmds)
        /\ \A c \in Range(cmds) : ~IsSensitive(c) /\ ~HasExec(c) /\ OutsideDirs(c) = {}
    BY <1>1, <1>3, Calls DEF VerdictOn
  <2>2. SavedLine(cmds)
    BY <1>1, <1>3 DEF SavedFor
  <2> HIDE DEF cmds
  <2>3. /\ \A c \in Range(cmds) : ~IsDenied(c)
        /\ \/ Permission("bash") = "always"
           \/ cmds # <<>> /\ \A c \in Range(cmds) : Matches(c, Allowlist("bash"))
    BY <1>2, <2>1, <2>2 DEF SavedLine, Tool
  <2>4. Unconditionally(cmds)
    BY <2>1, <2>3 DEF Unconditionally
  <2>5. ShellVerdict(cmds).level = "always"
    BY <2>3, <2>4 DEF ShellVerdict, Verdict
  <2> QED
    BY <2>1, <2>5 DEF Decision
<1>4. CASE watched[1] # "bash"
  <2> DEFINE marks == watched[2]
  <2>1. /\ SavedPath(marks) /\ VerdictOn(watched) = FileVerdict(marks)
        /\ ~ \E d \in marks \cap DOMAIN Glob : Glob[d] \in Bracketed
    BY <1>1, <1>4 DEF SavedFor, VerdictOn, HasBrackets
  <2> HIDE DEF marks
  <2>2. FileVerdict(marks).level = "always"
    BY <1>2, <2>1 DEF SavedPath, FileVerdict, Verdict, Tool
  <2> QED
    BY <2>1, <2>2 DEF Decision
<1> QED
  BY <1>3, <1>4

\* An answer settles the call it is about and takes nothing from the others.
LEMMA AnswerHistory ==
  ASSUME PermInv, PermHist, ListsGiven', NEW save \in BOOLEAN, AnswerAlways(save)
  PROVE  PermHist'
<1> DEFINE t == asked.call[1]
           need == asked.required
           allow == Added(t, {r.pattern : r \in need})
<1>1. /\ asked # NotAsked /\ asked' = NotAsked /\ watched \in Call /\ t \in Tool
      /\ asked.call \in Call
      /\ UNCHANGED <<watched, silent>> /\ approved' = (approved \/ asked.call = watched)
      /\ displaced => displaced'
  BY Calls DEF PermInv, SettingTypes, Asking, AnswerAlways
<1>2. ~displaced' => SettingsGrow /\ rules \subseteq rules'
  BY <1>1, AnswerGrows
<1>3. toml \in Settings /\ config \in Settings
  BY DEF PermInv, SettingTypes
<1>4. \A u \in Tool : toml.perm[u] = "always" => toml'.perm[u] = "always"
  BY <1>1, <1>3 DEF AnswerAlways, Settings
<1>5. PermNow'
  <2>1. toml'.allow = config'.allow
    BY <1>1, <1>3 DEF AnswerAlways, PermHist, PermNow, Settings
  <2>2. \A u \in Tool : toml'.perm[u] = "always" => u \in granted' \/ config'.perm[u] = "always"
    BY <1>1, <1>3 DEF AnswerAlways, PermHist, PermNow, Settings
  <2>3. (~displaced => DefaultAllowlist["bash"] \subseteq Allowlist("bash"))'
    BY <1>1, <1>2 DEF PermHist, PermNow, SettingsGrow, ListsGrow, Tool
  <2> QED
    BY <2>1, <2>2, <2>3 DEF PermNow
<1>6. AskedNow'
  BY <1>1 DEF AskedNow
<1>7. AskedOnce'
  <2> SUFFICES ASSUME (silent \/ (approved /\ ~HasBrackets(watched)))', ~displaced'
               PROVE  Decision(watched)' = "always"
    BY DEF AskedOnce
  <2>0. HasBrackets(watched)' <=> HasBrackets(watched)
    BY <1>1 DEF HasBrackets
  <2>1. ~displaced /\ SettingsGrow /\ rules \subseteq rules'
    BY <1>1, <1>2
  <2>2. CASE SettledAfter(watched)
    <3>1. \A call \in Call : SettledAfter(call) => Decision(call)' = "always"
      BY <2>1, StillAlways DEF PermHist
    <3> QED
      BY <1>1, <2>2, <3>1
  <2>3. CASE silent \/ (approved /\ ~HasBrackets(watched))
    <3>1. Decision(watched) = "always"
      BY <2>1, <2>3 DEF PermHist, AskedOnce
    <3>2. SettledAfter(watched)
      BY <2>1, <3>1, AllowedIsSettled
    <3> QED
      BY <2>2, <3>2
  <2>4. CASE asked.call = watched /\ need # {} /\ ~HasBrackets(watched)
    <3>1. SettledAfter(watched)
      BY <2>4, AnswerCovers DEF PermHist
    <3> QED
      BY <2>2, <3>1
  <2>5. CASE asked.call = watched /\ need = {}
    <3>1. \A call \in Call : asked.call = call => Decision(call)' = "always"
      BY <2>5, WholeDecided DEF PermHist
    <3> QED
      BY <1>1, <2>5, <3>1
  <2> QED
    BY <1>1, <2>0, <2>3, <2>4, <2>5
<1>8. SavedHolds'
  <2> SUFFICES ASSUME lasting', ~displaced' PROVE SavedFor(watched)'
    BY DEF SavedHolds
  <2>1. CASE lasting
    <3>1. SavedFor(watched) /\ ListsGrow
      BY <1>1, <1>2, <2>1 DEF PermHist, SavedHolds, SettingsGrow
    <3>2. \A call : SavedFor(call) => SavedFor(call)'
      BY <1>4, <3>1, SavedGrows
    <3> QED
      BY <1>1, <3>1, <3>2
  <2>2. CASE ~lasting
    <3>1. save /\ asked.call = watched /\ asked.required = VerdictOn(watched).required
      BY <2>2 DEF AnswerAlways
    <3>2. save = TRUE
      BY <3>1
    <3>3. \A call : /\ asked.call = call /\ asked.required = VerdictOn(call).required
                    => SavedFor(call)'
      BY <3>2, AnswerSaved DEF PermHist
    <3> QED
      BY <1>1, <3>1, <3>3
  <2> QED
    BY <2>1, <2>2
<1> QED
  BY <1>5, <1>6, <1>7, <1>8 DEF PermHist

\* The second invariant holds.
LEMMA PermHistInvariant == PermSpec => []PermHist
<1>1. ASSUME PermInv, PermInv', PermHist, [PermNext]_permVars PROVE PermHist'
  <2>1. CASE UNCHANGED permVars
    <3>1. AskedNow'
      <4>1. /\ asked' = asked
            /\ \A call : Decision(call)' = Decision(call) /\ Uncovered(call)' = Uncovered(call)
        BY <2>1, DecisionSame DEF permVars
      <4> QED
        BY <1>1, <4>1 DEF PermHist, AskedNow
    <3> QED
      BY <1>1, <2>1, <3>1, QuietHistory DEF permVars
  <2>2. ASSUME NEW call \in Call, Invoke(call) PROVE PermHist'
    BY <1>1, <2>2, InvokeHistory
  <2>3. CASE AnswerOnce
    <3>1. AskedNow'
      BY <2>3 DEF AnswerOnce, AskedNow
    <3> QED
      BY <1>1, <2>3, <3>1, QuietHistory DEF AnswerOnce
  <2>4. CASE StartAnew
    BY <1>1, <2>4, RestartHistory
  <2>5. ASSUME NEW save \in BOOLEAN, AnswerAlways(save) PROVE PermHist'
    BY <1>1, <2>5, AnswerHistory DEF PermInv
  <2> QED
    BY <1>1, <2>1, <2>2, <2>3, <2>4, <2>5 DEF PermNext
<1> QED
  BY PermInvariant, HistoryStarts, <1>1, PTL DEF PermSpec

-----------------------------------------------------------------------------
(* The theorems *)

\* The settings and the rules have their types.
THEOREM PermTypes == PermSpec => []PermTypeOK
<1> DEFINE Marked == displaced \in BOOLEAN
<1>1. PermInit => Marked
  BY DEF PermInit
<1>2. Marked /\ [PermNext]_permVars => Marked'
  <2> SUFFICES ASSUME displaced \in BOOLEAN, [PermNext]_permVars PROVE displaced' \in BOOLEAN
    OBVIOUS
  <2>1. ASSUME NEW save \in BOOLEAN, AnswerAlways(save) PROVE displaced' \in BOOLEAN
    BY <2>1 DEF AnswerAlways
  <2>2. UNCHANGED displaced \/ \E save \in BOOLEAN : AnswerAlways(save)
    BY DEF PermNext, permVars, Invoke, AnswerOnce, StartAnew
  <2> QED
    BY <2>1, <2>2
<1>3. PermInv /\ Marked => PermTypeOK
  <2> SUFFICES ASSUME PermInv, displaced \in BOOLEAN PROVE PermTypeOK
    OBVIOUS
  <2>1. toml \in Settings /\ config \in Settings
    BY DEF PermInv, SettingTypes
  <2>2. \A t \in Tool : toml.perm[t] \in {"ask", "always"} /\ config.perm[t] \in {"ask", "always"}
    BY <2>1 DEF Settings
  <2>3. \A rule \in rules : rule.tool \in Tool /\ rule.scope \in {"command", "outside", "file"}
    BY DEF PermInv, RulesGiven
  <2> QED
    BY <2>2, <2>3 DEF PermInv, SettingTypes, PermTypeOK
<1> HIDE DEF Marked
<1> QED
  BY <1>1, <1>2, <1>3, PermInvariant, PTL DEF PermSpec

\* A line of commands runs without a question only if the defaults or the answers of the
\* user allow each of its commands and each directory outside, and none of them is denied.
THEOREM NothingUnasked == PermSpec => []NothingRunsUnasked
<1>1. PermInv => NothingRunsUnasked
  BY DEF PermInv
<1> QED
  BY <1>1, PermInvariant, PTL

\* What is more, what ran or was allowed for good is not asked for again, and a saved answer
\* is found by the next start.
THEOREM PermissionsRight == PermSpec => []PermissionsHold
<1>1. PermInv /\ PermHist => PermissionsHold
  BY SavedIsKept DEF PermInv, PermHist, PermissionsHold
<1> QED
  BY <1>1, PermInvariant, PermHistInvariant, PTL
===============================================================================
