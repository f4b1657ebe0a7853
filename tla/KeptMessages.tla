------------------------------ MODULE KeptMessages ------------------------------
(***************************************************************************)
(* What compaction after compaction leaves of the user's own messages      *)
(* (core/compaction.py, core/utils/tokens.py, AgentLoop.compact): walking  *)
(* back from the newest, those that fit into a budget of tokens, the one   *)
(* that spills over with its middle cut out.  A text is its length.        *)
(***************************************************************************)
EXTENDS Integers, Sequences, SequencesExt

CONSTANTS
  Sizes,         \* the lengths of the user's messages
  RequestSize,   \* the length of the request for a summary
  BytesPerToken,
  MarkerSize,    \* the length of the mark where the middle was
  MaxTokens,     \* the budget
  MaxMessages,   \* bound: messages of the user
  MaxOthers,     \* bound: other messages
  MaxFailures    \* bound: summaries that fail

VARIABLES
  history,  \* behind the system message
  sent,     \* what the user wrote, in order: "user", or "lookalike" for a text that begins
            \* as a summary does
  others,   \* messages of other roles, injected or empty ones
  failures

vars == <<history, sent, others, failures>>

Message(kind, id, size) == [kind |-> kind, id |-> id, size |-> size, cut |-> "no"]

Init == history = <<>> /\ sent = <<>> /\ others = 0 /\ failures = 0

\* Role, the injected flag, the content and the prefix of a summary are looked at; a request
\* whose summary failed looks like a message of the user's.
Candidates(h) == SelectSeq(h, LAMBDA m : m.kind \in {"user", "request"})

\* approx_token_count
Cost(m) == (m.size + BytesPerToken - 1) \div BytesPerToken

\* truncate_middle_to_tokens
Truncated(m, tokens) ==
  LET room == tokens * BytesPerToken
  IN IF m.size <= room THEN m
     ELSE [m EXCEPT !.size = room, !.cut = IF room > MarkerSize THEN "middle" ELSE "end"]

Keep(m, walk) ==
  IF walk.remaining <= 0 THEN walk
  ELSE IF Cost(m) <= walk.remaining
    THEN [kept |-> <<m>> \o walk.kept, remaining |-> walk.remaining - Cost(m)]
    ELSE [kept |-> <<Truncated(m, walk.remaining)>> \o walk.kept, remaining |-> 0]

\* Mutant: a message that does not fit is skipped, and older ones that do are kept.
SkipLarge(h) ==
  FoldRight(LAMBDA m, walk : IF Cost(m) <= walk.remaining THEN Keep(m, walk) ELSE walk,
            Candidates(h), [kept |-> <<>>, remaining |-> MaxTokens]).kept

\* collect_prior_user_messages
Kept(h) == FoldRight(Keep, Candidates(h), [kept |-> <<>>, remaining |-> MaxTokens]).kept

UserSends(kind, size) ==
  /\ Len(sent) < MaxMessages
  /\ sent' = Append(sent, kind)
  /\ history' = Append(history, Message(kind, Len(sent) + 1, size))
  /\ UNCHANGED <<others, failures>>

OtherMessage ==
  /\ others < MaxOthers /\ others' = others + 1
  /\ history' = Append(history, Message("other", 0, 1))
  /\ UNCHANGED <<sent, failures>>

Compact ==
  /\ history # <<>>
  /\ history' = Append(Kept(history), Message("summary", 0, 1))
  /\ UNCHANGED <<sent, others, failures>>

\* The request for the summary fails: it has been appended and stays.
CompactFails ==
  /\ history # <<>> /\ failures < MaxFailures /\ failures' = failures + 1
  /\ history' = Append(history, Message("request", 0, RequestSize))
  /\ UNCHANGED <<sent, others>>

Next ==
  \/ \E kind \in {"user", "lookalike"}, size \in Sizes : UserSends(kind, size)
  \/ OtherMessage \/ Compact \/ CompactFails

Spec == Init /\ [][Next]_vars

-----------------------------------------------------------------------------
TypeOK ==
  /\ Len(sent) <= MaxMessages /\ others \in 0..MaxOthers /\ failures \in 0..MaxFailures
  /\ \A i \in DOMAIN history :
       /\ history[i].kind \in {"user", "lookalike", "request", "summary", "other"}
       /\ history[i].id \in 0..Len(sent) /\ history[i].cut \in {"no", "middle", "end"}
       /\ history[i].size > 0

\* However many compactions there were, the history holds the latest of the user's messages
\* without a gap and in their order, the newest one among them unless requests of failed
\* summaries took its place; only the oldest of them is cut, what was kept fits the budget,
\* and there is one summary at most.
LatestKept ==
  LET users == SelectSeq(history, LAMBDA m : m.kind = "user")
      written == SelectSeq([i \in DOMAIN sent |-> i], LAMBDA i : sent[i] = "user")
      kept == Candidates(history)
      summaries == {i \in DOMAIN history : history[i].kind = "summary"}
  IN /\ IsSuffix([i \in DOMAIN users |-> users[i].id], written)
     /\ written # <<>> /\ failures = 0 => users # <<>>
     /\ \A i \in DOMAIN kept : kept[i].cut # "no" => i = 1
     /\ \A i, j \in summaries : i = j
     /\ Len(history) \in summaries =>
          FoldSeq(LAMBDA m, tokens : Cost(m) + tokens, 0, kept) <= MaxTokens
================================================================================
