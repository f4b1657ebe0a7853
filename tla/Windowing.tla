------------------------------- MODULE Windowing --------------------------------
(***************************************************************************)
(* What the text interface shows of the history (cli/textual_ui/windowing  *)
(* and its uses in app.py): a resumed session is shown from its tail, the  *)
(* older messages are mounted in batches on demand (or by going up in      *)
(* rewind mode), the oldest widgets are pruned when the area gets too      *)
(* high, and at the end of every turn the point up to which messages are   *)
(* still to be mounted is found out anew from the widgets there are.       *)
(* Meanwhile turns, compactions, rewinds, /reload and /clear change both   *)
(* the history and the widgets.                                            *)
(***************************************************************************)
EXTENDS Integers, Sequences, FiniteSets, SequencesExt, FiniteSetsExt

CONSTANTS
  TailSize,  \* HISTORY_RESUME_TAIL_MESSAGES
  BatchSize, \* LOAD_MORE_BATCH_SIZE
  Session,   \* saved sessions: sequences of kinds of messages
  MaxTurns,  \* bound: turns
  MaxChanges \* bound: compactions, rewinds, /reload, /clear and prunes

VARIABLES
  history,  \* the messages but the system prompt: id, kind
  screen,   \* children of #messages, the button excepted
  cursor,   \* _backfill_cursor
  backfill, \* _backfill_messages
  button,   \* _load_more.widget is mounted
  loading,  \* requests for more that have mounted their batch and go on
  turn,     \* a turn is under way
  next,     \* id of the next message
  adrift,   \* history: the code has lost the relation of widgets and messages
  cutOff,   \* history: pruned while a batch was being mounted, until a turn's end
  turns,
  changes

windowVars == <<cursor, backfill, button>>
windowingVars == <<history, screen, windowVars, loading, turn, next, adrift, cutOff, turns, changes>>

\* "user", "text" (of the model, or an answer of a tool), "calls" (text and a call),
\* "injected" (no widget); "reasoning" is a widget without a message.
Parts(kind) == CASE kind = "injected" -> 0 [] kind = "calls" -> 2 [] OTHER -> 1
NoIndex == -1
Notice == [msg |-> 0, part |-> 0, kind |-> "notice", index |-> NoIndex, at |-> NoIndex]
Counted(w) == w.kind # "notice"

\* build_history_widgets: indices count from 0, message_index from the system prompt.
WidgetsOf(m, index, at) ==
  [k \in 1..Parts(m.kind) |->
     [msg |-> m.id, part |-> k, kind |-> m.kind, index |-> index,
      at |-> IF m.kind = "user" THEN at ELSE NoIndex]]
HistoryWidgets(batch, start) ==
  FlattenSeq([k \in DOMAIN batch |-> WidgetsOf(batch[k], start + k - 1, start + k)])

Take(s, n) == SubSeq(s, 1, n)
Larger(a, b) == IF a > b THEN a ELSE b
Smaller(a, b) == IF a < b THEN a ELSE b

Init ==
  /\ \E s \in Session : /\ history = [k \in DOMAIN s |-> [id |-> k, kind |-> s[k]]]
                        /\ next = Len(s) + 1
  /\ screen \in {<<>>, <<Notice>>} \* the warning of a dangerous directory
  /\ cursor = 0 /\ backfill = <<>> /\ button = FALSE /\ loading = 0
  /\ turn = FALSE /\ adrift = FALSE /\ cutOff = FALSE /\ turns = -1 /\ changes = 0

-----------------------------------------------------------------------------
(* Mounting the history *)

SetBackfill(b) == backfill' = b /\ cursor' = Len(b) /\ button' = (b # <<>>)

\* _resume_history_from_messages, once at the start; with anything on the screen, nothing
\* of the session is shown.
Resume ==
  /\ turns = -1 /\ turns' = 0
  /\ IF screen = <<>>
     THEN LET start == Larger(Len(history) - TailSize, 0)
              tail == SubSeq(history, start + 1, Len(history))
          IN /\ screen' = HistoryWidgets(tail, start)
             /\ SetBackfill(Take(history, start))
     ELSE UNCHANGED <<screen, windowVars>>
  /\ UNCHANGED <<history, loading, turn, next, adrift, cutOff, changes>>

\* SessionWindowing.next_load_more_batch, taken and mounted at once.
BatchStart == Larger(cursor - BatchSize, 0)

LoadMore ==
  /\ button /\ cursor > 0 /\ loading < 2
  /\ screen' = HistoryWidgets(SubSeq(backfill, BatchStart + 1, cursor), BatchStart) \o screen
  /\ cursor' = BatchStart /\ loading' = loading + 1
  /\ UNCHANGED <<history, backfill, button, turn, next, adrift, cutOff, turns, changes>>

\* The widgets are mounted: the button stays, or comes back, or goes.
LoadMoreEnds ==
  /\ loading > 0 /\ loading' = loading - 1
  /\ button' = (cursor > 0)
  /\ UNCHANGED <<history, screen, cursor, backfill, turn, next, adrift, cutOff, turns, changes>>

-----------------------------------------------------------------------------
(* Turns *)

\* _handle_user_message and act(): the widget of a live message has no index.
Send ==
  /\ ~turn /\ turns \in 0..(MaxTurns - 1) /\ turn' = TRUE /\ turns' = turns + 1
  /\ history' = Append(history, [id |-> next, kind |-> "user"]) /\ next' = next + 1
  /\ screen' = screen \o WidgetsOf([id |-> next, kind |-> "user"], NoIndex, Len(history) + 1)
  /\ UNCHANGED <<windowVars, loading, adrift, cutOff, changes>>

\* A message of the turn; the model's thoughts are a widget of their own.
Reply(kind) ==
  /\ turn /\ history # <<>> /\ Last(history).kind = "user"
  /\ history' = Append(history, [id |-> next, kind |-> kind]) /\ next' = next + 1
  /\ \E thought \in {<<>>, <<[Notice EXCEPT !.kind = "reasoning"]>>} :
       screen' = screen \o thought
                        \o WidgetsOf([id |-> next, kind |-> kind], NoIndex, NoIndex)
  /\ UNCHANGED <<windowVars, loading, turn, adrift, cutOff, turns, changes>>

Indices == {screen[k].index : k \in DOMAIN screen} \ {NoIndex}
Visible == Cardinality({k \in DOMAIN screen : Counted(screen[k])})

\* SessionWindowing.recompute_backfill. The tail may begin with messages that have no
\* widget: they are not to be mounted again.
BackfillEndKept ==
  IF Indices = {} THEN Larger(Len(history) - Visible, 0) ELSE cursor

BackfillEnd ==
  IF Indices = {} THEN Larger(Len(history) - Visible, 0)
  ELSE IF /\ Min(Indices) > cursor
          /\ \E k \in (cursor + 1)..Smaller(Min(Indices), Len(history)) :
               history[k].kind # "injected"
       THEN Min(Indices) ELSE cursor

\* The end of a turn: _refresh_windowing_from_history, if there is a button.
TurnEnds ==
  /\ turn /\ turn' = FALSE
  /\ IF button THEN SetBackfill(Take(history, Smaller(BackfillEnd, Len(history))))
     ELSE UNCHANGED windowVars
  /\ cutOff' = (cutOff /\ ~button) /\ adrift' = (adrift \/ (button /\ Indices = {}))
  /\ UNCHANGED <<history, screen, loading, next, turns, changes>>

-----------------------------------------------------------------------------
(* Other changes of the history and of the screen *)

Changes == turns >= 0 /\ changes < MaxChanges /\ changes' = changes + 1

\* _try_prune after a mount: the button is the oldest child.
Prune ==
  /\ Changes /\ \E k \in 1..(Len(screen) - 1) : screen' = SubSeq(screen, k + 1, Len(screen))
  /\ button' = FALSE /\ cutOff' = (cutOff \/ loading > 0)
  /\ UNCHANGED <<history, cursor, backfill, loading, turn, next, adrift, turns>>

\* /compact, or the compaction of a turn: the user's messages and a summary. Neither the
\* widgets nor the backfill follow.
Compact ==
  /\ Changes /\ history # <<>>
  /\ LET isPrompt(m) == m.kind = "user"
     IN history' = Append(SelectSeq(history, isPrompt), [id |-> next, kind |-> "user"])
  /\ next' = next + 1 /\ adrift' = TRUE
  /\ UNCHANGED <<screen, windowVars, loading, turn, turns, cutOff>>

\* _execute_rewind: the history up to the user's message, and the widgets from it on.
RewindTo(k) ==
  /\ Changes /\ ~turn /\ screen[k].at # NoIndex
  /\ screen[k].at <= Len(history) /\ history[screen[k].at].kind = "user" \* RewindError
  /\ history' = Take(history, screen[k].at - 1) /\ screen' = Take(screen, k - 1)
  /\ UNCHANGED <<windowVars, loading, turn, next, adrift, cutOff, turns>>

\* _reload_config: the windowing is reset, the widgets stay.
Reload ==
  /\ Changes /\ ~turn
  /\ screen' = [k \in DOMAIN screen |-> [screen[k] EXCEPT !.index = NoIndex]]
  /\ cursor' = 0 /\ backfill' = <<>> /\ button' = FALSE
  /\ UNCHANGED <<history, loading, turn, next, adrift, cutOff, turns>>

\* _clear_history.
Clear ==
  /\ Changes /\ ~turn /\ history' = <<>> /\ screen' = <<Notice>>
  /\ cursor' = 0 /\ backfill' = <<>> /\ button' = FALSE
  /\ UNCHANGED <<loading, turn, next, adrift, cutOff, turns>>

Next ==
  \/ Resume \/ LoadMore \/ LoadMoreEnds \/ Send
  \/ \E kind \in {"text", "calls", "injected"} : Reply(kind)
  \/ TurnEnds \/ Prune \/ Compact \/ Reload \/ Clear
  \/ \E k \in DOMAIN screen : RewindTo(k)
Spec == Init /\ [][Next]_windowingVars

-----------------------------------------------------------------------------
TypeOK ==
  /\ \A k \in DOMAIN history : history[k].id \in 1..(next - 1)
  /\ cursor \in 0..Len(backfill) /\ loading \in 0..2
  /\ {button, turn, adrift, cutOff} \subseteq BOOLEAN

Places == {k \in DOMAIN screen : screen[k].msg # 0}

\* The widgets are in the order of the messages and no message is shown twice, however
\* batches, turns, prunes and rewinds follow each other; the message a user's widget names
\* for a rewind is its own. A compaction leaves the widgets and the backfill of the old
\* history; when rewinds and prunes have left none of the widgets with an index, the next
\* turn's end guesses from the number of widgets (`adrift`).
ShownOnceInOrder ==
  adrift \/ /\ \A i, j \in Places : i < j =>
                 2 * screen[i].msg + screen[i].part < 2 * screen[j].msg + screen[j].part
            /\ \A k \in Places : screen[k].at # NoIndex =>
                 /\ screen[k].at <= Len(history)
                 /\ history[screen[k].at].id = screen[k].msg

\* While there is a button, every message is on the screen or still to be mounted. What a
\* prune took while a batch was being mounted can be had again after the next turn.
NoGap ==
  button /\ ~adrift /\ ~cutOff /\ ~turn =>
    \A k \in (cursor + 1)..Len(history) :
      Parts(history[k].kind) > 0 => \E p \in Places : screen[p].msg = history[k].id
=============================================================================
