-------------------------------- MODULE Narrator --------------------------------
(***************************************************************************)
(* Reading aloud what a turn has done: the tracker asks a model for a      *)
(* summary when the turn ends (cli/turn_summary/tracker.py), the narrator  *)
(* manager (cli/narrator_manager) has it spoken, the player plays it on a  *)
(* thread of its own (core/audio_player).  The narrator is on throughout;  *)
(* a turn has the number _generation gives it.                             *)
(***************************************************************************)
EXTENDS Integers

CONSTANT MaxTurns \* bound: turns

Turn == 1..MaxTurns
None == 0

VARIABLES
  generation, \* _generation
  tracked,    \* the tracker has data of a turn
  state,      \* NarratorManager._state
  summary,    \* the summary task of each turn
  stoppable,  \* the turn whose summary _cancel_summary cancels
  speech,     \* the task that fetches the speech of each turn
  speaking,   \* the turn of _speak_task
  player,     \* the turn that is played, and whether its stream is being closed
  finished    \* calls of _on_playback_finished in the event loop's queue

narratorVars == <<generation, tracked, state, summary, stoppable, speech, speaking, player,
                  finished>>

Silent == [turn |-> None, closing |-> FALSE]

Init ==
  /\ generation = 0 /\ tracked = FALSE /\ state = "idle"
  /\ summary = [t \in Turn |-> "none"] /\ stoppable = None
  /\ speech = [t \in Turn |-> "none"] /\ speaking = None
  /\ player = Silent /\ finished = 0

Cancelled(tasks, t) ==
  IF t # None /\ tasks[t] = "running" THEN [tasks EXCEPT ![t] = "cancelled"] ELSE tasks

-----------------------------------------------------------------------------
(* Turns *)

\* Mutant: the speech that is being fetched is not stopped.
CancelSummaryOnly ==
  /\ summary' = Cancelled(summary, stoppable) /\ stoppable' = None
  /\ player' = [player EXCEPT !.closing = player.turn # None]
  /\ state' = "idle"
  /\ UNCHANGED <<speech, speaking>>

\* NarratorManager.cancel.
Cancel ==
  /\ summary' = Cancelled(summary, stoppable) /\ stoppable' = None
  /\ speech' = Cancelled(speech, speaking)
  /\ speaking' = IF speaking # None /\ speech[speaking] = "running" THEN None ELSE speaking
  /\ player' = [player EXCEPT !.closing = player.turn # None]
  /\ state' = "idle"

\* A turn silences what is left of the last one.
StartTurn ==
  /\ ~tracked /\ generation < MaxTurns
  /\ Cancel
  /\ generation' = generation + 1 /\ tracked' = TRUE
  /\ UNCHANGED finished

\* The turn was interrupted: nothing is told of it.
CancelTurn ==
  /\ tracked /\ tracked' = FALSE
  /\ UNCHANGED <<generation, state, summary, stoppable, speech, speaking, player, finished>>

EndTurn ==
  /\ tracked /\ tracked' = FALSE
  /\ summary' = [summary EXCEPT ![generation] = "running"]
  /\ stoppable' = generation
  /\ state' = "summarizing"
  /\ UNCHANGED <<generation, speech, speaking, player, finished>>

\* Escape, when there is something to stop (_try_interrupt), and rewinding or exiting.
Escape ==
  /\ state # "idle" \/ player.turn # None
  /\ Cancel
  /\ UNCHANGED <<generation, tracked, finished>>

-----------------------------------------------------------------------------
(* Tasks *)

\* _on_turn_summary: a summary, or none when the model failed.
Summarized(t, succeeds) ==
  /\ summary[t] = "running"
  /\ summary' = [summary EXCEPT ![t] = "done"]
  /\ stoppable' = None
  /\ IF t = generation /\ succeeds
     THEN speech' = [speech EXCEPT ![t] = "running"] /\ speaking' = t /\ UNCHANGED state
     ELSE state' = "idle" /\ UNCHANGED <<speech, speaking>>
  /\ UNCHANGED <<generation, tracked, player, finished>>

\* The speech is there and played; the player refuses while it still closes another.
Spoken(t) ==
  /\ speech[t] = "running"
  /\ speech' = [speech EXCEPT ![t] = "done"]
  /\ IF player = Silent
     THEN player' = [Silent EXCEPT !.turn = t] /\ state' = "speaking"
     ELSE state' = "idle" /\ UNCHANGED player
  /\ UNCHANGED <<generation, tracked, summary, stoppable, speaking, finished>>

SpeechFails(t) ==
  /\ speech[t] = "running"
  /\ speech' = [speech EXCEPT ![t] = "done"]
  /\ state' = "idle"
  /\ UNCHANGED <<generation, tracked, summary, stoppable, speaking, player, finished>>

\* The audio thread: the stream is at its end, or was closed.
StreamFinished ==
  /\ player # Silent
  /\ player' = Silent /\ finished' = finished + 1
  /\ UNCHANGED <<generation, tracked, state, summary, stoppable, speech, speaking>>

\* The event loop gets to know; the callback does not say of which playback.
PlaybackFinished ==
  /\ finished > 0 /\ finished' = finished - 1
  /\ state' = IF state = "speaking" THEN "idle" ELSE state
  /\ UNCHANGED <<generation, tracked, summary, stoppable, speech, speaking, player>>

-----------------------------------------------------------------------------
Next ==
  \/ StartTurn \/ CancelTurn \/ EndTurn \/ Escape \/ StreamFinished \/ PlaybackFinished
  \/ \E t \in Turn : \/ \E succeeds \in BOOLEAN : Summarized(t, succeeds)
                     \/ Spoken(t) \/ SpeechFails(t)

Spec == Init /\ [][Next]_narratorVars

-----------------------------------------------------------------------------
(* Properties *)

Status == {"none", "running", "cancelled", "done"}

\* Type invariant of the manager, its tasks and the player.
TypeOK ==
  /\ generation \in 0..MaxTurns /\ tracked \in BOOLEAN
  /\ state \in {"idle", "summarizing", "speaking"}
  /\ {summary, speech} \subseteq [Turn -> Status]
  /\ {stoppable, speaking} \subseteq Turn \cup {None}
  /\ player \in [turn : Turn \cup {None}, closing : BOOLEAN] /\ finished \in 0..MaxTurns

\* Whatever tasks and callbacks are late: once a turn has started, nothing of an
\* earlier one is fetched or played, and whatever is fetched or played for the user,
\* escape finds a state in which it stops it.
OnlyTheLastTurnIsRead ==
  \A t \in Turn :
    LET busy == summary[t] = "running" \/ speech[t] = "running"
        plays == player.turn = t /\ ~player.closing
    IN  busy \/ plays => /\ t = generation /\ ~tracked
                         /\ state # "idle" \/ player.turn # None
===============================================================================
