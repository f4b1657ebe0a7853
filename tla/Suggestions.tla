------------------------------ MODULE Suggestions -------------------------------
(***************************************************************************)
(* The popup of completions over the text box: the manager that picks the  *)
(* controller for the text, the controller of slash commands, and the one  *)
(* of paths, whose answers are computed in a thread and drawn by a call    *)
(* after the next refresh (widgets/chat_input/completion_manager.py,       *)
(* container.py, cli/autocompletion/).                                     *)
(* A list of suggestions is known by the text it answers; Nothing is the   *)
(* empty list.                                                             *)
(***************************************************************************)
EXTENDS Sequences, Integers

CONSTANTS
  Slash, Path, \* texts that begin with "/", and texts whose cursor is in an "@" word
  Matching,    \* those that have completions
  MaxTexts     \* bound: changes of the text

Nothing == "nothing"
Plain == "plain"
Texts == Slash \cup Path \cup {Plain}
Answer(q) == IF q \in Matching THEN q ELSE Nothing

VARIABLES
  text,      \* the text in the box
  due,       \* its Changed message has not been handled
  active,    \* MultiCompletionManager._active: "none", "slash", "path"
  commands,  \* SlashCommandController._suggestions
  path,      \* PathCompletionController: its suggestions, last query, pending future
  futures,   \* the futures: query, state, whether the callback is registered
  worker,    \* the future whose callback the thread is about to run
  ui,        \* the event loop: "free", "adding" a callback with the lock, "stuck"
  calls,     \* what runs after the next refresh: a list to draw, or "reset"
  popup,     \* the list on the screen
  overtaken, \* history: the text changed, or was left, while such a call was waiting
  texts

boxVars == <<text, due, texts>>
suggestionVars == <<boxVars, active, commands, path, futures, worker, ui, calls, popup, overtaken>>

NoPath == [list |-> Nothing, last |-> Nothing, pending |-> 0]
Init ==
  /\ text = Plain /\ due = FALSE /\ active = "none" /\ commands = Nothing
  /\ path = NoPath /\ futures = <<>>
  /\ worker = 0 /\ ui = "free" /\ calls = <<>> /\ popup = Nothing
  /\ overtaken = FALSE /\ texts = 0

-----------------------------------------------------------------------------
(* The event loop *)

\* The text is edited; the area is told of it by a message.
Edit ==
  /\ texts < MaxTexts /\ texts' = texts + 1
  /\ text' \in Texts \ {text} /\ due' = TRUE

Type ==
  /\ ui = "free" /\ Edit
  /\ UNCHANGED <<active, commands, path, futures, worker, ui, calls, popup, overtaken>>

\* Only a future that has not begun can be cancelled.
CancelPending ==
  IF path.pending # 0 /\ futures[path.pending].state = "queued"
  THEN [futures EXCEPT ![path.pending].state = "cancelled"] ELSE futures

\* PathCompletionController.reset empties the list itself, also where a call is still to
\* draw it.
Emptied(waiting) ==
  LET drawn == {i \in 1..Len(waiting) : waiting[i] # "reset"} IN
  [i \in 1..Len(waiting) |->
     IF path.list # Nothing /\ i \in drawn /\ \A j \in drawn : j <= i THEN Nothing ELSE waiting[i]]
PathReset(waiting) ==
  /\ path' = NoPath /\ futures' = CancelPending /\ calls' = Emptied(waiting)
  /\ popup' = IF path.list # Nothing THEN Nothing ELSE popup

\* MultiCompletionManager.reset: Escape, a submission, a recalled line, or no controller
\* for the text.
ManagerReset ==
  /\ active' = "none"
  /\ CASE active = "path" -> PathReset(calls) /\ UNCHANGED commands
       [] active = "slash" -> /\ commands' = Nothing
                              /\ popup' = IF commands # Nothing THEN Nothing ELSE popup
                              /\ UNCHANGED <<path, futures, calls>>
       [] OTHER -> UNCHANGED <<commands, path, futures, calls, popup>>

Dismiss ==
  /\ ui = "free" /\ active # "none" /\ ManagerReset
  /\ overtaken' = (overtaken \/ calls # <<>>)
  /\ UNCHANGED <<boxVars, worker, ui>>

\* on_text_changed, for the text as it is then.
Changed ==
  /\ ui = "free" /\ due /\ due' = FALSE
  /\ overtaken' = (overtaken \/ calls # <<>>)
  /\ UNCHANGED <<text, texts, worker>>

ToPlain == Changed /\ text = Plain /\ ManagerReset /\ UNCHANGED ui

ToSlash ==
  /\ Changed /\ text \in Slash /\ active' = "slash"
  /\ commands' = Answer(text)
  /\ IF active = "path" THEN path' = NoPath /\ futures' = CancelPending /\ calls' = Emptied(calls)
     ELSE UNCHANGED <<path, futures, calls>>
  /\ popup' = IF Answer(text) # Nothing THEN Answer(text)
              ELSE IF commands # Nothing \/ (active = "path" /\ path.list # Nothing) THEN Nothing
              ELSE popup
  /\ UNCHANGED ui

\* A path is looked up in the thread unless it is the one looked up last; the lock is held
\* until the callback is registered.
ToPath ==
  /\ Changed /\ text \in Path /\ active' = "path"
  /\ commands' = IF active = "slash" THEN Nothing ELSE commands
  /\ popup' = IF active = "slash" /\ commands # Nothing THEN Nothing ELSE popup
  /\ IF text = path.last THEN UNCHANGED <<path, futures, ui>>
     ELSE /\ futures' = Append(CancelPending, [query |-> text, state |-> "queued", told |-> FALSE])
          /\ path' = [path EXCEPT !.last = text, !.pending = Len(futures) + 1]
          /\ ui' = "adding"
  /\ UNCHANGED calls

\* add_done_callback: the callback of a future that is done is run at once, and waits for
\* the lock its own thread holds.
AddCallback ==
  /\ ui = "adding"
  /\ IF futures[path.pending].state = "done" THEN ui' = "stuck" /\ UNCHANGED futures
     ELSE ui' = "free" /\ futures' = [futures EXCEPT ![path.pending].told = TRUE]
  /\ UNCHANGED <<boxVars, active, commands, path, worker, calls, popup, overtaken>>

\* Tab or Enter on a suggestion: the text is replaced, the controller reset; without an "@"
\* or "/" in the text nothing is replaced.
ApplyPath ==
  /\ ui = "free" /\ active = "path" /\ path.list # Nothing
  /\ PathReset(calls)
  /\ IF text \in Path THEN Edit ELSE UNCHANGED boxVars
  /\ overtaken' = (overtaken \/ calls # <<>>)
  /\ UNCHANGED <<active, commands, worker, ui>>

ApplySlash ==
  /\ ui = "free" /\ active = "slash" /\ commands # Nothing
  /\ commands' = Nothing /\ popup' = Nothing
  /\ IF text \in Slash THEN Edit ELSE UNCHANGED boxVars
  /\ overtaken' = (overtaken \/ calls # <<>>)
  /\ UNCHANGED <<active, path, futures, worker, ui, calls>>

\* A call_after_refresh.
RunCall ==
  /\ ui = "free" /\ calls # <<>>
  /\ IF Head(calls) = "reset" THEN PathReset(Tail(calls))
     ELSE popup' = Head(calls) /\ calls' = Tail(calls) /\ UNCHANGED <<path, futures>>
  /\ UNCHANGED <<boxVars, active, commands, worker, ui, overtaken>>

-----------------------------------------------------------------------------
(* The thread *)

Begin(i) ==
  /\ worker = 0 /\ futures[i].state = "queued"
  /\ \A j \in 1..Len(futures) : futures[j].state # "running"
  /\ \A j \in 1..(i - 1) : futures[j].state # "queued"
  /\ futures' = [futures EXCEPT ![i].state = "running"]
  /\ UNCHANGED <<boxVars, active, commands, path, worker, ui, calls, popup, overtaken>>

Finish(i) ==
  /\ futures[i].state = "running"
  /\ futures' = [futures EXCEPT ![i].state = "done"]
  /\ worker' = IF futures[i].told THEN i ELSE 0
  /\ UNCHANGED <<boxVars, active, commands, path, ui, calls, popup, overtaken>>

\* _update_suggestions.
Update(list) ==
  /\ calls' = Append(calls, IF list = Nothing THEN "reset" ELSE list)
  /\ path' = IF list = Nothing THEN path ELSE [path EXCEPT !.list = list]

\* Mutant: the answer is taken whatever the text is by now.
CallbackLate ==
  /\ worker # 0 /\ ui = "free" /\ worker' = 0
  /\ Update(Answer(futures[worker].query))
  /\ UNCHANGED <<boxVars, active, commands, futures, ui, popup, overtaken>>

\* _handle_completion_result: an answer for another query than the last one is dropped.
Callback ==
  /\ worker # 0 /\ ui = "free" /\ worker' = 0
  /\ IF futures[worker].query = path.last THEN Update(Answer(futures[worker].query))
     ELSE UNCHANGED <<calls, path>>
  /\ UNCHANGED <<boxVars, active, commands, futures, ui, popup, overtaken>>

Next ==
  \/ Type \/ Dismiss \/ ToPlain \/ ToSlash \/ ToPath \/ AddCallback \/ ApplyPath \/ ApplySlash \/ RunCall
  \/ \E i \in 1..Len(futures) : Begin(i) \/ Finish(i)
  \/ Callback

-----------------------------------------------------------------------------
(* Properties *)

TypeOK ==
  /\ text \in Texts /\ active \in {"none", "slash", "path"} /\ ui \in {"free", "adding", "stuck"}
  /\ {commands, popup, path.list, path.last} \subseteq Slash \cup Path \cup {Nothing}
  /\ worker \in 0..Len(futures) /\ path.pending \in 0..Len(futures)
  /\ \A i \in 1..Len(futures) : futures[i].query \in Path
                                /\ futures[i].state \in {"queued", "running", "done", "cancelled"}

Settled ==
  /\ ui = "free" /\ ~due /\ calls = <<>> /\ worker = 0
  /\ \A i \in 1..Len(futures) : futures[i].state \in {"done", "cancelled"}
Offered == CASE active = "path" -> path.list [] active = "slash" -> commands [] OTHER -> Nothing

\* Once the thread and the screen have caught up, the popup shows what Tab and Enter would
\* insert, and these are completions of the text, whatever came late; if the text never
\* changed while a drawing was under way, they are all of them: none was lost.
SuggestionsFit ==
  Settled =>
    /\ ~overtaken => popup = Offered
    /\ popup # Nothing => popup = Offered
    /\ Offered # Nothing => Offered = text
    /\ ~overtaken /\ active # "none" /\ Offered = Nothing => Answer(text) = Nothing

SuggestionsSpec == Init /\ [][Next]_suggestionVars
=============================================================================
