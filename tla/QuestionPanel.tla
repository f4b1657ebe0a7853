----------------------------- MODULE QuestionPanel ------------------------------
(***************************************************************************)
(* The panel that asks the user the questions of a tool                    *)
(* (widgets/question_app.py, core/tools/builtins/ask_user_question.py).    *)
(* Each question has the options 0 .. Options - 1, the row of the free     *)
(* text (number Options) if it is not hidden, and the row that submits if  *)
(* several options may be ticked.  All questions share one text input,     *)
(* which tells the panel of a change by a message.                         *)
(***************************************************************************)
EXTENDS Sequences, FiniteSets, FiniteSetsExt, Functions, Integers

CONSTANTS
  Form,    \* the forms asked: sequences of records multi, hideOther
  Options, \* number of options of a question
  MaxKeys, \* bound: keys of the user
  MaxLate  \* bound: messages of the input that wait

VARIABLES
  form,
  at,         \* current_question_idx
  cursor,     \* selected_option
  answers,    \* of the questions answered: the set of the rows
  selections, \* multi_selections
  texts,      \* other_texts: whether there is one
  input,      \* whether the text input holds text
  late,       \* Input.Changed messages on their way
  posted,     \* the answers posted last
  crashed,    \* an exception has left the handler
  ticked,     \* history: what the user ticked or typed at each question
  confirmed,  \* history: what was ticked when the question was confirmed
  strayed,    \* history: a message of the input was handled at another question
  keys        \* bound

formVars == <<form, selections, texts, answers>>
historyVars == <<ticked, confirmed, strayed>>
panelVars == <<formVars, at, cursor, input, late, posted, crashed, historyVars, keys>>

Q == 1..Len(form)
FreeText == Options
Unanswered == {-2}
Init ==
  /\ form \in Form /\ at = 1 /\ cursor = 0
  /\ answers = [i \in Q |-> Unanswered] /\ selections = [i \in Q |-> {}]
  /\ texts = [i \in Q |-> FALSE] /\ input = FALSE /\ late = 0
  /\ posted = <<>> /\ crashed = FALSE
  /\ ticked = [i \in Q |-> {}] /\ confirmed = answers /\ strayed = FALSE /\ keys = 0

-----------------------------------------------------------------------------
(* Rows *)

Multi == form[at].multi
HasOther == ~form[at].hideOther
OtherIdx == IF HasOther THEN Options ELSE -1
SubmitIdx == IF ~Multi THEN -1 ELSE IF HasOther THEN Options + 1 ELSE Options
Rows == Options + (IF HasOther THEN 1 ELSE 0) + (IF Multi THEN 1 ELSE 0)
OnOther == HasOther /\ cursor = OtherIdx
OnSubmit == Multi /\ cursor = SubmitIdx

\* A Python list takes -1 for its last element.
Label(i) == IF i = -1 THEN Options - 1 ELSE i
Key ==
  /\ ~crashed /\ posted = <<>> /\ keys < MaxKeys /\ keys' = keys + 1

-----------------------------------------------------------------------------
(* Moves between the questions *)

\* _restore_cursor.
Restored(i) ==
  IF form[i].multi THEN IF selections[i] = {} THEN 0 ELSE Min(selections[i])
  ELSE IF answers'[i] = Unanswered THEN 0
  ELSE Max(answers'[i])

\* _update_other_row: the input takes the text of the question, unless it hides the row.
Display(i) ==
  /\ LET taken == ~form[i].hideOther /\ input # texts[i] IN
     /\ input' = IF taken THEN texts[i] ELSE input
     /\ late' = IF taken THEN late + 1 ELSE late
     /\ taken => late < MaxLate

\* _switch_question.
SwitchTo(i) == at' = i /\ cursor' = Restored(i) /\ Display(i)

\* The arrows, while the input does not have the focus.
Arrow ==
  /\ Key /\ Len(form) > 1 /\ ~OnOther
  /\ UNCHANGED <<formVars, historyVars, posted, crashed>>
  /\ \E step \in {1, Len(form) - 1} : SwitchTo(((at + step - 1) % Len(form)) + 1)

MoveCursor ==
  /\ Key /\ cursor' \in {(cursor + 1) % Rows, (cursor + Rows - 1) % Rows} /\ Display(at)
  /\ UNCHANGED <<formVars, at, historyVars, posted, crashed>>

-----------------------------------------------------------------------------
(* Answers *)

\* _save_multi_select_answer and _save_single_select_answer: with nothing to save an
\* earlier answer stays.
Chosen ==
  IF Multi THEN {Label(i) : i \in {j \in selections[at] : j < Options}}
                \cup {FreeText : i \in {j \in selections[at] : j = Options /\ texts[at]}}
  ELSE IF OnOther THEN {FreeText : i \in {j \in {1} : texts[at]}}
  ELSE {cursor}
Save ==
  /\ answers' = IF Chosen = {} THEN answers ELSE [answers EXCEPT ![at] = Chosen]
  /\ confirmed' = IF Multi
                  THEN IF ticked[at] = {} THEN confirmed ELSE [confirmed EXCEPT ![at] = ticked[at]]
                  ELSE [confirmed EXCEPT ![at] = IF OnOther THEN {FreeText} ELSE {cursor}]

\* _advance_or_submit: the next question without an answer, the current one not among them.
Open == {i \in Q \ {at} : answers'[i] = Unanswered}
Following == IF \E i \in Open : i > at THEN Min({i \in Open : i > at}) ELSE Min(Open)
Advance ==
  CASE \A i \in Q : answers'[i] # Unanswered ->
         posted' = answers' /\ UNCHANGED <<at, cursor, input, late, crashed>>
    [] (\E i \in Q : answers'[i] = Unanswered) /\ Open = {} ->
         crashed' = TRUE /\ UNCHANGED <<at, cursor, input, late, posted>>
    [] OTHER -> SwitchTo(Following) /\ UNCHANGED <<posted, crashed>>

Flip(set, x) == IF x \in set THEN set \ {x} ELSE set \cup {x}
Toggle(option) ==
  /\ selections' = [selections EXCEPT ![at] = Flip(@, option)]
  /\ ticked' = [ticked EXCEPT ![at] = Flip(@, option)]
  /\ Display(at)

\* Enter, on a row that is not the free text.
Select ==
  /\ Key /\ ~OnOther
  /\ IF Multi /\ ~OnSubmit
     THEN /\ Toggle(cursor)
          /\ UNCHANGED <<answers, confirmed, at, cursor, posted, crashed>>
     ELSE Save /\ Advance /\ UNCHANGED <<selections, ticked>>
  /\ UNCHANGED <<form, texts, strayed>>

\* The digit of the free text only moves the cursor.
DigitOther ==
  /\ Key /\ ~OnOther /\ HasOther /\ cursor' = OtherIdx /\ Display(at)
  /\ UNCHANGED <<formVars, at, historyVars, posted, crashed>>

\* A digit, while the input does not have the focus.
Digit ==
  /\ Key /\ ~OnOther
  /\ \E option \in 0..(Options - 1) :
       IF Multi
       THEN /\ Toggle(option) /\ cursor' = option
            /\ UNCHANGED <<answers, confirmed, at, posted, crashed>>
       ELSE /\ answers' = [answers EXCEPT ![at] = {option}]
            /\ confirmed' = [confirmed EXCEPT ![at] = {option}]
            /\ Advance /\ UNCHANGED <<selections, ticked>>
  /\ UNCHANGED <<form, texts, strayed>>

-----------------------------------------------------------------------------
(* The free text *)

Edit ==
  /\ Key /\ OnOther /\ late < MaxLate
  /\ input' = ~input /\ late' = late + 1
  /\ ticked' = [ticked EXCEPT ![at] = Flip(@, FreeText)]
  /\ UNCHANGED <<formVars, at, cursor, posted, crashed, confirmed, strayed>>

\* Mutant: the text is kept, the tick of its row is not brought in line with it.
InputChangedLoose ==
  /\ ~crashed /\ posted = <<>> /\ late > 0 /\ late' = late - 1
  /\ texts' = [texts EXCEPT ![at] = input]
  /\ selections' = IF Multi /\ input THEN [selections EXCEPT ![at] = @ \cup {OtherIdx}] ELSE selections
  /\ strayed' = (strayed \/ input # (FreeText \in ticked[at]))
  /\ UNCHANGED <<form, answers, at, cursor, input, posted, crashed, ticked, confirmed, keys>>

\* on_input_changed: the text is the current question's, and in a question that allows
\* several options its row is ticked while there is text.
InputChanged ==
  /\ ~crashed /\ posted = <<>> /\ late > 0 /\ late' = late - 1
  /\ texts' = [texts EXCEPT ![at] = input]
  /\ selections' = IF Multi THEN [selections EXCEPT ![at] = (@ \ {OtherIdx}) \cup
                                                            {OtherIdx : i \in {j \in {1} : input}}]
                   ELSE selections
  /\ strayed' = (strayed \/ input # (FreeText \in ticked[at]))
  /\ UNCHANGED <<form, answers, at, cursor, input, posted, crashed, ticked, confirmed, keys>>

\* on_input_submitted; its message comes after those of the changes.
InputSubmitted ==
  /\ Key /\ OnOther /\ input /\ late = 0
  /\ IF Multi THEN cursor' = SubmitIdx /\ UNCHANGED <<answers, confirmed, at, input, late, posted, crashed>>
     ELSE Save /\ Advance
  /\ UNCHANGED <<form, selections, texts, ticked, strayed>>

Next ==
  \/ Arrow \/ MoveCursor \/ Select \/ Digit \/ DigitOther
  \/ Edit \/ InputChanged \/ InputSubmitted

-----------------------------------------------------------------------------
(* Properties *)

TypeOK ==
  /\ at \in Q /\ cursor \in 0..(Rows - 1) /\ late \in 0..MaxLate /\ keys \in 0..MaxKeys
  /\ \A i \in Q : /\ selections[i] \subseteq -1..Options
                  /\ \A l \in answers[i] \cup ticked[i] \cup confirmed[i] :
                       l = -2 \/ l \in 0..Options
  /\ \A b \in {input, crashed, strayed} \cup Range(texts) : b \in BOOLEAN

\* What is answered is what the user had ticked, typed or chosen at each question when it
\* was confirmed the last time with anything, as long as no message of the shared input was
\* handled at another question; and the panel fails only when nothing at all is
\* ticked at the only question that is left.
AnswersConfirmed ==
  /\ posted # <<>> /\ ~strayed => posted = confirmed
  /\ crashed => selections[at] = {} \/ strayed
  /\ posted # <<>> => \A i \in Q : posted[i] # Unanswered

QuestionPanelSpec == Init /\ [][Next]_panelVars
=============================================================================
