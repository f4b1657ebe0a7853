--------------------------------- MODULE Voice ---------------------------------
(***************************************************************************)
(* Dictation: the voice manager (cli/voice_manager/voice_manager.py), the  *)
(* audio recorder with its timer thread (core/audio_recorder) and the keys *)
(* that use them.  The text area handles its keys one after the other and  *)
(* awaits the end of a recording in one of them; escape is handled by the  *)
(* app meanwhile.                                                          *)
(***************************************************************************)
EXTENDS Integers

CONSTANTS
  MaxRecordings, \* bound: recordings
  MaxTexts       \* bound: pieces of text a recording is transcribed to

Recording == 1..MaxRecordings
None == 0

VARIABLES
  state,      \* _transcribe_state
  current,    \* _transcribe_task
  task,       \* the transcription of each recording
  recorder,   \* the recording whose microphone stream is open
  queue,      \* the recording whose audio queue the recorder holds
  fed,        \* recordings whose queue has got the sentinel
  timer,      \* recordings whose timer thread stops the recorder
  key,        \* what the key handler of the text area awaits: its task, a timeout
  crashed,    \* an exception left the key handler
  texts,      \* pieces of text of each recording
  typed,      \* history: the recordings texts were inserted from, with the state then
  unasked     \* history: the service ended a transcription before its audio ended,
              \* or a timer thread was overtaken

voiceVars == <<state, current, task, recorder, queue, fed, timer, key, crashed, texts, typed,
               unasked>>

Init ==
  /\ state = "idle" /\ current = None
  /\ task = [r \in Recording |-> "none"]
  /\ recorder = None /\ queue = None /\ fed = {} /\ timer = {}
  /\ key = [awaits |-> None, timedOut |-> FALSE] /\ crashed = FALSE
  /\ texts = [r \in Recording |-> 0] /\ typed = {} /\ unasked = FALSE

KeyFree == key.awaits = None /\ ~crashed
NoKey == [awaits |-> None, timedOut |-> FALSE]

-----------------------------------------------------------------------------
(* The recorder *)

\* _push_sentinel: into the queue that the recorder holds by now.
PushSentinel ==
  /\ fed' = IF queue # None THEN fed \cup {queue} ELSE fed
  /\ queue' = None

\* AudioRecorder.cancel; also what stop() does on the event loop.
StopRecorder ==
  IF recorder = None THEN UNCHANGED <<recorder, queue, fed>>
  ELSE recorder' = None /\ PushSentinel

\* _on_max_duration_expired, in a thread: the stream is stopped under the lock ...
TimerStops ==
  /\ recorder # None
  /\ timer' = timer \cup {recorder}
  /\ recorder' = None
  /\ UNCHANGED <<state, current, task, queue, fed, key, crashed, texts, typed, unasked>>

\* ... and the sentinel is pushed after it, when another recording may have begun.
TimerPushes(r) ==
  /\ r \in timer
  /\ timer' = timer \ {r}
  /\ PushSentinel
  /\ unasked' = (unasked \/ queue # r)
  /\ UNCHANGED <<state, current, task, recorder, key, crashed, texts, typed>>

-----------------------------------------------------------------------------
(* Keys *)

\* ctrl+r: refused while the recorder is on, without a device or a client.
StartRecording ==
  /\ KeyFree /\ state = "idle" /\ recorder = None
  /\ \E r \in Recording :
       /\ task[r] = "none" /\ \A q \in Recording : q < r => task[q] # "none"
       /\ recorder' = r /\ queue' = r
       /\ current' = r
       /\ task' = [task EXCEPT ![r] = "running"]
  /\ state' = "recording"
  /\ UNCHANGED <<fed, timer, key, crashed, texts, typed, unasked>>

\* Any key while recording: the audio ends, and the handler awaits the rest of the text.
StopRecording ==
  /\ KeyFree /\ state = "recording"
  /\ state' = "flushing"
  /\ StopRecorder
  /\ key' = [NoKey EXCEPT !.awaits = current]
  /\ UNCHANGED <<current, task, timer, crashed, texts, typed, unasked>>

\* wait_for gives up after TRANSCRIPTION_DRAIN_TIMEOUT: it cancels the task and
\* waits for its end.
DrainTimeout ==
  /\ key.awaits # None /\ ~key.timedOut /\ task[key.awaits] = "running"
  /\ key' = [key EXCEPT !.timedOut = TRUE]
  /\ task' = [task EXCEPT ![key.awaits] = "cancelled"]
  /\ UNCHANGED <<state, current, recorder, queue, fed, timer, crashed, texts, typed, unasked>>

\* Mutant: the handler only goes on when the transcription was not cut off.
StopReturnsDone ==
  /\ key.awaits # None /\ task[key.awaits] = "done" /\ ~key.timedOut
  /\ key' = NoKey /\ current' = None /\ state' = "idle"
  /\ UNCHANGED <<task, recorder, queue, fed, timer, crashed, texts, typed, unasked>>

\* The task has ended.  After a timeout it is cancelled once more; if escape has
\* dropped it by then, there is nothing to cancel and the handler fails.
StopReturns ==
  /\ key.awaits # None /\ task[key.awaits] = "done"
  /\ key' = NoKey
  /\ IF key.timedOut /\ current = None
     THEN crashed' = TRUE /\ UNCHANGED <<state, current>>
     ELSE state' = "idle" /\ current' = None /\ UNCHANGED crashed
  /\ UNCHANGED <<task, recorder, queue, fed, timer, texts, typed, unasked>>

\* Mutant: the recording ends, its transcription does not.
CancelKeepsTask ==
  /\ state # "idle" /\ ~crashed
  /\ StopRecorder
  /\ current' = None /\ state' = "idle"
  /\ UNCHANGED <<task, timer, key, crashed, texts, typed, unasked>>

\* cancel_recording, on escape at any time, on ctrl+c, or when voice mode is put off.
CancelRecording ==
  /\ state # "idle" /\ ~crashed
  /\ StopRecorder
  /\ task' = IF current # None /\ task[current] = "running"
             THEN [task EXCEPT ![current] = "cancelled"] ELSE task
  /\ current' = None /\ state' = "idle"
  /\ UNCHANGED <<timer, key, crashed, texts, typed, unasked>>

-----------------------------------------------------------------------------
(* _run_transcription *)

\* A text delta is inserted into the input.
Transcribe(r) ==
  /\ task[r] = "running" /\ texts[r] < MaxTexts
  /\ texts' = [texts EXCEPT ![r] = @ + 1]
  /\ typed' = typed \cup {<<r, state>>}
  /\ UNCHANGED <<state, current, task, recorder, queue, fed, timer, key, crashed, unasked>>

\* The stream of events ends, as it does when the audio has.  The recorder is left alone.
Transcribed(r) ==
  /\ task[r] = "running"
  /\ task' = [task EXCEPT ![r] = "done"]
  /\ state' = "idle"
  /\ unasked' = (unasked \/ r \notin fed)
  /\ UNCHANGED <<current, recorder, queue, fed, timer, key, crashed, texts, typed>>

\* It fails: the recorder is stopped, too.
TranscriptionFails(r) ==
  /\ task[r] = "running"
  /\ task' = [task EXCEPT ![r] = "done"]
  /\ state' = "idle"
  /\ StopRecorder
  /\ UNCHANGED <<current, timer, key, crashed, texts, typed, unasked>>

\* A cancellation is delivered.
Unwound(r) ==
  /\ task[r] = "cancelled"
  /\ task' = [task EXCEPT ![r] = "done"]
  /\ UNCHANGED <<state, current, recorder, queue, fed, timer, key, crashed, texts, typed, unasked>>

-----------------------------------------------------------------------------
Next ==
  \/ TimerStops \/ StartRecording \/ StopRecording \/ DrainTimeout \/ StopReturns
  \/ CancelRecording
  \/ \E r \in Recording : \/ TimerPushes(r) \/ Transcribe(r) \/ Transcribed(r)
                          \/ TranscriptionFails(r) \/ Unwound(r)

\* The timeout passes, cancellations are delivered, the handler goes on.
Fairness ==
  /\ WF_voiceVars(DrainTimeout) /\ WF_voiceVars(StopReturns)
  /\ \A r \in Recording : WF_voiceVars(Unwound(r))

Spec == Init /\ [][Next]_voiceVars /\ Fairness

-----------------------------------------------------------------------------
(* Properties *)

\* Type invariant of the manager, the recorder and the transcriptions.
TypeOK ==
  /\ state \in {"idle", "recording", "flushing"}
  /\ {current, recorder, queue} \subseteq Recording \cup {None}
  /\ task \in [Recording -> {"none", "running", "cancelled", "done"}]
  /\ fed \in SUBSET Recording /\ timer \in SUBSET Recording
  /\ key \in [awaits : Recording \cup {None}, timedOut : BOOLEAN] /\ crashed \in BOOLEAN
  /\ texts \in [Recording -> 0..MaxTexts]
  /\ typed \subseteq Recording \X {"idle", "recording", "flushing"} /\ unasked \in BOOLEAN

\* What the user sees is what happens, through stops, cancels, timeouts and failures:
\* when the app says that it does not listen, the microphone is off and no text is
\* still to come; and a text never arrived then.  Excepted are services that end
\* before the audio does (the microphone stays on) and an overtaken timer.
ListeningIsShown ==
  /\ state = "idle" /\ ~unasked =>
       recorder = None /\ \A r \in Recording : task[r] # "running"
  /\ \A r \in Recording : <<r, "idle">> \notin typed

\* The key that ends a recording is handled, although the service never answers.
StopEnds == key.awaits # None ~> key.awaits = None
===============================================================================
