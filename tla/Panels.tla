-------------------------------- MODULE Panels ---------------------------------
(***************************************************************************)
(* The panels that take the place of the text box (cli/textual_ui/app.py   *)
(* and widgets/*_app.py): settings, pickers, MCP servers, proxy, sessions, *)
(* and the prompts of tools.  A panel posts messages, the app handles them *)
(* and the user's keys one after the other; a handler has awaits, and the  *)
(* coroutine of a prompt opens and removes panels meanwhile.               *)
(*                                                                         *)
(* Prompts come from turns of scheduled loops and from teleports: a turn   *)
(* the user started is interrupted by the command that opens a panel       *)
(* (FrontEnd).  A model and a thinking picker are alike.                   *)
(***************************************************************************)
EXTENDS Integers, Sequences, FiniteSets, SequencesExt

CONSTANTS
  Menu,        \* panels the user opens
  MaxKeys,     \* bound: keys the user presses
  MaxPrompts   \* bound: prompts

\* BottomApp, in its order.
Order == <<"approval", "config", "auth", "mcp", "picker", "form", "question", "theme",
           "session", "voice">>
Panel == ToSet(Order)
Ask == {"approval", "question"}
Setting == {"toggle", "choice", "theme", "voice", "server", "proxy"}
Sweeper == {"app", "prompt"}
Off == Len(Order) + 1

VARIABLES
  bottom,   \* _current_bottom_app
  mounted,  \* the panels beside the text box
  inbox,    \* the keys and messages the app has still to handle
  at,       \* the steps its handler has still to do
  pos,      \* how far a _switch_to_input_app has come, of the app and of the prompt
  made,     \* the toggles made in the panel of the settings, and of the voice
  preview,  \* the theme picker's timer runs
  file, config, \* each setting: in the file and in memory
  shown,    \* the theme on the screen
  stale,    \* the last reload failed
  prompt,   \* the last prompt: its number, its kind, its stage
  young,    \* its panel is within the grace period
  verdict,  \* history: <<a prompt, the prompt the user saw when he pressed the key that answered it>>
  wanted,   \* history: the settings as the user chose them
  crashed,  \* a handler raised
  hurried,  \* history: a key was pressed before the last one was dealt with
  twice,    \* history: a key was pressed in a prompt that had got one
  overlapped, \* history: a prompt and a panel of the user were open at once
  hasty,    \* history: the theme picker was left while its timer ran
  keys      \* bound

settingVars == <<file, config, stale>>
themeVars == <<preview, shown>>
promptVars == <<prompt, young, verdict>>
panelVars == <<bottom, mounted>>
userVars == <<wanted, hurried, twice, hasty, keys>>
vars == <<panelVars, inbox, at, pos, made, themeVars, settingVars, promptVars, userVars,
          crashed, overlapped>>

Init ==
  /\ bottom = "input" /\ mounted = {} /\ inbox = <<>> /\ at = <<>>
  /\ pos = [s \in Sweeper |-> Off]
  /\ made = [p \in {"config", "voice"} |-> {}] /\ preview = FALSE
  /\ file = [s \in Setting |-> FALSE] /\ config = file /\ wanted = file
  /\ shown = FALSE /\ stale = FALSE
  /\ prompt = [n |-> 0, kind |-> "approval", stage |-> "none"] /\ young = FALSE
  /\ verdict = {} /\ twice = FALSE
  /\ crashed = FALSE /\ hurried = FALSE /\ overlapped = FALSE /\ hasty = FALSE /\ keys = 0

Free == inbox = <<>> /\ at = <<>>

\* A prompt and something of the user's are in each other's way.
Overlap(open, stage, busy) ==
  overlapped' = (overlapped \/ (stage \in {"open", "answered", "closing"}
                                /\ (busy \/ open \ Ask # {})))

-----------------------------------------------------------------------------
(* Opening and removing panels *)

\* _switch_from_input: the panel comes beside those that are there; two of a kind are an
\* error of the toolkit.
Mount(p) ==
  /\ bottom' = p /\ mounted' = mounted \cup {p}
  /\ crashed' = (crashed \/ p \in mounted)

\* _switch_to_input_app: the text box is back at once, then the panels go one by one.
ToInput(s) == bottom' = "input" /\ pos' = [pos EXCEPT ![s] = 1]

Standing(s) == {i \in pos[s]..Len(Order) : Order[i] \in mounted}

\* One panel is removed, and awaited; its changes and timers go with it.
Sweep(s) ==
  /\ ~crashed /\ Standing(s) # {}
  /\ LET i == CHOOSE i \in Standing(s) : \A j \in Standing(s) : i <= j
         p == Order[i]
     IN /\ mounted' = mounted \ {p}
        /\ pos' = [pos EXCEPT ![s] = i + 1]
        /\ made' = [q \in DOMAIN made |-> IF q = p THEN {} ELSE made[q]]
        /\ preview' = (preview /\ p # "theme")
        /\ young' = (young /\ p # prompt.kind)
  /\ UNCHANGED <<bottom, inbox, at, shown, settingVars, prompt, verdict, userVars,
                 crashed, overlapped>>

Swept(s) == pos[s] < Off /\ Standing(s) = {}

-----------------------------------------------------------------------------
(* Keys *)

\* The prompt on the screen.
Seen == IF prompt.stage = "open" THEN prompt.n ELSE 0

\* A panel posts a message, with the changes made in it.
Message(what, seen) ==
  <<[what |-> what, from |-> seen,
     made |-> IF bottom \in DOMAIN made THEN made[bottom] ELSE {}]>>

Posts(what, seen, rest) ==
  /\ inbox' = rest \o Message(what, seen)
  /\ UNCHANGED <<made, preview, hasty>>

Wants(setting, value) == wanted' = [wanted EXCEPT ![setting] = value]
Writes(setting, value) == file' = [file EXCEPT ![setting] = value]
Keeps == UNCHANGED <<wanted, file>>

\* A toggle of a panel that saves when it is closed.
Toggles(panel, setting, rest) ==
  LET value == IF made[panel] = {} THEN ~config[setting] ELSE \E b \in made[panel] : ~b
  IN /\ made' = [made EXCEPT ![panel] = {value}]
     /\ Wants(setting, value)
     /\ inbox' = rest
     /\ UNCHANGED <<preview, hasty, file>>

Ignores(rest) == inbox' = rest /\ Keeps /\ UNCHANGED <<made, preview, hasty>>

ConfigKey(key, seen, rest) ==
  \/ key = "other" /\ Toggles("config", "toggle", rest)
  \/ key = "enter" /\ Posts("open picker", seen, rest) /\ Keeps
  \/ key = "escape" /\ Posts("config closed", seen, rest) /\ Keeps

VoiceKey(key, seen, rest) ==
  \/ key # "escape" /\ Toggles("voice", "voice", rest)
  \/ key = "escape" /\ Posts("voice closed", seen, rest) /\ Keeps

PickerKey(key, seen, rest) ==
  \/ key = "other" /\ Ignores(rest)
  \/ key = "enter" /\ Posts("chosen", seen, rest) /\ Wants("choice", TRUE) /\ UNCHANGED file
  \/ key = "escape" /\ Posts("cancelled", seen, rest) /\ Keeps

\* A highlighted theme is previewed after a while.  The app posts the cancellation for the
\* escape key, and nobody stops the timer then.
ThemeKey(key, seen, rest) ==
  \/ /\ key = "other"
     /\ preview' = TRUE /\ inbox' = rest
     /\ Keeps /\ UNCHANGED <<made, hasty>>
  \/ /\ key = "enter"
     /\ preview' = FALSE /\ inbox' = rest \o Message("theme chosen", seen)
     /\ Wants("theme", TRUE) /\ UNCHANGED <<made, hasty, file>>
  \/ /\ key = "escape"
     /\ inbox' = rest \o Message("theme cancelled", seen)
     /\ hasty' = (hasty \/ preview)
     /\ Keeps /\ UNCHANGED <<made, preview>>

McpKey(key, seen, rest) ==
  \/ key = "other" /\ Posts("server toggled", seen, rest) /\ Wants("server", ~wanted["server"])
     /\ UNCHANGED file
  \/ key = "enter" /\ Posts("auth requested", seen, rest) /\ Keeps
  \/ key = "escape" /\ Posts("cancelled", seen, rest) /\ Keeps

\* A refresh that finds tools closes the panel.
AuthKey(key, seen, rest) ==
  \/ key = "other" /\ Ignores(rest)
  \/ key # "other" /\ Posts("auth closed", seen, rest) /\ Keeps

\* The proxy's variables are written by the panel itself, to the .env file.
FormKey(key, seen, rest) ==
  \/ key = "other" /\ Ignores(rest)
  \/ key = "enter" /\ Posts("cancelled", seen, rest) /\ Wants("proxy", TRUE) /\ Writes("proxy", TRUE)
  \/ key = "escape" /\ Posts("cancelled", seen, rest) /\ Keeps

SessionKey(key, seen, rest) ==
  \/ key = "other" /\ Ignores(rest)
  \/ key # "other" /\ Posts("cancelled", seen, rest) /\ Keeps

\* Mutant: the panel of a prompt takes the first key it gets.
PromptKeyAtOnce(key, seen, rest) ==
  \/ key = "other" /\ Ignores(rest)
  \/ key # "other" /\ Posts("answer", seen, rest) /\ Keeps

\* A prompt's panel takes no key within its grace period.
PromptKey(key, seen, rest) ==
  \/ (key = "other" \/ young) /\ Ignores(rest)
  \/ key # "other" /\ ~young /\ Posts("answer", seen, rest) /\ Keeps

\* The panel in front takes the key, or the app the escape key for it.
Takes(key, seen, rest) ==
  \/ bottom \notin mounted /\ Ignores(rest)
  \/ /\ bottom \in mounted
     /\ \/ bottom = "config" /\ ConfigKey(key, seen, rest)
        \/ bottom = "voice" /\ VoiceKey(key, seen, rest)
        \/ bottom = "picker" /\ PickerKey(key, seen, rest)
        \/ bottom = "theme" /\ ThemeKey(key, seen, rest)
        \/ bottom = "mcp" /\ McpKey(key, seen, rest)
        \/ bottom = "auth" /\ AuthKey(key, seen, rest)
        \/ bottom = "form" /\ FormKey(key, seen, rest)
        \/ bottom = "session" /\ SessionKey(key, seen, rest)
        \/ bottom \in Ask /\ PromptKey(key, seen, rest)

\* A key for a panel that is in front, which the app handles when it comes to it.
Press(key) ==
  /\ ~crashed /\ bottom # "input" /\ keys < MaxKeys
  /\ keys' = keys + 1
  /\ hurried' = (hurried \/ ~Free)
  /\ twice' = (twice \/ (bottom \in Ask /\ (Seen = 0 \/ \E i \in DOMAIN inbox : inbox[i].from = Seen)))
  /\ inbox' = Append(inbox, [what |-> key, from |-> Seen, made |-> {}])
  /\ UNCHANGED <<panelVars, at, pos, made, themeVars, settingVars, promptVars, wanted, hasty,
                 crashed, overlapped>>

KeyTaken ==
  /\ ~crashed /\ at = <<>> /\ inbox # <<>> /\ Head(inbox).what \in {"escape", "enter", "other"}
  /\ Takes(Head(inbox).what, Head(inbox).from, Tail(inbox))
  /\ UNCHANGED <<panelVars, at, pos, shown, config, stale, promptVars, crashed, overlapped,
                 hurried, twice, keys>>

\* A command in the text box.
Opens(p) ==
  /\ ~crashed /\ Free /\ bottom = "input" /\ pos["prompt"] = Off /\ keys < MaxKeys
  /\ prompt.kind = "approval" => prompt.stage # "typing"
  /\ keys' = keys + 1
  /\ at' = <<p>>
  /\ Overlap({p}, prompt.stage, FALSE)
  /\ UNCHANGED <<panelVars, inbox, pos, made, themeVars, settingVars, promptVars,
                 wanted, hurried, twice, hasty, crashed>>

\* _flush_preview, 0.1 s after a theme was highlighted.
Previews ==
  /\ ~crashed /\ preview /\ "theme" \in mounted
  /\ preview' = FALSE
  /\ inbox' = Append(inbox, [what |-> "theme previewed", from |-> 0, made |-> {}])
  /\ UNCHANGED <<panelVars, at, pos, made, shown, settingVars, promptVars, userVars,
                 crashed, overlapped>>

-----------------------------------------------------------------------------
(* The handlers of the app *)

\* What a handler does at once: settings saved, settings read, and the steps it has left.
Does(saved, read, steps) ==
  /\ file' = saved /\ config' = read /\ at' = steps
  /\ UNCHANGED <<shown, prompt, verdict, crashed>>

Value(m) == TRUE \in m.made

\* From the settings to a picker: what was toggled is saved, if the panel is still there.
OpenPicker(m) ==
  /\ m.what = "open picker"
  /\ crashed' = ("config" \notin mounted)
  /\ IF m.made = {} \/ crashed'
     THEN at' = <<"input", "picker">> /\ UNCHANGED file
     ELSE at' = <<"reload", "input", "picker">> /\ Writes("toggle", Value(m))
  /\ UNCHANGED <<config, shown, prompt, verdict>>

ConfigClosed(m) ==
  /\ m.what = "config closed"
  /\ IF m.made = {} THEN Does(file, config, <<"show", "input">>)
     ELSE Does([file EXCEPT !["toggle"] = Value(m)], config, <<"reload", "input">>)

\* The voice manager saves its own mode; the configuration is read at once.
VoiceClosed(m) ==
  /\ m.what = "voice closed"
  /\ LET saved == IF m.made = {} THEN file ELSE [file EXCEPT !["voice"] = Value(m)]
     IN Does(saved, IF m.made = {} THEN config ELSE saved, <<"input">>)

\* Mutant: the configuration is not read again.
ChosenUnread(m) ==
  /\ m.what = "chosen"
  /\ Does([file EXCEPT !["choice"] = TRUE], config, <<"input">>)

Chosen(m) ==
  /\ m.what = "chosen"
  /\ Does([file EXCEPT !["choice"] = TRUE], config, <<"reload", "input">>)

Cancelled(m) == m.what = "cancelled" /\ Does(file, config, <<"input">>)

\* The theme is not read again but set by hand.
ThemeMessage(m) ==
  /\ m.what \in {"theme previewed", "theme chosen", "theme cancelled"}
  /\ LET saved == m.what = "theme chosen" \/ file["theme"]
     IN /\ Writes("theme", saved) /\ config' = [config EXCEPT !["theme"] = saved]
  /\ shown' = IF m.what = "theme cancelled" THEN config["theme"] ELSE TRUE
  /\ at' = IF m.what = "theme previewed" THEN <<>> ELSE <<"input">>
  /\ UNCHANGED <<prompt, verdict, crashed>>

\* The panel's list is refreshed, if it is still there.
ServerToggled(m) ==
  /\ m.what = "server toggled"
  /\ Writes("server", ~file["server"]) /\ config' = file'
  /\ crashed' = ("mcp" \notin mounted)
  /\ UNCHANGED <<at, shown, prompt, verdict>>

\* From the servers to a connector's authentication and back.
AuthMessage(m) ==
  \/ m.what = "auth requested" /\ Does(file, config, <<"input", "auth">>)
  \/ m.what = "auth closed" /\ Does(file, config, <<"input", "mcp">>)

\* The answer is taken by the prompt that waits, if any.
Answered(m) ==
  /\ m.what = "answer"
  /\ IF prompt.stage = "open"
     THEN /\ prompt' = [prompt EXCEPT !.stage = "answered"]
          /\ verdict' = verdict \cup {<<prompt.n, m.from>>}
     ELSE UNCHANGED <<prompt, verdict>>
  /\ UNCHANGED <<file, config, at, shown, crashed>>

Handles(m) ==
  \/ OpenPicker(m) \/ ConfigClosed(m) \/ VoiceClosed(m) \/ Chosen(m) \/ Cancelled(m)
  \/ ThemeMessage(m) \/ ServerToggled(m) \/ AuthMessage(m) \/ Answered(m)

Handle ==
  /\ ~crashed /\ at = <<>> /\ inbox # <<>>
  /\ Handles(Head(inbox))
  /\ inbox' = Tail(inbox)
  /\ Overlap(mounted, prompt.stage, at' # <<>>)
  /\ UNCHANGED <<panelVars, pos, made, preview, stale, young, userVars>>

\* A step of the handler; the next one waits until the panels are removed.
Step ==
  /\ ~crashed /\ at # <<>>
  /\ LET s == Head(at) IN
     \/ /\ s = "show"
        /\ at' = Tail(at)
        /\ UNCHANGED <<panelVars, pos, config, stale, crashed, overlapped>>
     \/ /\ s = "reload"
        /\ at' = Tail(at)
        /\ \/ config' = file /\ stale' = FALSE
           \/ stale' = TRUE /\ UNCHANGED config
        /\ UNCHANGED <<panelVars, pos, crashed, overlapped>>
     \/ /\ s = "input" /\ pos["app"] = Off
        /\ ToInput("app")
        /\ UNCHANGED <<mounted, at, config, stale, crashed, overlapped>>
     \/ /\ s = "input" /\ Swept("app")
        /\ pos' = [pos EXCEPT !["app"] = Off] /\ at' = Tail(at)
        /\ UNCHANGED <<panelVars, config, stale, crashed, overlapped>>
     \/ /\ s \in Panel
        /\ at' = Tail(at)
        /\ IF bottom = s THEN UNCHANGED <<panelVars, crashed>> ELSE Mount(s)
        /\ Overlap(mounted', prompt.stage, FALSE)
        /\ UNCHANGED <<pos, config, stale>>
  /\ UNCHANGED <<inbox, made, themeVars, file, promptVars, userVars>>

-----------------------------------------------------------------------------
(* The prompts of tools *)

\* _approval_callback, _user_input_callback: one has the lock, and waits for a pause in typing.
Asks(kind) ==
  /\ ~crashed /\ prompt.stage = "none" /\ prompt.n < MaxPrompts
  /\ prompt' = [n |-> prompt.n + 1, kind |-> kind, stage |-> "typing"]
  /\ UNCHANGED <<panelVars, inbox, at, pos, made, themeVars, settingVars, young, verdict,
                 userVars, crashed, overlapped>>

Shows ==
  /\ ~crashed /\ prompt.stage = "typing"
  /\ prompt' = [prompt EXCEPT !.stage = "open"]
  /\ Mount(prompt.kind) /\ young' = TRUE
  /\ Overlap(mounted, "open", at # <<>> \/ inbox # <<>>)
  /\ UNCHANGED <<inbox, at, pos, made, themeVars, settingVars, verdict, userVars>>

\* Keys pressed before the panel came are handled within its grace period of 0.5 s.
Aged ==
  /\ young /\ \A i \in DOMAIN inbox : inbox[i].from = Seen
  /\ young' = FALSE
  /\ UNCHANGED <<panelVars, inbox, at, pos, made, themeVars, settingVars, prompt, verdict,
                 userVars, crashed, overlapped>>

\* The finally of the callback.
Leaves ==
  /\ ~crashed /\ prompt.stage = "answered"
  /\ prompt' = [prompt EXCEPT !.stage = "closing"]
  /\ ToInput("prompt")
  /\ UNCHANGED <<mounted, inbox, at, made, themeVars, settingVars, young, verdict,
                 userVars, crashed, overlapped>>

Left ==
  /\ ~crashed /\ prompt.stage = "closing" /\ Swept("prompt")
  /\ pos' = [pos EXCEPT !["prompt"] = Off]
  /\ prompt' = [prompt EXCEPT !.stage = "none"]
  /\ UNCHANGED <<panelVars, inbox, at, made, themeVars, settingVars, young, verdict,
                 userVars, crashed, overlapped>>

Next ==
  \/ \E key \in {"escape", "enter", "other"} : Press(key)
  \/ \E p \in Menu : Opens(p)
  \/ KeyTaken \/ Previews \/ Handle \/ Step \/ (\E s \in Sweeper : Sweep(s))
  \/ (\E kind \in Ask : Asks(kind)) \/ Shows \/ Aged \/ Leaves \/ Left

Spec == Init /\ [][Next]_vars

-----------------------------------------------------------------------------
(* Properties *)

TypeOK ==
  /\ bottom \in Panel \cup {"input"} /\ mounted \in SUBSET Panel
  /\ pos \in [Sweeper -> 1..Off] /\ made \in [{"config", "voice"} -> SUBSET BOOLEAN]
  /\ {file, config, wanted} \subseteq [Setting -> BOOLEAN]
  /\ {preview, shown, stale, young, crashed, hurried, twice, overlapped, hasty} \subseteq BOOLEAN
  /\ prompt.stage \in {"none", "typing", "open", "answered", "closing"}

\* As long as no prompt comes in the way of a panel of the user's, and the user waits for
\* each key's effect, no handler fails, a prompt that waits is on the screen, and when no
\* panel is left the settings are those the user chose, in the file and (unless a reload
\* failed) in memory, and the theme shown is the one chosen.
PanelsServe ==
  ~hurried /\ ~twice /\ ~overlapped =>
    /\ ~crashed
    /\ prompt.stage = "open" => bottom = prompt.kind /\ bottom \in mounted
    /\ Free /\ mounted = {} =>
         /\ file = wanted
         /\ ~stale => [config EXCEPT !["proxy"] = file["proxy"]] = file
         /\ ~hasty => shown = config["theme"]

\* However fast the user types and whatever panels overlap, a prompt is answered only by a
\* key pressed when it was on the screen, unless another prompt had got a key too many.
OwnAnswers == ~twice => \A v \in verdict : v[1] = v[2]
===============================================================================
