------------------------------- MODULE ToolSources -------------------------------
(***************************************************************************)
(* Where the remote tools come from and which of them are offered: the     *)
(* caches of MCP servers and connectors, the tool manager's integration of *)
(* both, the deferred initialisation in its thread, and the two panels     *)
(* that refresh, authorise and toggle them (tools/manager.py,              *)
(* tools/mcp/registry.py, tools/connectors/connector_registry.py,          *)
(* widgets/mcp_app.py, widgets/connector_auth_app.py, tools/mcp_settings.py). *)
(* A worker of a panel is cancelled when its panel is removed.             *)
(***************************************************************************)
EXTENDS Sequences, FiniteSets, Integers

CONSTANTS
  Server,       \* MCP servers
  ProfileOnly,  \* those an agent profile adds, which the config file does not have
  Connector,    \* connectors of the workspace
  Tool,         \* names of remote tools, the same ones at every source
  MaxRefreshes, \* bound: refreshes and reloads
  MaxToggles    \* bound: toggles

Source == Server \cup Connector
\* What the settings say of a source, when they have an entry for it; a connector without
\* one is disabled.
Setting == [entry : BOOLEAN, disabled : BOOLEAN, tools : SUBSET Tool]
Default == [entry |-> TRUE, disabled |-> FALSE, tools |-> {}]
Absent == [entry |-> FALSE, disabled |-> TRUE, tools |-> {}]
Job == {"init", "browser", "auth"}
Off == [mcp |-> {}, con |-> "off"]

VARIABLES
  registry,    \* MCPRegistry._cache: the keys (server, its settings) it has tools for
  integrated,  \* _mcp_integrated
  available,   \* sources with tool classes in _available
  heard,       \* history: servers that answered since the tools were last dropped ...
  failed,      \* ... and those that did not
  connectors,  \* ConnectorRegistry: cache filled, connectors with tools, known names
  lock,        \* _discover_lock: the job that holds it
  jobs,        \* discoveries under way: keys asked for, what connectors it waits for
  cut,         \* history: a refresh was cancelled after it had dropped the tools
  config,      \* the settings in use
  file,        \* the settings in the config file
  panel,       \* the bottom panel, with the browser's own view of the servers
  toggles,     \* MCPToggled messages on their way to the app
  wish,        \* history: the settings as the user last set them
  sneaked,     \* history: connectors that got their entry through one of their tools
  refreshes, toggled \* bounds

settingVars == <<config, file, toggles, wish, sneaked, toggled>>
serverVars == <<registry, integrated, heard, failed>>
cacheVars == <<registry, integrated, available, heard, failed, connectors>>
sourceVars == <<cacheVars, lock, jobs, cut, panel, settingVars, refreshes>>

NoPanel == [app |-> "none", refreshing |-> FALSE, servers |-> <<>>, live |-> FALSE]
Running(j) == jobs[j] # Off
Keys(c) == {<<s, c[s]>> : s \in Server}

\* A fresh file: every server of it enabled, no connector mentioned.  The thread of the
\* deferred initialisation has begun its discoveries.
Init ==
  /\ registry = {} /\ integrated = FALSE /\ available = {} /\ heard = {} /\ failed = {}
  /\ connectors = [known |-> FALSE, tools |-> {}, names |-> {}]
  /\ config = [x \in Source |-> IF x \in Server THEN Default ELSE Absent]
  /\ file = [x \in Source |-> IF x \in Server \ ProfileOnly THEN Default ELSE Absent]
  /\ lock = "init"
  /\ jobs = [j \in Job |-> IF j = "init" THEN [mcp |-> Keys(config), con |-> "all"] ELSE Off]
  /\ cut = FALSE /\ panel = NoPanel /\ toggles = <<>>
  /\ wish = config /\ sneaked = {} /\ refreshes = 0 /\ toggled = 0

-----------------------------------------------------------------------------
(* Discovery *)

\* get_tools_async: cached servers at once, the others are asked, together.
Missing == Keys(config) \ registry
Cached == {s \in Server : <<s, config[s]>> \in registry}

\* What both halves of _integrate_all_async do up to their first await.  Without anything
\* to ask for they are over.
McpHalf == IF integrated THEN {} ELSE Missing
ConHalf == IF connectors.known THEN "off" ELSE IF lock = "free" THEN "all" ELSE "wait"

\* _integrate_mcp_async after get_tools_async: servers that failed are not cached.
McpAnswer(j) ==
  /\ jobs[j].mcp # {}
  /\ \E up \in SUBSET jobs[j].mcp :
       LET found == {k[1] : k \in up} IN
       /\ registry' = registry \cup up
       /\ available' = available \cup found
       /\ heard' = heard \cup found
       /\ failed' = failed \cup {k[1] : k \in jobs[j].mcp \ up}
  /\ integrated' = TRUE
  /\ jobs' = [jobs EXCEPT ![j].mcp = {}]
  /\ UNCHANGED <<settingVars, connectors, lock, cut, panel, refreshes>>

\* integrate_connectors_async after get_tools_async: purge, then update.
Integrated(tools) == available' = (available \cap Server) \cup tools

\* _discover_all under its lock: the bootstrap request fails, or lists connectors of
\* which some are ready; who waits for the lock then looks into the cache.
ConAnswer(j) ==
  /\ jobs[j].con = "all"
  /\ \E listed \in SUBSET Connector : \E ready \in SUBSET listed :
       /\ connectors' = [known |-> TRUE, tools |-> ready, names |-> listed]
       /\ Integrated(ready)
  /\ lock' = "free"
  /\ jobs' = [jobs EXCEPT ![j].con = "off"]
  /\ UNCHANGED <<settingVars, serverVars, cut, panel, refreshes>>

LockPasses(j) ==
  /\ jobs[j].con = "wait" /\ lock = "free"
  /\ IF connectors.known
     THEN Integrated(connectors.tools) /\ jobs' = [jobs EXCEPT ![j].con = "off"] /\ UNCHANGED lock
     ELSE lock' = j /\ jobs' = [jobs EXCEPT ![j].con = "all"] /\ UNCHANGED available
  /\ UNCHANGED <<settingVars, serverVars, connectors, cut, panel, refreshes>>

-----------------------------------------------------------------------------
(* The browser of MCP servers and connectors *)

Cancelled(j) == [jobs EXCEPT ![j] = Off]
Freed(j) == IF lock = j THEN "free" ELSE lock
Opened == [app |-> "mcp", refreshing |-> FALSE, servers |-> [s \in Server |-> config[s]],
           live |-> TRUE]
MayOpen == Server # {} \/ connectors.names # {}

Open ==
  /\ panel.app = "none" /\ MayOpen
  /\ panel' = Opened
  /\ UNCHANGED <<settingVars, cacheVars, lock, jobs, cut, refreshes>>

\* Mutant: the caches are dropped, the flag that the servers were asked is not.
RefreshKeepsFlag ==
  /\ panel.app = "mcp" /\ refreshes < MaxRefreshes
  /\ refreshes' = refreshes + 1
  /\ panel' = [panel EXCEPT !.refreshing = ~Running("browser")]
  /\ registry' = {} /\ heard' = {} /\ failed' = {}
  /\ available' = {} /\ connectors' = [known |-> FALSE, tools |-> {}, names |-> {}]
  /\ cut' = FALSE
  /\ LET free == Freed("browser") = "free" IN
     /\ jobs' = [jobs EXCEPT !["browser"] = [mcp |-> McpHalf, con |-> IF free THEN "all" ELSE "wait"]]
     /\ lock' = IF free THEN "browser" ELSE lock
  /\ UNCHANGED <<settingVars, integrated>>

\* refresh_remote_tools_async up to its first await, in the worker of the key R: all remote
\* tools and both caches are dropped and asked for again.  The worker is exclusive: one that
\* runs is cancelled, and the message of its end takes the new one's for over.
Refresh ==
  /\ panel.app = "mcp" /\ refreshes < MaxRefreshes
  /\ refreshes' = refreshes + 1
  /\ panel' = [panel EXCEPT !.refreshing = ~Running("browser")]
  /\ registry' = {} /\ integrated' = FALSE /\ heard' = {} /\ failed' = {}
  /\ available' = {} /\ connectors' = [known |-> FALSE, tools |-> {}, names |-> {}]
  /\ cut' = FALSE
  /\ LET free == Freed("browser") = "free" IN
     /\ jobs' = [jobs EXCEPT !["browser"] =
                   [mcp |-> Keys(config), con |-> IF free THEN "all" ELSE "wait"]]
     /\ lock' = IF free THEN "browser" ELSE lock
  /\ UNCHANGED <<settingVars>>

\* The worker is over: the panel may be left again.
Refreshed ==
  /\ panel.refreshing /\ ~Running("browser")
  /\ panel' = [panel EXCEPT !.refreshing = FALSE]
  /\ UNCHANGED <<settingVars, cacheVars, lock, jobs, cut, refreshes>>

\* The panel goes, and its worker with it.
Leaves(app) ==
  /\ panel' = [NoPanel EXCEPT !.app = app]
  /\ jobs' = Cancelled("browser") /\ lock' = Freed("browser")
  /\ cut' = (cut \/ Running("browser"))
  /\ UNCHANGED <<settingVars, cacheVars, refreshes>>

Close == panel.app = "mcp" /\ ~panel.refreshing /\ toggles = <<>> /\ Leaves("none")

\* Enter on a connector that needs authorisation, also while a refresh runs.
Authorise ==
  /\ panel.app = "mcp" /\ toggles = <<>>
  /\ connectors.names \ connectors.tools # {}
  /\ Leaves("auth")

-----------------------------------------------------------------------------
(* The panel that authorises a connector *)

\* R there: refresh_connector_async, for a name the registry still knows; else on to
\* integrate_connectors_async at once.
RefreshConnector ==
  /\ panel.app = "auth" /\ ~Running("auth")
  /\ jobs' = [jobs EXCEPT !["auth"].con = IF connectors.names # {} THEN "one" ELSE ConHalf]
  /\ lock' = IF connectors.names = {} /\ ConHalf = "all" THEN "auth" ELSE lock
  /\ UNCHANGED <<settingVars, cacheVars, cut, panel, refreshes>>

\* Its answer: the connector is gone, not ready, ready, or the request failed.
Drop(c) == [connectors EXCEPT !.tools = @ \ {c}, !.names = @ \ {c}]
NotReady(c) == [connectors EXCEPT !.tools = @ \ {c}]
Ready(c) == [connectors EXCEPT !.tools = @ \cup {c}]
OneAnswer ==
  /\ jobs["auth"].con = "one"
  /\ \E c \in connectors.names :
     \E new \in {Drop(c), NotReady(c), Ready(c)} :
       /\ connectors' = [new EXCEPT !.known = TRUE]
       /\ Integrated(new.tools)
       /\ panel' = IF c \in new.tools THEN Opened ELSE panel
  /\ jobs' = Cancelled("auth")
  /\ UNCHANGED <<settingVars, serverVars, lock, cut, refreshes>>

\* The panel is left, its worker cancelled; the browser opens again if there is anything.
LeaveAuth ==
  /\ panel.app = "auth"
  /\ jobs' = Cancelled("auth") /\ lock' = Freed("auth")
  /\ panel' = IF MayOpen THEN Opened ELSE NoPanel
  /\ UNCHANGED <<settingVars, cacheVars, cut, refreshes>>

\* /reload: a new tool manager, which integrates before the event loop goes on.
Reload ==
  /\ panel.app = "none" /\ \A j \in Job : ~Running(j)
  /\ refreshes < MaxRefreshes /\ refreshes' = refreshes + 1
  /\ \E up \in SUBSET Missing :
       /\ registry' = registry \cup up
       /\ heard' = Cached \cup {k[1] : k \in up}
       /\ failed' = {k[1] : k \in Missing \ up}
  /\ integrated' = TRUE /\ cut' = FALSE
  /\ \E listed \in SUBSET Connector : \E ready \in SUBSET listed :
       connectors' = IF connectors.known THEN connectors
                     ELSE [known |-> TRUE, tools |-> ready, names |-> listed]
  /\ available' = heard' \cup connectors'.tools
  /\ UNCHANGED <<settingVars, lock, jobs, panel>>

-----------------------------------------------------------------------------
(* Toggles *)

\* updated_tool_list, or the flag of the whole source (tool = "").
Set(setting, tool, off) ==
  IF tool = "" THEN [setting EXCEPT !.disabled = off]
  ELSE [setting EXCEPT !.tools = IF off THEN @ \cup {tool} ELSE @ \ {tool}]
Entry(setting) == IF setting.entry THEN setting ELSE Default

\* D and E: the settings the panel holds are changed (a connector's are the live ones, a
\* server's those of the moment the panel opened) and the app is told.
Toggle(x, tool, off) ==
  /\ panel.app = "mcp" /\ toggled < MaxToggles
  /\ IF x \in Server THEN TRUE ELSE x \in connectors.names
  /\ tool # "" => x \in available
  /\ toggled' = toggled + 1
  /\ panel' = IF x \in Server THEN [panel EXCEPT !.servers[x] = Set(@, tool, off)] ELSE panel
  /\ config' = IF x \in Connector \/ panel.live
               THEN [config EXCEPT ![x] = Set(Entry(@), tool, off)] ELSE config
  /\ toggles' = Append(toggles, [x |-> x, tool |-> tool, off |-> off])
  /\ wish' = [wish EXCEPT ![x] = Set(Entry(@), tool, off)]
  /\ sneaked' = IF ~wish[x].entry /\ tool # "" THEN sneaked \cup {x} ELSE sneaked
  /\ UNCHANGED <<cacheVars, lock, jobs, cut, file, refreshes>>

\* persist_mcp_toggle: a server that the file does not have is left alone.
Persisted(t) ==
  IF t.x \in ProfileOnly THEN file ELSE [file EXCEPT ![t.x] = Set(Entry(@), t.tool, t.off)]

\* refresh_config: the settings are read from the file again, into new objects.
Loaded(f) == [x \in Source |-> IF x \in ProfileOnly THEN Default ELSE f[x]]

\* Mutant: the settings in use are written to the file, not the change.
ToggledAll ==
  /\ toggles # <<>>
  /\ file' = [x \in Source |-> IF x = Head(toggles).x THEN config[x] ELSE file[x]]
  /\ config' = Loaded(file')
  /\ panel' = [panel EXCEPT !.live = FALSE]
  /\ toggles' = Tail(toggles)
  /\ UNCHANGED <<cacheVars, lock, jobs, cut, wish, sneaked, refreshes, toggled>>

\* on_mcpapp_mcptoggled.
Toggled ==
  /\ toggles # <<>>
  /\ file' = Persisted(Head(toggles))
  /\ config' = Loaded(file')
  /\ panel' = [panel EXCEPT !.live = FALSE]
  /\ toggles' = Tail(toggles)
  /\ UNCHANGED <<cacheVars, lock, jobs, cut, wish, sneaked, refreshes, toggled>>

Next ==
  \/ \E j \in Job : McpAnswer(j) \/ ConAnswer(j) \/ LockPasses(j)
  \/ Open \/ Refresh \/ Refreshed \/ Close \/ Authorise
  \/ RefreshConnector \/ OneAnswer \/ LeaveAuth \/ Reload
  \/ \E x \in Source, tool \in Tool \cup {""}, off \in BOOLEAN : Toggle(x, tool, off)
  \/ Toggled

-----------------------------------------------------------------------------
(* Properties *)

TypeOK ==
  /\ registry \subseteq Server \X Setting /\ integrated \in BOOLEAN
  /\ available \subseteq Source /\ heard \cup failed \subseteq Server
  /\ connectors \in [known : BOOLEAN, tools : SUBSET Connector, names : SUBSET Connector]
  /\ lock \in Job \cup {"free"} /\ cut \in BOOLEAN
  /\ \A j \in Job : /\ jobs[j].mcp \subseteq Server \X Setting
                    /\ jobs[j].con \in {"off", "all", "one", "wait"}
                    /\ (lock = j) = (jobs[j].con = "all")
  /\ \A x \in Source : {config[x], file[x], wish[x]} \subseteq Setting

\* Once nothing is under way, and unless a refresh was cut off, every server was asked, and
\* the tools of those that answered and of the connectors that are ready are there, and no
\* others, whatever the order in which the thread, the refreshes and their ends came.
NothingLost ==
  (\A j \in Job : ~Running(j)) /\ ~cut =>
    /\ available = heard \cup connectors.tools
    /\ Server \subseteq heard \cup failed
    /\ connectors.tools \subseteq connectors.names

\* When the app has handled the toggles, the file and the settings in use are what the user
\* set last and what the panel shows, for servers of the file and for connectors that were
\* not enabled behind the user's back by toggling one of their tools.
TogglesKept ==
  toggles = <<>> =>
    \A x \in Source \ ProfileOnly :
      /\ x \notin sneaked => config[x] = wish[x]
      /\ config[x] = file[x]
      /\ panel.app = "mcp" /\ x \in Server => panel.servers[x] = config[x]

ToolSourcesSpec == Init /\ [][Next]_sourceVars
=============================================================================
