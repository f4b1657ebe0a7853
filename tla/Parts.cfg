SPECIFICATION PartsSpec
CONSTANTS MaxLog = 3
MaxInFlight = 2
MaxUnnumbered = 1
MaxRetries = 3
MaxTasks = 2
MaxLost = 1
RemoteCall = {"c"}
MaxWaits = 2
MaxTold = 3
ScheduledLoop = {"l1", "l2"}
MaxLoops = 1
MaxSessions = 2
MaxSteps = 3
MaxCancels = 2
ShellCall <- CommandLines
FileCall <- PathMarks
MaxAnswers = 2
CHECK_DEADLOCK FALSE
INVARIANTS PartsTypeOK CalmUserServed RemoteFollowed MetadataSettles EndsClean PermissionsHold ShownWhole SettingsHold ToolsRight
PROPERTIES ReadsTheFeed WaitsEnd
