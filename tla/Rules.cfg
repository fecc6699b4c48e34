CONSTANTS
  HoursADay = 6 ZoneHours = 2 MaxRows = 2 MaxJobs = 1 MaxIssues = 3 MonthHours = 36 WeekHours = 12 RecentHours = 24
  NoText = NoText Unset = Unset
  PlatformOwners = {"ann", "ben"}
  DefaultRules <- MCDefaultRules
  Users <- MCUsers
  Facts <- MCFacts
  Worlds <- MCWorlds
  Periods <- MCPeriods
  Trails <- MCTrails
  Clusters <- MCClusters
  Assets <- MCAssets
  Monitors <- MCMonitors
  Platforms <- MCPlatforms
  Links <- MCLinks
  Drafts <- MCDrafts
  References <- MCReferences
  Directory <- MCDirectory
  Hidden <- MCHidden
  Ticks = 2 HourMinutes = 4 DayHours = 3 WeekDays = 3
  MonthDays <- MCMonthDays
  Epoch = 48 Shift = 5 Horizon = 8 Floor = 2 EarlyWindow = 3 Tolerance = 2 Fallback = 9
  Monday = 504 Samples = 5 NoInterval = 12 AlignCap = 4 MaxFires = 9
  Crons <- MCCrons
  Instants <- MCInstants
  Moments <- MCMoments
  Customs = {2, 7}
  Gaps <- MCGaps
  Band = 1
SPECIFICATION Spec
INVARIANTS OneProjectRule OneReading FiguresHold TimelineKeeps FormsForetell DraftsGrounded
  NextFireIsLeast RunsMatchFires StalenessFair
CHECK_DEADLOCK FALSE
