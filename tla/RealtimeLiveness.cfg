\* What the realtime path and the tabs must get done, in smaller instances.
CONSTANTS
  Parts = {"publish", "stream", "store", "tabs"}
  Applications = {a1}
  Publishers = {p1}
  MaxPending = 1
  MaxChanges = 2
  MaxEvents = 2
  MaxCuts = 2
  MaxReconnects = 1
  MaxBacklog = 1
  Retained = 2
  MaxVersion = 1
  MaxUserActions = 1
  MaxEarly = 1
  Tabs = {t1, t2}
  MaxCloses = 1
SPECIFICATION MCSpec
PROPERTIES
  AnnouncedIsSeen
  ReplayEnds
  TerminalIsShown
  OneLeaderComes
CHECK_DEADLOCK FALSE
