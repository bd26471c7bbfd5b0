SPECIFICATION Spec
CONSTANTS
  Timers = {"timer", "once"}
  Readers = {"reader"}
  Blockers = {"blocker"}
  Recurring = {"timer"}
  Delay = 1
  SelectTimeout = 1
  Programs <- MCPrograms
  Threads = {"a", "b", "c"}
  MaxTime = 2
INVARIANT TasksInPlace
PROPERTIES TimersRight AllWoken
CHECK_DEADLOCK FALSE
