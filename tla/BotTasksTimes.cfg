\* Every reminder, wake-up and do-not-disturb command over the word
\* vocabulary, two queue slots, four commands.
CONSTANTS
  MaxTasks = 2
  MaxCmds = 4
  StackValues = {0, 200}
  HistorySize = 8
SPECIFICATION Spec
INVARIANT
  TasksAtRealTimes
CHECK_DEADLOCK FALSE
