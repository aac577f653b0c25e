SPECIFICATION FairSpec
CONSTANTS
  once = once periodic = periodic
  Timer <- MCTimer
  Repeat = {periodic}
  Interval <- MCInterval
  Horizon = 3
  MaxTime = 4
  NoTime = notime
  NoTimer = notimer
CHECK_DEADLOCK FALSE
INVARIANTS SetsAgree EachTimerInOnePlace ArmedForEarliest
PROPERTIES TimersFire ImplementsTimerService
