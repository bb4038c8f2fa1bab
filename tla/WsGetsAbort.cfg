SPECIFICATION LeaveSpec
CONSTANTS
  tip1 = tip1
  tip2 = tip2
  soft1 = soft1
  soft2 = soft2
  repoA = repoA
  High = {tip1, tip2}
  Low = {soft1, soft2}
  Scope <- MCScope
  MaxAttempts <- MCMaxAttempts
  None = None
INVARIANTS LeftGetNotRetried
