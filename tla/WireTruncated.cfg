SPECIFICATION WireSpec
CONSTANTS
  Base = 40
  Words <- MCWords
  Tokens <- MCTokens
  Numbers <- MCNumbers
  Absent = Absent
  NotAJid = NotAJid
  Args <- MCArgs
  Requests <- MCRequests
  MaxExtra = 2
  MaxDepth = 2
INVARIANT TruncatedRefused
CHECK_DEADLOCK FALSE
