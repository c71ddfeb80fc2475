SPECIFICATION DataSpec
CONSTANTS
  Calls = {c1, c2}
  Versions = {v1, v2}
  Stamps = {t1}
  None = None
  Idle = Idle
  Refused = Refused
  Empty = Empty
  Torn = Torn
  Unknown = Unknown
  BackupIds = {b1}
  Files = {f1}
  Readers = {r1}
  Sweeps = {s1, s2}
  Chunks = 2
  Ttl = 2
  MaxLag = 2
  MaxCount = 2
  MaxPairs = 5
  NoKey = NoKey
  Alice = Alice
  Bob = Bob
  MaxMessages = 2
  MaxSequence = 4
  NoSession = NoSession
  Shared = Shared
  Garbled = Garbled
  Servers = {server1, server2}
  MaxHellos = 2
  Directions = {up, down}
  MaxFrames = 3
  Nothing = Nothing
  Base = 40
  Words <- MCWords
  Tokens <- MCTokens
  Numbers <- MCNumbers
  Absent = Absent
  NotAJid = NotAJid
  Args <- MCArgs
  Requests <- MCRequests
  MaxExtra = 2
  MaxDepth = 2
INVARIANTS
  LoadableWhenClean LastWriterLasts SnapshotsCurrent DecryptsWhole FilesKeptForTtl
  BundlesAnswered ReadsTrue InStep KeysAgree Delivered CutsRefused
PROPERTIES ImplementsRegister FilesExpire FramesInStep
CHECK_DEADLOCK FALSE
