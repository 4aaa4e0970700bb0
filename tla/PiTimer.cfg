SPECIFICATION Spec
CONSTANTS
  SystemTimer = 20
  Mailbox = 30
  Addresses = {20, 21, 22, 24, 25, 30}
  Lengths = {2, 4, 6}
  MaxTime = 6
  MaxResets = 2
INVARIANTS ObserversLive HighLowHighIsTime BlockIsTime
