SPECIFICATION Spec
CONSTANTS
  t1 = t1
  t2 = t2
  Addrs = {1, 2, 3}
  Sizes = {1, 2}
  Modes <- SafeModes
  MaxCalls = 3
  MaxTests = 2
  Word = 64
INVARIANTS
  TableExact
  AccountingExact
  LeakExact
  AlarmExact
