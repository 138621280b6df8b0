\* Three operators run any of the four commands against one miner.
CONSTANTS
  i1 = i1  i2 = i2  i3 = i3
  o1 = o1  o2 = o2  w1 = w1  w2 = w2  k1 = k1
  None = None
  Invocations <- MCInvocations
  Owners <- MCOwners
  Workers <- MCWorkers
  Keys <- MCKeys
  InitInfo <- MCInitInfo
  Delay = 1
  MaxHeight = 2
  Commands = {"control", "owner", "propose", "confirm", "withdraw", "repay", "list", "compact"}
  Amounts = {1}
  Width = 4
  MaskArgs = {2, 15}
  SafeLast = 5
  MaxSectorNumber = 7
SYMMETRY MCSymmetry
SPECIFICATION Spec
\* Every invocation returns and the chain stops growing.
CHECK_DEADLOCK FALSE
INVARIANTS TypeOK
