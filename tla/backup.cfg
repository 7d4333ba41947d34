CONSTANTS
  Files <- TwoFiles
  SysLog = "messages"
  MaxLogged = 6
  MaxTrouble = 1
SPECIFICATION Spec
INVARIANTS GenerationsInOrder
PROPERTIES  KeepsLastBoot SentinelMeansAssembled
