CONSTANTS
  Types <- TwoTypes
  CpuUsages <- Usages
  Interval = 6
  WordSize = 150
  MaxWork = 2
  MaxWait = 1
  MaxLoops = 4
SPECIFICATION Spec
INVARIANTS
  CpuShare
  ReportsCover
