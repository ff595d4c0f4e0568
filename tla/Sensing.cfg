CONSTANTS
  battery = battery
  heat = heat
  SubMinds = {battery, heat}
  Top = 3
  Low = 2
  Bands <- TheBands
  Hysteresis = 1
  ResetMargin = 1
  MaxSignals = 2
  MaxToggles = 1
  None = None
SPECIFICATION SensingFairSpec
CHECK_DEADLOCK FALSE
 
PROPERTY NothingHangs
