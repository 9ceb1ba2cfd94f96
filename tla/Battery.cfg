CHECK_DEADLOCK FALSE
CONSTANTS
  Fields = {"battery_vol", "cycle_count"}
  Cuts = {1, 2, 5, 9}
  MaxAsked = 4
  MaxOpens = 2
SPECIFICATION BatterySpec
INVARIANTS BatteryTypeOK OwnUnlessDisturbed
PROPERTY OutOfStep
