\* Four slots and three rounds of them.
CONSTANTS
  RingSize = 4
  MaxTicks = 12
SPECIFICATION Spec
INVARIANTS NoDataRace RightTick
