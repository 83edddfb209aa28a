\* Six prices, zero among them, for four levels: the side fills up, evicts,
\* discards and empties.
CONSTANTS
  MaxLevels = 4
  Prices = {0, 1, 2, 3, 4, 5}
  Qtys = {0, 1, 2}
SPECIFICATION SideSpec
INVARIANTS SideTypeOK Sorted
PROPERTY IsDepthMap
