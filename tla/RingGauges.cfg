\* A ring of two slots whose counters wrap after four rounds, so that a wrapped
\* pending() is far from every honest one; there is no other bound.
CONSTANTS
  RingSize = 2
  Wrap = 8
  Ticks = {t1, t2}
  NoTick = NoTick
SPECIFICATION GaugesSpec
INVARIANTS TypeOK NoSharedSlot SlotLifecycle IInv GaugeMissesWhatCameBetween
PROPERTIES IsBoundedQueue IsFairQueue SpinnerGetsThrough
