\* Two threads, one kind of hint; the 32-bit time turns negative at 6 and does not come round.
SPECIFICATION TimingSpec
CONSTANTS
    h1 = h1
    p1 = p1
    p2 = p2
    Senders = {p1, p2}
    Hints = {h1}
    Interval <- MCInterval
    Boost <- MCBoost
    Gap = 1
    Wrap = 12
    MaxTime = 9
INVARIANTS
    Maintained
PROPERTY DroppedOnlyWhileBoosted
