CONSTANT MaxMinor = 15
SPECIFICATION CalcSpec
INVARIANT OverflowIsExact
PROPERTY OnlyMinIsInexact
