SPECIFICATION PhaseSpec
CONSTANTS
  FrameBits = 3
  Margin = 2
  Levels = {0, 300, 2000, 4100, 20000, 64440}
INVARIANT AmplifiesAfterAOne
