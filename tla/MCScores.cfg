SPECIFICATION GuessSpec
CONSTANT NumColors = 4
INVARIANTS
  NeverOverscores
  OverscoresRepeatsOnlyProj1
