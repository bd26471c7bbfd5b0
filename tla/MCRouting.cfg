SPECIFICATION Spec
CONSTANTS
  MaxEntries = 3
  Address <- MCAddress
  Entry <- MCEntry
  Lengths = {0, 7, 8, 9, 16, 17, 24, 25, 32}
INVARIANTS BestMatch MatchIsPrefix
