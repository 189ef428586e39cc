CONSTANTS
  Presets <- MCPresets
  default_warmup = 2
  default_iterations = 2
  Argvs <- MCArgvs
  TradesOf <- MCTradesOf
  Room = 2
  MaxSamples = 3
SPECIFICATION FairSpec
INVARIANTS TotalsAreExact OneReadingPerEvent ReservoirIsFaithful ReportsWhatWasAsked
PROPERTY PresetEnds
