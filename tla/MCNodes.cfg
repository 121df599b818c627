SPECIFICATION Spec
CONSTANTS
  r1 = r1
  r2 = r2
  Several = Several
  Request <- requests
  Caller <- requests
  Sides <- sides
  Contents <- contents
  Cuts = {1}
  Partitions <- partitions
  Translations <- translations
  Inputs <- inputs
  Computations <- computations
INVARIANTS
  JoinsAreRight
  AppendsAreRight
  TempFilesAccounted
  PartitionsAreRight
  TranslationsAreRight
  AggregatesAreRight
  StoredColumnsAreRight
  CyclesAreRefused
CHECK_DEADLOCK FALSE
