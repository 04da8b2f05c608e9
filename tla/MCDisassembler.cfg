SPECIFICATION Spec
CONSTANTS
  Byte = 256
  Streams <- MCStreams
  Codes <- MCCodes
  MaxReports = 2
INVARIANTS
  PrintsTheCode
  RecordsStandForBytes
PROPERTIES
  PrintingEnds
