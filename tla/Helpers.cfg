SPECIFICATION HelpersSpec
CONSTANTS
  Char <- MCChar
  Encode <- MCEncode
  Decode <- MCDecode
  ToDecimal <- MCToDecimal
  SimpleAtoi <- MCSimpleAtoi
  NotAnInteger = 0
  OwnContexts <- MCOwnContexts
  MaxHeaderLength = 11
  Inputs <- MCInputs
  Texts <- MCTexts
  SizeModulus = 65536
  t1 = t1
  t2 = t2
  Threads = {t1, t2}
  BufferSize = 32
  MaxUuids = 3
  NoTime <- MCNoTime
  TicksPerMilli = 2
  IntervalSec = 1
  Steps = {1, 1999, 2003}
  SystemTimes = {3}
  MaxSteps = 3
  MaxAdjustments = 1
  MaxPoints = 1
  MaxLogs = 1
SYMMETRY ThreadSymmetry
INVARIANTS
  TypeOK
  ParsesExactly
  OwnHeaderUnderstood
  CodecTypeOK
  ReadsInside
  AssertHolds
  DecodeExact
  RoundTrip
  NoSeparator
  FreshBytes
  UuidFormat
  TimesMeasureSpan
  LogsBeforeEnd
  NeverEarly
  NeverLate
