SPECIFICATION Spec
CONSTANTS
  Char <- MCChar
  Encode <- MCEncode
  Decode <- MCDecode
  ToDecimal <- MCToDecimal
  SimpleAtoi <- MCSimpleAtoi
  NotAnInteger = 0
  OwnContexts <- MCOwnContexts
  MaxHeaderLength = 11
INVARIANTS
  WrongFieldCountThrows
