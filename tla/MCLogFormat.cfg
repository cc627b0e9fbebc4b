SPECIFICATION FormatSpec
CONSTANTS
  Chars = {"x"}
  Elements = {"x", "%", "NUL", "number"}
  Arguments <- MCArguments
  MaxLen = 6
  MaxArgs = 3
INVARIANT
  LogFormatsMessage
CHECK_DEADLOCK FALSE
