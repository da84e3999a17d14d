SPECIFICATION Spec
CONSTANTS
  Formats <- MCFormats
  Lengths <- MCLengths
  Names <- MCNames
  TextSize = 42
  LineSize = 2048
  MessageSize = 1024
INVARIANT TypeOK
INVARIANT LineFits
