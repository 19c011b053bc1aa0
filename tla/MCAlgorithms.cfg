SPECIFICATION Spec
CONSTANTS
  Uses <- MCUses
  StrChars <- MCStrChars
  ArgChars <- MCArgChars
  MaxStr <- MCMaxStr
  MaxArg <- MCMaxArg
  Upper <- MCUpper
  Replacements <- MCReplacements
  Components <- MCComponents
  Subscripts <- MCSubscripts
  Keys <- MCKeys
  Scalars = {"1", "x"}
  Ints = {"1"}
  Types <- MCTypes
  MaxNodes = 5
  MaxDepth = 2
  Names = {"x", "y"}
  Matching = {"x"}
  Depths = 2
  Unreadable <- MCUnreadable
  MaxChanges = 2
  NoDir = NoDir
  Endless = Endless
  NotASize = NotASize
INVARIANTS GlobMatches TextsKept LastOfNameWins SaveLoad SteadyFound
CHECK_DEADLOCK FALSE
