SPECIFICATION KprintfSpec
CONSTANTS
  Rows = 2
  Cols = 2
  Mons = 4
  LastRow = 1
  Text <- MCText
  Call <- MCCall
  Key <- MCKey
  Plain <- MCPlain
INVARIANT Printed
PROPERTY ImplementsTerminal
