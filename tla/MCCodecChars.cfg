\* Violated: encode cuts the text inside a character.
SPECIFICATION Spec
CONSTANTS
  Chars <- MCLetters
  LineChars = 3
  MaxLines = 2
  MaxText = 6
  MaxTyped = 5
  FirstBytes = {}
  HeaderBytes = {}
  TextBytes = {}
  MaxLen = 0
INVARIANT CharactersKeptWhole
CHECK_DEADLOCK FALSE
