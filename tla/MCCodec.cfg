\* The path of a label to the screen, and the two decoders on any bytes.
SPECIFICATION Spec
CONSTANTS
  Chars <- MCChars
  LineChars = 3
  MaxLines = 2
  MaxText = 6
  MaxTyped = 5
  FirstBytes = {0, 1, 2, 129, 130}
  HeaderBytes = {0, 1, 3, 6, 7, 255}
  TextBytes = {1}
  MaxLen = 10
INVARIANTS
  LabelArrives
  PartialLineHarmless
  NothingLostBetweenLines
  WordsKeptWhole
  StreamDecodable
  DecodersAgree
CHECK_DEADLOCK FALSE
