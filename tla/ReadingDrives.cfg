SPECIFICATION DeckSpec
CONSTANTS
  xButton = xButton
  paddle = paddle
  l1 = l1
  l3 = l3
  aButton = aButton
  menu = menu
  DeckButtons = {xButton, paddle, l1, l3, aButton, menu}
  ButtonDoes <- MCButtonDoes
  DeckChords <- MCDeckChords
  Paddles = {paddle}
  SdlPaddles = TRUE
  DeckPanes = {left, right}
  AnalogPanes = {left}
  TopThrottle = 1
  DeckInputs = 4
  DeckTrouble = 1
PROPERTIES
  ReadingDoesNotDrive
CHECK_DEADLOCK FALSE
