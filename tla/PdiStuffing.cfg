CONSTANTS
  SOP = 209
  STF = 222
  EOP = 223
  MaxFrames = 2
CONSTANT
  Payloads <- MCPayloads
SPECIFICATION FrameSpec
CHECK_DEADLOCK FALSE
INVARIANT RoundTrips
