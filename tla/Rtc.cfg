SPECIFICATION RtcFairSpec
CONSTANTS
  Groups = {0, 1}
  RTC_FREQ = 8
  RTC_OFFSET = 4
  MIN_RTC_RATE = 2
  MAX_RTC_RATE = 8
  Inputs = {0, 2, 3, 8}
  MaxDepth = 2
INVARIANTS DividerSet WaitExact
PROPERTIES ReadReturns
