SPECIFICATION FigletSpec
CONSTANTS
  Message <- MCMessage
  Banners <- MCBanners
  Arts <- MCArts
  Timeout = 3
  Addresses = 2
  BufSize = 6
INVARIANTS
  PrintedIsAnswer
PROPERTIES
  EndsUnlessClosed
\* The client ends.
CHECK_DEADLOCK FALSE
