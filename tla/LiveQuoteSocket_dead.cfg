SPECIFICATION PartSpec
CONSTANTS
  f1 = f1
  f2 = f2
  r1 = r1
  y1 = y1
  y2 = y2
  s1 = s1
  s2 = s2
  s3 = s3
  s4 = s4
  Symbols = {y1}
  Fetchers = {f1}
  SymbolOf <- OneSymbol
  Requesters = {}
  Streams = {s1, s2}
  MaxAttempts = 3
  Threshold = 3
  NoStream = NoStream
  v1 = v1
  v2 = v2
  Viewers = {v1, v2}
  MaxCount = 2
  MaxBreaks = 2
PROPERTIES
  FailedSocketPolls
