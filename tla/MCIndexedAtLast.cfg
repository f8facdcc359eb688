CONSTANTS
  q1 = q1
  q2 = q2
  x = x
  y = y
  long = long
  blank = blank
  Query = {q1, q2, noQuery}
  NoQuery = noQuery
  Limit <- MCLimit
  Similarity <- MCSimilarity
  MinSimilarity = 3
  Page = {p, q}
  Content = {x, y, long, blank}
  TooLong = {long}
  Blank = blank
  NoContent = NoContent
  NoVector = NoVector
  MaxErrors = 1
  MaxCrawls = 2
  MaxFailures = 0
SPECIFICATION FairSpec
PROPERTIES IndexedAtLast
CHECK_DEADLOCK FALSE
