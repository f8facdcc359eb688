CONSTANTS
  h = h
  h8080 = h8080
  o = o
  NoAddress = NoAddress
  Host = {h, h8080, o}
  Hostname <- MCHostname
  Segment = {"", "dir", "page"}
  Empty = ""
  Path <- MCPath
  Exec = {e1, e2}
  Raw <- MCRaw
  Redirect <- MCRedirect
  Script <- MCScript
  Answers <- MCAnswers
  Hrefs <- MCHrefs
  TryLim = 2
  TryBaseInterval = 5
  Width = 5
SPECIFICATION FairSpec
INVARIANTS TypeOK NamesStable
PROPERTIES RetriesSpread ShutdownEnds
CHECK_DEADLOCK FALSE
