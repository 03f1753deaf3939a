SPECIFICATION FairSpec
CONSTANTS
  Client = {p1, p2}
  Name = {n1}
  Content = {"good", "bad"}
  ChanCap = 1
  Timed = {TRUE, FALSE}
  Hashed = {TRUE}
  MaxJobs = 2
  MaxCancels = 1
INVARIANTS TypeOK OnePlace OkMeansVerified
PROPERTY DownloadEnds
CHECK_DEADLOCK FALSE
