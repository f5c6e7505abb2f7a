SPECIFICATION ScraperSpec
CONSTANTS
  ScrapeJobs = {"j1", "j2"}
  Editors = {"owner"}
  Novels <- MCNovels
  Offsets <- MCOffsets
  Limits = {1, Unlimited}
  Forces = {TRUE, FALSE}
  Unlimited = Unlimited
  NoNum = NoNum
  MaxRedirects = 1
  MaxNumber = 300
  MaxScheduled = 2
  MaxStops = 1
  MaxRenumbered = 1
  RenumberAnytime = FALSE

  
  
PROPERTIES
  LimitIsReached
  EveryCrawlEnds
CHECK_DEADLOCK FALSE
