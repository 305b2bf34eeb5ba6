CONSTANTS
  Tabs = {t1, t2}
  MaxTokens = 3
  MaxFaults = 1
SPECIFICATION FairSpec
INVARIANT TypeOK
PROPERTIES
  OnlyStaleAnswersLogOut
  ExpiredSessionLeaves
