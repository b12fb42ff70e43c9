\* Two scrapers and one check; two refreshes, the one of main() included, and
\* those the threads add that had found the interval over.
CONSTANTS
  Scrapers = {s1, s2}
  Checks = {c1}
  Main = Main
  MaxRuns = 2
SPECIFICATION FairSpec
INVARIANTS
  PageTellsARecentRun
  AloneIsConsistent
PROPERTIES
  ScrapeAnswered
