\* Two scrapers: overlapping refreshes leave a mixture behind.
CONSTANTS
  Scrapers = {s1, s2}
  Checks = {c1, c2}
  Main = Main
  MaxRuns = 2
SPECIFICATION Spec
INVARIANTS
  CountMatchesChecks
