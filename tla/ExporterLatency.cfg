\* One scraper is enough: a run that raises never gets to the latency figures.
CONSTANTS
  Scrapers = {s1}
  Checks = {c1}
  Main = Main
  MaxRuns = 3
SPECIFICATION Spec
INVARIANTS
  LatencyUpIsHonest
