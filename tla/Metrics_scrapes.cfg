CONSTANTS
  Request = {r1}
  Id = {i1}
  None = None
  Tenant = {t}
  exposeInternalErrors = FALSE
  Scrape = {s1, s2}
  Queue = {q1}
  Source = {p1}
  Depth = {d1, d2}
  Absent = Absent
SPECIFICATION ScrapesSpec
SYMMETRY Symmetry
INVARIANTS RenderedWasTrue LoneScrapeIsExact
