-------------------------- MODULE MCObservability --------------------------
(* Metrics beside RequestPipeline, for TLC.  A scrape awaits nothing that the  *)
(* middleware does and is not counted by it, so each is checked while the     *)
(* other is at rest; RequestPipeline's own instances are MCRequestPipeline's. *)
EXTENDS RequestPipeline, TLC

CONSTANTS Scrape, Queue, Source, Depth, Absent

VARIABLES truth, gauge, scraping, work, value, output, since, seen, lone

Metrics == INSTANCE Metrics WITH pc <- scraping

ASSUME MetricsConstants == Metrics!MetricsAssumption

ScrapesInit ==
  /\ Init
  /\ service = [logger |-> FALSE, middleware |-> FALSE, reporter |-> FALSE]
  /\ Metrics!Init

ScrapesSpec ==
  /\ ScrapesInit
  /\ [][Metrics!Next /\ UNCHANGED vars]_<<vars, Metrics!vars>>

\* Scrapes, queues and depths are interchangeable; no property orders them.
Symmetry == Permutations(Scrape) \union Permutations(Queue) \union Permutations(Depth)

\* The properties of Metrics, stated there of MetricsService.render.
RenderedWasTrue      == Metrics!RenderedWasTrue
LoneScrapeIsExact    == Metrics!LoneScrapeIsExact
FailedSourceIsAbsent == Metrics!FailedSourceIsAbsent
=============================================================================
