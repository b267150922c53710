CONSTANTS
  Procs = {p1, p2}
  MaxLoads = 3
  MaxKills = 1
  None = None
SPECIFICATION FairSpec
INVARIANTS PulseHits PollMeansFinished BusyIsKnown ResultsMine
PROPERTY WaitsEnd
