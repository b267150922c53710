SPECIFICATION FairSessionSpec
CONSTANTS
  Cfgs <- MCCfgs
  Designs = 4
  MaxTeams = 3
  MaxFiles = 2
INVARIANTS OwnTeam
PROPERTY SessionEnds
