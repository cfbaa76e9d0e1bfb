SPECIFICATION FairSpec
CONSTANTS
  Pkg = {"lib", "app"}
  Deps <- MCDeps
  Install <- MCInstall
  Override = {"app"}
  HasPatches = {"lib"}
  HostPrereq = {}
  Targets = {"lib", "app"}
  MaxEdits = 1
  MaxCmds = 2
  MaxFaults = 1
INVARIANTS TypeOK StampsHonest DepsInstalled
PROPERTIES ImageSound WholePackages RebuildTakesEdits EventuallyBuilt
