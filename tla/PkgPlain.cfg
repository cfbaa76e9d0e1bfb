SPECIFICATION Spec
CONSTANTS
  Pkg = {"lib", "app", "host-ccache"}
  Deps <- MCDeps
  Install <- MCInstall
  Override = {}
  HasPatches = {"lib"}
  HostPrereq = {"host-ccache"}
  Targets = {"lib", "app"}
  MaxEdits = 0
  MaxCmds = 1
  MaxFaults = 1
INVARIANTS DepsInstalled
PROPERTIES RebuildKeepsConfiguration
