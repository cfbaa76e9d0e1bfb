SPECIFICATION Spec
CONSTANTS
  Pkg = {"lib", "app"}
  Deps <- MCDeps
  Install <- MCInstall
  Override = {"app"}
  HasPatches = {"lib"}
  HostPrereq = {}
  Targets = {"lib", "app"}
  MaxEdits = 1
  MaxCmds = 1
  MaxFaults = 0
PROPERTIES RebuildKeepsConfiguration
