\* One conversion beside one request that cleans up; no call fails.
SPECIFICATION Spec
CONSTANTS
  Artifacts = {source, mix}
  Source = source
  Requests = {request}
  Conversion = conversion
  NoSession = NoSession
  MaxFaults = 0
INVARIANTS NamedFilesKept
CHECK_DEADLOCK FALSE
