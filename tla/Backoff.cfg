SPECIFICATION FairSpec
CONSTANTS
  Raw <- MCRaw
  Windows <- MCWindows
  Jitters <- MCJitters
  Results = {"success", "no_change", "tool_error"}
  Delays = {0, 120}
INVARIANTS TypeOK NextInWindow WaitBounded
PROPERTIES NeverShortens BacksOffToMax
