SPECIFICATION Spec
\* A request ends when it is answered.
CHECK_DEADLOCK FALSE
CONSTANTS
  MaxKeyLen = 4
  Paths <- MCPaths
  Keys <- MCKeys
  UserKeys <- MCUserKeys
INVARIANTS
  KeySurvivesTheUrl
  AdmittedToOwnScope
  LogFieldsAreClean
