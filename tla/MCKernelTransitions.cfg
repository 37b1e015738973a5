SPECIFICATION Spec
CONSTANTS
  k1 = k1
  k2 = k2
  k3 = k3
  e1 = e1
  e2 = e2
  s1 = s1
  s2 = s2
  Keys = {k1, k2, k3}
  Entities = {e1}
  States <- MCStates
  Callers <- MCCallers
  Registry <- MCRegistry
  UnknownIds <- MCUnknown
  NoRow = NoRow
  NoCommand = NoCommand
  Sessions = {s1, s2}
  NoSession = NoSession
  NoRequest = NoRequest
  NoResult = NoResult
  MaxFaults = 1
SYMMETRY MCSymmetry
INVARIANTS
  TypeOK
  AuditedOncePerKey
  AuditExplainsEntity
  AnswersAgree
  Isolation
PROPERTY Serializable
