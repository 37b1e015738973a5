SPECIFICATION Spec
CONSTANTS
  web = web
  pdf = pdf
  A = A
  B = B
  webA = webA
  pdfA = pdfA
  webB = webB
  p = p
  q = q
  Current = Current
  None = None
  Reports = {A, B}
  Clients = {c1, c2}
  Channels = {web, pdf}
  Renders = {webA, pdfA, webB}
  ReportOf <- RenderReports
  ChannelOf <- RenderChannels
  Eligible = {webA, pdfA, webB}
  Prints = {p, q}
  PrintOf <- SamePrints
  Operations = {"publish", "promote", "unpublish", "rollback", "invalidate", "withdraw"}
  MaxTransactions = 3
  MaxChanges = 1
SYMMETRY Symmetry
INVARIANTS PublishedOnce
PROPERTIES
  PointersAreAccounted
  LoneInvalidationIsExact
  FrozenAtLockStays
  DeliveredWasFresh
CHECK_DEADLOCK FALSE
