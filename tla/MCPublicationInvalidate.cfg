SPECIFICATION Spec
CONSTANTS
  web = web
  pdf = pdf
  A = A
  B = B
  webA = webA
  pdfA = pdfA
  webB = webB
  p = p
  q = q
  Current = Current
  None = None
  Reports = {A, B}
  Clients = {c1, c2}
  Channels = {web}
  Renders = {webA, webB}
  ReportOf <- WebReports
  ChannelOf <- WebChannels
  Eligible = {webA, webB}
  Prints = {p}
  PrintOf <- SamePrints
  Operations = {"publish", "promote", "unpublish", "rollback", "invalidate", "withdraw"}
  MaxTransactions = 3
  MaxChanges = 0
PROPERTY InvalidationSparesOthers
CHECK_DEADLOCK FALSE
