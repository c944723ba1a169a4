SPECIFICATION Spec
CONSTANTS
  r1 = r1
  r2 = r2
  r3 = r3
  r4 = r4
  main = main
  Requests = {r1, r2, r3, r4}
  Buffers = {b1, b2}
  Webview <- MCOneWebview
  Bytes <- MCSameBytes
  MinSizeClass = 4096
  MaxSizeClass = 16384
  MaxBuffersPerSizeClass = 1
  StaleAfter = 1
  DeliveryWithin = 9
  PostsFail = TRUE
  ListenerLeaves = TRUE
  NoBuffer = NoBuffer
  NoMemory = NoMemory
SYMMETRY Symmetry
INVARIANT TypeOK
INVARIANT IdentityLeasedOnce
INVARIANT CountersAgree
INVARIANT ShelfBounded
PROPERTY ReleaseHitsItsOwnLease
CHECK_DEADLOCK FALSE
