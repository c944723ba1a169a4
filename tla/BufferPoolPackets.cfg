SPECIFICATION Spec
CONSTANTS
  r1 = r1
  r2 = r2
  r3 = r3
  r4 = r4
  main = main
  Requests = {r1, r2, r3}
  Buffers = {b1, b2}
  Webview <- MCOneWebview
  Bytes <- MCSameBytes
  MinSizeClass = 4096
  MaxSizeClass = 16384
  MaxBuffersPerSizeClass = 2
  StaleAfter = 2
  DeliveryWithin = 2
  PostsFail = TRUE
  ListenerLeaves = TRUE
  NoBuffer = NoBuffer
  NoMemory = NoMemory
SYMMETRY Symmetry
INVARIANT RequestKeepsRecord
INVARIANT PacketIntact
CHECK_DEADLOCK FALSE
