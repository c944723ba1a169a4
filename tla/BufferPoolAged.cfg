SPECIFICATION Spec
CONSTANTS
  r1 = r1
  r2 = r2
  r3 = r3
  r4 = r4
  main = main
  Requests = {r1, r2}
  Buffers = {b1}
  Webview <- MCOneWebview
  Bytes <- MCSameBytes
  MinSizeClass = 4096
  MaxSizeClass = 16384
  MaxBuffersPerSizeClass = 1
  StaleAfter = 3
  DeliveryWithin = 3
  PostsFail = FALSE
  ListenerLeaves = TRUE
  NoBuffer = NoBuffer
  NoMemory = NoMemory
INVARIANT AgedBufferIsReused
CHECK_DEADLOCK FALSE
