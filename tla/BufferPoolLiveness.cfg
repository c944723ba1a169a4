SPECIFICATION FairSpec
CONSTANTS
  r1 = r1
  r2 = r2
  r3 = r3
  r4 = r4
  main = main
  Requests = {r1, r2, r3}
  Buffers = {b1, b2}
  Webview <- MCOneWebview
  Bytes <- MCBytes
  MinSizeClass = 4096
  MaxSizeClass = 16384
  MaxBuffersPerSizeClass = 1
  StaleAfter = 1
  DeliveryWithin = 1
  PostsFail = FALSE
  ListenerLeaves = FALSE
  NoBuffer = NoBuffer
  NoMemory = NoMemory
INVARIANT PayloadFits
PROPERTY PostedComesBack
CHECK_DEADLOCK FALSE
