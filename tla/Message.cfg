CONSTANTS
  Buffers <- MCBuffers
  MaxAmt = 10
  Lengths = {0, 2, 3, 4}
  InlinedSize = 2
  MaxMade = 5
  Keys <- MCKeys
  Capacities = {0, 2}
  CallFlags = {"idempotent"}
  WriteBits = {"buffer_hint", "no_compress"}
  MaxEntries = 5
  Codes = {0, 5, 13}
  Texts = {"", "no"}
SPECIFICATION MessageSpec
INVARIANTS ShowsNextBytes SlicesOwned InFlightIntact HeadersKept StatusArrives
PROPERTY CallsReturn
CHECK_DEADLOCK FALSE
