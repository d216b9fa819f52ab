SPECIFICATION HpackSpec
CONSTANTS
  Fields <- Sent
  Pseudo = {":authority", ":method", ":path", ":scheme", ":status", ":x"}
  Capitals = {"TE"}
  Chars <- Spelled
  HUFFCODES <- Table
  TableSizes = {0, 30, 31, 4096, 5000}
  MaxFields = 3
  MaxBlocks = 2
  MaxEntries = 2
INVARIANTS
  HeadersDecoded
CHECK_DEADLOCK FALSE
