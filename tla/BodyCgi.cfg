SPECIFICATION FcgiFairSpec
CONSTANTS
  h1 = h1
  h2 = h2
  Reader <- OneReader
  MaxChunks = 3
  Trailers = FALSE
  Fragmented = {TRUE, FALSE}
  Resets = TRUE
  Interfaces = {"cgi", "fcgi"}
  MaxOut = 3
INVARIANTS
  BodiesPassedOn

  
CHECK_DEADLOCK FALSE
