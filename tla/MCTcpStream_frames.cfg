SPECIFICATION StreamSpec
CONSTANTS
  Base = 64
  IntSize = 2
  Services <- TwoServices
  Unparsable <- BadData
  Servlets <- OneServlet
  Protocals <- BothProtocals
  Structs <- SomeStructs
  HttpRequests <- TwoRequests
  BufferSize = 16
  Pieces = {7}
  Faults = {"close"}
  Beyond = {0, 3}
  MaxReplies = 4
INVARIANTS BytesConserved DecodedUnlessFull EachIsAnswered 
CHECK_DEADLOCK FALSE
