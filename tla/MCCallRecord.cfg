CONSTANTS
  Modulus = 16
  Rank = 1
  Ranks = {0, 1}
  Tags = {10}
  Comms = {20, 21}
  Requests = {30, 31}
  Levels = {0, 3}
  Reductions = {"Sum", "NoOp", "user"}
  Sizes = {1, 4}
  Counts = {0, 1, 3, 5}
  Stamps = {50, 57}
  Times = {90}
SPECIFICATION Spec
INVARIANTS
  TypeOK
  EventMeansCall
  BytesKept
