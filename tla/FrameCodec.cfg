\* A panic stops the client: the system really may stop.
CHECK_DEADLOCK FALSE
SPECIFICATION Spec
CONSTANTS
  N = 5
  Headers = {1, 3}
  Decodable = {1, 3, 4}
  Broken = {5}
  Length <- MCLength
  Start <- MCStart
INVARIANTS Aligned InOrder NoneMeansDrained
PROPERTIES ImplementsStream EveryFrameDelivered
