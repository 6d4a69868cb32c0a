SPECIFICATION Spec
CONSTANTS
  Base = 4
  Size <- MCSize
INVARIANTS RoundTrip PeerAgrees PeersValuesAreRead AnyReadsLittle
