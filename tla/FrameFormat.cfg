SPECIFICATION Spec
CONSTANTS
  Frames <- MCFrames
  Performatives <- MCPerformatives
  SaslBodies <- MCSaslBodies
INVARIANTS OwnFramesReturn PlainFramesAreRead ExtendedFramesAreLost
