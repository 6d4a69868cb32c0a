SPECIFICATION Spec
CONSTANT Messages <- MCMessages
INVARIANTS MatchIsFresh DecodedIsSent AcceptedMessages PanicsExactly
