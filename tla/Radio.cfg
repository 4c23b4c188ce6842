SPECIFICATION RadioSpec
CONSTANTS
  Users = {u1, u2, u3, u4}
  MaxEvents = 3
INVARIANTS TypeOK HalfDuplex 
PROPERTIES ReceivesAgain CallReturns
\* A program that leaves with the receiver paused stops its loop for good.
CHECK_DEADLOCK FALSE
