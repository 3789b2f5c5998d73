SPECIFICATION AccessSpec
CONSTANTS
  Person = {founder, r, p}
  Founder = founder
  Receiver = {r}
  Borrower = {r, p}
  MaxParked = 1
INVARIANT SharesCapped
CHECK_DEADLOCK FALSE
