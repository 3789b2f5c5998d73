INIT CookieJarInit
NEXT CookieJarNext
CONSTANTS
  Station = {m1, m2}
  Home = m1
  MaxSent = 2
INVARIANTS CaughtFirst
CHECK_DEADLOCK FALSE
