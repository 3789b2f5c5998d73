SPECIFICATION Spec
CONSTANTS
  Admin = {a}
  Newcomer = {n}
  MaxGen = 3
  MaxBundles = 1
  MaxFlight = 2
  MaxWrites = 2
  Invitation = {i1}
  Stranger = {s1, s2}
  LettersMax = 2
  AttemptsMax = 2
  MaxOrgs = 2
  MailOn = TRUE
  User = {u}
  Owner = u
  Machine = {d}
  Login = {1, 2}
  Request = {3, 4}
  WrongMax = 2
  Drafts <- PoliciesOfTeam
  MaxPolicies = 1
  MaxDoing = 1
  Person = {founder, r, p}
  Founder = founder
  Receiver = {r}
  Borrower = {p}
  MaxParked = 1
  MaxRows = 7
  Projects = 2
  Workers = 2
  MaxProfiles = 3
  CloneMax = 2
  MaxRestores = 1
  Author = {b, w}
  Boss = b
  Captured = {k}
  Seat = {f, g}
  Hand = {b, w}
  Chief = b
  ProxyRow = {x}
  Address = {h1, h2}
  MaxSaves = 2
INVARIANTS
  ServerTypeOK AdmittedOnly AddressProven CodeAsked
  RightsHold RoomKept MachinesStand ProxiesIntact
PROPERTY BundlesCarried
CHECK_DEADLOCK FALSE
