SPECIFICATION Spec
CONSTANTS
  Rows = 2
  Folder = {j}
  Exit = {x}
  MaxSeeds = 2
  MaxBusy = 1
  Client = {c}
  Site = {s, t}
  Lan = {l}
  Loop = {loop}
  Outside = {o}
  MaxEntries = 2
  Tenant = {u, v, w}
  MaxShared = 3
  LocalApp = {a}
  TeamApp = {t}
  MaxPushes = 2
  Station = {m1, m2}
  Home = m1
  MaxSent = 2
  MaxMade = 2
  MaxEdits = 2
  Address = {e1, e2}
  Land = {l1, l2}
  Here = home
  InTable = {l1, home}
  MaxTurns = 2
INVARIANTS
  MachineTypeOK SeedsApart NothingHere OneTunnel NeverTheMix JarKept CopiesSound
  ClaimsAgree
PROPERTY SecretsKept
CHECK_DEADLOCK FALSE
