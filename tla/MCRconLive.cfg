SPECIFICATION FairSpec
CONSTANTS
  MaxClients = 2  Conns = {c1, c2}  None = None
  p1 = p1  Passwords = {p1}
  Packets <- Proper  BufSize = 2  MaxPackets = 3
  MaxAddresses = 2  Prompt = TRUE
INVARIANT DropsOnlyOversized
PROPERTIES ImplementsSessions CommandsServed ConnectionsTaken
CHECK_DEADLOCK FALSE
