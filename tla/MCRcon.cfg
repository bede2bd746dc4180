SPECIFICATION Spec
CONSTANTS
  MaxClients = 1  Conns = {c1, c2}  None = None
  p1 = p1  Passwords = {p1}
  Packets <- Mixed  BufSize = 3  MaxPackets = 4
  MaxAddresses = 2  Prompt = FALSE
INVARIANTS TypeOK SlotsAgree BufferIsOfConnection AuthByPasswordOnly
  CommandHeld CommandsInOrder RepliesToAsker NothingLeaks
CHECK_DEADLOCK FALSE
SYMMETRY Symmetry
