SPECIFICATION Spec
CONSTANTS
  token = token
  ticket = ticket
  TokenCodes = {token}
  TicketCodes = {ticket}
  Links = {}
  Backups = {}
  MayNotStart = FALSE
  MaxLinks = 0
  None = None
PROPERTIES
  PairingStartsAgent
CHECK_DEADLOCK FALSE
