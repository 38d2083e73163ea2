SPECIFICATION Spec
CONSTANTS
  token = token
  ticket = ticket
  TokenCodes = {token}
  TicketCodes = {ticket}
  Links = {token}
  Backups <- AnAgent
  MayNotStart = TRUE
  MaxLinks = 1
  None = None

  
PROPERTIES
  LinkOpensConsole
CHECK_DEADLOCK FALSE
