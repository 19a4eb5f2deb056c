SPECIFICATION Spec
CONSTANTS
  Accounts = {a, b}
  Nothing = nothing
  MaxFaults = 1
INVARIANTS AccountsShown
PROPERTIES GhostsVanish MailboxPolled
