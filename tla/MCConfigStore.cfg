SPECIFICATION Spec
CONSTANTS
  Clients = {d1, d2}
  Settings <- MCSettings
  Accounts <- TwoAccounts
  NoValue = NoValue
SYMMETRY Symmetry
INVARIANTS
  FlagsBeforeAccount
  ConfiguredIsTheRegistry
PROPERTIES
  SavedIsFound
