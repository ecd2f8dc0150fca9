SPECIFICATION FairSpec
CONSTANTS
  Groups = {"g", "oldg"}
  Roles = {"r", "oldr", "unlisted"}
  Policies = {"p", "old", "aws"}
  Profiles = {"i", "j", "k"}
  File <- MCFile
  Whitelist <- MCWhitelist
  Removed <- MCRemoved
  Accounts <- MCAccounts
  Orders <- MCOrders
  MaxTroubles = 2
INVARIANTS TypeOK CommandsKeepTheirWord
PROPERTIES RepeatedImportsConverge NothingElseChanges
