SPECIFICATION FairSpec
CONSTANTS
  Passwords <- MCPasswords
  MaxCrashes = 2
INVARIANTS CredentialsAgree LiveStackHasItsSecrets
PROPERTY PostInitConverges
