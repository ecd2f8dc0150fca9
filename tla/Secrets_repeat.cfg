SPECIFICATION Spec
CONSTANTS
  Passwords <- MCPasswords
  MaxCrashes = 1
PROPERTY PostInitCanBeRepeated
