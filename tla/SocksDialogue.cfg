SPECIFICATION DialogueFairSpec
CONSTANTS
  AuthInfo = {"none", "password"}
  DestType = "ipv4"
  UsernameLen = 1
  PasswordLen = 1
  Addresses <- SomeAddresses
  Port = 32768
  MaxData = 2
INVARIANTS
  IInv
  EndsAgree
PROPERTIES
  SessionSpec
  HandshakeEnds
