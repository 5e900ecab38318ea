SPECIFICATION Spec
CONSTANTS
  a = a
  b = b
  c = c
  Ann = Ann
  Bob = Bob
  Peers <- MCPeers
  Identities <- MCIdentities
  IdentityOf <- MCIdentityOf
  MaxRemote = 2
  MaxRejoins = 1
CHECK_DEADLOCK FALSE
INVARIANT OnlyAdmittedAreBound
