SPECIFICATION Spec
CONSTANTS
  Byte = {0, 1}
  cenc <- Lengthed
  DOMAIN_SIG <- Sig
  DOMAIN_LINK <- LinkDomain
  DOMAIN_POP <- Pop
  APPROVAL_DOMAIN <- Approval
  Value <- Values
  Id <- Ids
  Nonce <- AnyLength
  Drawn <- AnyLength
  Stamp <- OneByte
  Audience <- Audiences
  Key = {"k1"}
  MaxSigned = 2
INVARIANTS Authentic
