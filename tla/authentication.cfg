SPECIFICATION FairSpec
CONSTANTS
  Calls = {1, 2, 3}
  Ops = {"service", "none", "password", "publickey", "keyboard"}
  Signers <- MCSigners
  Keys = {"ssh-rsa", "ssh-ed25519", "ssh-dss", "mismatched"}
  Supported <- MCSupported
  MaxRounds = 2
INVARIANTS
  AnswerIsOwn
  RsaFits
  AuthAgrees
PROPERTY
  CallsReturn
CHECK_DEADLOCK FALSE
