-------------------------- MODULE MCAuthentication --------------------------
(* Authentication with signers in an order of preference that differs from  *)
(* the servers', and a server that lacks the client's first choice.         *)
EXTENDS Authentication

MCSigners == <<"ssh-ed25519", "rsa-sha2-512", "rsa-sha2-256">>

MCSupported == {{"rsa-sha2-256", "ssh-ed25519"}, {"ssh-rsa"}}
=============================================================================
