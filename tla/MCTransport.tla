---------------------------- MODULE MCTransport ----------------------------
(* Instances of Transport: every cipher family and MAC order, compression  *)
(* from the start, after authentication and never, strict KEX or not.      *)
EXTENDS Transport

Suite(cipher, etm, zip, strict) ==
  [cipher |-> cipher, etm |-> etm, zip |-> zip, strict |-> strict]

MCSuites ==
  {Suite("chacha", FALSE, "delayed", TRUE), Suite("chacha", FALSE, "none", FALSE),
   Suite("gcm", FALSE, "zlib", TRUE), Suite("chain", TRUE, "delayed", FALSE),
   Suite("chain", FALSE, "zlib", TRUE), Suite("chain", FALSE, "none", FALSE)}

\* Sizes whose padding would be too short without a second block, in each framing.
MCSize == [data |-> 12, newkeys |-> 1, odd |-> 7, success |-> 1, unimplemented |-> 5]
=============================================================================
