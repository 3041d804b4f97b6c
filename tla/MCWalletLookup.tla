------------------------- MODULE MCWalletLookup -------------------------
(* Instantiates WalletLookup for TLC with the logs of MCWalletPipeline.   *)
EXTENDS WalletLookup, MCWalletPipeline

=============================================================================
