------------------------ MODULE MCWalletProvisioning ------------------------
(***************************************************************************)
(* An instance of WalletProvisioning for TLC.                              *)
(***************************************************************************)
EXTENDS WalletProvisioning
=============================================================================
