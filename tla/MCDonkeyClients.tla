-------------------------- MODULE MCDonkeyClients --------------------------
(* An instance of DonkeyClients for TLC.                                   *)
EXTENDS DonkeyClients
=============================================================================
