--------------------------- MODULE MCSecretInstall ---------------------------
(* Small instances of SecretInstall for TLC. *)
EXTENDS SecretInstall, TLC

=============================================================================
