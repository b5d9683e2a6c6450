------------------------------ MODULE MCKeygen ------------------------------
(***************************************************************************)
(* Instance of Keygen for TLC.                                             *)
(***************************************************************************)
EXTENDS Keygen

TheOut == "signing.ed25519"
ThePublicOut == "signing.pub"

\* One pair of paths, with and without a public key, with and without --force,
\* and --public-out naming the file of --out.
OnePair ==
  [out : {TheOut}, public_out : {ThePublicOut, TheOut, NoPath}, force : BOOLEAN]
=============================================================================
