----------------------------- MODULE MCCordaRpc -----------------------------
(* CordaRpc for TLC; the configurations differ in what may go wrong.        *)
EXTENDS CordaRpc
=============================================================================
