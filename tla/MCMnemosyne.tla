---------------------------- MODULE MCMnemosyne ----------------------------
(* A small instance of Mnemosyne for TLC: see Mnemosyne.cfg. *)
EXTENDS Mnemosyne
=============================================================================
