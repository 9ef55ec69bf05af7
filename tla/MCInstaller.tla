----------------------------- MODULE MCInstaller -----------------------------
(* Installer on small instances: process ids are given in order, so nothing *)
(* is lost by numbering them.                                               *)
EXTENDS Installer
=============================================================================
