------------------------------ MODULE MCInstaller ------------------------------
(***************************************************************************)
(* Clients that may send a SQLite and a PostgreSQL configuration and two   *)
(* addresses, which only the request that names one tells apart.           *)
(***************************************************************************)
EXTENDS Installer, TLC

Symmetry == Permutations(Email)
================================================================================
