---------------------------- MODULE MCExtensionHost ----------------------------
(* ExtensionHost with two packages, one of which requires the other.  The       *)
(* server starts with that other one enabled alone.                             *)
EXTENDS ExtensionHost, TLC

CONSTANTS t1, t2, p1, p2

MCRequires == p1 :> {} @@ p2 :> {p1}

MCStart == {p1 :> "enabled" @@ p2 :> "disabled"}
================================================================================
