------------------------------ MODULE MCRolling ------------------------------
(***************************************************************************)
(* Values for the constants of RollingReplace, for TLC.                    *)
(***************************************************************************)
EXTENDS RollingProps

NodesOf(role, n) == [role : {role}, idx : 1..n]

TwoServers == NodesOf("server", 2) \cup NodesOf("agent", 1)
=============================================================================
