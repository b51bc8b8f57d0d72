-------------------------- MODULE MCConnectionPool --------------------------
(* An instance of ConnectionPool for TLC. *)
EXTENDS ConnectionPool
=============================================================================
