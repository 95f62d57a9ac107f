---------------------------- MODULE MCPdelayReq ----------------------------
(* Instances of PdelayReq for TLC. *)
EXTENDS PdelayReq

NoStrangers == {}
=============================================================================
