--------------------------- MODULE MCPyConnection ---------------------------
(* Two tasks that share one connection of the Python client. *)
EXTENDS PyConnection
=============================================================================
