---------------------------- MODULE MCNcpClient ----------------------------
(* NcpClient with small bounds *)
EXTENDS NcpClient
=============================================================================
