------------------------------ MODULE MCFtpClient ------------------------------
(* FtpClient, whose constants need no definitions. *)
EXTENDS FtpClient
=============================================================================
