--------------------------- MODULE MCFtpTransaction ---------------------------
(* One remote and one local file of two blocks. *)
EXTENDS FtpTransaction
===============================================================================
