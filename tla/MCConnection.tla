------------------------------ MODULE MCConnection ----------------------------
(* One connection with buffers of a message or two, and one browser.       *)
EXTENDS Connection

CONSTANT me
===============================================================================
