---------------------------- MODULE MCStreamEncoder ----------------------------
(* Windows of three frames that advance by two, the proportions of 39 and 32 *)
(* rounded to what overlaps; chunks shorter and longer than a window.        *)
EXTENDS StreamEncoder
===============================================================================
