----------------------------- MODULE MCHostSession ----------------------------
(* One operator who enters one command at a time.                              *)
EXTENDS HostSession

MCTerminals == {1}
===============================================================================
