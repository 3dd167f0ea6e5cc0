---------------------------- MODULE MCConnection ----------------------------
(* Headers of two bytes, payloads of one and of two, which is above the limit, and
   the kinds of machines the ladder was written for. *)
EXTENDS Connection
MCOps == {"Frame", "Ping", "Close"}
Machine(os, unix, exe) == [os |-> os, unix |-> unix, exe |-> exe]
MCWorlds ==
  { Machine("windows", "none", FALSE), Machine("mac", "ok", FALSE),
    Machine("wine", "none", TRUE), Machine("wine", "ok", FALSE) }
=============================================================================
