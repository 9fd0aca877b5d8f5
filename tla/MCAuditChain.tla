---------------------------- MODULE MCAuditChain ----------------------------
(* AuditChain on instances TLC can exhaust; the cfgs give the constants.   *)
EXTENDS AuditChain, TLC
=============================================================================
