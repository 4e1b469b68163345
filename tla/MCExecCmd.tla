------------------------------- MODULE MCExecCmd ------------------------------
(***************************************************************************)
(* ExecCmd with two processes that the command starts.                      *)
(***************************************************************************)
EXTENDS ExecCmd

MCCodes == {"0", "1", "spawn error", "killed"}

================================================================================
