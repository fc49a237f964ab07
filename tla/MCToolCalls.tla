---------------------------- MODULE MCToolCalls ----------------------------
(* The tools that are called beside, or after, one call of any tool. *)
EXTENDS ToolCalls
MCBeside == {GpioWritePin}
=============================================================================
