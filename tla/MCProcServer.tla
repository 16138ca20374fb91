---------------------------- MODULE MCProcServer ----------------------------
(* Programs for the runs: with ZERO = 1 the second mark behind the path of *)
(* the server spells the path of the other program.                        *)
EXTENDS ProcServer

ServerPath == <<1>>
InitName   == <<2>>
TwoFiles   == {ServerPath, Append(ServerPath, 2)}
=============================================================================
