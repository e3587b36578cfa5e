------------------------------- MODULE MCVxRun -------------------------------
EXTENDS VxRun

I(op, len, to) == [op |-> op, len |-> len, to |-> to]

MCProg ==
    (0 :> I("alu", 1, 0)) @@ (1 :> I("jcc", 2, 20)) @@ (3 :> I("loop", 2, 0))
    @@ (5 :> I("jumpind", 2, 10))
    @@ (10 :> I("alu", 1, 0)) @@ (11 :> I("call", 5, 30))
    @@ (16 :> I("callind", 2, 30)) @@ (18 :> I("syscall", 2, 0))
    @@ (20 :> I("loop", 2, 10)) @@ (22 :> I("jmp", 2, 0))
    @@ (30 :> I("alu", 1, 0)) @@ (31 :> I("int3", 1, 0)) @@ (32 :> I("ret", 1, 0))
    @@ (40 :> I("jcc", 2, 20)) @@ (42 :> I("jmp", 2, 10))
(* What VxRunPreciseTrap takes of a program holds of this one. *)
ASSUME MCVxRunAssumption == CallsFirst

MCSafe == {"code", "call", "hit", "c", "translator"}
MCTramp == MCSafe \cup {"tramp"}
MCMiss == MCSafe \cup {"miss"}
===============================================================================
