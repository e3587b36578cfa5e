-------------------------------- MODULE VxRun --------------------------------
(***************************************************************************)
(* Running translated code under signals (libvx32: vxproc_run and the      *)
(* translator's output in emu.c, the runtime in rts.S and run32.S, the     *)
(* handlers in linux.c and sig.c).  A guest instruction may become several *)
(* host instructions; a clock tick or a page fault between two of them     *)
(* must still leave, in emu->cpu, a state the guest's own processor could  *)
(* have been in.                                                           *)
(*                                                                         *)
(* The host executes one host instruction a step in translated code and    *)
(* one stretch a step elsewhere.  hw is its register file, cpu what is     *)
(* saved in emu->cpu, and arch (a history variable) what the guest's       *)
(* processor would hold between two instructions.                          *)
(***************************************************************************)
EXTENDS Integers, SequencesExt

CONSTANTS
    Prog,       \* guest code: eip -> [op, len, to]
    Entry,      \* where the guest starts
    NoteEip,    \* where the kernel sends it when it delivers a note
    DstOfsMax,  \* VXDSTOFS_MAX: 255, less in a small instance
    Room,       \* fragments that fit in the code buffer
    Window      \* where a tick may arrive (see Where)

Eip == DOMAIN Prog
Goes == {"jmp", "jumpind", "ret"}       \* never to the instruction after it
Op == Goes \cup {"alu", "jcc", "loop", "call", "callind", "syscall", "int3"}

(* There is an instruction wherever the guest can get to.                    *)
ASSUME VxRunAssumption ==
    /\ Eip \subseteq Nat /\ Entry \in Eip /\ NoteEip \in Eip
    /\ Room \in Nat \ {0} /\ DstOfsMax \in Nat
    /\ \A e \in Eip :
          /\ Prog[e] \in [op : Op, len : 1 .. 15, to : Eip]
          /\ Prog[e].op \notin Goes => e + Prog[e].len \in Eip
          /\ Prog[e].op = "syscall" => Prog[e].len = 2
    /\ Window \subseteq {"code", "call", "tramp", "hit", "miss", "return", "c", "int3",
                         "translator", "note"}

VARIABLES
    pc,        \* [at, f, i, k]: where the host is; in code, the k'th host
               \* instruction of the translation of instruction i of fragment f
    hw,        \* the host's registers while guest code runs
    mem,       \* the word the guest's stack holds: an address
    eip,       \* emu->cpu.eip
    cpu,       \* the registers in emu->cpu
    trap,      \* emu->cpu_trap
    stepping,  \* single-stepping out of the runtime, with the tick in saved_trap
    ininst,    \* emu->ininst is set
    jmpinfo,   \* emu->jmpinfo: the jump that asks for a target
    frag,      \* the code buffer: eip -> instructions of its fragment
    tx,        \* emu->txfrag: the instructions of the one being translated
    patched,   \* jumps that have been backpatched
    arch       \* the guest's processor, between two instructions

emu == <<eip, cpu, trap, stepping, ininst, jmpinfo>>
code == <<frag, patched, tx>>
live == DOMAIN frag
vars == <<pc, hw, mem, emu, code, arch>>

----------------------------------------------------------------------------
(* Translation.  xscan: how an instruction is treated, how long that is at   *)
(* worst, and where a fragment ends.                                         *)
Type(op) == CASE op \in {"jmp", "jcc"} -> "jump"
              [] op \in {"syscall", "int3"} -> "trap"
              [] OTHER -> op

DstLen(type, op, len) ==
    CASE type = "alu" -> len
      [] type = "jump" -> IF op = "jcc" THEN 6 ELSE 5
      [] type = "jump8" -> 2
      [] type \in {"call", "loop"} -> 10
      [] type = "jumpind" -> 7 + len + 5
      [] type = "callind" -> 7 + len + 5 + 5
      [] type = "ret" -> 7 + 1 + 5
      [] type = "trap" -> 6 + 5 + 11 + 5
      [] type = "endfrag" -> 5

Final(x) == x.type \in {"call", "jumpind", "callind", "ret", "trap"} \/ x.op = "jmp"

PrologLen == 7
After(ins) == IF ins = <<>> THEN PrologLen ELSE Last(ins).ofs + Last(ins).dst

(* The next instruction of a fragment that begins at e.  Where it does not   *)
(* fit any more, or is on a page that must not be executed, a jump takes its *)
(* place, to the fragment that goes on from there.                           *)
Scanned(e, ins) ==
    LET next == IF ins = <<>> THEN e ELSE Last(ins).eip + Last(ins).len
        g == Prog[next]
        Treated(type, op, len, to) ==
            [eip |-> next, op |-> op, len |-> len, to |-> to, type |-> type,
             ofs |-> After(ins), dst |-> DstLen(type, op, len)]
        fits == After(ins) + DstLen(Type(g.op), g.op, g.len) <= DstOfsMax
    IN  (IF fits THEN {Treated(Type(g.op), g.op, g.len, g.to)} ELSE {})
        \cup (IF fits /\ ins = <<>> THEN {} ELSE {Treated("endfrag", "jmp", 0, next)})

(* xsimp: a jump within the fragment becomes a short one.                    *)
InRange(ins, i, k) ==
    IF k > i THEN ins[k].ofs <= ins[i].ofs + ins[i].dst + 127
             ELSE ins[k].ofs >= ins[i].ofs + 3 - 128
Simplified(ins) ==
    [i \in DOMAIN ins |->
        IF /\ ins[i].type \in {"jump", "loop"}
           /\ \E k \in DOMAIN ins : ins[k].eip = ins[i].to /\ InRange(ins, i, k)
        THEN [ins[i] EXCEPT !.type = "jump8", !.dst = 2] ELSE ins[i]]

(* xemit: the host instructions of a translation, by offset from its start.  *)
Host(x) ==
    CASE x.type = "alu" -> <<<<0, "alu">>>>
      [] x.type \in {"jump", "jump8", "endfrag"} -> <<<<0, x.type>>>>
      [] x.type = "call" -> <<<<0, "push">>, <<5, "jump">>>>
      [] x.type = "loop" -> <<<<0, "lea">>, <<3, "jecxz">>, <<5, "jump">>>>
      [] x.type = "jumpind" -> <<<<0, "savebx">>, <<7, "loadbx">>, <<7 + x.len, "lookup">>>>
      [] x.type = "callind" -> <<<<0, "savebx">>, <<7, "loadbx">>,
                                 <<7 + x.len, "push">>, <<12 + x.len, "lookup">>>>
      [] x.type = "ret" -> <<<<0, "savebx">>, <<7, "popbx">>, <<8, "lookup">>>>
      [] x.type = "trap" -> <<<<0, "saveax">>, <<6, "loadax">>, <<11, "seteip">>,
                              <<22, "gentrap">>>>

(* xemit_jump: each direct jump has a trampoline after the code, in order,   *)
(* of two instructions and, 16 bytes in, the word that holds the target.     *)
TrampLen == 24
HasTramp(x) == x.type \in {"jump", "call", "loop", "endfrag"}
TrampOfs(ins, i) ==
    After(ins) + TrampLen * Cardinality({j \in 1 .. i - 1 : HasTramp(ins[j])})

----------------------------------------------------------------------------
(* The guest's own processor: one instruction.  "alu" stands for every       *)
(* instruction that is copied: it changes registers and flags.               *)
Alu(r) == [ax |-> r.ax, bx |-> 1 - r.bx, cx |-> 1 - r.cx, fl |-> r.bx, esp |-> r.esp]
Taken(r) == r.fl = 0
Dec(r) == [r EXCEPT !.cx = 1 - @]
Pushed(r) == [r EXCEPT !.esp = @ + 1]
Popped(r) == [r EXCEPT !.esp = @ - 1]

Guest(e, r, m) == [eip |-> e, reg |-> r, mem |-> m]
Exec(a) ==
    LET x == Prog[a.eip]
        next == a.eip + x.len
    IN  CASE x.op = "alu" -> Guest(next, Alu(a.reg), a.mem)
          [] x.op \in {"jmp", "jumpind"} -> Guest(x.to, a.reg, a.mem)
          [] x.op = "jcc" -> Guest(IF Taken(a.reg) THEN x.to ELSE next, a.reg, a.mem)
          [] x.op = "loop" -> Guest(IF Dec(a.reg).cx # 0 THEN x.to ELSE next, Dec(a.reg), a.mem)
          [] x.op \in {"call", "callind"} -> Guest(x.to, Pushed(a.reg), next)
          [] x.op = "ret" -> Guest(a.mem, Popped(a.reg), a.mem)
          [] OTHER -> Guest(next, a.reg, a.mem)

State(e, r) == Guest(e, r, mem)
NoJump == <<Entry, 1>>  \* jmpinfo when nothing will read it
Zero == [ax |-> "guest", bx |-> 0, cx |-> 0, fl |-> 1, esp |-> 0]

At(where) == [at |-> where, f |-> Entry, i |-> 1, k |-> 1]
InsnOf(f, i) == [at |-> "code", f |-> f, i |-> i, k |-> 1]
PrologOf(f) == [at |-> "prolog", f |-> f, i |-> 1, k |-> 1]

RegType == [ax : {"guest", "trapno"}, bx : Int, cx : {0, 1}, fl : Int, esp : Int]
ArchType == [eip : Eip, reg : RegType, mem : Eip]
InsnType == [eip : Eip, op : Op, len : 0 .. 15, to : Eip, ofs : Nat, dst : Nat,
             type : {"alu", "jump", "jump8", "call", "loop", "jumpind", "callind",
                     "ret", "trap", "endfrag"}]
Places == {"find", "enter", "entered", "prolog", "code", "tramp", "backpatch",
           "indirect", "gentrap", "return", "returned", "back", "scan",
           "scanning", "simplify", "place", "emit", "out"}

TypeOK ==
    /\ pc \in [at : Places, f : Eip, i : Nat \ {0}, k : 1 .. 4]
    /\ hw \in RegType /\ eip \in Eip /\ cpu \in RegType /\ arch \in ArchType /\ mem \in Eip
    /\ trap \in {"none", "tick", "fault", "singlestep", "assert", "syscall", "int3"}
    /\ stepping \in BOOLEAN /\ ininst \in BOOLEAN
    /\ live \subseteq Eip /\ frag \in [live -> Seq(InsnType)] /\ tx \in Seq(InsnType)
    /\ jmpinfo \in Eip \X Nat /\ patched \subseteq Eip \X Nat

Init ==
    /\ pc = At("find")
    /\ hw = Zero
    /\ mem = Entry
    /\ eip = Entry
    /\ cpu = Zero
    /\ trap = "none"
    /\ stepping = FALSE
    /\ ininst = FALSE
    /\ jmpinfo = NoJump
    /\ frag = <<>>
    /\ tx = <<>>
    /\ patched = {}
    /\ arch = State(Entry, Zero)

----------------------------------------------------------------------------
(* Translated code.                                                          *)
Insn == frag[pc.f][pc.i]
HostOp == Host(Insn)[pc.k][2]
Retire == arch' = IF Insn.type = "endfrag" THEN arch ELSE Exec(arch)
Fall == pc' = InsnOf(pc.f, pc.i + 1) /\ Retire
More == pc' = [pc EXCEPT !.k = @ + 1] /\ UNCHANGED arch
MayRun == ~(stepping /\ pc.at \in {"prolog", "code", "returned"})
InCode(op) == pc.at = "code" /\ HostOp = op /\ MayRun

Prolog ==
    /\ pc.at = "prolog" /\ MayRun
    /\ hw' = [hw EXCEPT !.bx = cpu.bx]
    /\ pc' = InsnOf(pc.f, 1)
    /\ UNCHANGED <<mem, emu, code, arch>>

Copied ==
    /\ InCode("alu")
    /\ hw' = Alu(hw)
    /\ Fall
    /\ UNCHANGED <<mem, emu, code>>

ShortJump ==
    /\ InCode("jump8")
    /\ hw' = IF Insn.op = "loop" THEN Dec(hw) ELSE hw
    /\ IF /\ Insn.op = "jcc" => Taken(hw)
          /\ Insn.op = "loop" => hw'.cx # 0
       THEN \E j \in DOMAIN frag[pc.f] :
                frag[pc.f][j].eip = Insn.to /\ pc' = InsnOf(pc.f, j) /\ Retire
       ELSE Fall
    /\ UNCHANGED <<mem, emu, code>>

(* A backpatched jump skips the prolog: ebx is still the guest's.            *)
EntersAtProlog(f) == PrologOf(f)    \* a slip: ebx is loaded from a stale cpu.bx
PatchedEntry(f) == InsnOf(f, 1)

(* A long jump goes to its trampoline until it has been backpatched.         *)
LongJump ==
    /\ pc.at = "code" /\ HostOp \in {"jump", "endfrag"} /\ MayRun
    /\ IF Insn.op = "jcc" /\ ~Taken(hw) THEN Fall
       ELSE IF <<pc.f, pc.i>> \in patched
       THEN pc' = PatchedEntry(Insn.to) /\ Retire
       ELSE pc' = [pc EXCEPT !.at = "tramp", !.k = 1] /\ UNCHANGED arch
    /\ UNCHANGED <<hw, mem, emu, code>>

LoopCount ==
    \/ /\ InCode("lea")
       /\ hw' = Dec(hw)
       /\ More
       /\ UNCHANGED <<mem, emu, code>>
    \/ /\ InCode("jecxz")
       /\ IF hw.cx = 0 THEN Fall ELSE More
       /\ UNCHANGED <<hw, mem, emu, code>>

Push ==
    /\ InCode("push")
    /\ mem' = Insn.eip + Insn.len
    /\ hw' = Pushed(hw)
    /\ More
    /\ UNCHANGED <<emu, code>>

Indirect ==
    /\ UNCHANGED <<mem, eip, trap, stepping, ininst, jmpinfo, code>>
    /\ \/ /\ InCode("savebx")
          /\ cpu' = [cpu EXCEPT !.bx = hw.bx]
          /\ More /\ UNCHANGED hw
       \/ /\ InCode("loadbx")
          /\ hw' = [hw EXCEPT !.bx = Insn.to]
          /\ More /\ UNCHANGED cpu
       \/ /\ InCode("popbx")
          /\ hw' = [Popped(hw) EXCEPT !.bx = mem]
          /\ More /\ UNCHANGED cpu
       \/ /\ InCode("lookup")
          /\ pc' = [pc EXCEPT !.at = "indirect"]
          /\ UNCHANGED <<hw, cpu, arch>>

TrapInsn ==
    /\ UNCHANGED <<mem, trap, stepping, ininst, jmpinfo, code, arch>>
    /\ \/ /\ InCode("saveax")
          /\ cpu' = [cpu EXCEPT !.ax = hw.ax]
          /\ More /\ UNCHANGED <<hw, eip>>
       \/ /\ InCode("loadax")
          /\ hw' = [hw EXCEPT !.ax = "trapno"]
          /\ More /\ UNCHANGED <<eip, cpu>>
       \/ /\ InCode("seteip")
          /\ eip' = Insn.eip + Insn.len
          /\ More /\ UNCHANGED <<hw, cpu>>
       \/ /\ InCode("gentrap")
          /\ pc' = [pc EXCEPT !.at = "gentrap"]
          /\ UNCHANGED <<hw, eip, cpu>>

Tramp ==
    /\ pc.at = "tramp"
    /\ IF pc.k = 1
       THEN /\ jmpinfo' = <<pc.f, pc.i>>
            /\ pc' = [pc EXCEPT !.k = 2]
       ELSE /\ pc' = [pc EXCEPT !.at = "backpatch"]
            /\ UNCHANGED jmpinfo
    /\ UNCHANGED <<hw, mem, eip, cpu, trap, stepping, ininst, code, arch>>

----------------------------------------------------------------------------
(* The runtime: vxrun_lookup_backpatch, vxrun_lookup_indirect, vxrun_gentrap *)
(* and vxrun_return.  It returns on a miss, with the eip it looked for.      *)
Target == IF pc.at = "backpatch" THEN frag[jmpinfo[1]][jmpinfo[2]].to ELSE hw.bx

Lookup ==
    /\ pc.at \in {"backpatch", "indirect"}
    /\ Retire
    /\ cpu' = [ax |-> hw.ax, bx |-> IF pc.at = "backpatch" THEN hw.bx ELSE cpu.bx,
               cx |-> hw.cx, fl |-> cpu.fl, esp |-> cpu.esp]
    /\ IF Target \in live
       THEN /\ pc' = PrologOf(Target)
            /\ patched' = IF pc.at = "backpatch" THEN patched \cup {jmpinfo} ELSE patched
            /\ UNCHANGED eip
       ELSE /\ eip' = Target
            /\ pc' = At("return")
            /\ UNCHANGED patched
    /\ jmpinfo' = NoJump
    /\ UNCHANGED <<hw, mem, trap, stepping, ininst, frag, tx>>

Gentrap ==
    /\ pc.at = "gentrap"
    /\ cpu' = [ax |-> cpu.ax, bx |-> hw.bx, cx |-> hw.cx, fl |-> cpu.fl, esp |-> cpu.esp]
    /\ trap' = Insn.op
    /\ pc' = At("return")
    /\ UNCHANGED <<hw, mem, eip, stepping, ininst, jmpinfo, code, arch>>

(* Half way the segment registers are the host's again.                      *)
Return ==
    /\ UNCHANGED <<mem, eip, trap, stepping, ininst, jmpinfo, code, arch>>
    /\ \/ /\ pc.at = "return"
          /\ cpu' = [cpu EXCEPT !.esp = hw.esp]
          /\ UNCHANGED hw
          /\ pc' = At("returned")
       \/ /\ pc.at = "returned" /\ MayRun
          /\ cpu' = [cpu EXCEPT !.fl = hw.fl]
          /\ hw' = Zero
          /\ pc' = At("back")

----------------------------------------------------------------------------
(* vxproc_run: find the fragment at eip or translate it, and run it.     *)
Find ==
    /\ pc.at \in {"find", "back"}
    /\ pc' = At(IF pc.at = "back"
                THEN IF trap = "none" THEN "scan" ELSE "out"
                ELSE IF eip \in live THEN "enter" ELSE "scan")
    /\ UNCHANGED <<hw, mem, emu, code, arch>>

(* vxrun: the registers are loaded, ebx is left to the prolog.               *)
Enter ==
    /\ pc.at \in {"enter", "entered"}
    /\ IF pc.at = "enter"
       THEN pc' = At("entered") /\ UNCHANGED hw
       ELSE /\ pc' = PrologOf(eip)
            /\ hw' = [cpu EXCEPT !.bx = eip]
    /\ UNCHANGED <<mem, emu, code, arch>>

(* vxemu_flush.                                                              *)
FlushKeepsPatches == frag' = <<>> /\ UNCHANGED patched   \* a slip
Flush == frag' = <<>> /\ patched' = {}

(* xlate: xscan goes from instruction to instruction, after a look at the    *)
(* room in the buffer (when it is full it is emptied, and the table with     *)
(* it); then xsimp, xplace and xemit.                                        *)
Begin ==
    /\ pc.at = "scan"
    /\ pc' = At("scanning")
    /\ ininst' = TRUE
    /\ IF Cardinality(live) < Room THEN UNCHANGED <<frag, patched>> ELSE Flush
    /\ UNCHANGED tx

ScanInsn ==
    /\ pc.at = "scanning"
    /\ \E x \in Scanned(eip, tx) :
          /\ tx' = Append(tx, x)
          /\ IF Final(x) THEN pc' = At("simplify") /\ ininst' = FALSE
             ELSE UNCHANGED <<pc, ininst>>
    /\ UNCHANGED <<frag, patched>>

Simplify ==
    /\ pc.at = "simplify"
    /\ tx' = Simplified(tx)
    /\ pc' = At("place")
    /\ UNCHANGED <<ininst, frag, patched>>

PlaceInsn ==
    /\ pc.at = "place"
    /\ tx' = [tx EXCEPT ![pc.i].ofs =
                 IF pc.i = 1 THEN PrologLen ELSE tx[pc.i - 1].ofs + tx[pc.i - 1].dst]
    /\ pc' = IF pc.i = Len(tx) THEN At("emit") ELSE [pc EXCEPT !.i = @ + 1]
    /\ UNCHANGED <<ininst, frag, patched>>

Emit ==
    /\ pc.at = "emit"
    /\ pc' = At("find")
    /\ frag' = [e \in live \cup {eip} |-> IF e = eip THEN tx ELSE frag[e]]
    /\ tx' = <<>>
    /\ UNCHANGED <<ininst, patched>>

Xlate ==
    /\ Begin \/ ScanInsn \/ Simplify \/ PlaceInsn \/ Emit
    /\ UNCHANGED <<hw, mem, eip, cpu, trap, stepping, jmpinfo, arch>>

----------------------------------------------------------------------------
(* Signals.  Where the host is decides what the handlers can know: only      *)
(* with the guest's data segment loaded do they look at the host's eip.      *)
Where ==
    CASE pc.at = "prolog" -> "code"
      [] pc.at = "code" -> IF Insn.type = "call" /\ pc.k # 1 THEN "call" ELSE "code"
      [] pc.at = "tramp" -> IF pc.i # Len(frag[pc.f]) THEN "tramp"
                            ELSE IF Insn.type = "call" THEN "call" ELSE "code"
      [] pc.at \in {"backpatch", "indirect"} -> IF Target \in live THEN "hit" ELSE "miss"
      [] pc.at = "entered" -> "hit"
      [] pc.at \in {"gentrap", "return"} -> "miss"
      [] pc.at = "returned" -> "return"
      [] pc.at \in {"scan", "scanning"} -> "translator"
      [] pc.at = "back" -> IF trap = "int3" THEN "int3" ELSE "c"
      [] pc.at \in {"find", "enter", "simplify", "place", "emit"} -> "c"
      [] OTHER -> "out"

InTranslation == pc.at \in {"prolog", "code", "tramp"}
InRuntime == pc.at \in {"entered", "backpatch", "indirect", "gentrap", "return"}

HostOfs == IF pc.at = "tramp"
           THEN TrampOfs(frag[pc.f], pc.i) + (IF pc.k = 1 THEN 0 ELSE 11)
           ELSE Insn.ofs + Host(Insn)[pc.k][1]

(* vxemu_sighandler finds the instruction by its offset in the fragment: the *)
(* last one that starts at or before the host's eip.                         *)
Blamed == LET ins == frag[pc.f]
          IN  ins[Max({i \in DOMAIN ins : ins[i].ofs <= HostOfs})]
Since == HostOfs - Blamed.ofs

(* The call's return address is on the stack when 5 bytes are left.          *)
CommitsLate(x) == Since > x.dst - 5     \* a slip: not yet at the jump itself
CallCommitted(x) == Since >= x.dst - 5

(* The word 26 bytes on in the translation of a call.  That is taken to be   *)
(* in its trampoline; it is in the first one of the fragment.                *)
WordAt(ins, ofs) ==
    ins[CHOOSE i \in DOMAIN ins : HasTramp(ins[i]) /\ TrampOfs(ins, i) + 16 = ofs].to

(* What it says emu->cpu is to hold: eip and registers.                      *)
SavedAt(x) ==
    LET butBx == [hw EXCEPT !.bx = cpu.bx]
        all == <<x.eip, hw>>
    IN  CASE Since = 0 -> all
          [] Since # 0 /\ x.type \in {"jump", "endfrag"} -> all
          [] Since # 0 /\ x.type = "call" -> <<WordAt(frag[pc.f], x.ofs + 26), hw>>
          [] Since # 0 /\ x.type = "jumpind" -> <<x.eip, butBx>>
          [] Since # 0 /\ x.type = "callind" ->
                 <<IF CallCommitted(x) THEN hw.bx ELSE x.eip, butBx>>
          [] Since # 0 /\ x.type = "ret" -> <<IF Since > 7 THEN hw.bx ELSE x.eip, butBx>>
          [] Since # 0 /\ x.type = "trap" -> <<x.eip, [hw EXCEPT !.ax = cpu.ax]>>
          [] Since # 0 /\ x.type = "loop" -> <<x.eip, [hw EXCEPT !.cx = (@ + 1) % 2]>>
          [] OTHER -> <<eip, cpu>>
Saved == IF pc.at = "prolog" THEN <<frag[pc.f][1].eip, [hw EXCEPT !.bx = cpu.bx]>>
         ELSE SavedAt(Blamed)
AssertFails == pc.at = "tramp" /\ Since > 0 /\ Blamed.type = "jump8"

Out(t, c) ==
    /\ pc' = At("out")
    /\ trap' = t
    /\ eip' = c[1] /\ cpu' = c[2]
    /\ hw' = Zero
    /\ stepping' = FALSE
    /\ jmpinfo' = NoJump
    /\ tx' = <<>>
    /\ UNCHANGED <<mem, ininst, frag, patched, arch>>

(* A trap that was pending is dropped, to happen again: its eip is put back. *)
PutBack == <<IF trap = "syscall" THEN eip - 2 ELSE eip, cpu>>

(* SIGVTALRM.  Registers in flux in the runtime: single-step out of it.      *)
Tick ==
    /\ Where \in Window
    /\ ~stepping
    /\ IF InRuntime /\ ~ininst
       THEN /\ stepping' = TRUE
            /\ trap' = "none"
            /\ eip' = PutBack[1] /\ cpu' = PutBack[2]
            /\ UNCHANGED <<pc, hw, mem, ininst, jmpinfo, code, arch>>
       ELSE IF InTranslation /\ ~ininst
       THEN Out(IF AssertFails THEN "assert" ELSE "tick", Saved)
       ELSE Out("tick", PutBack)

(* A slip: the tick in saved_trap is lost.                                   *)
StepIsForgotten ==
    /\ stepping
    /\ InTranslation \/ pc.at = "returned"
    /\ stepping' = FALSE
    /\ UNCHANGED <<pc, hw, mem, eip, cpu, trap, ininst, jmpinfo, code, arch>>

(* SIGTRAP, after the first instruction outside the runtime.                 *)
Stepped ==
    /\ stepping
    /\ \/ InTranslation /\ Out("tick", Saved)
       \/ pc.at = "returned" /\ Out("singlestep", PutBack)

(* SIGSEGV: an instruction's access, or the translator's reading of it.      *)
Fault ==
    \/ /\ pc.at = "code" /\ MayRun
       /\ HostOp \in {"alu", "push", "loadbx", "popbx"}
       /\ Out("fault", IF ininst THEN <<eip, cpu>> ELSE Saved)
    \/ /\ pc.at \in {"scan", "scanning"}
       /\ Out("fault", <<eip, cpu>>)

(* The kernel runs, may deliver a note or change the address space, and      *)
(* calls vxproc_run again.                                                   *)
Run ==
    /\ pc.at = "out"
    /\ pc' = At("find")
    /\ trap' = "none"
    /\ \/ UNCHANGED <<eip, cpu>>
       \/ /\ ininst => "note" \in Window
          /\ eip' = NoteEip /\ cpu' = [cpu EXCEPT !.esp = 0]
    /\ \/ UNCHANGED <<frag, patched>>
       \/ Flush
    /\ arch' = Guest(eip', cpu', mem)
    /\ UNCHANGED <<hw, mem, stepping, ininst, jmpinfo, tx>>

HostStep == \/ Prolog \/ Copied \/ ShortJump \/ LongJump \/ LoopCount \/ Push
        \/ Indirect \/ TrapInsn \/ Tramp \/ Lookup \/ Gentrap \/ Return
        \/ Find \/ Enter \/ Xlate \/ Stepped

Next == HostStep \/ Tick \/ Fault \/ Run

Spec == Init /\ [][Next]_vars

(* A host processor that executes at all executes the next instruction.      *)
FairSpec == Spec /\ WF_vars(HostStep)

----------------------------------------------------------------------------
(* What the four passes make of the guest's code.  A fragment follows it     *)
(* without a gap up to an instruction that may not fall through; a short     *)
(* jump stays inside; offsets are in order.                                  *)
TranslationOf(x) ==
    /\ x.dst = DstLen(x.type, x.op, x.len)
    /\ IF x.type = "endfrag" THEN x.op = "jmp" /\ x.to = x.eip
       ELSE LET g == Prog[x.eip]
            IN  /\ x.op = g.op /\ x.len = g.len /\ x.to = g.to
                /\ \/ x.type = Type(x.op)
                   \/ x.type = "jump8" /\ x.op \in {"jmp", "jcc", "loop"}

Follows(ins, e) == \A i \in DOMAIN ins :
    /\ TranslationOf(ins[i])
    /\ i < Len(ins) => ~Final(ins[i])
    /\ ins[i].eip = IF i = 1 THEN e ELSE ins[i - 1].eip + ins[i - 1].len

Whole(ins, e) ==
    /\ ins # <<>> /\ Final(Last(ins)) /\ Follows(ins, e)
    /\ \A i \in DOMAIN ins : ins[i].type = "jump8" =>
          \E k \in DOMAIN ins : ins[k].eip = ins[i].to

Placed(ins, n) == \A i \in 1 .. n : \A j \in 1 .. i - 1 : ins[j].ofs + ins[j].dst <= ins[i].ofs

Translation(ins, e) == Whole(ins, e) /\ Placed(ins, Len(ins))

CodeInv ==
    /\ \A e \in live : Translation(frag[e], e)
    /\ pc.at \notin {"scanning", "simplify", "place", "emit"} => tx = <<>>
    /\ pc.at \in {"scanning", "simplify"} =>
          Follows(tx, eip) /\ \A i \in DOMAIN tx : tx[i].type # "jump8"
    /\ pc.at = "scanning" => tx = <<>> \/ ~Final(Last(tx))
    /\ pc.at = "simplify" => tx # <<>> /\ Final(Last(tx))
    /\ pc.at = "place" => Whole(tx, eip) /\ pc.i <= Len(tx) /\ Placed(tx, pc.i - 1)
    /\ pc.at = "emit" => Translation(tx, eip)

(* Where the host can be in it.                                              *)
InFragment == pc.at \in {"code", "tramp", "backpatch", "indirect", "gentrap"}
HereInv ==
    /\ InFragment \/ pc.at = "prolog" => pc.f \in live
    /\ InFragment => pc.i \in DOMAIN frag[pc.f] /\ Insn.eip = arch.eip
    /\ pc.at = "code" => pc.k \in DOMAIN Host(Insn)
    /\ pc.at \in {"tramp", "backpatch"} => HasTramp(Insn)
    /\ pc.at = "backpatch" \/ (pc.at = "tramp" /\ pc.k # 1) => jmpinfo = <<pc.f, pc.i>>
    /\ pc.at = "indirect" => Insn.type \in {"jumpind", "callind", "ret"}
    /\ pc.at = "gentrap" => Insn.type = "trap"
    /\ pc.at \in {"enter", "entered"} => eip \in live
    /\ pc.at \in {"scan", "scanning", "simplify", "place", "emit"} => eip \notin live
    /\ pc.at \in {"return", "returned", "back"} /\ trap = "none" /\ ~stepping =>
          eip \notin live
    /\ trap # "none" => pc.at \in {"return", "returned", "back", "out"}
    /\ stepping => pc.at \in {"entered", "prolog", "backpatch", "indirect", "gentrap",
                              "return", "returned"}
    /\ \A p \in patched : /\ p[1] \in live /\ p[2] \in DOMAIN frag[p[1]]
                          /\ frag[p[1]][p[2]].to \in live

(* What the host and emu->cpu have between them, at each of these places.    *)
Done == IF Insn.type = "endfrag" THEN arch ELSE Exec(arch)
Due == IF trap = "none" THEN arch ELSE Exec(arch)

InCodeInv(x, k) ==
    LET behindBx == [hw EXCEPT !.bx = cpu.bx]
    IN  /\ k = 1 => State(x.eip, hw) = arch
        /\ x.type = "call" /\ k = 2 => State(x.to, hw) = Exec(arch)
        /\ x.type = "loop" /\ k # 1 => /\ State(x.eip, [hw EXCEPT !.cx = 1 - @]) = arch
                                       /\ k = 3 => hw.cx # 0
        /\ x.type \in {"jumpind", "callind", "ret"} /\ k = 2 =>
              State(x.eip, hw) = arch /\ cpu.bx = hw.bx
        /\ x.type \in {"jumpind", "callind"} /\ k = 3 =>
              State(x.eip, behindBx) = arch /\ hw.bx = x.to
        /\ (x.type = "ret" /\ k = 3) \/ (x.type = "callind" /\ k = 4) =>
              State(hw.bx, behindBx) = Exec(arch) /\ hw.bx \in Eip
        /\ x.type = "trap" /\ k # 1 => State(x.eip, [hw EXCEPT !.ax = cpu.ax]) = arch
        /\ x.type = "trap" /\ k = 2 => cpu.ax = hw.ax
        /\ x.type = "trap" /\ k = 4 => eip = x.eip + x.len

RegsInv ==
    /\ pc.at = "code" => InCodeInv(Insn, pc.k)
    /\ pc.at = "prolog" => State(pc.f, [hw EXCEPT !.bx = cpu.bx]) = arch
    /\ pc.at \in {"tramp", "backpatch"} => State(Insn.to, hw) = Done
    /\ pc.at = "indirect" =>
          State(hw.bx, [hw EXCEPT !.bx = cpu.bx]) = Exec(arch) /\ hw.bx \in Eip
    /\ pc.at = "gentrap" => /\ State(Insn.eip, [hw EXCEPT !.ax = cpu.ax]) = arch
                            /\ eip = Insn.eip + Insn.len
    /\ pc.at \in {"return", "returned", "back"} =>
          /\ trap # "none" => /\ trap = Prog[arch.eip].op
                              /\ trap \in {"syscall", "int3"}
                              /\ eip = arch.eip + Prog[arch.eip].len
          /\ ~stepping =>
                Due = State(eip, IF pc.at = "back" THEN cpu
                                     ELSE IF pc.at = "returned" THEN [cpu EXCEPT !.fl = hw.fl]
                                     ELSE [[cpu EXCEPT !.fl = hw.fl] EXCEPT !.esp = hw.esp])
    /\ pc.at \in {"find", "enter", "entered", "scan", "scanning", "simplify", "place", "emit"} =>
          State(eip, cpu) = arch

IInv == TypeOK /\ CodeInv /\ HereInv /\ RegsInv

(* What keeps clear of the handlers' defects: ticks outside certain windows, *)
(* and, for those in the middle of a call, no conditional jump from which    *)
(* the guest comes in straight line to a call: the first trampoline of the   *)
(* fragment is then the call's.                                              *)
SafeWindow == Window \subseteq {"code", "call", "hit", "c", "translator"}
CallsFirst == \E behind \in SUBSET Eip :
    /\ \A e \in behind : Prog[e].op # "call"
    /\ \A e \in Eip : Prog[e].op \in {"jcc", "loop"} \/ (e \in behind /\ Prog[e].op = "alu") =>
          e + Prog[e].len \in behind

(* Then single-stepping always ends in translated code, and a translation    *)
(* that a fault or tick broke off is begun again at the same eip.            *)
StepInv ==
    /\ stepping => pc.at \in {"entered", "prolog", "backpatch", "indirect"}
    /\ stepping /\ pc.at \in {"backpatch", "indirect"} => Target \in live
    /\ ininst => /\ pc.at \in {"find", "scan", "scanning", "out"}
                 /\ pc.at \in {"find", "out"} => eip \notin live

(* When vxproc_run returns, emu->cpu and the stack are the guest processor's *)
(* before or after its current instruction: after a trap instruction only    *)
(* with that instruction's own trap, and before it at a page fault.  The     *)
(* trap is one its callers know: single-stepping is the handler's own        *)
(* business, and the tick that began it is what is reported.                 *)
PreciseTrap ==
    pc.at = "out" =>
        LET now == State(eip, cpu)
            op == Prog[arch.eip].op
        IN  \/ now = arch /\ trap \in {"tick", "fault"}
            \/ /\ now = Exec(arch)
               /\ trap \notin {"fault", "singlestep"}
               /\ op \in {"syscall", "int3"} => trap = op

(* Where the translation of an instruction starts, the host's registers are  *)
(* exactly the guest's, whichever jump, patched or not, led there; where C   *)
(* code runs, emu->cpu is.                                                   *)
RegistersAtHome ==
    /\ TypeOK
    /\ pc.at = "code" /\ pc.k = 1 => State(Insn.eip, hw) = arch
    /\ pc.at = "prolog" => State(pc.f, [hw EXCEPT !.bx = cpu.bx]) = arch
    /\ pc.at \in {"find", "enter", "entered", "scan", "scanning", "simplify", "place",
                 "emit"} => State(eip, cpu) = arch

(* A flush leaves nothing behind that leads into code that is gone: the host *)
(* runs, and patched jumps reach, only fragments in the buffer.              *)
NoDeadCode ==
    /\ InTranslation \/ pc.at \in {"backpatch", "indirect", "gentrap"} => pc.f \in live
    /\ \A p \in patched : p[1] \in live /\ frag[p[1]][p[2]].to \in live

(* A tick that finds the runtime busy is not lost: vxproc_run returns it.    *)
TickDelivered == stepping ~> pc.at = "out" /\ trap = "tick"
===============================================================================
