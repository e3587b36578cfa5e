----------------------------- MODULE VxRunProofs -----------------------------
(***************************************************************************)
(* VxRun for every guest program and every size of the code buffer: the    *)
(* registers are the guest's at every beginning, nothing leads into code   *)
(* that is gone, and vxproc_run returns with a state of the guest's        *)
(* processor.                                                              *)
(*                                                                         *)
(* IInv is inductive.  CodeInv says what the passes of the translator make *)
(* of the guest's code, HereInv where in it the host may be, RegsInv which *)
(* of the guest's registers are where at each place.  PreciseTrap follows  *)
(* by looking at what the handler computes from the host's eip: it finds   *)
(* the instruction (BlamedInside, BlamedBeyond), how far its translation   *)
(* has got (HostInside) and, for a call, the target (WordIsTarget).        *)
(*                                                                         *)
(* In order: registers; translations and the places in them; one lemma for *)
(* each action; the handlers; the theorems.                                *)
(***************************************************************************)
EXTENDS VxRun, FiniteSetTheorems, WellFoundedInduction, TLAPS

(* A record of registers is its five fields.                                *)
LEMMA RegIs ==
  ASSUME NEW r \in RegType
  PROVE  /\ r = [ax |-> r.ax, bx |-> r.bx, cx |-> r.cx, fl |-> r.fl, esp |-> r.esp]
         /\ r.ax \in {"guest", "trapno"} /\ r.bx \in Int /\ r.cx \in {0, 1}
         /\ r.fl \in Int /\ r.esp \in Int
BY DEF RegType

(* ... and five such fields are a record of registers.                      *)
LEMMA RegOf ==
  ASSUME NEW a \in {"guest", "trapno"}, NEW b \in Int, NEW c \in {0, 1},
         NEW f \in Int, NEW s \in Int
  PROVE  [ax |-> a, bx |-> b, cx |-> c, fl |-> f, esp |-> s] \in RegType
BY DEF RegType

(* Setting a field to a value of its kind leaves a record of registers.     *)
LEMMA SetReg ==
  ASSUME NEW r \in RegType, NEW a \in {"guest", "trapno"}, NEW b \in Int,
         NEW c \in {0, 1}, NEW f \in Int, NEW s \in Int
  PROVE  /\ [r EXCEPT !.ax = a] \in RegType /\ [r EXCEPT !.bx = b] \in RegType
         /\ [r EXCEPT !.cx = c] \in RegType /\ [r EXCEPT !.fl = f] \in RegType
         /\ [r EXCEPT !.esp = s] \in RegType
BY RegIs, RegOf

(* The effects of guest instructions on the registers keep them so.         *)
LEMMA AluType ==
  ASSUME NEW r \in RegType
  PROVE  Alu(r) \in RegType /\ Dec(r) \in RegType /\ Pushed(r) \in RegType /\ Popped(r) \in RegType
<1>1. 1 - r.bx \in Int /\ 1 - r.cx \in {0, 1} /\ r.esp + 1 \in Int /\ r.esp - 1 \in Int
  BY RegIs
<1>2. Alu(r) \in RegType
  BY <1>1, RegIs, RegOf DEF Alu
<1> QED
  BY <1>1, <1>2, SetReg, RegIs DEF Dec, Pushed, Popped

(* Two of them are equal when the fields are; what setting one does.        *)
LEMMA RegEq ==
  ASSUME NEW r \in RegType, NEW q \in RegType
  PROVE  r = q <=> r.ax = q.ax /\ r.bx = q.bx /\ r.cx = q.cx /\ r.fl = q.fl /\ r.esp = q.esp
BY DEF RegType

(* Setting ebx changes nothing else ...                                     *)
LEMMA BxIs ==
  ASSUME NEW r \in RegType, NEW b \in Int
  PROVE  LET q == [r EXCEPT !.bx = b]
         IN  /\ q \in RegType /\ q.ax = r.ax /\ q.bx = b /\ q.cx = r.cx
             /\ q.fl = r.fl /\ q.esp = r.esp
BY SetReg, RegIs DEF RegType

(* ... and so with eax,                                                     *)
LEMMA AxIs ==
  ASSUME NEW r \in RegType, NEW a \in {"guest", "trapno"}
  PROVE  LET q == [r EXCEPT !.ax = a]
         IN  /\ q \in RegType /\ q.ax = a /\ q.bx = r.bx /\ q.cx = r.cx
             /\ q.fl = r.fl /\ q.esp = r.esp
BY SetReg, RegIs DEF RegType

(* ecx,                                                                     *)
LEMMA CxIs ==
  ASSUME NEW r \in RegType, NEW c \in {0, 1}
  PROVE  LET q == [r EXCEPT !.cx = c]
         IN  /\ q \in RegType /\ q.ax = r.ax /\ q.bx = r.bx /\ q.cx = c
             /\ q.fl = r.fl /\ q.esp = r.esp
BY SetReg, RegIs DEF RegType

(* the flags                                                                *)
LEMMA FlIs ==
  ASSUME NEW r \in RegType, NEW f \in Int
  PROVE  LET q == [r EXCEPT !.fl = f]
         IN  /\ q \in RegType /\ q.ax = r.ax /\ q.bx = r.bx /\ q.cx = r.cx
             /\ q.fl = f /\ q.esp = r.esp
BY SetReg, RegIs DEF RegType

(* and esp.                                                                 *)
LEMMA EspIs ==
  ASSUME NEW r \in RegType, NEW s \in Int
  PROVE  LET q == [r EXCEPT !.esp = s]
         IN  /\ q \in RegType /\ q.ax = r.ax /\ q.bx = r.bx /\ q.cx = r.cx
             /\ q.fl = r.fl /\ q.esp = s
BY SetReg, RegIs DEF RegType

(* A state of the guest's processor is its eip, registers and stack word.   *)
LEMMA GuestType ==
  ASSUME NEW e \in Eip, NEW r \in RegType, NEW m \in Eip
  PROVE  Guest(e, r, m) \in ArchType
BY DEF Guest, ArchType

(* Equal states agree on the three of them.                                 *)
LEMMA GuestIs ==
  ASSUME NEW a \in ArchType, NEW e, NEW r, NEW m
  PROVE  /\ a.eip \in Eip /\ a.reg \in RegType /\ a.mem \in Eip
         /\ Guest(e, r, m) = a <=> a.eip = e /\ a.reg = r /\ a.mem = m
         /\ Guest(e, r, m).eip = e /\ Guest(e, r, m).reg = r /\ Guest(e, r, m).mem = m
BY DEF ArchType, Guest

(* VxRunAssumption, at one instruction.                                     *)
LEMMA ProgType ==
  ASSUME NEW e \in Eip
  PROVE  /\ Prog[e].op \in Op /\ Prog[e].len \in 1 .. 15 /\ Prog[e].to \in Eip
         /\ Prog[e].op \notin Goes => e + Prog[e].len \in Eip
         /\ e \in Nat
BY VxRunAssumption

(* The guest's processor goes from state to state.                          *)
LEMMA ExecType ==
  ASSUME NEW a \in ArchType
  PROVE  Exec(a) \in ArchType
<1> DEFINE g == Prog[a.eip]
<1>1. a.eip \in Eip /\ a.reg \in RegType /\ a.mem \in Eip
  BY GuestIs
<1>2. g.to \in Eip /\ (g.op \notin Goes => a.eip + g.len \in Eip) /\ g.op \in Op
  BY <1>1, ProgType
<1>3. /\ Alu(a.reg) \in RegType /\ Dec(a.reg) \in RegType
      /\ Pushed(a.reg) \in RegType /\ Popped(a.reg) \in RegType
  BY <1>1, AluType
<1> HIDE DEF g
<1>4. CASE g.op = "alu"
  BY <1>1, <1>2, <1>3, <1>4, GuestType DEF Exec, Goes, g
<1>5. CASE g.op \in {"jmp", "jumpind", "jcc"}
  BY <1>1, <1>2, <1>3, <1>5, GuestType DEF Exec, Goes, g
<1>6. CASE g.op = "loop"
  BY <1>1, <1>2, <1>3, <1>6, GuestType DEF Exec, Goes, g
<1>7. CASE g.op \in {"call", "callind"}
  BY <1>1, <1>2, <1>3, <1>7, GuestType DEF Exec, Goes, g
<1>8. CASE g.op = "ret"
  BY <1>1, <1>2, <1>3, <1>8, GuestType DEF Exec, Goes, g
<1>9. CASE g.op \in {"syscall", "int3"}
  BY <1>1, <1>2, <1>3, <1>9, GuestType DEF Exec, Goes, g
<1> QED
  BY <1>2, <1>4, <1>5, <1>6, <1>7, <1>8, <1>9 DEF Op, Goes

(* Nothing translated and emu->cpu as the guest is to start: IInv holds.    *)
LEMMA InitIInv == Init => IInv
<1> SUFFICES ASSUME Init PROVE IInv
  OBVIOUS
<1> USE VxRunAssumption DEF Init
<1>1. TypeOK
  <2>1. live = {} /\ frag \in [live -> Seq(InsnType)] /\ tx \in Seq(InsnType)
    BY DEF live
  <2>2. pc \in [at : Places, f : Eip, i : Nat \ {0}, k : 1 .. 4]
    BY DEF At, Places
  <2>3. Zero \in RegType
    BY DEF Zero, RegType
  <2>4. arch \in ArchType
    BY <2>3, GuestType DEF State
  <2> QED
    BY <2>1, <2>2, <2>3, <2>4 DEF TypeOK, NoJump
<1>2. CodeInv
  BY DEF CodeInv, live, At
<1>3. HereInv
  BY DEF HereInv, live, At, InFragment
<1>4. RegsInv
  BY DEF RegsInv, At, State, Zero
<1> QED
  BY <1>1, <1>2, <1>3, <1>4 DEF IInv

(* The host instructions of a translation, and where each may occur.        *)
LEMMA HostIs ==
  ASSUME NEW x \in InsnType, NEW k \in DOMAIN Host(x)
  PROVE  /\ k \in 1 .. 4 /\ Host(x)[k][1] \in Nat
         /\ (k = 1) <=> (Host(x)[k][1] = 0)
         /\ Host(x)[k][2] = "alu" => x.type = "alu" /\ k = 1
         /\ Host(x)[k][2] = "jump8" => x.type = "jump8" /\ k = 1
         /\ Host(x)[k][2] = "endfrag" => x.type = "endfrag" /\ k = 1
         /\ Host(x)[k][2] = "jump" => \/ x.type = "jump" /\ k = 1
                                      \/ x.type = "call" /\ k = 2
                                      \/ x.type = "loop" /\ k = 3
         /\ Host(x)[k][2] = "push" => \/ x.type = "call" /\ k = 1
                                      \/ x.type = "callind" /\ k = 3
         /\ Host(x)[k][2] = "lea" => x.type = "loop" /\ k = 1
         /\ Host(x)[k][2] = "jecxz" => x.type = "loop" /\ k = 2
         /\ Host(x)[k][2] = "savebx" => x.type \in {"jumpind", "callind", "ret"} /\ k = 1
         /\ Host(x)[k][2] = "loadbx" => x.type \in {"jumpind", "callind"} /\ k = 2
         /\ Host(x)[k][2] = "popbx" => x.type = "ret" /\ k = 2
         /\ Host(x)[k][2] = "lookup" => \/ x.type \in {"jumpind", "ret"} /\ k = 3
                                        \/ x.type = "callind" /\ k = 4
         /\ Host(x)[k][2] = "saveax" => x.type = "trap" /\ k = 1
         /\ Host(x)[k][2] = "loadax" => x.type = "trap" /\ k = 2
         /\ Host(x)[k][2] = "seteip" => x.type = "trap" /\ k = 3
         /\ Host(x)[k][2] = "gentrap" => x.type = "trap" /\ k = 4
<1>1. CASE x.type = "alu"
  BY <1>1 DEF Host
<1>2. CASE x.type \in {"jump", "jump8", "endfrag"}
  BY <1>2 DEF Host
<1>3. CASE x.type = "call"
  BY <1>3 DEF Host
<1>4. CASE x.type = "loop"
  BY <1>4 DEF Host
<1>5. CASE x.type = "jumpind"
  BY <1>5 DEF Host, InsnType
<1>6. CASE x.type = "callind"
  BY <1>6 DEF Host, InsnType
<1>7. CASE x.type = "ret"
  BY <1>7 DEF Host
<1>8. CASE x.type = "trap"
  BY <1>8 DEF Host
<1> QED
  BY <1>1, <1>2, <1>3, <1>4, <1>5, <1>6, <1>7, <1>8 DEF InsnType

(* How many of them there are at least.                                     *)
LEMMA HostLen ==
  ASSUME NEW x \in InsnType
  PROVE  /\ 1 \in DOMAIN Host(x)
         /\ x.type \in {"call", "loop", "jumpind", "callind", "ret", "trap"} => 2 \in DOMAIN Host(x)
         /\ x.type \in {"loop", "jumpind", "callind", "ret", "trap"} => 3 \in DOMAIN Host(x)
         /\ x.type \in {"callind", "trap"} => 4 \in DOMAIN Host(x)
<1>1. CASE x.type \in {"alu", "jump", "jump8", "endfrag"}
  BY <1>1 DEF Host
<1>2. CASE x.type \in {"call", "loop", "jumpind"}
  BY <1>2 DEF Host
<1>3. CASE x.type \in {"callind", "ret", "trap"}
  BY <1>3 DEF Host
<1> QED
  BY <1>1, <1>2, <1>3 DEF InsnType

(* The instruction at which the host is, and the one after it.              *)
LEMMA Here ==
  ASSUME IInv, InFragment
  PROVE  /\ pc.f \in live /\ frag[pc.f] \in Seq(InsnType) /\ pc.i \in 1 .. Len(frag[pc.f])
         /\ Insn \in InsnType /\ TranslationOf(Insn) /\ Insn.eip = arch.eip
         /\ ~Final(Insn) => /\ pc.i + 1 \in 1 .. Len(frag[pc.f])
                            /\ frag[pc.f][pc.i + 1].eip = Insn.eip + Insn.len
         /\ Insn.type = "jump8" =>
               \E j \in 1 .. Len(frag[pc.f]) : frag[pc.f][j].eip = Insn.to
<1> DEFINE ins == frag[pc.f]
<1>1. pc.f \in live /\ pc.i \in DOMAIN ins /\ Insn.eip = arch.eip
  BY DEF IInv, HereInv
<1>2. ins \in Seq(InsnType) /\ Translation(ins, pc.f)
  BY <1>1 DEF IInv, TypeOK, CodeInv
<1>3. DOMAIN ins = 1 .. Len(ins) /\ Insn \in InsnType /\ Insn = ins[pc.i]
  BY <1>1, <1>2 DEF Insn
<1>4. Follows(ins, pc.f) /\ Final(Last(ins)) /\ ins # <<>>
  BY <1>2 DEF Translation, Whole
<1>5. TranslationOf(Insn)
  BY <1>1, <1>3, <1>4 DEF Follows
<1>6. ASSUME ~Final(Insn)
      PROVE  pc.i + 1 \in 1 .. Len(ins) /\ ins[pc.i + 1].eip = Insn.eip + Insn.len
  <2>1. pc.i # Len(ins)
    BY <1>3, <1>4, <1>6 DEF Last
  <2>2. pc.i + 1 \in 1 .. Len(ins)
    BY <1>1, <1>2, <1>3, <2>1
  <2> DEFINE m == pc.i + 1
  <2>3. m \in DOMAIN ins /\ m # 1 /\ m - 1 = pc.i
    BY <1>1, <1>3, <2>2
  <2>4. \A i \in DOMAIN ins : i # 1 => ins[i].eip = ins[i - 1].eip + ins[i - 1].len
    BY <1>4 DEF Follows
  <2> HIDE DEF ins, m
  <2>5. ins[m].eip = Insn.eip + Insn.len
    BY <1>3, <2>3, <2>4
  <2> QED
    BY <2>2, <2>5 DEF m
<1>7. Insn.type = "jump8" => \E j \in 1 .. Len(ins) : ins[j].eip = Insn.to
  <2>1. \A i \in DOMAIN ins : ins[i].type = "jump8" =>
           \E k \in DOMAIN ins : ins[k].eip = ins[i].to
    BY <1>2 DEF Translation, Whole
  <2> HIDE DEF ins
  <2> QED
    BY <1>1, <1>3, <2>1
<1> QED
  BY <1>1, <1>2, <1>3, <1>5, <1>6, <1>7

(* What an instruction does to the guest's processor, by its translation.   *)
LEMMA ExecIs ==
  ASSUME IInv, InFragment
  PROVE  LET x == Insn
             next == x.eip + x.len
             r == arch.reg
         IN  /\ arch \in ArchType /\ x.to \in Eip
             /\ x.type = "endfrag" => x.op = "jmp" /\ x.to = x.eip
             /\ x.type = "alu" => Exec(arch) = Guest(next, Alu(r), arch.mem)
             /\ x.type \in {"jump", "jump8"} => x.op \in {"jmp", "jcc", "loop"}
             /\ x.type = "jump" => x.op \in {"jmp", "jcc"}
             /\ x.type # "endfrag" /\ x.op = "jmp" => Exec(arch) = Guest(x.to, r, arch.mem)
             /\ x.op = "jcc" =>
                   Exec(arch) = Guest(IF Taken(r) THEN x.to ELSE next, r, arch.mem)
             /\ x.op = "loop" =>
                   Exec(arch) = Guest(IF Dec(r).cx # 0 THEN x.to ELSE next, Dec(r), arch.mem)
             /\ x.type = "loop" => x.op = "loop"
             /\ x.type \in {"call", "callind"} =>
                   Exec(arch) = Guest(x.to, Pushed(r), next)
             /\ x.type = "jumpind" => Exec(arch) = Guest(x.to, r, arch.mem)
             /\ x.type = "ret" => Exec(arch) = Guest(arch.mem, Popped(r), arch.mem)
             /\ x.type = "trap" => /\ Exec(arch) = Guest(next, r, arch.mem)
                                   /\ x.op \in {"syscall", "int3"}
                                   /\ x.op = Prog[arch.eip].op
             /\ x.type # "endfrag" => x.len = Prog[arch.eip].len
             /\ x.op \notin Goes => next \in Eip
<1> DEFINE x == Insn
<1> DEFINE g == Prog[arch.eip]
<1>1. x \in InsnType /\ TranslationOf(x) /\ x.eip = arch.eip
  BY Here
<1>2. arch \in ArchType /\ arch.eip \in Eip
  BY GuestIs DEF IInv, TypeOK
<1>3. g.op \in Op /\ g.to \in Eip /\ (g.op \notin Goes => arch.eip + g.len \in Eip)
  BY <1>2, ProgType
<1>4. x.type = "endfrag" => x.op = "jmp" /\ x.to = x.eip
  BY <1>1 DEF TranslationOf
<1>5. x.type # "endfrag" => /\ x.op = g.op /\ x.len = g.len /\ x.to = g.to
                            /\ \/ x.type = Type(x.op)
                               \/ x.type = "jump8" /\ x.op \in {"jmp", "jcc", "loop"}
  BY <1>1 DEF TranslationOf
<1>6. x.to \in Eip
  BY <1>1 DEF InsnType
<1> HIDE DEF x, g
<1>7. CASE x.type = "endfrag"
  BY <1>1, <1>2, <1>4, <1>6, <1>7 DEF x, Goes
<1>8. CASE x.type = "jump8"
  <2>1. CASE x.op = "jmp"
    BY <1>1, <1>2, <1>3, <1>5, <1>6, <1>8, <2>1 DEF x, g, Exec, Goes
  <2>2. CASE x.op = "jcc"
    BY <1>1, <1>2, <1>3, <1>5, <1>6, <1>8, <2>2 DEF x, g, Exec, Goes
  <2>3. CASE x.op = "loop"
    BY <1>1, <1>2, <1>3, <1>5, <1>6, <1>8, <2>3 DEF x, g, Exec, Goes
  <2>4. x.op \in {"jmp", "jcc", "loop"}
    BY <1>3, <1>5, <1>8 DEF Type, Op, Goes
  <2> QED
    BY <2>1, <2>2, <2>3, <2>4
<1>9. CASE x.type # "endfrag" /\ x.type = Type(x.op)
  <2>1. CASE x.op = "alu"
    BY <1>1, <1>2, <1>3, <1>5, <1>6, <1>9, <2>1 DEF x, g, Exec, Goes, Type
  <2>2. CASE x.op \in {"jmp", "jcc"}
    BY <1>1, <1>2, <1>3, <1>5, <1>6, <1>9, <2>2 DEF x, g, Exec, Goes, Type
  <2>3. CASE x.op = "loop"
    BY <1>1, <1>2, <1>3, <1>5, <1>6, <1>9, <2>3 DEF x, g, Exec, Goes, Type
  <2>4. CASE x.op \in {"call", "callind"}
    BY <1>1, <1>2, <1>3, <1>5, <1>6, <1>9, <2>4 DEF x, g, Exec, Goes, Type
  <2>5. CASE x.op \in {"jumpind", "ret"}
    BY <1>1, <1>2, <1>3, <1>5, <1>6, <1>9, <2>5 DEF x, g, Exec, Goes, Type
  <2>6. CASE x.op \in {"syscall", "int3"}
    BY <1>1, <1>2, <1>3, <1>5, <1>6, <1>9, <2>6 DEF x, g, Exec, Goes, Type
  <2> QED
    BY <1>3, <1>5, <1>9, <2>1, <2>2, <2>3, <2>4, <2>5, <2>6 DEF Op, Goes
<1> QED
  BY <1>5, <1>7, <1>8, <1>9

(* The places a step may go to.                                             *)
PcType == [at : Places, f : Eip, i : Nat \ {0}, k : 1 .. 4]

(* Setting fields of pc leaves a place.                                     *)
LEMMA PcIs ==
  ASSUME TypeOK
  PROVE  /\ pc \in PcType /\ pc.f \in Eip /\ pc.i \in Nat \ {0} /\ pc.k \in 1 .. 4
         /\ \A a \in Places : At(a) \in PcType /\ [pc EXCEPT !.at = a] \in PcType
         /\ \A f \in Eip : PrologOf(f) \in PcType
         /\ \A f \in Eip : \A i \in Nat \ {0} : InsnOf(f, i) \in PcType
         /\ \A k \in 1 .. 4 : [pc EXCEPT !.k = k] \in PcType
         /\ \A k \in 1 .. 4 : \A a \in Places : [pc EXCEPT !.at = a, !.k = k] \in PcType
<1> USE VxRunAssumption
<1>1. pc \in PcType
  BY DEF TypeOK, PcType
<1>2. \A a \in Places : At(a) \in PcType /\ [pc EXCEPT !.at = a] \in PcType
  BY <1>1 DEF PcType, At
<1>3. \A f \in Eip : PrologOf(f) \in PcType
  BY DEF PcType, PrologOf, Places
<1>4. \A f \in Eip : \A i \in Nat \ {0} : InsnOf(f, i) \in PcType
  BY DEF PcType, InsnOf, Places
<1>5. \A k \in 1 .. 4 : [pc EXCEPT !.k = k] \in PcType
  BY <1>1 DEF PcType
<1>6. \A k \in 1 .. 4 : \A a \in Places : [pc EXCEPT !.at = a, !.k = k] \in PcType
  BY <1>1 DEF PcType
<1> QED
  BY <1>1, <1>2, <1>3, <1>4, <1>5, <1>6 DEF PcType

(* While no fragment is being translated, nothing happens to the buffer.    *)
Translating == {"scanning", "simplify", "place", "emit"}
LEMMA BufferKept ==
  ASSUME CodeInv, pc.at \notin Translating, pc'.at \notin Translating, UNCHANGED <<frag, tx>>
  PROVE  CodeInv' /\ live' = live
BY DEF CodeInv, live, Translating

(* Steps that change only registers, places and the history keep TypeOK.    *)
LEMMA TypeKept ==
  ASSUME TypeOK, hw' \in RegType, mem' \in Eip, eip' \in Eip, cpu' \in RegType, pc' \in PcType,
         arch' \in ArchType, UNCHANGED <<trap, stepping, ininst, jmpinfo, code>>
  PROVE  TypeOK'
BY DEF TypeOK, PcType, code, live

(* A fragment begins where it says.                                         *)
LEMMA Begins ==
  ASSUME IInv, NEW f \in live
  PROVE  /\ f \in Eip /\ frag[f] \in Seq(InsnType) /\ Translation(frag[f], f)
         /\ 1 \in 1 .. Len(frag[f]) /\ frag[f][1].eip = f
<1>1. f \in Eip /\ frag[f] \in Seq(InsnType)
  BY DEF IInv, TypeOK
<1>2. Translation(frag[f], f)
  BY DEF IInv, CodeInv
<1>3. frag[f] # <<>> /\ Follows(frag[f], f)
  BY <1>2 DEF Translation, Whole
<1>4. 1 \in DOMAIN frag[f] /\ 1 \in 1 .. Len(frag[f])
  BY <1>1, <1>3
<1>5. frag[f][1].eip = f
  BY <1>3, <1>4 DEF Follows
<1> QED
  BY <1>1, <1>2, <1>4, <1>5

(* The host comes to the beginning of a translation, with the registers of  *)
(* the guest.                                                               *)
LEMMA Lands ==
  ASSUME IInv, hw' \in RegType, mem' \in Eip, arch' \in ArchType, pc.at \notin Translating,
         NEW f \in live, NEW j \in 1 .. Len(frag[f]), pc' = InsnOf(f, j), ~stepping,
         trap = "none", UNCHANGED <<emu, code>>, arch' = Guest(frag[f][j].eip, hw', mem')
  PROVE  IInv'
<1>1. CodeInv' /\ live' = live
  BY BufferKept DEF IInv, InsnOf, Translating, code
<1>2. frag[f] \in Seq(InsnType) /\ Insn' = frag[f][j] /\ frag[f][j] \in InsnType
  BY Begins DEF Insn, InsnOf, code
<1>3. Insn'.eip = arch'.eip
  BY <1>2 DEF State, Guest, code
<1>4. 1 \in DOMAIN Host(Insn')
  BY <1>2, HostLen
<1>5. HereInv'
  BY <1>1, <1>2, <1>3, <1>4 DEF IInv, HereInv, InFragment, InsnOf, emu, code, Insn
<1>6. RegsInv'
  BY <1>2 DEF RegsInv, InCodeInv, InsnOf, State, code
<1>7. f \in Eip /\ j \in Nat \ {0}
  BY Begins
<1>8. pc' \in PcType
  BY <1>7, PcIs DEF IInv
<1>9. TypeOK'
  BY <1>8, TypeKept DEF IInv, TypeOK, emu, code
<1> QED
  BY <1>1, <1>5, <1>6, <1>9 DEF IInv

(* The host goes on to the next instruction of a translation.               *)
LEMMA GoesOn ==
  ASSUME IInv, pc.at = "code", pc' = [pc EXCEPT !.k = @ + 1],
         pc.k + 1 \in DOMAIN Host(Insn), MayRun,
         hw' \in RegType, mem' \in Eip, eip' \in Eip, cpu' \in RegType,
         UNCHANGED <<trap, stepping, ininst, jmpinfo, code, arch>>, InCodeInv(Insn, pc.k)'
  PROVE  IInv'
<1>1. CodeInv' /\ live' = live
  BY BufferKept, PcIs DEF IInv, TypeOK, Translating, code
<1>2. pc'.at = "code" /\ pc'.f = pc.f /\ pc'.i = pc.i /\ pc'.k = pc.k + 1 /\ ~stepping
  BY DEF IInv, TypeOK, MayRun
<1>3. Insn' = Insn /\ trap = "none"
  BY <1>2 DEF Insn, code, IInv, HereInv
<1>4. HereInv'
  BY <1>1, <1>2, <1>3 DEF IInv, HereInv, InFragment, code
<1>5. RegsInv'
  BY <1>2 DEF RegsInv
<1>6. Insn \in InsnType
  BY Here DEF InFragment
<1>7. pc.k + 1 \in 1 .. 4
  BY <1>6, HostIs
<1>8. pc' \in PcType
  BY <1>7, PcIs DEF IInv
<1>9. TypeOK'
  BY <1>8, TypeKept DEF IInv, TypeOK
<1> QED
  BY <1>1, <1>4, <1>5, <1>9 DEF IInv

(* What the host does next, and what it may take for granted.               *)
LEMMA HereOp ==
  ASSUME IInv, pc.at = "code"
  PROVE  /\ InFragment /\ Insn \in InsnType /\ pc.k \in DOMAIN Host(Insn)
         /\ InCodeInv(Insn, pc.k)
         /\ hw \in RegType /\ cpu \in RegType /\ mem \in Eip /\ eip \in Eip
         /\ arch \in ArchType /\ Exec(arch) \in ArchType
         /\ trap = "none" /\ (MayRun => ~stepping) /\ pc.at \notin Translating
BY Here, ExecType DEF IInv, TypeOK, HereInv, RegsInv, InFragment, MayRun, Translating

(* One action after the other.                                              *)
LEMMA PrologKeeps == IInv /\ Prolog => IInv'
<1> SUFFICES ASSUME IInv, Prolog PROVE IInv'
  OBVIOUS
<1>1. pc.at = "prolog" /\ pc.f \in live /\ ~stepping /\ trap = "none"
  BY DEF IInv, HereInv, Prolog, MayRun
<1>2. 1 \in 1 .. Len(frag[pc.f]) /\ frag[pc.f][1].eip = pc.f
  BY <1>1, Begins
<1>3. hw \in RegType /\ cpu.bx \in Int /\ mem \in Eip /\ arch \in ArchType
  BY RegIs DEF IInv, TypeOK
<1>4. hw' \in RegType /\ mem' \in Eip /\ arch' \in ArchType
  BY <1>3, BxIs DEF Prolog
<1>5. arch' = Guest(frag[pc.f][1].eip, hw', mem')
  BY <1>1, <1>2 DEF IInv, RegsInv, Prolog, State
<1> QED
  BY <1>1, <1>2, <1>4, <1>5, Lands DEF Prolog, Translating

(* A translation that is done goes on to the next one of the fragment.      *)
LEMMA FallsThrough ==
  ASSUME IInv, pc.at = "code", MayRun, ~Final(Insn), Fall, UNCHANGED <<emu, code>>,
         hw' \in RegType, mem' \in Eip, Exec(arch) = Guest(Insn.eip + Insn.len, hw', mem')
  PROVE  IInv'
<1>1. InFragment
  BY DEF InFragment
<1>2. /\ pc.f \in live /\ pc.i + 1 \in 1 .. Len(frag[pc.f])
      /\ frag[pc.f][pc.i + 1].eip = Insn.eip + Insn.len
      /\ Insn.type # "endfrag"
  BY <1>1, Here DEF Final, TranslationOf
<1>3. pc' = InsnOf(pc.f, pc.i + 1) /\ arch' = Exec(arch)
  BY <1>2 DEF Fall, Retire
<1>4. arch' \in ArchType
  BY <1>3, HereOp
<1>5. arch' = Guest(frag[pc.f][pc.i + 1].eip, hw', mem')
  BY <1>2, <1>3
<1> QED
  BY <1>2, <1>3, <1>4, <1>5, HereOp, Lands

(* An instruction that is copied does what the guest's would.               *)
LEMMA CopiedKeeps == IInv /\ Copied => IInv'
<1> SUFFICES ASSUME IInv, Copied PROVE IInv'
  OBVIOUS
<1>1. pc.at = "code" /\ MayRun /\ Insn.type = "alu" /\ pc.k = 1
  BY HereOp, HostIs DEF Copied, InCode, HostOp
<1>2. State(Insn.eip, hw) = arch
  BY <1>1, HereOp DEF InCodeInv
<1>3. arch.reg = hw /\ arch.mem = mem
  BY <1>1, <1>2, HereOp, GuestIs DEF State
<1>4. Exec(arch) = Guest(Insn.eip + Insn.len, Alu(hw), mem)
  BY <1>1, <1>3, HereOp, ExecIs
<1>5. ~Final(Insn)
  <2>1. Insn.op # "jmp"
    BY <1>1, HereOp, Here DEF TranslationOf, Type
  <2> QED
    BY <1>1, <2>1 DEF Final
<1>6. hw' \in RegType /\ mem' \in Eip
  BY <1>1, HereOp, AluType DEF Copied
<1> QED
  BY <1>1, <1>4, <1>5, <1>6, FallsThrough DEF Copied

(* At its first host instruction the host has the guest's state.            *)
LEMMA AtHome ==
  ASSUME IInv, pc.at = "code", pc.k = 1
  PROVE  arch.eip = Insn.eip /\ arch.reg = hw /\ arch.mem = mem
<1>1. State(Insn.eip, hw) = arch
  BY HereOp DEF InCodeInv
<1> QED
  BY <1>1, HereOp, GuestIs DEF State

(* A short jump lands in the fragment, where its target is.                 *)
LEMMA ShortJumpKeeps == IInv /\ ShortJump => IInv'
<1> SUFFICES ASSUME IInv, ShortJump PROVE IInv'
  OBVIOUS
<1>1. pc.at = "code" /\ MayRun /\ Insn.type = "jump8" /\ pc.k = 1
  BY HereOp, HostIs DEF ShortJump, InCode, HostOp
<1>2. arch.reg = hw /\ arch.mem = mem
  BY <1>1, AtHome
<1>3. hw' \in RegType /\ mem' \in Eip /\ mem' = mem
  BY <1>1, HereOp, AluType DEF ShortJump
<1>4. UNCHANGED <<emu, code>> /\ hw' = IF Insn.op = "loop" THEN Dec(hw) ELSE hw
  BY DEF ShortJump
<1> DEFINE jumps == (Insn.op = "jcc" => Taken(hw)) /\ (Insn.op = "loop" => hw'.cx # 0)
<1>5. CASE jumps
  <2>1. Exec(arch) = Guest(Insn.to, hw', mem')
    BY <1>1, <1>2, <1>3, <1>4, <1>5, HereOp, ExecIs
  <2>2. PICK j \in DOMAIN frag[pc.f] :
           frag[pc.f][j].eip = Insn.to /\ pc' = InsnOf(pc.f, j) /\ Retire
    BY <1>5 DEF ShortJump
  <2>3. pc.f \in live /\ j \in 1 .. Len(frag[pc.f])
    BY <1>1, HereOp, Here
  <2>4. arch' = Guest(frag[pc.f][j].eip, hw', mem') /\ arch' \in ArchType
    BY <1>1, <2>1, <2>2, HereOp DEF Retire
  <2> QED
    BY <1>1, <1>3, <1>4, <2>2, <2>3, <2>4, HereOp, Lands
<1>6. CASE ~jumps
  <2>1. Insn.op \in {"jcc", "loop"} /\ ~Final(Insn)
    BY <1>1, <1>6 DEF Final
  <2>2. Exec(arch) = Guest(Insn.eip + Insn.len, hw', mem')
    BY <1>1, <1>2, <1>3, <1>4, <1>6, HereOp, ExecIs
  <2>3. Fall
    BY <1>6 DEF ShortJump
  <2> QED
    BY <1>1, <1>3, <1>4, <2>1, <2>2, <2>3, FallsThrough
<1> QED
  BY <1>5, <1>6

(* Counting ecx down is undone by counting it down once more (modulo 2).    *)
LEMMA DecDec ==
  ASSUME NEW r \in RegType
  PROVE  Dec(Dec(r)) = r /\ Dec(r) \in RegType
<1> DEFINE q == Dec(r)
<1>1. q \in RegType /\ q.ax = r.ax /\ q.bx = r.bx /\ q.cx = 1 - r.cx /\ q.fl = r.fl /\ q.esp = r.esp
  BY CxIs, RegIs DEF Dec
<1> DEFINE p == Dec(q)
<1> HIDE DEF q
<1>2. /\ p \in RegType /\ p.ax = q.ax /\ p.bx = q.bx /\ p.cx = 1 - q.cx /\ p.fl = q.fl
      /\ p.esp = q.esp
  BY <1>1, CxIs, RegIs DEF Dec
<1> HIDE DEF p
<1>3. p = r
  BY <1>1, <1>2, RegEq, RegIs
<1> QED
  BY <1>1, <1>3 DEF p, q

(* Halfway through the translation of a loop instruction the count has been *)
(* taken, and nothing else.                                                 *)
LEMMA Counted ==
  ASSUME IInv, pc.at = "code", Insn.type = "loop", pc.k # 1
  PROVE  Dec(arch.reg) = hw /\ arch.mem = mem /\ arch.eip = Insn.eip
<1>1. State(Insn.eip, Dec(hw)) = arch
  BY HereOp DEF InCodeInv, Dec
<1>2. arch.reg = Dec(hw) /\ arch.mem = mem /\ arch.eip = Insn.eip
  BY <1>1, HereOp, GuestIs DEF State
<1> QED
  BY <1>2, HereOp, DecDec

(* A long jump that is taken: the host has what the guest's processor will. *)
LEMMA JumpDone ==
  ASSUME IInv, pc.at = "code", HostOp \in {"jump", "endfrag"}, ~(Insn.op = "jcc" /\ ~Taken(hw))
  PROVE  State(Insn.to, hw) = Done /\ HasTramp(Insn)
<1>1. \/ Insn.type \in {"jump", "endfrag"} /\ pc.k = 1
      \/ Insn.type = "call" /\ pc.k = 2
      \/ Insn.type = "loop" /\ pc.k = 3
  BY HereOp, HostIs DEF HostOp
<1>2. CASE Insn.type = "endfrag"
  BY <1>1, <1>2, HereOp, ExecIs DEF Done, HasTramp, InCodeInv
<1>3. CASE Insn.type = "jump"
  <2>1. arch.reg = hw /\ arch.mem = mem
    BY <1>1, <1>3, AtHome
  <2> QED
    BY <1>3, <2>1, HereOp, ExecIs DEF Done, HasTramp, State
<1>4. CASE Insn.type = "call"
  BY <1>1, <1>4, HereOp DEF Done, HasTramp, InCodeInv
<1>5. CASE Insn.type = "loop"
  <2>1. Dec(arch.reg) = hw /\ arch.mem = mem /\ hw.cx # 0
    BY <1>1, <1>5, Counted, HereOp DEF InCodeInv
  <2> QED
    BY <1>5, <2>1, HereOp, ExecIs DEF Done, HasTramp, State
<1> QED
  BY <1>1, <1>2, <1>3, <1>4, <1>5

(* A long jump goes on, to a fragment that is there, or to its trampoline.  *)
LEMMA LongJumpKeeps == IInv /\ LongJump => IInv'
<1> SUFFICES ASSUME IInv, LongJump PROVE IInv'
  OBVIOUS
<1>1. /\ pc.at = "code" /\ MayRun /\ HostOp \in {"jump", "endfrag"}
      /\ UNCHANGED <<hw, mem, emu, code>>
  BY DEF LongJump
<1>2. hw' \in RegType /\ mem' \in Eip /\ UNCHANGED <<emu, code>>
  BY <1>1, HereOp
<1>3. CASE Insn.op = "jcc" /\ ~Taken(hw)
  <2>1. Insn.type = "jump" /\ pc.k = 1 /\ ~Final(Insn)
    BY <1>1, <1>3, HereOp, HostIs, Here DEF HostOp, Final, TranslationOf, Type
  <2>2. arch.reg = hw /\ arch.mem = mem
    BY <1>1, <2>1, AtHome
  <2>3. Exec(arch) = Guest(Insn.eip + Insn.len, hw', mem')
    BY <1>1, <1>3, <2>2, HereOp, ExecIs
  <2>4. Fall
    BY <1>3 DEF LongJump
  <2> QED
    BY <1>1, <1>2, <2>1, <2>3, <2>4, FallsThrough
<1>4. CASE ~(Insn.op = "jcc" /\ ~Taken(hw)) /\ <<pc.f, pc.i>> \in patched
  <2>1. Insn.to \in live
    BY <1>4 DEF IInv, HereInv, Insn
  <2>2. 1 \in 1 .. Len(frag[Insn.to]) /\ frag[Insn.to][1].eip = Insn.to
    BY <2>1, Begins
  <2>3. pc' = InsnOf(Insn.to, 1) /\ Retire
    BY <1>4 DEF LongJump, PatchedEntry
  <2>4. arch' = Done /\ arch' \in ArchType
    BY <1>1, <2>3, HereOp DEF Retire, Done
  <2>5. arch' = Guest(frag[Insn.to][1].eip, hw', mem')
    BY <1>1, <1>4, <2>2, <2>4, JumpDone DEF State
  <2> QED
    BY <1>1, <1>2, <2>1, <2>2, <2>3, <2>4, <2>5, HereOp, Lands
<1>5. CASE ~(Insn.op = "jcc" /\ ~Taken(hw)) /\ <<pc.f, pc.i>> \notin patched
  <2>1. pc' = [pc EXCEPT !.at = "tramp", !.k = 1] /\ arch' = arch
    BY <1>5 DEF LongJump
  <2>2. pc' \in PcType /\ pc'.at = "tramp" /\ pc'.f = pc.f /\ pc'.i = pc.i /\ pc'.k = 1
    <3>1. pc \in PcType /\ [pc EXCEPT !.at = "tramp", !.k = 1] \in PcType
      BY PcIs DEF IInv, Places
    <3> QED
      BY <2>1, <3>1 DEF PcType
  <2>3. Insn' = Insn /\ State(Insn.to, hw)' = State(Insn.to, hw) /\ Done' = Done
    BY <1>1, <2>1, <2>2 DEF Insn, code, State, Guest, Done
  <2>4. CodeInv' /\ live' = live
    BY <1>1, <2>2, BufferKept, HereOp DEF IInv, Translating, code
  <2>5. TypeOK'
    BY <1>1, <2>1, <2>2, TypeKept, HereOp DEF IInv, emu
  <2>6. HereInv'
    BY <1>1, <1>5, <2>1, <2>2, <2>3, <2>4, JumpDone, HereOp
    DEF IInv, HereInv, InFragment, code, emu
  <2>7. RegsInv'
    BY <1>1, <1>5, <2>2, <2>3, JumpDone DEF RegsInv
  <2> QED
    BY <2>4, <2>5, <2>6, <2>7 DEF IInv
<1> QED
  BY <1>3, <1>4, <1>5

(* Setting a register twice is setting it to the second value.              *)
LEMMA BxTwice ==
  ASSUME NEW r \in RegType, NEW b \in Int, NEW c \in Int
  PROVE  /\ [[r EXCEPT !.bx = b] EXCEPT !.bx = c] = [r EXCEPT !.bx = c]
         /\ [r EXCEPT !.bx = r.bx] = r
<1>1. [r EXCEPT !.bx = b] \in RegType /\ [r EXCEPT !.bx = c] \in RegType
  BY BxIs
<1>2. [[r EXCEPT !.bx = b] EXCEPT !.bx = c] \in RegType
  BY <1>1, BxIs
<1> QED
  BY <1>1, <1>2, BxIs, RegEq, RegIs

(* The same for eax.                                                        *)
LEMMA AxTwice ==
  ASSUME NEW r \in RegType, NEW a \in {"guest", "trapno"}, NEW b \in {"guest", "trapno"}
  PROVE  /\ [[r EXCEPT !.ax = a] EXCEPT !.ax = b] = [r EXCEPT !.ax = b]
         /\ [r EXCEPT !.ax = r.ax] = r
<1>1. [r EXCEPT !.ax = a] \in RegType /\ [r EXCEPT !.ax = b] \in RegType
  BY AxIs
<1>2. [[r EXCEPT !.ax = a] EXCEPT !.ax = b] \in RegType
  BY <1>1, AxIs
<1> QED
  BY <1>1, <1>2, AxIs, RegEq, RegIs

(* ebx and esp can be set in either order.                                  *)
LEMMA PushedBx ==
  ASSUME NEW r \in RegType, NEW b \in Int
  PROVE  /\ Pushed([r EXCEPT !.bx = b]) = [Pushed(r) EXCEPT !.bx = b] /\ Pushed(r).bx = r.bx
         /\ Popped(r) \in RegType /\ Popped(r).bx = r.bx
<1>1. r.esp + 1 \in Int /\ r.esp - 1 \in Int
  BY RegIs
<1>2. [r EXCEPT !.bx = b] \in RegType /\ Pushed(r) \in RegType /\ Popped(r) \in RegType
  BY AluType, BxIs
<1>3. Pushed([r EXCEPT !.bx = b]) \in RegType /\ [Pushed(r) EXCEPT !.bx = b] \in RegType
  BY <1>2, AluType, BxIs
<1>4. /\ Pushed(r).ax = r.ax /\ Pushed(r).bx = r.bx /\ Pushed(r).cx = r.cx
      /\ Pushed(r).fl = r.fl /\ Pushed(r).esp = r.esp + 1 /\ Popped(r).bx = r.bx
  BY <1>1, EspIs DEF Pushed, Popped
<1> DEFINE q == [r EXCEPT !.bx = b]
<1>5. /\ q \in RegType /\ q.ax = r.ax /\ q.bx = b /\ q.cx = r.cx
      /\ q.fl = r.fl /\ q.esp = r.esp
  BY BxIs
<1> HIDE DEF q
<1>6. /\ Pushed(q).ax = q.ax /\ Pushed(q).bx = q.bx /\ Pushed(q).cx = q.cx
      /\ Pushed(q).fl = q.fl /\ Pushed(q).esp = q.esp + 1
  BY <1>1, <1>5, EspIs DEF Pushed
<1> DEFINE p == [Pushed(r) EXCEPT !.bx = b]
<1>7. /\ p.ax = Pushed(r).ax /\ p.bx = b /\ p.cx = Pushed(r).cx
      /\ p.fl = Pushed(r).fl /\ p.esp = Pushed(r).esp
  BY <1>2, BxIs
<1>8. p \in RegType /\ Pushed(q) \in RegType
  BY <1>3 DEF q
<1> HIDE DEF p
<1>9. Pushed(q) = p
  BY <1>4, <1>5, <1>6, <1>7, <1>8, RegEq
<1> QED
  BY <1>2, <1>4, <1>9 DEF p, q

(* The parts of a translated loop.                                          *)
LEMMA LoopCountKeeps == IInv /\ LoopCount => IInv'
<1> SUFFICES ASSUME IInv, LoopCount PROVE IInv'
  OBVIOUS
<1>1. /\ pc.at = "code" /\ MayRun /\ Insn.type = "loop"
      /\ UNCHANGED <<emu, code>> /\ mem' = mem
  BY HereOp, HostIs DEF LoopCount, InCode, HostOp
<1>2. hw' \in RegType /\ mem' \in Eip /\ eip' \in Eip /\ cpu' \in RegType
  BY <1>1, HereOp, AluType DEF LoopCount, emu
<1>3. CASE HostOp = "lea"
  <2>1. pc.k = 1 /\ hw' = Dec(hw) /\ More
    BY <1>1, <1>3, HereOp, HostIs DEF LoopCount, InCode, HostOp
  <2>2. pc' = [pc EXCEPT !.k = @ + 1] /\ pc'.k = 2 /\ Insn' = Insn /\ arch' = arch
    BY <1>1, <2>1 DEF IInv, TypeOK, More, Insn, code
  <2>3. 2 \in DOMAIN Host(Insn)
    BY <1>1, HereOp, HostLen
  <2>4. State(Insn.eip, Dec(hw))' = arch'
    BY <1>1, <2>1, <2>2, HereOp, DecDec DEF InCodeInv, State
  <2>5. InCodeInv(Insn, pc.k)'
    BY <1>1, <2>2, <2>4 DEF InCodeInv, Dec
  <2> QED
    BY <1>1, <1>2, <2>1, <2>2, <2>3, <2>5, GoesOn DEF emu
<1>4. CASE HostOp = "jecxz" /\ hw.cx = 0
  <2>1. pc.k = 2 /\ hw' = hw /\ Fall
    BY <1>1, <1>4, HereOp, HostIs DEF LoopCount, InCode, HostOp
  <2>2. Dec(arch.reg) = hw /\ arch.mem = mem /\ Insn.op = "loop" /\ ~Final(Insn)
    BY <1>1, <2>1, Counted, HereOp, ExecIs DEF Final
  <2>3. Exec(arch) = Guest(Insn.eip + Insn.len, hw', mem')
    BY <1>1, <1>4, <2>1, <2>2, HereOp, ExecIs
  <2> QED
    BY <1>1, <1>2, <2>1, <2>2, <2>3, FallsThrough
<1>5. CASE HostOp = "jecxz" /\ hw.cx # 0
  <2>1. pc.k = 2 /\ hw' = hw /\ More
    BY <1>1, <1>5, HereOp, HostIs DEF LoopCount, InCode, HostOp
  <2>2. pc' = [pc EXCEPT !.k = @ + 1] /\ pc'.k = 3 /\ Insn' = Insn /\ arch' = arch
    BY <1>1, <2>1 DEF IInv, TypeOK, More, Insn, code
  <2>3. 3 \in DOMAIN Host(Insn)
    BY <1>1, HereOp, HostLen
  <2>4. InCodeInv(Insn, pc.k)'
    BY <1>1, <1>5, <2>1, <2>2, HereOp DEF InCodeInv, State
  <2> QED
    BY <1>1, <1>2, <2>1, <2>2, <2>3, <2>4, GoesOn DEF emu
<1> QED
  BY <1>3, <1>4, <1>5 DEF LoopCount, InCode

(* Pushing a return address: it is what the guest's call pushes.            *)
LEMMA PushKeeps == IInv /\ Push => IInv'
<1> SUFFICES ASSUME IInv, Push PROVE IInv'
  OBVIOUS
<1>1. /\ pc.at = "code" /\ MayRun
      /\ \/ Insn.type = "call" /\ pc.k = 1
         \/ Insn.type = "callind" /\ pc.k = 3
      /\ UNCHANGED <<emu, code, arch>> /\ pc' = [pc EXCEPT !.k = @ + 1]
      /\ mem' = Insn.eip + Insn.len /\ hw' = Pushed(hw)
  BY HereOp, HostIs DEF Push, InCode, HostOp, More
<1>2. hw' \in RegType /\ eip' \in Eip /\ cpu' \in RegType
  BY <1>1, HereOp, AluType DEF emu
<1>3. Insn.op \notin Goes
  BY <1>1, HereOp, Here, GuestIs, ProgType DEF TranslationOf, Type, Goes, Op
<1>4. mem' \in Eip
  BY <1>1, <1>3, HereOp, ExecIs
<1>5. pc'.k = pc.k + 1 /\ Insn' = Insn /\ UNCHANGED <<cpu, arch>>
  BY <1>1 DEF IInv, TypeOK, Insn, code, emu
<1>6. CASE Insn.type = "call"
  <2>1. arch.reg = hw
    BY <1>1, <1>6, AtHome
  <2>2. Exec(arch) = Guest(Insn.to, Pushed(hw), Insn.eip + Insn.len)
    BY <1>1, <1>6, <2>1, HereOp, ExecIs
  <2>3. State(Insn.to, hw)' = Exec(arch)'
    BY <1>1, <1>5, <2>2 DEF State, Exec
  <2>4. InCodeInv(Insn, pc.k)'
    BY <1>1, <1>5, <1>6, <2>3 DEF InCodeInv
  <2>5. 2 \in DOMAIN Host(Insn)
    BY <1>6, HereOp, HostLen, <1>1
  <2> QED
    BY <1>1, <1>2, <1>4, <1>6, <2>4, <2>5, GoesOn DEF emu
<1>7. CASE Insn.type = "callind"
  <2>1. State(Insn.eip, [hw EXCEPT !.bx = cpu.bx]) = arch /\ hw.bx = Insn.to
    BY <1>1, <1>7, HereOp DEF InCodeInv
  <2>2. arch.reg = [hw EXCEPT !.bx = cpu.bx]
    BY <1>1, <2>1, HereOp, GuestIs DEF State
  <2>3. Exec(arch) = Guest(Insn.to, Pushed([hw EXCEPT !.bx = cpu.bx]), Insn.eip + Insn.len)
    BY <1>1, <1>7, <2>2, HereOp, ExecIs
  <2>4. /\ Pushed([hw EXCEPT !.bx = cpu.bx]) = [hw' EXCEPT !.bx = cpu'.bx]
        /\ hw'.bx = hw.bx
    BY <1>1, <1>5, HereOp, PushedBx, RegIs
  <2>5. hw'.bx = Insn.to /\ hw'.bx \in Eip
    BY <1>1, <2>1, <2>4, HereOp, ExecIs
  <2>6. Guest(hw'.bx, [hw' EXCEPT !.bx = cpu'.bx], mem') = Exec(arch)
    BY <1>1, <2>3, <2>4, <2>5
  <2>7. State(hw.bx, [hw EXCEPT !.bx = cpu.bx])' = Exec(arch)'
    BY <1>5, <2>6 DEF State, Exec
  <2>8. InCodeInv(Insn, pc.k)'
    BY <1>1, <1>5, <1>7, <2>5, <2>7 DEF InCodeInv
  <2>9. 4 \in DOMAIN Host(Insn)
    BY <1>7, HereOp, HostLen, <1>1
  <2> QED
    BY <1>1, <1>2, <1>4, <1>7, <2>8, <2>9, GoesOn DEF emu
<1> QED
  BY <1>1, <1>6, <1>7

(* ebx is saved, and then loaded with the target.                           *)
LEMMA SaveLoadKeeps ==
  ASSUME IInv, Indirect, HostOp # "lookup"
  PROVE  IInv'
<1>1. /\ pc.at = "code" /\ MayRun /\ HostOp \in {"savebx", "loadbx", "popbx"}
      /\ UNCHANGED <<mem, eip, trap, stepping, ininst, jmpinfo, code, arch>>
      /\ pc' = [pc EXCEPT !.k = @ + 1]
  BY DEF Indirect, InCode, More
<1>2. /\ hw \in RegType /\ hw.bx \in Int /\ cpu.bx \in Int /\ mem \in Int
      /\ Insn.to \in Int /\ Insn.to \in Eip
  BY <1>1, HereOp, ExecIs, RegIs, VxRunAssumption
<1>3. mem' \in Eip /\ eip' \in Eip
  BY <1>1, HereOp
<1>4. pc'.k = pc.k + 1 /\ Insn' = Insn /\ arch' = arch /\ mem' = mem
  BY <1>1 DEF IInv, TypeOK, Insn, code
<1>5. CASE HostOp = "savebx"
  <2>1. /\ Insn.type \in {"jumpind", "callind", "ret"} /\ pc.k = 1
        /\ cpu' = [cpu EXCEPT !.bx = hw.bx] /\ hw' = hw
    BY <1>1, <1>5, HereOp, HostIs DEF Indirect, InCode, HostOp
  <2>2. hw' \in RegType /\ cpu' \in RegType /\ cpu'.bx = hw'.bx
    BY <1>1, <1>2, <2>1, HereOp, BxIs
  <2>3. 2 \in DOMAIN Host(Insn)
    BY <1>1, <2>1, HereOp, HostLen
  <2>4. State(Insn.eip, hw) = arch
    BY <1>1, <2>1, HereOp DEF InCodeInv
  <2>5. State(Insn.eip, hw)' = arch'
    BY <1>4, <2>1, <2>4 DEF State
  <2>6. InCodeInv(Insn, pc.k)'
    BY <1>4, <2>1, <2>2, <2>5 DEF InCodeInv
  <2> QED
    BY <1>1, <1>3, <2>1, <2>2, <2>3, <2>6, GoesOn
<1>6. CASE HostOp = "loadbx"
  <2>1. /\ Insn.type \in {"jumpind", "callind"} /\ pc.k = 2
        /\ hw' = [hw EXCEPT !.bx = Insn.to] /\ cpu' = cpu
    BY <1>1, <1>6, HereOp, HostIs DEF Indirect, InCode, HostOp
  <2>2. hw' \in RegType /\ cpu' \in RegType /\ hw'.bx = Insn.to
    BY <1>1, <1>2, <2>1, HereOp, BxIs
  <2>3. 3 \in DOMAIN Host(Insn)
    BY <1>1, <2>1, HereOp, HostLen
  <2>4. State(Insn.eip, hw) = arch /\ cpu.bx = hw.bx
    BY <1>1, <2>1, HereOp DEF InCodeInv
  <2>5. [hw' EXCEPT !.bx = cpu'.bx] = hw
    BY <1>2, <2>1, <2>4, BxTwice
  <2>6. State(Insn.eip, [hw EXCEPT !.bx = cpu.bx])' = arch'
    BY <1>4, <2>4, <2>5 DEF State
  <2>7. InCodeInv(Insn, pc.k)'
    BY <1>4, <2>1, <2>2, <2>6 DEF InCodeInv
  <2> QED
    BY <1>1, <1>3, <2>1, <2>2, <2>3, <2>7, GoesOn
<1>7. CASE HostOp = "popbx"
  <2>1. /\ Insn.type = "ret" /\ pc.k = 2
        /\ hw' = [Popped(hw) EXCEPT !.bx = mem] /\ cpu' = cpu
    BY <1>1, <1>7, HereOp, HostIs DEF Indirect, InCode, HostOp
  <2>2. Popped(hw) \in RegType /\ Popped(hw).bx = hw.bx
    BY <1>2, PushedBx
  <2>3. hw' \in RegType /\ cpu' \in RegType /\ hw'.bx = mem
    BY <1>1, <1>2, <2>1, <2>2, HereOp, BxIs
  <2>4. 3 \in DOMAIN Host(Insn)
    BY <1>1, <2>1, HereOp, HostLen
  <2>5. State(Insn.eip, hw) = arch /\ cpu.bx = hw.bx
    BY <1>1, <2>1, HereOp DEF InCodeInv
  <2>6. [hw' EXCEPT !.bx = cpu'.bx] = Popped(hw)
    BY <1>2, <2>1, <2>2, <2>5, BxTwice
  <2>7. arch.reg = hw /\ arch.mem = mem
    BY <1>1, <2>5, HereOp, GuestIs DEF State
  <2>8. Exec(arch) = Guest(mem, Popped(hw), mem)
    BY <1>1, <2>1, <2>7, HereOp, ExecIs
  <2>9. State(hw.bx, [hw EXCEPT !.bx = cpu.bx])' = Exec(arch)' /\ hw'.bx \in Eip
    BY <1>1, <1>4, <2>3, <2>6, <2>8, HereOp DEF State, Exec
  <2>10. InCodeInv(Insn, pc.k)'
    BY <1>4, <2>1, <2>9 DEF InCodeInv
  <2> QED
    BY <1>1, <1>3, <2>1, <2>3, <2>4, <2>10, GoesOn
<1> QED
  BY <1>1, <1>5, <1>6, <1>7

(* The host leaves a translation for its trampoline or the runtime.         *)
LEMMA Moves ==
  ASSUME IInv, InFragment, NEW a \in {"backpatch", "indirect", "gentrap"},
         pc' = [pc EXCEPT !.at = a],
         UNCHANGED <<hw, mem, eip, cpu, trap, stepping, ininst, code, arch>>
  PROVE  /\ pc'.at = a /\ pc'.f = pc.f /\ pc'.i = pc.i /\ pc'.k = pc.k
         /\ Insn' = Insn /\ Done' = Done /\ CodeInv' /\ live' = live
         /\ jmpinfo' = jmpinfo => TypeOK'
<1>1. pc'.at = a /\ pc'.f = pc.f /\ pc'.i = pc.i /\ pc'.k = pc.k
  BY DEF IInv, TypeOK
<1>2. Insn' = Insn
  BY <1>1 DEF Insn, code
<1>3. Done' = Done
  BY <1>2 DEF Done, Exec
<1>4. CodeInv' /\ live' = live
  BY <1>1, BufferKept DEF IInv, InFragment, Translating, code
<1>5. pc' \in PcType
  BY PcIs DEF IInv, Places
<1>6. jmpinfo' = jmpinfo => TypeOK'
  BY <1>5, TypeKept DEF IInv, TypeOK
<1> QED
  BY <1>1, <1>2, <1>3, <1>4, <1>6

(* The jump to vxrun_lookup_indirect.                                       *)
LEMMA LookupInsnKeeps ==
  ASSUME IInv, Indirect, HostOp = "lookup"
  PROVE  IInv'
<1>1. /\ pc.at = "code" /\ MayRun /\ pc' = [pc EXCEPT !.at = "indirect"]
      /\ UNCHANGED <<hw, mem, emu, code, arch>>
      /\ \/ Insn.type \in {"jumpind", "ret"} /\ pc.k = 3
         \/ Insn.type = "callind" /\ pc.k = 4
  BY HereOp, HostIs DEF Indirect, InCode, HostOp, emu
<1>2. InFragment
  BY <1>1 DEF InFragment
<1>3. /\ pc'.at = "indirect" /\ pc'.f = pc.f /\ pc'.i = pc.i /\ pc'.k = pc.k
      /\ Insn' = Insn /\ CodeInv' /\ live' = live /\ TypeOK'
  BY <1>1, <1>2, Moves DEF emu
<1>4. State(hw.bx, [hw EXCEPT !.bx = cpu.bx]) = Exec(arch) /\ hw.bx \in Eip
  <2>1. CASE Insn.type = "jumpind"
    <3>1. State(Insn.eip, [hw EXCEPT !.bx = cpu.bx]) = arch /\ hw.bx = Insn.to
      BY <1>1, <2>1, HereOp DEF InCodeInv
    <3>2. arch.reg = [hw EXCEPT !.bx = cpu.bx] /\ arch.mem = mem
      BY <1>1, <3>1, HereOp, GuestIs DEF State
    <3> QED
      BY <1>2, <2>1, <3>1, <3>2, ExecIs DEF State
  <2>2. CASE Insn.type \in {"ret", "callind"}
    BY <1>1, <2>2, HereOp DEF InCodeInv
  <2> QED
    BY <1>1, <2>1, <2>2
<1>5. HereInv'
  BY <1>1, <1>3, HereOp DEF IInv, HereInv, InFragment, code, emu
<1>6. State(hw.bx, [hw EXCEPT !.bx = cpu.bx])' = Exec(arch)' /\ hw'.bx \in Eip
  BY <1>1, <1>4 DEF State, Exec, emu
<1>7. RegsInv'
  BY <1>3, <1>6 DEF RegsInv
<1> QED
  BY <1>3, <1>5, <1>7 DEF IInv

(* All of an indirect jump, call or return.                                 *)
LEMMA IndirectKeeps == IInv /\ Indirect => IInv'
BY SaveLoadKeeps, LookupInsnKeeps

(* The parts of a translated trap.                                          *)
LEMMA TrapInsnKeeps == IInv /\ TrapInsn => IInv'
<1> SUFFICES ASSUME IInv, TrapInsn PROVE IInv'
  OBVIOUS
<1>1. /\ pc.at = "code" /\ MayRun /\ HostOp \in {"saveax", "loadax", "seteip", "gentrap"}
      /\ UNCHANGED <<mem, trap, stepping, ininst, jmpinfo, code, arch>>
      /\ Insn.type = "trap"
  BY HereOp, HostIs DEF TrapInsn, InCode, HostOp
<1>2. /\ hw \in RegType /\ cpu \in RegType /\ mem' \in Eip /\ eip \in Eip
      /\ hw.ax \in {"guest", "trapno"} /\ cpu.ax \in {"guest", "trapno"}
      /\ Insn.eip + Insn.len \in Eip /\ InFragment
  BY <1>1, HereOp, ExecIs, RegIs DEF Goes
<1>3. HostOp # "gentrap" => /\ pc' = [pc EXCEPT !.k = @ + 1]
                            /\ pc'.k = pc.k + 1 /\ Insn' = Insn /\ arch' = arch /\ mem' = mem
  BY <1>1 DEF IInv, TypeOK, Insn, code, TrapInsn, More, InCode
<1>4. CASE HostOp = "saveax"
  <2>1. pc.k = 1 /\ cpu' = [cpu EXCEPT !.ax = hw.ax] /\ hw' = hw /\ eip' = eip
    BY <1>1, <1>4, HereOp, HostIs DEF TrapInsn, InCode, HostOp
  <2>2. hw' \in RegType /\ cpu' \in RegType /\ cpu'.ax = hw'.ax
    BY <1>2, <2>1, AxIs
  <2>3. State(Insn.eip, hw) = arch
    BY <1>1, <2>1, HereOp DEF InCodeInv
  <2>4. [hw' EXCEPT !.ax = cpu'.ax] = hw
    BY <1>2, <2>1, <2>2, AxTwice
  <2>5. State(Insn.eip, [hw EXCEPT !.ax = cpu.ax])' = arch'
    BY <1>3, <1>4, <2>3, <2>4 DEF State
  <2>6. InCodeInv(Insn, pc.k)'
    BY <1>1, <1>3, <1>4, <2>1, <2>2, <2>5 DEF InCodeInv
  <2>7. 2 \in DOMAIN Host(Insn)
    BY <1>1, HereOp, HostLen
  <2> QED
    BY <1>1, <1>2, <1>3, <1>4, <2>1, <2>2, <2>6, <2>7, GoesOn
<1>5. CASE HostOp = "loadax"
  <2>1. pc.k = 2 /\ hw' = [hw EXCEPT !.ax = "trapno"] /\ cpu' = cpu /\ eip' = eip
    BY <1>1, <1>5, HereOp, HostIs DEF TrapInsn, InCode, HostOp
  <2>2. hw' \in RegType /\ cpu' \in RegType
    BY <1>2, <2>1, AxIs
  <2>3. State(Insn.eip, [hw EXCEPT !.ax = cpu.ax]) = arch
    BY <1>1, <2>1, HereOp DEF InCodeInv
  <2>4. [hw' EXCEPT !.ax = cpu'.ax] = [hw EXCEPT !.ax = cpu.ax]
    BY <1>2, <2>1, <2>2, AxTwice
  <2>5. State(Insn.eip, [hw EXCEPT !.ax = cpu.ax])' = arch'
    BY <1>3, <1>5, <2>3, <2>4 DEF State
  <2>6. InCodeInv(Insn, pc.k)'
    BY <1>1, <1>3, <1>5, <2>1, <2>5 DEF InCodeInv
  <2>7. 3 \in DOMAIN Host(Insn)
    BY <1>1, HereOp, HostLen
  <2> QED
    BY <1>1, <1>2, <1>3, <1>5, <2>1, <2>2, <2>6, <2>7, GoesOn
<1>6. CASE HostOp = "seteip"
  <2>1. pc.k = 3 /\ eip' = Insn.eip + Insn.len /\ cpu' = cpu /\ hw' = hw
    BY <1>1, <1>6, HereOp, HostIs DEF TrapInsn, InCode, HostOp
  <2>2. State(Insn.eip, [hw EXCEPT !.ax = cpu.ax]) = arch
    BY <1>1, <2>1, HereOp DEF InCodeInv
  <2>3. State(Insn.eip, [hw EXCEPT !.ax = cpu.ax])' = arch'
    BY <1>3, <1>6, <2>1, <2>2 DEF State
  <2>4. InCodeInv(Insn, pc.k)'
    BY <1>1, <1>3, <1>6, <2>1, <2>3 DEF InCodeInv
  <2>5. 4 \in DOMAIN Host(Insn)
    BY <1>1, HereOp, HostLen
  <2> QED
    BY <1>1, <1>2, <1>3, <1>6, <2>1, <2>4, <2>5, GoesOn
<1>7. CASE HostOp = "gentrap"
  <2>1. pc.k = 4 /\ pc' = [pc EXCEPT !.at = "gentrap"] /\ UNCHANGED <<hw, eip, cpu>>
    BY <1>1, <1>7, HereOp, HostIs DEF TrapInsn, InCode, HostOp
  <2>2. /\ pc'.at = "gentrap" /\ pc'.f = pc.f /\ pc'.i = pc.i
        /\ Insn' = Insn /\ CodeInv' /\ live' = live /\ TypeOK'
    BY <1>1, <1>2, <2>1, Moves
  <2>3. State(Insn.eip, [hw EXCEPT !.ax = cpu.ax]) = arch /\ eip = Insn.eip + Insn.len
    BY <1>1, <2>1, HereOp DEF InCodeInv
  <2>4. State(Insn.eip, [hw EXCEPT !.ax = cpu.ax])' = arch' /\ eip' = Insn'.eip + Insn'.len
    BY <1>1, <2>1, <2>2, <2>3 DEF State
  <2>5. HereInv'
    BY <1>1, <2>2, HereOp DEF IInv, HereInv, InFragment, code
  <2>6. RegsInv'
    BY <2>2, <2>4 DEF RegsInv
  <2> QED
    BY <2>2, <2>5, <2>6 DEF IInv
<1> QED
  BY <1>1, <1>4, <1>5, <1>6, <1>7

(* A trampoline leaves its jump in jmpinfo.                                 *)
LEMMA TrampKeeps == IInv /\ Tramp => IInv'
<1> SUFFICES ASSUME IInv, Tramp PROVE IInv'
  OBVIOUS
<1>1. /\ pc.at = "tramp" /\ InFragment /\ HasTramp(Insn) /\ State(Insn.to, hw) = Done
      /\ ~stepping /\ trap = "none" /\ pc \in PcType
      /\ UNCHANGED <<hw, mem, eip, cpu, trap, stepping, ininst, code, arch>>
  BY PcIs DEF IInv, HereInv, RegsInv, Tramp, InFragment
<1>2. State(Insn.to, hw)' = Done' <=> State(Insn'.to, hw) = Done'
  BY <1>1 DEF State
<1>3. CASE pc.k = 1
  <2>1. jmpinfo' = <<pc.f, pc.i>> /\ pc' = [pc EXCEPT !.k = 2]
    BY <1>3 DEF Tramp
  <2>2. pc' \in PcType /\ pc'.at = "tramp" /\ pc'.f = pc.f /\ pc'.i = pc.i /\ pc'.k = 2
    <3>1. 2 \in 1 .. 4
      OBVIOUS
    <3>2. pc' \in PcType
      BY <2>1, <3>1, PcIs DEF IInv
    <3> QED
      BY <1>1, <2>1, <3>2 DEF PcType
  <2>3. jmpinfo' \in Eip \X Nat
    BY <2>1, PcIs DEF IInv
  <2>4. TypeOK'
    BY <1>1, <2>2, <2>3 DEF IInv, TypeOK, PcType, code, live
  <2>5. Insn' = Insn /\ Done' = Done
    BY <1>1, <2>2 DEF Insn, code, Done, Exec
  <2>6. CodeInv' /\ live' = live
    BY <1>1, <2>2, BufferKept DEF IInv, Translating, code
  <2>7. HereInv'
    BY <1>1, <2>1, <2>2, <2>5, <2>6 DEF IInv, HereInv, InFragment, code
  <2>8. RegsInv'
    BY <1>1, <1>2, <2>2, <2>5 DEF RegsInv
  <2> QED
    BY <2>4, <2>6, <2>7, <2>8 DEF IInv
<1>4. CASE pc.k # 1
  <2>1. pc' = [pc EXCEPT !.at = "backpatch"] /\ jmpinfo' = jmpinfo
    BY <1>4 DEF Tramp
  <2>2. /\ pc'.at = "backpatch" /\ pc'.f = pc.f /\ pc'.i = pc.i
        /\ Insn' = Insn /\ Done' = Done /\ CodeInv' /\ live' = live /\ TypeOK'
    BY <1>1, <2>1, Moves
  <2>3. jmpinfo = <<pc.f, pc.i>>
    BY <1>1, <1>4 DEF IInv, HereInv
  <2>4. HereInv'
    BY <1>1, <2>1, <2>2, <2>3 DEF IInv, HereInv, InFragment, code
  <2>5. RegsInv'
    BY <1>1, <1>2, <2>2 DEF RegsInv
  <2> QED
    BY <2>2, <2>4, <2>5 DEF IInv
<1> QED
  BY <1>3, <1>4

(* What vxrun_lookup_backpatch and vxrun_lookup_indirect look for is where  *)
(* the guest goes.                                                          *)
LEMMA Sought ==
  ASSUME IInv, Lookup
  PROVE  /\ InFragment /\ arch' = Done /\ arch' \in ArchType /\ Target \in Eip
         /\ cpu' \in RegType /\ State(Target, [hw EXCEPT !.bx = cpu'.bx]) = Done
         /\ pc.at = "backpatch" => jmpinfo = <<pc.f, pc.i>> /\ Target = Insn.to
<1>1. /\ pc.at \in {"backpatch", "indirect"} /\ InFragment /\ Retire
      /\ cpu' = [ax |-> hw.ax, bx |-> IF pc.at = "backpatch" THEN hw.bx ELSE cpu.bx,
                 cx |-> hw.cx, fl |-> cpu.fl, esp |-> cpu.esp]
  BY DEF Lookup, InFragment
<1>2. hw \in RegType /\ cpu \in RegType /\ arch \in ArchType /\ Insn.to \in Eip
  BY <1>1, ExecIs DEF IInv, TypeOK
<1>3. arch' = Done /\ arch' \in ArchType
  BY <1>1, <1>2, ExecType DEF Retire, Done
<1>4. cpu' \in RegType /\ cpu'.bx = IF pc.at = "backpatch" THEN hw.bx ELSE cpu.bx
  BY <1>1, <1>2, RegIs, RegOf
<1>5. CASE pc.at = "backpatch"
  <2>1. jmpinfo = <<pc.f, pc.i>> /\ State(Insn.to, hw) = Done
    BY <1>5 DEF IInv, HereInv, RegsInv
  <2>2. Target = Insn.to
    BY <1>5, <2>1 DEF Target, Insn
  <2>3. [hw EXCEPT !.bx = cpu'.bx] = hw
    BY <1>2, <1>4, <1>5, BxTwice, RegIs
  <2> QED
    BY <1>1, <1>2, <1>3, <1>4, <2>1, <2>2, <2>3
<1>6. CASE pc.at = "indirect"
  <2>1. /\ State(hw.bx, [hw EXCEPT !.bx = cpu.bx]) = Exec(arch) /\ hw.bx \in Eip
        /\ Insn.type \in {"jumpind", "callind", "ret"}
    BY <1>6 DEF IInv, HereInv, RegsInv
  <2> QED
    BY <1>1, <1>3, <1>4, <1>6, <2>1 DEF Done, Target
<1> QED
  BY <1>1, <1>5, <1>6

(* The lookup finds a fragment, and patches, or leaves eip for C to see.    *)
LEMMA LookupKeeps == IInv /\ Lookup => IInv'
<1> SUFFICES ASSUME IInv, Lookup PROVE IInv'
  OBVIOUS
<1>1. /\ InFragment /\ arch' = Done /\ arch' \in ArchType /\ Target \in Eip
      /\ cpu' \in RegType /\ State(Target, [hw EXCEPT !.bx = cpu'.bx]) = Done
      /\ pc.at = "backpatch" => jmpinfo = <<pc.f, pc.i>> /\ Target = Insn.to
  BY Sought
<1>2. /\ pc.at \in {"backpatch", "indirect"} /\ jmpinfo' = NoJump /\ trap = "none"
      /\ UNCHANGED <<hw, mem, trap, stepping, ininst, frag, tx>>
      /\ hw \in RegType
  BY DEF Lookup, IInv, TypeOK, HereInv
<1>3. NoJump \in Eip \X Nat /\ pc.f \in live /\ pc.i \in DOMAIN frag[pc.f] /\ pc.i \in Nat
  BY <1>1, VxRunAssumption, PcIs DEF NoJump, IInv, HereInv
<1>4. CASE Target \in live
  <2>1. /\ pc' = PrologOf(Target) /\ eip' = eip
        /\ patched' = IF pc.at = "backpatch" THEN patched \cup {jmpinfo} ELSE patched
    BY <1>4 DEF Lookup
  <2>2. pc' \in PcType /\ pc'.at = "prolog" /\ pc'.f = Target
    BY <1>1, <2>1, PcIs DEF IInv, PrologOf
  <2>3. CodeInv' /\ live' = live
    BY <1>2, <2>2, BufferKept DEF IInv, Translating
  <2>4. TypeOK'
    BY <1>1, <1>2, <1>3, <2>1, <2>2, <2>3 DEF IInv, TypeOK, PcType
  <2>5. \A p \in patched' : /\ p[1] \in live /\ p[2] \in DOMAIN frag[p[1]]
                            /\ frag[p[1]][p[2]].to \in live
    BY <1>1, <1>2, <1>3, <1>4, <2>1 DEF IInv, HereInv, Insn
  <2>6. HereInv'
    BY <1>2, <1>4, <2>2, <2>3, <2>5 DEF IInv, HereInv, InFragment
  <2>7. State(pc.f, [hw EXCEPT !.bx = cpu.bx])' = arch'
    BY <1>1, <1>2, <2>2 DEF State
  <2>8. RegsInv'
    BY <2>2, <2>7 DEF RegsInv
  <2> QED
    BY <2>3, <2>4, <2>6, <2>8 DEF IInv
<1>5. CASE Target \notin live
  <2>1. pc' = At("return") /\ eip' = Target /\ patched' = patched
    BY <1>5 DEF Lookup
  <2>2. pc' \in PcType /\ pc'.at = "return"
    BY <2>1, PcIs DEF IInv, Places, At
  <2>3. CodeInv' /\ live' = live
    BY <1>2, <2>2, BufferKept DEF IInv, Translating
  <2>4. TypeOK'
    BY <1>1, <1>2, <1>3, <2>1, <2>2, <2>3 DEF IInv, TypeOK, PcType
  <2>5. HereInv'
    BY <1>2, <1>5, <2>1, <2>2, <2>3 DEF IInv, HereInv, InFragment
  <2>6. [[cpu' EXCEPT !.fl = hw.fl] EXCEPT !.esp = hw.esp] = [hw EXCEPT !.bx = cpu'.bx]
    <3>1. cpu'.ax = hw.ax /\ cpu'.cx = hw.cx
      BY DEF Lookup
    <3>2. hw.fl \in Int /\ hw.esp \in Int /\ cpu'.bx \in Int
      BY <1>1, <1>2, RegIs
    <3> DEFINE q == [cpu' EXCEPT !.fl = hw.fl]
    <3>3. /\ q \in RegType /\ q.ax = cpu'.ax /\ q.bx = cpu'.bx /\ q.cx = cpu'.cx
          /\ q.fl = hw.fl
      BY <1>1, <3>2, FlIs
    <3> HIDE DEF q
    <3> DEFINE p == [q EXCEPT !.esp = hw.esp]
    <3>4. /\ p \in RegType /\ p.ax = q.ax /\ p.bx = q.bx /\ p.cx = q.cx
          /\ p.fl = q.fl /\ p.esp = hw.esp
      BY <3>2, <3>3, EspIs
    <3> DEFINE o == [hw EXCEPT !.bx = cpu'.bx]
    <3>5. /\ o \in RegType /\ o.ax = hw.ax /\ o.bx = cpu'.bx /\ o.cx = hw.cx
          /\ o.fl = hw.fl /\ o.esp = hw.esp
      BY <1>2, <3>2, BxIs
    <3> HIDE DEF p, o
    <3>6. p = o
      BY <3>1, <3>3, <3>4, <3>5, RegEq
    <3> QED
      BY <3>6 DEF o, p, q
  <2>7. Due' = State(eip, [[cpu EXCEPT !.fl = hw.fl] EXCEPT !.esp = hw.esp])'
    BY <1>1, <1>2, <2>1, <2>6 DEF Due, State
  <2>8. RegsInv'
    BY <1>2, <2>2, <2>7 DEF RegsInv
  <2> QED
    BY <2>3, <2>4, <2>5, <2>8 DEF IInv
<1> QED
  BY <1>4, <1>5

(* A trap has its own number and the eip after it.                          *)
LEMMA GentrapKeeps == IInv /\ Gentrap => IInv'
<1> SUFFICES ASSUME IInv, Gentrap PROVE IInv'
  OBVIOUS
<1>1. /\ pc.at = "gentrap" /\ InFragment /\ pc' = At("return") /\ trap' = Insn.op
      /\ cpu' = [ax |-> cpu.ax, bx |-> hw.bx, cx |-> hw.cx, fl |-> cpu.fl, esp |-> cpu.esp]
      /\ UNCHANGED <<hw, mem, eip, stepping, ininst, jmpinfo, code, arch>>
  BY DEF Gentrap, InFragment
<1>2. /\ hw \in RegType /\ cpu \in RegType /\ arch \in ArchType /\ Insn.type = "trap"
      /\ State(Insn.eip, [hw EXCEPT !.ax = cpu.ax]) = arch /\ eip = Insn.eip + Insn.len
  BY <1>1 DEF IInv, TypeOK, HereInv, RegsInv
<1>3. /\ Insn.op \in {"syscall", "int3"} /\ Insn.op = Prog[arch.eip].op
      /\ Insn.len = Prog[arch.eip].len /\ Insn.eip = arch.eip
      /\ Exec(arch) = Guest(eip, arch.reg, arch.mem)
  BY <1>1, <1>2, ExecIs, Here
<1>4. arch.reg = [hw EXCEPT !.ax = cpu.ax] /\ arch.mem = mem
  BY <1>2, GuestIs DEF State
<1>5. cpu' \in RegType
  BY <1>1, <1>2, RegIs, RegOf
<1>6. pc' \in PcType /\ pc'.at = "return"
  BY <1>1, PcIs DEF IInv, Places, At
<1>7. TypeOK'
  BY <1>1, <1>3, <1>5, <1>6 DEF IInv, TypeOK, PcType, code, live
<1>8. CodeInv' /\ live' = live
  BY <1>1, <1>6, BufferKept DEF IInv, Translating, code
<1>9. HereInv'
  BY <1>1, <1>3, <1>6, <1>8 DEF IInv, HereInv, InFragment, code
<1>10. [[cpu' EXCEPT !.fl = hw.fl] EXCEPT !.esp = hw.esp] = [hw EXCEPT !.ax = cpu.ax]
  <2>1. cpu'.ax = cpu.ax /\ cpu'.bx = hw.bx /\ cpu'.cx = hw.cx
    BY <1>1
  <2>2. hw.fl \in Int /\ hw.esp \in Int /\ cpu.ax \in {"guest", "trapno"}
    BY <1>2, RegIs
  <2> DEFINE q == [cpu' EXCEPT !.fl = hw.fl]
  <2>3. /\ q \in RegType /\ q.ax = cpu'.ax /\ q.bx = cpu'.bx /\ q.cx = cpu'.cx
        /\ q.fl = hw.fl
    BY <1>5, <2>2, FlIs
  <2> DEFINE p == [q EXCEPT !.esp = hw.esp]
  <2> HIDE DEF q
  <2>4. /\ p \in RegType /\ p.ax = q.ax /\ p.bx = q.bx /\ p.cx = q.cx
        /\ p.fl = q.fl /\ p.esp = hw.esp
    BY <2>2, <2>3, EspIs
  <2> DEFINE o == [hw EXCEPT !.ax = cpu.ax]
  <2>5. /\ o \in RegType /\ o.ax = cpu.ax /\ o.bx = hw.bx /\ o.cx = hw.cx
        /\ o.fl = hw.fl /\ o.esp = hw.esp
    BY <1>2, <2>2, AxIs
  <2> HIDE DEF p, o
  <2>6. p = o
    BY <2>1, <2>3, <2>4, <2>5, RegEq
  <2> QED
    BY <2>6 DEF o, p, q
<1>11. Due' = State(eip, [[cpu EXCEPT !.fl = hw.fl] EXCEPT !.esp = hw.esp])'
  BY <1>1, <1>3, <1>4, <1>10 DEF Due, State, Exec
<1>12. RegsInv'
  BY <1>1, <1>2, <1>3, <1>6, <1>11 DEF RegsInv
<1> QED
  BY <1>7, <1>8, <1>9, <1>12 DEF IInv

(* vxrun_return saves the stack pointer first and the flags then.           *)
LEMMA FlEsp ==
  ASSUME NEW r \in RegType, NEW f \in Int, NEW s \in Int
  PROVE  [[r EXCEPT !.fl = f] EXCEPT !.esp = s] = [[r EXCEPT !.esp = s] EXCEPT !.fl = f]
<1> DEFINE p == [r EXCEPT !.fl = f]
<1> DEFINE q == [r EXCEPT !.esp = s]
<1>1. p \in RegType /\ p.ax = r.ax /\ p.bx = r.bx /\ p.cx = r.cx /\ p.fl = f /\ p.esp = r.esp
  BY FlIs
<1>2. q \in RegType /\ q.ax = r.ax /\ q.bx = r.bx /\ q.cx = r.cx /\ q.fl = r.fl /\ q.esp = s
  BY EspIs
<1> DEFINE pp == [p EXCEPT !.esp = s]
<1> DEFINE qq == [q EXCEPT !.fl = f]
<1> HIDE DEF p, q
<1>3. pp \in RegType /\ pp.ax = p.ax /\ pp.bx = p.bx /\ pp.cx = p.cx /\ pp.fl = p.fl /\ pp.esp = s
  BY <1>1, EspIs
<1>4. qq \in RegType /\ qq.ax = q.ax /\ qq.bx = q.bx /\ qq.cx = q.cx /\ qq.fl = f /\ qq.esp = q.esp
  BY <1>2, FlIs
<1> HIDE DEF pp, qq
<1>5. pp = qq
  BY <1>1, <1>2, <1>3, <1>4, RegEq
<1> QED
  BY <1>5 DEF pp, qq, p, q

(* vxrun_return puts the rest of the registers into emu->cpu.               *)
LEMMA ReturnKeeps == IInv /\ Return => IInv'
<1> SUFFICES ASSUME IInv, Return PROVE IInv'
  OBVIOUS
<1>1. /\ pc.at \in {"return", "returned"}
      /\ UNCHANGED <<mem, eip, trap, stepping, ininst, jmpinfo, code, arch>>
      /\ Due' = Due
  BY DEF Return, Due, Exec
<1>2. hw \in RegType /\ cpu \in RegType /\ hw.fl \in Int /\ hw.esp \in Int /\ Zero \in RegType
  BY RegIs DEF IInv, TypeOK, Zero, RegType
<1>3. CASE pc.at = "return"
  <2>1. cpu' = [cpu EXCEPT !.esp = hw.esp] /\ hw' = hw /\ pc' = At("returned")
    BY <1>3 DEF Return
  <2>2. pc' \in PcType /\ pc'.at = "returned" /\ cpu' \in RegType
    BY <1>2, <2>1, PcIs, SetReg, RegIs DEF IInv, Places, At
  <2>3. TypeOK'
    BY <1>1, <1>2, <2>1, <2>2, TypeKept DEF IInv, TypeOK
  <2>4. CodeInv' /\ live' = live
    BY <1>1, <1>3, <2>2, BufferKept DEF IInv, Translating, code
  <2>5. HereInv'
    BY <1>1, <1>3, <2>2, <2>4 DEF IInv, HereInv, InFragment, code
  <2>6. ~stepping => Due = State(eip, [[cpu EXCEPT !.fl = hw.fl] EXCEPT !.esp = hw.esp])
    BY <1>3 DEF IInv, RegsInv
  <2>7. [[cpu EXCEPT !.fl = hw.fl] EXCEPT !.esp = hw.esp] = [cpu' EXCEPT !.fl = hw'.fl]
    BY <1>2, <2>1, FlEsp
  <2>8. ~stepping' => Due' = State(eip, [cpu EXCEPT !.fl = hw.fl])'
    BY <1>1, <2>6, <2>7 DEF State
  <2>9. RegsInv'
    BY <1>1, <1>3, <2>2, <2>8 DEF IInv, RegsInv
  <2> QED
    BY <2>3, <2>4, <2>5, <2>9 DEF IInv
<1>4. CASE pc.at = "returned"
  <2>1. cpu' = [cpu EXCEPT !.fl = hw.fl] /\ hw' = Zero /\ pc' = At("back") /\ ~stepping
    BY <1>4 DEF Return, MayRun
  <2>2. pc' \in PcType /\ pc'.at = "back" /\ cpu' \in RegType
    BY <1>2, <2>1, PcIs, SetReg, RegIs DEF IInv, Places, At
  <2>3. TypeOK'
    BY <1>1, <1>2, <2>1, <2>2, TypeKept DEF IInv, TypeOK
  <2>4. CodeInv' /\ live' = live
    BY <1>1, <1>4, <2>2, BufferKept DEF IInv, Translating, code
  <2>5. HereInv'
    BY <1>1, <1>4, <2>1, <2>2, <2>4 DEF IInv, HereInv, InFragment, code
  <2>6. Due = State(eip, [cpu EXCEPT !.fl = hw.fl])
    BY <1>4, <2>1 DEF IInv, RegsInv
  <2>7. Due' = State(eip, cpu)'
    BY <1>1, <2>1, <2>6 DEF State
  <2>8. RegsInv'
    BY <1>1, <1>4, <2>2, <2>7 DEF IInv, RegsInv
  <2> QED
    BY <2>3, <2>4, <2>5, <2>8 DEF IInv
<1> QED
  BY <1>1, <1>3, <1>4

(* vxproc_run looks for a fragment.                                         *)
LEMMA FindKeeps == IInv /\ Find => IInv'
<1> SUFFICES ASSUME IInv, Find PROVE IInv'
  OBVIOUS
<1>1. /\ pc.at \in {"find", "back"} /\ UNCHANGED <<hw, mem, emu, code, arch>> /\ ~stepping
      /\ pc.at = "find" => trap = "none"
  BY DEF IInv, HereInv, Find
<1>2. \/ pc.at = "find" /\ eip \in live /\ pc' = At("enter")
      \/ pc.at = "find" /\ eip \notin live /\ pc' = At("scan")
      \/ pc.at = "back" /\ trap = "none" /\ pc' = At("scan")
      \/ pc.at = "back" /\ trap # "none" /\ pc' = At("out")
  BY <1>1 DEF Find
<1>3. /\ pc' \in PcType /\ pc'.at \in {"enter", "scan", "out"}
      /\ pc'.at = "enter" => pc.at = "find" /\ eip \in live
      /\ pc'.at = "scan" => eip \notin live /\ trap = "none"
  BY <1>1, <1>2, PcIs DEF IInv, HereInv, Places, At
<1>4. TypeOK'
  BY <1>1, <1>3, TypeKept DEF IInv, TypeOK, emu
<1>5. CodeInv' /\ live' = live
  BY <1>1, <1>3, BufferKept DEF IInv, Translating, code
<1>6. HereInv'
  BY <1>1, <1>2, <1>3, <1>5 DEF IInv, HereInv, InFragment, code, emu, At
<1>7. pc'.at # "out" => State(eip, cpu) = arch
  BY <1>1, <1>2, <1>3 DEF IInv, RegsInv, Due, At
<1>8. pc'.at # "out" => State(eip, cpu)' = arch'
  BY <1>1, <1>7 DEF State, emu
<1>9. RegsInv'
  BY <1>3, <1>8 DEF RegsInv
<1> QED
  BY <1>4, <1>5, <1>6, <1>9 DEF IInv

(* vxrun loads the registers from emu->cpu.                                 *)
LEMMA EnterKeeps == IInv /\ Enter => IInv'
<1> SUFFICES ASSUME IInv, Enter PROVE IInv'
  OBVIOUS
<1>1. /\ pc.at \in {"enter", "entered"} /\ UNCHANGED <<mem, emu, code, arch>>
      /\ eip \in live /\ trap = "none" /\ State(eip, cpu) = arch
      /\ cpu \in RegType /\ hw \in RegType
      /\ eip \in Eip /\ eip \in Int /\ cpu.bx \in Int
  <2>1. pc.at \in {"enter", "entered"} /\ UNCHANGED <<mem, emu, code, arch>>
    BY DEF Enter
  <2>2. eip \in live /\ trap = "none"
    BY <2>1 DEF IInv, HereInv
  <2>3. State(eip, cpu) = arch
    BY <2>1 DEF IInv, RegsInv
  <2>4. cpu \in RegType /\ hw \in RegType /\ eip \in Eip
    BY DEF IInv, TypeOK
  <2>5. eip \in Int /\ cpu.bx \in Int
    BY <2>4, RegIs, VxRunAssumption
  <2> QED
    BY <2>1, <2>2, <2>3, <2>4, <2>5
<1>2. State(eip, cpu)' = arch'
  BY <1>1 DEF State, emu
<1>3. CASE pc.at = "enter"
  <2>1. pc' = At("entered") /\ hw' = hw /\ ~stepping
    BY <1>3 DEF Enter, IInv, HereInv
  <2>2. pc' \in PcType /\ pc'.at = "entered"
    BY <2>1, PcIs DEF IInv, Places, At
  <2>3. TypeOK'
    BY <1>1, <2>1, <2>2, TypeKept DEF IInv, TypeOK, emu
  <2>4. CodeInv' /\ live' = live
    BY <1>1, <2>2, BufferKept DEF IInv, Translating, code
  <2>5. HereInv'
    BY <1>1, <2>1, <2>2, <2>4 DEF IInv, HereInv, InFragment, code, emu
  <2>6. RegsInv'
    BY <1>2, <2>2 DEF RegsInv
  <2> QED
    BY <2>3, <2>4, <2>5, <2>6 DEF IInv
<1>4. CASE pc.at = "entered"
  <2>1. pc' = PrologOf(eip) /\ hw' = [cpu EXCEPT !.bx = eip]
    BY <1>4 DEF Enter
  <2>2. pc' \in PcType /\ pc'.at = "prolog" /\ pc'.f = eip /\ hw' \in RegType
    BY <1>1, <2>1, PcIs, BxIs DEF IInv, PrologOf
  <2>3. TypeOK'
    BY <1>1, <2>1, <2>2, TypeKept DEF IInv, TypeOK, emu
  <2>4. CodeInv' /\ live' = live
    BY <1>1, <1>4, <2>2, BufferKept DEF IInv, Translating, code
  <2>5. HereInv'
    BY <1>1, <1>4, <2>1, <2>2, <2>4 DEF IInv, HereInv, InFragment, code, emu
  <2>6. [hw' EXCEPT !.bx = cpu'.bx] = cpu
    BY <1>1, <2>1, BxTwice DEF emu
  <2>7. State(pc.f, [hw EXCEPT !.bx = cpu.bx])' = arch'
    BY <1>1, <2>2, <2>6 DEF State
  <2>8. RegsInv'
    BY <2>2, <2>7 DEF RegsInv
  <2> QED
    BY <2>3, <2>4, <2>5, <2>8 DEF IInv
<1> QED
  BY <1>1, <1>3, <1>4

(* The four passes of the translator.                                       *)
LEMMA DstLenType ==
  ASSUME NEW op \in Op, NEW len \in 0 .. 15, NEW type,
         type \in {"alu", "jump", "jump8", "call", "loop", "jumpind", "callind", "ret",
                   "trap", "endfrag"}
  PROVE  DstLen(type, op, len) \in Nat
BY DEF DstLen

(* The guest goes on to the instruction after one that may not end a        *)
(* fragment.                                                                *)
LEMMA NextEip ==
  ASSUME NEW x \in InsnType, TranslationOf(x), ~Final(x)
  PROVE  x.eip + x.len \in Eip
<1>1. x.eip \in Eip /\ x.type # "endfrag"
  BY DEF InsnType, TranslationOf, Final
<1>2. x.op = Prog[x.eip].op /\ x.len = Prog[x.eip].len
  BY <1>1 DEF TranslationOf
<1>3. x.op \notin Goes
  BY <1>1, <1>2, ProgType DEF TranslationOf, Final, Type, Goes, Op
<1> QED
  BY <1>1, <1>2, <1>3, ProgType

(* The instruction xscan adds is that of the guest, or the end.             *)
LEMMA ScannedIs ==
  ASSUME NEW e \in Eip, NEW ins \in Seq(InsnType), Follows(ins, e),
         ins = <<>> \/ ~Final(Last(ins)), NEW x \in Scanned(e, ins)
  PROVE  /\ x \in InsnType /\ TranslationOf(x) /\ x.type # "jump8"
         /\ x.eip = IF ins = <<>> THEN e ELSE Last(ins).eip + Last(ins).len
<1> DEFINE next == IF ins = <<>> THEN e ELSE Last(ins).eip + Last(ins).len
<1> DEFINE g == Prog[next]
<1>1. ins # <<>> => Last(ins) \in InsnType /\ TranslationOf(Last(ins))
  <2> SUFFICES ASSUME ins # <<>> PROVE Last(ins) \in InsnType /\ TranslationOf(Last(ins))
    OBVIOUS
  <2>1. Len(ins) \in DOMAIN ins
    OBVIOUS
  <2> QED
    BY <2>1 DEF Last, Follows
<1>2. next \in Eip
  BY <1>1, NextEip
<1>3. After(ins) \in Nat
  BY <1>1 DEF After, PrologLen, InsnType
<1> HIDE DEF next
<1>4. g.op \in Op /\ g.len \in 1 .. 15 /\ g.to \in Eip
  BY <1>2, ProgType
<1> HIDE DEF g
<1>5. /\ Type(g.op) \in {"alu", "jump", "call", "loop", "jumpind", "callind", "ret", "trap"}
  BY <1>4 DEF Type, Op, Goes
<1>6. CASE x = [eip |-> next, op |-> g.op, len |-> g.len, to |-> g.to, type |-> Type(g.op),
                ofs |-> After(ins), dst |-> DstLen(Type(g.op), g.op, g.len)]
  <2>1. DstLen(Type(g.op), g.op, g.len) \in Nat
    BY <1>4, <1>5, DstLenType
  <2>2. x \in InsnType
    BY <1>2, <1>3, <1>4, <1>5, <1>6, <2>1 DEF InsnType
  <2> QED
    BY <1>5, <1>6, <2>2 DEF TranslationOf, next, g
<1>7. CASE x = [eip |-> next, op |-> "jmp", len |-> 0, to |-> next, type |-> "endfrag",
                ofs |-> After(ins), dst |-> DstLen("endfrag", "jmp", 0)]
  <2>1. DstLen("endfrag", "jmp", 0) \in Nat
    BY DEF DstLen
  <2>2. x \in InsnType
    BY <1>2, <1>3, <1>7, <2>1 DEF InsnType, Op, Goes
  <2> QED
    BY <1>7, <2>2 DEF TranslationOf, next
<1> QED
  BY <1>6, <1>7 DEF Scanned, next, g

(* The last element of a sequence that has grown.                           *)
LEMMA Appended ==
  ASSUME NEW ins \in Seq(InsnType), NEW x \in InsnType
  PROVE  LET new == Append(ins, x)
         IN  /\ new \in Seq(InsnType) /\ Len(new) = Len(ins) + 1 /\ new # <<>> /\ Last(new) = x
             /\ DOMAIN ins = 1 .. Len(ins) /\ DOMAIN new = 1 .. Len(ins) + 1
             /\ new[Len(ins) + 1] = x /\ \A i \in 1 .. Len(ins) : new[i] = ins[i]
BY DEF Last

(* The sequence follows the guest's code with it, too.                      *)
LEMMA FollowsOn ==
  ASSUME NEW e, NEW ins \in Seq(InsnType), Follows(ins, e), NEW x \in InsnType,
         ins = <<>> \/ ~Final(Last(ins)), TranslationOf(x),
         x.eip = IF ins = <<>> THEN e ELSE Last(ins).eip + Last(ins).len
  PROVE  Follows(Append(ins, x), e)
<1> DEFINE new == Append(ins, x)
<1>1. /\ new \in Seq(InsnType) /\ Len(new) = Len(ins) + 1
      /\ DOMAIN ins = 1 .. Len(ins) /\ DOMAIN new = 1 .. Len(ins) + 1
      /\ new[Len(ins) + 1] = x /\ \A i \in 1 .. Len(ins) : new[i] = ins[i]
      /\ Len(ins) \in Nat
  BY Appended
<1>2. ins = <<>> <=> Len(ins) = 0
  OBVIOUS
<1> HIDE DEF new
<1>3. ASSUME NEW i \in DOMAIN new
      PROVE  /\ TranslationOf(new[i])
             /\ i < Len(new) => ~Final(new[i])
             /\ new[i].eip = IF i = 1 THEN e ELSE new[i - 1].eip + new[i - 1].len
  <2>1. CASE i = Len(ins) + 1
    BY <1>1, <1>2, <1>3, <2>1 DEF Last
  <2>2. CASE i # Len(ins) + 1
    <3>1. i \in DOMAIN ins /\ new[i] = ins[i] /\ (i # 1 => i - 1 \in DOMAIN ins)
      BY <1>1, <1>3, <2>2
    <3>2. /\ TranslationOf(ins[i])
          /\ i < Len(ins) => ~Final(ins[i])
          /\ ins[i].eip = IF i = 1 THEN e ELSE ins[i - 1].eip + ins[i - 1].len
      BY <3>1 DEF Follows
    <3>3. i = Len(ins) => ~Final(ins[i])
      BY <1>1, <1>2, <3>1 DEF Last
    <3> QED
      BY <1>1, <3>1, <3>2, <3>3
  <2> QED
    BY <2>1, <2>2
<1> QED
  BY <1>3 DEF Follows, new

(* xsimp changes only kinds and lengths; short jumps have targets inside.   *)
LEMMA SimplifiedIs ==
  ASSUME NEW e, NEW ins \in Seq(InsnType), Follows(ins, e), ins # <<>>, Final(Last(ins)),
         \A i \in DOMAIN ins : ins[i].type # "jump8"
  PROVE  Simplified(ins) \in Seq(InsnType) /\ Whole(Simplified(ins), e)
<1> DEFINE new == Simplified(ins)
<1>1. DOMAIN ins = 1 .. Len(ins) /\ Len(ins) \in Nat \ {0} /\ \A i \in DOMAIN ins : ins[i] \in InsnType
  OBVIOUS
<1>2. DOMAIN new = 1 .. Len(ins)
  BY <1>1 DEF Simplified
<1>3. ASSUME NEW i \in 1 .. Len(ins)
      PROVE  /\ new[i] \in InsnType /\ new[i].eip = ins[i].eip /\ new[i].len = ins[i].len
             /\ TranslationOf(new[i]) /\ (Final(new[i]) <=> Final(ins[i]))
             /\ new[i].type = "jump8" => \E k \in DOMAIN ins : ins[k].eip = new[i].to
  <2> DEFINE x == ins[i]
  <2> DEFINE y == [x EXCEPT !.type = "jump8", !.dst = 2]
  <2> DEFINE short == /\ x.type \in {"jump", "loop"}
                      /\ \E k \in DOMAIN ins : ins[k].eip = x.to /\ InRange(ins, i, k)
  <2>1. new[i] = IF short THEN y ELSE x
    BY <1>1 DEF Simplified
  <2>2. x \in InsnType /\ TranslationOf(x) /\ x.type # "jump8"
    BY <1>1 DEF Follows
  <2>3. CASE ~short
    BY <2>1, <2>2, <2>3
  <2>4. CASE short
    <3> HIDE DEF x
    <3>1. y \in InsnType /\ y.eip = x.eip /\ y.len = x.len /\ y.op = x.op /\ y.to = x.to
          /\ y.type = "jump8" /\ y.dst = 2
      BY <2>2 DEF InsnType
    <3>2. x.type \in {"jump", "loop"} /\ \E k \in DOMAIN ins : ins[k].eip = x.to
      BY <2>4
    <3> HIDE DEF y
    <3>3. x.op \in {"jmp", "jcc", "loop"} /\ x.op = Prog[x.eip].op
      BY <2>2, <3>2 DEF TranslationOf, InsnType, Type, Op, Goes
    <3>4. TranslationOf(y)
      BY <2>2, <3>1, <3>2, <3>3 DEF TranslationOf, DstLen
    <3>5. Final(y) <=> Final(x)
      BY <3>1, <3>2 DEF Final
    <3> QED
      BY <2>1, <2>4, <3>1, <3>2, <3>4, <3>5 DEF x
  <2> QED
    BY <2>3, <2>4
<1> HIDE DEF new
<1>4. new \in [1 .. Len(ins) -> InsnType]
  <2>1. new = [i \in 1 .. Len(ins) |-> new[i]]
    BY <1>1 DEF new, Simplified
  <2> QED
    BY <1>3, <2>1
<1>5. new \in Seq(InsnType) /\ Len(new) = Len(ins) /\ new # <<>>
  BY <1>1, <1>4
<1>6. Last(new) = new[Len(ins)] /\ Last(ins) = ins[Len(ins)] /\ Len(ins) \in 1 .. Len(ins)
  BY <1>1, <1>5 DEF Last
<1>7. Final(Last(new))
  BY <1>3, <1>6
<1>8. Follows(new, e)
  <2> SUFFICES ASSUME NEW i \in DOMAIN new
               PROVE  /\ TranslationOf(new[i])
                      /\ i < Len(new) => ~Final(new[i])
                      /\ new[i].eip = IF i = 1 THEN e ELSE new[i - 1].eip + new[i - 1].len
    BY DEF Follows
  <2>1. i \in 1 .. Len(ins) /\ i \in DOMAIN ins /\ (i # 1 => i - 1 \in 1 .. Len(ins))
    BY <1>1, <1>2
  <2>2. /\ i < Len(ins) => ~Final(ins[i])
        /\ ins[i].eip = IF i = 1 THEN e ELSE ins[i - 1].eip + ins[i - 1].len
    BY <2>1 DEF Follows
  <2> QED
    BY <1>3, <1>5, <2>1, <2>2
<1>9. \A i \in DOMAIN new : new[i].type = "jump8" => \E k \in DOMAIN new : new[k].eip = new[i].to
  BY <1>1, <1>2, <1>3
<1> QED
  BY <1>5, <1>7, <1>8, <1>9 DEF Whole, new

(* xplace puts one instruction after the end of the one before.             *)
LEMMA PlacedIs ==
  ASSUME NEW e, NEW ins \in Seq(InsnType), Whole(ins, e), NEW n \in 1 .. Len(ins),
         Placed(ins, n - 1)
  PROVE  LET new == [ins EXCEPT ![n].ofs = IF n = 1 THEN PrologLen
                                            ELSE ins[n - 1].ofs + ins[n - 1].dst]
         IN  new \in Seq(InsnType) /\ Whole(new, e) /\ Placed(new, n) /\ Len(new) = Len(ins)
<1> DEFINE to == IF n = 1 THEN PrologLen ELSE ins[n - 1].ofs + ins[n - 1].dst
<1> DEFINE new == [ins EXCEPT ![n].ofs = to]
<1>1. DOMAIN ins = 1 .. Len(ins) /\ Len(ins) \in Nat /\ \A i \in DOMAIN ins : ins[i] \in InsnType
  OBVIOUS
<1>2. to \in Nat /\ (n # 1 => to = ins[n - 1].ofs + ins[n - 1].dst)
  <2>1. CASE n = 1
    BY <2>1 DEF PrologLen
  <2>2. CASE n # 1
    <3>1. n - 1 \in DOMAIN ins
      BY <1>1, <2>2
    <3>2. ins[n - 1] \in InsnType
      BY <1>1, <3>1
    <3> QED
      BY <2>2, <3>2 DEF InsnType
  <2> QED
    BY <2>1, <2>2
<1> HIDE DEF to
<1> DEFINE x == ins[n]
<1> DEFINE y == [x EXCEPT !.ofs = to]
<1>3. x \in InsnType
  BY <1>1
<1>4. new = [ins EXCEPT ![n] = y]
  BY <1>1
<1> HIDE DEF x
<1>5. /\ y \in InsnType /\ y.eip = x.eip /\ y.len = x.len /\ y.op = x.op /\ y.to = x.to
      /\ y.type = x.type /\ y.dst = x.dst /\ y.ofs = to
  BY <1>2, <1>3 DEF InsnType
<1> HIDE DEF y, new
<1>6. /\ new \in Seq(InsnType) /\ DOMAIN new = 1 .. Len(ins) /\ Len(new) = Len(ins)
      /\ new[n] = y /\ \A i \in DOMAIN ins : i # n => new[i] = ins[i]
  BY <1>1, <1>4, <1>5
<1>7. \A i \in DOMAIN ins : /\ new[i].eip = ins[i].eip /\ new[i].len = ins[i].len
                            /\ new[i].op = ins[i].op /\ new[i].to = ins[i].to
                            /\ new[i].type = ins[i].type /\ new[i].dst = ins[i].dst
  BY <1>5, <1>6 DEF x
<1>8. \A i \in DOMAIN ins : /\ TranslationOf(new[i]) <=> TranslationOf(ins[i])
                            /\ Final(new[i]) <=> Final(ins[i])
  BY <1>7 DEF TranslationOf, Final
<1>9. Follows(new, e)
  <2> SUFFICES ASSUME NEW i \in DOMAIN new
               PROVE  /\ TranslationOf(new[i])
                      /\ i < Len(new) => ~Final(new[i])
                      /\ new[i].eip = IF i = 1 THEN e ELSE new[i - 1].eip + new[i - 1].len
    BY DEF Follows
  <2>1. i \in DOMAIN ins /\ (i # 1 => i - 1 \in DOMAIN ins)
    BY <1>1, <1>6
  <2>2. /\ TranslationOf(ins[i])
        /\ i < Len(ins) => ~Final(ins[i])
        /\ ins[i].eip = IF i = 1 THEN e ELSE ins[i - 1].eip + ins[i - 1].len
    BY <2>1 DEF Whole, Follows
  <2> QED
    BY <1>6, <1>7, <1>8, <2>1, <2>2
<1>10. Whole(new, e)
  <2>1. ins # <<>> /\ Final(Last(ins))
    BY DEF Whole
  <2>2. /\ Len(ins) \in DOMAIN ins /\ new # <<>>
        /\ Last(new) = new[Len(ins)] /\ Last(ins) = ins[Len(ins)]
    BY <1>1, <1>6, <2>1 DEF Last
  <2>3. Final(Last(new))
    BY <1>8, <2>1, <2>2
  <2>4. \A i \in DOMAIN new : new[i].type = "jump8" => \E k \in DOMAIN new : new[k].eip = new[i].to
    <3>1. \A i \in DOMAIN ins : ins[i].type = "jump8" => \E k \in DOMAIN ins : ins[k].eip = ins[i].to
      BY DEF Whole
    <3> QED
      BY <1>1, <1>6, <1>7, <3>1
  <2> QED
    BY <1>9, <2>2, <2>3, <2>4 DEF Whole
<1>11. Placed(new, n)
  <2> SUFFICES ASSUME NEW i \in 1 .. n, NEW j \in 1 .. i - 1
               PROVE  new[j].ofs + new[j].dst <= new[i].ofs
    BY DEF Placed
  <2>1. i \in DOMAIN ins /\ j \in DOMAIN ins /\ j # n /\ new[j] = ins[j]
    BY <1>1, <1>6
  <2>2. CASE i # n
    BY <1>6, <2>1, <2>2 DEF Placed
  <2>3. CASE i = n
    <3>1. new[i].ofs = to /\ n # 1 /\ n - 1 \in DOMAIN ins /\ ins[n - 1] \in InsnType
      BY <1>1, <1>5, <1>6, <2>1, <2>3
    <3>2. ins[n - 1].ofs \in Nat /\ ins[n - 1].dst \in Nat
      BY <3>1 DEF InsnType
    <3>3. ins[j].ofs \in Nat /\ ins[j].dst \in Nat
      BY <1>1, <2>1 DEF InsnType
    <3>4. CASE j = n - 1
      BY <1>2, <2>1, <3>1, <3>2, <3>4
    <3>5. CASE j # n - 1
      <4>1. n - 1 \in 1 .. n - 1 /\ j \in 1 .. (n - 1) - 1
        BY <1>1, <2>3, <3>1, <3>5
      <4>2. ins[j].ofs + ins[j].dst <= ins[n - 1].ofs
        BY <4>1 DEF Placed
      <4> QED
        BY <1>2, <2>1, <3>1, <3>2, <3>3, <4>2
    <3> QED
      BY <3>4, <3>5
  <2> QED
    BY <2>2, <2>3
<1> QED
  BY <1>6, <1>10, <1>11 DEF new, to

(* Nothing else changes meanwhile.                                          *)
LEMMA XlateKeepsRest ==
  ASSUME IInv, Xlate, pc' \in PcType,
         pc'.at \in {"scanning", "simplify", "place", "emit", "find"},
         ininst' \in BOOLEAN, tx' \in Seq(InsnType), CodeInv',
         live' \subseteq Eip, frag' \in [live' -> Seq(InsnType)],
         patched' \subseteq Eip \X Nat,
         pc'.at # "find" => eip \notin live',
         \A p \in patched' : /\ p[1] \in live' /\ p[2] \in DOMAIN frag'[p[1]]
                             /\ frag'[p[1]][p[2]].to \in live'
  PROVE  IInv'
<1>1. /\ pc.at \in {"scan", "scanning", "simplify", "place", "emit"}
      /\ UNCHANGED <<hw, mem, eip, cpu, trap, stepping, jmpinfo, arch>>
  BY DEF Xlate, Begin, ScanInsn, Simplify, PlaceInsn, Emit
<1>2. TypeOK'
  BY <1>1 DEF IInv, TypeOK, PcType
<1>3. ~stepping /\ trap = "none" /\ State(eip, cpu) = arch
  BY <1>1 DEF IInv, HereInv, RegsInv
<1>4. HereInv'
  BY <1>1, <1>3 DEF HereInv, InFragment
<1>5. State(eip, cpu)' = arch'
  BY <1>1, <1>3 DEF State
<1>6. RegsInv'
  BY <1>1, <1>5 DEF RegsInv
<1> QED
  BY <1>2, <1>4, <1>6 DEF IInv

(* One pass of the translator after the other.  Emptying the buffer takes   *)
(* the patches with it.                                                     *)
LEMMA BeginKeeps == IInv /\ Xlate /\ Begin => IInv'
<1> SUFFICES ASSUME IInv, Xlate, Begin PROVE IInv'
  OBVIOUS
<1>1. /\ pc.at = "scan" /\ pc' = At("scanning") /\ ininst' = TRUE /\ tx' = tx
      /\ UNCHANGED <<frag, patched>> \/ Flush
  BY DEF Begin
<1>2. pc' \in PcType /\ pc'.at = "scanning"
  BY <1>1, PcIs DEF IInv, Places, At
<1>3. /\ tx = <<>> /\ eip \notin live /\ eip' = eip /\ live \subseteq Eip
      /\ frag \in [live -> Seq(InsnType)] /\ patched \subseteq Eip \X Nat
      /\ tx \in Seq(InsnType)
  BY <1>1 DEF IInv, TypeOK, CodeInv, HereInv, Xlate
<1>4. CASE UNCHANGED <<frag, patched>>
  <2>1. live' = live
    BY <1>4 DEF live
  <2>2. CodeInv'
    BY <1>1, <1>2, <1>3, <1>4, <2>1 DEF IInv, CodeInv, Follows
  <2> QED
    BY <1>1, <1>2, <1>3, <1>4, <2>1, <2>2, XlateKeepsRest DEF IInv, HereInv
<1>5. CASE Flush
  <2>1. live' = {} /\ patched' = {} /\ frag' \in [live' -> Seq(InsnType)]
    BY <1>5 DEF live, Flush
  <2>2. CodeInv'
    BY <1>1, <1>2, <1>3, <2>1 DEF CodeInv, Follows
  <2> QED
    BY <1>1, <1>2, <1>3, <2>1, <2>2, XlateKeepsRest
<1> QED
  BY <1>1, <1>4, <1>5

(* The other four only touch the fragment that is being translated.         *)
LEMMA XlateHere ==
  ASSUME IInv, pc.at \in Translating
  PROVE  /\ eip \notin live /\ eip \in Eip /\ live \subseteq Eip
         /\ frag \in [live -> Seq(InsnType)] /\ patched \subseteq Eip \X Nat
         /\ tx \in Seq(InsnType) /\ ininst \in BOOLEAN
         /\ \A p \in patched : /\ p[1] \in live /\ p[2] \in DOMAIN frag[p[1]]
                               /\ frag[p[1]][p[2]].to \in live
BY DEF IInv, TypeOK, HereInv, Translating

(* A pass keeps IInv if it keeps what CodeInv says of tx.                   *)
LEMMA XlateGoesOn ==
  ASSUME IInv, Xlate, pc.at \in Translating, pc' \in PcType, pc'.at \in Translating,
         ininst' \in BOOLEAN, tx' \in Seq(InsnType), CodeInv', UNCHANGED <<frag, patched>>
  PROVE  IInv'
<1>1. live' = live
  BY DEF live
<1> QED
  BY <1>1, XlateHere, XlateKeepsRest DEF Translating

(* xscan.                                                                   *)
LEMMA ScanInsnKeeps == IInv /\ Xlate /\ ScanInsn => IInv'
<1> SUFFICES ASSUME IInv, Xlate, ScanInsn PROVE IInv'
  OBVIOUS
<1>1. pc.at = "scanning" /\ UNCHANGED <<frag, patched, eip>> /\ live' = live
  BY DEF ScanInsn, Xlate, live
<1>2. PICK x \in Scanned(eip, tx) :
         /\ tx' = Append(tx, x)
         /\ IF Final(x) THEN pc' = At("simplify") /\ ininst' = FALSE
            ELSE UNCHANGED <<pc, ininst>>
  BY DEF ScanInsn
<1>3. /\ Follows(tx, eip) /\ \A i \in DOMAIN tx : tx[i].type # "jump8"
      /\ tx = <<>> \/ ~Final(Last(tx))
  BY <1>1 DEF IInv, CodeInv
<1>4. tx \in Seq(InsnType) /\ eip \in Eip /\ ininst \in BOOLEAN
  BY DEF IInv, TypeOK
<1>5. /\ x \in InsnType /\ TranslationOf(x) /\ x.type # "jump8"
      /\ x.eip = IF tx = <<>> THEN eip ELSE Last(tx).eip + Last(tx).len
  BY <1>2, <1>3, <1>4, ScannedIs
<1>6. /\ tx' \in Seq(InsnType) /\ tx' # <<>> /\ Last(tx') = x
      /\ \A i \in DOMAIN tx' : tx'[i].type # "jump8"
  <2>1. /\ tx' \in Seq(InsnType) /\ tx' # <<>> /\ Last(tx') = x
        /\ DOMAIN tx = 1 .. Len(tx) /\ DOMAIN tx' = 1 .. Len(tx) + 1
        /\ tx'[Len(tx) + 1] = x /\ \A i \in 1 .. Len(tx) : tx'[i] = tx[i]
    BY <1>2, <1>4, <1>5, Appended
  <2> QED
    BY <1>3, <1>4, <1>5, <2>1
<1>7. Follows(tx', eip)
  BY <1>2, <1>3, <1>4, <1>5, FollowsOn
<1>8. /\ pc' \in PcType /\ ininst' \in BOOLEAN
      /\ pc'.at = IF Final(x) THEN "simplify" ELSE "scanning"
  <2>1. At("simplify") \in PcType /\ At("simplify").at = "simplify" /\ pc \in PcType
    BY PcIs DEF IInv, Places, At
  <2>2. CASE Final(x)
    BY <1>2, <2>1, <2>2
  <2>3. CASE ~Final(x)
    BY <1>1, <1>2, <1>4, <2>1, <2>3
  <2> QED
    BY <2>2, <2>3
<1>9. Follows(tx, eip)'
  BY <1>1, <1>7 DEF Follows
<1>10. CodeInv'
  BY <1>1, <1>6, <1>8, <1>9 DEF IInv, CodeInv, Last
<1> QED
  BY <1>1, <1>6, <1>8, <1>10, XlateGoesOn DEF Translating

(* xsimp.                                                                   *)
LEMMA SimplifyKeeps == IInv /\ Xlate /\ Simplify => IInv'
<1> SUFFICES ASSUME IInv, Xlate, Simplify PROVE IInv'
  OBVIOUS
<1>1. /\ pc.at = "simplify" /\ pc' = At("place") /\ tx' = Simplified(tx)
      /\ UNCHANGED <<frag, patched, eip, ininst>> /\ live' = live
  BY DEF Simplify, Xlate, live
<1>2. /\ tx # <<>> /\ Final(Last(tx)) /\ Follows(tx, eip)
      /\ \A i \in DOMAIN tx : tx[i].type # "jump8"
  BY <1>1 DEF IInv, CodeInv
<1>3. tx \in Seq(InsnType) /\ ininst \in BOOLEAN
  BY DEF IInv, TypeOK
<1>4. tx' \in Seq(InsnType) /\ Whole(tx', eip)
  BY <1>1, <1>2, <1>3, SimplifiedIs
<1>5. pc' \in PcType /\ pc'.at = "place" /\ pc'.i = 1
  BY <1>1, PcIs DEF IInv, Places, At
<1>6. Whole(tx, eip)'
  BY <1>1, <1>4 DEF Whole, Follows
<1>7. pc'.i <= Len(tx') /\ Placed(tx, pc.i - 1)'
  <2>1. tx' # <<>> /\ Len(tx') \in Nat
    BY <1>4 DEF Whole
  <2>2. Len(tx') # 0
    BY <1>4, <2>1
  <2>3. 1 .. 1 - 1 = {}
    OBVIOUS
  <2> QED
    BY <1>5, <2>1, <2>2, <2>3 DEF Placed
<1>8. CodeInv'
  BY <1>1, <1>5, <1>6, <1>7 DEF IInv, CodeInv
<1> QED
  BY <1>1, <1>3, <1>4, <1>5, <1>8, XlateGoesOn DEF Translating

(* xplace.                                                                  *)
LEMMA PlaceInsnKeeps == IInv /\ Xlate /\ PlaceInsn => IInv'
<1> SUFFICES ASSUME IInv, Xlate, PlaceInsn PROVE IInv'
  OBVIOUS
<1>1. /\ pc.at = "place" /\ UNCHANGED <<frag, patched, eip, ininst>> /\ live' = live
      /\ tx' = [tx EXCEPT ![pc.i].ofs = IF pc.i = 1 THEN PrologLen
                                        ELSE tx[pc.i - 1].ofs + tx[pc.i - 1].dst]
      /\ pc' = IF pc.i = Len(tx) THEN At("emit") ELSE [pc EXCEPT !.i = @ + 1]
  BY DEF PlaceInsn, Xlate, live
<1>2. Whole(tx, eip) /\ pc.i <= Len(tx) /\ Placed(tx, pc.i - 1)
  BY <1>1 DEF IInv, CodeInv
<1>3. tx \in Seq(InsnType) /\ ininst \in BOOLEAN /\ pc.i \in 1 .. Len(tx) /\ pc \in PcType
  <2>1. pc \in PcType /\ pc.i \in Nat \ {0}
    BY PcIs DEF IInv
  <2>2. tx \in Seq(InsnType) /\ ininst \in BOOLEAN
    BY DEF IInv, TypeOK
  <2> QED
    BY <1>2, <2>1, <2>2
<1>4. tx' \in Seq(InsnType) /\ Whole(tx', eip) /\ Placed(tx', pc.i) /\ Len(tx') = Len(tx)
  BY <1>1, <1>2, <1>3, PlacedIs
<1>5. Whole(tx, eip)' <=> Whole(tx', eip)
  BY <1>1 DEF Whole, Follows
<1>6. CASE pc.i = Len(tx)
  <2>1. pc' \in PcType /\ pc'.at = "emit"
    BY <1>1, <1>6, PcIs DEF IInv, Places, At
  <2>2. Placed(tx, Len(tx))'
    BY <1>4, <1>6 DEF Placed
  <2>3. CodeInv'
    BY <1>1, <1>4, <1>5, <2>1, <2>2 DEF IInv, CodeInv, Translation
  <2> QED
    BY <1>1, <1>3, <1>4, <2>1, <2>3, XlateGoesOn DEF Translating
<1>7. CASE pc.i # Len(tx)
  <2>1. pc' \in PcType /\ pc'.at = "place" /\ pc'.i = pc.i + 1
    <3>1. pc' = [pc EXCEPT !.i = pc.i + 1] /\ pc.i + 1 \in Nat \ {0}
      BY <1>1, <1>3, <1>7
    <3> QED
      BY <1>1, <1>3, <3>1 DEF PcType
  <2>2. Placed(tx, pc.i - 1)' /\ pc'.i <= Len(tx')
    BY <1>3, <1>4, <1>7, <2>1 DEF Placed
  <2>3. CodeInv'
    BY <1>1, <1>4, <1>5, <2>1, <2>2 DEF IInv, CodeInv
  <2> QED
    BY <1>1, <1>3, <1>4, <2>1, <2>3, XlateGoesOn DEF Translating
<1> QED
  BY <1>6, <1>7

(* xemit.                                                                   *)
LEMMA EmitKeeps == IInv /\ Xlate /\ Emit => IInv'
<1> SUFFICES ASSUME IInv, Xlate, Emit PROVE IInv'
  OBVIOUS
<1>1. /\ pc.at = "emit" /\ pc' = At("find") /\ tx' = <<>> /\ UNCHANGED <<ininst, patched, eip>>
      /\ frag' = [e \in live \cup {eip} |-> IF e = eip THEN tx ELSE frag[e]]
  BY DEF Emit, Xlate
<1>2. /\ eip \notin live /\ eip \in Eip /\ live \subseteq Eip
      /\ frag \in [live -> Seq(InsnType)] /\ patched \subseteq Eip \X Nat
      /\ tx \in Seq(InsnType) /\ ininst \in BOOLEAN
      /\ \A p \in patched : /\ p[1] \in live /\ p[2] \in DOMAIN frag[p[1]]
                            /\ frag[p[1]][p[2]].to \in live
  BY <1>1, XlateHere DEF Translating
<1>3. live' = live \cup {eip} /\ frag'[eip] = tx /\ \A e \in live : frag'[e] = frag[e]
  BY <1>1, <1>2 DEF live
<1>4. pc' \in PcType /\ pc'.at = "find"
  BY <1>1, PcIs DEF IInv, Places, At
<1>5. Translation(tx, eip) /\ \A e \in live : Translation(frag[e], e)
  BY <1>1 DEF IInv, CodeInv
<1>6. CodeInv'
  <2>1. \A e \in live' : Translation(frag'[e], e)
    BY <1>3, <1>5
  <2>2. (\A e \in live : Translation(frag[e], e))'
    BY <2>1 DEF Translation, Whole, Placed, Follows
  <2> QED
    BY <1>1, <1>4, <2>2 DEF CodeInv
<1>7. /\ tx' \in Seq(InsnType) /\ frag' \in [live' -> Seq(InsnType)] /\ live' \subseteq Eip
  BY <1>1, <1>2, <1>3
<1>8. \A p \in patched' : /\ p[1] \in live' /\ p[2] \in DOMAIN frag'[p[1]]
                          /\ frag'[p[1]][p[2]].to \in live'
  BY <1>1, <1>2, <1>3
<1> QED
  BY <1>1, <1>2, <1>4, <1>6, <1>7, <1>8, XlateKeepsRest

(* All of xlate.                                                            *)
LEMMA XlateKeeps == IInv /\ Xlate => IInv'
BY BeginKeeps, ScanInsnKeeps, SimplifyKeeps, PlaceInsnKeeps, EmitKeeps DEF Xlate

(* Which instruction vxemu_sighandler finds: that of the translation the    *)
(* host is in, and from the trampoline of the last one that one.            *)
LEMMA HostInside ==
  ASSUME IInv, pc.at = "code"
  PROVE  /\ Host(Insn)[pc.k][1] \in Nat /\ Host(Insn)[pc.k][1] < Insn.dst
         /\ (pc.k = 1) <=> (Host(Insn)[pc.k][1] = 0)
<1>1. Insn \in InsnType /\ TranslationOf(Insn) /\ pc.k \in DOMAIN Host(Insn)
  BY HereOp, Here
<1>2. Host(Insn)[pc.k][1] \in Nat /\ ((pc.k = 1) <=> (Host(Insn)[pc.k][1] = 0))
  BY <1>1, HostIs
<1>3. Insn.dst = DstLen(Insn.type, Insn.op, Insn.len) /\ Insn.len \in 0 .. 15 /\ pc.k \in 1 .. 4
  BY <1>1, HostIs DEF TranslationOf, InsnType
<1>4. Insn.type = "alu" => Insn.len \in 1 .. 15
  BY <1>1, ProgType DEF TranslationOf, InsnType
<1> DEFINE x == Insn
<1> HIDE DEF x
<1>5. CASE x.type = "alu"
  BY <1>1, <1>3, <1>4, <1>5 DEF x, Host, DstLen
<1>6. CASE x.type \in {"jump", "jump8", "endfrag"}
  BY <1>1, <1>3, <1>6 DEF x, Host, DstLen
<1>7. CASE x.type = "call"
  BY <1>1, <1>3, <1>7 DEF x, Host, DstLen
<1>8. CASE x.type = "loop"
  BY <1>1, <1>3, <1>8 DEF x, Host, DstLen
<1>9. CASE x.type = "jumpind"
  BY <1>1, <1>3, <1>9 DEF x, Host, DstLen
<1>10. CASE x.type = "callind"
  BY <1>1, <1>3, <1>10 DEF x, Host, DstLen
<1>11. CASE x.type = "ret"
  BY <1>1, <1>3, <1>11 DEF x, Host, DstLen
<1>12. CASE x.type = "trap"
  BY <1>1, <1>3, <1>12 DEF x, Host, DstLen
<1> QED
  BY <1>1, <1>2, <1>5, <1>6, <1>7, <1>8, <1>9, <1>10, <1>11, <1>12 DEF x, InsnType

(* The greatest element of a set of numbers.                                *)
LEMMA MaxIs ==
  ASSUME NEW S, S \subseteq Nat, NEW m \in S, \A i \in S : i <= m
  PROVE  Max(S) = m
<1>1. \A i \in S : i \in Nat /\ m >= i
  OBVIOUS
<1>2. \A i \in S : (\A j \in S : i >= j) => i = m
  BY <1>1
<1> QED
  BY <1>1, <1>2 DEF Max

(* vxemu_sighandler finds the instruction the host is at.                   *)
LEMMA BlamedInside ==
  ASSUME IInv, pc.at = "code"
  PROVE  Blamed = Insn /\ Since = Host(Insn)[pc.k][1]
<1> DEFINE ins == frag[pc.f]
<1> DEFINE S == {i \in DOMAIN ins : ins[i].ofs <= HostOfs}
<1>1. /\ ins \in Seq(InsnType) /\ pc.i \in 1 .. Len(ins) /\ Insn = ins[pc.i] /\ Insn \in InsnType
      /\ pc.f \in live
  BY HereOp, Here DEF Insn
<1>2. Placed(ins, Len(ins))
  BY <1>1, Begins DEF Translation
<1>3. HostOfs = Insn.ofs + Host(Insn)[pc.k][1]
  BY DEF HostOfs
<1>4. /\ Host(Insn)[pc.k][1] \in Nat /\ Host(Insn)[pc.k][1] < Insn.dst
      /\ Insn.ofs \in Nat /\ Insn.dst \in Nat
  BY <1>1, HostInside DEF InsnType
<1>5. DOMAIN ins = 1 .. Len(ins) /\ Len(ins) \in Nat /\ \A i \in DOMAIN ins : ins[i].ofs \in Nat
  <2>1. DOMAIN ins = 1 .. Len(ins) /\ Len(ins) \in Nat /\ \A i \in DOMAIN ins : ins[i] \in InsnType
    BY <1>1
  <2> HIDE DEF ins
  <2> QED
    BY <2>1 DEF InsnType
<1>6. pc.i \in S /\ S \subseteq Nat
  <2>1. pc.i \in DOMAIN ins /\ S \subseteq DOMAIN ins /\ DOMAIN ins \subseteq Nat
    BY <1>1, <1>5
  <2>2. Insn.ofs <= HostOfs
    <3> DEFINE h == Host(Insn)[pc.k][1]
    <3>1. h \in Nat /\ Insn.ofs \in Nat /\ HostOfs = Insn.ofs + h
      BY <1>3, <1>4
    <3> HIDE DEF h
    <3> QED
      BY <3>1
  <2>3. ins[pc.i].ofs <= HostOfs
    BY <1>1, <2>2
  <2> QED
    BY <2>1, <2>3
<1>7. ASSUME NEW i \in S PROVE i <= pc.i
  <2> SUFFICES ASSUME ~(i <= pc.i) PROVE FALSE
    OBVIOUS
  <2>1. i \in 1 .. Len(ins) /\ pc.i \in 1 .. i - 1
    BY <1>1, <1>5
  <2>2. ins[pc.i].ofs + ins[pc.i].dst <= ins[i].ofs
    BY <1>2, <2>1 DEF Placed
  <2>3. ins[i].ofs <= HostOfs /\ ins[i].ofs \in Nat
    BY <1>5
  <2> HIDE DEF ins, S
  <2> QED
    BY <1>1, <1>3, <1>4, <2>2, <2>3
<1>8. Max(S) = pc.i
  BY <1>6, <1>7, MaxIs
<1>9. Blamed = Insn
  BY <1>1, <1>8 DEF Blamed
<1> QED
  BY <1>3, <1>4, <1>9 DEF Since

(* Trampolines come after all the code; the first one right after it.       *)
LEMMA TrampAfter ==
  ASSUME NEW ins \in Seq(InsnType), NEW i \in 1 .. Len(ins)
  PROVE  /\ TrampOfs(ins, i) \in Nat /\ After(ins) \in Nat /\ After(ins) <= TrampOfs(ins, i)
         /\ TrampOfs(ins, i) = After(ins) <=> \A j \in 1 .. i - 1 : ~HasTramp(ins[j])
<1> DEFINE S == {j \in 1 .. i - 1 : HasTramp(ins[j])}
<1>1. IsFiniteSet(1 .. i - 1)
  BY FS_Interval
<1>2. IsFiniteSet(S)
  BY <1>1, FS_Subset
<1>3. Cardinality(S) \in Nat /\ (Cardinality(S) = 0 <=> S = {})
  BY <1>2, FS_CardinalityType, FS_EmptySet
<1>4. After(ins) \in Nat
  <2>1. ins # <<>> => Last(ins) \in InsnType
    BY DEF Last
  <2> QED
    BY <2>1 DEF After, PrologLen, InsnType
<1>5. TrampOfs(ins, i) = After(ins) + 24 * Cardinality(S)
  BY DEF TrampOfs, TrampLen
<1>6. S = {} <=> \A j \in 1 .. i - 1 : ~HasTramp(ins[j])
  OBVIOUS
<1> HIDE DEF S
<1> QED
  BY <1>3, <1>4, <1>5, <1>6

(* In the trampoline of a fragment's last instruction, too, it finds it.    *)
LEMMA BlamedBeyond ==
  ASSUME IInv, pc.at = "tramp", pc.i = Len(frag[pc.f])
  PROVE  Blamed = Insn /\ Since \in Nat /\ Since >= Insn.dst /\ Insn.dst >= 5
<1> DEFINE ins == frag[pc.f]
<1> DEFINE S == {i \in DOMAIN ins : ins[i].ofs <= HostOfs}
<1>1. InFragment
  BY DEF InFragment
<1>2. /\ ins \in Seq(InsnType) /\ pc.i \in 1 .. Len(ins) /\ Insn = ins[pc.i] /\ Insn \in InsnType
      /\ TranslationOf(Insn) /\ HasTramp(Insn)
  BY <1>1, Here DEF Insn, IInv, HereInv
<1>3. After(ins) = Insn.ofs + Insn.dst
  BY <1>2 DEF After, Last
<1>4. HostOfs \in Nat /\ HostOfs >= After(ins) /\ After(ins) \in Nat
  BY <1>2, TrampAfter DEF HostOfs
<1>5. Insn.ofs \in Nat /\ Insn.dst \in Nat /\ Insn.dst >= 5
  <2>1. Insn.ofs \in Nat /\ Insn.dst \in Nat
    BY <1>2 DEF InsnType
  <2>2. /\ Insn.dst = DstLen(Insn.type, Insn.op, Insn.len)
        /\ Insn.type \in {"jump", "call", "loop", "endfrag"}
    BY <1>2 DEF TranslationOf, HasTramp
  <2>3. Insn.dst \in {5, 6, 10}
    BY <2>2 DEF DstLen
  <2> QED
    BY <2>1, <2>3
<1>6. DOMAIN ins = 1 .. Len(ins) /\ Len(ins) \in Nat
  BY <1>2
<1>7. pc.i \in S /\ S \subseteq Nat /\ \A i \in S : i <= pc.i
  BY <1>2, <1>3, <1>4, <1>5, <1>6
<1>8. Max(S) = pc.i
  BY <1>7, MaxIs
<1>9. Blamed = Insn
  BY <1>2, <1>8 DEF Blamed
<1> QED
  BY <1>3, <1>4, <1>5, <1>9 DEF Since

(* A set of numbers that is not empty has a least one.                      *)
LEMMA LeastNat ==
  ASSUME NEW T, T \subseteq Nat, T # {}
  PROVE  \E m \in T : \A n \in T : m <= n
<1> DEFINE R == OpToRel(<, Nat)
<1>1. IsWellFoundedOn(R, Nat)
  BY NatLessThanWellFounded
<1>2. \A i, j \in Nat : i < j => <<i, j>> \in R
  BY DEF OpToRel
<1> HIDE DEF R
<1>3. PICK m \in T : \A n \in T : <<n, m>> \notin R
  BY <1>1, WFMin
<1>4. \A n \in T : ~(n < m)
  BY <1>2, <1>3
<1> QED
  BY <1>4

(* The word that vxemu_sighandler reads for a call is one of a trampoline.  *)
LEMMA WordIsThere ==
  ASSUME IInv, InFragment, Insn.type = "call"
  PROVE  LET ins == frag[pc.f]
             Found(i) == HasTramp(ins[i]) /\ TrampOfs(ins, i) + 16 = Insn.ofs + 26
         IN  /\ pc.i = Len(ins) /\ After(ins) = Insn.ofs + 10 /\ Insn.dst = 10
             /\ \E i \in DOMAIN ins : Found(i)
             /\ WordAt(ins, Insn.ofs + 26) \in Eip
<1> DEFINE ins == frag[pc.f]
<1> DEFINE Found(i) == HasTramp(ins[i]) /\ TrampOfs(ins, i) + 16 = Insn.ofs + 26
<1> DEFINE T == {i \in DOMAIN ins : HasTramp(ins[i])}
<1>1. /\ ins \in Seq(InsnType) /\ pc.i \in 1 .. Len(ins) /\ Insn = ins[pc.i] /\ Insn \in InsnType
      /\ TranslationOf(Insn) /\ pc.f \in live
  BY Here DEF Insn
<1>2. pc.i = Len(ins)
  <2>1. Follows(ins, pc.f) /\ Final(Insn) /\ DOMAIN ins = 1 .. Len(ins) /\ Len(ins) \in Nat
    BY <1>1, Begins DEF Translation, Whole, Final
  <2>2. ~(pc.i < Len(ins))
    BY <1>1, <2>1 DEF Follows
  <2> QED
    BY <1>1, <2>1, <2>2
<1>3. Insn.dst = 10 /\ Insn.ofs \in Nat
  BY <1>1 DEF TranslationOf, DstLen, InsnType
<1>4. After(ins) = Insn.ofs + 10
  BY <1>1, <1>2, <1>3 DEF After, Last
<1>5. DOMAIN ins = 1 .. Len(ins) /\ Len(ins) \in Nat /\ \A i \in DOMAIN ins : ins[i] \in InsnType
  BY <1>1
<1>6. pc.i \in T /\ T \subseteq Nat
  BY <1>1, <1>5 DEF HasTramp
<1>7. PICK m \in T : \A n \in T : m <= n
  BY <1>6, LeastNat
<1>8. m \in 1 .. Len(ins) /\ HasTramp(ins[m]) /\ \A j \in 1 .. m - 1 : ~HasTramp(ins[j])
  BY <1>5, <1>7
<1> HIDE DEF T
<1>9. TrampOfs(ins, m) = After(ins)
  BY <1>1, <1>8, TrampAfter
<1>10. Found(m) /\ m \in DOMAIN ins
  BY <1>3, <1>4, <1>5, <1>8, <1>9
<1> DEFINE c == CHOOSE i \in DOMAIN ins : Found(i)
<1>11. c \in DOMAIN ins
  BY <1>10
<1>12. WordAt(ins, Insn.ofs + 26) = ins[c].to
  BY DEF WordAt
<1> HIDE DEF c
<1>13. ins[c].to \in Eip
  BY <1>5, <1>11 DEF InsnType
<1> QED
  BY <1>2, <1>3, <1>4, <1>10, <1>12, <1>13

(* Whatever the handler takes emu->cpu to be, it has the type of it.        *)
LEMMA SavedType ==
  ASSUME IInv, pc.at \in {"prolog", "code"} \/ (pc.at = "tramp" /\ pc.i = Len(frag[pc.f]))
  PROVE  Saved[1] \in Eip /\ Saved[2] \in RegType
<1>1. /\ hw \in RegType /\ cpu \in RegType /\ eip \in Eip
      /\ cpu.bx \in Int /\ cpu.ax \in {"guest", "trapno"}
  BY RegIs DEF IInv, TypeOK
<1>2. [hw EXCEPT !.bx = cpu.bx] \in RegType /\ [hw EXCEPT !.ax = cpu.ax] \in RegType
  BY <1>1, SetReg, RegIs
<1>3. CASE pc.at = "prolog"
  <2>1. frag[pc.f][1].eip = pc.f /\ pc.f \in Eip
    BY <1>3, Begins DEF IInv, HereInv
  <2> QED
    BY <1>2, <1>3, <2>1 DEF Saved
<1>4. CASE pc.at # "prolog"
  <2>1. InFragment
    BY <1>4 DEF InFragment
  <2>2. Insn \in InsnType /\ Insn.eip \in Eip
    BY <2>1, Here DEF InsnType
  <2>3. Saved = SavedAt(Insn) /\ Blamed = Insn
    BY <1>4, BlamedInside, BlamedBeyond DEF Saved
  <2>4. Insn.type = "call" => WordAt(frag[pc.f], Insn.ofs + 26) \in Eip
    BY <2>1, WordIsThere
  <2>5. [hw EXCEPT !.cx = (@ + 1) % 2] \in RegType
    <3>1. hw.cx \in {0, 1} /\ (hw.cx + 1) % 2 \in {0, 1}
      BY <1>1, RegIs
    <3> QED
      BY <1>1, <3>1, SetReg, RegIs
  <2>6. /\ Insn.type = "callind" /\ CallCommitted(Insn) => hw.bx \in Eip
        /\ Insn.type = "ret" /\ Since > 7 => hw.bx \in Eip
    <3>1. CASE pc.at = "code"
      <4>1. Since = Host(Insn)[pc.k][1] /\ pc.k \in DOMAIN Host(Insn) /\ InCodeInv(Insn, pc.k)
            /\ pc.k \in 1 .. 4 /\ Insn.len \in 0 .. 15
        BY <2>2, <3>1, BlamedInside, HereOp, HostIs DEF InsnType
      <4> DEFINE x == Insn
      <4>2. x.dst = DstLen(x.type, x.op, x.len)
        BY <2>1, Here DEF TranslationOf
      <4> HIDE DEF x
      <4>3. Insn.type = "callind" /\ CallCommitted(Insn) => pc.k = 4
        <5> SUFFICES ASSUME x.type = "callind", CallCommitted(x), pc.k # 4 PROVE FALSE
          BY DEF x
        <5>1. x.dst = 7 + x.len + 5 + 5 /\ x.len \in 0 .. 15
          BY <4>1, <4>2 DEF DstLen, x
        <5>2. Since = 0 \/ Since = 7 \/ Since = 7 + x.len
          <6>1. pc.k \in {1, 2, 3} /\ Since = Host(x)[pc.k][1]
            BY <4>1 DEF x
          <6>2. /\ Host(x)[1][1] = 0 /\ Host(x)[2][1] = 7 /\ Host(x)[3][1] = 7 + x.len
            BY DEF Host
          <6> QED
            BY <6>1, <6>2
        <5>3. Since >= x.dst - 5
          BY DEF CallCommitted
        <5>4. Since \in Int /\ Since < 12 + x.len
          BY <5>1, <5>2
        <5>5. x.dst - 5 = 12 + x.len
          BY <5>1
        <5> QED
          BY <5>1, <5>3, <5>4, <5>5
      <4>4. Insn.type = "ret" /\ Since > 7 => pc.k = 3
        BY <4>1 DEF Host
      <4> QED
        BY <4>1, <4>3, <4>4 DEF InCodeInv
    <3>2. CASE pc.at = "tramp"
      BY <3>2 DEF IInv, HereInv, HasTramp
    <3> QED
      BY <1>4, <3>1, <3>2
  <2>7. SavedAt(Insn)[1] \in Eip /\ SavedAt(Insn)[2] \in RegType
    BY <1>1, <1>2, <2>2, <2>4, <2>5, <2>6 DEF SavedAt
  <2> QED
    BY <2>3, <2>7
<1> QED
  BY <1>3, <1>4

(* Signals.                                                                 *)
LEMMA OutKeeps ==
  ASSUME IInv, NEW t \in {"tick", "fault", "singlestep", "assert"}, NEW c,
         c[1] \in Eip, c[2] \in RegType, pc.at # "out", Out(t, c)
  PROVE  IInv'
<1>1. /\ pc' = At("out") /\ trap' = t /\ eip' = c[1] /\ cpu' = c[2] /\ hw' = Zero
      /\ stepping' = FALSE /\ jmpinfo' = NoJump /\ tx' = <<>>
      /\ UNCHANGED <<mem, ininst, frag, patched, arch>> /\ live' = live
  BY DEF Out, live
<1>2. pc' \in PcType /\ pc'.at = "out"
  BY <1>1, PcIs DEF IInv, Places, At
<1>3. Zero \in RegType /\ NoJump \in Eip \X Nat /\ tx' \in Seq(InsnType)
  BY <1>1, VxRunAssumption DEF Zero, RegType, NoJump
<1>4. TypeOK'
  BY <1>1, <1>2, <1>3 DEF IInv, TypeOK, PcType
<1>5. CodeInv'
  BY <1>1, <1>2 DEF IInv, CodeInv
<1>6. HereInv'
  BY <1>1, <1>2 DEF IInv, HereInv, InFragment
<1>7. RegsInv'
  BY <1>2 DEF RegsInv
<1> QED
  BY <1>4, <1>5, <1>6, <1>7 DEF IInv

(* A pending syscall's eip is put back to the instruction.                  *)
LEMMA PutBackIs ==
  ASSUME IInv, pc.at # "out"
  PROVE  /\ PutBack[1] \in Eip /\ PutBack[2] \in RegType /\ PutBack[2] = cpu
         /\ trap = "none" => PutBack[1] = eip
         /\ trap = "syscall" => PutBack[1] = arch.eip
<1>1. eip \in Eip /\ cpu \in RegType /\ arch \in ArchType /\ arch.eip \in Eip
  BY GuestIs DEF IInv, TypeOK
<1>2. ASSUME trap = "syscall" PROVE eip - 2 = arch.eip
  <2>1. pc.at \in {"return", "returned", "back"}
    BY <1>2 DEF IInv, HereInv
  <2>2. Prog[arch.eip].op = "syscall" /\ eip = arch.eip + Prog[arch.eip].len
    BY <1>2, <2>1 DEF IInv, RegsInv
  <2>3. Prog[arch.eip].len = 2 /\ arch.eip \in Nat
    BY <1>1, <2>2, VxRunAssumption
  <2> QED
    BY <2>2, <2>3
<1> QED
  BY <1>1, <1>2 DEF PutBack

(* The host can be stopped in the runtime, to be stepped out of it.         *)
LEMMA StepsOut ==
  ASSUME IInv, InRuntime, stepping' = TRUE, trap' = "none",
         eip' = PutBack[1], cpu' = PutBack[2],
         UNCHANGED <<pc, hw, mem, ininst, jmpinfo, code, arch>>
  PROVE  IInv'
<1>1. pc.at \in {"entered", "backpatch", "indirect", "gentrap", "return"}
  BY DEF InRuntime
<1>2. eip' \in Eip /\ cpu' = cpu /\ (trap = "none" => eip' = eip)
  BY <1>1, PutBackIs
<1>3. pc.at # "return" => trap = "none"
  BY <1>1 DEF IInv, HereInv
<1>4. TypeOK'
  BY <1>2 DEF IInv, TypeOK, code, live
<1>5. CodeInv' /\ live' = live
  BY <1>1, BufferKept DEF IInv, Translating, code
<1>6. Insn' = Insn /\ Done' = Done
  BY DEF Insn, Done, Exec, code
<1>7. HereInv'
  BY <1>1, <1>2, <1>3, <1>5, <1>6 DEF IInv, HereInv, InFragment, code
<1>8. RegsInv'
  <2>1. CASE pc.at = "return"
    BY <2>1 DEF RegsInv
  <2>2. CASE pc.at = "entered"
    BY <1>2, <1>3, <2>2 DEF IInv, RegsInv, State
  <2>3. CASE pc.at = "backpatch"
    BY <1>2, <1>3, <1>6, <2>3 DEF IInv, RegsInv, State
  <2>4. CASE pc.at = "indirect"
    <3>1. State(hw.bx, [hw EXCEPT !.bx = cpu.bx]) = Exec(arch) /\ hw.bx \in Eip
      BY <2>4 DEF IInv, RegsInv
    <3>2. State(hw.bx, [hw EXCEPT !.bx = cpu.bx])' = Exec(arch)'
      BY <1>2, <3>1 DEF State, Exec
    <3> QED
      BY <2>4, <3>1, <3>2 DEF RegsInv
  <2>5. CASE pc.at = "gentrap"
    BY <1>2, <1>3, <1>6, <2>5 DEF IInv, RegsInv, State
  <2> QED
    BY <1>1, <2>1, <2>2, <2>3, <2>4, <2>5
<1> QED
  BY <1>4, <1>5, <1>7, <1>8 DEF IInv

(* Whatever a tick meets, outside the trampolines in a fragment.            *)
LEMMA TickKeeps ==
  ASSUME "tramp" \notin Window, IInv, Tick
  PROVE  IInv'
<1>1. Where # "out"
  BY VxRunAssumption DEF Tick
<1>2. pc.at # "out"
  BY <1>1 DEF Where
<1>3. PutBack[1] \in Eip /\ PutBack[2] \in RegType
  BY <1>2, PutBackIs
<1>4. CASE InRuntime /\ ~ininst
  BY <1>4, StepsOut DEF Tick
<1>5. CASE InTranslation /\ ~ininst
  <2>1. ~InRuntime
    BY <1>5 DEF InTranslation, InRuntime
  <2>2. Out(IF AssertFails THEN "assert" ELSE "tick", Saved)
    BY <1>5, <2>1 DEF Tick
  <2>3. Where # "tramp"
    BY DEF Tick
  <2>4. pc.at \in {"prolog", "code"} \/ (pc.at = "tramp" /\ pc.i = Len(frag[pc.f]))
    BY <1>5, <2>3 DEF Where, InTranslation
  <2>5. Saved[1] \in Eip /\ Saved[2] \in RegType
    BY <2>4, SavedType
  <2> QED
    BY <1>2, <2>2, <2>5, OutKeeps
<1>6. CASE ininst \/ ~(InRuntime \/ InTranslation)
  BY <1>2, <1>3, <1>6, OutKeeps DEF Tick
<1> QED
  BY <1>4, <1>5, <1>6

(* The end of single-stepping.                                              *)
LEMMA SteppedKeeps == IInv /\ Stepped => IInv'
<1> SUFFICES ASSUME IInv, Stepped PROVE IInv'
  OBVIOUS
<1>1. CASE InTranslation /\ Out("tick", Saved)
  <2>1. pc.at = "prolog"
    BY <1>1 DEF Stepped, InTranslation, IInv, HereInv
  <2> QED
    BY <1>1, <2>1, SavedType, OutKeeps
<1>2. CASE pc.at = "returned" /\ Out("singlestep", PutBack)
  BY <1>2, PutBackIs, OutKeeps
<1> QED
  BY <1>1, <1>2 DEF Stepped

(* A page fault.                                                            *)
LEMMA FaultKeeps == IInv /\ Fault => IInv'
<1> SUFFICES ASSUME IInv, Fault PROVE IInv'
  OBVIOUS
<1>1. eip \in Eip /\ cpu \in RegType
  BY DEF IInv, TypeOK
<1>2. CASE pc.at = "code"
  <2>1. Saved[1] \in Eip /\ Saved[2] \in RegType
    BY <1>2, SavedType
  <2>2. Out("fault", IF ininst THEN <<eip, cpu>> ELSE Saved)
    BY <1>2 DEF Fault
  <2> QED
    BY <1>1, <1>2, <2>1, <2>2, OutKeeps
<1>3. CASE pc.at \in {"scan", "scanning"}
  BY <1>1, <1>3, OutKeeps DEF Fault
<1> QED
  BY <1>2, <1>3 DEF Fault

(* The kernel's turn: the guest goes on from what emu->cpu holds.           *)
LEMMA RunKeeps == IInv /\ Run => IInv'
<1> SUFFICES ASSUME IInv, Run PROVE IInv'
  OBVIOUS
<1>1. /\ pc.at = "out" /\ pc' = At("find") /\ trap' = "none" /\ arch' = Guest(eip', cpu', mem)
      /\ UNCHANGED <<hw, mem, stepping, ininst, jmpinfo, tx>>
      /\ UNCHANGED <<frag, patched>> \/ Flush
      /\ UNCHANGED <<eip, cpu>> \/ (eip' = NoteEip /\ cpu' = [cpu EXCEPT !.esp = 0])
  BY DEF Run
<1>2. eip' \in Eip /\ cpu' \in RegType /\ mem \in Eip
  <2>1. eip \in Eip /\ cpu \in RegType /\ mem \in Eip /\ NoteEip \in Eip
    BY VxRunAssumption DEF IInv, TypeOK
  <2>2. [cpu EXCEPT !.esp = 0] \in RegType
    BY <2>1, EspIs
  <2> QED
    BY <1>1, <2>1, <2>2
<1>3. arch' \in ArchType
  BY <1>1, <1>2, GuestType
<1>4. pc' \in PcType /\ pc'.at = "find"
  BY <1>1, PcIs DEF IInv, Places, At
<1>5. /\ live' \subseteq Eip /\ frag' \in [live' -> Seq(InsnType)] /\ patched' \subseteq Eip \X Nat
      /\ (live' = live /\ UNCHANGED <<frag, patched>>) \/ (live' = {} /\ patched' = {})
  <2>1. live \subseteq Eip /\ frag \in [live -> Seq(InsnType)] /\ patched \subseteq Eip \X Nat
    BY DEF IInv, TypeOK
  <2>2. CASE UNCHANGED <<frag, patched>>
    <3>1. live' = live
      BY <2>2 DEF live
    <3> QED
      BY <2>1, <2>2, <3>1
  <2>3. CASE Flush
    BY <2>3 DEF Flush, live
  <2> QED
    BY <1>1, <2>2, <2>3
<1>6. TypeOK'
  BY <1>1, <1>2, <1>3, <1>4, <1>5 DEF IInv, TypeOK, PcType
<1>7. tx = <<>> /\ ~stepping
  BY <1>1 DEF IInv, CodeInv, HereInv
<1>8. CodeInv'
  BY <1>1, <1>4, <1>5, <1>7 DEF IInv, CodeInv
<1>9. HereInv'
  BY <1>1, <1>4, <1>5, <1>7 DEF IInv, HereInv, InFragment
<1>10. RegsInv'
  BY <1>1, <1>4 DEF RegsInv, State
<1> QED
  BY <1>6, <1>8, <1>9, <1>10 DEF IInv

(* A step that changes nothing.                                             *)
LEMMA StutterKeeps == IInv /\ UNCHANGED vars => IInv'
<1> SUFFICES ASSUME IInv, UNCHANGED vars PROVE IInv'
  OBVIOUS
<1> USE DEF vars, emu, code, live
<1>1. Insn' = Insn /\ Done' = Done /\ Due' = Due
  BY DEF Insn, Done, Due, Exec
<1>2. TypeOK'
  BY DEF IInv, TypeOK
<1>3. CodeInv'
  BY DEF IInv, CodeInv, Follows, Whole, Translation, Placed
<1>4. HereInv'
  BY <1>1 DEF IInv, HereInv, InFragment
<1>5. RegsInv'
  <2>1. InCodeInv(Insn, pc.k)' = InCodeInv(Insn, pc.k)
    BY <1>1 DEF InCodeInv, State, Exec
  <2>2. RegsInv
    BY DEF IInv
  <2>3. Exec(arch)' = Exec(arch)
    BY DEF Exec
  <2> QED
    BY <1>1, <2>1, <2>2, <2>3 DEF RegsInv, State
<1> QED
  BY <1>2, <1>3, <1>4, <1>5 DEF IInv

(* IInv is inductive when no tick is taken in the middle of trampolines.    *)
LEMMA StepIInv ==
  ASSUME "tramp" \notin Window, IInv, [Next]_vars
  PROVE  IInv'
BY PrologKeeps, CopiedKeeps, ShortJumpKeeps, LongJumpKeeps, LoopCountKeeps, PushKeeps,
   IndirectKeeps, TrapInsnKeeps, TrampKeeps, LookupKeeps, GentrapKeeps, ReturnKeeps,
   FindKeeps, EnterKeeps, XlateKeeps, SteppedKeeps, TickKeeps, FaultKeeps, RunKeeps,
   StutterKeeps DEF Next, HostStep

(* Wherever the translation of an instruction begins, and wherever the C    *)
(* code of vxproc_run has the guest stopped, the registers are exactly the  *)
(* guest's, for every program, every size of the code buffer, and every tick*)
(* that is not taken in the middle of trampolines.                          *)
THEOREM VxRunRegistersAtHome ==
  ASSUME "tramp" \notin Window
  PROVE  Spec => []RegistersAtHome
<1>1. IInv => RegistersAtHome
  BY DEF IInv, RegsInv, RegistersAtHome, InCodeInv
<1>2. IInv /\ [Next]_vars => IInv'
  BY StepIInv
<1> QED
  BY InitIInv, <1>1, <1>2, PTL DEF Spec

(* The host is never in a fragment that vxemu_flush has thrown away, and no *)
(* backpatched jump leads into one (nor is one patched in code that is      *)
(* gone).                                                                   *)
THEOREM VxRunNoDeadCode ==
  ASSUME "tramp" \notin Window
  PROVE  Spec => []NoDeadCode
<1>1. IInv => NoDeadCode
  BY DEF IInv, HereInv, NoDeadCode, InFragment, InTranslation
<1>2. IInv /\ [Next]_vars => IInv'
  BY StepIInv
<1> QED
  BY InitIInv, <1>1, <1>2, PTL DEF Spec

(* With the windows shut, single-stepping always ends in translated code,   *)
(* and a translation that was given up is begun again.                      *)
LEMMA OutEndsStep ==
  ASSUME NEW t, NEW c, Out(t, c)
  PROVE  stepping' = FALSE /\ pc'.at = "out" /\ ininst' = ininst /\ eip' = c[1] /\ live' = live
BY DEF Out, At, live

(* StepInv, relative to IInv.                                               *)
LEMMA StepStepInv ==
  ASSUME SafeWindow, IInv, StepInv, Next
  PROVE  StepInv'
<1>0. "note" \notin Window /\ "miss" \notin Window /\ "return" \notin Window /\ "out" \notin Window
  BY DEF SafeWindow
<1>1. ASSUME Prolog \/ Copied \/ ShortJump \/ LongJump \/ LoopCount \/ Push \/ Indirect \/ TrapInsn
      PROVE  StepInv'
  <2>1. pc.at \in {"prolog", "code"} /\ ~stepping /\ UNCHANGED <<stepping, ininst>>
    BY <1>1 DEF Prolog, Copied, ShortJump, LongJump, LoopCount, Push, Indirect, TrapInsn,
       InCode, MayRun, emu
  <2> QED
    BY <2>1 DEF StepInv
<1>2. ASSUME Tramp \/ Gentrap PROVE StepInv'
  <2>1. pc.at \in {"tramp", "gentrap"} /\ UNCHANGED <<stepping, ininst>>
    BY <1>2 DEF Tramp, Gentrap
  <2> QED
    BY <2>1 DEF StepInv
<1>3. ASSUME Lookup PROVE StepInv'
  <2>1. /\ pc.at \in {"backpatch", "indirect"} /\ UNCHANGED <<stepping, ininst>>
        /\ Target \in live => pc' = PrologOf(Target)
    BY <1>3 DEF Lookup
  <2> QED
    BY <2>1 DEF StepInv, PrologOf
<1>4. ASSUME Return PROVE StepInv'
  <2>1. pc.at \in {"return", "returned"} /\ UNCHANGED <<stepping, ininst>>
    BY <1>4 DEF Return
  <2> QED
    BY <2>1 DEF StepInv
<1>5. ASSUME Find PROVE StepInv'
  <2>1. /\ pc.at \in {"find", "back"} /\ UNCHANGED <<stepping, ininst>>
        /\ pc.at = "find" /\ eip \notin live => pc' = At("scan")
    BY <1>5 DEF Find, emu
  <2>2. ~stepping /\ (ininst => pc.at = "find" /\ eip \notin live)
    BY <2>1 DEF StepInv
  <2>3. ininst => pc'.at = "scan"
    BY <2>1, <2>2 DEF At
  <2> QED
    BY <2>1, <2>2, <2>3 DEF StepInv
<1>6. ASSUME Enter PROVE StepInv'
  <2>1. /\ pc.at \in {"enter", "entered"} /\ UNCHANGED <<stepping, ininst>>
        /\ (pc.at = "enter" => pc' = At("entered")) /\ (pc.at = "entered" => pc' = PrologOf(eip))
    BY <1>6 DEF Enter, emu
  <2>2. ~ininst /\ (stepping => pc.at = "entered")
    BY <2>1 DEF StepInv
  <2>3. pc'.at \in {"entered", "prolog"}
    BY <2>1 DEF At, PrologOf
  <2> QED
    BY <2>1, <2>2, <2>3 DEF StepInv
<1>7. ASSUME Xlate PROVE StepInv'
  <2>1. ~stepping /\ stepping' = stepping
    BY <1>7 DEF Xlate, Begin, ScanInsn, Simplify, PlaceInsn, Emit, StepInv
  <2>2. ininst' => pc'.at = "scanning"
    <3>1. CASE Begin
      BY <3>1 DEF Begin, At
    <3>2. CASE ScanInsn
      BY <3>2 DEF ScanInsn
    <3>3. CASE Simplify \/ PlaceInsn \/ Emit
      BY <3>3 DEF Simplify, PlaceInsn, Emit, StepInv
    <3> QED
      BY <1>7, <3>1, <3>2, <3>3 DEF Xlate
  <2> QED
    BY <2>1, <2>2 DEF StepInv
<1>8. ASSUME Stepped PROVE StepInv'
  <2>1. stepping' = FALSE /\ pc'.at = "out" /\ ininst' = ininst
    BY <1>8, OutEndsStep DEF Stepped
  <2>2. ~ininst
    BY <1>8 DEF Stepped, InTranslation, StepInv
  <2> QED
    BY <2>1, <2>2 DEF StepInv
<1>9. ASSUME Fault PROVE StepInv'
  <2>1. CASE pc.at = "code"
    <3>1. stepping' = FALSE /\ pc'.at = "out" /\ ininst' = ininst
      BY <1>9, <2>1, OutEndsStep DEF Fault
    <3> QED
      BY <2>1, <3>1 DEF StepInv
  <2>2. CASE pc.at \in {"scan", "scanning"}
    <3>1. Out("fault", <<eip, cpu>>)
      BY <1>9, <2>2 DEF Fault
    <3> DEFINE c == <<eip, cpu>>
    <3>2. /\ stepping' = FALSE /\ pc'.at = "out" /\ ininst' = ininst /\ eip' = c[1]
          /\ live' = live
      <4> HIDE DEF c
      <4>1. Out("fault", c)
        BY <3>1 DEF c
      <4> QED
        BY <4>1, OutEndsStep
    <3>3. eip \notin live
      BY <2>2 DEF IInv, HereInv
    <3> QED
      BY <3>2, <3>3 DEF StepInv
  <2> QED
    BY <1>9, <2>1, <2>2 DEF Fault
<1>10. ASSUME Tick PROVE StepInv'
  <2>1. pc.at # "out" /\ Where \in {"code", "call", "hit", "c", "translator"}
    BY <1>10 DEF Tick, SafeWindow, Where
  <2>2. CASE InRuntime /\ ~ininst
    <3>1. stepping' = TRUE /\ UNCHANGED <<pc, hw, ininst, jmpinfo, frag>>
      BY <1>10, <2>2 DEF Tick, code
    <3>2. pc.at \in {"entered", "backpatch", "indirect"}
      BY <2>1, <2>2 DEF InRuntime, Where
    <3>3. pc.at \in {"backpatch", "indirect"} => Target \in live
      BY <2>1, <3>2 DEF Where
    <3>4. Target' = Target /\ live' = live
      BY <3>1 DEF Target, live
    <3> QED
      BY <2>2, <3>1, <3>2, <3>3, <3>4 DEF StepInv
  <2>3. CASE InTranslation /\ ~ininst
    <3>1. stepping' = FALSE /\ pc'.at = "out" /\ ininst' = ininst
      BY <1>10, <2>2, <2>3, OutEndsStep DEF Tick, InTranslation, InRuntime
    <3> QED
      BY <2>3, <3>1 DEF StepInv
  <2>4. CASE ininst \/ ~(InRuntime \/ InTranslation)
    <3>1. Out("tick", PutBack)
      BY <1>10, <2>4 DEF Tick
    <3>2. /\ stepping' = FALSE /\ pc'.at = "out" /\ ininst' = ininst
          /\ eip' = PutBack[1] /\ live' = live
      BY <3>1, OutEndsStep
    <3>3. ininst => eip \notin live /\ trap = "none"
      BY <2>1 DEF StepInv, IInv, HereInv
    <3>4. ininst => eip' = eip
      BY <2>1, <3>2, <3>3, PutBackIs
    <3> QED
      BY <3>2, <3>3, <3>4 DEF StepInv
  <2> QED
    BY <2>2, <2>3, <2>4
<1>11. ASSUME Run PROVE StepInv'
  <2>1. /\ pc.at = "out" /\ pc'.at = "find" /\ UNCHANGED <<stepping, ininst>>
        /\ ininst => eip' = eip
        /\ live' = live \/ live' = {}
    BY <1>0, <1>11 DEF Run, At, Flush, live
  <2> QED
    BY <2>1 DEF StepInv
<1> QED
  BY <1>1, <1>2, <1>3, <1>4, <1>5, <1>6, <1>7, <1>8, <1>9, <1>10, <1>11 DEF Next, HostStep

(* With no conditional jump in straight line before a call, no trampoline   *)
(* is in front of the call's own in its fragment.                           *)
LEMMA CallIsFirst ==
  ASSUME CallsFirst, IInv, NEW f \in live, NEW i \in DOMAIN frag[f], NEW j \in DOMAIN frag[f],
         i < j, HasTramp(frag[f][i])
  PROVE  frag[f][j].type # "call"
<1> DEFINE ins == frag[f]
<1>1. PICK behind \in SUBSET Eip :
         /\ \A e \in behind : Prog[e].op # "call"
         /\ \A e \in Eip : Prog[e].op \in {"jcc", "loop"} \/ (e \in behind /\ Prog[e].op = "alu") =>
               e + Prog[e].len \in behind
  BY DEF CallsFirst
<1>2. ins \in Seq(InsnType) /\ Follows(ins, f)
  BY Begins DEF Translation, Whole
<1>3. /\ DOMAIN ins = 1 .. Len(ins) /\ Len(ins) \in Nat
      /\ \A n \in DOMAIN ins : ins[n] \in InsnType /\ TranslationOf(ins[n])
  <2>1. \A n \in DOMAIN ins : TranslationOf(ins[n])
    BY <1>2 DEF Follows
  <2>2. DOMAIN ins = 1 .. Len(ins) /\ Len(ins) \in Nat /\ \A n \in DOMAIN ins : ins[n] \in InsnType
    BY <1>2
  <2> HIDE DEF ins
  <2> QED
    BY <2>1, <2>2
<1>4. \A n \in DOMAIN ins : n + 1 \in DOMAIN ins =>
         ~Final(ins[n]) /\ ins[n + 1].eip = ins[n].eip + ins[n].len
  <2> SUFFICES ASSUME NEW n \in DOMAIN ins, n + 1 \in DOMAIN ins
               PROVE  ~Final(ins[n]) /\ ins[n + 1].eip = ins[n].eip + ins[n].len
    OBVIOUS
  <2>1. n < Len(ins) /\ n + 1 # 1 /\ (n + 1) - 1 = n
    BY <1>3
  <2> DEFINE m == n + 1
  <2>2. ins[m].eip = ins[m - 1].eip + ins[m - 1].len
    <3>1. m \in DOMAIN ins /\ m # 1
      BY <2>1
    <3> HIDE DEF m
    <3> QED
      BY <1>2, <3>1 DEF Follows
  <2> HIDE DEF ins
  <2> QED
    BY <1>2, <2>1, <2>2 DEF Follows
<1> HIDE DEF ins
<1>5. ASSUME NEW n \in DOMAIN ins, n + 1 \in DOMAIN ins,
             ins[n].eip \in behind \/ HasTramp(ins[n])
      PROVE  ins[n + 1].eip \in behind
  <2> DEFINE x == ins[n]
  <2>1. x \in InsnType /\ TranslationOf(x) /\ ~Final(x)
    BY <1>3, <1>4, <1>5
  <2>2. x.type # "endfrag"
    BY <2>1 DEF TranslationOf, Final
  <2>3. /\ x.op = Prog[x.eip].op /\ x.len = Prog[x.eip].len /\ x.op \in Op /\ x.eip \in Eip
        /\ x.type = Type(x.op) \/ (x.type = "jump8" /\ x.op \in {"jmp", "jcc", "loop"})
    BY <2>1, <2>2 DEF TranslationOf, InsnType
  <2> HIDE DEF x
  <2>4. x.op \in {"alu", "jcc", "loop"}
    BY <2>1, <2>3 DEF Final, Type, Op, Goes
  <2>5. HasTramp(x) => x.op # "alu"
    BY <2>3 DEF HasTramp, Type
  <2>6. x.eip + x.len \in behind
    BY <1>1, <1>5, <2>3, <2>4, <2>5 DEF x
  <2> QED
    BY <1>4, <1>5, <2>6 DEF x
<1> DEFINE T == {n \in i + 1 .. j : ins[n].eip \notin behind}
<1>6. i \in 1 .. Len(ins) /\ j \in 1 .. Len(ins) /\ i < j /\ HasTramp(ins[i])
  BY <1>3 DEF ins
<1>7. T = {}
  <2> SUFFICES ASSUME T # {} PROVE FALSE
    OBVIOUS
  <2>1. T \subseteq Nat
    BY <1>6
  <2> HIDE DEF T
  <2>2. PICK m \in T : \A n \in T : m <= n
    BY <2>1, LeastNat
  <2>3. m \in i + 1 .. j /\ ins[m].eip \notin behind
    BY <2>2 DEF T
  <2> DEFINE n == m - 1
  <2>4. n \in DOMAIN ins /\ n + 1 = m /\ m \in DOMAIN ins /\ n < m /\ n \in Nat
    BY <1>3, <1>6, <2>3
  <2>5. n = i \/ n \in i + 1 .. j
    BY <1>6, <2>3
  <2> HIDE DEF n
  <2>6. n # i => ins[n].eip \in behind
    <3>1. n \notin T
      BY <1>6, <2>2, <2>3, <2>4
    <3> QED
      BY <2>5, <3>1 DEF T
  <2>7. ins[n + 1].eip \in behind
    BY <1>5, <1>6, <2>4, <2>6
  <2> QED
    BY <2>3, <2>4, <2>7
<1>8. ins[j].eip \in behind
  BY <1>6, <1>7
<1>9. ins[j].type = "call" => Prog[ins[j].eip].op = "call"
  <2>1. ins[j] \in InsnType /\ TranslationOf(ins[j])
    BY <1>3, <1>6
  <2> QED
    BY <2>1 DEF TranslationOf, Type, InsnType
<1> QED
  BY <1>1, <1>8, <1>9 DEF ins

(* The word the handler reads for a call is its target, when the call's     *)
(* trampoline is the first of the fragment.                                 *)
LEMMA WordIsTarget ==
  ASSUME IInv, CallsFirst, InFragment, Insn.type = "call"
  PROVE  WordAt(frag[pc.f], Insn.ofs + 26) = Insn.to
<1> DEFINE ins == frag[pc.f]
<1> DEFINE Found(i) == HasTramp(ins[i]) /\ TrampOfs(ins, i) + 16 = Insn.ofs + 26
<1> DEFINE c == CHOOSE i \in DOMAIN ins : Found(i)
<1>1. /\ pc.i = Len(ins) /\ \E i \in DOMAIN ins : Found(i)
  BY WordIsThere
<1>2. c \in DOMAIN ins /\ HasTramp(ins[c])
  BY <1>1
<1>3. /\ ins \in Seq(InsnType) /\ pc.i \in 1 .. Len(ins) /\ Insn = ins[pc.i] /\ pc.f \in live
  BY Here DEF Insn
<1>4. WordAt(ins, Insn.ofs + 26) = ins[c].to
  BY DEF WordAt
<1> HIDE DEF c
<1>5. c \in 1 .. Len(ins) /\ pc.i \in DOMAIN ins /\ Len(ins) \in Nat
  BY <1>2, <1>3
<1>6. ~(c < pc.i)
  BY <1>2, <1>3, <1>5, CallIsFirst
<1>7. c = pc.i
  BY <1>1, <1>3, <1>5, <1>6
<1> QED
  BY <1>3, <1>4, <1>7

(* What the handler makes of a tick between two host instructions is the    *)
(* guest's processor before the instruction or, where that is no trap,      *)
(* after it; and before it where the host instruction may fault.            *)
Before(c) == State(c[1], c[2]) = arch
AfterIt(c) == State(c[1], c[2]) = Exec(arch) /\ Prog[arch.eip].op \notin {"syscall", "int3"}

(* What an instruction is, from how it is treated.                          *)
LEMMA OpIs ==
  ASSUME IInv, InFragment
  PROVE  /\ Insn.type \in {"call", "callind", "ret"} =>
               Prog[arch.eip].op \notin {"syscall", "int3"}
         /\ Insn.type = "jump" /\ Final(Insn) => Insn.op = "jmp"
         /\ Insn.type = "loop" => ~Final(Insn)
<1>1. Insn \in InsnType /\ TranslationOf(Insn) /\ Insn.eip = arch.eip
  BY Here
<1>2. Insn.type \in {"call", "callind", "ret", "loop"} =>
         Insn.op = Prog[arch.eip].op /\ Insn.type = Type(Insn.op) /\ Insn.op \in Op
  BY <1>1 DEF TranslationOf, InsnType
<1>3. Insn.type = "jump" /\ Final(Insn) => Insn.op = "jmp"
  BY DEF Final
<1>4. Insn.type \in {"call", "callind", "ret"} => Insn.op \notin {"syscall", "int3"}
  BY <1>2 DEF Type
<1>5. Insn.type = "loop" => ~Final(Insn)
  BY <1>2 DEF Type, Final
<1> QED
  BY <1>2, <1>3, <1>4, <1>5

(* In the translation of an instruction.                                    *)
LEMMA SavedInside ==
  ASSUME IInv, Where = "call" => CallsFirst, pc.at = "code"
  PROVE  /\ Before(Saved) \/ AfterIt(Saved)
         /\ HostOp \in {"alu", "push", "loadbx", "popbx"} => Before(Saved)
<1> DEFINE x == Insn
<1> DEFINE k == pc.k
<1> DEFINE butBx == [hw EXCEPT !.bx = cpu.bx]
<1>1. /\ InFragment /\ x \in InsnType /\ k \in DOMAIN Host(x) /\ InCodeInv(x, k)
      /\ hw \in RegType /\ cpu \in RegType /\ k \in 1 .. 4 /\ x.len \in 0 .. 15
  BY HereOp, HostIs DEF InsnType
<1>2. /\ Saved = SavedAt(x) /\ Since = Host(x)[k][1] /\ Since \in Nat
      /\ (k = 1) <=> (Since = 0)
  <2>1. Since = Host(Insn)[pc.k][1] /\ Blamed = Insn
    BY BlamedInside
  <2>2. Host(Insn)[pc.k][1] \in Nat /\ ((pc.k = 1) <=> (Host(Insn)[pc.k][1] = 0))
    BY HostInside
  <2> QED
    BY <2>1, <2>2 DEF Saved
<1>3. x.dst = DstLen(x.type, x.op, x.len)
  BY <1>1, Here DEF TranslationOf
<1>4. HostOp = Host(x)[k][2]
  BY DEF HostOp
<1>5. x.type \in {"call", "callind", "ret"} => Prog[arch.eip].op \notin {"syscall", "int3"}
  BY <1>1, OpIs
<1>6. x.type = "call" /\ k # 1 => WordAt(frag[pc.f], x.ofs + 26) = x.to
  <2>1. x.type = "call" /\ k # 1 => CallsFirst
    BY DEF Where
  <2> QED
    BY <1>1, <2>1, WordIsTarget
<1> HIDE DEF x, k
<1>7. CASE k = 1
  <2>1. Saved = <<x.eip, hw>>
    BY <1>2, <1>7 DEF SavedAt
  <2> QED
    BY <1>1, <1>7, <2>1 DEF InCodeInv, Before
<1>8. CASE k # 1
  <2>1. CASE x.type \in {"alu", "jump", "jump8", "endfrag"}
    BY <1>1, <1>8, <2>1 DEF Host
  <2>2. CASE x.type = "call"
    <3>1. k = 2 /\ HostOp = "jump"
      BY <1>1, <1>4, <1>8, <2>2 DEF Host
    <3>2. Saved = <<x.to, hw>>
      BY <1>2, <1>6, <1>8, <2>2 DEF SavedAt
    <3> QED
      BY <1>1, <1>5, <2>2, <3>1, <3>2 DEF InCodeInv, AfterIt
  <2>3. CASE x.type = "loop"
    <3>1. HostOp \in {"jecxz", "jump"}
      BY <1>1, <1>4, <1>8, <2>3 DEF Host
    <3>2. (hw.cx + 1) % 2 = 1 - hw.cx
      BY <1>1, RegIs
    <3>3. Saved = <<x.eip, [hw EXCEPT !.cx = 1 - @]>>
      BY <1>2, <1>8, <2>3, <3>2 DEF SavedAt
    <3> QED
      BY <1>1, <1>8, <2>3, <3>1, <3>3 DEF InCodeInv, Before
  <2>4. k = 2 /\ x.type \in {"jumpind", "callind", "ret"} => butBx = hw
    <3>1. ASSUME k = 2, x.type \in {"jumpind", "callind", "ret"} PROVE cpu.bx = hw.bx
      BY <1>1, <3>1 DEF InCodeInv
    <3>2. cpu.bx = hw.bx => butBx = hw
      BY <1>1, BxIs, RegIs, RegEq
    <3> QED
      BY <3>1, <3>2
  <2>5. CASE x.type = "jumpind"
    <3>1. k \in {2, 3} /\ Saved = <<x.eip, butBx>>
      BY <1>1, <1>2, <1>8, <2>5 DEF SavedAt, Host
    <3> QED
      BY <1>1, <2>4, <2>5, <3>1 DEF InCodeInv, Before
  <2>6. CASE x.type = "callind"
    <3>1. /\ k \in {2, 3, 4} /\ (k = 2 => Since = 7) /\ (k = 3 => Since = 7 + x.len)
          /\ k = 4 => Since = 12 + x.len /\ HostOp = "lookup"
      BY <1>1, <1>2, <1>4, <1>8, <2>6 DEF Host
    <3>2. x.dst - 5 = 12 + x.len
      BY <1>1, <1>3, <2>6 DEF DstLen
    <3>3. CallCommitted(x) <=> k = 4
      BY <1>1, <3>1, <3>2 DEF CallCommitted
    <3>4. Saved = <<IF k = 4 THEN hw.bx ELSE x.eip, butBx>>
      BY <1>2, <1>8, <2>6, <3>3 DEF SavedAt
    <3>5. CASE k = 4
      BY <1>1, <1>5, <2>6, <3>1, <3>4, <3>5 DEF InCodeInv, AfterIt
    <3>6. CASE k \in {2, 3}
      BY <1>1, <2>4, <2>6, <3>4, <3>6 DEF InCodeInv, Before
    <3> QED
      BY <3>1, <3>5, <3>6
  <2>7. CASE x.type = "ret"
    <3>1. k \in {2, 3} /\ (k = 2 => Since = 7) /\ (k = 3 => Since = 8 /\ HostOp = "lookup")
      BY <1>1, <1>2, <1>4, <1>8, <2>7 DEF Host
    <3>2. Saved = <<IF k = 3 THEN hw.bx ELSE x.eip, butBx>>
      BY <1>2, <1>8, <2>7, <3>1 DEF SavedAt
    <3>3. CASE k = 3
      BY <1>1, <1>5, <2>7, <3>1, <3>2, <3>3 DEF InCodeInv, AfterIt
    <3>4. CASE k = 2
      BY <1>1, <2>4, <2>7, <3>2, <3>4 DEF InCodeInv, Before
    <3> QED
      BY <3>1, <3>3, <3>4
  <2>8. CASE x.type = "trap"
    <3>1. Saved = <<x.eip, [hw EXCEPT !.ax = cpu.ax]>>
      BY <1>2, <1>8, <2>8 DEF SavedAt
    <3> QED
      BY <1>1, <1>8, <2>8, <3>1 DEF InCodeInv, Before
  <2> QED
    BY <1>1, <2>1, <2>2, <2>3, <2>5, <2>6, <2>7, <2>8 DEF InsnType
<1> QED
  BY <1>7, <1>8

(* In all of a fragment but the trampolines that are not the last's.        *)
LEMMA SavedPrecise ==
  ASSUME IInv, Where = "call" => CallsFirst,
         pc.at \in {"prolog", "code"} \/ (pc.at = "tramp" /\ pc.i = Len(frag[pc.f]))
  PROVE  (Before(Saved) \/ AfterIt(Saved)) /\ ~AssertFails
<1>1. CASE pc.at = "code"
  BY <1>1, SavedInside DEF AssertFails
<1>2. CASE pc.at = "prolog"
  <2>1. frag[pc.f][1].eip = pc.f
    BY <1>2, Begins DEF IInv, HereInv
  <2> QED
    BY <1>2, <2>1 DEF Saved, Before, IInv, RegsInv, AssertFails
<1>3. CASE pc.at = "tramp"
  <2> DEFINE x == Insn
  <2>1. InFragment /\ HasTramp(x) /\ State(x.to, hw) = Done
    BY <1>3 DEF InFragment, IInv, HereInv, RegsInv
  <2>2. Blamed = x /\ Since \in Nat /\ Since # 0
    <3>1. Blamed = Insn /\ Since \in Nat /\ Since >= Insn.dst /\ Insn.dst >= 5
      BY <1>3, BlamedBeyond
    <3>2. Insn.dst \in Nat
      BY <2>1, Here DEF InsnType
    <3> QED
      BY <3>1, <3>2
  <2>3. ~AssertFails
    BY <2>1, <2>2 DEF AssertFails, HasTramp
  <2>4. Final(x)
    <3>1. ~(pc.i + 1 \in 1 .. Len(frag[pc.f])) /\ pc.i \in Nat
      BY <1>3, <2>1, Here
    <3> QED
      BY <2>1, <3>1, Here
  <2>5. x.type \in {"jump", "call", "endfrag"} /\ (x.type = "jump" => x.op = "jmp")
    BY <2>1, <2>4, OpIs DEF HasTramp
  <2>6. x.eip = arch.eip /\ arch \in ArchType /\ Saved = SavedAt(x)
    BY <1>3, <2>1, <2>2, Here, ExecIs DEF Saved
  <2>7. CASE x.type = "call"
    <3>0. CallsFirst
      BY <1>3, <2>7 DEF Where
    <3>1. Saved = <<x.to, hw>>
      BY <2>1, <2>2, <2>6, <2>7, <3>0, WordIsTarget DEF SavedAt
    <3>2. Done = Exec(arch)
      BY <2>7 DEF Done
    <3> QED
      BY <2>1, <2>3, <2>7, <3>1, <3>2, OpIs DEF AfterIt
  <2>8. CASE x.type = "endfrag"
    <3>1. Saved = <<x.eip, hw>> /\ x.to = x.eip
      BY <2>1, <2>2, <2>6, <2>8, ExecIs DEF SavedAt
    <3> QED
      BY <2>1, <2>3, <2>8, <3>1 DEF Done, Before
  <2>9. CASE x.type = "jump"
    <3>1. Saved = <<x.eip, hw>>
      BY <2>2, <2>6, <2>9 DEF SavedAt
    <3>2. Done = Guest(x.to, arch.reg, arch.mem)
      BY <2>1, <2>5, <2>9, ExecIs DEF Done
    <3>3. hw = arch.reg /\ mem = arch.mem
      BY <2>1, <3>2 DEF State, Guest
    <3>4. State(x.eip, hw) = arch
      BY <2>6, <3>3, GuestIs DEF State
    <3> QED
      BY <2>3, <3>1, <3>4 DEF Before
  <2> QED
    BY <2>5, <2>7, <2>8, <2>9
<1> QED
  BY <1>1, <1>2, <1>3

(* When vxproc_run returns.                                                 *)
LEMMA OutPrecise ==
  ASSUME NEW t, NEW c, Out(t, c),
         \/ t \in {"tick", "fault"} /\ Before(c)
         \/ t = "tick" /\ AfterIt(c)
  PROVE  PreciseTrap'
<1>1. trap' = t /\ UNCHANGED <<mem, arch>> /\ eip' = c[1] /\ cpu' = c[2]
  BY DEF Out
<1>2. State(eip, cpu)' = State(c[1], c[2]) /\ Exec(arch)' = Exec(arch)
  BY <1>1 DEF State, Exec
<1>3. CASE t \in {"tick", "fault"} /\ Before(c)
  BY <1>1, <1>2, <1>3 DEF PreciseTrap, Before
<1>4. CASE t = "tick" /\ AfterIt(c)
  BY <1>1, <1>2, <1>4 DEF PreciseTrap, AfterIt
<1> QED
  BY <1>3, <1>4

(* In C code, emu->cpu is put back to before a trap that is dropped.        *)
LEMMA PutBackPrecise ==
  ASSUME Where # "int3", IInv, ~stepping,
         pc.at \in {"find", "enter", "scan", "scanning", "simplify", "place", "emit", "back"}
  PROVE  Before(PutBack)
<1>1. PutBack[2] = cpu /\ (trap = "none" => PutBack[1] = eip)
      /\ (trap = "syscall" => PutBack[1] = arch.eip)
  BY PutBackIs
<1>2. arch \in ArchType /\ arch.eip \in Eip
  BY GuestIs DEF IInv, TypeOK
<1>3. CASE pc.at # "back"
  <2>1. trap = "none" /\ State(eip, cpu) = arch
    BY <1>3 DEF IInv, HereInv, RegsInv
  <2> QED
    BY <1>1, <2>1 DEF Before
<1>4. CASE pc.at = "back"
  <2>1. Due = State(eip, cpu)
    BY <1>4 DEF IInv, RegsInv
  <2>2. CASE trap = "none"
    BY <1>1, <2>1, <2>2 DEF Before, Due
  <2>3. CASE trap # "none"
    <3>1. trap = Prog[arch.eip].op /\ trap \in {"syscall", "int3"}
      BY <1>4, <2>3 DEF IInv, RegsInv
    <3>2. trap = "syscall"
      BY <1>4, <3>1 DEF Where
    <3>3. Exec(arch) = Guest(arch.eip + Prog[arch.eip].len, arch.reg, arch.mem)
      BY <3>1, <3>2 DEF Exec
    <3>4. cpu = arch.reg /\ mem = arch.mem
      BY <2>1, <2>3, <3>3 DEF Due, State, Guest
    <3> QED
      BY <1>1, <1>2, <3>2, <3>4, GuestIs DEF Before, State
  <2> QED
    BY <2>2, <2>3
<1> QED
  BY <1>3, <1>4

(* So a tick is precise,                                                    *)
LEMMA TickPrecise ==
  ASSUME SafeWindow, "call" \in Window => CallsFirst, IInv, StepInv, Tick
  PROVE  PreciseTrap'
<1>1. /\ Where \in {"code", "call", "hit", "c", "translator"} /\ ~stepping
      /\ Where = "call" => CallsFirst
  BY DEF Tick, SafeWindow
<1>2. pc.at \in Places
  BY DEF IInv, TypeOK
<1>3. ininst => ~InRuntime /\ ~InTranslation
  BY DEF StepInv, InRuntime, InTranslation
<1>4. CASE InRuntime
  <2>1. pc' = pc /\ pc.at # "out"
    BY <1>3, <1>4 DEF Tick, InRuntime
  <2> QED
    BY <2>1 DEF PreciseTrap
<1>5. CASE InTranslation
  <2>1. pc.at \in {"prolog", "code"} \/ (pc.at = "tramp" /\ pc.i = Len(frag[pc.f]))
    BY <1>1, <1>5 DEF Where, InTranslation
  <2>2. (Before(Saved) \/ AfterIt(Saved)) /\ ~AssertFails
    BY <1>1, <2>1, SavedPrecise
  <2>3. ~InRuntime
    BY <1>5 DEF InRuntime, InTranslation
  <2>4. Out("tick", Saved)
    BY <1>3, <1>5, <2>2, <2>3 DEF Tick
  <2> HIDE DEF Saved
  <2> QED
    BY <2>2, <2>4, OutPrecise
<1>6. CASE ~InRuntime /\ ~InTranslation
  <2>1. Out("tick", PutBack)
    BY <1>6 DEF Tick
  <2>2. pc.at \in {"find", "enter", "scan", "scanning", "simplify", "place", "emit", "back"}
    BY <1>1, <1>2, <1>6 DEF Where, Places, InRuntime, InTranslation
  <2>3. Before(PutBack)
    BY <1>1, <2>2, PutBackPrecise
  <2> QED
    BY <2>1, <2>3, OutPrecise
<1> QED
  BY <1>4, <1>5, <1>6

(* the return of a trap is, with the guest's processor after it,            *)
LEMMA FindPrecise == IInv /\ Find => PreciseTrap'
<1> SUFFICES ASSUME IInv, Find PROVE PreciseTrap'
  OBVIOUS
<1>1. UNCHANGED <<mem, eip, cpu, trap, arch>>
  BY DEF Find, emu
<1>2. CASE pc.at = "back" /\ trap # "none"
  <2>1. trap = Prog[arch.eip].op /\ trap \in {"syscall", "int3"} /\ ~stepping
    BY <1>2 DEF IInv, HereInv, RegsInv
  <2>2. State(eip, cpu) = Exec(arch)
    BY <1>2, <2>1 DEF IInv, RegsInv, Due
  <2>3. State(eip, cpu)' = Exec(arch)' /\ trap' = Prog[arch'.eip].op
    BY <1>1, <2>1, <2>2 DEF State, Exec
  <2> QED
    BY <1>1, <2>1, <2>3 DEF PreciseTrap
<1>3. CASE ~(pc.at = "back" /\ trap # "none")
  <2>1. pc'.at # "out"
    BY <1>3 DEF Find, At
  <2> QED
    BY <2>1 DEF PreciseTrap
<1> QED
  BY <1>2, <1>3

(* the end of single-stepping is, in the prolog of a fragment,              *)
LEMMA SteppedPrecise == IInv /\ StepInv /\ Stepped => PreciseTrap'
<1> SUFFICES ASSUME IInv, StepInv, Stepped PROVE PreciseTrap'
  OBVIOUS
<1>1. pc.at = "prolog" /\ Out("tick", Saved)
  BY DEF Stepped, StepInv, InTranslation
<1>2. Where # "call"
  BY <1>1 DEF Where
<1>3. Before(Saved) \/ AfterIt(Saved)
  BY <1>1, <1>2, SavedPrecise
<1> HIDE DEF Saved
<1> QED
  BY <1>1, <1>3, OutPrecise

(* and a page fault is, with the guest's processor before it.               *)
LEMMA FaultPrecise == IInv /\ StepInv /\ Fault => PreciseTrap'
<1> SUFFICES ASSUME IInv, StepInv, Fault PROVE PreciseTrap'
  OBVIOUS
<1>1. CASE pc.at = "code"
  <2>1. ~ininst
    BY <1>1 DEF StepInv
  <2>2. HostOp \in {"alu", "push", "loadbx", "popbx"} /\ Out("fault", Saved)
    BY <1>1, <2>1 DEF Fault
  <2>3. Where # "call"
    <3>1. Insn.type = "call" /\ pc.k # 1 => HostOp = "jump"
      BY <1>1, HereOp DEF Host, HostOp, InFragment
    <3> QED
      BY <1>1, <2>2, <3>1 DEF Where
  <2>4. Before(Saved)
    BY <1>1, <2>2, <2>3, SavedInside
  <2> QED
    BY <2>2, <2>4, OutPrecise
<1>2. CASE pc.at \in {"scan", "scanning"}
  <2> DEFINE c == <<eip, cpu>>
  <2>1. Out("fault", c) /\ State(eip, cpu) = arch
    BY <1>2 DEF Fault, IInv, RegsInv
  <2>2. Before(c)
    BY <2>1 DEF Before
  <2> HIDE DEF c
  <2> QED
    BY <2>1, <2>2, OutPrecise
<1> QED
  BY <1>1, <1>2 DEF Fault

(* No other step of the host is a return.                                   *)
LEMMA StaysIn ==
  ASSUME IInv, HostStep, ~Find, ~Stepped
  PROVE  pc'.at # "out"
<1>1. CASE Prolog
  BY <1>1 DEF Prolog, InsnOf
<1>2. CASE Copied \/ ShortJump \/ LongJump \/ LoopCount \/ Push \/ Indirect \/ TrapInsn
  <2>1. pc.at = "code" /\ pc \in PcType
    BY <1>2, PcIs DEF IInv, Copied, ShortJump, LongJump, LoopCount, Push, Indirect, TrapInsn, InCode
  <2>2. \A e, i : InsnOf(e, i).at = "code"
    BY DEF InsnOf
  <2>3. \A a \in Places : \A k : [pc EXCEPT !.at = a].at = a /\ [pc EXCEPT !.at = a, !.k = k].at = a
    BY <2>1 DEF PcType
  <2>4. More => pc'.at = "code"
    BY <2>1 DEF More, PcType
  <2>5. Fall => pc'.at = "code"
    BY <2>2 DEF Fall
  <2>6. CASE Copied
    BY <2>5, <2>6 DEF Copied
  <2>7. CASE ShortJump
    BY <2>2, <2>5, <2>7 DEF ShortJump
  <2>8. CASE LongJump
    <3>1. CASE Fall
      BY <2>5, <3>1
    <3>2. CASE pc' = PatchedEntry(Insn.to)
      BY <2>2, <3>2 DEF PatchedEntry
    <3>3. CASE pc' = [pc EXCEPT !.at = "tramp", !.k = 1]
      BY <2>3, <3>3 DEF Places
    <3> QED
      BY <2>8, <3>1, <3>2, <3>3 DEF LongJump
  <2>9. CASE LoopCount
    BY <2>4, <2>5, <2>9 DEF LoopCount
  <2>10. CASE Push
    BY <2>4, <2>10 DEF Push
  <2>11. CASE Indirect
    BY <2>3, <2>4, <2>11 DEF Indirect, Places
  <2>12. CASE TrapInsn
    BY <2>3, <2>4, <2>12 DEF TrapInsn, Places
  <2> QED
    BY <1>2, <2>6, <2>7, <2>8, <2>9, <2>10, <2>11, <2>12
<1>3. CASE Tramp
  BY <1>3 DEF Tramp, IInv, TypeOK
<1>4. CASE Lookup
  BY <1>4 DEF Lookup, PrologOf, At, IInv, TypeOK
<1>5. CASE Gentrap \/ Return
  BY <1>5 DEF Gentrap, Return, At, IInv, TypeOK
<1>6. CASE Enter
  BY <1>6 DEF Enter, At, PrologOf
<1>7. CASE Xlate
  BY <1>7 DEF Xlate, Begin, ScanInsn, Simplify, PlaceInsn, Emit, At, IInv, TypeOK
<1> QED
  BY <1>1, <1>2, <1>3, <1>4, <1>5, <1>6, <1>7 DEF HostStep

(* PreciseTrap is inductive relative to IInv and StepInv.                   *)
LEMMA StepPrecise ==
  ASSUME SafeWindow, "call" \in Window => CallsFirst, IInv, StepInv, PreciseTrap, [Next]_vars
  PROVE  PreciseTrap' /\ StepInv'
<1>1. CASE HostStep /\ ~Find /\ ~Stepped
  BY <1>1, StaysIn, StepStepInv DEF PreciseTrap, Next
<1>2. CASE Find \/ Stepped \/ Tick \/ Fault
  BY <1>2, FindPrecise, SteppedPrecise, TickPrecise, FaultPrecise, StepStepInv DEF Next, HostStep
<1>3. CASE Run
  <2>1. pc'.at # "out"
    BY <1>3 DEF Run, At
  <2> QED
    BY <1>3, <2>1, StepStepInv DEF PreciseTrap, Next
<1>4. CASE UNCHANGED vars
  BY <1>4 DEF vars, emu, code, live, PreciseTrap, StepInv, Target, State, Exec
<1> QED
  BY <1>1, <1>2, <1>3, <1>4 DEF Next

(* vxproc_run returns with the state of the guest's processor before or     *)
(* after an instruction, with the trap that belongs to it, for every program*)
(* and every tick outside the windows in which the handlers are known to go *)
(* wrong.  Ticks in the middle of a call are among these when a conditional *)
(* jump may be in its fragment.                                             *)
THEOREM VxRunPreciseTrap ==
  ASSUME SafeWindow, "call" \in Window => CallsFirst
  PROVE  Spec => []PreciseTrap
<1>1. "tramp" \notin Window
  BY DEF SafeWindow
<1>2. Init => IInv /\ StepInv /\ PreciseTrap
  BY InitIInv DEF Init, At, StepInv, PreciseTrap
<1>3. IInv /\ StepInv /\ PreciseTrap /\ [Next]_vars => (IInv /\ StepInv /\ PreciseTrap)'
  BY <1>1, StepIInv, StepPrecise
<1> QED
  BY <1>2, <1>3, PTL DEF Spec
==============================================================================
