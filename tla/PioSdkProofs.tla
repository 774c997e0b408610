---------------------------- MODULE PioSdkProofs ----------------------------
(* Proofs about PioSdk, for every memory size, number of state machines and  *)
(* set of programs, and, in the second part, about PioEncoding, for every    *)
(* set of operands.                                                          *)
EXTENDS PioSdk, PioEncoding, FiniteSetTheorems, TLAPS

(* What callers take care of in what follows. *)
Careful == {"short", "checked"} \subseteq Rules

----------------------------------------------------------------------------
(***************************************************************************)
(* Instruction memory and claims, as the library keeps them.  That loaded  *)
(* programs are disjoint rests on their slots being marked, and that they  *)
(* stay marked when another is removed rests on their being disjoint.      *)
(***************************************************************************)
SlotsOf(h) == Slots(h.program, h.offset)

MemoryInv ==
    /\ held \subseteq [program : Programs, offset : Slot]
    /\ \A h \in held : SlotsOf(h) \subseteq used
    /\ \A h, g \in held : h # g => SlotsOf(h) \cap SlotsOf(g) = {}

ClaimInv ==
    /\ holders \in [Sms -> {0, 1}]
    /\ \A s \in Sms : holders[s] = 1 <=> s \in claimed

LEMMA ProgramsAreShort ==
    ASSUME Careful, NEW p \in Programs
    PROVE  Length(p) \in Nat \ {0} /\ Length(p) < N
  <1>1. Length(p) \in 1..N /\ ("short" \in Rules => Length(p) < N)
    BY SdkAssumption
  <1>2. "short" \in Rules
    BY DEF Careful
  <1>3. QED
    BY <1>1, <1>2, SdkAssumption

LEMMA MaskOfShort ==
    ASSUME Careful, NEW p \in Programs, NEW offset, NEW mask \in Masks(p, offset)
    PROVE  mask = Slots(p, offset) \cap Slot
  BY ProgramsAreShort DEF Masks

(* Fitting in front of the end means that the mask is all of the slots. *)
LEMMA SlotsInside ==
    ASSUME NEW p \in Programs, NEW offset \in Slot, offset + Length(p) <= N
    PROVE  Slots(p, offset) \subseteq Slot
  <1>1. Length(p) \in Nat /\ N \in Nat
    BY SdkAssumption
  <1>2. QED
    BY <1>1 DEF Slots, Slot

LEMMA LoadStep ==
    ASSUME MemoryInv, NEW p \in Programs, NEW offset \in Slot,
           Fits(p, offset, Slots(p, offset) \cap Slot), Load(p, offset, Slots(p, offset) \cap Slot)
    PROVE  MemoryInv'
  <1> DEFINE new == [program |-> p, offset |-> offset]
  <1>1. /\ SlotsOf(new) = Slots(p, offset)
        /\ Slots(p, offset) \cap Slot = Slots(p, offset)
    BY SlotsInside DEF SlotsOf, Fits
  <1>2. used' = used \cup SlotsOf(new) /\ held' = held \cup {new} /\ used \cap SlotsOf(new) = {}
    BY <1>1 DEF Load, Fits
  <1>3. new \in [program : Programs, offset : Slot]
    OBVIOUS
  <1> HIDE DEF new
  <1>4. \A h \in held : SlotsOf(h) \cap SlotsOf(new) = {}
    BY <1>2 DEF MemoryInv
  <1>5. \A h \in held' : SlotsOf(h) \subseteq used'
    BY <1>2 DEF MemoryInv
  <1>6. \A h, g \in held' : h # g => SlotsOf(h) \cap SlotsOf(g) = {}
    BY <1>2, <1>4 DEF MemoryInv
  <1>7. QED
    BY <1>2, <1>3, <1>5, <1>6 DEF MemoryInv

(* The pin helpers only ask, and leave their writes to the bus. *)
LEMMA HelperKeeps ==
    ASSUME NEW s, NEW sets, NEW dest, NEW pins, Helper(s, sets, dest, pins)
    PROVE  UNCHANGED <<used, claimed, held, holders>>
  BY DEF Helper, software

LEMMA PinCallsKeep ==
    ASSUME PinCalls
    PROVE  UNCHANGED <<used, claimed, held, holders>>
  <1>1. PICK s \in PinSms :
           \/ \E base, count, out : SetConsecutivePindirs(s, base, count, out)
           \/ \E values : SetPins(s, values)
           \/ \E dest, values, mask : SetWithMask(s, dest, values, mask)
    BY DEF PinCalls
  <1>2. ASSUME NEW base, NEW count, NEW out, SetConsecutivePindirs(s, base, count, out)
        PROVE  UNCHANGED <<used, claimed, held, holders>>
    BY <1>2, HelperKeeps DEF SetConsecutivePindirs
  <1>3. ASSUME NEW values, SetPins(s, values)
        PROVE  UNCHANGED <<used, claimed, held, holders>>
    BY <1>3, HelperKeeps DEF SetPins
  <1>4. ASSUME NEW dest, NEW values, NEW mask, SetWithMask(s, dest, values, mask)
        PROVE  UNCHANGED <<used, claimed, held, holders>>
    BY <1>4, HelperKeeps DEF SetWithMask
  <1>5. QED
    BY <1>1, <1>2, <1>3, <1>4

LEMMA MemoryStep ==
    ASSUME Careful, MemoryInv, [Next]_vars
    PROVE  MemoryInv'
  <1>1. CASE UNCHANGED <<used, held>>
    BY <1>1 DEF MemoryInv
  <1>2. CASE ClearMemory
    BY <1>2 DEF ClearMemory, MemoryInv
  <1>3. ASSUME NEW p \in Programs, AddProgram(p)
        PROVE  MemoryInv'
    <2>1. PICK full \in {0, 1} :
            LET choose == [o \in Slot |-> IF Length(p) < N THEN Slots(p, o) \cap Slot
                                          ELSE IF full = 1 THEN Slot ELSE {}]
            IN  \E o \in Places(p, choose) : Load(p, o, choose[o])
      BY <1>3 DEF AddProgram
    <2> DEFINE choose == [o \in Slot |-> IF Length(p) < N THEN Slots(p, o) \cap Slot
                                         ELSE IF full = 1 THEN Slot ELSE {}]
    <2>2. PICK o \in Places(p, choose) : Load(p, o, choose[o])
      BY <2>1
    <2>3. o \in Slot /\ Fits(p, o, choose[o])
      BY <2>2 DEF Places
    <2>4. choose[o] = Slots(p, o) \cap Slot
      BY <2>3, ProgramsAreShort
    <2> HIDE DEF choose
    <2>5. QED
      BY <2>2, <2>3, <2>4, LoadStep
  <1>4. ASSUME NEW p \in Programs, NEW o \in Slot, AddProgramAt(p, o)
        PROVE  MemoryInv'
    <2>1. PICK mask \in Masks(p, o) : Fits(p, o, mask) /\ Load(p, o, mask)
      BY <1>4 DEF AddProgramAt
    <2>2. QED
      BY <2>1, MaskOfShort, LoadStep
  <1>5. ASSUME NEW h \in held, RemoveProgram(h)
        PROVE  MemoryInv'
    <2>1. PICK mask \in Masks(h.program, h.offset) : used' = used \ mask
      BY <1>5 DEF RemoveProgram
    <2>2. h.program \in Programs
      BY DEF MemoryInv
    <2>3. mask \subseteq SlotsOf(h)
      BY <2>1, <2>2, MaskOfShort DEF SlotsOf
    <2>4. held' = held \ {h}
      BY <1>5 DEF RemoveProgram
    <2>5. QED
      BY <2>1, <2>3, <2>4 DEF MemoryInv
  <1>6. CASE Bus \/ Machines \/ PinCalls \/ (\E s \in Sms : Tick(s))
    <2>1. UNCHANGED <<used, held>>
      <3>1. CASE Bus
        BY <3>1 DEF Bus, software, history
      <3>2. CASE Machines
        BY <3>2 DEF Machines, ClaimUnused, Claim, Claims, Unclaim, Enable, Disable, SmInit,
                    software, history
      <3>3. CASE PinCalls
        BY <3>3, PinCallsKeep
      <3>4. CASE \E s \in Sms : Tick(s)
        BY <3>4 DEF Tick, software
      <3>5. QED
        BY <1>6, <3>1, <3>2, <3>3, <3>4
    <2>2. QED
      BY <2>1, <1>1
  <1>7. QED
    BY <1>1, <1>2, <1>3, <1>4, <1>5, <1>6 DEF Next, Memory, vars, software, history

LEMMA ClaimStep ==
    ASSUME Careful, ClaimInv, [Next]_vars
    PROVE  ClaimInv'
  <1>1. CASE UNCHANGED <<claimed, holders>>
    BY <1>1 DEF ClaimInv
  <1>2. ASSUME NEW s \in Sms, s \notin claimed, Claims(s)
        PROVE  ClaimInv'
    <2>1. claimed' = claimed \cup {s} /\ holders' = [holders EXCEPT ![s] = holders[s] + 1]
      BY <1>2 DEF Claims
    <2>2. holders[s] = 0
      BY <1>2 DEF ClaimInv
    <2>3. QED
      BY <2>1, <2>2, <1>2 DEF ClaimInv
  <1>3. CASE ClaimUnused
    BY <1>2, <1>3 DEF ClaimUnused
  <1>4. ASSUME NEW s \in Sms, Claim(s)
        PROVE  ClaimInv'
    BY <1>2, <1>4 DEF Claim, Careful
  <1>5. ASSUME NEW s \in Sms, Unclaim(s)
        PROVE  ClaimInv'
    <2>1. /\ claimed' = claimed \ {s} /\ holders' = [holders EXCEPT ![s] = holders[s] - 1]
          /\ holders[s] > 0
      BY <1>5 DEF Unclaim
    <2>2. holders[s] = 1
      BY <2>1 DEF ClaimInv
    <2>3. QED
      BY <2>1, <2>2 DEF ClaimInv
  <1>6. CASE Bus \/ Memory \/ PinCalls \/ (\E s \in Sms : Tick(s))
    <2>1. CASE Bus
      BY <2>1, <1>1 DEF Bus, software, history
    <2>2. CASE Memory
      BY <2>2, <1>1 DEF Memory, ClearMemory, AddProgram, AddProgramAt, Load, RemoveProgram
    <2>3. CASE PinCalls
      BY <2>3, <1>1, PinCallsKeep
    <2>4. CASE \E s \in Sms : Tick(s)
      BY <2>4, <1>1 DEF Tick, software
    <2>5. QED
      BY <1>6, <2>1, <2>2, <2>3, <2>4
  <1>7. ASSUME \/ \E set \in SUBSET Sms : Enable(set)
               \/ \E s \in Sms : Disable(s)
               \/ \E s \in Sms, h \in held : SmInit(s, h)
        PROVE  ClaimInv'
    BY <1>7, <1>1 DEF Disable, Enable, SmInit, software, history
  <1>8. CASE UNCHANGED vars
    BY <1>8, <1>1 DEF vars, software, history
  <1>9. QED
    BY <1>3, <1>4, <1>5, <1>6, <1>7, <1>8 DEF Next, Machines

(* Loaded programs never share an instruction slot, their slots stay       *)
(* marked, and a state machine has one claimant, whatever is loaded,       *)
(* removed, claimed and given back in whatever order (pio_add_program,     *)
(* pio_remove_program, pio_sm_claim): for callers whose programs are       *)
(* shorter than the memory and who look before they claim.                 *)
THEOREM NothingIsShared ==
    ASSUME Careful
    PROVE  Spec => []NothingShared
  <1>1. Init => MemoryInv /\ ClaimInv
    BY SdkAssumption DEF Init, MemoryInv, ClaimInv
  <1>2. MemoryInv /\ ClaimInv /\ [Next]_vars => (MemoryInv /\ ClaimInv)'
    BY MemoryStep, ClaimStep
  <1>3. MemoryInv /\ ClaimInv => NothingShared
    BY DEF MemoryInv, ClaimInv, NothingShared, SlotsOf
  <1>4. QED
    BY <1>1, <1>2, <1>3, PTL DEF Spec

----------------------------------------------------------------------------
(***************************************************************************)
(* Types, the contents of instruction memory, and the machines between     *)
(* their initialisation and their first instruction.                       *)
(***************************************************************************)
Regs == [bottom : Slot, top : Slot, base : Pin, count : 0..NPins]
Core == [pc : Slot, forced : Instruction \cup {None}, dirs : SUBSET Pin, outs : SUBSET Pin]
Asks == [dirs : SUBSET Pin, outs : SUBSET Pin]
Write == [reg : {"imem"}, at : Slot, value : Instruction]
           \cup [reg : {"ctrl"}, value : SUBSET Sms, restart : SUBSET Sms]
           \cup [reg : {"regs"}, at : Sms, value : Regs]
           \cup [reg : {"instr"}, at : Sms, value : Instruction]
TypeInv ==
    /\ imem \in [Slot -> Instruction]
    /\ enabled \in SUBSET Sms
    /\ regs \in [Sms -> Regs]
    /\ core \in [Sms -> Core]
    /\ job \in [Sms -> [slots : SUBSET Slot, entry : 0..N, first : 0..N]]
    /\ wanted \in [Sms -> Asks]
    /\ script \in Seq(Write)

(* A loaded program lies inside the memory and jumps inside itself. *)
Placed(h) == /\ h.offset + Length(h.program) <= N
             /\ \A j \in DOMAIN h.program.code :
                   h.program.code[j].op = "jmp" => h.program.code[j].to \in SlotsOf(h)
PlacedInv == \A h \in held : Placed(h)

(* Its instructions are in its slots or on their way there, and what is on *)
(* its way to one of its slots is its instruction.                         *)
Code(h, j) == WImem(h.offset + j - 1, h.program.code[j])
Copied(h, j) == imem[h.offset + j - 1] = h.program.code[j]
ImageInv ==
    /\ \A h \in held : \A j \in DOMAIN h.program.code :
          Copied(h, j) \/ \E i \in DOMAIN script : script[i] = Code(h, j)
    /\ \A i \in DOMAIN script : script[i].reg = "imem" =>
          \A h \in held : \A j \in DOMAIN h.program.code :
             script[i].at = h.offset + j - 1 => script[i].value = h.program.code[j]

(* A machine that has a job has that of a program that is loaded and       *)
(* copied, and only such a machine is enabled or about to be.              *)
HasJob(s) == job[s] # NoJob
JobOf(s, h) == /\ job[s].slots = SlotsOf(h)
               /\ job[s].entry = h.offset + h.program.entry
               /\ \A j \in DOMAIN h.program.code : Copied(h, j)
JobInv == \A s \in Sms : HasJob(s) => \E h \in held : JobOf(s, h)
EnableInv ==
    /\ \A s \in enabled : HasJob(s)
    /\ \A i \in DOMAIN script : script[i].reg = "ctrl" => \A s \in script[i].value : HasJob(s)

(* SETs are forced on enabled machines, by calls that leave CTRL alone. *)
SetInv ==
    \A i \in DOMAIN script : script[i].reg = "instr" /\ script[i].value.op = "set" =>
        /\ script[i].at \in enabled
        /\ \A j \in DOMAIN script : script[j].reg # "ctrl"

(* The writes of pio_sm_init still to come. *)
Wrapped(s, r) == /\ r.bottom \in job[s].slots /\ r.top \in job[s].slots
                 /\ \A a \in job[s].slots : a <= r.top
Jump(s) == WInstr(s, Jmp(job[s].entry))
Starting(s) ==
    /\ s \notin enabled /\ job[s].first = N
    /\ \/ \E r \in Regs : Wrapped(s, r) /\ script = <<WRegs(s, r), WRestart(enabled, s), Jump(s)>>
       \/ Wrapped(s, regs[s]) /\ script = <<WRestart(enabled, s), Jump(s)>>
       \/ Wrapped(s, regs[s]) /\ script = <<Jump(s)>>

(* After them, the jump is forced until it is taken, then the program      *)
(* counter is the entry until it is fetched from, then in the program.     *)
Going(s) ==
    \/ core[s].forced = Jmp(job[s].entry) /\ job[s].first = N
    \/ /\ core[s].forced.op \in {"none", "set"}
       /\ core[s].pc \in job[s].slots
       /\ job[s].first = N => core[s].pc = job[s].entry
       /\ job[s].first \in {N, job[s].entry}
Keeps(s, w) == /\ w.reg = "regs" /\ w.at = s => Wrapped(s, w.value)
               /\ w.reg = "instr" /\ w.at = s => w.value.op = "set"
               /\ w.reg = "ctrl" => s \notin w.restart
Started(s) == Wrapped(s, regs[s]) /\ Going(s) /\ \A i \in DOMAIN script : Keeps(s, script[i])
RunInv == \A s \in Sms : HasJob(s) => Starting(s) \/ Started(s)

LibraryInv == MemoryInv /\ PlacedInv /\ TypeInv
MachineInv == ImageInv /\ JobInv /\ EnableInv /\ SetInv /\ RunInv

----------------------------------------------------------------------------
(***************************************************************************)
(* Sequences of writes.                                                    *)
(***************************************************************************)
LEMMA ScriptTail ==
    ASSUME NEW S, NEW q \in Seq(S), q # <<>>
    PROVE  /\ 1 \in DOMAIN q /\ Head(q) = q[1] /\ q[1] \in S
           /\ Tail(q) \in Seq(S) /\ Len(Tail(q)) = Len(q) - 1
           /\ \A i \in DOMAIN Tail(q) : /\ i \in Nat \ {0} /\ i + 1 \in DOMAIN q
                                        /\ Tail(q)[i] = q[i + 1]
           /\ \A i \in DOMAIN q : i # 1 => i - 1 \in DOMAIN Tail(q) /\ Tail(q)[i - 1] = q[i]
  <1>1. Len(q) \in Nat \ {0} /\ DOMAIN q = 1..Len(q) /\ q \in [1..Len(q) -> S]
    OBVIOUS
  <1>2. Tail(q) \in Seq(S) /\ Len(Tail(q)) = Len(q) - 1
    OBVIOUS
  <1>3. DOMAIN Tail(q) = 1..(Len(q) - 1)
    BY <1>1, <1>2
  <1>4. \A i \in 1..(Len(q) - 1) : Tail(q)[i] = q[i + 1]
    BY <1>1
  <1>5. Head(q) = q[1]
    OBVIOUS
  <1>6. QED
    BY <1>1, <1>2, <1>3, <1>4, <1>5

LEMMA WriteKinds ==
    ASSUME NEW w \in Write
    PROVE  /\ w.reg \in {"imem", "ctrl", "regs", "instr"}
           /\ w.reg = "imem" => w.at \in Slot /\ w.value \in Instruction
           /\ w.reg = "ctrl" => w.value \in SUBSET Sms /\ w.restart \in SUBSET Sms
           /\ w.reg = "regs" => w.at \in Sms /\ w.value \in Regs
           /\ w.reg = "instr" => w.at \in Sms /\ w.value \in Instruction
  BY DEF Write

LEMMA InstructionKinds ==
    /\ \A i \in Instruction : /\ i.op \in {"other", "jmp", "set"}
                              /\ i # None
                              /\ i.op = "jmp" => i.to \in Slot /\ i = Jmp(i.to)
                              /\ i.op = "set" => /\ i.dest \in {"dirs", "outs"}
                                                 /\ i.data \in SUBSET (0..(Chunk - 1))
    /\ None.op = "none"
    /\ \A a : Jmp(a).op = "jmp" /\ Jmp(a).to = a
    /\ \A d, x : Set(d, x).op = "set" /\ Set(d, x).dest = d /\ Set(d, x).data = x
    /\ \A a \in Slot : Jmp(a) \in Instruction
    /\ \A d \in {"dirs", "outs"}, x \in SUBSET (0..(Chunk - 1)) : Set(d, x) \in Instruction
  <1>1. \A a : Jmp(a).op = "jmp" /\ Jmp(a).to = a
    BY DEF Jmp
  <1>2. \A d, x : Set(d, x).op = "set" /\ Set(d, x).dest = d /\ Set(d, x).data = x
    BY DEF Set
  <1>3. None.op = "none" /\ Other.op = "other"
    BY DEF None, Other
  <1>4. ASSUME NEW i \in Instruction
        PROVE  /\ i.op \in {"other", "jmp", "set"}
               /\ i # None
               /\ i.op = "jmp" => i.to \in Slot /\ i = Jmp(i.to)
               /\ i.op = "set" => i.dest \in {"dirs", "outs"} /\ i.data \in SUBSET (0..(Chunk - 1))
    BY <1>3 DEF Instruction, Jmp
  <1>5. QED
    BY <1>1, <1>2, <1>3, <1>4 DEF Instruction, Jmp, Set

(* One write, kind by kind. *)
LEMMA BusWrites ==
    ASSUME TypeInv, Bus
    PROVE  /\ script # <<>> /\ script[1] \in Write /\ script' = Tail(script)
           /\ "fast" \in Rules => Settled
           /\ UNCHANGED <<used, claimed, held, holders, job, wanted>>
           /\ script[1].reg = "imem" =>
                 imem' = [imem EXCEPT ![script[1].at] = script[1].value] /\ UNCHANGED <<enabled, regs, core>>
           /\ script[1].reg = "ctrl" =>
                 /\ enabled' = script[1].value /\ UNCHANGED <<imem, regs>>
                 /\ core' = [s \in Sms |-> IF s \in script[1].restart
                                           THEN [core[s] EXCEPT !.pc = regs[s].bottom] ELSE core[s]]
           /\ script[1].reg = "regs" =>
                 regs' = [regs EXCEPT ![script[1].at] = script[1].value] /\ UNCHANGED <<imem, enabled, core>>
           /\ script[1].reg = "instr" =>
                 /\ core' = [core EXCEPT ![script[1].at] = [core[script[1].at] EXCEPT !.forced = script[1].value]]
                 /\ UNCHANGED <<imem, enabled, regs>>
  <1> DEFINE w == script[1]
  <1>1. script # <<>> /\ w \in Write /\ script' = Tail(script) /\ Head(script) = w
    BY ScriptTail DEF Bus, TypeInv
  <1>2. Perform(w) /\ ("fast" \in Rules => Settled)
    BY <1>1 DEF Bus
  <1>3. UNCHANGED <<used, claimed, held, holders, job, wanted>>
    BY DEF Bus, software, history
  <1>4. core \in [Sms -> Core] /\ DOMAIN core = Sms
    BY DEF TypeInv
  <1> HIDE DEF w
  <1>5. CASE w.reg = "imem"
    <2>1. core' = [s \in Sms |-> core[s]]
      BY <1>2, <1>5 DEF Perform
    <2>2. QED
      BY <1>1, <1>2, <1>3, <1>4, <1>5, <2>1 DEF Perform, w
  <1>6. CASE w.reg = "ctrl"
    <2>1. core' = [s \in Sms |-> IF s \in w.restart
                                 THEN [core[s] EXCEPT !.pc = regs[s].bottom] ELSE core[s]]
      BY <1>2, <1>6 DEF Perform
    <2>2. QED
      BY <1>1, <1>2, <1>3, <1>6, <2>1 DEF Perform, w
  <1>7. CASE w.reg = "regs"
    <2>1. core' = [s \in Sms |-> core[s]]
      BY <1>2, <1>7 DEF Perform
    <2>2. QED
      BY <1>1, <1>2, <1>3, <1>4, <1>7, <2>1 DEF Perform, w
  <1>8. CASE w.reg = "instr"
    <2>1. core' = [s \in Sms |-> IF w.at = s THEN [core[s] EXCEPT !.forced = w.value] ELSE core[s]]
      BY <1>2, <1>8 DEF Perform
    <2>2. core' = [core EXCEPT ![w.at] = [core[w.at] EXCEPT !.forced = w.value]]
      BY <2>1, <1>4
    <2>3. QED
      BY <1>1, <1>2, <1>3, <1>8, <2>2 DEF Perform, w
  <1>9. QED
    BY <1>1, <1>5, <1>6, <1>7, <1>8, WriteKinds DEF w

----------------------------------------------------------------------------
(***************************************************************************)
(* Pieces of length c that cover n, and pin numbers modulo n.              *)
(***************************************************************************)
LEMMA Division ==
    ASSUME NEW a \in Nat, NEW c \in Nat \ {0}
    PROVE  /\ a \div c \in Nat /\ (a % c) \in 0..(c - 1)
           /\ a = c * (a \div c) + (a % c)
  OBVIOUS

LEMMA TimesMonotone ==
    ASSUME NEW c \in Nat, NEW x \in Nat, NEW y \in Nat, x <= y
    PROVE  c * x <= c * y /\ c * x \in Nat
  <1>1. PICK d \in Nat : y = x + d
    OBVIOUS
  <1>2. c * y = c * x + c * d /\ c * d \in Nat /\ c * x \in Nat
    BY <1>1
  <1>3. QED
    BY <1>2

LEMMA QuotientUnique ==
    ASSUME NEW c \in Nat \ {0}, NEW x \in Nat, NEW y \in Nat, NEW r \in 0..(c - 1), NEW t \in 0..(c - 1),
           c * x + r = c * y + t
    PROVE  x = y /\ r = t
  <1>1. ASSUME NEW u \in Nat, NEW v \in Nat, NEW e \in 0..(c - 1), NEW f \in 0..(c - 1),
               c * u + e = c * v + f, u < v
        PROVE  FALSE
    <2>1. c * (u + 1) <= c * v
      BY <1>1, TimesMonotone
    <2>2. c * (u + 1) = c * u + c /\ c * u \in Nat /\ c * v \in Nat
      OBVIOUS
    <2>3. QED
      BY <1>1, <2>1, <2>2
  <1>2. x = y
    BY <1>1
  <1>3. QED
    BY <1>2

LEMMA ModPlus ==
    ASSUME NEW n \in Nat \ {0}, NEW b \in Nat, NEW j \in Nat
    PROVE  ((b % n) + j) % n = (b + j) % n
  <1> DEFINE q == b \div n
             m == b % n
             x == (m + j) \div n
             r == (m + j) % n
             y == (b + j) \div n
             t == (b + j) % n
  <1>1. q \in Nat /\ m \in 0..(n - 1) /\ b = n * q + m
    BY Division
  <1>2. m + j \in Nat /\ b + j \in Nat
    BY <1>1
  <1>3. x \in Nat /\ r \in 0..(n - 1) /\ m + j = n * x + r
    BY <1>2, Division
  <1>4. y \in Nat /\ t \in 0..(n - 1) /\ b + j = n * y + t
    BY <1>2, Division
  <1> HIDE DEF q, m, x, r, y, t
  <1>5. n * (q + x) + r = n * y + t
    <2>1. n * (q + x) = n * q + n * x
      BY <1>1, <1>3
    <2>2. n * q \in Nat /\ n * x \in Nat /\ n * y \in Nat
      BY <1>1, <1>3, <1>4
    <2>3. QED
      BY <1>1, <1>3, <1>4, <2>1, <2>2
  <1>6. r = t
    <2> DEFINE z == q + x
    <2>1. z \in Nat /\ n * z + r = n * y + t
      BY <1>1, <1>3, <1>5
    <2> HIDE DEF z
    <2>2. QED
      BY <1>3, <1>4, <2>1, QuotientUnique
  <1>7. QED
    BY <1>6 DEF r, t, m

(* How many pieces there are, and that the k-th begins before the end. *)
LEMMA Pieces ==
    ASSUME NEW c \in Nat \ {0}, NEW n \in Nat, NEW k \in 1..((n + c - 1) \div c)
    PROVE  (k - 1) * c \in Nat /\ (k - 1) * c < n
  <1> DEFINE q == (n + c - 1) \div c
             r == (n + c - 1) % c
  <1>1. q \in Nat /\ r \in 0..(c - 1) /\ n + c - 1 = c * q + r
    BY Division
  <1>2. k \in Nat /\ k >= 1 /\ k <= q
    BY <1>1
  <1> HIDE DEF q, r
  <1>3. c * k <= c * q /\ c * k \in Nat /\ c * q \in Nat
    BY <1>1, <1>2, TimesMonotone
  <1>4. (k - 1) * c = c * k - c /\ (k - 1) * c \in Nat
    BY <1>2
  <1>5. QED
    BY <1>1, <1>3, <1>4

LEMMA PiecesCover ==
    ASSUME NEW c \in Nat \ {0}, NEW n \in Nat, NEW i \in 0..(n - 1)
    PROVE  \E k \in 1..((n + c - 1) \div c) : \E j \in 0..(c - 1) :
              i = (k - 1) * c + j
  <1> DEFINE q == (n + c - 1) \div c
             r == (n + c - 1) % c
             x == i \div c
             j == i % c
  <1>1. q \in Nat /\ r \in 0..(c - 1) /\ n + c - 1 = c * q + r
    <2>1. n + c - 1 \in Nat
      OBVIOUS
    <2>2. QED
      BY <2>1, Division
  <1>2. x \in Nat /\ j \in 0..(c - 1) /\ i = c * x + j
    <2>1. i \in Nat
      OBVIOUS
    <2>2. QED
      BY <2>1, Division
  <1> HIDE DEF r, x, j
  <1>3. x < q
    <2> SUFFICES ASSUME q <= x PROVE FALSE
      BY <1>1, <1>2
    <2> HIDE DEF q
    <2>1. c * q <= c * x /\ c * q \in Nat /\ c * x \in Nat
      BY <1>1, <1>2, TimesMonotone
    <2>2. QED
      BY <1>1, <1>2, <2>1
  <1>4. x + 1 \in 1..q
    BY <1>1, <1>2, <1>3
  <1>5. i = ((x + 1) - 1) * c + j
    BY <1>2
  <1>6. QED
    BY <1>2, <1>4, <1>5

----------------------------------------------------------------------------
(***************************************************************************)
(* The pin helpers: each SET writes what is asked on every pin it reaches, *)
(* and every pin that is to change is reached.                             *)
(***************************************************************************)
SetRecs == [base : Pin, count : 0..NPins, data : SUBSET (0..(Chunk - 1))]
Covers(s, sets, dest, pins) ==
    /\ \A k \in DOMAIN sets : \A i \in 0..(sets[k].count - 1) :
          (i \in sets[k].data) <=> ((sets[k].base + i) % NPins \in pins)
    /\ \A p \in Pin : \/ (p \in wanted[s][dest]) <=> (p \in pins)
                      \/ \E k \in DOMAIN sets : p \in Span(sets[k].base, sets[k].count)

ConsecutiveSets(base, count, out) ==
    [k \in 1..((count + Chunk - 1) \div Chunk) |->
        SetOf((base + (k - 1) * Chunk) % NPins,
              Smaller(Chunk, count - (k - 1) * Chunk), IF out THEN All ELSE {})]
AllPinsSets(values) ==
    [k \in 1..((NPins + Chunk - 1) \div Chunk) |->
        SetOf((k - 1) * Chunk, Smaller(Chunk, NPins - (k - 1) * Chunk),
              {i \in All : (k - 1) * Chunk + i \in values})]
OnePinSets(pins, values) ==
    [k \in DOMAIN pins |-> SetOf(pins[k], 1, IF pins[k] \in values THEN {0} ELSE {})]

MaskAsked(s, dest, values, mask) == (wanted[s][dest] \ mask) \cup (values \cap mask)
Enumerates(pins, n, mask) == pins \in [1..n -> mask] /\ \A p \in mask : \E k \in 1..n : pins[k] = p

LEMMA Sizes ==
    /\ NPins \in Nat \ {0} /\ Chunk \in Nat \ {0} /\ Chunk <= NPins
    /\ N \in Nat \ {0} /\ NSm \in Nat \ {0}
  BY SdkAssumption

LEMMA SmallerBounds ==
    ASSUME NEW c \in Nat, NEW t \in Nat, NEW x, x = Smaller(c, t)
    PROVE  /\ x \in Nat /\ x <= c /\ x <= t
           /\ \A j \in 0..(c - 1) : j < t => j < x
  BY DEF Smaller

LEMMA ModSmall ==
    ASSUME NEW n \in Nat \ {0}, NEW j \in 0..(n - 1)
    PROVE  j % n = j
  OBVIOUS

LEMMA SpanInside ==
    ASSUME NEW b \in Nat, NEW c \in Nat
    PROVE  Span(b, c) \subseteq Pin
  <1>1. \A i \in 0..(c - 1) : ((b + i) % NPins) \in 0..(NPins - 1)
    <2> TAKE i \in 0..(c - 1)
    <2>1. b + i \in Nat
      OBVIOUS
    <2>2. QED
      BY <2>1, Division, Sizes
  <1>2. QED
    BY <1>1 DEF Span, Pin

LEMMA ConsecutiveCovers ==
    ASSUME TypeInv, NEW s \in Sms, NEW base \in Pin, NEW count \in 1..NPins, NEW out \in BOOLEAN,
           NEW sets, sets = ConsecutiveSets(base, count, out),
           NEW pins,
           pins = IF out THEN wanted[s].dirs \cup Span(base, count)
                  ELSE wanted[s].dirs \ Span(base, count)
    PROVE  sets \in Seq(SetRecs) /\ pins \in SUBSET Pin /\ Covers(s, sets, "dirs", pins)
  <1> DEFINE n == (count + Chunk - 1) \div Chunk
             from(k) == (k - 1) * Chunk
  <1>1. /\ base \in Nat /\ count \in Nat /\ count <= NPins /\ n \in Nat
        /\ wanted[s].dirs \in SUBSET Pin
    <2>1. base \in Nat /\ count \in Nat /\ count <= NPins /\ count + Chunk - 1 \in Nat
      BY Sizes DEF Pin
    <2>2. n \in Nat
      BY <2>1, Sizes, Division
    <2>3. wanted[s] \in Asks
      BY DEF TypeInv
    <2>4. QED
      BY <2>1, <2>2, <2>3 DEF Asks
  <1>2. DOMAIN sets = 1..n /\ sets = [k \in 1..n |-> sets[k]] /\ \A k \in 1..n :
           /\ sets[k] = SetOf((base + from(k)) % NPins, Smaller(Chunk, count - from(k)), IF out THEN All ELSE {})
           /\ sets[k].base = (base + from(k)) % NPins
           /\ sets[k].count = Smaller(Chunk, count - from(k))
           /\ sets[k].data = IF out THEN All ELSE {}
    BY DEF SetOf, ConsecutiveSets
  <1>3. \A k \in 1..n : from(k) \in Nat /\ from(k) < count
    BY <1>1, Sizes, Pieces
  <1> HIDE DEF n
  <1>4. \A i \in 0..(count - 1) : \E k \in 1..n : \E j \in 0..(Chunk - 1) : i = from(k) + j
    BY <1>1, Sizes, PiecesCover DEF n
  <1> HIDE DEF from
  <1>5. ASSUME NEW k \in 1..n
        PROVE  /\ sets[k].count \in Nat /\ sets[k].count <= Chunk /\ sets[k].count <= count - from(k)
               /\ \A j \in 0..(Chunk - 1) : j < count - from(k) => j < sets[k].count
               /\ \A j \in Nat : (sets[k].base + j) % NPins = (base + from(k) + j) % NPins
               /\ sets[k].base \in Pin /\ sets[k] \in SetRecs
    <2>1. from(k) \in Nat /\ from(k) < count /\ count - from(k) \in Nat
      BY <1>1, <1>3
    <2>2. /\ sets[k].count \in Nat /\ sets[k].count <= Chunk /\ sets[k].count <= count - from(k)
          /\ \A j \in 0..(Chunk - 1) : j < count - from(k) => j < sets[k].count
      BY <1>2, <2>1, Sizes, SmallerBounds
    <2>3. \A j \in Nat : (sets[k].base + j) % NPins = (base + from(k) + j) % NPins
      <3> TAKE j \in Nat
      <3>1. base + from(k) \in Nat
        BY <1>1, <2>1
      <3>2. (((base + from(k)) % NPins) + j) % NPins = ((base + from(k)) + j) % NPins
        BY <3>1, Sizes, ModPlus
      <3>3. QED
        BY <1>2, <3>2
    <2>4. sets[k].base \in Pin
      <3>1. base + from(k) \in Nat
        BY <1>1, <2>1
      <3>2. QED
        BY <1>2, <3>1, Sizes, Division DEF Pin
    <2>5. sets[k].data \in SUBSET (0..(Chunk - 1))
      BY <1>2 DEF All
    <2>6. sets[k].count \in 0..NPins
      BY <2>2, Sizes
    <2>7. sets[k] = [base |-> sets[k].base, count |-> sets[k].count, data |-> sets[k].data]
      BY <1>2 DEF SetOf
    <2>8. QED
      BY <2>2, <2>3, <2>4, <2>5, <2>6, <2>7 DEF SetRecs
  <1>6. sets \in Seq(SetRecs)
    BY <1>1, <1>2, <1>5
  <1>7. pins \in SUBSET Pin
    BY <1>1, SpanInside
  <1>8. ASSUME NEW k \in DOMAIN sets, NEW i \in 0..(sets[k].count - 1)
        PROVE  (i \in sets[k].data) <=> ((sets[k].base + i) % NPins \in pins)
    <2>1. k \in 1..n /\ i \in Nat /\ from(k) \in Nat
      BY <1>2, <1>3
    <2>2. i \in All /\ from(k) + i \in 0..(count - 1)
      BY <1>1, <1>5, <2>1, Sizes DEF All
    <2>3. (sets[k].base + i) % NPins = (base + (from(k) + i)) % NPins
      BY <1>1, <1>5, <2>1
    <2>4. (sets[k].base + i) % NPins \in Span(base, count)
      BY <2>2, <2>3 DEF Span
    <2>5. QED
      BY <1>2, <2>1, <2>2, <2>4
  <1>9. ASSUME NEW p \in Pin, p \in Span(base, count)
        PROVE  \E k \in DOMAIN sets : p \in Span(sets[k].base, sets[k].count)
    <2>1. PICK i \in 0..(count - 1) : p = (base + i) % NPins
      BY <1>9 DEF Span
    <2>2. PICK k \in 1..n : \E j \in 0..(Chunk - 1) : i = from(k) + j
      BY <1>4
    <2>3. PICK j \in 0..(Chunk - 1) : i = from(k) + j
      BY <2>2
    <2>4. j \in Nat /\ from(k) \in Nat /\ j < count - from(k)
      BY <1>1, <1>3, <2>3
    <2>5. j \in 0..(sets[k].count - 1)
      BY <1>5, <2>4
    <2>6. p = (sets[k].base + j) % NPins
      <3>1. base + i = base + from(k) + j
        BY <1>1, <2>3, <2>4
      <3>2. QED
        BY <1>5, <2>1, <2>4, <3>1
    <2>7. QED
      BY <1>2, <2>5, <2>6 DEF Span
  <1>10. QED
    BY <1>6, <1>7, <1>8, <1>9 DEF Covers

LEMMA PinsCover ==
    ASSUME TypeInv, NEW s \in Sms, NEW values \in SUBSET Pin,
           NEW sets, sets = AllPinsSets(values)
    PROVE  sets \in Seq(SetRecs) /\ Covers(s, sets, "outs", values)
  <1> DEFINE n == (NPins + Chunk - 1) \div Chunk
             from(k) == (k - 1) * Chunk
  <1>1. n \in Nat
    BY Sizes, Division
  <1>2. DOMAIN sets = 1..n /\ sets = [k \in 1..n |-> sets[k]] /\ \A k \in 1..n :
           /\ sets[k] = SetOf(from(k), Smaller(Chunk, NPins - from(k)), {i \in All : from(k) + i \in values})
           /\ sets[k].base = from(k)
           /\ sets[k].count = Smaller(Chunk, NPins - from(k))
           /\ sets[k].data = {i \in All : from(k) + i \in values}
    BY DEF SetOf, AllPinsSets
  <1>3. \A k \in 1..n : from(k) \in Nat /\ from(k) < NPins
    BY Sizes, Pieces
  <1> HIDE DEF n
  <1>4. \A i \in 0..(NPins - 1) : \E k \in 1..n : \E j \in 0..(Chunk - 1) : i = from(k) + j
    BY Sizes, PiecesCover DEF n
  <1> HIDE DEF from
  <1>5. ASSUME NEW k \in 1..n
        PROVE  /\ sets[k].count \in Nat /\ sets[k].count <= Chunk /\ sets[k].count <= NPins - from(k)
               /\ \A j \in 0..(Chunk - 1) : j < NPins - from(k) => j < sets[k].count
               /\ \A j \in 0..(NPins - from(k) - 1) : (sets[k].base + j) % NPins = from(k) + j
               /\ sets[k] \in SetRecs
    <2>1. from(k) \in Nat /\ from(k) < NPins /\ NPins - from(k) \in Nat
      BY <1>3, Sizes
    <2>2. /\ sets[k].count \in Nat /\ sets[k].count <= Chunk /\ sets[k].count <= NPins - from(k)
          /\ \A j \in 0..(Chunk - 1) : j < NPins - from(k) => j < sets[k].count
      BY <1>2, <2>1, Sizes, SmallerBounds
    <2>3. \A j \in 0..(NPins - from(k) - 1) : (sets[k].base + j) % NPins = from(k) + j
      <3> TAKE j \in 0..(NPins - from(k) - 1)
      <3>1. from(k) + j \in 0..(NPins - 1)
        BY <2>1, Sizes
      <3>2. (from(k) + j) % NPins = from(k) + j
        BY <3>1, Sizes, ModSmall
      <3>3. QED
        BY <1>2, <3>2
    <2>4. sets[k].base \in Pin
      <3>1. from(k) \in 0..(NPins - 1)
        BY <2>1, Sizes
      <3>2. QED
        BY <1>2, <3>1 DEF Pin
    <2>5. sets[k].data \in SUBSET (0..(Chunk - 1))
      BY <1>2 DEF All
    <2>6. sets[k].count \in 0..NPins
      BY <2>2, Sizes
    <2>7. sets[k] = [base |-> sets[k].base, count |-> sets[k].count, data |-> sets[k].data]
      BY <1>2 DEF SetOf
    <2>8. QED
      BY <2>2, <2>3, <2>4, <2>5, <2>6, <2>7 DEF SetRecs
  <1>6. sets \in Seq(SetRecs)
    BY <1>1, <1>2, <1>5
  <1>7. ASSUME NEW k \in DOMAIN sets, NEW i \in 0..(sets[k].count - 1)
        PROVE  (i \in sets[k].data) <=> ((sets[k].base + i) % NPins \in values)
    <2>1. k \in 1..n /\ from(k) \in Nat
      BY <1>2, <1>3
    <2>2. i \in All /\ i \in 0..(NPins - from(k) - 1)
      BY <1>5, <2>1, Sizes DEF All
    <2>3. (sets[k].base + i) % NPins = from(k) + i
      BY <1>5, <2>1, <2>2
    <2>4. QED
      BY <1>2, <2>1, <2>2, <2>3
  <1>8. ASSUME NEW p \in Pin
        PROVE  \E k \in DOMAIN sets : p \in Span(sets[k].base, sets[k].count)
    <2>1. PICK k \in 1..n : \E j \in 0..(Chunk - 1) : p = from(k) + j
      BY <1>4 DEF Pin
    <2>2. PICK j \in 0..(Chunk - 1) : p = from(k) + j
      BY <2>1
    <2>3. j \in Nat /\ from(k) \in Nat /\ j < NPins - from(k)
      BY <1>3, <2>2, Sizes DEF Pin
    <2>4. j \in 0..(sets[k].count - 1)
      BY <1>5, <2>3
    <2>5. p = (sets[k].base + j) % NPins
      BY <1>5, <2>2, <2>3, Sizes
    <2>6. QED
      BY <1>2, <2>4, <2>5 DEF Span
  <1>9. QED
    BY <1>6, <1>7, <1>8 DEF Covers

LEMMA MaskCovers ==
    ASSUME TypeInv, NEW s \in Sms, NEW dest \in {"dirs", "outs"}, NEW values \in SUBSET Pin,
           NEW mask \in SUBSET Pin, NEW n \in Nat, NEW pins, Enumerates(pins, n, mask), values \subseteq mask
    PROVE  /\ OnePinSets(pins, values) \in Seq(SetRecs) /\ MaskAsked(s, dest, values, mask) \in SUBSET Pin
           /\ Covers(s, OnePinSets(pins, values), dest, MaskAsked(s, dest, values, mask))
  <1> DEFINE sets == OnePinSets(pins, values)
             wants == MaskAsked(s, dest, values, mask)
  <1>1. n \in Nat /\ DOMAIN pins = 1..n /\ \A k \in 1..n : pins[k] \in mask /\ pins[k] \in Pin
    BY DEF Enumerates
  <1>2. DOMAIN sets = 1..n /\ sets = [k \in 1..n |-> sets[k]] /\ \A k \in 1..n :
           /\ sets[k] = SetOf(pins[k], 1, IF pins[k] \in values THEN {0} ELSE {})
           /\ sets[k].base = pins[k] /\ sets[k].count = 1
           /\ sets[k].data = IF pins[k] \in values THEN {0} ELSE {}
    BY <1>1 DEF SetOf, OnePinSets
  <1> HIDE DEF sets
  <1>3. ASSUME NEW k \in 1..n
        PROVE  sets[k] \in SetRecs /\ (sets[k].base + 0) % NPins = pins[k]
    <2>1. pins[k] \in 0..(NPins - 1)
      BY <1>1 DEF Pin
    <2>2. (sets[k].base + 0) % NPins = pins[k]
      <3>1. sets[k].base + 0 = pins[k]
        BY <1>2, <2>1
      <3>2. QED
        BY <2>1, <3>1, Sizes, ModSmall
    <2>3. sets[k].data \in SUBSET (0..(Chunk - 1)) /\ 1 \in 0..NPins /\ pins[k] \in Pin
      BY <1>1, <1>2, Sizes
    <2>4. sets[k] = [base |-> pins[k], count |-> 1, data |-> sets[k].data]
      BY <1>2 DEF SetOf
    <2>5. QED
      BY <2>2, <2>3, <2>4 DEF SetRecs
  <1>4. sets \in Seq(SetRecs)
    BY <1>1, <1>2, <1>3
  <1>5. wants \in SUBSET Pin
    <2>1. wanted[s] \in Asks
      BY DEF TypeInv
    <2>2. wanted[s][dest] \in SUBSET Pin
      BY <2>1 DEF Asks
    <2>3. QED
      BY <2>2 DEF MaskAsked
  <1>6. ASSUME NEW k \in DOMAIN sets, NEW i \in 0..(sets[k].count - 1)
        PROVE  (i \in sets[k].data) <=> ((sets[k].base + i) % NPins \in wants)
    <2>1. k \in 1..n /\ i = 0
      BY <1>2
    <2>2. QED
      BY <1>1, <1>2, <1>3, <2>1 DEF MaskAsked
  <1>7. ASSUME NEW p \in mask
        PROVE  \E k \in DOMAIN sets : p \in Span(sets[k].base, sets[k].count)
    <2>1. PICK k \in 1..n : pins[k] = p
      BY DEF Enumerates
    <2>2. 0 \in 0..(sets[k].count - 1) /\ p = (sets[k].base + 0) % NPins
      BY <1>2, <1>3, <2>1
    <2>3. QED
      BY <1>2, <2>2 DEF Span
  <1>8. QED
    BY <1>4, <1>5, <1>6, <1>7 DEF Covers, MaskAsked, sets

----------------------------------------------------------------------------
(***************************************************************************)
(* The steps, as the invariants see them.                                  *)
(***************************************************************************)
LEMMA ProgramFacts ==
    ASSUME NEW p \in Programs
    PROVE  /\ Length(p) \in Nat \ {0} /\ DOMAIN p.code = 1..Length(p)
           /\ \A j \in DOMAIN p.code : p.code[j] \in Instruction
           /\ p.target \in 0..(Length(p) - 1) /\ p.entry \in 0..(Length(p) - 1)
  <1>1. p.code \in Seq(Instruction) /\ Length(p) \in 1..N
    BY SdkAssumption
  <1>2. Length(p) \in Nat \ {0}
    BY <1>1, Sizes
  <1>3. QED
    BY <1>1, <1>2, SdkAssumption DEF Length

LEMMA HeldFacts ==
    ASSUME MemoryInv, PlacedInv, NEW h \in held
    PROVE  /\ h.program \in Programs /\ h.offset \in Slot
           /\ SlotsOf(h) \subseteq Slot
           /\ \A a \in SlotsOf(h) : a - h.offset + 1 \in DOMAIN h.program.code
           /\ \A j \in DOMAIN h.program.code : h.offset + j - 1 \in SlotsOf(h) /\ j \in Nat \ {0}
           /\ h.offset + h.program.entry \in SlotsOf(h) /\ h.offset + h.program.entry \in 0..(N - 1)
           /\ Config(h) \in Regs
           /\ Config(h).bottom \in SlotsOf(h) /\ Config(h).top \in SlotsOf(h)
           /\ \A a \in SlotsOf(h) : a <= Config(h).top
  <1> DEFINE p == h.program
             n == Length(p)
  <1>1. p \in Programs /\ h.offset \in Slot /\ h.offset \in Nat
    BY DEF MemoryInv, Slot
  <1>2. n \in Nat \ {0} /\ DOMAIN p.code = 1..n /\ p.target \in 0..(n - 1) /\ p.entry \in 0..(n - 1)
    BY <1>1, ProgramFacts
  <1>3. h.offset + n <= N
    BY DEF PlacedInv, Placed
  <1>4. SlotsOf(h) = h.offset..(h.offset + n - 1)
    BY DEF SlotsOf, Slots
  <1> HIDE DEF n
  <1>5. SlotsOf(h) \subseteq Slot /\ \A a \in SlotsOf(h) : a \in Nat /\ a <= h.offset + n - 1
    BY <1>1, <1>2, <1>3, <1>4, Sizes DEF Slot
  <1>6. \A a \in SlotsOf(h) : a - h.offset + 1 \in 1..n
    BY <1>1, <1>2, <1>4
  <1>7. \A j \in 1..n : h.offset + j - 1 \in SlotsOf(h) /\ j \in Nat \ {0}
    BY <1>1, <1>2, <1>4
  <1>8. /\ h.offset + p.entry \in SlotsOf(h) /\ h.offset + p.target \in SlotsOf(h)
        /\ h.offset + n - 1 \in SlotsOf(h)
    <2>1. \A k \in 0..(n - 1) : h.offset + k \in h.offset..(h.offset + n - 1)
      BY <1>1, <1>2
    <2>2. n - 1 \in 0..(n - 1) /\ h.offset + n - 1 = h.offset + (n - 1)
      BY <1>1, <1>2
    <2>3. QED
      BY <1>2, <1>4, <2>1, <2>2
  <1>9. /\ Config(h).bottom = h.offset + p.target /\ Config(h).top = h.offset + n - 1
        /\ Config(h) = [bottom |-> h.offset + p.target, top |-> h.offset + n - 1, base |-> 0, count |-> Chunk]
    BY DEF Config, n
  <1>10. 0 \in Pin /\ Chunk \in 0..NPins
    BY Sizes DEF Pin
  <1>11. Config(h) \in Regs
    BY <1>5, <1>8, <1>9, <1>10 DEF Regs
  <1>12. QED
    BY <1>1, <1>2, <1>5, <1>6, <1>7, <1>8, <1>9, <1>11 DEF Slot

Loads(p, o) == LET mask == Slots(p, o) \cap Slot
               IN  Ready /\ Fits(p, o, mask) /\ p.origin \in {o, N} /\ Load(p, o, mask)
Toggles(set) == /\ Ready
                /\ \A s \in set : s \in enabled \/ (s \in Sms /\ job[s] # NoJob)
                /\ set \subseteq Sms
                /\ script' = << WEnable(set) >>
                /\ UNCHANGED <<software, hardware, history>>
Pinned(s) == \E sets \in Seq(SetRecs), dest \in {"dirs", "outs"}, pins \in SUBSET Pin :
                Helper(s, sets, dest, pins) /\ Covers(s, sets, dest, pins)

LEMMA PinSteps ==
    ASSUME TypeInv, PinCalls
    PROVE  \E s \in Sms : Pinned(s)
  <1>1. PICK s \in PinSms :
          \/ \E base \in Pin, count \in 1..NPins, out \in BOOLEAN : SetConsecutivePindirs(s, base, count, out)
          \/ \E values \in SUBSET Pin : SetPins(s, values)
          \/ \E dest \in {"dirs", "outs"}, values, mask \in SUBSET Pin :
                 values \subseteq mask /\ SetWithMask(s, dest, values, mask)
    BY DEF PinCalls
  <1>2. s \in Sms
    BY SdkAssumption
  <1>3. ASSUME NEW base \in Pin, NEW count \in 1..NPins, NEW out \in BOOLEAN,
               SetConsecutivePindirs(s, base, count, out)
        PROVE  Pinned(s)
    <2> DEFINE sets == ConsecutiveSets(base, count, out)
               pins == IF out THEN wanted[s].dirs \cup Span(base, count)
                       ELSE wanted[s].dirs \ Span(base, count)
    <2>1. Helper(s, sets, "dirs", pins)
      BY <1>3 DEF SetConsecutivePindirs, ConsecutiveSets
    <2>2. sets \in Seq(SetRecs) /\ pins \in SUBSET Pin /\ Covers(s, sets, "dirs", pins)
      <3> HIDE DEF sets, pins
      <3>1. sets = ConsecutiveSets(base, count, out)
        BY DEF sets
      <3>2. pins = IF out THEN wanted[s].dirs \cup Span(base, count)
                   ELSE wanted[s].dirs \ Span(base, count)
        BY DEF pins
      <3>3. QED
        BY <1>2, <3>1, <3>2, ConsecutiveCovers
    <2> HIDE DEF sets, pins
    <2>3. QED
      BY <2>1, <2>2 DEF Pinned
  <1>4. ASSUME NEW values \in SUBSET Pin, SetPins(s, values)
        PROVE  Pinned(s)
    <2> DEFINE sets == AllPinsSets(values)
    <2>1. Helper(s, sets, "outs", values)
      BY <1>4 DEF SetPins, AllPinsSets
    <2>2. sets \in Seq(SetRecs) /\ Covers(s, sets, "outs", values)
      BY <1>2, PinsCover
    <2> HIDE DEF sets
    <2>3. QED
      BY <2>1, <2>2 DEF Pinned
  <1>5. ASSUME NEW dest \in {"dirs", "outs"}, NEW values \in SUBSET Pin, NEW mask \in SUBSET Pin,
               values \subseteq mask, SetWithMask(s, dest, values, mask)
        PROVE  Pinned(s)
    <2>1. PICK pins \in [1..Cardinality(mask) -> mask] :
             /\ Ascending(pins)
             /\ \A p \in mask : \E k \in DOMAIN pins : pins[k] = p
             /\ Helper(s, OnePinSets(pins, values), dest, MaskAsked(s, dest, values, mask))
      BY <1>5 DEF SetWithMask, OnePinSets, MaskAsked
    <2> DEFINE n == Cardinality(mask)
    <2>2. n \in Nat
      <3>1. IsFiniteSet(Pin)
        BY Sizes, FS_Interval DEF Pin
      <3>2. QED
        BY <3>1, FS_Subset, FS_CardinalityType
    <2>3. Enumerates(pins, n, mask)
      BY <2>1 DEF Enumerates
    <2>4. values \subseteq mask
      BY <1>5
    <2> HIDE DEF n
    <2>5. /\ OnePinSets(pins, values) \in Seq(SetRecs) /\ MaskAsked(s, dest, values, mask) \in SUBSET Pin
          /\ Covers(s, OnePinSets(pins, values), dest, MaskAsked(s, dest, values, mask))
      BY <1>2, <2>2, <2>3, <2>4, MaskCovers
    <2>6. QED
      BY <2>1, <2>5 DEF Pinned
  <1>6. QED
    BY <1>1, <1>2, <1>3, <1>4, <1>5

LEMMA MemorySteps ==
    ASSUME Rules = AllRules, Memory
    PROVE  \/ ClearMemory
           \/ \E p \in Programs, o \in Slot : Loads(p, o)
           \/ \E h \in held : RemoveProgram(h)
  <1>1. Careful
    BY DEF Careful, AllRules
  <1>2. ASSUME NEW p \in Programs, AddProgram(p)
        PROVE  \E o \in Slot : Loads(p, o)
    <2>1. PICK full \in {0, 1} :
            LET choose == [o \in Slot |-> IF Length(p) < N THEN Slots(p, o) \cap Slot
                                          ELSE IF full = 1 THEN Slot ELSE {}]
            IN  \E o \in Places(p, choose) : Load(p, o, choose[o])
      BY <1>2 DEF AddProgram
    <2> DEFINE choose == [o \in Slot |-> IF Length(p) < N THEN Slots(p, o) \cap Slot
                                         ELSE IF full = 1 THEN Slot ELSE {}]
    <2>2. PICK o \in Places(p, choose) : Load(p, o, choose[o])
      BY <2>1
    <2>3. o \in Slot /\ Fits(p, o, choose[o]) /\ p.origin \in {o, N}
      <3>1. p.origin \in 0..N
        BY SdkAssumption
      <3>2. p.origin < N \/ p.origin = N
        BY <3>1, Sizes
      <3> HIDE DEF choose
      <3>3. QED
        BY <2>2, <3>2 DEF Places
    <2>4. choose[o] = Slots(p, o) \cap Slot
      BY <1>1, <2>3, ProgramsAreShort
    <2> HIDE DEF choose
    <2>5. Ready
      BY <1>2 DEF AddProgram
    <2>6. QED
      BY <2>2, <2>3, <2>4, <2>5 DEF Loads
  <1>3. ASSUME NEW p \in Programs, NEW o \in Slot, AddProgramAt(p, o)
        PROVE  Loads(p, o)
    <2>1. PICK mask \in Masks(p, o) : Fits(p, o, mask) /\ Load(p, o, mask)
      BY <1>3 DEF AddProgramAt
    <2>2. Ready /\ p.origin = N
      BY <1>3 DEF AddProgramAt
    <2>3. QED
      BY <1>1, <2>1, <2>2, MaskOfShort DEF Loads
  <1>4. QED
    BY <1>2, <1>3 DEF Memory

LEMMA MachineSteps ==
    ASSUME TypeInv, Machines
    PROVE  \/ \E s \in Sms : Ready /\ Claims(s)
           \/ \E s \in Sms : Unclaim(s)
           \/ \E set \in SUBSET Sms : Toggles(set)
           \/ \E s \in Sms, h \in held : SmInit(s, h)
  <1>1. CASE ClaimUnused \/ \E s \in Sms : Claim(s)
    BY <1>1 DEF ClaimUnused, Claim
  <1>2. ASSUME NEW set \in SUBSET Sms, Enable(set)
        PROVE  \E v \in SUBSET Sms : Toggles(v)
    <2>1. Toggles(enabled \cup set)
      BY <1>2 DEF Enable, Toggles, TypeInv
    <2>2. enabled \cup set \in SUBSET Sms
      BY DEF TypeInv
    <2>3. QED
      BY <2>1, <2>2
  <1>3. ASSUME NEW s \in Sms, Disable(s)
        PROVE  \E v \in SUBSET Sms : Toggles(v)
    <2>1. Toggles(enabled \ {s})
      BY <1>3 DEF Disable, Toggles, TypeInv
    <2>2. enabled \ {s} \in SUBSET Sms
      BY DEF TypeInv
    <2>3. QED
      BY <2>1, <2>2
  <1>4. QED
    BY <1>1, <1>2, <1>3 DEF Machines

LEMMA SmInitWrites ==
    ASSUME TypeInv, NEW s \in Sms, NEW h \in held, SmInit(s, h)
    PROVE  /\ Ready
           /\ enabled' = enabled \ {s} /\ UNCHANGED <<imem, regs, core, used, claimed, held, holders, wanted>>
           /\ script' = << WRegs(s, Config(h)), WRestart(enabled \ {s}, s),
                           WInstr(s, Jmp(h.offset + h.program.entry)) >>
           /\ job' = [job EXCEPT ![s] = [slots |-> SlotsOf(h), entry |-> h.offset + h.program.entry,
                                         first |-> N]]
  <1> DEFINE w == WEnable(enabled \ {s})
  <1>1. w.reg = "ctrl" /\ w.value = enabled \ {s} /\ w.restart = {}
    BY DEF WEnable
  <1>2. Perform(w)
    BY DEF SmInit
  <1> HIDE DEF w
  <1>3. core' = [t \in Sms |-> core[t]]
    BY <1>1, <1>2 DEF Perform
  <1>4. core' = core
    BY <1>3 DEF TypeInv
  <1>5. QED
    BY <1>1, <1>2, <1>4 DEF SmInit, Perform, software, SlotsOf

Current(s) == IF Forced(s) THEN core[s].forced ELSE imem[core[s].pc]
Reach(s) == Span(regs[s].base, regs[s].count)

LEMMA TickWrites ==
    ASSUME TypeInv, NEW s \in Sms, Tick(s), NEW i, i = Current(s)
    PROVE  /\ s \in enabled /\ i \in Instruction
           /\ core' = [core EXCEPT ![s] = core'[s]] /\ core'[s] \in Core
           /\ core'[s].forced = None
           /\ core'[s].pc = IF i.op = "jmp" THEN i.to ELSE IF Forced(s) THEN core[s].pc ELSE Advance(s)
           /\ i.op # "set" => core'[s].dirs = core[s].dirs /\ core'[s].outs = core[s].outs
           /\ i.op = "set" => \A dest \in {"dirs", "outs"} :
                 core'[s][dest] = IF dest = i.dest
                                  THEN WritePins(core[s][dest], i.data, regs[s].base, regs[s].count)
                                  ELSE core[s][dest]
           /\ job' = IF Forced(s) \/ job[s].first # N THEN job
                     ELSE [job EXCEPT ![s] = [job[s] EXCEPT !.first = core[s].pc]]
           /\ UNCHANGED <<used, claimed, script, imem, enabled, regs, held, holders, wanted>>
  <1> DEFINE moved == [core[s] EXCEPT !.forced = None,
                                      !.pc = IF i.op = "jmp" THEN i.to
                                             ELSE IF Forced(s) THEN core[s].pc ELSE Advance(s)]
  <1>1. core[s] \in Core /\ core \in [Sms -> Core]
    BY DEF TypeInv
  <1>2. i \in Instruction
    <2>1. core[s].forced \in Instruction \cup {None} /\ core[s].pc \in Slot
      BY <1>1 DEF Core
    <2>2. QED
      BY <2>1 DEF Current, Forced, TypeInv
  <1>3. core' = [core EXCEPT ![s] = Execute(s, i)]
    BY DEF Tick, Current
  <1>4. core'[s] = Execute(s, i) /\ core' = [core EXCEPT ![s] = core'[s]]
    BY <1>1, <1>3
  <1>5. Advance(s) \in Slot
    <2>1. regs[s] \in Regs /\ core[s].pc \in Slot
      BY <1>1 DEF TypeInv, Core
    <2>2. regs[s].bottom \in Slot /\ core[s].pc + 1 \in Nat
      BY <2>1 DEF Regs, Slot
    <2>3. ((core[s].pc + 1) % N) \in 0..(N - 1)
      BY <2>2, Sizes, Division
    <2>4. QED
      BY <2>2, <2>3 DEF Advance, Slot
  <1>6. /\ moved.forced = None /\ moved.dirs = core[s].dirs /\ moved.outs = core[s].outs
        /\ moved.pc = IF i.op = "jmp" THEN i.to ELSE IF Forced(s) THEN core[s].pc ELSE Advance(s)
        /\ moved.pc \in Slot /\ moved \in Core
    <2>1. core[s].pc \in Slot /\ core[s].dirs \in SUBSET Pin /\ core[s].outs \in SUBSET Pin
      BY <1>1 DEF Core
    <2>2. (IF i.op = "jmp" THEN i.to ELSE IF Forced(s) THEN core[s].pc ELSE Advance(s)) \in Slot
      BY <1>2, <1>5, <2>1, InstructionKinds
    <2>3. QED
      BY <1>1, <2>1, <2>2 DEF Core
  <1>7. Execute(s, i) = IF i.op = "set"
                        THEN [moved EXCEPT ![i.dest] =
                                WritePins(moved[i.dest], i.data, regs[s].base, regs[s].count)]
                        ELSE moved
    BY DEF Execute
  <1> HIDE DEF moved
  <1>8. CASE i.op # "set"
    BY <1>2, <1>4, <1>6, <1>7, <1>8 DEF Tick, software
  <1>9. CASE i.op = "set"
    <2> DEFINE new == WritePins(moved[i.dest], i.data, regs[s].base, regs[s].count)
    <2>1. i.dest \in {"dirs", "outs"} /\ i.data \in SUBSET (0..(Chunk - 1))
      BY <1>2, <1>9, InstructionKinds
    <2>2. moved[i.dest] \in SUBSET Pin
      BY <1>6, <2>1 DEF Core
    <2>3. new \in SUBSET Pin
      <3>1. regs[s] \in Regs
        BY DEF TypeInv
      <3>2. regs[s].base \in Nat /\ regs[s].count \in Nat
        BY <3>1 DEF Regs, Pin
      <3>3. Span(regs[s].base, regs[s].count) \subseteq Pin
        BY <3>2, SpanInside
      <3>4. {(regs[s].base + k) % NPins : k \in i.data \cap 0..(regs[s].count - 1)} \subseteq Pin
        BY <3>3 DEF Span
      <3>5. QED
        BY <2>2, <3>4 DEF WritePins
    <2>4. Execute(s, i) = [moved EXCEPT ![i.dest] = new]
      BY <1>7, <1>9
    <2> HIDE DEF new
    <2>5. CASE i.dest = "dirs"
      <3>1. Execute(s, i) = [moved EXCEPT !.dirs = new]
        BY <2>4, <2>5
      <3>2. /\ Execute(s, i).dirs = new /\ Execute(s, i).outs = moved.outs
            /\ Execute(s, i).pc = moved.pc /\ Execute(s, i).forced = moved.forced
            /\ Execute(s, i) \in Core
        BY <1>6, <2>3, <3>1 DEF Core
      <3>3. new = WritePins(core[s].dirs, i.data, regs[s].base, regs[s].count)
        BY <1>6, <2>5 DEF new
      <3>4. QED
        BY <1>2, <1>4, <1>6, <1>9, <2>5, <3>2, <3>3 DEF Tick, software
    <2>6. CASE i.dest = "outs"
      <3>1. Execute(s, i) = [moved EXCEPT !.outs = new]
        BY <2>4, <2>6
      <3>2. /\ Execute(s, i).outs = new /\ Execute(s, i).dirs = moved.dirs
            /\ Execute(s, i).pc = moved.pc /\ Execute(s, i).forced = moved.forced
            /\ Execute(s, i) \in Core
        BY <1>6, <2>3, <3>1 DEF Core
      <3>3. new = WritePins(core[s].outs, i.data, regs[s].base, regs[s].count)
        BY <1>6, <2>6 DEF new
      <3>4. QED
        BY <1>2, <1>4, <1>6, <1>9, <2>6, <3>2, <3>3 DEF Tick, software
    <2>7. QED
      BY <2>1, <2>5, <2>6
  <1>10. QED
    BY <1>8, <1>9

(* What a pin helper leaves to be written: SETs in pairs of writes, and    *)
(* the registers as they were.                                             *)
LEMMA HelperScript ==
    ASSUME TypeInv, NEW s \in Sms, NEW sets \in Seq(SetRecs), NEW dest \in {"dirs", "outs"}, NEW pins,
           Helper(s, sets, dest, pins)
    PROVE  /\ script' \in Seq(Write) /\ DOMAIN script' = 1..(2 * Len(sets) + 1)
           /\ \A j \in DOMAIN script' :
                 \/ /\ script'[j].reg = "regs" /\ script'[j].at = s
                    /\ script'[j].value.bottom = regs[s].bottom /\ script'[j].value.top = regs[s].top
                 \/ /\ script'[j].reg = "instr" /\ script'[j].at = s /\ j > 1
                    /\ script'[j - 1].reg = "regs" /\ script'[j - 1].at = s
                    /\ \E k \in DOMAIN sets : /\ script'[j].value = Set(dest, sets[k].data)
                                              /\ script'[j - 1].value.base = sets[k].base
                                              /\ script'[j - 1].value.count = sets[k].count
           /\ \A k \in DOMAIN sets :
                 /\ 2 * k \in DOMAIN script' /\ 2 * k - 1 \in DOMAIN script'
                 /\ script'[2 * k] = WInstr(s, Set(dest, sets[k].data))
                 /\ script'[2 * k - 1].value.base = sets[k].base
                 /\ script'[2 * k - 1].value.count = sets[k].count
  <1> DEFINE n == Len(sets)
             f(j) == IF j > 2 * n THEN WRegs(s, regs[s])
                     ELSE IF j % 2 = 0 THEN WInstr(s, Set(dest, sets[j \div 2].data))
                     ELSE WRegs(s, [regs[s] EXCEPT !.base = sets[(j + 1) \div 2].base,
                                                   !.count = sets[(j + 1) \div 2].count])
  <1>1. n \in Nat /\ DOMAIN sets = 1..n /\ \A k \in 1..n : sets[k] \in SetRecs
    OBVIOUS
  <1>2. script' = [j \in 1..(2 * n + 1) |-> f(j)]
    BY DEF Helper
  <1>3. DOMAIN script' = 1..(2 * n + 1) /\ \A j \in 1..(2 * n + 1) : script'[j] = f(j)
    BY <1>2
  <1>4. regs[s] \in Regs
    BY DEF TypeInv
  <1> DEFINE r(k) == [regs[s] EXCEPT !.base = sets[k].base, !.count = sets[k].count]
  <1>5. \A k \in 1..n : /\ r(k) \in Regs /\ r(k).bottom = regs[s].bottom /\ r(k).top = regs[s].top
                        /\ r(k).base = sets[k].base /\ r(k).count = sets[k].count
                        /\ sets[k].data \in SUBSET (0..(Chunk - 1))
    BY <1>1, <1>4 DEF Regs, SetRecs
  <1>6. \A j \in 1..(2 * n + 1) :
          \/ j = 2 * n + 1 /\ f(j) = WRegs(s, regs[s])
          \/ \E k \in 1..n : j = 2 * k /\ f(j) = WInstr(s, Set(dest, sets[k].data))
          \/ \E k \in 1..n : j = 2 * k - 1 /\ f(j) = WRegs(s, r(k))
    <2> TAKE j \in 1..(2 * n + 1)
    <2>1. CASE j > 2 * n
      <3>1. j = 2 * n + 1
        BY <1>1, <2>1
      <3>2. f(j) = WRegs(s, regs[s])
        BY <2>1
      <3> HIDE DEF f, r
      <3>3. QED
        BY <3>1, <3>2
    <2>2. CASE j <= 2 * n /\ j % 2 = 0
      <3> DEFINE k == j \div 2
      <3>1. k \in 1..n /\ j = 2 * k
        BY <1>1, <2>2
      <3>2. f(j) = WInstr(s, Set(dest, sets[k].data))
        BY <1>1, <2>2
      <3> HIDE DEF k, f
      <3>3. QED
        BY <3>1, <3>2
    <2>3. CASE j <= 2 * n /\ j % 2 # 0
      <3> DEFINE k == (j + 1) \div 2
      <3>1. k \in 1..n /\ j = 2 * k - 1
        BY <1>1, <2>3
      <3>2. f(j) = WRegs(s, r(k))
        BY <1>1, <2>3
      <3> HIDE DEF k, f, r
      <3>3. QED
        BY <3>1, <3>2
    <2>4. (j > 2 * n) \/ (j <= 2 * n /\ j % 2 = 0) \/ (j <= 2 * n /\ j % 2 # 0)
      BY <1>1
    <2> HIDE DEF f, r
    <2>5. QED
      BY <2>1, <2>2, <2>3, <2>4
  <1>7. ASSUME NEW k \in 1..n
        PROVE  /\ 2 * k \in 1..(2 * n + 1) /\ 2 * k - 1 \in 1..(2 * n + 1)
               /\ f(2 * k) = WInstr(s, Set(dest, sets[k].data)) /\ f(2 * k - 1) = WRegs(s, r(k))
    <2>1. k \in Nat /\ k >= 1 /\ k <= n
      BY <1>1
    <2>2. /\ 2 * k \in 1..(2 * n + 1) /\ 2 * k - 1 \in 1..(2 * n + 1)
          /\ ~(2 * k > 2 * n) /\ ~(2 * k - 1 > 2 * n)
      BY <1>1, <2>1
    <2>3. (2 * k) % 2 = 0 /\ (2 * k) \div 2 = k /\ (2 * k - 1) % 2 # 0 /\ ((2 * k - 1) + 1) \div 2 = k
      BY <2>1
    <2>4. QED
      BY <2>2, <2>3
  <1> HIDE DEF f, r
  <1>8. \A j \in 1..(2 * n + 1) : f(j) \in Write
    <2>1. \A v \in Regs : WRegs(s, v) \in Write
      BY DEF WRegs, Write
    <2>2. \A v \in Instruction : WInstr(s, v) \in Write
      BY DEF WInstr, Write
    <2>3. QED
      BY <1>4, <1>5, <1>6, <2>1, <2>2, InstructionKinds
  <1>9. script' \in Seq(Write)
    BY <1>1, <1>2, <1>8
  <1>10. \A v : /\ WRegs(s, v).reg = "regs" /\ WRegs(s, v).at = s /\ WRegs(s, v).value = v
                /\ WInstr(s, v).reg = "instr" /\ WInstr(s, v).at = s /\ WInstr(s, v).value = v
    BY DEF WRegs, WInstr
  <1>11. ASSUME NEW j \in 1..(2 * n + 1)
         PROVE  \/ /\ script'[j].reg = "regs" /\ script'[j].at = s
                   /\ script'[j].value.bottom = regs[s].bottom /\ script'[j].value.top = regs[s].top
                \/ /\ script'[j].reg = "instr" /\ script'[j].at = s /\ j > 1
                   /\ script'[j - 1].reg = "regs" /\ script'[j - 1].at = s
                   /\ \E k \in DOMAIN sets : /\ script'[j].value = Set(dest, sets[k].data)
                                             /\ script'[j - 1].value.base = sets[k].base
                                             /\ script'[j - 1].value.count = sets[k].count
    <2>1. CASE j = 2 * n + 1 /\ f(j) = WRegs(s, regs[s])
      BY <1>3, <1>10, <2>1
    <2>2. ASSUME NEW k \in 1..n, j = 2 * k - 1, f(j) = WRegs(s, r(k))
          PROVE  /\ script'[j].reg = "regs" /\ script'[j].at = s
                 /\ script'[j].value.bottom = regs[s].bottom /\ script'[j].value.top = regs[s].top
      BY <1>3, <1>5, <1>10, <2>2
    <2>3. ASSUME NEW k \in 1..n, j = 2 * k, f(j) = WInstr(s, Set(dest, sets[k].data))
          PROVE  /\ script'[j].reg = "instr" /\ script'[j].at = s /\ j > 1
                 /\ script'[j - 1].reg = "regs" /\ script'[j - 1].at = s
                 /\ script'[j].value = Set(dest, sets[k].data)
                 /\ script'[j - 1].value.base = sets[k].base
                 /\ script'[j - 1].value.count = sets[k].count
      <3>1. script'[j - 1] = WRegs(s, r(k)) /\ script'[j] = WInstr(s, Set(dest, sets[k].data)) /\ j > 1
        BY <1>3, <1>7, <2>3
      <3>2. QED
        BY <1>5, <1>10, <3>1
    <2>4. QED
      BY <1>1, <1>6, <2>1, <2>2, <2>3
  <1>12. ASSUME NEW k \in 1..n
         PROVE  /\ 2 * k \in DOMAIN script' /\ 2 * k - 1 \in DOMAIN script'
                /\ script'[2 * k] = WInstr(s, Set(dest, sets[k].data))
                /\ script'[2 * k - 1].value.base = sets[k].base
                /\ script'[2 * k - 1].value.count = sets[k].count
    <2>1. script'[2 * k - 1] = WRegs(s, r(k))
      BY <1>3, <1>7
    <2>2. QED
      BY <1>3, <1>5, <1>7, <1>10, <2>1
  <1> HIDE DEF n
  <1>13. QED
    BY <1>1, <1>3, <1>9, <1>11, <1>12 DEF n

LEMMA StepCases ==
    ASSUME Rules = AllRules, TypeInv, [Next]_vars
    PROVE  \/ UNCHANGED vars
           \/ Bus
           \/ ClearMemory
           \/ \E p \in Programs, o \in Slot : Loads(p, o)
           \/ \E h \in held : RemoveProgram(h)
           \/ \E s \in Sms : Ready /\ Claims(s)
           \/ \E s \in Sms : Unclaim(s)
           \/ \E set \in SUBSET Sms : Toggles(set)
           \/ \E s \in Sms, h \in held : SmInit(s, h)
           \/ \E s \in Sms : Pinned(s)
           \/ \E s \in Sms : Tick(s)
  <1>1. CASE Memory
    BY <1>1, MemorySteps
  <1>2. CASE Machines
    BY <1>2, MachineSteps
  <1>3. CASE PinCalls
    BY <1>3, PinSteps
  <1>4. QED
    BY <1>1, <1>2, <1>3 DEF Next

LEMMA LoadPlaced ==
    ASSUME Rules = AllRules, NEW p \in Programs, NEW o \in Slot, Loads(p, o)
    PROVE  Placed([program |-> p, offset |-> o])
  <1> DEFINE new == [program |-> p, offset |-> o]
  <1>1. new.program = p /\ new.offset = o /\ SlotsOf(new) = Slots(p, o)
    BY DEF SlotsOf
  <1>2. o + Length(p) <= N /\ p.origin \in {o, N}
    BY DEF Loads, Fits
  <1>3. \A j \in DOMAIN p.code : p.code[j].op = "jmp" => p.code[j].to \in Slots(p, o)
    <2> SUFFICES ASSUME NEW j \in DOMAIN p.code, p.code[j].op = "jmp"
                 PROVE  p.code[j].to \in Slots(p, o)
      OBVIOUS
    <2>1. "fixed" \in Rules
      BY DEF AllRules
    <2>2. p.origin < N /\ p.code[j].to \in Slots(p, p.origin)
      BY <2>1, SdkAssumption
    <2>3. p.origin = o
      BY <1>2, <2>2, Sizes
    <2>4. QED
      BY <2>2, <2>3
  <1> HIDE DEF new
  <1>4. QED
    BY <1>1, <1>2, <1>3 DEF Placed, new

LEMMA PlacedStep ==
    ASSUME Rules = AllRules, TypeInv, PlacedInv, [Next]_vars
    PROVE  PlacedInv'
  <1>1. ASSUME held' \subseteq held
        PROVE  PlacedInv'
    BY <1>1 DEF PlacedInv, Placed, SlotsOf, Slots, Length
  <1>2. ASSUME NEW p \in Programs, NEW o \in Slot, Loads(p, o)
        PROVE  PlacedInv'
    <2>1. held' = held \cup {[program |-> p, offset |-> o]}
      BY <1>2 DEF Loads, Load
    <2>2. Placed([program |-> p, offset |-> o])
      BY <1>2, LoadPlaced
    <2>3. QED
      BY <2>1, <2>2 DEF PlacedInv, Placed, SlotsOf, Slots, Length
  <1>3. CASE UNCHANGED vars
    BY <1>1, <1>3 DEF vars, history
  <1>4. CASE Bus
    BY <1>1, <1>4, BusWrites
  <1>5. CASE ClearMemory
    BY <1>1, <1>5 DEF ClearMemory
  <1>6. CASE \E h \in held : RemoveProgram(h)
    BY <1>1, <1>6 DEF RemoveProgram
  <1>7. CASE \E s \in Sms : (Ready /\ Claims(s)) \/ Unclaim(s)
    BY <1>1, <1>7 DEF Claims, Unclaim
  <1>8. CASE \E set \in SUBSET Sms : Toggles(set)
    BY <1>1, <1>8 DEF Toggles, history
  <1>9. CASE \E s \in Sms, h \in held : SmInit(s, h)
    BY <1>1, <1>9, SmInitWrites
  <1>10. CASE \E s \in Sms : Pinned(s)
    BY <1>1, <1>10 DEF Pinned, Helper
  <1>11. CASE \E s \in Sms : Tick(s)
    BY <1>1, <1>11 DEF Tick
  <1>12. QED
    BY <1>2, <1>3, <1>4, <1>5, <1>6, <1>7, <1>8, <1>9, <1>10, <1>11, StepCases

(* Loading a program writes its code, in order. *)
LEMMA LoadScript ==
    ASSUME NEW p \in Programs, NEW o \in Slot, Loads(p, o)
    PROVE  /\ script = <<>> /\ script' \in Seq(Write) /\ DOMAIN script' = DOMAIN p.code
           /\ \A i \in DOMAIN p.code : script'[i] = WImem(o + i - 1, p.code[i])
           /\ held' = held \cup {[program |-> p, offset |-> o]}
           /\ used \cap Slots(p, o) = {}
           /\ UNCHANGED <<imem, enabled, regs, core, job, wanted>>
  <1> DEFINE n == Length(p)
  <1>1. n \in Nat \ {0} /\ DOMAIN p.code = 1..n /\ o + n <= N
    BY ProgramFacts DEF Loads, Fits
  <1>2. script' = [i \in 1..n |-> WImem(o + i - 1, p.code[i])]
    BY DEF Loads, Load
  <1> HIDE DEF n
  <1>3. ASSUME NEW i \in 1..n
        PROVE  WImem(o + i - 1, p.code[i]) \in Write
    <2>1. o + i - 1 \in Slot
      BY <1>1, Sizes DEF Slot
    <2>2. p.code[i] \in Instruction
      BY <1>1, ProgramFacts
    <2>3. QED
      BY <2>1, <2>2 DEF WImem, Write
  <1>4. script' \in Seq(Write) /\ DOMAIN script' = 1..n
    BY <1>1, <1>2, <1>3
  <1>5. used \cap Slots(p, o) = {}
    <2>1. Slots(p, o) \subseteq Slot
      BY <1>1, SlotsInside DEF n
    <2>2. QED
      BY <2>1 DEF Loads, Fits
  <1>6. QED
    BY <1>1, <1>2, <1>4, <1>5 DEF Loads, Load, Ready, hardware

LEMMA ClearScript ==
    ASSUME ClearMemory
    PROVE  /\ script = <<>> /\ script' \in Seq(Write)
           /\ \A i \in DOMAIN script' : script'[i].reg = "imem"
           /\ held' = {} /\ UNCHANGED <<imem, enabled, regs, core, job, wanted>>
  <1>1. script' = [i \in 1..N |-> WImem(i - 1, Jmp(i - 1))]
    BY DEF ClearMemory
  <1>2. ASSUME NEW i \in 1..N
        PROVE  WImem(i - 1, Jmp(i - 1)) \in Write /\ WImem(i - 1, Jmp(i - 1)).reg = "imem"
    <2>1. i - 1 \in Slot
      BY Sizes DEF Slot
    <2>2. Jmp(i - 1) \in Instruction
      BY <2>1, InstructionKinds
    <2>3. QED
      BY <2>1, <2>2 DEF WImem, Write
  <1>3. script' \in Seq(Write) /\ DOMAIN script' = 1..N
    BY <1>1, <1>2, Sizes
  <1>4. QED
    BY <1>1, <1>2, <1>3 DEF ClearMemory, Ready, hardware

LEMMA TypeStep ==
    ASSUME Rules = AllRules, MemoryInv, PlacedInv, TypeInv, [Next]_vars
    PROVE  TypeInv'
  <1>1. CASE UNCHANGED vars
    BY <1>1 DEF vars, software, hardware, history, TypeInv
  <1>2. CASE Bus
    <2> DEFINE w == script[1]
    <2>1. script' \in Seq(Write)
      <3>1. script \in Seq(Write)
        BY DEF TypeInv
      <3>2. script # <<>> /\ script' = Tail(script)
        BY <1>2, BusWrites
      <3>3. QED
        BY <3>1, <3>2, ScriptTail
    <2>2. w \in Write /\ UNCHANGED <<job, wanted>>
      BY <1>2, BusWrites
    <2>3. CASE w.reg = "imem"
      BY <1>2, <2>1, <2>2, <2>3, BusWrites, WriteKinds DEF TypeInv
    <2>4. CASE w.reg = "ctrl"
      <3>1. \A s \in Sms : [core[s] EXCEPT !.pc = regs[s].bottom] \in Core
        <4> TAKE s \in Sms
        <4>1. core[s] \in Core /\ regs[s].bottom \in Slot
          BY DEF TypeInv, Regs
        <4>2. QED
          BY <4>1 DEF Core
      <3>2. core' = [s \in Sms |-> IF s \in w.restart
                                   THEN [core[s] EXCEPT !.pc = regs[s].bottom] ELSE core[s]]
        BY <1>2, <2>4, BusWrites
      <3> HIDE DEF w
      <3>3. core' \in [Sms -> Core]
        BY <3>1, <3>2 DEF TypeInv
      <3>4. enabled' = w.value /\ UNCHANGED <<imem, regs>>
        BY <1>2, <2>4, BusWrites DEF w
      <3>5. QED
        BY <2>1, <2>2, <2>4, <3>3, <3>4, WriteKinds DEF TypeInv
    <2>5. CASE w.reg = "regs"
      BY <1>2, <2>1, <2>2, <2>5, BusWrites, WriteKinds DEF TypeInv
    <2>6. CASE w.reg = "instr"
      <3>1. w.at \in Sms /\ w.value \in Instruction
        BY <2>2, <2>6, WriteKinds
      <3>2. core' = [core EXCEPT ![w.at] = [core[w.at] EXCEPT !.forced = w.value]]
            /\ UNCHANGED <<imem, enabled, regs>>
        BY <1>2, <2>6, BusWrites
      <3> HIDE DEF w
      <3>3. core[w.at] \in Core
        BY <3>1 DEF TypeInv
      <3>4. [core[w.at] EXCEPT !.forced = w.value] \in Core
        BY <3>1, <3>3 DEF Core
      <3>5. core' \in [Sms -> Core]
        BY <3>1, <3>2, <3>4 DEF TypeInv
      <3>6. QED
        BY <2>1, <2>2, <3>2, <3>5 DEF TypeInv
    <2>7. QED
      BY <2>2, <2>3, <2>4, <2>5, <2>6, WriteKinds
  <1>3. CASE ClearMemory
    BY <1>3, ClearScript DEF TypeInv
  <1>4. ASSUME NEW p \in Programs, NEW o \in Slot, Loads(p, o)
        PROVE  TypeInv'
    BY <1>4, LoadScript DEF TypeInv
  <1>5. CASE (\E h \in held : RemoveProgram(h)) \/ (\E s \in Sms : Ready /\ Claims(s))
    BY <1>5 DEF RemoveProgram, Claims, hardware, TypeInv
  <1>6. ASSUME NEW s \in Sms, Unclaim(s)
        PROVE  TypeInv'
    <2>1. NoJob \in [slots : SUBSET Slot, entry : 0..N, first : 0..N]
      BY Sizes DEF NoJob
    <2>2. job' = [job EXCEPT ![s] = NoJob] /\ UNCHANGED <<script, hardware, wanted>>
      BY <1>6 DEF Unclaim
    <2>3. QED
      BY <2>1, <2>2 DEF hardware, TypeInv
  <1>7. ASSUME NEW set \in SUBSET Sms, Toggles(set)
        PROVE  TypeInv'
    <2>1. WEnable(set) \in Write
      BY DEF WEnable, Write
    <2>2. script' = << WEnable(set) >>
      BY <1>7 DEF Toggles
    <2>3. script' \in Seq(Write)
      BY <2>1, <2>2
    <2>4. QED
      BY <1>7, <2>3 DEF Toggles, hardware, history, TypeInv
  <1>8. ASSUME NEW s \in Sms, NEW h \in held, SmInit(s, h)
        PROVE  TypeInv'
    <2> DEFINE entry == h.offset + h.program.entry
    <2>1. Config(h) \in Regs /\ entry \in 0..(N - 1) /\ SlotsOf(h) \subseteq Slot
      BY HeldFacts
    <2>2. entry \in Slot /\ entry \in 0..N /\ N \in 0..N
      BY <2>1, Sizes DEF Slot
    <2>3. enabled \in SUBSET Sms
      BY DEF TypeInv
    <2> HIDE DEF entry
    <2>4. /\ WRegs(s, Config(h)) \in Write /\ WInstr(s, Jmp(entry)) \in Write
          /\ WRestart(enabled \ {s}, s) \in Write
      BY <2>1, <2>2, <2>3, InstructionKinds DEF WRegs, WInstr, WRestart, Write
    <2>5. script' = << WRegs(s, Config(h)), WRestart(enabled \ {s}, s), WInstr(s, Jmp(entry)) >>
      BY <1>8, SmInitWrites DEF entry
    <2>6. script' \in Seq(Write)
      <3>1. \A a, b, c \in Write : <<a, b, c>> \in Seq(Write)
        OBVIOUS
      <3>2. QED
        BY <2>4, <2>5, <3>1
    <2>7. job' = [job EXCEPT ![s] = [slots |-> SlotsOf(h), entry |-> entry, first |-> N]]
      BY <1>8, SmInitWrites DEF entry
    <2>8. job' \in [Sms -> [slots : SUBSET Slot, entry : 0..N, first : 0..N]]
      BY <2>1, <2>2, <2>7 DEF TypeInv
    <2>9. QED
      BY <1>8, <2>3, <2>6, <2>8, SmInitWrites DEF TypeInv
  <1>9. ASSUME NEW s \in Sms, Pinned(s)
        PROVE  TypeInv'
    <2>1. PICK sets \in Seq(SetRecs), dest \in {"dirs", "outs"}, pins \in SUBSET Pin : Helper(s, sets, dest, pins)
      BY <1>9 DEF Pinned
    <2>2. script' \in Seq(Write)
      BY <2>1, HelperScript
    <2>3. wanted' = [wanted EXCEPT ![s] = [wanted[s] EXCEPT ![dest] = pins]]
      BY <2>1 DEF Helper
    <2>4. [wanted[s] EXCEPT ![dest] = pins] \in Asks
      <3>1. wanted[s] \in Asks
        BY DEF TypeInv
      <3>2. CASE dest = "dirs"
        BY <3>1, <3>2 DEF Asks
      <3>3. CASE dest = "outs"
        BY <3>1, <3>3 DEF Asks
      <3>4. QED
        BY <3>2, <3>3
    <2>5. wanted' \in [Sms -> Asks]
      BY <2>3, <2>4 DEF TypeInv
    <2>6. QED
      BY <2>1, <2>2, <2>5 DEF Helper, hardware, TypeInv
  <1>10. ASSUME NEW s \in Sms, Tick(s)
         PROVE  TypeInv'
    <2> DEFINE i == Current(s)
    <2>1. /\ core' = [core EXCEPT ![s] = core'[s]] /\ core'[s] \in Core
          /\ UNCHANGED <<script, imem, enabled, regs, wanted>>
          /\ job' = IF Forced(s) \/ job[s].first # N THEN job
                    ELSE [job EXCEPT ![s] = [job[s] EXCEPT !.first = core[s].pc]]
      BY <1>10, TickWrites
    <2>2. core' \in [Sms -> Core]
      BY <2>1 DEF TypeInv
    <2>3. [job[s] EXCEPT !.first = core[s].pc] \in [slots : SUBSET Slot, entry : 0..N, first : 0..N]
      <3>1. core[s] \in Core /\ job[s] \in [slots : SUBSET Slot, entry : 0..N, first : 0..N]
        BY DEF TypeInv
      <3>2. core[s].pc \in 0..N
        BY <3>1, Sizes DEF Core, Slot
      <3>3. QED
        BY <3>1, <3>2
    <2>4. job' \in [Sms -> [slots : SUBSET Slot, entry : 0..N, first : 0..N]]
      BY <2>1, <2>3 DEF TypeInv
    <2>5. QED
      BY <2>1, <2>2, <2>4 DEF TypeInv
  <1>11. QED
    BY <1>1, <1>2, <1>3, <1>4, <1>5, <1>6, <1>7, <1>8, <1>9, <1>10, StepCases

----------------------------------------------------------------------------
(***************************************************************************)
(* What is fetched: the contents of instruction memory.                    *)
(***************************************************************************)
LEMMA WriteFields ==
    /\ \A a, i : WImem(a, i).reg = "imem" /\ WImem(a, i).at = a /\ WImem(a, i).value = i
    /\ \A set : WEnable(set).reg = "ctrl" /\ WEnable(set).value = set /\ WEnable(set).restart = {}
    /\ \A set, s : /\ WRestart(set, s).reg = "ctrl" /\ WRestart(set, s).value = set
                   /\ WRestart(set, s).restart = {s}
    /\ \A s, r : WRegs(s, r).reg = "regs" /\ WRegs(s, r).at = s /\ WRegs(s, r).value = r
    /\ \A s, i : WInstr(s, i).reg = "instr" /\ WInstr(s, i).at = s /\ WInstr(s, i).value = i
  BY DEF WImem, WEnable, WRestart, WRegs, WInstr

(* The three writes of pio_sm_init. *)
LEMMA ThreeWrites ==
    ASSUME NEW a, NEW b, NEW c, NEW q, q = <<a, b, c>>
    PROVE  \A i \in DOMAIN q : i \in {1, 2, 3} /\ q[i] \in {a, b, c}
  OBVIOUS

LEMMA OneWrite ==
    ASSUME NEW a, NEW q, q = <<a>>
    PROVE  \A i \in DOMAIN q : q[i] = a
  OBVIOUS

LEMMA SmInitScript ==
    ASSUME TypeInv, NEW s \in Sms, NEW h \in held, SmInit(s, h), NEW i \in DOMAIN script'
    PROVE  \/ script'[i].reg = "regs" /\ script'[i].at = s /\ script'[i].value = Config(h)
           \/ /\ script'[i].reg = "ctrl" /\ script'[i].value = enabled \ {s}
              /\ script'[i].restart = {s}
           \/ /\ script'[i].reg = "instr" /\ script'[i].at = s
              /\ script'[i].value = Jmp(h.offset + h.program.entry)
  <1> DEFINE a == WRegs(s, Config(h))
             b == WRestart(enabled \ {s}, s)
             c == WInstr(s, Jmp(h.offset + h.program.entry))
  <1>1. script' = <<a, b, c>>
    BY SmInitWrites
  <1>2. /\ a.reg = "regs" /\ a.at = s /\ a.value = Config(h)
        /\ b.reg = "ctrl" /\ b.value = enabled \ {s} /\ b.restart = {s}
        /\ c.reg = "instr" /\ c.at = s /\ c.value = Jmp(h.offset + h.program.entry)
    BY WriteFields
  <1> HIDE DEF a, b, c
  <1>3. script'[i] = a \/ script'[i] = b \/ script'[i] = c
    BY <1>1, ThreeWrites
  <1>4. QED
    BY <1>2, <1>3

(* Calls that write registers of machines and leave the memory alone. *)
MachineCall == \/ \E set \in SUBSET Sms : Toggles(set)
               \/ \E s \in Sms, h \in held : SmInit(s, h)
               \/ \E s \in Sms : Pinned(s)

LEMMA MachineCallScript ==
    ASSUME TypeInv, MachineCall
    PROVE  /\ script = <<>> /\ UNCHANGED <<imem, held>>
           /\ \A i \in DOMAIN script' : script'[i].reg # "imem"
  <1>1. ASSUME NEW set \in SUBSET Sms, Toggles(set)
        PROVE  /\ script = <<>> /\ UNCHANGED <<imem, held>>
               /\ \A i \in DOMAIN script' : script'[i].reg # "imem"
    <2>1. script' = << WEnable(set) >> /\ script = <<>> /\ UNCHANGED <<imem, held>>
      BY <1>1 DEF Toggles, Ready, hardware, history
    <2>2. \A i \in DOMAIN script' : script'[i] = WEnable(set)
      BY <2>1, OneWrite
    <2>3. QED
      BY <2>1, <2>2, WriteFields
  <1>2. ASSUME NEW s \in Sms, NEW h \in held, SmInit(s, h)
        PROVE  /\ script = <<>> /\ UNCHANGED <<imem, held>>
               /\ \A i \in DOMAIN script' : script'[i].reg # "imem"
    <2>1. \A i \in DOMAIN script' : script'[i].reg # "imem"
      BY <1>2, SmInitScript
    <2>2. QED
      BY <1>2, <2>1, SmInitWrites DEF Ready
  <1>3. ASSUME NEW s \in Sms, Pinned(s)
        PROVE  /\ script = <<>> /\ UNCHANGED <<imem, held>>
               /\ \A i \in DOMAIN script' : script'[i].reg # "imem"
    <2>1. PICK sets \in Seq(SetRecs), dest \in {"dirs", "outs"}, pins \in SUBSET Pin : Helper(s, sets, dest, pins)
      BY <1>3 DEF Pinned
    <2>2. \A i \in DOMAIN script' : script'[i].reg # "imem"
      BY <2>1, HelperScript
    <2>3. QED
      BY <2>1, <2>2 DEF Helper, Ready, hardware
  <1>4. QED
    BY <1>1, <1>2, <1>3 DEF MachineCall

LEMMA ImageStep ==
    ASSUME Rules = AllRules, LibraryInv, ImageInv, [Next]_vars
    PROVE  ImageInv'
  <1> USE DEF LibraryInv
  <1>1. ASSUME UNCHANGED <<imem, script>>, held' \subseteq held
        PROVE  ImageInv'
    BY <1>1 DEF ImageInv, Copied
  <1>2. CASE Bus
    <2> DEFINE w == script[1]
    <2>1. script \in Seq(Write) /\ script # <<>> /\ script' = Tail(script) /\ held' = held /\ w \in Write
      BY <1>2, BusWrites DEF TypeInv
    <2>2. /\ 1 \in DOMAIN script
          /\ \A i \in DOMAIN script' : i + 1 \in DOMAIN script /\ script'[i] = script[i + 1]
          /\ \A i \in DOMAIN script : i # 1 => i - 1 \in DOMAIN script' /\ script'[i - 1] = script[i]
      BY <2>1, ScriptTail
    <2>3. ASSUME NEW h \in held, NEW j \in DOMAIN h.program.code
          PROVE  \/ imem'[h.offset + j - 1] = h.program.code[j]
                 \/ \E i \in DOMAIN script' : script'[i] = Code(h, j)
      <3> DEFINE a == h.offset + j - 1
      <3>1. a \in Slot /\ Code(h, j).reg = "imem" /\ Code(h, j).at = a
        BY HeldFacts, WriteFields DEF Code
      <3>2. CASE w.reg = "imem" /\ w.at = a
        <4>1. imem' = [imem EXCEPT ![a] = w.value]
          BY <1>2, <3>2, BusWrites
        <4>2. w.value = h.program.code[j]
          BY <2>2, <3>2 DEF ImageInv
        <4>3. QED
          BY <3>1, <4>1, <4>2 DEF TypeInv
      <3>3. CASE ~(w.reg = "imem" /\ w.at = a)
        <4>1. imem'[a] = imem[a]
          <5>1. w.reg = "imem" => imem' = [imem EXCEPT ![w.at] = w.value]
            BY <1>2, BusWrites
          <5>2. w.reg # "imem" => imem' = imem
            BY <1>2, <2>1, BusWrites, WriteKinds
          <5>3. QED
            BY <3>1, <3>3, <5>1, <5>2 DEF TypeInv
        <4>2. script[1] # Code(h, j)
          BY <3>1, <3>3
        <4>3. Copied(h, j) \/ \E i \in DOMAIN script : script[i] = Code(h, j)
          BY DEF ImageInv
        <4>4. QED
          BY <2>2, <4>1, <4>2, <4>3 DEF Copied
      <3>4. QED
        BY <3>2, <3>3
    <2>4. ASSUME NEW i \in DOMAIN script', script'[i].reg = "imem", NEW h \in held,
                 NEW j \in DOMAIN h.program.code, script'[i].at = h.offset + j - 1
          PROVE  script'[i].value = h.program.code[j]
      BY <2>2, <2>4 DEF ImageInv
    <2>5. QED
      BY <2>1, <2>3, <2>4 DEF ImageInv, Copied, Code
  <1>3. CASE ClearMemory
    BY <1>3, ClearScript DEF ImageInv
  <1>4. ASSUME NEW p \in Programs, NEW o \in Slot, Loads(p, o)
        PROVE  ImageInv'
    <2> DEFINE new == [program |-> p, offset |-> o]
    <2>1. new.program = p /\ new.offset = o
      OBVIOUS
    <2>2. /\ script = <<>> /\ held' = held \cup {new} /\ imem' = imem /\ DOMAIN script' = DOMAIN p.code
          /\ \A i \in DOMAIN p.code : script'[i] = WImem(o + i - 1, p.code[i])
          /\ used \cap Slots(p, o) = {}
      BY <1>4, LoadScript
    <2>3. DOMAIN p.code = 1..Length(p) /\ Length(p) \in Nat /\ o \in Nat
      BY ProgramFacts DEF Slot
    <2> HIDE DEF new
    <2>4. \A j \in DOMAIN p.code : script'[j] = Code(new, j)
      BY <2>1, <2>2 DEF Code
    <2>5. \A h \in held : \A j \in DOMAIN h.program.code : imem'[h.offset + j - 1] = h.program.code[j]
      BY <2>2 DEF ImageInv, Copied
    <2>6. ASSUME NEW i \in DOMAIN p.code, NEW h \in held, NEW j \in DOMAIN h.program.code
          PROVE  script'[i].at # h.offset + j - 1
      <3>1. h.offset + j - 1 \in used
        BY HeldFacts DEF MemoryInv
      <3>2. o + i - 1 \in Slots(p, o)
        BY <2>3 DEF Slots
      <3>3. QED
        BY <2>2, <3>1, <3>2, WriteFields
    <2>7. ASSUME NEW i \in DOMAIN p.code, NEW j \in DOMAIN p.code, script'[i].at = o + j - 1
          PROVE  script'[i].value = p.code[j]
      <3>1. o + i - 1 = o + j - 1
        BY <2>2, <2>7, WriteFields
      <3>2. i = j
        BY <2>3, <3>1
      <3>3. QED
        BY <2>2, <3>2, WriteFields
    <2>8. QED
      BY <2>1, <2>2, <2>4, <2>5, <2>6, <2>7 DEF ImageInv, Copied, Code
  <1>5. CASE MachineCall
    BY <1>5, MachineCallScript DEF ImageInv, Copied
  <1>6. CASE \E h \in held : RemoveProgram(h)
    BY <1>1, <1>6 DEF RemoveProgram, hardware
  <1>7. CASE \E s \in Sms : (Ready /\ Claims(s)) \/ Unclaim(s)
    BY <1>1, <1>7 DEF Claims, Unclaim, hardware
  <1>8. CASE \E s \in Sms : Tick(s)
    BY <1>1, <1>8 DEF Tick
  <1>9. CASE UNCHANGED vars
    BY <1>1, <1>9 DEF vars, hardware, history
  <1>10. QED
    BY <1>2, <1>3, <1>4, <1>5, <1>6, <1>7, <1>8, <1>9, StepCases DEF MachineCall

LEMMA JobStep ==
    ASSUME Rules = AllRules, LibraryInv, ImageInv, JobInv, EnableInv, [Next]_vars
    PROVE  JobInv'
  <1> USE DEF LibraryInv
  <1>1. ASSUME UNCHANGED <<imem, job>>, held \subseteq held'
        PROVE  JobInv'
    BY <1>1 DEF JobInv, HasJob, JobOf, Copied
  <1>2. CASE Bus
    <2> DEFINE w == script[1]
    <2>1. script \in Seq(Write) /\ script # <<>> /\ UNCHANGED <<held, job>> /\ w \in Write
      BY <1>2, BusWrites DEF TypeInv
    <2>2. 1 \in DOMAIN script
      BY <2>1, ScriptTail
    <2>3. CASE w.reg = "imem"
      <3>1. imem' = [imem EXCEPT ![w.at] = w.value]
        BY <1>2, <2>3, BusWrites
      <3>2. ASSUME NEW h \in held, NEW j \in DOMAIN h.program.code, Copied(h, j)
            PROVE  Copied(h, j)'
        <4>1. h.offset + j - 1 \in Slot
          BY HeldFacts
        <4>2. w.at = h.offset + j - 1 => w.value = h.program.code[j]
          BY <2>2, <2>3 DEF ImageInv
        <4>3. QED
          BY <3>1, <3>2, <4>1, <4>2 DEF Copied, TypeInv
      <3>3. QED
        BY <2>1, <3>2 DEF JobInv, HasJob, JobOf
    <2>4. CASE w.reg # "imem"
      BY <1>1, <1>2, <2>1, <2>4, BusWrites, WriteKinds
    <2>5. QED
      BY <2>3, <2>4
  <1>3. CASE ClearMemory
    <2>1. \A s \in Sms : job[s] = NoJob
      BY <1>3 DEF ClearMemory, AllRules
    <2>2. QED
      BY <1>3, <2>1, ClearScript DEF JobInv, HasJob
  <1>4. ASSUME NEW p \in Programs, NEW o \in Slot, Loads(p, o)
        PROVE  JobInv'
    BY <1>1, <1>4, LoadScript
  <1>5. ASSUME NEW g \in held, RemoveProgram(g)
        PROVE  JobInv'
    <2>1. \A s \in Sms : job[s].slots # SlotsOf(g)
      BY <1>5 DEF RemoveProgram, AllRules, SlotsOf
    <2>2. held' = held \ {g} /\ UNCHANGED <<imem, job>>
      BY <1>5 DEF RemoveProgram, hardware
    <2>3. QED
      BY <2>1, <2>2 DEF JobInv, HasJob, JobOf, Copied
  <1>6. ASSUME NEW s \in Sms, Unclaim(s)
        PROVE  JobInv'
    <2>1. job' = [job EXCEPT ![s] = NoJob] /\ UNCHANGED <<imem, held>>
      BY <1>6 DEF Unclaim, hardware
    <2>2. \A t \in Sms : job'[t] = IF t = s THEN NoJob ELSE job[t]
      BY <2>1 DEF TypeInv
    <2>3. QED
      BY <2>1, <2>2 DEF JobInv, HasJob, JobOf, Copied
  <1>7. ASSUME NEW s \in Sms, NEW h \in held, SmInit(s, h)
        PROVE  JobInv'
    <2> DEFINE new == [slots |-> SlotsOf(h), entry |-> h.offset + h.program.entry, first |-> N]
    <2>1. job' = [job EXCEPT ![s] = new] /\ UNCHANGED <<imem, held>> /\ script = <<>>
      BY <1>7, SmInitWrites DEF Ready
    <2>2. new.slots = SlotsOf(h) /\ new.entry = h.offset + h.program.entry
      OBVIOUS
    <2> HIDE DEF new
    <2>3. \A t \in Sms : job'[t] = IF t = s THEN new ELSE job[t]
      BY <2>1 DEF TypeInv
    <2>4. \A j \in DOMAIN h.program.code : Copied(h, j)
      BY <2>1 DEF ImageInv
    <2>5. QED
      BY <2>1, <2>2, <2>3, <2>4 DEF JobInv, HasJob, JobOf, Copied
  <1>8. ASSUME NEW s \in Sms, Tick(s)
        PROVE  JobInv'
    <2>1. /\ s \in enabled /\ UNCHANGED <<imem, held>>
          /\ job' = IF Forced(s) \/ job[s].first # N THEN job
                    ELSE [job EXCEPT ![s] = [job[s] EXCEPT !.first = core[s].pc]]
      BY <1>8, TickWrites
    <2>2. \A t \in Sms : job'[t].slots = job[t].slots /\ job'[t].entry = job[t].entry /\ (t # s => job'[t] = job[t])
      BY <2>1 DEF TypeInv
    <2>3. \A t \in Sms : HasJob(t)' => HasJob(t)
      BY <2>1, <2>2 DEF HasJob, EnableInv
    <2>4. QED
      BY <2>1, <2>2, <2>3 DEF JobInv, JobOf, Copied
  <1>9. CASE \E s \in Sms : Ready /\ Claims(s)
    BY <1>1, <1>9 DEF Claims, hardware
  <1>10. CASE \E set \in SUBSET Sms : Toggles(set)
    BY <1>1, <1>10 DEF Toggles, hardware, history
  <1>11. CASE \E s \in Sms : Pinned(s)
    BY <1>1, <1>11 DEF Pinned, Helper, hardware
  <1>12. CASE UNCHANGED vars
    BY <1>1, <1>12 DEF vars, hardware, history
  <1>13. QED
    BY <1>2, <1>3, <1>4, <1>5, <1>6, <1>7, <1>8, <1>9, <1>10, <1>11, <1>12, StepCases

----------------------------------------------------------------------------
(***************************************************************************)
(* Which machines run, and from where.                                     *)
(***************************************************************************)
(* The scripts of calls, write by write. *)
LEMMA ToggleScript ==
    ASSUME NEW set \in SUBSET Sms, Toggles(set)
    PROVE  /\ script = <<>> /\ UNCHANGED <<enabled, regs, core, job>>
           /\ \A i \in DOMAIN script' : script'[i] = WEnable(set)
  <1>1. script' = << WEnable(set) >>
    BY DEF Toggles
  <1>2. QED
    BY <1>1, OneWrite DEF Toggles, Ready, hardware, history

LEMMA PinnedScript ==
    ASSUME Rules = AllRules, TypeInv, NEW s \in Sms, Pinned(s)
    PROVE  /\ script = <<>> /\ s \in enabled /\ UNCHANGED <<enabled, regs, core, job>>
           /\ \A i \in DOMAIN script' :
                 \/ /\ script'[i].reg = "regs" /\ script'[i].at = s
                    /\ script'[i].value.bottom = regs[s].bottom /\ script'[i].value.top = regs[s].top
                 \/ script'[i].reg = "instr" /\ script'[i].at = s /\ script'[i].value.op = "set"
  <1>1. PICK sets \in Seq(SetRecs), dest \in {"dirs", "outs"}, pins \in SUBSET Pin : Helper(s, sets, dest, pins)
    BY DEF Pinned
  <1>2. script = <<>> /\ s \in enabled /\ UNCHANGED <<enabled, regs, core, job>>
    BY <1>1 DEF Helper, Ready, AllRules, hardware
  <1>3. QED
    BY <1>1, <1>2, HelperScript, InstructionKinds

LEMMA EnableStep ==
    ASSUME Rules = AllRules, LibraryInv, EnableInv, [Next]_vars
    PROVE  EnableInv'
  <1> USE DEF LibraryInv
  <1>1. ASSUME UNCHANGED <<enabled, job>>, \A i \in DOMAIN script' : script'[i].reg # "ctrl"
        PROVE  EnableInv'
    BY <1>1 DEF EnableInv, HasJob
  <1>2. CASE Bus
    <2> DEFINE w == script[1]
    <2>1. script \in Seq(Write) /\ script # <<>> /\ script' = Tail(script) /\ job' = job /\ w \in Write
      BY <1>2, BusWrites DEF TypeInv
    <2>2. /\ 1 \in DOMAIN script
          /\ \A i \in DOMAIN script' : i + 1 \in DOMAIN script /\ script'[i] = script[i + 1]
      BY <2>1, ScriptTail
    <2>3. enabled' = IF w.reg = "ctrl" THEN w.value ELSE enabled
      BY <1>2, <2>1, BusWrites, WriteKinds
    <2>4. \A s \in enabled' : HasJob(s)
      BY <2>2, <2>3 DEF EnableInv
    <2>5. QED
      BY <2>1, <2>2, <2>4 DEF EnableInv, HasJob
  <1>3. CASE ClearMemory
    BY <1>1, <1>3, ClearScript
  <1>4. ASSUME NEW p \in Programs, NEW o \in Slot, Loads(p, o)
        PROVE  EnableInv'
    BY <1>1, <1>4, LoadScript, WriteFields
  <1>5. ASSUME NEW s \in Sms, Unclaim(s)
        PROVE  EnableInv'
    <2>1. s \notin enabled /\ script = <<>> /\ UNCHANGED <<enabled, script>> /\ job' = [job EXCEPT ![s] = NoJob]
      BY <1>5 DEF Unclaim, Ready, hardware
    <2>2. \A t \in Sms : t # s => job'[t] = job[t]
      BY <2>1 DEF TypeInv
    <2>3. QED
      BY <2>1, <2>2 DEF EnableInv, HasJob, TypeInv
  <1>6. ASSUME NEW set \in SUBSET Sms, Toggles(set)
        PROVE  EnableInv'
    <2>1. /\ UNCHANGED <<enabled, job>>
          /\ \A i \in DOMAIN script' : script'[i] = WEnable(set)
      BY <1>6, ToggleScript
    <2>2. \A s \in set : HasJob(s)
      BY <1>6 DEF Toggles, EnableInv, HasJob
    <2>3. QED
      BY <2>1, <2>2, WriteFields DEF EnableInv, HasJob
  <1>7. ASSUME NEW s \in Sms, NEW h \in held, SmInit(s, h)
        PROVE  EnableInv'
    <2> DEFINE new == [slots |-> SlotsOf(h), entry |-> h.offset + h.program.entry, first |-> N]
    <2>1. job' = [job EXCEPT ![s] = new] /\ enabled' = enabled \ {s}
      BY <1>7, SmInitWrites
    <2>2. new # NoJob
      <3>1. h.offset + h.program.entry \in 0..(N - 1)
        BY HeldFacts
      <3>2. new.entry # N /\ NoJob.entry = N
        BY <3>1, Sizes DEF NoJob
      <3>3. QED
        BY <3>2
    <2> HIDE DEF new
    <2>3. \A t \in Sms : job'[t] = IF t = s THEN new ELSE job[t]
      BY <2>1 DEF TypeInv
    <2>4. \A t \in enabled : t \in Sms /\ HasJob(t)'
      BY <2>2, <2>3 DEF EnableInv, HasJob, TypeInv
    <2>5. ASSUME NEW i \in DOMAIN script', script'[i].reg = "ctrl"
          PROVE  script'[i].value = enabled \ {s}
      BY <1>7, <2>5, SmInitScript
    <2>6. QED
      BY <2>1, <2>4, <2>5 DEF EnableInv
  <1>8. ASSUME NEW s \in Sms, Tick(s)
        PROVE  EnableInv'
    <2>1. /\ UNCHANGED <<enabled, script>>
          /\ job' = IF Forced(s) \/ job[s].first # N THEN job
                    ELSE [job EXCEPT ![s] = [job[s] EXCEPT !.first = core[s].pc]]
      BY <1>8, TickWrites
    <2>2. core[s].pc # N
      <3>1. core[s] \in Core
        BY DEF TypeInv
      <3>2. QED
        BY <3>1, Sizes DEF Core, Slot
    <2>3. \A t \in Sms : HasJob(t) => HasJob(t)'
      <3> TAKE t \in Sms
      <3>1. CASE job' = job
        BY <3>1 DEF HasJob
      <3>2. CASE job' = [job EXCEPT ![s] = [job[s] EXCEPT !.first = core[s].pc]]
        <4>1. job[s] \in [slots : SUBSET Slot, entry : 0..N, first : 0..N]
          BY DEF TypeInv
        <4>2. job'[s].first # N /\ (t # s => job'[t] = job[t])
          BY <2>2, <3>2, <4>1 DEF TypeInv
        <4>3. QED
          BY <4>2 DEF HasJob, NoJob
      <3>3. QED
        BY <2>1, <3>1, <3>2
    <2>4. enabled \subseteq Sms /\ \A i \in DOMAIN script : script[i].reg = "ctrl" => script[i].value \subseteq Sms
      <3>1. \A i \in DOMAIN script : script[i] \in Write
        BY DEF TypeInv
      <3>2. QED
        BY <3>1, WriteKinds DEF TypeInv
    <2>5. QED
      BY <2>1, <2>3, <2>4 DEF EnableInv
  <1>9. ASSUME NEW s \in Sms, Pinned(s)
        PROVE  EnableInv'
    BY <1>1, <1>9, PinnedScript
  <1>10. CASE UNCHANGED <<enabled, job, script>>
    BY <1>10 DEF EnableInv, HasJob
  <1>11. CASE UNCHANGED vars
    BY <1>10, <1>11 DEF vars, hardware, history
  <1>12. CASE (\E h \in held : RemoveProgram(h)) \/ \E s \in Sms : Ready /\ Claims(s)
    BY <1>10, <1>12 DEF RemoveProgram, Claims, hardware
  <1>13. QED
    BY <1>2, <1>3, <1>4, <1>5, <1>6, <1>7, <1>8, <1>9, <1>11, <1>12, StepCases

LEMMA SetStep ==
    ASSUME Rules = AllRules, LibraryInv, SetInv, [Next]_vars
    PROVE  SetInv'
  <1> USE DEF LibraryInv
  <1>1. ASSUME \A i \in DOMAIN script' : script'[i].reg # "instr" \/ script'[i].value.op # "set"
        PROVE  SetInv'
    BY <1>1 DEF SetInv
  <1>2. CASE Bus
    <2> DEFINE w == script[1]
    <2>1. script \in Seq(Write) /\ script # <<>> /\ script' = Tail(script) /\ w \in Write
      BY <1>2, BusWrites DEF TypeInv
    <2>2. /\ 1 \in DOMAIN script
          /\ \A i \in DOMAIN script' : i + 1 \in DOMAIN script /\ script'[i] = script[i + 1]
      BY <2>1, ScriptTail
    <2>3. w.reg # "ctrl" => enabled' = enabled
      BY <1>2, <2>1, BusWrites, WriteKinds
    <2>4. QED
      BY <2>2, <2>3 DEF SetInv
  <1>3. CASE ClearMemory
    BY <1>1, <1>3, ClearScript
  <1>4. ASSUME NEW p \in Programs, NEW o \in Slot, Loads(p, o)
        PROVE  SetInv'
    BY <1>1, <1>4, LoadScript, WriteFields
  <1>5. ASSUME NEW set \in SUBSET Sms, Toggles(set)
        PROVE  SetInv'
    BY <1>1, <1>5, ToggleScript, WriteFields
  <1>6. ASSUME NEW s \in Sms, NEW h \in held, SmInit(s, h)
        PROVE  SetInv'
    <2>1. \A i \in DOMAIN script' : script'[i].reg # "instr" \/ script'[i].value.op # "set"
      <3>1. Jmp(h.offset + h.program.entry).op # "set"
        BY InstructionKinds
      <3>2. QED
        BY <1>6, <3>1, SmInitScript
    <2>2. QED
      BY <1>1, <2>1
  <1>7. ASSUME NEW s \in Sms, Pinned(s)
        PROVE  SetInv'
    <2>1. /\ s \in enabled /\ enabled' = enabled
          /\ \A i \in DOMAIN script' : script'[i].reg # "ctrl" /\ script'[i].at = s
      BY <1>7, PinnedScript
    <2>2. QED
      BY <2>1 DEF SetInv
  <1>8. CASE UNCHANGED <<enabled, script>>
    BY <1>8 DEF SetInv
  <1>9. CASE UNCHANGED vars
    BY <1>8, <1>9 DEF vars, hardware
  <1>10. CASE \/ \E h \in held : RemoveProgram(h)
              \/ \E s \in Sms : (Ready /\ Claims(s)) \/ Unclaim(s)
    BY <1>8, <1>10 DEF RemoveProgram, Claims, Unclaim, hardware
  <1>11. CASE \E s \in Sms : Tick(s)
    BY <1>8, <1>11 DEF Tick
  <1>12. QED
    BY <1>2, <1>3, <1>4, <1>5, <1>6, <1>7, <1>9, <1>10, <1>11, StepCases

(* What a machine's job gives its program counter. *)
LEMMA JobFacts ==
    ASSUME LibraryInv, JobInv, NEW s \in Sms, HasJob(s)
    PROVE  /\ job[s].slots \subseteq Slot
           /\ job[s].entry \in job[s].slots /\ job[s].entry \in 0..(N - 1)
           /\ \A a \in job[s].slots : imem[a].op = "jmp" => imem[a].to \in job[s].slots
           /\ \A a \in job[s].slots, b \in job[s].slots : a < b => a + 1 \in job[s].slots
  <1>1. PICK h \in held : JobOf(s, h)
    BY DEF JobInv
  <1>2. /\ job[s].slots = SlotsOf(h) /\ job[s].entry = h.offset + h.program.entry
        /\ \A j \in DOMAIN h.program.code : imem[h.offset + j - 1] = h.program.code[j]
    BY <1>1 DEF JobOf, Copied
  <1>3. /\ h.offset \in Nat /\ SlotsOf(h) \subseteq Slot
        /\ \A a \in SlotsOf(h) : a - h.offset + 1 \in DOMAIN h.program.code
        /\ h.offset + h.program.entry \in SlotsOf(h) /\ h.offset + h.program.entry \in 0..(N - 1)
    BY HeldFacts DEF LibraryInv, Slot
  <1>4. ASSUME NEW a \in SlotsOf(h), imem[a].op = "jmp"
        PROVE  imem[a].to \in SlotsOf(h)
    <2> DEFINE j == a - h.offset + 1
    <2>1. j \in DOMAIN h.program.code /\ h.offset + j - 1 = a
      BY <1>3 DEF Slot
    <2>2. imem[a] = h.program.code[j]
      BY <1>2, <2>1
    <2>3. QED
      BY <1>4, <2>1, <2>2 DEF LibraryInv, PlacedInv, Placed
  <1>5. ASSUME NEW a \in SlotsOf(h), NEW b \in SlotsOf(h), a < b
        PROVE  a + 1 \in SlotsOf(h)
    <2>1. Length(h.program) \in Nat
      BY HeldFacts, ProgramFacts DEF LibraryInv
    <2>2. SlotsOf(h) = h.offset..(h.offset + Length(h.program) - 1)
      BY DEF SlotsOf, Slots
    <2>3. QED
      BY <1>3, <1>5, <2>1, <2>2
  <1>6. QED
    BY <1>2, <1>3, <1>4, <1>5

LEMMA NotSet ==
    ASSUME NEW s, s \in Sms, core[s].forced = None
    PROVE  ~Forced(s) /\ core[s].forced.op = "none"
  BY InstructionKinds DEF Forced

(* The calls find no writes left, and write what every started machine     *)
(* keeps.                                                                  *)
LEMMA QuietStep ==
    ASSUME NEW s \in Sms, Starting(s) \/ Started(s), script = <<>>,
           core'[s] = core[s], regs'[s] = regs[s], job'[s] = job[s],
           \A i \in DOMAIN script' : Keeps(s, script'[i])
    PROVE  Started(s)'
  <1>1. ~Starting(s)
    BY DEF Starting
  <1>2. QED
    BY <1>1 DEF Started, Wrapped, Going, Keeps

LEMMA BusRuns ==
    ASSUME Rules = AllRules, LibraryInv, JobInv, SetInv, Bus, NEW s \in Sms, HasJob(s),
           Starting(s) \/ Started(s)
    PROVE  Starting(s)' \/ Started(s)'
  <1> USE DEF LibraryInv
  <1> DEFINE w == script[1]
  <1>1. script \in Seq(Write) /\ script # <<>> /\ script' = Tail(script) /\ w \in Write /\ job' = job
    BY BusWrites DEF TypeInv
  <1>2. /\ 1 \in DOMAIN script
        /\ \A i \in DOMAIN script' : i + 1 \in DOMAIN script /\ script'[i] = script[i + 1]
    BY <1>1, ScriptTail
  <1>3. core \in [Sms -> Core] /\ regs \in [Sms -> Regs]
    BY DEF TypeInv
  <1>4. CASE Starting(s)
    <2> DEFINE restart == WRestart(enabled, s)
               jump == Jump(s)
    <2>1. /\ s \notin enabled /\ job[s].first = N
          /\ restart.reg = "ctrl" /\ restart.value = enabled /\ restart.restart = {s}
          /\ jump.reg = "instr" /\ jump.at = s /\ jump.value = Jmp(job[s].entry)
      BY <1>4, WriteFields DEF Starting, Jump
    <2> HIDE DEF restart, jump
    <2>2. ASSUME NEW r \in Regs, Wrapped(s, r), script = <<WRegs(s, r), restart, jump>>
          PROVE  Starting(s)'
      <3>1. w.reg = "regs" /\ w.at = s /\ w.value = r /\ script' = <<restart, jump>>
        BY <1>1, <2>2, WriteFields
      <3>2. regs'[s] = r /\ enabled' = enabled
        BY <1>3, <3>1, BusWrites
      <3>3. Wrapped(s, regs[s])' /\ restart = WRestart(enabled, s)' /\ jump = Jump(s)'
        BY <1>1, <2>2, <3>2 DEF Wrapped, restart, jump, Jump
      <3>4. QED
        BY <1>1, <2>1, <3>1, <3>2, <3>3 DEF Starting
    <2>3. ASSUME Wrapped(s, regs[s]), script = <<restart, jump>>
          PROVE  Starting(s)'
      <3>1. w = restart /\ script' = <<jump>>
        BY <1>1, <2>3
      <3>2. regs' = regs /\ enabled' = enabled
        BY <2>1, <3>1, BusWrites
      <3>3. Wrapped(s, regs[s])' /\ jump = Jump(s)'
        BY <1>1, <2>3, <3>2 DEF Wrapped, jump, Jump
      <3>4. QED
        BY <1>1, <2>1, <3>1, <3>2, <3>3 DEF Starting
    <2>4. ASSUME Wrapped(s, regs[s]), script = <<jump>>
          PROVE  Started(s)'
      <3>1. w = jump /\ script' = <<>>
        BY <1>1, <2>4
      <3>2. /\ regs' = regs
            /\ core' = [core EXCEPT ![s] = [core[s] EXCEPT !.forced = Jmp(job[s].entry)]]
        BY <2>1, <3>1, BusWrites
      <3>3. core'[s].forced = Jmp(job[s].entry)
        <4>1. core[s] \in Core
          BY <1>3
        <4>2. core'[s] = [core[s] EXCEPT !.forced = Jmp(job[s].entry)]
          BY <1>3, <3>2
        <4>3. QED
          BY <4>1, <4>2 DEF Core
      <3>4. QED
        BY <1>1, <2>1, <2>4, <3>1, <3>2, <3>3 DEF Started, Wrapped, Going
    <2>5. QED
      BY <1>4, <2>2, <2>3, <2>4 DEF Starting, restart, jump
  <1>5. CASE Started(s)
    <2>1. Keeps(s, w) /\ \A i \in DOMAIN script' : Keeps(s, script'[i])
      BY <1>2, <1>5 DEF Started
    <2>2. (\A i \in DOMAIN script : Keeps(s, script[i]))'
      BY <1>1, <2>1 DEF Keeps, Wrapped
    <2>3. Wrapped(s, regs[s])'
      <3>1. CASE w.reg = "regs" /\ w.at = s
        <4>1. regs'[s] = w.value
          BY <1>3, <3>1, BusWrites
        <4>2. QED
          BY <1>1, <2>1, <3>1, <4>1 DEF Keeps, Wrapped
      <3>2. CASE ~(w.reg = "regs" /\ w.at = s)
        <4>1. regs'[s] = regs[s]
          <5>1. w.reg = "regs" => regs' = [regs EXCEPT ![w.at] = w.value]
            BY BusWrites
          <5>2. w.reg # "regs" => regs' = regs
            BY <1>1, BusWrites, WriteKinds
          <5>3. QED
            BY <1>3, <3>2, <5>1, <5>2
        <4>2. QED
          BY <1>1, <1>5, <4>1 DEF Started, Wrapped
      <3>3. QED
        BY <3>1, <3>2
    <2>4. Going(s)'
      <3>1. CASE w.reg = "instr" /\ w.at = s
        <4>1. w.value.op = "set" /\ s \in enabled
          BY <1>2, <2>1, <3>1 DEF Keeps, SetInv
        <4>2. ~Forced(s)
          BY <4>1, BusWrites DEF AllRules, Settled
        <4>3. core'[s].forced = w.value /\ core'[s].pc = core[s].pc
          <5>1. core[s] \in Core
            BY <1>3
          <5>2. core'[s] = [core[s] EXCEPT !.forced = w.value]
            BY <1>3, <3>1, BusWrites
          <5>3. QED
            BY <5>1, <5>2 DEF Core
        <4>4. /\ core[s].pc \in job[s].slots
              /\ job[s].first = N => core[s].pc = job[s].entry
              /\ job[s].first \in {N, job[s].entry}
          <5>1. core[s].forced # Jmp(job[s].entry)
            BY <4>2, InstructionKinds DEF Forced
          <5>2. QED
            BY <1>5, <5>1 DEF Started, Going
        <4>5. QED
          BY <1>1, <4>1, <4>3, <4>4 DEF Going
      <3>2. CASE ~(w.reg = "instr" /\ w.at = s)
        <4>1. core'[s] = core[s]
          <5>1. CASE w.reg = "instr"
            <6>1. core' = [core EXCEPT ![w.at] = [core[w.at] EXCEPT !.forced = w.value]]
              BY <5>1, BusWrites
            <6>2. QED
              BY <1>3, <3>2, <5>1, <6>1
          <5>2. CASE w.reg = "ctrl"
            <6>1. s \notin w.restart
              BY <2>1, <5>2 DEF Keeps
            <6>2. core' = [t \in Sms |-> IF t \in w.restart
                                         THEN [core[t] EXCEPT !.pc = regs[t].bottom] ELSE core[t]]
              BY <5>2, BusWrites
            <6>3. QED
              BY <6>1, <6>2
          <5>3. CASE w.reg \in {"imem", "regs"}
            BY <5>3, BusWrites
          <5>4. QED
            BY <1>1, <5>1, <5>2, <5>3, WriteKinds
        <4>2. QED
          BY <1>1, <1>5, <4>1 DEF Started, Going
      <3>3. QED
        BY <3>1, <3>2
    <2>5. QED
      BY <2>2, <2>3, <2>4 DEF Started
  <1>6. QED
    BY <1>4, <1>5

LEMMA TickRuns ==
    ASSUME LibraryInv, JobInv, NEW s \in Sms, HasJob(s), Started(s), Tick(s)
    PROVE  Started(s)'
  <1> USE DEF LibraryInv
  <1> DEFINE i == Current(s)
  <1>1. /\ i \in Instruction /\ core'[s].forced = None /\ UNCHANGED <<script, regs, imem>>
        /\ core'[s].pc = IF i.op = "jmp" THEN i.to ELSE IF Forced(s) THEN core[s].pc ELSE Advance(s)
        /\ job' = IF Forced(s) \/ job[s].first # N THEN job
                  ELSE [job EXCEPT ![s] = [job[s] EXCEPT !.first = core[s].pc]]
    BY TickWrites
  <1>2. job[s] \in [slots : SUBSET Slot, entry : 0..N, first : 0..N] /\ core[s] \in Core /\ regs[s] \in Regs
    BY DEF TypeInv
  <1>3. /\ job'[s].slots = job[s].slots /\ job'[s].entry = job[s].entry
        /\ job'[s].first = IF Forced(s) \/ job[s].first # N THEN job[s].first ELSE core[s].pc
    BY <1>1, <1>2 DEF TypeInv
  <1>4. /\ Wrapped(s, regs[s])' /\ (\A k \in DOMAIN script : Keeps(s, script[k]))'
    BY <1>1, <1>3 DEF Started, Wrapped, Keeps
  <1>5. core'[s].forced.op = "none"
    BY <1>1, InstructionKinds
  <1>6. /\ job[s].slots \subseteq Slot /\ job[s].entry \in job[s].slots /\ job[s].entry # N
    BY JobFacts, Sizes
  <1>7. CASE core[s].forced = Jmp(job[s].entry) /\ job[s].first = N
    <2>1. Forced(s) /\ i.op = "jmp" /\ i.to = job[s].entry
      BY <1>7, InstructionKinds DEF Forced, Current
    <2>2. core'[s].pc = job[s].entry /\ job'[s].first = N
      BY <1>1, <1>3, <1>7, <2>1
    <2>3. QED
      BY <1>3, <1>4, <1>5, <1>6, <2>2 DEF Started, Going
  <1>8. CASE /\ core[s].forced.op \in {"none", "set"}
             /\ core[s].pc \in job[s].slots
             /\ job[s].first = N => core[s].pc = job[s].entry
             /\ job[s].first \in {N, job[s].entry}
    <2>1. CASE Forced(s)
      <3>1. i.op # "jmp"
        BY <1>8, <2>1 DEF Current
      <3>2. core'[s].pc = core[s].pc /\ job'[s].first = job[s].first
        BY <1>1, <1>3, <2>1, <3>1
      <3>3. QED
        BY <1>3, <1>4, <1>5, <1>8, <3>2 DEF Started, Going
    <2>2. CASE ~Forced(s)
      <3>1. i = imem[core[s].pc]
        BY <2>2 DEF Current
      <3>2. job'[s].first = job[s].entry
        BY <1>3, <1>8, <2>2
      <3>3. core'[s].pc \in job[s].slots
        <4>1. CASE i.op = "jmp"
          <5>1. core'[s].pc = i.to
            BY <1>1, <4>1
          <5>2. QED
            BY <1>8, <3>1, <4>1, <5>1, JobFacts
        <4>2. CASE i.op # "jmp"
          <5>1. core'[s].pc = Advance(s)
            BY <1>1, <2>2, <4>2
          <5>2. CASE core[s].pc = regs[s].top
            BY <5>1, <5>2 DEF Advance, Started, Wrapped
          <5>3. CASE core[s].pc # regs[s].top
            <6>1. core[s].pc <= regs[s].top /\ regs[s].top \in job[s].slots
              BY <1>8 DEF Started, Wrapped
            <6>2. core[s].pc \in Nat /\ regs[s].top \in Nat
              BY <1>2, Sizes DEF Core, Regs, Slot
            <6>3. core[s].pc + 1 \in job[s].slots
              <7>1. core[s].pc < regs[s].top
                BY <5>3, <6>1, <6>2
              <7>2. QED
                BY <1>8, <6>1, <7>1, JobFacts
            <6>4. core[s].pc + 1 \in 0..(N - 1)
              BY <1>6, <6>3 DEF Slot
            <6>5. (core[s].pc + 1) % N = core[s].pc + 1
              BY <6>4, Sizes, ModSmall
            <6>6. QED
              BY <5>1, <5>3, <6>3, <6>5 DEF Advance
          <5>4. QED
            BY <5>2, <5>3
        <4>3. QED
          BY <4>1, <4>2
      <3>4. QED
        BY <1>3, <1>4, <1>5, <1>6, <3>2, <3>3 DEF Started, Going
    <2>3. QED
      BY <2>1, <2>2
  <1>9. QED
    BY <1>7, <1>8 DEF Started, Going

LEMMA RunStep ==
    ASSUME Rules = AllRules, LibraryInv, MachineInv, [Next]_vars
    PROVE  RunInv'
  <1> USE DEF LibraryInv, MachineInv
  <1>1. SUFFICES ASSUME NEW s \in Sms, HasJob(s)'
                 PROVE  Starting(s)' \/ Started(s)'
    BY DEF RunInv
  <1>2. HasJob(s) => Starting(s) \/ Started(s)
    BY DEF RunInv
  <1>3. ASSUME HasJob(s), UNCHANGED <<script, enabled, core, regs>>, job'[s] = job[s]
        PROVE  Starting(s)' \/ Started(s)'
    BY <1>2, <1>3 DEF Starting, Started, Wrapped, Going, Keeps, Jump
  <1>4. CASE UNCHANGED vars
    BY <1>1, <1>3, <1>4 DEF vars, hardware, history, HasJob
  <1>5. CASE Bus
    <2>1. HasJob(s)
      BY <1>1, <1>5, BusWrites DEF HasJob
    <2>2. QED
      BY <1>2, <1>5, <2>1, BusRuns
  <1>6. CASE ClearMemory
    <2>1. job[s] = NoJob /\ job' = job
      BY <1>6, ClearScript DEF ClearMemory, AllRules
    <2>2. QED
      BY <1>1, <2>1 DEF HasJob
  <1>7. ASSUME NEW p \in Programs, NEW o \in Slot, Loads(p, o)
        PROVE  Started(s)'
    <2>1. script = <<>> /\ UNCHANGED <<core, regs, job>>
      BY <1>7, LoadScript
    <2>2. \A i \in DOMAIN script' : Keeps(s, script'[i])
      BY <1>7, LoadScript, WriteFields DEF Keeps
    <2>3. QED
      BY <1>1, <1>2, <2>1, <2>2, QuietStep DEF HasJob
  <1>8. CASE (\E h \in held : RemoveProgram(h)) \/ \E t \in Sms : Ready /\ Claims(t)
    BY <1>1, <1>3, <1>8 DEF RemoveProgram, Claims, hardware, HasJob
  <1>9. ASSUME NEW t \in Sms, Unclaim(t)
        PROVE  Starting(s)' \/ Started(s)'
    <2>1. job' = [job EXCEPT ![t] = NoJob] /\ UNCHANGED <<script, enabled, core, regs>>
      BY <1>9 DEF Unclaim, hardware
    <2>2. s # t /\ job'[s] = job[s]
      BY <1>1, <2>1 DEF HasJob, TypeInv
    <2>3. QED
      BY <1>1, <1>3, <2>1, <2>2 DEF HasJob
  <1>10. ASSUME NEW set \in SUBSET Sms, Toggles(set)
         PROVE  Started(s)'
    <2>1. \A i \in DOMAIN script' : Keeps(s, script'[i])
      BY <1>10, ToggleScript, WriteFields DEF Keeps
    <2>2. QED
      BY <1>1, <1>2, <1>10, <2>1, ToggleScript, QuietStep DEF HasJob
  <1>11. ASSUME NEW t \in Sms, NEW h \in held, SmInit(t, h)
         PROVE  Starting(s)' \/ Started(s)'
    <2> DEFINE new == [slots |-> SlotsOf(h), entry |-> h.offset + h.program.entry, first |-> N]
    <2>1. /\ script = <<>> /\ enabled' = enabled \ {t} /\ UNCHANGED <<core, regs>>
          /\ job' = [job EXCEPT ![t] = new]
      BY <1>11, SmInitWrites DEF Ready
    <2>2. CASE s = t
      <3>1. job'[s] = new
        BY <2>1, <2>2 DEF TypeInv
      <3>2. job'[s].slots = SlotsOf(h) /\ job'[s].entry = h.offset + h.program.entry /\ job'[s].first = N
        BY <3>1
      <3>3. Config(h) \in Regs /\ Wrapped(s, Config(h))'
        BY <3>2, HeldFacts DEF Wrapped, Config
      <3>4. script' = << WRegs(s, Config(h)), WRestart(enabled', s), Jump(s)' >>
        <4>1. script' = << WRegs(t, Config(h)), WRestart(enabled \ {t}, t),
                           WInstr(t, Jmp(h.offset + h.program.entry)) >>
          BY <1>11, SmInitWrites
        <4>2. enabled' = enabled \ {t} /\ job'[s].entry = h.offset + h.program.entry
          BY <2>1, <3>2
        <4>3. Jump(s)' = WInstr(t, Jmp(h.offset + h.program.entry))
          BY <2>2, <4>2 DEF Jump
        <4>4. QED
          BY <2>2, <4>1, <4>2, <4>3
      <3>5. s \notin enabled'
        BY <2>1, <2>2
      <3>6. QED
        BY <3>2, <3>3, <3>4, <3>5 DEF Starting
    <2>3. CASE s # t
      <3>1. job'[s] = job[s]
        BY <2>1, <2>3 DEF TypeInv
      <3>2. \A i \in DOMAIN script' : Keeps(s, script'[i])
        BY <1>11, <2>3, SmInitScript DEF Keeps
      <3>3. QED
        BY <1>1, <1>2, <2>1, <3>1, <3>2, QuietStep DEF HasJob
    <2>4. QED
      BY <2>2, <2>3
  <1>12. ASSUME NEW t \in Sms, Pinned(t)
         PROVE  Started(s)'
    <2>1. /\ script = <<>> /\ UNCHANGED <<regs, core, job>>
          /\ \A i \in DOMAIN script' :
                \/ /\ script'[i].reg = "regs" /\ script'[i].at = t
                   /\ script'[i].value.bottom = regs[t].bottom /\ script'[i].value.top = regs[t].top
                \/ script'[i].reg = "instr" /\ script'[i].at = t /\ script'[i].value.op = "set"
      BY <1>12, PinnedScript
    <2>2. HasJob(s) /\ Started(s)
      BY <1>1, <1>2, <2>1 DEF HasJob, Starting
    <2>3. \A i \in DOMAIN script' : Keeps(s, script'[i])
      BY <2>1, <2>2 DEF Keeps, Started, Wrapped
    <2>4. QED
      BY <2>1, <2>2, <2>3, QuietStep
  <1>13. ASSUME NEW t \in Sms, Tick(t)
         PROVE  Starting(s)' \/ Started(s)'
    <2>1. /\ t \in enabled /\ core' = [core EXCEPT ![t] = core'[t]]
          /\ UNCHANGED <<script, enabled, regs>>
          /\ job' = IF Forced(t) \/ job[t].first # N THEN job
                    ELSE [job EXCEPT ![t] = [job[t] EXCEPT !.first = core[t].pc]]
      BY <1>13, TickWrites
    <2>2. CASE s = t
      <3>1. HasJob(s)
        BY <2>1, <2>2 DEF EnableInv
      <3>2. Started(s)
        BY <1>2, <2>1, <2>2, <3>1 DEF Starting
      <3>3. QED
        BY <1>13, <2>2, <3>1, <3>2, TickRuns
    <2>3. CASE s # t
      <3>1. core'[s] = core[s] /\ job'[s] = job[s]
        BY <2>1, <2>3 DEF TypeInv
      <3>2. HasJob(s)
        BY <1>1, <3>1 DEF HasJob
      <3>3. QED
        BY <1>2, <2>1, <3>1, <3>2 DEF Starting, Started, Wrapped, Going, Keeps, Jump
    <2>4. QED
      BY <2>2, <2>3
  <1>14. QED
    BY <1>4, <1>5, <1>6, <1>7, <1>8, <1>9, <1>10, <1>11, <1>12, <1>13, StepCases

LEMMA LibraryInit ==
    Init => LibraryInv
  <1> SUFFICES ASSUME Init PROVE LibraryInv
    OBVIOUS
  <1>1. MemoryInv /\ PlacedInv
    BY DEF Init, MemoryInv, PlacedInv
  <1>2. /\ Other \in Instruction /\ 0 \in Slot /\ N - 1 \in Slot /\ 0 \in Pin /\ 0 \in 0..NPins
    BY Sizes DEF Instruction, Slot, Pin
  <1>3. imem \in [Slot -> Instruction] /\ enabled \in SUBSET Sms /\ script \in Seq(Write)
    BY <1>2 DEF Init
  <1>4. regs \in [Sms -> Regs]
    BY <1>2 DEF Init, Regs
  <1>5. core \in [Sms -> Core]
    BY <1>2 DEF Init, Core
  <1>6. job \in [Sms -> [slots : SUBSET Slot, entry : 0..N, first : 0..N]]
    BY Sizes DEF Init, NoJob
  <1>7. wanted \in [Sms -> Asks]
    BY DEF Init, Asks
  <1>8. QED
    BY <1>1, <1>3, <1>4, <1>5, <1>6, <1>7 DEF LibraryInv, TypeInv

LEMMA LibraryStep ==
    ASSUME Rules = AllRules, LibraryInv, [Next]_vars
    PROVE  LibraryInv'
  <1>1. Careful
    BY DEF Careful, AllRules
  <1>2. QED
    BY <1>1, MemoryStep, PlacedStep, TypeStep DEF LibraryInv

LEMMA MachineInit ==
    Init => MachineInv
  BY DEF Init, MachineInv, ImageInv, JobInv, EnableInv, SetInv, RunInv, HasJob

LEMMA MachineStep ==
    ASSUME Rules = AllRules, LibraryInv, MachineInv, [Next]_vars
    PROVE  MachineInv'
  BY ImageStep, JobStep, EnableStep, SetStep, RunStep DEF MachineInv

LEMMA MachineRuns ==
    ASSUME LibraryInv, MachineInv
    PROVE  RunsOwnProgram
  <1> USE DEF LibraryInv, MachineInv
  <1>1. ASSUME NEW s \in Sms
        PROVE  job[s].first \in {job[s].entry, N}
    <2>1. CASE HasJob(s)
      BY <2>1 DEF RunInv, Starting, Started, Going
    <2>2. CASE ~HasJob(s)
      BY <2>2 DEF HasJob, NoJob
    <2>3. QED
      BY <2>1, <2>2
  <1>2. ASSUME NEW s \in enabled, job[s].first # N
        PROVE  core[s].pc \in job[s].slots
    <2>1. s \in Sms /\ HasJob(s)
      BY DEF EnableInv, TypeInv
    <2>2. QED
      BY <1>2, <2>1 DEF RunInv, Starting, Started, Going
  <1>3. ASSUME NEW h \in held, ~Loading(h), NEW j \in DOMAIN h.program.code
        PROVE  imem[h.offset + j - 1] = h.program.code[j]
    <2>1. h.offset + j - 1 \in Slots(h.program, h.offset)
      BY HeldFacts DEF SlotsOf
    <2>2. Code(h, j).reg = "imem" /\ Code(h, j).at = h.offset + j - 1
      BY WriteFields DEF Code
    <2>3. QED
      BY <1>3, <2>1, <2>2 DEF ImageInv, Copied, Loading
  <1>4. QED
    BY <1>1, <1>2, <1>3 DEF RunsOwnProgram

(* A state machine that was initialised starts at the entry it was given   *)
(* and then fetches its program's own instructions from its program's own  *)
(* slots, while whatever else is loaded, removed, enabled, disabled or     *)
(* forced (pio_sm_init, pio_add_program, pio_sm_exec and the tick of       *)
(* pio_sm.sv): for every memory size and set of programs, and callers that *)
(* follow the rules.                                                       *)
THEOREM MachinesRunTheirPrograms ==
    ASSUME Rules = AllRules
    PROVE  Spec => []RunsOwnProgram
  <1>1. Init => LibraryInv /\ MachineInv
    BY LibraryInit, MachineInit
  <1>2. LibraryInv /\ MachineInv /\ [Next]_vars => (LibraryInv /\ MachineInv)'
    BY LibraryStep, MachineStep
  <1>3. LibraryInv /\ MachineInv => RunsOwnProgram
    BY MachineRuns
  <1>4. QED
    BY <1>1, <1>2, <1>3, PTL DEF Spec

----------------------------------------------------------------------------
(***************************************************************************)
(* Pins.  A SET acts with the base and count that hold when it runs: those *)
(* of the register now for one that is forced or is written next, those of *)
(* the write before it for a later one.  Every SET on its way writes what  *)
(* is wanted on each pin it reaches, and a pin that is not as wanted is    *)
(* reached by one of them.                                                 *)
(***************************************************************************)
RegsAt(s, i) == IF i = 1 THEN regs[s] ELSE script[i - 1].value
IsSet(s, i) == script[i].reg = "instr" /\ script[i].at = s /\ script[i].value.op = "set"
Right(s, x, r) == \A i \in 0..(r.count - 1) : (i \in x.data) <=> ((r.base + i) % NPins \in wanted[s][x.dest])
Same(s, dest, p) == (p \in core[s][dest]) <=> (p \in wanted[s][dest])
ForcedOn(s, dest, p) == /\ core[s].forced.op = "set" /\ core[s].forced.dest = dest
                        /\ p \in Reach(s)
WrittenLater(s, dest, p) ==
    \E i \in DOMAIN script : /\ IsSet(s, i) /\ script[i].value.dest = dest
                             /\ p \in Span(RegsAt(s, i).base, RegsAt(s, i).count)
AsAsked(s) == \A dest \in {"dirs", "outs"}, p \in Pin :
                 Same(s, dest, p) \/ ForcedOn(s, dest, p) \/ WrittenLater(s, dest, p)
ForcedRight(s) == core[s].forced.op = "set" => s \in enabled /\ Right(s, core[s].forced, regs[s])
LaterRight(s) == \A i \in DOMAIN script : IsSet(s, i) =>
                    /\ i > 1 => script[i - 1].reg = "regs" /\ script[i - 1].at = s
                    /\ Right(s, script[i].value, RegsAt(s, i))
PinInv == \A s \in Sms : AsAsked(s) /\ ForcedRight(s) /\ LaterRight(s)

(* Programs that leave the pins to the library. *)
NoSets == \A p \in Programs : \A i \in DOMAIN p.code : p.code[i].op # "set"

LEMMA ReadyPins ==
    ASSUME Rules = AllRules, Settled, NEW s \in Sms, AsAsked(s), ForcedRight(s)
    PROVE  /\ core[s].forced.op # "set"
           /\ script = <<>> => \A dest \in {"dirs", "outs"}, p \in Pin : Same(s, dest, p)
  <1>1. core[s].forced.op # "set"
    BY InstructionKinds DEF Settled, Forced, ForcedRight
  <1>2. QED
    BY <1>1 DEF AsAsked, ForcedOn, WrittenLater

(* Between two calls nothing is on its way. *)
LEMMA QuietPins ==
    ASSUME Rules = AllRules, NEW s \in Sms, AsAsked(s), ForcedRight(s), Settled, script = <<>>,
           core'[s] = core[s], wanted'[s] = wanted[s],
           \A i \in DOMAIN script' : script'[i].reg = "instr" /\ script'[i].at = s => script'[i].value.op # "set"
    PROVE  AsAsked(s)' /\ ForcedRight(s)' /\ LaterRight(s)'
  <1>1. /\ core[s].forced.op # "set"
        /\ \A dest \in {"dirs", "outs"}, p \in Pin : Same(s, dest, p)
    BY ReadyPins
  <1>2. AsAsked(s)'
    BY <1>1 DEF AsAsked, Same
  <1>3. ForcedRight(s)'
    BY <1>1 DEF ForcedRight
  <1>4. LaterRight(s)'
    BY DEF LaterRight, IsSet
  <1>5. QED
    BY <1>2, <1>3, <1>4

LEMMA FetchedSets ==
    ASSUME LibraryInv, MachineInv, NoSets, NEW s \in Sms, s \in enabled, ~Forced(s)
    PROVE  imem[core[s].pc].op # "set"
  <1>1. HasJob(s) /\ Started(s)
    BY DEF MachineInv, EnableInv, RunInv, Starting
  <1>2. core[s].pc \in job[s].slots
    <2>1. core[s].forced # Jmp(job[s].entry)
      BY InstructionKinds DEF Forced
    <2>2. QED
      BY <1>1, <2>1 DEF Started, Going
  <1>3. PICK h \in held : JobOf(s, h)
    BY <1>1 DEF MachineInv, JobInv
  <1> DEFINE j == core[s].pc - h.offset + 1
  <1>4. core[s].pc \in SlotsOf(h)
    BY <1>2, <1>3 DEF JobOf
  <1>5. j \in DOMAIN h.program.code /\ h.offset + j - 1 = core[s].pc
    <2>1. core[s].pc \in Nat /\ h.offset \in Nat
      BY <1>4, HeldFacts DEF LibraryInv, Slot
    <2>2. QED
      BY <1>4, <2>1, HeldFacts DEF LibraryInv
  <1> HIDE DEF j
  <1>6. imem[core[s].pc] = h.program.code[j]
    BY <1>3, <1>5 DEF JobOf, Copied
  <1>7. h.program \in Programs
    BY HeldFacts DEF LibraryInv
  <1>8. QED
    BY <1>5, <1>6, <1>7 DEF NoSets

(* What a SET that is right does to a pin. *)
LEMMA RightWrite ==
    ASSUME NEW b, NEW c, NEW data, NEW pins, NEW wants, NEW p,
           \A i \in 0..(c - 1) : (i \in data) <=> ((b + i) % NPins \in wants)
    PROVE  /\ p \in Span(b, c) => (p \in WritePins(pins, data, b, c) <=> p \in wants)
           /\ p \notin Span(b, c) => (p \in WritePins(pins, data, b, c) <=> p \in pins)
  <1> DEFINE new == {(b + i) % NPins : i \in data \cap 0..(c - 1)}
  <1>1. new \subseteq Span(b, c)
    BY DEF Span
  <1>2. ASSUME p \in Span(b, c)
        PROVE  (p \in new) <=> (p \in wants)
    <2>1. PICK i \in 0..(c - 1) : p = (b + i) % NPins
      BY <1>2 DEF Span
    <2>2. QED
      BY <2>1
  <1> HIDE DEF new
  <1>3. WritePins(pins, data, b, c) = (pins \ Span(b, c)) \cup new
    BY DEF WritePins, new
  <1>4. QED
    BY <1>1, <1>2, <1>3

LEMMA WriteLeavesRest ==
    ASSUME NEW b, NEW c, NEW data, NEW pins, NEW p, p \notin Span(b, c)
    PROVE  (p \in WritePins(pins, data, b, c)) <=> (p \in pins)
  BY DEF WritePins, Span

LEMMA PinTick ==
    ASSUME LibraryInv, MachineInv, NoSets, NEW s \in Sms, AsAsked(s), ForcedRight(s), LaterRight(s), Tick(s)
    PROVE  AsAsked(s)' /\ ForcedRight(s)' /\ LaterRight(s)'
  <1> DEFINE i == Current(s)
  <1>1. /\ s \in enabled /\ i \in Instruction /\ core'[s].forced = None
        /\ i.op # "set" => core'[s].dirs = core[s].dirs /\ core'[s].outs = core[s].outs
        /\ i.op = "set" => \A dest \in {"dirs", "outs"} :
              core'[s][dest] = IF dest = i.dest
                               THEN WritePins(core[s][dest], i.data, regs[s].base, regs[s].count)
                               ELSE core[s][dest]
        /\ UNCHANGED <<script, regs, wanted, enabled>>
    BY TickWrites DEF LibraryInv
  <1>2. ForcedRight(s)'
    BY <1>1, InstructionKinds DEF ForcedRight
  <1>3. LaterRight(s)'
    BY <1>1 DEF LaterRight, IsSet, Right, RegsAt
  <1>4. \A dest, p : WrittenLater(s, dest, p) => WrittenLater(s, dest, p)'
    BY <1>1 DEF WrittenLater, IsSet, RegsAt
  <1>5. i.op = "set" => i = core[s].forced
    BY <1>1, FetchedSets DEF Current
  <1> HIDE DEF i
  <1>6. ASSUME NEW dest \in {"dirs", "outs"}, NEW p \in Pin, ~WrittenLater(s, dest, p)
        PROVE  Same(s, dest, p)'
    <2>1. Same(s, dest, p) \/ ForcedOn(s, dest, p)
      BY <1>6 DEF AsAsked
    <2>2. CASE i.op = "set" /\ i.dest = dest
      <3>1. i = core[s].forced /\ Right(s, i, regs[s])
        BY <1>5, <2>2 DEF ForcedRight
      <3>2. core'[s][dest] = WritePins(core[s][dest], i.data, regs[s].base, regs[s].count)
        BY <1>1, <2>2
      <3>3. \A k \in 0..(regs[s].count - 1) :
               (k \in i.data) <=> ((regs[s].base + k) % NPins \in wanted[s][dest])
        BY <2>2, <3>1 DEF Right
      <3>4. CASE p \in Reach(s)
        <4>1. (p \in core'[s][dest]) <=> (p \in wanted[s][dest])
          BY <3>2, <3>3, <3>4, RightWrite DEF Reach
        <4>2. QED
          BY <1>1, <4>1 DEF Same
      <3>5. CASE p \notin Reach(s)
        <4>1. p \notin Span(regs[s].base, regs[s].count)
          BY <3>5 DEF Reach
        <4>2. (p \in WritePins(core[s][dest], i.data, regs[s].base, regs[s].count)) <=> (p \in core[s][dest])
          BY <4>1, WriteLeavesRest
        <4>3. (p \in core'[s][dest]) <=> (p \in core[s][dest])
          BY <3>2, <4>2
        <4>4. QED
          BY <1>1, <2>1, <3>5, <4>3 DEF Same, ForcedOn
      <3>6. QED
        BY <3>4, <3>5
    <2>3. CASE ~(i.op = "set" /\ i.dest = dest)
      <3>1. core'[s][dest] = core[s][dest]
        BY <1>1, <2>3
      <3>2. ~ForcedOn(s, dest, p)
        <4>1. ASSUME core[s].forced.op = "set" PROVE i = core[s].forced
          BY <4>1, InstructionKinds DEF i, Current, Forced
        <4>2. QED
          BY <2>3, <4>1 DEF ForcedOn
      <3>3. QED
        BY <1>1, <2>1, <3>1, <3>2 DEF Same
    <2>4. QED
      BY <2>2, <2>3
  <1>7. QED
    BY <1>2, <1>3, <1>4, <1>6 DEF AsAsked

LEMMA PinBus ==
    ASSUME Rules = AllRules, LibraryInv, SetInv, NEW s \in Sms, AsAsked(s), ForcedRight(s), LaterRight(s), Bus
    PROVE  AsAsked(s)' /\ ForcedRight(s)' /\ LaterRight(s)'
  <1> USE DEF LibraryInv
  <1> DEFINE w == script[1]
  <1>1. /\ script \in Seq(Write) /\ script # <<>> /\ script' = Tail(script) /\ w \in Write
        /\ wanted' = wanted /\ Settled
    BY BusWrites DEF TypeInv, AllRules
  <1>2. /\ 1 \in DOMAIN script
        /\ \A i \in DOMAIN script' : i \in Nat \ {0} /\ i + 1 \in DOMAIN script /\ script'[i] = script[i + 1]
        /\ \A i \in DOMAIN script : i # 1 => i - 1 \in DOMAIN script' /\ script'[i - 1] = script[i]
        /\ \A i \in DOMAIN script : i \in Nat \ {0}
    BY <1>1, ScriptTail
  <1>3. core \in [Sms -> Core] /\ regs \in [Sms -> Regs]
    BY DEF TypeInv
  <1>4. core[s].forced.op # "set"
    BY <1>1, ReadyPins
  <1>5. /\ core'[s].dirs = core[s].dirs /\ core'[s].outs = core[s].outs
        /\ core'[s].forced = IF w.reg = "instr" /\ w.at = s THEN w.value ELSE core[s].forced
    <2>1. core[s] \in Core
      BY <1>3
    <2>2. CASE w.reg = "instr"
      <3>1. core' = [core EXCEPT ![w.at] = [core[w.at] EXCEPT !.forced = w.value]]
        BY <2>2, BusWrites
      <3>2. QED
        BY <1>3, <2>1, <2>2, <3>1 DEF Core
    <2>3. CASE w.reg = "ctrl"
      <3>1. core' = [t \in Sms |-> IF t \in w.restart
                                   THEN [core[t] EXCEPT !.pc = regs[t].bottom] ELSE core[t]]
        BY <2>3, BusWrites
      <3>2. QED
        BY <2>1, <2>3, <3>1 DEF Core
    <2>4. CASE w.reg \in {"imem", "regs"}
      BY <2>4, BusWrites
    <2>5. QED
      BY <1>1, <2>2, <2>3, <2>4, WriteKinds
  <1>6. /\ w.reg = "regs" /\ w.at = s => regs'[s] = w.value
        /\ w.reg # "regs" => regs' = regs
        /\ w.reg # "ctrl" => enabled' = enabled
    <2>1. w.reg = "regs" => regs' = [regs EXCEPT ![w.at] = w.value]
      BY BusWrites
    <2>2. QED
      BY <1>1, <1>3, <2>1, BusWrites, WriteKinds
  <1>7. ASSUME NEW i \in DOMAIN script, i # 1, IsSet(s, i)
        PROVE  /\ i - 1 \in DOMAIN script' /\ IsSet(s, i - 1)' /\ RegsAt(s, i - 1)' = RegsAt(s, i)
               /\ script'[i - 1] = script[i]
               /\ i - 1 > 1 => script'[i - 2].reg = "regs" /\ script'[i - 2].at = s
    <2>1. i - 1 \in DOMAIN script' /\ script'[i - 1] = script[i] /\ i \in Nat /\ i > 1
      BY <1>2, <1>7
    <2>2. script[i - 1].reg = "regs" /\ script[i - 1].at = s
      BY <1>7, <2>1 DEF LaterRight
    <2>3. CASE i = 2
      <3>1. w.reg = "regs" /\ w.at = s
        BY <2>2, <2>3
      <3>2. regs'[s] = script[i - 1].value
        BY <1>6, <2>3, <3>1
      <3>3. QED
        BY <1>7, <2>1, <2>3, <3>2 DEF IsSet, RegsAt
    <2>4. CASE i # 2
      <3>1. i - 1 \in DOMAIN script /\ i - 1 # 1 /\ i - 1 > 1 /\ (i - 1) - 1 = i - 2
        <4>1. DOMAIN script = 1..Len(script) /\ Len(script) \in Nat
          BY <1>1
        <4>2. QED
          BY <2>1, <2>4, <4>1
      <3>2. script'[i - 2] = script[i - 1]
        BY <1>2, <3>1
      <3>3. RegsAt(s, i - 1)' = script'[i - 2].value /\ RegsAt(s, i) = script[i - 1].value
        BY <1>7, <3>1 DEF RegsAt
      <3>4. QED
        BY <1>7, <2>1, <2>2, <3>2, <3>3 DEF IsSet
    <2>5. QED
      BY <2>3, <2>4
  <1>8. LaterRight(s)'
    <2> SUFFICES ASSUME NEW i \in DOMAIN script', IsSet(s, i)'
                 PROVE  /\ i > 1 => script'[i - 1].reg = "regs" /\ script'[i - 1].at = s
                        /\ Right(s, script[i].value, RegsAt(s, i))'
      BY DEF LaterRight
    <2> DEFINE k == i + 1
    <2>1. k \in DOMAIN script /\ script'[i] = script[k] /\ k # 1 /\ k - 1 = i /\ k - 2 = i - 1
      BY <1>2
    <2> HIDE DEF k
    <2>2. IsSet(s, k)
      BY <2>1 DEF IsSet
    <2>3. Right(s, script[k].value, RegsAt(s, k))
      BY <2>1, <2>2 DEF LaterRight
    <2>4. RegsAt(s, i)' = RegsAt(s, k) /\ (i > 1 => script'[i - 1].reg = "regs" /\ script'[i - 1].at = s)
      BY <1>7, <2>1, <2>2
    <2>5. QED
      BY <1>1, <2>1, <2>3, <2>4 DEF Right
  <1>9. ForcedRight(s)'
    <2> SUFFICES ASSUME core'[s].forced.op = "set"
                 PROVE  s \in enabled' /\ Right(s, core[s].forced, regs[s])'
      BY DEF ForcedRight
    <2>1. w.reg = "instr" /\ w.at = s /\ core'[s].forced = w.value /\ w.value.op = "set"
      BY <1>4, <1>5
    <2>2. s \in enabled /\ enabled' = enabled /\ regs' = regs
      BY <1>2, <1>6, <2>1 DEF SetInv
    <2>3. Right(s, w.value, regs[s])
      BY <1>2, <2>1 DEF LaterRight, IsSet, RegsAt
    <2>4. QED
      BY <1>1, <2>1, <2>2, <2>3 DEF Right
  <1>10. AsAsked(s)'
    <2> SUFFICES ASSUME NEW dest \in {"dirs", "outs"}, NEW p \in Pin
                 PROVE  (Same(s, dest, p) \/ ForcedOn(s, dest, p) \/ WrittenLater(s, dest, p))'
      BY DEF AsAsked
    <2>1. CASE Same(s, dest, p)
      BY <1>1, <1>5, <2>1 DEF Same
    <2>2. ASSUME NEW i \in DOMAIN script, IsSet(s, i), script[i].value.dest = dest,
                 p \in Span(RegsAt(s, i).base, RegsAt(s, i).count)
          PROVE  (ForcedOn(s, dest, p) \/ WrittenLater(s, dest, p))'
      <3>1. CASE i = 1
        <4>1. w.reg = "instr" /\ w.at = s /\ w.value.op = "set" /\ w.value.dest = dest
          BY <2>2, <3>1 DEF IsSet
        <4>2. regs' = regs /\ core'[s].forced = w.value /\ RegsAt(s, i) = regs[s]
          BY <1>5, <1>6, <3>1, <4>1 DEF RegsAt
        <4>3. QED
          BY <2>2, <4>1, <4>2 DEF ForcedOn, Reach
      <3>2. CASE i # 1
        <4>1. /\ i - 1 \in DOMAIN script' /\ IsSet(s, i - 1)' /\ RegsAt(s, i - 1)' = RegsAt(s, i)
              /\ script'[i - 1] = script[i]
          BY <1>7, <2>2, <3>2
        <4>2. WrittenLater(s, dest, p)'
          BY <2>2, <4>1 DEF WrittenLater
        <4>3. QED
          BY <4>2
      <3>3. QED
        BY <3>1, <3>2
    <2>3. ~ForcedOn(s, dest, p)
      BY <1>4 DEF ForcedOn
    <2>4. Same(s, dest, p) \/ WrittenLater(s, dest, p)
      BY <2>3 DEF AsAsked
    <2>5. QED
      BY <2>1, <2>2, <2>4 DEF WrittenLater
  <1>11. QED
    BY <1>8, <1>9, <1>10

LEMMA PinCall ==
    ASSUME Rules = AllRules, LibraryInv, NEW s \in Sms, AsAsked(s), ForcedRight(s), Pinned(s)
    PROVE  AsAsked(s)' /\ ForcedRight(s)' /\ LaterRight(s)'
  <1> USE DEF LibraryInv
  <1>1. PICK sets \in Seq(SetRecs), dest \in {"dirs", "outs"}, pins \in SUBSET Pin :
           Helper(s, sets, dest, pins) /\ Covers(s, sets, dest, pins)
    BY DEF Pinned
  <1>2. /\ script = <<>> /\ Settled /\ core' = core
        /\ wanted' = [wanted EXCEPT ![s] = [wanted[s] EXCEPT ![dest] = pins]]
    BY <1>1 DEF Helper, Ready, AllRules, hardware
  <1>3. /\ core[s].forced.op # "set"
        /\ \A d \in {"dirs", "outs"}, p \in Pin : Same(s, d, p)
    BY <1>2, ReadyPins
  <1>4. wanted'[s][dest] = pins /\ \A d \in {"dirs", "outs"} : d # dest => wanted'[s][d] = wanted[s][d]
    <2>1. wanted \in [Sms -> Asks] /\ wanted[s] \in Asks
      BY DEF TypeInv
    <2>2. wanted'[s] = [wanted[s] EXCEPT ![dest] = pins]
      BY <1>2, <2>1
    <2>3. CASE dest = "dirs"
      BY <2>1, <2>2, <2>3 DEF Asks
    <2>4. CASE dest = "outs"
      BY <2>1, <2>2, <2>4 DEF Asks
    <2>5. QED
      BY <2>3, <2>4
  <1>5. DOMAIN sets = 1..Len(sets) /\ Len(sets) \in Nat
    OBVIOUS
  <1>6. ForcedRight(s)'
    BY <1>2, <1>3 DEF ForcedRight
  <1>7. LaterRight(s)'
    <2> SUFFICES ASSUME NEW i \in DOMAIN script', IsSet(s, i)'
                 PROVE  /\ i > 1 => script'[i - 1].reg = "regs" /\ script'[i - 1].at = s
                        /\ Right(s, script[i].value, RegsAt(s, i))'
      BY DEF LaterRight
    <2>1. /\ i > 1 /\ script'[i - 1].reg = "regs" /\ script'[i - 1].at = s
          /\ \E k \in DOMAIN sets : /\ script'[i].value = Set(dest, sets[k].data)
                                    /\ script'[i - 1].value.base = sets[k].base
                                    /\ script'[i - 1].value.count = sets[k].count
      BY <1>1, HelperScript DEF IsSet
    <2>2. PICK k \in DOMAIN sets : /\ script'[i].value = Set(dest, sets[k].data)
                                   /\ script'[i - 1].value.base = sets[k].base
                                   /\ script'[i - 1].value.count = sets[k].count
      BY <2>1
    <2> DEFINE r == script'[i - 1].value
               x == script'[i].value
    <2>3. RegsAt(s, i)' = r
      <3>1. i # 1
        <4>1. i \in Nat
          BY <1>1, <1>5, HelperScript
        <4>2. QED
          BY <2>1, <4>1
      <3>2. QED
        BY <3>1 DEF RegsAt
    <2>4. x.data = sets[k].data /\ x.dest = dest
      BY <2>2, InstructionKinds
    <2>5. r.base = sets[k].base /\ r.count = sets[k].count
      BY <2>2
    <2>6. \A m \in 0..(sets[k].count - 1) : (m \in sets[k].data) <=> ((sets[k].base + m) % NPins \in pins)
      BY <1>1 DEF Covers
    <2> HIDE DEF r, x
    <2>7. \A m \in 0..(r.count - 1) : (m \in x.data) <=> ((r.base + m) % NPins \in wanted'[s][x.dest])
      BY <1>4, <2>4, <2>5, <2>6
    <2>8. Right(s, script[i].value, RegsAt(s, i))'
      BY <2>3, <2>7 DEF Right, x
    <2>9. QED
      BY <2>1, <2>8
  <1>8. AsAsked(s)'
    <2> SUFFICES ASSUME NEW d \in {"dirs", "outs"}, NEW p \in Pin
                 PROVE  Same(s, d, p)' \/ WrittenLater(s, d, p)'
      BY DEF AsAsked
    <2>1. CASE d # dest \/ ((p \in wanted[s][dest]) <=> (p \in pins))
      BY <1>2, <1>3, <1>4, <2>1 DEF Same
    <2>2. ASSUME d = dest, NEW k \in DOMAIN sets, p \in Span(sets[k].base, sets[k].count)
          PROVE  WrittenLater(s, d, p)'
      <3> DEFINE i == 2 * k
      <3>1. i \in DOMAIN script' /\ i # 1 /\ i - 1 = 2 * k - 1
        BY <1>1, <1>5, HelperScript
      <3>2. script'[i] = WInstr(s, Set(dest, sets[k].data))
        BY <1>1, HelperScript
      <3>3. script'[i - 1].value.base = sets[k].base /\ script'[i - 1].value.count = sets[k].count
        BY <1>1, <3>1, HelperScript
      <3> HIDE DEF i
      <3>4. IsSet(s, i)' /\ script'[i].value.dest = dest
        BY <3>2, WriteFields, InstructionKinds DEF IsSet
      <3>5. RegsAt(s, i)' = script'[i - 1].value
        BY <3>1 DEF RegsAt
      <3>6. QED
        BY <2>2, <3>1, <3>3, <3>4, <3>5 DEF WrittenLater
    <2>3. QED
      BY <1>1, <2>1, <2>2 DEF Covers
  <1>9. QED
    BY <1>6, <1>7, <1>8

LEMMA PinStep ==
    ASSUME Rules = AllRules, NoSets, LibraryInv, MachineInv, PinInv, [Next]_vars
    PROVE  PinInv'
  <1> USE DEF LibraryInv
  <1>1. SUFFICES ASSUME NEW s \in Sms
                 PROVE  AsAsked(s)' /\ ForcedRight(s)' /\ LaterRight(s)'
    BY DEF PinInv
  <1>2. AsAsked(s) /\ ForcedRight(s) /\ LaterRight(s) /\ SetInv
    BY DEF PinInv, MachineInv
  <1>3. ASSUME UNCHANGED <<script, enabled, regs, wanted>>, core'[s] = core[s]
        PROVE  AsAsked(s)' /\ ForcedRight(s)' /\ LaterRight(s)'
    BY <1>2, <1>3 DEF AsAsked, Same, ForcedOn, Reach, WrittenLater, IsSet, RegsAt, ForcedRight, LaterRight, Right
  <1>4. CASE UNCHANGED vars
    BY <1>3, <1>4 DEF vars, hardware, history
  <1>5. CASE Bus
    BY <1>2, <1>5, PinBus
  <1>6. CASE ClearMemory
    <2>1. Settled
      BY <1>6 DEF ClearMemory, Ready, AllRules
    <2>2. QED
      BY <1>2, <1>6, <2>1, ClearScript, QuietPins
  <1>7. ASSUME NEW p \in Programs, NEW o \in Slot, Loads(p, o)
        PROVE  AsAsked(s)' /\ ForcedRight(s)' /\ LaterRight(s)'
    <2>1. Settled
      BY <1>7 DEF Loads, Ready, AllRules
    <2>2. /\ script = <<>> /\ UNCHANGED <<core, wanted>>
          /\ \A i \in DOMAIN script' : script'[i].reg = "imem"
      BY <1>7, LoadScript, WriteFields
    <2>3. QED
      BY <1>2, <2>1, <2>2, QuietPins
  <1>8. CASE \/ \E h \in held : RemoveProgram(h)
             \/ \E t \in Sms : (Ready /\ Claims(t)) \/ Unclaim(t)
    BY <1>3, <1>8 DEF RemoveProgram, Claims, Unclaim, hardware
  <1>9. ASSUME NEW set \in SUBSET Sms, Toggles(set)
        PROVE  AsAsked(s)' /\ ForcedRight(s)' /\ LaterRight(s)'
    <2>1. Settled /\ wanted' = wanted
      BY <1>9 DEF Toggles, Ready, AllRules, history
    <2>2. /\ script = <<>> /\ core' = core
          /\ \A i \in DOMAIN script' : script'[i].reg = "ctrl"
      BY <1>9, ToggleScript, WriteFields
    <2>3. QED
      BY <1>2, <2>1, <2>2, QuietPins
  <1>10. ASSUME NEW t \in Sms, NEW h \in held, SmInit(t, h)
         PROVE  AsAsked(s)' /\ ForcedRight(s)' /\ LaterRight(s)'
    <2>1. Ready /\ UNCHANGED <<core, wanted>>
      BY <1>10, SmInitWrites
    <2>2. \A i \in DOMAIN script' : script'[i].reg = "instr" => script'[i].value.op # "set"
      <3>1. Jmp(h.offset + h.program.entry).op # "set"
        BY InstructionKinds
      <3>2. QED
        BY <1>10, <3>1, SmInitScript
    <2>3. QED
      BY <1>2, <2>1, <2>2, QuietPins DEF Ready, AllRules
  <1>11. ASSUME NEW t \in Sms, Pinned(t)
         PROVE  AsAsked(s)' /\ ForcedRight(s)' /\ LaterRight(s)'
    <2>1. CASE t = s
      BY <1>2, <1>11, <2>1, PinCall
    <2>2. CASE t # s
      <3>1. PICK sets \in Seq(SetRecs), dest \in {"dirs", "outs"}, pins \in SUBSET Pin : Helper(t, sets, dest, pins)
        BY <1>11 DEF Pinned
      <3>2. wanted'[s] = wanted[s] /\ Settled
        BY <2>2, <3>1 DEF Helper, Ready, AllRules, TypeInv
      <3>3. \A i \in DOMAIN script' : script'[i].at = t
        BY <1>11, PinnedScript
      <3>4. script = <<>> /\ core' = core
        BY <1>11, PinnedScript
      <3>5. QED
        BY <1>2, <2>2, <3>2, <3>3, <3>4, QuietPins
    <2>3. QED
      BY <2>1, <2>2
  <1>12. ASSUME NEW t \in Sms, Tick(t)
         PROVE  AsAsked(s)' /\ ForcedRight(s)' /\ LaterRight(s)'
    <2>1. CASE t = s
      BY <1>2, <1>12, <2>1, PinTick
    <2>2. CASE t # s
      <3>1. core' = [core EXCEPT ![t] = core'[t]] /\ UNCHANGED <<script, enabled, regs, wanted>>
        BY <1>12, TickWrites
      <3>2. core'[s] = core[s]
        BY <2>2, <3>1 DEF TypeInv
      <3>3. QED
        BY <1>3, <3>1, <3>2
    <2>3. QED
      BY <2>1, <2>2
  <1>13. QED
    BY <1>4, <1>5, <1>6, <1>7, <1>8, <1>9, <1>10, <1>11, <1>12, StepCases

LEMMA PinsDone ==
    ASSUME Rules = AllRules, LibraryInv, PinInv
    PROVE  PinsAsAsked
  <1> SUFFICES ASSUME NEW s \in enabled, Ready
               PROVE  core[s].dirs = wanted[s].dirs /\ core[s].outs = wanted[s].outs
    BY DEF PinsAsAsked
  <1>1. s \in Sms /\ core[s] \in Core /\ wanted[s] \in Asks
    BY DEF LibraryInv, TypeInv
  <1>2. \A dest \in {"dirs", "outs"}, p \in Pin : Same(s, dest, p)
    BY <1>1, ReadyPins DEF PinInv, Ready, AllRules
  <1>3. /\ \A p \in Pin : (p \in core[s].dirs) <=> (p \in wanted[s].dirs)
        /\ \A p \in Pin : (p \in core[s].outs) <=> (p \in wanted[s].outs)
    BY <1>2 DEF Same
  <1>4. QED
    BY <1>1, <1>3 DEF Core, Asks

(* When a call that sets pins has returned, every pin of an enabled        *)
(* machine has the direction and the value last asked for it, whatever     *)
(* base, count, value and mask the calls were made with and however they   *)
(* interleave with the machines (pio_sm_set_consecutive_pindirs,           *)
(* pio_sm_set_pins and their masked forms): for every number of pins and   *)
(* every length of a SET, callers that follow the rules, and programs that *)
(* leave the pins to the library.                                          *)
THEOREM PinsAreAsAsked ==
    ASSUME Rules = AllRules, NoSets
    PROVE  Spec => []PinsAsAsked
  <1>1. Init => LibraryInv /\ MachineInv /\ PinInv
    <2>1. Init => PinInv
      BY InstructionKinds DEF Init, PinInv, AsAsked, Same, ForcedRight, LaterRight
    <2>2. QED
      BY <2>1, LibraryInit, MachineInit
  <1>2. LibraryInv /\ MachineInv /\ PinInv /\ [Next]_vars => (LibraryInv /\ MachineInv /\ PinInv)'
    BY LibraryStep, MachineStep, PinStep
  <1>3. LibraryInv /\ PinInv => PinsAsAsked
    BY PinsDone
  <1>4. QED
    BY <1>1, <1>2, <1>3, PTL DEF Spec

----------------------------------------------------------------------------
(***************************************************************************)
(* The formats of PioEncoding, for every set of operands callers may pass. *)
(*                                                                         *)
(* Binary numerals first.  The low bits of a number are found one at a     *)
(* time, so that the value of any of its last bits is known without        *)
(* induction: there are sixteen of them at most.                           *)
(***************************************************************************)
LEMMA PowerValues ==
    /\ Power(0) = 1 /\ Power(1) = 2 /\ Power(2) = 4 /\ Power(3) = 8 /\ Power(4) = 16
    /\ Power(5) = 32 /\ Power(6) = 64 /\ Power(7) = 128 /\ Power(8) = 256 /\ Power(9) = 512
    /\ Power(10) = 1024 /\ Power(11) = 2048 /\ Power(12) = 4096 /\ Power(13) = 8192
    /\ Power(14) = 16384 /\ Power(15) = 32768 /\ Power(16) = 65536
  BY DEF Power

LEMMA PowerType == \A i \in 0..16 : Power(i) \in Nat \ {0}
  BY DEF Power

(* The last bits of a number, one bit more at a time. *)
More(v, i) == v % Power(i + 1) = (v % Power(i)) + (Power(i) * ((v \div Power(i)) % 2))

LEMMA OneBitMore ==
    ASSUME NEW v \in Nat, NEW i \in 0..15
    PROVE  More(v, i)
  <1>1. /\ v % 2 = (v % 1) + 1 * ((v \div 1) % 2)
        /\ v % 4 = (v % 2) + 2 * ((v \div 2) % 2)
        /\ v % 8 = (v % 4) + 4 * ((v \div 4) % 2)
        /\ v % 16 = (v % 8) + 8 * ((v \div 8) % 2)
        /\ v % 32 = (v % 16) + 16 * ((v \div 16) % 2)
        /\ v % 64 = (v % 32) + 32 * ((v \div 32) % 2)
        /\ v % 128 = (v % 64) + 64 * ((v \div 64) % 2)
        /\ v % 256 = (v % 128) + 128 * ((v \div 128) % 2)
        /\ v % 512 = (v % 256) + 256 * ((v \div 256) % 2)
        /\ v % 1024 = (v % 512) + 512 * ((v \div 512) % 2)
        /\ v % 2048 = (v % 1024) + 1024 * ((v \div 1024) % 2)
        /\ v % 4096 = (v % 2048) + 2048 * ((v \div 2048) % 2)
        /\ v % 8192 = (v % 4096) + 4096 * ((v \div 4096) % 2)
        /\ v % 16384 = (v % 8192) + 8192 * ((v \div 8192) % 2)
        /\ v % 32768 = (v % 16384) + 16384 * ((v \div 16384) % 2)
        /\ v % 65536 = (v % 32768) + 32768 * ((v \div 32768) % 2)
    OBVIOUS
  <1>2. /\ More(v, 0) /\ More(v, 1) /\ More(v, 2) /\ More(v, 3)
        /\ More(v, 4) /\ More(v, 5) /\ More(v, 6) /\ More(v, 7)
    BY <1>1, PowerValues DEF More
  <1>3. More(v, 8) /\ More(v, 9) /\ More(v, 10) /\ More(v, 11)
    BY <1>1, PowerValues DEF More
  <1>4. More(v, 12) /\ More(v, 13) /\ More(v, 14) /\ More(v, 15)
    BY <1>1, PowerValues DEF More
  <1>5. QED
    BY <1>2, <1>3, <1>4

(* What the i-th bit adds to the bits below it. *)
Rest(v, i) == v % Power(i)
Adds(v, i) == /\ Rest(v, i) \in Nat
              /\ i \in Bits(v) => Rest(v, i + 1) = Rest(v, i) + Power(i)
              /\ i \notin Bits(v) => Rest(v, i + 1) = Rest(v, i)
LEMMA NextBit ==
    ASSUME NEW v \in Nat, NEW i \in 0..15
    PROVE  Adds(v, i)
  <1> DEFINE d == (v \div Power(i)) % 2
  <1>1. d \in {0, 1} /\ v % Power(i) \in Nat
    <2> DEFINE p == Power(i)
    <2>1. p \in Nat \ {0}
      BY PowerType
    <2> HIDE DEF p
    <2>2. (v \div p) % 2 \in {0, 1} /\ v % p \in Nat
      BY <2>1
    <2>3. QED
      BY <2>2 DEF p
  <1>2. v % Power(i + 1) = (v % Power(i)) + (Power(i) * d)
    BY OneBitMore DEF More
  <1>3. i \in Bits(v) <=> d = 1
    BY DEF Bits
  <1>4. d = 1 \/ d = 0
    BY <1>1
  <1> HIDE DEF d
  <1>5. QED
    BY <1>1, <1>2, <1>3, <1>4, PowerType DEF Adds, Rest

(* The last n bits of a number are the number modulo the n-th power. *)
LEMMA Numeral ==
    ASSUME NEW v \in Nat, NEW n \in 0..16, NEW word,
           \A i \in 0..15 : i \in word <=> i < n /\ i \in Bits(v)
    PROVE  Value(word) = v % Power(n)
  <1> DEFINE b == [i \in 0..15 |-> IF i \in word THEN Power(i) ELSE 0]
             c == [i \in 0..16 |-> IF i < n THEN Rest(v, i) ELSE Rest(v, n)]
  <1>1. Value(word) = b[0] + b[1] + b[2] + b[3] + b[4] + b[5] + b[6] + b[7]
                        + b[8] + b[9] + b[10] + b[11] + b[12] + b[13] + b[14] + b[15]
    BY DEF Value
  <1>2. c[0] = 0 /\ c[16] = Rest(v, n)
    BY PowerValues DEF Rest
  <1>3. ASSUME NEW i \in 0..15
        PROVE  c[i + 1] = c[i] + b[i] /\ c[i] \in Nat /\ b[i] \in Nat
    <2>1. CASE i < n
      <3>1. c[i] = Rest(v, i) /\ c[i + 1] = Rest(v, i + 1)
        BY <2>1
      <3>2. b[i] = IF i \in Bits(v) THEN Power(i) ELSE 0
        BY <2>1
      <3> HIDE DEF b, c
      <3>3. Adds(v, i) /\ Power(i) \in Nat
        BY NextBit, PowerType
      <3>4. CASE i \in Bits(v)
        BY <3>1, <3>2, <3>3, <3>4 DEF Adds
      <3>5. CASE i \notin Bits(v)
        BY <3>1, <3>2, <3>3, <3>5 DEF Adds
      <3>6. QED
        BY <3>4, <3>5
    <2>2. CASE ~(i < n)
      <3>1. c[i] = Rest(v, n) /\ c[i + 1] = Rest(v, n) /\ b[i] = 0
        BY <2>2
      <3>2. Rest(v, n) \in Nat
        BY PowerType DEF Rest
      <3> HIDE DEF b, c
      <3>3. QED
        BY <3>1, <3>2
    <2>3. QED
      BY <2>1, <2>2
  <1> HIDE DEF b, c
  <1>4. /\ c[1] = c[0] + b[0] /\ c[0] \in Nat /\ b[0] \in Nat
        /\ c[2] = c[1] + b[1] /\ c[1] \in Nat /\ b[1] \in Nat
        /\ c[3] = c[2] + b[2] /\ c[2] \in Nat /\ b[2] \in Nat
        /\ c[4] = c[3] + b[3] /\ c[3] \in Nat /\ b[3] \in Nat
        /\ c[5] = c[4] + b[4] /\ c[4] \in Nat /\ b[4] \in Nat
        /\ c[6] = c[5] + b[5] /\ c[5] \in Nat /\ b[5] \in Nat
        /\ c[7] = c[6] + b[6] /\ c[6] \in Nat /\ b[6] \in Nat
        /\ c[8] = c[7] + b[7] /\ c[7] \in Nat /\ b[7] \in Nat
        /\ c[9] = c[8] + b[8] /\ c[8] \in Nat /\ b[8] \in Nat
        /\ c[10] = c[9] + b[9] /\ c[9] \in Nat /\ b[9] \in Nat
        /\ c[11] = c[10] + b[10] /\ c[10] \in Nat /\ b[10] \in Nat
        /\ c[12] = c[11] + b[11] /\ c[11] \in Nat /\ b[11] \in Nat
        /\ c[13] = c[12] + b[12] /\ c[12] \in Nat /\ b[12] \in Nat
        /\ c[14] = c[13] + b[13] /\ c[13] \in Nat /\ b[13] \in Nat
        /\ c[15] = c[14] + b[14] /\ c[14] \in Nat /\ b[14] \in Nat
        /\ c[16] = c[15] + b[15] /\ c[15] \in Nat /\ b[15] \in Nat
    BY <1>3
  <1>5. QED
    BY <1>1, <1>2, <1>4 DEF Rest

LEMMA PowerGrows == \A i, j \in 0..16 : i <= j => Power(i) <= Power(j)
  BY PowerValues

(* A number below the n-th power has no bit from n up. *)
LEMMA SmallBits ==
    ASSUME NEW v \in Nat, NEW n \in 0..16, v < Power(n), NEW i \in Bits(v)
    PROVE  i \in 0..15 /\ i < n
  <1>1. i \in 0..15 /\ (v \div Power(i)) % 2 = 1
    BY DEF Bits
  <1>2. CASE ~(i < n)
    <2> DEFINE p == Power(i)
    <2>1. v < p /\ p \in Nat \ {0}
      BY <1>1, <1>2, PowerGrows, PowerType
    <2> HIDE DEF p
    <2>2. v \div p = 0
      BY <2>1
    <2>3. QED
      BY <1>1, <2>2 DEF p
  <1>3. QED
    BY <1>1, <1>2

LEMMA NoBits == Bits(0) = {}
  <1>1. \A i \in 0..15 : (0 \div Power(i)) % 2 = 0
    <2> SUFFICES ASSUME NEW i \in 0..15 PROVE (0 \div Power(i)) % 2 = 0
      OBVIOUS
    <2> DEFINE p == Power(i)
    <2>1. p \in Nat \ {0}
      BY PowerType
    <2> HIDE DEF p
    <2>2. (0 \div p) % 2 = 0
      BY <2>1
    <2>3. QED
      BY <2>2 DEF p
  <1>2. QED
    BY <1>1 DEF Bits

(* A slice whose bits are those of a number is that number, cut to the     *)
(* width of the slice.                                                     *)
(* n bits of a word, from lsb up, are those of a number. *)
Sits(word, lsb, n, v) == \A j \in 0..15 : j < n => (lsb + j \in word <=> j \in Bits(v))
Spans(lsb, msb, n) == lsb \in Nat /\ msb \in Nat /\ n \in 0..16 /\ msb + 1 = lsb + n
LEMMA SliceIs ==
    ASSUME NEW word, NEW lsb, NEW msb, NEW n, Spans(lsb, msb, n),
           NEW v, v \in Nat, Sits(word, lsb, n, v)
    PROVE  Slice(word, lsb, msb) = v % Power(n)
  <1> DEFINE w == {i - lsb : i \in word \cap (lsb..msb)}
  <1>0. lsb \in Nat /\ msb \in Nat /\ n \in 0..16 /\ msb + 1 = lsb + n
    BY DEF Spans
  <1>1. ASSUME NEW j \in 0..15
        PROVE  j \in w <=> j < n /\ j \in Bits(v)
    <2>1. ASSUME j \in w PROVE j < n /\ lsb + j \in word
      <3>1. PICK i \in word \cap (lsb..msb) : j = i - lsb
        BY <2>1
      <3>2. i \in Nat /\ i = lsb + j /\ i <= msb /\ i \in word
        BY <1>0, <3>1
      <3>3. QED
        BY <1>0, <3>2
    <2>2. ASSUME j < n, lsb + j \in word PROVE j \in w
      <3>1. lsb + j \in word \cap (lsb..msb) /\ j = (lsb + j) - lsb
        BY <1>0, <2>2
      <3>2. QED
        BY <3>1
    <2>3. QED
      BY <2>1, <2>2 DEF Sits
  <1> HIDE DEF w
  <1>2. Value(w) = v % Power(n)
    BY <1>0, <1>1, Numeral
  <1>3. QED
    BY <1>2 DEF Slice, w

LEMMA SmallRest == \A v, p \in Nat : v < p => v % p = v
  OBVIOUS

----------------------------------------------------------------------------
(***************************************************************************)
(* The fields of the four words.  The fields of one word lie apart, each   *)
(* builder writes through the masks of its own, and so every field holds,  *)
(* bit by bit, what was last asked for it.  This is FieldInv; it covers    *)
(* the fields pio.sv does not slice too, and says that what is asked fits. *)
(***************************************************************************)
Words == {"clkdiv", "execctrl", "shiftctrl", "pinctrl"}
Width(f) == (Layout[f].msb + 1) - Layout[f].lsb

LEMMA LayoutFacts ==
    ASSUME NEW f \in DOMAIN Layout
    PROVE  /\ Layout[f].reg \in Words /\ Layout[f].lsb \in Nat /\ Layout[f].msb \in Nat
           /\ Layout[f].lsb <= Layout[f].msb /\ Layout[f].msb <= 31 /\ Width(f) \in 1..16
  BY DEF Layout, At, Words, Width

LEMMA FieldsApart ==
    ASSUME NEW f \in DOMAIN Layout, NEW g \in DOMAIN Layout, f # g, Layout[f].reg = Layout[g].reg
    PROVE  Layout[f].msb < Layout[g].lsb \/ Layout[g].msb < Layout[f].lsb
  BY DEF Layout, At

(* What asking a builder for a value can leave in a field.  Five bits hold *)
(* a threshold of 32 as 0, which the hardware reads as 32.                 *)
Thresholds == {"push_thresh", "pull_thresh"}
Legal(f, v) == v \in Nat /\ (v < Power(Width(f)) \/ (f \in Thresholds /\ v = 32))

LEMMA InField ==
    ASSUME NEW f \in DOMAIN Layout, NEW v \in Nat, NEW j \in 0..15, j < Width(f)
    PROVE  Layout[f].lsb + j \in FieldBits(f, v) <=> j \in Bits(v)
  <1>1. Layout[f].lsb \in Nat /\ Layout[f].msb \in Nat /\ Layout[f].msb <= 31
    BY LayoutFacts
  <1> DEFINE l == Layout[f].lsb
             b == l + j
  <1>2. b \in Nat /\ b \in Mask(f) /\ b \in 0..31 /\ j = b - l
    BY <1>1, LayoutFacts DEF Width, Mask
  <1> HIDE DEF l, b
  <1>3. b \in {i + l : i \in Bits(v)} <=> j \in Bits(v)
    <2>1. ASSUME NEW i \in Bits(v), b = i + l PROVE i = j
      <3>1. i \in Nat
        BY DEF Bits
      <3>2. QED
        BY <1>1, <1>2, <2>1, <3>1 DEF l, b
    <2>2. b = j + l
      BY <1>1 DEF b, l
    <2>3. QED
      BY <2>1, <2>2
  <1>4. QED
    BY <1>2, <1>3 DEF FieldBits, Shl, l, b

(* Every field of a configuration holds what was asked for it.  *)
Configs == [Words -> SUBSET (0..31)]
Stores(c, a) ==
    /\ c \in Configs /\ a \in [DOMAIN Layout -> Nat]
    /\ \A f \in DOMAIN Layout :
         Legal(f, a[f]) /\ c[Layout[f].reg] \cap Mask(f) = FieldBits(f, a[f])
SideLegal(a) == /\ a.side_count \in 0..5 /\ a.side_en \in {0, 1}
                /\ a.side_count = 0 => a.side_en = 0
FieldInv == Stores(config, asked) /\ SideLegal(asked)

LEMMA FieldSlice ==
    ASSUME FieldInv, NEW f \in DOMAIN Layout
    PROVE  Slice(config[Layout[f].reg], Layout[f].lsb, Layout[f].msb) = asked[f] % Power(Width(f))
  <1> DEFINE l == Layout[f].lsb
             m == Layout[f].msb
             w == config[Layout[f].reg]
             n == Width(f)
             v == asked[f]
  <1>1. l \in Nat /\ m \in Nat /\ n \in 0..16 /\ m + 1 = l + n
    BY LayoutFacts DEF Width
  <1>2. v \in Nat /\ w \cap Mask(f) = FieldBits(f, v)
    BY DEF FieldInv, Stores
  <1>3. ASSUME NEW j \in 0..15, j < n
        PROVE  l + j \in w <=> j \in Bits(v)
    <2>1. l + j \in Mask(f)
      BY <1>1, <1>3 DEF Mask
    <2>2. l + j \in FieldBits(f, v) <=> j \in Bits(v)
      BY <1>2, <1>3, InField
    <2>3. QED
      BY <1>2, <2>1, <2>2
  <1> HIDE DEF l, m, w, n, v
  <1>4. Sits(w, l, n, v)
    BY <1>3 DEF Sits
  <1>5. Slice(w, l, m) = v % Power(n)
    <2>1. v \in Nat /\ Spans(l, m, n)
      BY <1>1, <1>2 DEF Spans
    <2>2. QED
      BY <1>4, <2>1, SliceIs
  <1>6. QED
    BY <1>5 DEF l, m, w, n, v

(* What the hardware reads in a field. *)
LEMMA FieldRead ==
    ASSUME FieldInv, NEW f \in DOMAIN Layout,
           NEW v, v = Slice(config[Layout[f].reg], Layout[f].lsb, Layout[f].msb)
    PROVE  IF f \in Thresholds THEN Or32(v) = Or32(asked[f]) ELSE v = asked[f]
  <1>1. asked[f] \in Nat /\ Legal(f, asked[f]) /\ v = asked[f] % Power(Width(f))
    BY FieldSlice DEF FieldInv, Stores
  <1>2. CASE asked[f] < Power(Width(f))
    <2>1. Power(Width(f)) \in Nat
      BY LayoutFacts, PowerType
    <2>2. v = asked[f]
      BY <1>1, <1>2, <2>1, SmallRest
    <2>3. QED
      BY <2>2
  <1>3. CASE f \in Thresholds /\ asked[f] = 32
    <2>1. Width(f) = 5
      BY <1>3 DEF Thresholds, Width, Layout, At
    <2>2. v = 32 % 32
      BY <1>1, <1>3, <2>1, PowerValues
    <2>3. v = 0
      BY <2>2
    <2>4. QED
      BY <1>3, <2>3 DEF Or32
  <1>4. QED
    BY <1>1, <1>2, <1>3 DEF Legal

LEMMA FieldsRead == FieldInv => FieldsDecode
  <1> SUFFICES ASSUME FieldInv, NEW f \in DOMAIN HwField(config)
               PROVE  IF f \in Thresholds THEN Or32(HwField(config)[f]) = Or32(asked[f])
                      ELSE HwField(config)[f] = asked[f]
    BY DEF FieldsDecode, Thresholds
  <1>1. /\ f \in DOMAIN Layout
        /\ HwField(config)[f] = Slice(config[Layout[f].reg], Layout[f].lsb, Layout[f].msb)
    BY DEF HwField, Layout, At
  <1>2. QED
    BY <1>1, FieldRead

----------------------------------------------------------------------------
LEMMA MasksApart ==
    ASSUME NEW f \in DOMAIN Layout, NEW g \in DOMAIN Layout, f # g, Layout[f].reg = Layout[g].reg
    PROVE  Mask(f) \cap Mask(g) = {}
  <1>1. /\ Layout[f].lsb \in Nat /\ Layout[f].msb \in Nat
        /\ Layout[g].lsb \in Nat /\ Layout[g].msb \in Nat
    BY LayoutFacts
  <1>2. Layout[f].msb < Layout[g].lsb \/ Layout[g].msb < Layout[f].lsb
    BY FieldsApart
  <1>3. QED
    BY <1>1, <1>2 DEF Mask

LEMMA MaskInWord ==
    ASSUME NEW f \in DOMAIN Layout, NEW v
    PROVE  Mask(f) \subseteq 0..31 /\ FieldBits(f, v) \subseteq Mask(f)
  <1>1. Layout[f].lsb \in Nat /\ Layout[f].msb \in Nat /\ Layout[f].msb <= 31
    BY LayoutFacts
  <1>2. QED
    BY <1>1 DEF Mask, FieldBits

(* The values asked for once the builder of some fields of one word has    *)
(* run.                                                                    *)
Then(a, fields) == [f \in DOMAIN a |-> IF f \in DOMAIN fields THEN fields[f] ELSE a[f]]
FieldsOf(reg, fields) ==
    /\ reg \in Words
    /\ DOMAIN fields \subseteq DOMAIN Layout
    /\ \A f \in DOMAIN fields : Layout[f].reg = reg /\ Legal(f, fields[f])

(* A builder changes its own fields, to what is asked, and no other.  *)
LEMMA PutStores ==
    ASSUME NEW c, NEW a, Stores(c, a), NEW reg, NEW fields, FieldsOf(reg, fields)
    PROVE  Stores(Put(c, reg, fields), Then(a, fields))
  <1> DEFINE masks == UNION {Mask(f) : f \in DOMAIN fields}
             values == UNION {FieldBits(f, fields[f]) : f \in DOMAIN fields}
             word == (c[reg] \ masks) \cup values
             d == Put(c, reg, fields)
             b == Then(a, fields)
  <1>1. c \in Configs /\ reg \in Words /\ DOMAIN fields \subseteq DOMAIN Layout
    BY DEF Stores, FieldsOf
  <1>2. \A f \in DOMAIN fields : /\ Layout[f].reg = reg
                                /\ Mask(f) \subseteq 0..31
                                /\ FieldBits(f, fields[f]) \subseteq Mask(f)
    BY <1>1, MaskInWord DEF FieldsOf
  <1>3. d = [c EXCEPT ![reg] = word]
    BY DEF Put
  <1>4. values \subseteq masks /\ masks \subseteq 0..31
    BY <1>2
  <1>5. word \in SUBSET (0..31)
    BY <1>1, <1>4 DEF Configs
  <1>6. d \in Configs /\ d[reg] = word /\ \A r \in Words : r # reg => d[r] = c[r]
    <2> HIDE DEF word, d
    <2>1. QED
      BY <1>1, <1>3, <1>5 DEF Configs
  <1>7. b \in [DOMAIN Layout -> Nat] /\ \A f \in DOMAIN Layout : Legal(f, b[f])
    <2>1. a \in [DOMAIN Layout -> Nat] /\ \A f \in DOMAIN Layout : Legal(f, a[f])
      BY DEF Stores
    <2>2. \A f \in DOMAIN fields : Legal(f, fields[f]) /\ fields[f] \in Nat
      BY DEF FieldsOf, Legal
    <2>3. QED
      BY <2>1, <2>2 DEF Then
  <1>8. ASSUME NEW f \in DOMAIN Layout
        PROVE  d[Layout[f].reg] \cap Mask(f) = FieldBits(f, b[f])
    <2>1. Layout[f].reg \in Words /\ c[Layout[f].reg] \cap Mask(f) = FieldBits(f, a[f])
      BY LayoutFacts DEF Stores
    <2>2. DOMAIN a = DOMAIN Layout
      BY DEF Stores
    <2>3. CASE Layout[f].reg # reg
      <3>1. f \notin DOMAIN fields
        BY <1>2, <2>3
      <3>2. b[f] = a[f]
        BY <2>2, <3>1 DEF Then
      <3>3. d[Layout[f].reg] = c[Layout[f].reg]
        BY <1>6, <2>1, <2>3
      <3> HIDE DEF d, b
      <3>4. QED
        BY <2>1, <3>2, <3>3
    <2>4. CASE Layout[f].reg = reg
      <3>1. \A g \in DOMAIN fields : g # f => Mask(g) \cap Mask(f) = {}
        BY <1>1, <1>2, <2>4, MasksApart
      <3>2. CASE f \in DOMAIN fields
        <4>1. b[f] = fields[f]
          BY <2>2, <3>2 DEF Then
        <4>2. Mask(f) \subseteq masks
          BY <3>2
        <4>3. values \cap Mask(f) = FieldBits(f, fields[f])
          <5>1. FieldBits(f, fields[f]) \subseteq values
            BY <3>2
          <5>2. FieldBits(f, fields[f]) \subseteq Mask(f)
            BY <1>2, <3>2
          <5>3. \A g \in DOMAIN fields :
                  FieldBits(g, fields[g]) \cap Mask(f) \subseteq FieldBits(f, fields[f])
            BY <1>2, <3>1
          <5>4. QED
            BY <5>1, <5>2, <5>3
        <4> HIDE DEF values, masks, d, b
        <4>4. QED
          BY <1>6, <2>4, <4>1, <4>2, <4>3 DEF word
      <3>3. CASE f \notin DOMAIN fields
        <4>1. b[f] = a[f]
          BY <2>2, <3>3 DEF Then
        <4>2. masks \cap Mask(f) = {}
          BY <3>1, <3>3
        <4> HIDE DEF values, masks, d, b
        <4>3. QED
          BY <1>4, <1>6, <2>1, <2>4, <4>1, <4>2 DEF word
      <3>4. QED
        BY <3>2, <3>3
    <2>5. QED
      BY <2>3, <2>4
  <1> HIDE DEF d, b
  <1>9. QED
    BY <1>6, <1>7, <1>8 DEF Stores, d, b

----------------------------------------------------------------------------
(* sm_config_set_clkdiv_int_frac writes its word whole.  The two fields    *)
(* fill it but for the bits below them, which nothing reads.               *)
LEMMA ClkdivStores ==
    ASSUME NEW c, NEW a, NEW g, NEW d \in Nat, NEW n \in Nat,
           Stores(c, a), d < Power(16), n < Power(8),
           g = [c EXCEPT !.clkdiv = Shl(Bits(n), 8) \cup Shl(Bits(d), 16)]
    PROVE  Stores(g, Then(a, [div |-> d, frac |-> n]))
  <1> DEFINE word == Shl(Bits(n), 8) \cup Shl(Bits(d), 16)
             b == Then(a, [div |-> d, frac |-> n])
  <1>1. c \in Configs /\ a \in [DOMAIN Layout -> Nat] /\ DOMAIN a = DOMAIN Layout
    BY DEF Stores
  <1>2. word \in SUBSET (0..31)
    BY DEF Shl
  <1>3. g \in Configs /\ g["clkdiv"] = word /\ \A r \in Words : r # "clkdiv" => g[r] = c[r]
    <2> HIDE DEF word
    <2>1. g = [c EXCEPT !["clkdiv"] = word] /\ "clkdiv" \in Words
      BY DEF word, Words
    <2>2. QED
      BY <1>1, <1>2, <2>1 DEF Configs
  <1>4. /\ b.div = d /\ b.frac = n
        /\ \A f \in DOMAIN Layout : f \notin {"div", "frac"} => b[f] = a[f]
    <2>1. "div" \in DOMAIN Layout /\ "frac" \in DOMAIN Layout
      BY DEF Layout
    <2>2. QED
      BY <1>1, <2>1 DEF Then
  <1>5. /\ \A f \in DOMAIN Layout : Layout[f].reg = "clkdiv" <=> f \in {"div", "frac"}
        /\ Layout["div"] = At("clkdiv", 16, 31) /\ Layout["frac"] = At("clkdiv", 8, 15)
        /\ "div" \in DOMAIN Layout /\ "frac" \in DOMAIN Layout
    BY DEF Layout, At
  <1>6. Mask("div") = 16..31 /\ Mask("frac") = 8..15 /\ Width("div") = 16 /\ Width("frac") = 8
    BY <1>5 DEF Mask, Width, At
  <1>7. Bits(d) \subseteq 0..15 /\ Bits(n) \subseteq 0..7
    <2>1. \A i \in Bits(n) : i \in 0..15 /\ i < 8
      BY SmallBits
    <2>2. \A i \in Bits(n) : i \in 0..7
      BY <2>1
    <2>3. QED
      BY <2>2 DEF Bits
  <1>8. /\ FieldBits("div", d) = Shl(Bits(d), 16) \cap (16..31)
        /\ FieldBits("frac", n) = Shl(Bits(n), 8) \cap (8..15)
    BY <1>5, <1>6 DEF FieldBits, At
  <1>9. Shl(Bits(d), 16) \subseteq 16..31 /\ Shl(Bits(n), 8) \subseteq 8..15
    BY <1>7 DEF Shl
  <1>10. /\ word \cap Mask("div") = FieldBits("div", d)
         /\ word \cap Mask("frac") = FieldBits("frac", n)
    <2> DEFINE p == Shl(Bits(d), 16)
               q == Shl(Bits(n), 8)
    <2> HIDE DEF p, q
    <2>1. p \subseteq 16..31 /\ q \subseteq 8..15
      BY <1>9 DEF p, q
    <2>2. (q \cup p) \cap (16..31) = p \cap (16..31) /\ (q \cup p) \cap (8..15) = q \cap (8..15)
      BY <2>1
    <2>3. QED
      BY <1>6, <1>8, <2>2 DEF p, q
  <1> HIDE DEF b, word
  <1>11. b \in [DOMAIN Layout -> Nat]
    <2>1. DOMAIN b = DOMAIN Layout /\ b = [f \in DOMAIN b |-> b[f]]
      BY <1>1 DEF b, Then
    <2>2. \A f \in DOMAIN Layout : b[f] \in Nat
      BY <1>1, <1>4
    <2>3. QED
      BY <2>1, <2>2
  <1>12. ASSUME NEW f \in DOMAIN Layout
         PROVE  Legal(f, b[f]) /\ g[Layout[f].reg] \cap Mask(f) = FieldBits(f, b[f])
    <2>1. CASE f = "div"
      BY <1>3, <1>4, <1>5, <1>6, <1>10, <2>1 DEF Legal, At
    <2>2. CASE f = "frac"
      BY <1>3, <1>4, <1>5, <1>6, <1>10, <2>2 DEF Legal, At
    <2>3. CASE f \notin {"div", "frac"}
      <3>1. b[f] = a[f] /\ Layout[f].reg # "clkdiv" /\ Layout[f].reg \in Words
        BY <1>4, <1>5, <2>3, LayoutFacts
      <3>2. g[Layout[f].reg] = c[Layout[f].reg]
        BY <1>3, <3>1
      <3>3. Legal(f, a[f]) /\ c[Layout[f].reg] \cap Mask(f) = FieldBits(f, a[f])
        BY DEF Stores
      <3>4. QED
        BY <3>1, <3>2, <3>3
    <2>4. QED
      BY <2>1, <2>2, <2>3
  <1>13. QED
    BY <1>3, <1>11, <1>12 DEF Stores, b

(* pio_get_default_sm_config, field by field. *)
LEMMA DefaultStores == Stores(DefaultConfig, DefaultFields)
  <1>1. Bits(31) = 0..4
    <2>1. \A i \in Bits(31) : i \in 0..15 /\ i < 5
      BY SmallBits, PowerValues
    <2>2. \A i \in 0..4 : i \in Bits(31)
      BY PowerValues DEF Bits
    <2>3. QED
      BY <2>1, <2>2 DEF Bits
  <1>2. Bits(5) = {0, 2}
    <2>1. \A i \in Bits(5) : i \in 0..15 /\ i < 3
      BY SmallBits, PowerValues
    <2>2. 0 \in Bits(5) /\ 1 \notin Bits(5) /\ 2 \in Bits(5)
      BY PowerValues DEF Bits
    <2>3. QED
      BY <2>1, <2>2 DEF Bits
  <1>3. Bits(1) = {0}
    <2>1. \A i \in Bits(1) : i \in 0..15 /\ i < 1
      BY SmallBits, PowerValues
    <2>2. 0 \in Bits(1)
      BY PowerValues DEF Bits
    <2>3. QED
      BY <2>1, <2>2 DEF Bits
  <1>4. Bits(0) = {}
    BY NoBits
  <1>5. DefaultConfig \in Configs
    <2>1. DefaultConfig = [clkdiv |-> {16}, execctrl |-> 12..16,
                           shiftctrl |-> {18, 19}, pinctrl |-> {26, 28}]
      BY <1>1, <1>2 DEF DefaultConfig, Shl
    <2>2. QED
      BY <2>1 DEF Configs, Words
  <1>6. DefaultFields \in [DOMAIN Layout -> Nat]
    BY DEF DefaultFields
  <1>7. \A f \in DOMAIN Layout : Legal(f, DefaultFields[f])
    BY PowerValues DEF Legal, DefaultFields, Layout, Width, At
  <1>8. ASSUME NEW f \in DOMAIN Layout
        PROVE  DefaultConfig[Layout[f].reg] \cap Mask(f) = FieldBits(f, DefaultFields[f])
    <2>1. /\ DefaultConfig.clkdiv = {16} /\ DefaultConfig.execctrl = 12..16
          /\ DefaultConfig.shiftctrl = {18, 19} /\ DefaultConfig.pinctrl = {26, 28}
      BY <1>1, <1>2 DEF DefaultConfig, Shl
    <2>2. CASE f \notin {"div", "wrap_top", "set_count", "in_right", "out_right"}
      <3>1. DefaultFields[f] = 0
        BY <2>2 DEF DefaultFields
      <3>2. FieldBits(f, DefaultFields[f]) = {}
        BY <1>4, <3>1 DEF FieldBits, Shl
      <3>3. DefaultConfig[Layout[f].reg] \cap Mask(f) = {}
        <4>1. CASE Layout[f].reg = "clkdiv"
          BY <2>1, <2>2, <4>1 DEF Layout, At, Mask
        <4>2. CASE Layout[f].reg = "execctrl"
          BY <2>1, <2>2, <4>2 DEF Layout, At, Mask
        <4>3. CASE Layout[f].reg = "shiftctrl"
          BY <2>1, <2>2, <4>3 DEF Layout, At, Mask
        <4>4. CASE Layout[f].reg = "pinctrl"
          BY <2>1, <2>2, <4>4 DEF Layout, At, Mask
        <4>5. QED
          BY <4>1, <4>2, <4>3, <4>4, LayoutFacts DEF Words
      <3>4. QED
        BY <3>2, <3>3
    <2>3. CASE f = "div"
      <3>1. FieldBits(f, DefaultFields[f]) = {16} /\ Mask(f) = 16..31 /\ Layout[f].reg = "clkdiv"
        BY <1>3, <2>3 DEF DefaultFields, Layout, Mask, At, FieldBits, Shl
      <3>2. QED
        BY <2>1, <3>1
    <2>4. CASE f = "wrap_top"
      <3>1. /\ FieldBits(f, DefaultFields[f]) = 12..16 /\ Mask(f) = 12..16
            /\ Layout[f].reg = "execctrl"
        BY <1>1, <2>4 DEF DefaultFields, Layout, Mask, At, FieldBits, Shl
      <3>2. QED
        BY <2>1, <3>1
    <2>5. CASE f = "set_count"
      <3>1. /\ FieldBits(f, DefaultFields[f]) = {26, 28} /\ Mask(f) = 26..28
            /\ Layout[f].reg = "pinctrl"
        BY <1>2, <2>5 DEF DefaultFields, Layout, Mask, At, FieldBits, Shl
      <3>2. QED
        BY <2>1, <3>1
    <2>6. CASE f = "in_right"
      <3>1. FieldBits(f, DefaultFields[f]) = {18} /\ Mask(f) = {18} /\ Layout[f].reg = "shiftctrl"
        BY <1>3, <2>6 DEF DefaultFields, Layout, Mask, At, FieldBits, Shl
      <3>2. QED
        BY <2>1, <3>1
    <2>7. CASE f = "out_right"
      <3>1. FieldBits(f, DefaultFields[f]) = {19} /\ Mask(f) = {19} /\ Layout[f].reg = "shiftctrl"
        BY <1>3, <2>7 DEF DefaultFields, Layout, Mask, At, FieldBits, Shl
      <3>2. QED
        BY <2>1, <3>1
    <2>8. QED
      BY <2>2, <2>3, <2>4, <2>5, <2>6, <2>7
  <1>9. QED
    BY <1>5, <1>6, <1>7, <1>8 DEF Stores

----------------------------------------------------------------------------
(* The builders that go through Put leave a configuration of legal fields  *)
(* when the values asked for are legal; those that do not touch the        *)
(* side-set fields keep them consistent.                                   *)
LEMMA BuildKeeps ==
    ASSUME FieldInv, NEW reg, NEW fields, FieldsOf(reg, fields), Build(reg, fields),
           "side_count" \notin DOMAIN fields, "side_en" \notin DOMAIN fields
    PROVE  FieldInv'
  <1>1. config' = Put(config, reg, fields) /\ asked' = Then(asked, fields)
    BY DEF Build, Asked, Then
  <1>2. Stores(config', asked')
    BY <1>1, PutStores DEF FieldInv
  <1>3. asked'.side_count = asked.side_count /\ asked'.side_en = asked.side_en
    <2>1. "side_count" \in DOMAIN asked /\ "side_en" \in DOMAIN asked
      BY DEF FieldInv, Stores, Layout
    <2>2. QED
      BY <1>1, <2>1 DEF Then
  <1>4. SideLegal(asked')
    BY <1>3 DEF FieldInv, SideLegal
  <1>5. QED
    BY <1>2, <1>4 DEF FieldInv

LEMMA FieldWidths ==
    /\ Width("out_base") = 5 /\ Width("set_base") = 5
    /\ Width("in_base") = 5 /\ Width("side_base") = 5
    /\ Width("jmp_pin") = 5 /\ Width("wrap_bottom") = 5 /\ Width("wrap_top") = 5
    /\ Width("out_count") = 6 /\ Width("set_count") = 3 /\ Width("side_count") = 3
    /\ Width("in_right") = 1 /\ Width("out_right") = 1
    /\ Width("autopush") = 1 /\ Width("autopull") = 1
    /\ Width("side_en") = 1 /\ Width("side_pindir") = 1 /\ Width("status_sel") = 1
    /\ Width("status_n") = 4 /\ Width("join") = 2
    /\ Width("push_thresh") = 5 /\ Width("pull_thresh") = 5
  BY DEF Width, Layout, At

LEMMA FieldWords ==
    /\ Layout["out_base"].reg = "pinctrl" /\ Layout["set_base"].reg = "pinctrl"
    /\ Layout["in_base"].reg = "pinctrl" /\ Layout["side_base"].reg = "pinctrl"
    /\ Layout["out_count"].reg = "pinctrl" /\ Layout["set_count"].reg = "pinctrl"
    /\ Layout["side_count"].reg = "pinctrl"
    /\ Layout["jmp_pin"].reg = "execctrl" /\ Layout["wrap_bottom"].reg = "execctrl"
    /\ Layout["wrap_top"].reg = "execctrl" /\ Layout["side_en"].reg = "execctrl"
    /\ Layout["side_pindir"].reg = "execctrl" /\ Layout["status_sel"].reg = "execctrl"
    /\ Layout["status_n"].reg = "execctrl"
    /\ Layout["in_right"].reg = "shiftctrl" /\ Layout["out_right"].reg = "shiftctrl"
    /\ Layout["autopush"].reg = "shiftctrl" /\ Layout["autopull"].reg = "shiftctrl"
    /\ Layout["push_thresh"].reg = "shiftctrl" /\ Layout["pull_thresh"].reg = "shiftctrl"
    /\ Layout["join"].reg = "shiftctrl"
  BY DEF Layout, At

LEMMA FieldNames ==
    {"out_base", "set_base", "in_base", "side_base", "out_count", "set_count", "side_count",
     "jmp_pin", "wrap_bottom", "wrap_top", "side_en", "side_pindir", "status_sel", "status_n",
     "in_right", "out_right", "autopush", "autopull", "push_thresh", "pull_thresh", "join",
     "div", "frac"} = DOMAIN Layout
  BY DEF Layout

(* What callers pass fits the field it is put into. *)
LEMMA OperandsFit ==
    /\ \A v \in Operands.pin :
         /\ Legal("out_base", v) /\ Legal("set_base", v) /\ Legal("in_base", v)
         /\ Legal("side_base", v) /\ Legal("jmp_pin", v)
         /\ Legal("wrap_bottom", v) /\ Legal("wrap_top", v)
    /\ \A v \in Operands.out_count : Legal("out_count", v)
    /\ \A v \in Operands.set_count : Legal("set_count", v)
    /\ \A v \in Operands.side_count : Legal("side_count", v)
    /\ \A v \in Operands.level : Legal("status_n", v)
    /\ \A v \in Operands.threshold : Legal("push_thresh", v) /\ Legal("pull_thresh", v)
  <1>1. /\ \A v \in Operands.pin : v \in Nat /\ v < 32
        /\ \A v \in Operands.out_count : v \in Nat /\ v < 64
        /\ \A v \in Operands.set_count : v \in Nat /\ v < 8
        /\ \A v \in Operands.side_count : v \in Nat /\ v < 8
        /\ \A v \in Operands.level : v \in Nat /\ v < 16
        /\ \A v \in Operands.threshold : v \in Nat /\ (v < 32 \/ v = 32)
    BY EncodingAssumption DEF OperandsLegal
  <1>2. /\ Power(5) = 32 /\ Power(6) = 64 /\ Power(3) = 8 /\ Power(4) = 16
    BY PowerValues
  <1>3. \A v \in Operands.pin :
          /\ Legal("out_base", v) /\ Legal("set_base", v) /\ Legal("in_base", v)
          /\ Legal("side_base", v) /\ Legal("jmp_pin", v)
          /\ Legal("wrap_bottom", v) /\ Legal("wrap_top", v)
    BY <1>1, <1>2, FieldWidths DEF Legal
  <1>4. \A v \in Operands.out_count : Legal("out_count", v)
    BY <1>1, <1>2, FieldWidths DEF Legal
  <1>5. \A v \in Operands.set_count : Legal("set_count", v)
    BY <1>1, <1>2, FieldWidths DEF Legal
  <1>6. \A v \in Operands.side_count : Legal("side_count", v)
    BY <1>1, <1>2, FieldWidths DEF Legal
  <1>7. \A v \in Operands.level : Legal("status_n", v)
    BY <1>1, <1>2, FieldWidths DEF Legal
  <1>8. \A v \in Operands.threshold : Legal("push_thresh", v) /\ Legal("pull_thresh", v)
    BY <1>1, <1>2, FieldWidths DEF Legal, Thresholds
  <1>9. QED
    BY <1>3, <1>4, <1>5, <1>6, <1>7, <1>8

LEMMA FlagsFit ==
    ASSUME NEW v \in {0, 1}
    PROVE  /\ Legal("in_right", v) /\ Legal("out_right", v) /\ Legal("autopush", v)
           /\ Legal("autopull", v) /\ Legal("side_en", v) /\ Legal("side_pindir", v)
           /\ Legal("status_sel", v)
  <1>1. v \in Nat /\ v < Power(1)
    BY PowerValues
  <1>2. QED
    BY <1>1, FieldWidths DEF Legal

LEMMA PinctrlFields ==
    ASSUME NEW b \in Operands.pin
    PROVE  /\ \A n \in Operands.out_count : FieldsOf("pinctrl", [out_base |-> b, out_count |-> n])
           /\ \A n \in Operands.set_count : FieldsOf("pinctrl", [set_base |-> b, set_count |-> n])
           /\ FieldsOf("pinctrl", [in_base |-> b]) /\ FieldsOf("pinctrl", [side_base |-> b])
  BY OperandsFit, FieldWords, FieldNames DEF FieldsOf, Words

LEMMA ExecctrlFields ==
    /\ \A p \in Operands.pin : FieldsOf("execctrl", [jmp_pin |-> p])
    /\ \A p, q \in Operands.pin : FieldsOf("execctrl", [wrap_bottom |-> p, wrap_top |-> q])
    /\ \A s \in {0, 1}, n \in Operands.level :
         FieldsOf("execctrl", [status_sel |-> s, status_n |-> n])
    /\ \A e, d \in {0, 1} : FieldsOf("execctrl", [side_en |-> e, side_pindir |-> d])
  BY OperandsFit, FlagsFit, FieldWords, FieldNames DEF FieldsOf, Words

LEMMA ShiftctrlFields ==
    /\ \A r, a \in {0, 1}, t \in Operands.threshold :
         /\ FieldsOf("shiftctrl", [in_right |-> r, autopush |-> a, push_thresh |-> t])
         /\ FieldsOf("shiftctrl", [out_right |-> r, autopull |-> a, pull_thresh |-> t])
    /\ \A j \in 0..2 : FieldsOf("shiftctrl", [join |-> j])
  <1>1. \A j \in 0..2 : Legal("join", j)
    BY PowerValues, FieldWidths DEF Legal
  <1>2. QED
    BY <1>1, OperandsFit, FlagsFit, FieldWords, FieldNames DEF FieldsOf, Words

(* sm_config_set_sideset writes a field of PINCTRL and two of EXECCTRL.    *)
LEMMA SideKeeps ==
    ASSUME FieldInv, SetSideset
    PROVE  FieldInv'
  <1>1. PICK n \in Operands.side_count, e, d \in {0, 1} :
            /\ n = 0 => e = 0
            /\ config' = [config EXCEPT
                    !.pinctrl = Put(config, "pinctrl", [side_count |-> n]).pinctrl,
                    !.execctrl = Put(config, "execctrl",
                                     [side_en |-> e, side_pindir |-> d]).execctrl]
            /\ asked' = [Asked([side_en |-> e, side_pindir |-> d]) EXCEPT !.side_count = n]
    BY DEF SetSideset
  <1> DEFINE exec == [side_en |-> e, side_pindir |-> d]
             side == [side_count |-> n]
             c == Put(config, "execctrl", exec)
             a == Then(asked, exec)
  <1>2. FieldsOf("execctrl", exec)
    BY ExecctrlFields
  <1>3. FieldsOf("pinctrl", side)
    BY OperandsFit, FieldWords, FieldNames DEF FieldsOf, Words
  <1>4. Stores(c, a)
    BY <1>2, PutStores DEF FieldInv
  <1>5. Stores(Put(c, "pinctrl", side), Then(a, side))
    <2> HIDE DEF c, a, side
    <2>1. QED
      BY <1>3, <1>4, PutStores DEF side
  <1>6. Put(c, "pinctrl", side) = config'
    <2> DEFINE P(w) == (w \ UNION {Mask(f) : f \in DOMAIN side})
                          \cup UNION {FieldBits(f, side[f]) : f \in DOMAIN side}
               E(w) == (w \ UNION {Mask(f) : f \in DOMAIN exec})
                          \cup UNION {FieldBits(f, exec[f]) : f \in DOMAIN exec}
    <2>1. c = [config EXCEPT !["execctrl"] = E(config["execctrl"])]
      BY DEF Put
    <2>2. Put(c, "pinctrl", side) = [c EXCEPT !["pinctrl"] = P(c["pinctrl"])]
      BY DEF Put
    <2>3. Put(config, "pinctrl", side) = [config EXCEPT !["pinctrl"] = P(config["pinctrl"])]
      BY DEF Put
    <2> DEFINE p == Put(config, "pinctrl", side)
    <2>4. config' = [config EXCEPT !["pinctrl"] = p["pinctrl"], !["execctrl"] = c["execctrl"]]
      BY <1>1
    <2>5. config \in Configs /\ "pinctrl" \in Words /\ "execctrl" \in Words
      BY DEF FieldInv, Stores, Words
    <2> HIDE DEF P, E, c, side, exec, p
    <2>6. /\ p["pinctrl"] = P(config["pinctrl"]) /\ c["execctrl"] = E(config["execctrl"])
          /\ c["pinctrl"] = config["pinctrl"]
      BY <2>1, <2>3, <2>5 DEF Configs, p
    <2>7. QED
      BY <2>1, <2>2, <2>4, <2>5, <2>6 DEF Configs
  <1>7. Then(a, side) = asked'
    <2>1. DOMAIN asked = DOMAIN Layout /\ "side_count" \in DOMAIN Layout
      BY DEF FieldInv, Stores, Layout
    <2>2. asked' = [a EXCEPT !["side_count"] = n]
      BY <1>1 DEF Asked, Then
    <2>3. a = [f \in DOMAIN asked |-> a[f]]
      BY DEF Then
    <2>4. DOMAIN a = DOMAIN Layout
      BY <2>1 DEF Then
    <2>5. Then(a, side) = [f \in DOMAIN Layout |-> IF f = "side_count" THEN n ELSE a[f]]
      <3> HIDE DEF a
      <3>1. DOMAIN side = {"side_count"} /\ side["side_count"] = n
        OBVIOUS
      <3> HIDE DEF side
      <3>2. QED
        BY <2>4, <3>1 DEF Then
    <2> HIDE DEF a, side
    <2>6. asked' = [f \in DOMAIN Layout |-> IF f = "side_count" THEN n ELSE a[f]]
      BY <2>1, <2>2, <2>3
    <2>7. QED
      BY <2>5, <2>6
  <1>8. SideLegal(asked')
    <2>1. /\ DOMAIN asked = DOMAIN Layout
          /\ "side_count" \in DOMAIN Layout /\ "side_en" \in DOMAIN Layout
      BY DEF FieldInv, Stores, Layout
    <2>2. asked'.side_count = n /\ asked'.side_en = e
      BY <1>7, <2>1 DEF Then
    <2>3. n \in 0..5
      BY EncodingAssumption DEF OperandsLegal
    <2>4. QED
      BY <1>1, <2>2, <2>3 DEF SideLegal
  <1>9. QED
    BY <1>5, <1>6, <1>7, <1>8 DEF FieldInv

LEMMA ClkdivKeeps ==
    ASSUME FieldInv, SetClkdiv
    PROVE  FieldInv'
  <1>1. PICK d \in Operands.divisor, n \in Operands.fraction :
            /\ config' = [config EXCEPT !.clkdiv = Shl(Bits(n), 8) \cup Shl(Bits(d), 16)]
            /\ asked' = Asked([div |-> d, frac |-> n])
    BY DEF SetClkdiv
  <1>2. d \in Nat /\ n \in Nat /\ d < Power(16) /\ n < Power(8)
    <2>1. Operands.divisor \in SUBSET (1..(Power(16) - 1)) /\ Operands.fraction \in SUBSET (0..255)
      BY EncodingAssumption DEF OperandsLegal
    <2>2. Power(8) = 256 /\ Power(16) \in Nat
      BY PowerValues
    <2>3. QED
      BY <2>1, <2>2
  <1>3. asked' = Then(asked, [div |-> d, frac |-> n])
    BY <1>1 DEF Asked, Then
  <1>4. Stores(config', asked')
    BY <1>1, <1>2, <1>3, ClkdivStores DEF FieldInv
  <1>5. asked'.side_count = asked.side_count /\ asked'.side_en = asked.side_en
    <2>1. "side_count" \in DOMAIN asked /\ "side_en" \in DOMAIN asked
      BY DEF FieldInv, Stores, Layout
    <2>2. QED
      BY <1>3, <2>1 DEF Then
  <1>6. SideLegal(asked')
    BY <1>5 DEF FieldInv, SideLegal
  <1>7. QED
    BY <1>4, <1>6 DEF FieldInv

LEMMA PutsKeep ==
    ASSUME FieldInv,
           SetOutPins \/ SetSetPins \/ SetInPins \/ SetSidesetPins \/ SetWrap \/ SetJmpPin
             \/ SetInShift \/ SetOutShift \/ SetFifoJoin \/ SetMovStatus
    PROVE  FieldInv'
  <1>1. CASE SetOutPins
    <2> DEFINE F(b, n) == [out_base |-> b, out_count |-> n]
    <2>1. PICK b \in Operands.pin, n \in Operands.out_count : Build("pinctrl", F(b, n))
      BY <1>1 DEF SetOutPins
    <2>2. FieldsOf("pinctrl", F(b, n))
      BY PinctrlFields
    <2>3. "side_count" \notin DOMAIN F(b, n) /\ "side_en" \notin DOMAIN F(b, n)
      OBVIOUS
    <2> HIDE DEF F
    <2>4. QED
      BY <2>1, <2>2, <2>3, BuildKeeps
  <1>2. CASE SetSetPins
    <2> DEFINE F(b, n) == [set_base |-> b, set_count |-> n]
    <2>1. PICK b \in Operands.pin, n \in Operands.set_count : Build("pinctrl", F(b, n))
      BY <1>2 DEF SetSetPins
    <2>2. FieldsOf("pinctrl", F(b, n))
      BY PinctrlFields
    <2>3. "side_count" \notin DOMAIN F(b, n) /\ "side_en" \notin DOMAIN F(b, n)
      OBVIOUS
    <2> HIDE DEF F
    <2>4. QED
      BY <2>1, <2>2, <2>3, BuildKeeps
  <1>3. CASE SetInPins
    <2> DEFINE F(b) == [in_base |-> b]
    <2>1. PICK b \in Operands.pin : Build("pinctrl", F(b))
      BY <1>3 DEF SetInPins
    <2>2. FieldsOf("pinctrl", F(b))
      BY PinctrlFields
    <2>3. "side_count" \notin DOMAIN F(b) /\ "side_en" \notin DOMAIN F(b)
      OBVIOUS
    <2> HIDE DEF F
    <2>4. QED
      BY <2>1, <2>2, <2>3, BuildKeeps
  <1>4. CASE SetSidesetPins
    <2> DEFINE F(b) == [side_base |-> b]
    <2>1. PICK b \in Operands.pin : Build("pinctrl", F(b))
      BY <1>4 DEF SetSidesetPins
    <2>2. FieldsOf("pinctrl", F(b))
      BY PinctrlFields
    <2>3. "side_count" \notin DOMAIN F(b) /\ "side_en" \notin DOMAIN F(b)
      OBVIOUS
    <2> HIDE DEF F
    <2>4. QED
      BY <2>1, <2>2, <2>3, BuildKeeps
  <1>5. CASE SetWrap
    BY <1>5, ExecctrlFields, BuildKeeps DEF SetWrap
  <1>6. CASE SetJmpPin
    BY <1>6, ExecctrlFields, BuildKeeps DEF SetJmpPin
  <1>7. CASE SetInShift
    <2> DEFINE F(r, a, t) == [in_right |-> r, autopush |-> a, push_thresh |-> t]
    <2>1. PICK r, a \in {0, 1}, t \in Operands.threshold : Build("shiftctrl", F(r, a, t))
      BY <1>7 DEF SetInShift
    <2>2. FieldsOf("shiftctrl", F(r, a, t))
      BY ShiftctrlFields
    <2>3. "side_count" \notin DOMAIN F(r, a, t) /\ "side_en" \notin DOMAIN F(r, a, t)
      OBVIOUS
    <2> HIDE DEF F
    <2>4. QED
      BY <2>1, <2>2, <2>3, BuildKeeps
  <1>8. CASE SetOutShift
    <2> DEFINE F(r, a, t) == [out_right |-> r, autopull |-> a, pull_thresh |-> t]
    <2>1. PICK r, a \in {0, 1}, t \in Operands.threshold : Build("shiftctrl", F(r, a, t))
      BY <1>8 DEF SetOutShift
    <2>2. FieldsOf("shiftctrl", F(r, a, t))
      BY ShiftctrlFields
    <2>3. "side_count" \notin DOMAIN F(r, a, t) /\ "side_en" \notin DOMAIN F(r, a, t)
      OBVIOUS
    <2> HIDE DEF F
    <2>4. QED
      BY <2>1, <2>2, <2>3, BuildKeeps
  <1>9. CASE SetFifoJoin
    BY <1>9, ShiftctrlFields, BuildKeeps DEF SetFifoJoin
  <1>10. CASE SetMovStatus
    BY <1>10, ExecctrlFields, BuildKeeps DEF SetMovStatus
  <1>11. QED
    BY <1>1, <1>2, <1>3, <1>4, <1>5, <1>6, <1>7, <1>8, <1>9, <1>10

LEMMA FieldStart == EncodingInit => FieldInv
  <1>1. EncodingInit => config = DefaultConfig /\ asked = DefaultFields
    BY DEF EncodingInit
  <1>2. SideLegal(DefaultFields)
    BY DEF SideLegal, DefaultFields, Layout
  <1>3. QED
    BY <1>1, <1>2, DefaultStores DEF FieldInv

LEMMA FieldStep ==
    ASSUME FieldInv, [EncodingNext]_encodingVars
    PROVE  FieldInv'
  <1>1. CASE UNCHANGED encodingVars
    BY <1>1 DEF encodingVars, FieldInv
  <1>2. CASE SetSideset
    BY <1>2, SideKeeps
  <1>3. CASE SetClkdiv
    BY <1>3, ClkdivKeeps
  <1>4. CASE Assemble
    BY <1>4 DEF Assemble, FieldInv
  <1>5. CASE AddDelay
    BY <1>5 DEF AddDelay, FieldInv
  <1>6. CASE AddSideset
    BY <1>6 DEF AddSideset, FieldInv
  <1>7. QED
    BY <1>1, <1>2, <1>3, <1>4, <1>5, <1>6, PutsKeep DEF EncodingNext

(* Every field that pio.sv slices out of the four configuration words is   *)
(* the value last asked for it, whatever sm_config_* builders ran in       *)
(* whatever order: for all operands the library's callers may pass and any *)
(* number of calls.                                                        *)
THEOREM FieldsAlwaysDecode ==
    EncodingSpec => []FieldsDecode
  <1>1. EncodingInit => FieldInv
    BY FieldStart
  <1>2. FieldInv /\ [EncodingNext]_encodingVars => FieldInv'
    BY FieldStep
  <1>3. FieldInv => FieldsDecode
    BY FieldsRead
  <1>4. QED
    BY <1>1, <1>2, <1>3, PTL DEF EncodingSpec

----------------------------------------------------------------------------
(***************************************************************************)
(* An instruction is the bits of its operation, of its delay and of its    *)
(* side-set, and no two of these lie in the same place.                    *)
(***************************************************************************)
SideBits(v) == (IF asked.side_en = 1 THEN {12} ELSE {}) \cup Shl(Bits(v), 13 - asked.side_count)
SideAsked == /\ asked.side_count > 0
             /\ \E v \in Nat : /\ v < Power(asked.side_count - asked.side_en)
                               /\ meant.side = [set |-> TRUE, value |-> v]
InstrInv ==
    /\ meant = [instr |-> meant.instr, side |-> meant.side, delay |-> meant.delay]
    /\ meant.delay \in Nat /\ meant.delay < Power(5 - asked.side_count)
    /\ meant.side = NoSide \/ SideAsked
    /\ meant.instr = NoInstr => instr = {} /\ meant.side = NoSide /\ meant.delay = 0
    /\ meant.instr # NoInstr =>
         /\ meant.instr \in Instructions
         /\ instr = Encode(meant.instr) \cup Shl(Bits(meant.delay), 8)
                      \cup (IF meant.side = NoSide THEN {} ELSE SideBits(meant.side.value))

(* Where the parts of an operation are found in the instruction. *)
Assembled(w, op, a1, a2) ==
    /\ \A j \in 0..2 : 13 + j \in w <=> j \in Bits(op)
    /\ \A j \in 0..2 : 5 + j \in w <=> j \in Bits(a1)
    /\ \A j \in 0..4 : j \in w <=> j \in Bits(a2)

LEMMA EncodedIn ==
    ASSUME NEW op \in Nat, NEW a1 \in Nat, NEW a2 \in Nat, op < 8, a1 < 8
    PROVE  /\ Shl(Bits(op), 13) \subseteq 13..15 /\ Shl(Bits(a1), 5) \subseteq 5..7
           /\ InstrAndArgs(op, a1, a2) \subseteq (0..7) \cup (13..15)
  <1>1. \A j \in Bits(op) : j \in 0..2
    <2>1. \A j \in Bits(op) : j \in 0..15 /\ j < 3
      BY SmallBits, PowerValues
    <2>2. QED
      BY <2>1
  <1>2. \A j \in Bits(a1) : j \in 0..2
    <2>1. \A j \in Bits(a1) : j \in 0..15 /\ j < 3
      BY SmallBits, PowerValues
    <2>2. QED
      BY <2>1
  <1>3. Shl(Bits(op), 13) \subseteq 13..15 /\ Shl(Bits(a1), 5) \subseteq 5..7
    BY <1>1, <1>2 DEF Shl
  <1>4. QED
    BY <1>3 DEF InstrAndArgs

LEMMA ShiftedBit ==
    ASSUME NEW v \in Nat, NEW n \in Nat, NEW j \in Nat, n + j \in 0..31
    PROVE  n + j \in Shl(Bits(v), n) <=> j \in Bits(v)
  <1>1. ASSUME NEW i \in Bits(v), n + j = i + n PROVE i = j
    <2>1. i \in Nat
      BY DEF Bits
    <2>2. QED
      BY <1>1, <2>1
  <1>2. n + j = j + n
    OBVIOUS
  <1>3. QED
    BY <1>1, <1>2 DEF Shl

LEMMA OperationAssembled ==
    ASSUME NEW op \in Nat, NEW a1 \in Nat, NEW a2 \in Nat, op < 8, a1 < 8,
           NEW rest, rest \subseteq 8..12
    PROVE  Assembled(InstrAndArgs(op, a1, a2) \cup rest, op, a1, a2)
  <1> DEFINE p == Shl(Bits(op), 13)
             q == Shl(Bits(a1), 5)
             r == Bits(a2) \cap (0..4)
             w == (p \cup q \cup r) \cup rest
  <1>1. p \subseteq 13..15 /\ q \subseteq 5..7
    BY EncodedIn
  <1>2. /\ \A j \in 0..2 : 13 + j \in p <=> j \in Bits(op)
        /\ \A j \in 0..2 : 5 + j \in q <=> j \in Bits(a1)
        /\ \A j \in 0..4 : j \in r <=> j \in Bits(a2)
    BY ShiftedBit
  <1>3. InstrAndArgs(op, a1, a2) \cup rest = w
    BY DEF InstrAndArgs
  <1>4. r \subseteq 0..4
    OBVIOUS
  <1> HIDE DEF p, q, r
  <1>5. \A j \in 0..2 : 13 + j \in w <=> 13 + j \in p
    BY <1>1, <1>4
  <1>6. \A j \in 0..2 : 5 + j \in w <=> 5 + j \in q
    BY <1>1, <1>4
  <1>7. \A j \in 0..4 : j \in w <=> j \in r
    BY <1>1, <1>4
  <1> HIDE DEF w
  <1>8. QED
    BY <1>2, <1>3, <1>5, <1>6, <1>7 DEF Assembled

(* What the decoder makes of these places. *)
Parts(w, op, a1, a2) ==
    /\ Slice(w, 13, 15) = op /\ Slice(w, 5, 7) = a1 /\ Slice(w, 0, 4) = a2 % 32
    /\ Slice(w, 5, 6) = a1 % 4 /\ Slice(w, 0, 2) = a2 % 8 /\ Slice(w, 3, 4) = (a2 \div 8) % 4
    /\ 7 \in w <=> (a1 \div 4) % 2 = 1
    /\ 6 \in w <=> (a1 \div 2) % 2 = 1
    /\ 5 \in w <=> a1 % 2 = 1
    /\ 4 \in w <=> (a2 \div 16) % 2 = 1

LEMMA BitValues ==
    ASSUME NEW v \in Nat
    PROVE  /\ 0 \in Bits(v) <=> v % 2 = 1
           /\ 1 \in Bits(v) <=> (v \div 2) % 2 = 1
           /\ 2 \in Bits(v) <=> (v \div 4) % 2 = 1
           /\ 3 \in Bits(v) <=> (v \div 8) % 2 = 1
           /\ 4 \in Bits(v) <=> (v \div 16) % 2 = 1
  <1>1. v \div 1 = v
    OBVIOUS
  <1>2. 0 \in Bits(v) <=> v % 2 = 1
    BY <1>1, PowerValues DEF Bits
  <1>3. 1 \in Bits(v) <=> (v \div 2) % 2 = 1
    BY PowerValues DEF Bits
  <1>4. 2 \in Bits(v) <=> (v \div 4) % 2 = 1
    BY PowerValues DEF Bits
  <1>5. 3 \in Bits(v) <=> (v \div 8) % 2 = 1
    BY PowerValues DEF Bits
  <1>6. 4 \in Bits(v) <=> (v \div 16) % 2 = 1
    BY PowerValues DEF Bits
  <1>7. QED
    BY <1>2, <1>3, <1>4, <1>5, <1>6

LEMMA AssembledParts ==
    ASSUME NEW op \in Nat, NEW a1 \in Nat, NEW a2 \in Nat, op < 8, a1 < 8,
           NEW w, Assembled(w, op, a1, a2)
    PROVE  Parts(w, op, a1, a2)
  <1>1. Slice(w, 13, 15) = op
    <2>1. Sits(w, 13, 3, op) /\ Spans(13, 15, 3)
      BY DEF Sits, Spans, Assembled
    <2>2. Slice(w, 13, 15) = op % Power(3)
      BY <2>1, SliceIs
    <2>3. QED
      BY <2>2, PowerValues
  <1>2. Slice(w, 5, 7) = a1
    <2>1. Sits(w, 5, 3, a1) /\ Spans(5, 7, 3)
      BY DEF Sits, Spans, Assembled
    <2>2. Slice(w, 5, 7) = a1 % Power(3)
      BY <2>1, SliceIs
    <2>3. QED
      BY <2>2, PowerValues
  <1>3. Slice(w, 0, 4) = a2 % 32
    <2>1. Sits(w, 0, 5, a2) /\ Spans(0, 4, 5)
      BY DEF Sits, Spans, Assembled
    <2>2. QED
      BY <2>1, SliceIs, PowerValues
  <1>4. Slice(w, 5, 6) = a1 % 4
    <2>1. Sits(w, 5, 2, a1) /\ Spans(5, 6, 2)
      BY DEF Sits, Spans, Assembled
    <2>2. QED
      BY <2>1, SliceIs, PowerValues
  <1>5. Slice(w, 0, 2) = a2 % 8
    <2>1. Sits(w, 0, 3, a2) /\ Spans(0, 2, 3)
      BY DEF Sits, Spans, Assembled
    <2>2. QED
      BY <2>1, SliceIs, PowerValues
  <1>6. /\ 5 \in w <=> 0 \in Bits(a1)
        /\ 6 \in w <=> 1 \in Bits(a1)
        /\ 7 \in w <=> 2 \in Bits(a1)
        /\ 3 \in w <=> 3 \in Bits(a2)
        /\ 4 \in w <=> 4 \in Bits(a2)
    <2>1. 5 + 0 = 5 /\ 5 + 1 = 6 /\ 5 + 2 = 7
      OBVIOUS
    <2>2. QED
      BY <2>1 DEF Assembled
  <1>7. Slice(w, 3, 4) = (a2 \div 8) % 4
    <2> DEFINE h == a2 \div 8
    <2>1. h \in Nat /\ h % 2 = (a2 \div 8) % 2 /\ (h \div 2) % 2 = (a2 \div 16) % 2
      OBVIOUS
    <2> HIDE DEF h
    <2>2. 3 \in w <=> 0 \in Bits(h)
      BY <1>6, <2>1, BitValues
    <2>3. 4 \in w <=> 1 \in Bits(h)
      BY <1>6, <2>1, BitValues
    <2>4. Sits(w, 3, 2, h) /\ Spans(3, 4, 2)
      BY <2>2, <2>3 DEF Sits, Spans
    <2>5. QED
      BY <2>1, <2>4, SliceIs, PowerValues DEF h
  <1>8. QED
    BY <1>1, <1>2, <1>3, <1>4, <1>5, <1>6, <1>7, BitValues DEF Parts

(* An operation with nothing added but delay and side-set. *)
Joined(w, e) == e \subseteq w /\ w \ e \subseteq 8..12
Operation(op, a1, a2) == op \in Nat /\ a1 \in Nat /\ a2 \in Nat /\ op < 8 /\ a1 < 8

LEMMA OperationParts ==
    ASSUME NEW op, NEW a1, NEW a2, Operation(op, a1, a2),
           NEW w, Joined(w, InstrAndArgs(op, a1, a2))
    PROVE  Parts(w, op, a1, a2)
  <1> DEFINE e == InstrAndArgs(op, a1, a2)
             rest == w \ e
  <1>1. w = e \cup rest /\ rest \subseteq 8..12
    BY DEF Joined
  <1>2. op \in Nat /\ a1 \in Nat /\ a2 \in Nat /\ op < 8 /\ a1 < 8
    BY DEF Operation
  <1> HIDE DEF rest
  <1>3. Assembled(e \cup rest, op, a1, a2)
    BY <1>1, <1>2, OperationAssembled
  <1>4. Assembled(w, op, a1, a2)
    BY <1>1, <1>3
  <1>5. QED
    BY <1>2, <1>4, AssembledParts

Decoded(i) == /\ Encode(i) \subseteq (0..7) \cup (13..15)
              /\ \A w : Joined(w, Encode(i)) => Decode(w) = i

(* One lemma per kind of instruction: the encoder's arguments, the places  *)
(* where the decoder looks for them, and the operands it finds there.      *)
LEMMA DecodeJmp ==
    ASSUME NEW i \in [op : {"jmp"}, cond : 0..7, addr : Operands.pin]
    PROVE  Decoded(i)
  <1>1. /\ i = [op |-> "jmp", cond |-> i.cond, addr |-> i.addr]
        /\ i.cond \in Nat /\ i.cond < 8 /\ i.addr \in Nat /\ i.addr < 32
    BY EncodingAssumption DEF OperandsLegal
  <1>2. Encode(i) = InstrAndArgs(0, i.cond, i.addr)
    BY DEF Encode
  <1>3. Encode(i) \subseteq (0..7) \cup (13..15)
    BY <1>1, <1>2, EncodedIn
  <1>4. ASSUME NEW w, Joined(w, Encode(i))
        PROVE  Decode(w) = i
    <2>1. Parts(w, 0, i.cond, i.addr)
      BY <1>1, <1>2, <1>4, OperationParts DEF Operation
    <2>2. Slice(w, 13, 15) = 0 /\ Slice(w, 5, 7) = i.cond /\ Slice(w, 0, 4) = i.addr
      BY <1>1, <2>1 DEF Parts
    <2>3. Decode(w) = [op |-> "jmp", cond |-> i.cond, addr |-> i.addr]
      BY <2>2 DEF Decode
    <2>4. QED
      BY <1>1, <2>3
  <1>5. QED
    BY <1>3, <1>4 DEF Decoded

LEMMA DecodeWaitIrq ==
    ASSUME NEW i \in [op : {"wait"}, polarity : BOOLEAN, source : {2},
                      index : Operands.irq, rel : BOOLEAN]
    PROVE  Decoded(i)
  <1> DEFINE a1 == (IF i.polarity THEN 4 ELSE 0) + i.source
             a2 == Rel(i)
  <1>1. /\ i = [op |-> "wait", polarity |-> i.polarity, source |-> 2,
                index |-> i.index, rel |-> i.rel]
        /\ i.polarity \in BOOLEAN /\ i.rel \in BOOLEAN /\ i.index \in Nat /\ i.index < 8
    BY EncodingAssumption DEF OperandsLegal
  <1>2. /\ a1 \in Nat /\ a1 < 8 /\ a1 % 4 = 2 
        /\ (a1 \div 4) % 2 = 1 <=> i.polarity
    <2>1. i.source = 2
      BY <1>1
    <2>2. QED
      BY <1>1, <2>1
  <1>3. /\ a2 \in Nat /\ a2 < 32 /\ a2 % 8 = i.index
        /\ (a2 \div 16) % 2 = 1 <=> i.rel
    BY <1>1 DEF Rel
  <1>4. Encode(i) = InstrAndArgs(1, a1, a2)
    BY <1>1 DEF Encode
  <1> HIDE DEF a1, a2
  <1>5. Encode(i) \subseteq (0..7) \cup (13..15)
    BY <1>2, <1>3, <1>4, EncodedIn
  <1>6. ASSUME NEW w, Joined(w, Encode(i))
        PROVE  Decode(w) = i
    <2>1. Parts(w, 1, a1, a2)
      BY <1>2, <1>3, <1>4, <1>6, OperationParts DEF Operation
    <2>2. /\ Slice(w, 13, 15) = 1 /\ Slice(w, 5, 6) = 2 /\ Slice(w, 0, 2) = i.index
          /\ 7 \in w <=> i.polarity
          /\ 4 \in w <=> i.rel
      BY <1>2, <1>3, <2>1 DEF Parts
    <2>3. Decode(w) = [op |-> "wait", polarity |-> 7 \in w, source |-> 2,
                       index |-> Slice(w, 0, 2), rel |-> 4 \in w]
      BY <2>2 DEF Decode
    <2>4. (7 \in w) = i.polarity /\ (4 \in w) = i.rel
      BY <1>1, <2>2
    <2>5. QED
      BY <1>1, <2>2, <2>3, <2>4
  <1>7. QED
    BY <1>5, <1>6 DEF Decoded

LEMMA DecodeWait ==
    ASSUME NEW i \in [op : {"wait"}, polarity : BOOLEAN, source : {0, 1}, index : Operands.pin]
    PROVE  Decoded(i)
  <1> DEFINE a1 == (IF i.polarity THEN 4 ELSE 0) + i.source
             a2 == i.index
  <1>1. /\ i = [op |-> "wait", polarity |-> i.polarity, source |-> i.source, index |-> i.index]
        /\ i.polarity \in BOOLEAN /\ i.source \in {0, 1} /\ i.index \in Nat /\ i.index < 32
    BY EncodingAssumption DEF OperandsLegal
  <1>2. /\ a1 \in Nat /\ a1 < 8
        /\ a1 % 4 = i.source
        /\ (a1 \div 4) % 2 = 1 <=> i.polarity
    BY <1>1
  <1>3. /\ a2 \in Nat
        /\ a2 % 32 = i.index
    BY <1>1
  <1>4. Encode(i) = InstrAndArgs(1, a1, a2)
    BY <1>1 DEF Encode
  <1> HIDE DEF a1, a2
  <1>5. Encode(i) \subseteq (0..7) \cup (13..15)
    BY <1>2, <1>3, <1>4, EncodedIn
  <1>6. ASSUME NEW w, Joined(w, Encode(i))
        PROVE  Decode(w) = i
    <2>1. Parts(w, 1, a1, a2)
      BY <1>2, <1>3, <1>4, <1>6, OperationParts DEF Operation
    <2>2. /\ Slice(w, 13, 15) = 1
          /\ Slice(w, 5, 6) = i.source /\ Slice(w, 0, 4) = i.index
          /\ 7 \in w <=> i.polarity
      BY <1>2, <1>3, <2>1 DEF Parts
    <2>3. Decode(w) = [op |-> "wait", polarity |-> 7 \in w,
                       source |-> Slice(w, 5, 6), index |-> Slice(w, 0, 4)]
      BY <1>1, <2>2 DEF Decode
    <2>4. (7 \in w) = i.polarity
      BY <1>1, <2>2
    <2>5. QED
      BY <1>1, <2>2, <2>3, <2>4
  <1>7. QED
    BY <1>5, <1>6 DEF Decoded

LEMMA DecodeIn ==
    ASSUME NEW i \in [op : {"in"}, source : {0, 1, 2, 3, 6, 7}, count : Operands.count]
    PROVE  Decoded(i)
  <1> DEFINE a1 == i.source
             a2 == i.count
  <1>1. /\ i = [op |-> "in", source |-> i.source, count |-> i.count]
        /\ i.source \in 0..7 /\ i.count \in 1..32
    BY EncodingAssumption DEF OperandsLegal
  <1>2. /\ a1 \in Nat /\ a1 < 8
    BY <1>1
  <1>3. /\ a2 \in Nat
        /\ Or32(a2 % 32) = i.count
    <2>1. CASE i.count = 32
      BY <2>1 DEF Or32
    <2>2. CASE i.count < 32
      <3>1. i.count % 32 = i.count /\ i.count # 0
        BY <1>1, <2>2
      <3>2. QED
        BY <1>1, <3>1 DEF Or32
    <2>3. QED
      BY <1>1, <2>1, <2>2
  <1>4. Encode(i) = InstrAndArgs(2, a1, a2)
    BY <1>1 DEF Encode
  <1> HIDE DEF a1, a2
  <1>5. Encode(i) \subseteq (0..7) \cup (13..15)
    BY <1>2, <1>3, <1>4, EncodedIn
  <1>6. ASSUME NEW w, Joined(w, Encode(i))
        PROVE  Decode(w) = i
    <2>1. Parts(w, 2, a1, a2)
      BY <1>2, <1>3, <1>4, <1>6, OperationParts DEF Operation
    <2>2. /\ Slice(w, 13, 15) = 2
          /\ Slice(w, 5, 7) = a1 /\ Slice(w, 0, 4) = a2 % 32
      BY <1>2, <1>3, <2>1 DEF Parts
    <2>3. Decode(w) = [op |-> "in", source |-> Slice(w, 5, 7), count |-> Or32(Slice(w, 0, 4))]
      BY <2>2 DEF Decode
    <2>4. QED
      BY <1>1, <1>3, <2>2, <2>3 DEF a1
  <1>7. QED
    BY <1>5, <1>6 DEF Decoded

LEMMA DecodeOut ==
    ASSUME NEW i \in [op : {"out"}, dest : 0..7, count : Operands.count]
    PROVE  Decoded(i)
  <1> DEFINE a1 == i.dest
             a2 == i.count
  <1>1. /\ i = [op |-> "out", dest |-> i.dest, count |-> i.count]
        /\ i.dest \in 0..7 /\ i.count \in 1..32
    BY EncodingAssumption DEF OperandsLegal
  <1>2. /\ a1 \in Nat /\ a1 < 8
    BY <1>1
  <1>3. /\ a2 \in Nat
        /\ Or32(a2 % 32) = i.count
    <2>1. CASE i.count = 32
      BY <2>1 DEF Or32
    <2>2. CASE i.count < 32
      <3>1. i.count % 32 = i.count /\ i.count # 0
        BY <1>1, <2>2
      <3>2. QED
        BY <1>1, <3>1 DEF Or32
    <2>3. QED
      BY <1>1, <2>1, <2>2
  <1>4. Encode(i) = InstrAndArgs(3, a1, a2)
    BY <1>1 DEF Encode
  <1> HIDE DEF a1, a2
  <1>5. Encode(i) \subseteq (0..7) \cup (13..15)
    BY <1>2, <1>3, <1>4, EncodedIn
  <1>6. ASSUME NEW w, Joined(w, Encode(i))
        PROVE  Decode(w) = i
    <2>1. Parts(w, 3, a1, a2)
      BY <1>2, <1>3, <1>4, <1>6, OperationParts DEF Operation
    <2>2. /\ Slice(w, 13, 15) = 3
          /\ Slice(w, 5, 7) = a1 /\ Slice(w, 0, 4) = a2 % 32
      BY <1>2, <1>3, <2>1 DEF Parts
    <2>3. Decode(w) = [op |-> "out", dest |-> Slice(w, 5, 7), count |-> Or32(Slice(w, 0, 4))]
      BY <2>2 DEF Decode
    <2>4. QED
      BY <1>1, <1>3, <2>2, <2>3 DEF a1
  <1>7. QED
    BY <1>5, <1>6 DEF Decoded

LEMMA DecodePush ==
    ASSUME NEW i \in [op : {"push"}, cond : BOOLEAN, block : BOOLEAN]
    PROVE  Decoded(i)
  <1> DEFINE a1 == 2 * Flag(i.cond) + Flag(i.block)
             a2 == 0
  <1>1. /\ i = [op |-> "push", cond |-> i.cond, block |-> i.block]
        /\ i.cond \in BOOLEAN /\ i.block \in BOOLEAN
    BY EncodingAssumption DEF OperandsLegal
  <1>2. /\ a1 \in Nat /\ a1 < 8
        /\ a1 % 2 = 1 <=> i.block
        /\ (a1 \div 2) % 2 = 1 <=> i.cond
        /\ (a1 \div 4) % 2 = 0
    BY <1>1 DEF Flag
  <1>3. /\ a2 \in Nat
    OBVIOUS
  <1>4. Encode(i) = InstrAndArgs(4, a1, a2)
    BY <1>1 DEF Encode
  <1> HIDE DEF a1, a2
  <1>5. Encode(i) \subseteq (0..7) \cup (13..15)
    BY <1>2, <1>3, <1>4, EncodedIn
  <1>6. ASSUME NEW w, Joined(w, Encode(i))
        PROVE  Decode(w) = i
    <2>1. Parts(w, 4, a1, a2)
      BY <1>2, <1>3, <1>4, <1>6, OperationParts DEF Operation
    <2>2. /\ Slice(w, 13, 15) = 4
          /\ 7 \notin w
          /\ 6 \in w <=> i.cond
          /\ 5 \in w <=> i.block
      BY <1>2, <1>3, <2>1 DEF Parts
    <2>3. Decode(w) = [op |-> "push", cond |-> 6 \in w, block |-> 5 \in w]
      BY <2>2 DEF Decode
    <2>4. (6 \in w) = i.cond /\ (5 \in w) = i.block
      BY <1>1, <2>2
    <2>5. QED
      BY <1>1, <2>3, <2>4
  <1>7. QED
    BY <1>5, <1>6 DEF Decoded

LEMMA DecodePull ==
    ASSUME NEW i \in [op : {"pull"}, cond : BOOLEAN, block : BOOLEAN]
    PROVE  Decoded(i)
  <1> DEFINE a1 == 4 + 2 * Flag(i.cond) + Flag(i.block)
             a2 == 0
  <1>1. /\ i = [op |-> "pull", cond |-> i.cond, block |-> i.block]
        /\ i.cond \in BOOLEAN /\ i.block \in BOOLEAN
    BY EncodingAssumption DEF OperandsLegal
  <1>2. /\ a1 \in Nat /\ a1 < 8
        /\ a1 % 2 = 1 <=> i.block
        /\ (a1 \div 2) % 2 = 1 <=> i.cond
        /\ (a1 \div 4) % 2 = 1
    BY <1>1 DEF Flag
  <1>3. /\ a2 \in Nat
    OBVIOUS
  <1>4. Encode(i) = InstrAndArgs(4, a1, a2)
    BY <1>1 DEF Encode
  <1> HIDE DEF a1, a2
  <1>5. Encode(i) \subseteq (0..7) \cup (13..15)
    BY <1>2, <1>3, <1>4, EncodedIn
  <1>6. ASSUME NEW w, Joined(w, Encode(i))
        PROVE  Decode(w) = i
    <2>1. Parts(w, 4, a1, a2)
      BY <1>2, <1>3, <1>4, <1>6, OperationParts DEF Operation
    <2>2. /\ Slice(w, 13, 15) = 4
          /\ 7 \in w
          /\ 6 \in w <=> i.cond
          /\ 5 \in w <=> i.block
      BY <1>2, <1>3, <2>1 DEF Parts
    <2>3. Decode(w) = [op |-> "pull", cond |-> 6 \in w, block |-> 5 \in w]
      BY <2>2 DEF Decode
    <2>4. (6 \in w) = i.cond /\ (5 \in w) = i.block
      BY <1>1, <2>2
    <2>5. QED
      BY <1>1, <2>3, <2>4
  <1>7. QED
    BY <1>5, <1>6 DEF Decoded

LEMMA DecodeMov ==
    ASSUME NEW i \in [op : {"mov"}, dest : {0, 1, 2, 4, 5, 6, 7}, fn : 0..2,
                      source : {0, 1, 2, 3, 5, 6, 7}]
    PROVE  Decoded(i)
  <1> DEFINE a1 == i.dest
             a2 == 8 * i.fn + i.source
  <1>1. /\ i = [op |-> "mov", dest |-> i.dest, fn |-> i.fn, source |-> i.source]
        /\ i.dest \in 0..7 /\ i.fn \in 0..2 /\ i.source \in 0..7
    OBVIOUS
  <1>2. /\ a1 \in Nat /\ a1 < 8
    BY <1>1
  <1>3. /\ a2 \in Nat
        /\ (a2 \div 8) % 4 = i.fn /\ a2 % 8 = i.source
    BY <1>1
  <1>4. Encode(i) = InstrAndArgs(5, a1, a2)
    BY <1>1 DEF Encode
  <1> HIDE DEF a1, a2
  <1>5. Encode(i) \subseteq (0..7) \cup (13..15)
    BY <1>2, <1>3, <1>4, EncodedIn
  <1>6. ASSUME NEW w, Joined(w, Encode(i))
        PROVE  Decode(w) = i
    <2>1. Parts(w, 5, a1, a2)
      BY <1>2, <1>3, <1>4, <1>6, OperationParts DEF Operation
    <2>2. /\ Slice(w, 13, 15) = 5
          /\ Slice(w, 5, 7) = a1 /\ Slice(w, 3, 4) = i.fn /\ Slice(w, 0, 2) = i.source
      BY <1>2, <1>3, <2>1 DEF Parts
    <2>3. Decode(w) = [op |-> "mov", dest |-> Slice(w, 5, 7),
                       fn |-> Slice(w, 3, 4), source |-> Slice(w, 0, 2)]
      BY <2>2 DEF Decode
    <2>4. QED
      BY <1>1, <2>2, <2>3 DEF a1
  <1>7. QED
    BY <1>5, <1>6 DEF Decoded

LEMMA DecodeIrq ==
    ASSUME NEW i \in [op : {"irq"}, mode : 0..2, index : Operands.irq, rel : BOOLEAN]
    PROVE  Decoded(i)
  <1> DEFINE a1 == i.mode
             a2 == Rel(i)
  <1>1. /\ i = [op |-> "irq", mode |-> i.mode, index |-> i.index, rel |-> i.rel]
        /\ i.mode \in 0..2 /\ i.rel \in BOOLEAN /\ i.index \in Nat /\ i.index < 8
    BY EncodingAssumption DEF OperandsLegal
  <1>2. /\ a1 \in Nat /\ a1 < 8
        /\ a1 % 2 = 1 <=> i.mode = 1
        /\ (a1 \div 2) % 2 = 1 <=> i.mode = 2
    BY <1>1
  <1>3. /\ a2 \in Nat
        /\ a2 % 8 = i.index
        /\ (a2 \div 16) % 2 = 1 <=> i.rel
    BY <1>1 DEF Rel
  <1>4. Encode(i) = InstrAndArgs(6, a1, a2)
    BY <1>1 DEF Encode
  <1> HIDE DEF a1, a2
  <1>5. Encode(i) \subseteq (0..7) \cup (13..15)
    BY <1>2, <1>3, <1>4, EncodedIn
  <1>6. ASSUME NEW w, Joined(w, Encode(i))
        PROVE  Decode(w) = i
    <2>1. Parts(w, 6, a1, a2)
      BY <1>2, <1>3, <1>4, <1>6, OperationParts DEF Operation
    <2>2. /\ Slice(w, 13, 15) = 6
          /\ Slice(w, 0, 2) = i.index
          /\ 5 \in w <=> i.mode = 1
          /\ 6 \in w <=> i.mode = 2
          /\ 4 \in w <=> i.rel
      BY <1>2, <1>3, <2>1 DEF Parts
    <2>3. Decode(w) = [op |-> "irq", mode |-> IF 5 \in w THEN 1 ELSE IF 6 \in w THEN 2 ELSE 0,
                       index |-> Slice(w, 0, 2), rel |-> 4 \in w]
      BY <2>2 DEF Decode
    <2>4. (4 \in w) = i.rel /\ (IF 5 \in w THEN 1 ELSE IF 6 \in w THEN 2 ELSE 0) = i.mode
      BY <1>1, <2>2
    <2>5. QED
      BY <1>1, <2>2, <2>3, <2>4
  <1>7. QED
    BY <1>5, <1>6 DEF Decoded

LEMMA DecodeSet ==
    ASSUME NEW i \in [op : {"set"}, dest : {0, 1, 2, 4}, data : Operands.pin]
    PROVE  Decoded(i)
  <1> DEFINE a1 == i.dest
             a2 == i.data
  <1>1. /\ i = [op |-> "set", dest |-> i.dest, data |-> i.data]
        /\ i.dest \in 0..7 /\ i.data \in Nat /\ i.data < 32
    BY EncodingAssumption DEF OperandsLegal
  <1>2. /\ a1 \in Nat /\ a1 < 8
    BY <1>1
  <1>3. /\ a2 \in Nat
        /\ a2 % 32 = i.data
    BY <1>1
  <1>4. Encode(i) = InstrAndArgs(7, a1, a2)
    BY <1>1 DEF Encode
  <1> HIDE DEF a1, a2
  <1>5. Encode(i) \subseteq (0..7) \cup (13..15)
    BY <1>2, <1>3, <1>4, EncodedIn
  <1>6. ASSUME NEW w, Joined(w, Encode(i))
        PROVE  Decode(w) = i
    <2>1. Parts(w, 7, a1, a2)
      BY <1>2, <1>3, <1>4, <1>6, OperationParts DEF Operation
    <2>2. /\ Slice(w, 13, 15) = 7
          /\ Slice(w, 5, 7) = a1 /\ Slice(w, 0, 4) = i.data
      BY <1>2, <1>3, <2>1 DEF Parts
    <2>3. Decode(w) = [op |-> "set", dest |-> Slice(w, 5, 7), data |-> Slice(w, 0, 4)]
      BY <2>2 DEF Decode
    <2>4. QED
      BY <1>1, <2>2, <2>3 DEF a1
  <1>7. QED
    BY <1>5, <1>6 DEF Decoded

LEMMA EveryDecoded ==
    ASSUME NEW i \in Instructions
    PROVE  Decoded(i)
  BY DecodeJmp, DecodeWait, DecodeWaitIrq, DecodeIn, DecodeOut, DecodePush, DecodePull, DecodeMov,
     DecodeIrq, DecodeSet DEF Instructions

(* Two different requests to the pio_encode_* functions never give the     *)
(* same instruction, for all operands callers may pass.                    *)
THEOREM EncodingIsUnambiguous ==
    \A i, j \in Instructions : Encode(i) = Encode(j) => i = j
  <1> SUFFICES ASSUME NEW i \in Instructions, NEW j \in Instructions, Encode(i) = Encode(j)
               PROVE  i = j
    OBVIOUS
  <1>1. Decoded(i) /\ Decoded(j)
    BY EveryDecoded
  <1>2. Joined(Encode(i), Encode(i)) /\ Joined(Encode(i), Encode(j))
    BY DEF Joined
  <1>3. Decode(Encode(i)) = i /\ Decode(Encode(i)) = j
    BY <1>1, <1>2 DEF Decoded
  <1>4. QED
    BY <1>3

----------------------------------------------------------------------------
(* A number below the n-th power, moved up, stays within n places. *)
LEMMA ShiftedPlaces ==
    ASSUME NEW v \in Nat, NEW n \in 0..16, v < Power(n), NEW k \in Nat, NEW b \in Shl(Bits(v), k)
    PROVE  b \in Nat /\ k <= b /\ b < k + n
  <1>1. PICK i \in Bits(v) : b = i + k
    BY DEF Shl
  <1>2. i \in 0..15 /\ i < n
    BY SmallBits
  <1>3. QED
    BY <1>1, <1>2

(* The part of an assembled instruction that is not the operation. *)
Sided == ~(meant.side = NoSide)
SideValue == meant.side.value

LEMMA InstrParts ==
    ASSUME FieldInv, InstrInv, meant.instr # NoInstr
    PROVE  /\ Joined(instr, Encode(meant.instr))
           /\ Decoded(meant.instr)
           /\ \A b \in 8..12 : b \in instr <=> \/ b \in Shl(Bits(meant.delay), 8)
                                               \/ Sided /\ b \in SideBits(SideValue)
           /\ Sided => /\ SideValue \in Nat
                       /\ SideValue < Power(asked.side_count - asked.side_en)
                       /\ meant.side = [set |-> TRUE, value |-> SideValue]
                       /\ asked.side_count > 0
  <1> DEFINE e == Encode(meant.instr)
             d == Shl(Bits(meant.delay), 8)
             s == IF meant.side = NoSide THEN {} ELSE SideBits(SideValue)
  <1>1. Decoded(meant.instr) /\ instr = (e \cup d) \cup s
    BY EveryDecoded DEF InstrInv, SideValue
  <1>2. e \subseteq (0..7) \cup (13..15)
    BY <1>1 DEF Decoded
  <1>3. /\ asked.side_count \in 0..5 /\ asked.side_en \in {0, 1}
        /\ asked.side_count = 0 => asked.side_en = 0
    BY DEF FieldInv, SideLegal
  <1>4. d \subseteq 8..12
    <2>1. /\ meant.delay \in Nat /\ meant.delay < Power(5)
      <3>1. meant.delay < Power(5 - asked.side_count) /\ meant.delay \in Nat
        BY DEF InstrInv
      <3>2. /\ 5 - asked.side_count \in 0..16 /\ 5 - asked.side_count <= 5
        BY <1>3
      <3>3. /\ Power(5 - asked.side_count) <= Power(5)
            /\ Power(5 - asked.side_count) \in Nat /\ Power(5) \in Nat
        BY <3>2, PowerGrows, PowerType
      <3>4. QED
        BY <3>1, <3>3
    <2>2. \A b \in d : b \in Nat /\ 8 <= b /\ b < 8 + 5
      BY <2>1, ShiftedPlaces
    <2>3. QED
      BY <2>2
  <1>5. Sided => /\ SideValue \in Nat
                 /\ SideValue < Power(asked.side_count - asked.side_en)
                 /\ meant.side = [set |-> TRUE, value |-> SideValue]
                 /\ asked.side_count > 0
    <2> SUFFICES ASSUME Sided
                 PROVE  /\ SideValue \in Nat
                        /\ SideValue < Power(asked.side_count - asked.side_en)
                        /\ meant.side = [set |-> TRUE, value |-> SideValue]
                        /\ asked.side_count > 0
      OBVIOUS
    <2>1. SideAsked
      BY DEF InstrInv, Sided
    <2>2. PICK v \in Nat : /\ v < Power(asked.side_count - asked.side_en)
                           /\ meant.side = [set |-> TRUE, value |-> v]
      BY <2>1 DEF SideAsked
    <2>3. SideValue = v
      BY <2>2 DEF SideValue
    <2>4. QED
      BY <2>1, <2>2, <2>3 DEF SideAsked
  <1>6. s \subseteq 8..12
    <2>1. CASE ~Sided
      BY <2>1 DEF Sided
    <2>2. CASE Sided
      <3>1. \A b \in Shl(Bits(SideValue), 13 - asked.side_count) : b \in 8..12
        <4> DEFINE n == asked.side_count - asked.side_en
                   k == 13 - asked.side_count
        <4>1. n \in 0..16 /\ k \in Nat /\ 8 <= k /\ k + n <= 13
          BY <1>3, <1>5, <2>2
        <4>2. SideValue \in Nat /\ SideValue < Power(n)
          BY <1>5, <2>2
        <4> HIDE DEF n, k
        <4>3. \A b \in Shl(Bits(SideValue), k) : b \in Nat /\ k <= b /\ b < k + n
          BY <4>1, <4>2, ShiftedPlaces
        <4>4. \A b \in Shl(Bits(SideValue), k) : b \in 8..12
          BY <4>1, <4>3
        <4>5. QED
          BY <4>4 DEF k
      <3>2. QED
        BY <2>2, <3>1 DEF SideBits, Sided
    <2>3. QED
      BY <2>1, <2>2
  <1>7. \A b : b \in s <=> Sided /\ b \in SideBits(SideValue)
    BY DEF Sided
  <1> HIDE DEF e, d, s
  <1>8. Joined(instr, e)
    BY <1>1, <1>4, <1>6 DEF Joined
  <1>9. \A b \in 8..12 : b \notin e
    BY <1>2
  <1>10. QED
    BY <1>1, <1>5, <1>7, <1>8, <1>9 DEF e, d

(* The hardware reads the delay and the side-set through the count and the *)
(* enable bit it finds in the configuration, which are those asked for.    *)
LEMMA SideFields ==
    ASSUME FieldInv
    PROVE  /\ HwField(config).side_count = asked.side_count
           /\ HwField(config).side_en = asked.side_en
  <1>1. "side_count" \in DOMAIN HwField(config) /\ "side_en" \in DOMAIN HwField(config)
    BY DEF HwField
  <1>2. QED
    BY <1>1, FieldsRead DEF FieldsDecode

LEMMA DelayRead ==
    ASSUME FieldInv, InstrInv, meant.instr # NoInstr
    PROVE  HwDelay(config, instr) = meant.delay
  <1> DEFINE count == asked.side_count
             d == meant.delay
             n == 5 - count
  <1>1. count \in 0..5 /\ asked.side_en \in {0, 1} /\ (count = 0 => asked.side_en = 0)
    BY DEF FieldInv, SideLegal
  <1>2. HwDelay(config, instr) = Slice(instr, 8, 12 - count)
    BY <1>1, SideFields DEF HwDelay
  <1>3. n \in 0..16 /\ d \in Nat /\ d < Power(n) /\ Spans(8, 12 - count, n)
    BY <1>1 DEF InstrInv, Spans
  <1>4. ASSUME NEW j \in 0..15, j < n
        PROVE  8 + j \in instr <=> j \in Bits(d)
    <2> DEFINE b == 8 + j
    <2>1. b \in 8..12 /\ b <= 12 - count
      BY <1>1, <1>4
    <2>2. b \in Shl(Bits(d), 8) <=> j \in Bits(d)
      <3>1. d \in Nat /\ 8 \in Nat /\ j \in Nat /\ 8 + j \in 0..31
        BY <1>3
      <3> HIDE DEF d
      <3>2. 8 + j \in Shl(Bits(d), 8) <=> j \in Bits(d)
        BY <3>1, ShiftedBit
      <3>3. QED
        BY <3>2
    <2>3. Sided => b \notin SideBits(SideValue)
      <3> SUFFICES ASSUME Sided PROVE b \notin SideBits(SideValue)
        OBVIOUS
      <3> DEFINE k == 13 - count
      <3>1. k \in Nat /\ b < k /\ b # 12 /\ (count - asked.side_en) \in 0..16
        BY <1>1, <2>1, InstrParts
      <3>2. SideValue \in Nat /\ SideValue < Power(count - asked.side_en)
        BY InstrParts
      <3> HIDE DEF b, k
      <3>3. b \notin Shl(Bits(SideValue), k)
        <4> DEFINE n1 == count - asked.side_en
        <4>1. n1 \in 0..16 /\ SideValue < Power(n1)
          BY <3>1, <3>2
        <4> HIDE DEF n1
        <4>2. \A c \in Shl(Bits(SideValue), k) : c \in Nat /\ k <= c
          BY <3>1, <3>2, <4>1, ShiftedPlaces
        <4>3. b \in Nat
          BY <2>1
        <4>4. QED
          BY <3>1, <4>2, <4>3
      <3>4. QED
        BY <3>1, <3>3 DEF SideBits, k
    <2>4. b \in instr <=> b \in Shl(Bits(d), 8) \/ (Sided /\ b \in SideBits(SideValue))
      BY <2>1, InstrParts
    <2>5. QED
      BY <2>2, <2>3, <2>4
  <1>5. Sits(instr, 8, n, d)
    BY <1>4 DEF Sits
  <1> DEFINE m == 12 - count
  <1>6. Spans(8, m, n) /\ n \in 0..16 /\ d \in Nat /\ d < Power(n)
    BY <1>3
  <1> HIDE DEF n, d, m
  <1>7. Slice(instr, 8, m) = d % Power(n)
    BY <1>5, <1>6, SliceIs
  <1>8. d % Power(n) = d
    BY <1>6, PowerType, SmallRest
  <1>9. QED
    BY <1>2, <1>7, <1>8 DEF d, m

LEMMA SideRead ==
    ASSUME FieldInv, InstrInv, meant.instr # NoInstr
    PROVE  HwSide(config, instr) =
              IF meant.side = NoSide /\ asked.side_count > 0 /\ asked.side_en = 0
              THEN [set |-> TRUE, value |-> 0] ELSE meant.side
  <1> DEFINE count == asked.side_count
             en == asked.side_en
             k == 13 - count
             m == 12 - en
             n == count - en
             d == meant.delay
             v == IF Sided THEN SideValue ELSE 0
  <1>1. count \in 0..5 /\ en \in {0, 1} /\ (count = 0 => en = 0)
    BY DEF FieldInv, SideLegal
  <1>2. HwSide(config, instr) =
           IF count \in 1..5 /\ (en = 1 => 12 \in instr)
           THEN [set |-> TRUE, value |-> Slice(instr, k, m)] ELSE NoSide
    BY SideFields DEF HwSide
  <1>3. n \in 0..16 /\ k \in Nat /\ 8 <= k /\ k + n = 13 - en /\ Spans(k, m, n)
    BY <1>1 DEF Spans
  <1>4. \A b \in Shl(Bits(d), 8) : b \in Nat /\ b < k
    <2> DEFINE p == 5 - count
    <2>1. p \in 0..16 /\ d \in Nat /\ d < Power(p) /\ 8 + p = k
      BY <1>1 DEF InstrInv
    <2> HIDE DEF p, d, k
    <2>2. \A b \in Shl(Bits(d), 8) : b \in Nat /\ 8 <= b /\ b < 8 + p
      BY <2>1, ShiftedPlaces
    <2>3. QED
      BY <2>1, <2>2
  <1>5. v \in Nat /\ v < Power(n)
    <2>1. CASE Sided
      BY <2>1, InstrParts
    <2>2. CASE ~Sided
      BY <1>3, <2>2, PowerType
    <2>3. QED
      BY <2>1, <2>2
  <1>6. count > 0 /\ en = 1 => (12 \in instr <=> Sided)
    <2> SUFFICES ASSUME count > 0, en = 1 PROVE 12 \in instr <=> Sided
      OBVIOUS
    <2>1. 12 \notin Shl(Bits(d), 8)
      BY <1>1, <1>4
    <2>2. 12 \in SideBits(SideValue)
      BY DEF SideBits
    <2>3. 12 \in instr <=> 12 \in Shl(Bits(d), 8) \/ (Sided /\ 12 \in SideBits(SideValue))
      <3>1. 12 \in 8..12
        OBVIOUS
      <3> HIDE DEF d
      <3>2. QED
        BY <3>1, InstrParts DEF d
    <2>4. QED
      BY <2>1, <2>2, <2>3
  <1>7. ASSUME NEW j \in 0..15, j < n
        PROVE  k + j \in instr <=> j \in Bits(v)
    <2> DEFINE b == k + j
    <2>1. b \in 8..12 /\ k <= b /\ b \in Nat /\ (en = 1 => b # 12)
      BY <1>1, <1>3, <1>7
    <2>2. b \notin Shl(Bits(d), 8)
      <3> HIDE DEF b, k, d
      <3>1. k \in Nat
        BY <1>3
      <3>2. QED
        BY <1>4, <2>1, <3>1
    <2>3. Sided => (b \in SideBits(v) <=> j \in Bits(v))
      <3>1. v \in Nat /\ k \in Nat /\ j \in Nat /\ k + j \in 0..31
        BY <1>3, <1>5, <2>1
      <3> HIDE DEF v, k
      <3>2. k + j \in Shl(Bits(v), k) <=> j \in Bits(v)
        BY <3>1, ShiftedBit
      <3>3. b \in SideBits(v) <=> b \in Shl(Bits(v), k)
        BY <1>1, <2>1 DEF SideBits, k
      <3>4. QED
        BY <3>2, <3>3
    <2>4. b \in instr <=> b \in Shl(Bits(d), 8) \/ (Sided /\ b \in SideBits(SideValue))
      <3> HIDE DEF b
      <3>1. QED
        BY <2>1, InstrParts
    <2>5. CASE Sided
      <3>1. v = SideValue
        BY <2>5
      <3> HIDE DEF v, b, d
      <3>2. b \in instr <=> j \in Bits(v)
        BY <2>2, <2>3, <2>4, <2>5, <3>1
      <3>3. QED
        BY <3>2 DEF b
    <2>6. CASE ~Sided
      <3>1. v = 0
        BY <2>6
      <3> HIDE DEF b, d
      <3>2. b \notin instr /\ j \notin Bits(v)
        BY <2>2, <2>4, <2>6, <3>1, NoBits
      <3>3. QED
        BY <3>2 DEF b
    <2>7. QED
      BY <2>5, <2>6
  <1>8. Slice(instr, k, m) = v
    <2>1. Sits(instr, k, n, v)
      BY <1>7 DEF Sits
    <2> HIDE DEF k, n, v, m
    <2>2. Slice(instr, k, m) = v % Power(n)
      BY <1>3, <1>5, <2>1, SliceIs
    <2>3. Power(n) \in Nat
      BY <1>3, PowerType
    <2>4. v % Power(n) = v
      BY <1>5, <2>3, SmallRest
    <2>5. QED
      BY <2>2, <2>4
  <1>9. Sided => meant.side = [set |-> TRUE, value |-> v] /\ count > 0
    BY InstrParts
  <1>10. ~Sided => meant.side = NoSide /\ v = 0
    BY DEF Sided
  <1>11. Sided => meant.side # NoSide
    BY DEF Sided
  <1>12. count \in 1..5 <=> count > 0
    BY <1>1
  <1> HIDE DEF k, m, n, d, v
  <1>13. CASE Sided
    BY <1>1, <1>2, <1>6, <1>8, <1>9, <1>11, <1>12, <1>13
  <1>14. CASE ~Sided
    BY <1>1, <1>2, <1>6, <1>8, <1>10, <1>12, <1>14
  <1>15. QED
    BY <1>13, <1>14

LEMMA InstrRead == FieldInv /\ InstrInv => InstrDecode
  <1> SUFFICES ASSUME FieldInv, InstrInv, meant.instr # NoInstr
               PROVE  /\ Decode(instr) = meant.instr
                      /\ HwDelay(config, instr) = meant.delay
                      /\ HwSide(config, instr) =
                            IF meant.side = NoSide /\ asked.side_count > 0 /\ asked.side_en = 0
                            THEN [set |-> TRUE, value |-> 0] ELSE meant.side
    BY DEF InstrDecode
  <1>1. Decode(instr) = meant.instr
    BY InstrParts DEF Decoded
  <1>2. QED
    BY <1>1, DelayRead, SideRead

----------------------------------------------------------------------------
LEMMA InstrStart == EncodingInit => InstrInv
  <1> SUFFICES ASSUME EncodingInit PROVE InstrInv
    OBVIOUS
  <1>1. /\ meant = [instr |-> NoInstr, side |-> NoSide, delay |-> 0] /\ instr = {}
        /\ asked = DefaultFields
    BY DEF EncodingInit
  <1>2. asked.side_count = 0
    BY <1>1 DEF DefaultFields, Layout
  <1>3. 0 < Power(5)
    BY PowerValues
  <1>4. QED
    BY <1>1, <1>2, <1>3 DEF InstrInv

LEMMA AddDelayKeeps ==
    ASSUME FieldInv, InstrInv, AddDelay
    PROVE  InstrInv'
  <1>1. PICK d \in Operands.delay :
            /\ d < Power(5 - asked.side_count)
            /\ instr' = instr \cup Shl(Bits(d), 8)
            /\ meant' = [meant EXCEPT !.delay = d]
    BY DEF AddDelay
  <1>2. /\ meant.instr # NoInstr /\ meant.delay = 0 /\ asked' = asked
    BY DEF AddDelay
  <1>3. meant = [instr |-> meant.instr, side |-> meant.side, delay |-> meant.delay]
    BY DEF InstrInv
  <1>4. meant' = [instr |-> meant.instr, side |-> meant.side, delay |-> d]
    BY <1>1, <1>3
  <1>5. d \in Nat
    BY EncodingAssumption DEF OperandsLegal
  <1>6. SideAsked' <=> SideAsked
    BY <1>2, <1>4 DEF SideAsked
  <1>7. \A v : SideBits(v)' = SideBits(v)
    BY <1>2 DEF SideBits
  <1>8. Shl(Bits(0), 8) = {}
    BY NoBits DEF Shl
  <1> DEFINE s == IF meant.side = NoSide THEN {} ELSE SideBits(meant.side.value)
             e == Encode(meant.instr)
  <1>9. instr = (e \cup Shl(Bits(0), 8)) \cup s
    BY <1>2 DEF InstrInv
  <1>10. instr' = (e \cup Shl(Bits(d), 8)) \cup s
    <2> HIDE DEF e, s
    <2>1. QED
      BY <1>1, <1>8, <1>9
  <1>11. s' = s /\ e' = e
    BY <1>2, <1>4 DEF SideBits
  <1>12. QED
    BY <1>1, <1>2, <1>4, <1>5, <1>6, <1>10, <1>11 DEF InstrInv

LEMMA AddSidesetKeeps ==
    ASSUME FieldInv, InstrInv, AddSideset
    PROVE  InstrInv'
  <1> DEFINE n == asked.side_count - asked.side_en
  <1>1. PICK v \in Operands.side :
            /\ v < Power(n)
            /\ instr' = instr \cup (IF asked.side_en = 1
                                    THEN {12} \cup Shl(Bits(v), 12 - n)
                                    ELSE Shl(Bits(v), 13 - n))
            /\ meant' = [meant EXCEPT !.side = [set |-> TRUE, value |-> v]]
    BY DEF AddSideset
  <1>2. /\ meant.instr # NoInstr /\ meant.side = NoSide /\ asked.side_count > 0 /\ asked' = asked
    BY DEF AddSideset
  <1>3. meant = [instr |-> meant.instr, side |-> meant.side, delay |-> meant.delay]
    BY DEF InstrInv
  <1>4. meant' = [instr |-> meant.instr, side |-> [set |-> TRUE, value |-> v],
                  delay |-> meant.delay]
    BY <1>1, <1>3
  <1>5. v \in Nat
    BY EncodingAssumption DEF OperandsLegal
  <1>6. SideAsked'
    BY <1>1, <1>2, <1>4, <1>5 DEF SideAsked
  <1>7. instr' = instr \cup SideBits(v)
    <2>1. asked.side_count \in Nat /\ asked.side_en \in {0, 1}
      BY DEF FieldInv, SideLegal
    <2>2. CASE asked.side_en = 1
      <3>1. 12 - n = 13 - asked.side_count
        BY <2>1, <2>2
      <3> HIDE DEF n
      <3>2. QED
        BY <1>1, <2>2, <3>1 DEF SideBits
    <2>3. CASE asked.side_en = 0
      <3>1. 13 - n = 13 - asked.side_count
        BY <2>1, <2>3
      <3> HIDE DEF n
      <3>2. QED
        BY <1>1, <2>3, <3>1 DEF SideBits
    <2>4. QED
      BY <2>1, <2>2, <2>3
  <1> DEFINE e == Encode(meant.instr) \cup Shl(Bits(meant.delay), 8)
  <1>8. instr = e
    BY <1>2 DEF InstrInv
  <1>9. instr' = e \cup SideBits(v)
    BY <1>7, <1>8
  <1>10. e' = e /\ SideBits(v)' = SideBits(v)
    BY <1>2, <1>4 DEF SideBits
  <1>11. meant'.side # NoSide
    BY <1>4 DEF NoSide
  <1>12. SideBits(meant.side.value)' = SideBits(v)
    BY <1>2, <1>4 DEF SideBits
  <1> HIDE DEF n
  <1>13. meant'.delay \in Nat /\ meant'.delay < Power(5 - asked'.side_count)
    BY <1>2, <1>4 DEF InstrInv
  <1>14. QED
    BY <1>2, <1>4, <1>6, <1>9, <1>10, <1>11, <1>12, <1>13 DEF InstrInv

LEMMA AssembleKeeps ==
    ASSUME InstrInv, Assemble
    PROVE  InstrInv'
  <1>1. PICK i \in Instructions : instr' = Encode(i) /\ meant' = [meant EXCEPT !.instr = i]
    BY DEF Assemble
  <1>2. meant.instr = NoInstr /\ asked' = asked
    BY DEF Assemble
  <1>3. /\ meant = [instr |-> meant.instr, side |-> meant.side, delay |-> meant.delay]
        /\ meant.side = NoSide /\ meant.delay = 0 /\ meant.delay < Power(5 - asked.side_count)
    BY <1>2 DEF InstrInv
  <1>4. meant' = [instr |-> i, side |-> NoSide, delay |-> 0]
    BY <1>1, <1>3
  <1>5. i # NoInstr
    <2>1. i.op # "none"
      BY DEF Instructions
    <2>2. QED
      BY <2>1 DEF NoInstr
  <1>6. Shl(Bits(0), 8) = {}
    BY NoBits DEF Shl
  <1>7. Instructions' = Instructions
    BY DEF Instructions
  <1> DEFINE e == Encode(i)
  <1>8. instr' = (e \cup Shl(Bits(0), 8)) \cup {}
    <2> HIDE DEF e
    <2>1. QED
      BY <1>1, <1>6 DEF e
  <1>9. Encode(meant.instr)' = e
    BY <1>4
  <1> HIDE DEF e
  <1>10. QED
    BY <1>2, <1>3, <1>4, <1>5, <1>7, <1>8, <1>9 DEF InstrInv

LEMMA BuildersKeepInstr ==
    ASSUME InstrInv, FieldInv', meant.instr = NoInstr, UNCHANGED <<instr, meant>>
    PROVE  InstrInv'
  <1>1. meant.side = NoSide /\ meant.delay = 0 /\ instr = {}
    BY DEF InstrInv
  <1>2. asked'.side_count \in 0..5
    BY DEF FieldInv, SideLegal
  <1>3. 0 < Power(5 - asked'.side_count)
    <2>1. 5 - asked'.side_count \in 0..16
      BY <1>2
    <2>2. Power(5 - asked'.side_count) \in Nat \ {0}
      BY <2>1, PowerType
    <2>3. QED
      BY <2>2
  <1>4. QED
    BY <1>1, <1>3 DEF InstrInv

LEMMA InstrStep ==
    ASSUME FieldInv, InstrInv, [EncodingNext]_encodingVars
    PROVE  InstrInv'
  <1>1. CASE UNCHANGED encodingVars
    <2>1. /\ asked' = asked /\ instr' = instr /\ meant' = meant
      BY <1>1 DEF encodingVars
    <2>2. QED
      BY <2>1 DEF InstrInv, SideAsked, SideBits, Instructions
  <1>2. CASE Assemble
    BY <1>2, AssembleKeeps
  <1>3. CASE AddDelay
    BY <1>3, AddDelayKeeps
  <1>4. CASE AddSideset
    BY <1>4, AddSidesetKeeps
  <1>5. CASE \/ SetOutPins \/ SetSetPins \/ SetInPins \/ SetSidesetPins \/ SetSideset
             \/ SetClkdiv \/ SetWrap \/ SetJmpPin \/ SetInShift \/ SetOutShift
             \/ SetFifoJoin \/ SetMovStatus
    <2>1. FieldInv'
      BY FieldStep
    <2>2. meant.instr = NoInstr /\ UNCHANGED <<instr, meant>>
      BY <1>5 DEF SetOutPins, SetSetPins, SetInPins, SetSidesetPins, SetSideset,
                  SetClkdiv, SetWrap, SetJmpPin, SetInShift, SetOutShift, SetFifoJoin,
                  SetMovStatus, Build
    <2>3. QED
      BY <2>1, <2>2, BuildersKeepInstr
  <1>6. QED
    BY <1>1, <1>2, <1>3, <1>4, <1>5 DEF EncodingNext

(* An instruction of the pio_encode_* functions, with a delay and a        *)
(* side-set or-ed in, is decoded by pio_sm.sv under the configuration it   *)
(* was built for as the operation, operands, delay and side-set its caller *)
(* asked for: for all operands and every split of the five shared bits.    *)
THEOREM InstrAlwaysDecodes ==
    EncodingSpec => []InstrDecode
  <1>1. EncodingInit => FieldInv /\ InstrInv
    BY FieldStart, InstrStart
  <1>2. FieldInv /\ InstrInv /\ [EncodingNext]_encodingVars => FieldInv' /\ InstrInv'
    BY FieldStep, InstrStep
  <1>3. FieldInv /\ InstrInv => InstrDecode
    BY InstrRead
  <1>4. QED
    BY <1>1, <1>2, <1>3, PTL DEF EncodingSpec
=============================================================================
