------------------------------- MODULE PioSdk -------------------------------
(***************************************************************************)
(* The PIO library of src/sw/lib/hardware/pio.h: the allocator of          *)
(* instruction memory, the claiming of state machines, and the sequences   *)
(* of register writes that initialise, enable and force instructions on a  *)
(* state machine, with the part of pio.sv and pio_sm.sv they rely on.      *)
(*                                                                         *)
(* The library runs on one processor.  A call computes its writes from     *)
(* what it reads and leaves them in script; the processor then performs    *)
(* them one at a time while the enabled state machines go on executing.    *)
(* An instruction is a jump, a SET of pin directions or values, or one     *)
(* that does neither.                                                      *)
(***************************************************************************)
EXTENDS Naturals, Sequences, FiniteSets

CONSTANTS N,          \* PIO_INSTRUCTION_COUNT, and the width of the used mask
          NSm,        \* NUM_PIO_STATE_MACHINES
          NPins,      \* pins
          PinSms,     \* bound: the machines whose pins callers set
          Chunk,      \* pins one SET can write (5)
          Programs,   \* [code, origin, target, entry]; origin N: relocatable
          Rules       \* what callers take care of

AllRules == {"fixed",     \* a program with jumps has a fixed origin, and jumps inside itself
             "short",     \* a program is shorter than the memory
             "stopped",   \* a program is removed when no machine runs it
             "checked",   \* pio_sm_claim only on a machine that is not claimed
             "running",   \* pins are set through an enabled machine
             "fast"}      \* whose divider lets it tick between two writes

Sms == 0..(NSm - 1)
Slot == 0..(N - 1)
Pin == 0..(NPins - 1)
Length(p) == Len(p.code)
Slots(p, offset) == offset..(offset + Length(p) - 1)

Jmp(to) == [op |-> "jmp", to |-> to]
Set(dest, data) == [op |-> "set", dest |-> dest, data |-> data]
Other == [op |-> "other"]
Instruction == {Other} \cup [op : {"jmp"}, to : Slot]
                 \cup [op : {"set"}, dest : {"dirs", "outs"}, data : SUBSET (0..(Chunk - 1))]

ASSUME SdkAssumption ==
    /\ N \in Nat \ {0} /\ NSm \in Nat \ {0}
    /\ NPins \in Nat \ {0} /\ Chunk \in 1..NPins
    /\ PinSms \subseteq Sms /\ Rules \subseteq AllRules
    /\ \A p \in Programs :
         /\ Length(p) \in 1..N /\ p.origin \in 0..N
         /\ p.target \in 0..(Length(p) - 1) /\ p.entry \in 0..(Length(p) - 1)
         /\ p.code \in Seq(Instruction)
         /\ "fixed" \in Rules => \A i \in DOMAIN p.code :
               p.code[i].op = "jmp" => p.origin < N /\ p.code[i].to \in Slots(p, p.origin)
         /\ "short" \in Rules => Length(p) < N

VARIABLES
    used,      \* _pio_used_instruction_space
    claimed,   \* _pio_sm_claimed
    script,    \* writes of the current call still to come
    imem,      \* instr_mem
    enabled,   \* sm_en_q
    regs,      \* wrap and SET fields of EXECCTRL and PINCTRL
    core,      \* pc_q, the forced instruction, pin directions and values
    held,      \* history: programs loaded and not removed
    holders,   \* history: claims of each machine not given back
    job,       \* history: what each machine was initialised to run
    wanted     \* history: directions and values asked of each machine's pins

software == <<used, claimed>>
hardware == <<imem, enabled, regs, core>>
history  == <<held, holders, job, wanted>>
vars     == <<software, script, hardware, history>>
----------------------------------------------------------------------------
None == [op |-> "none"]
NoJob == [slots |-> {}, entry |-> N, first |-> N]

(* write_pins: bit i of data goes to pin base + i, around the end. *)
Span(base, count) == {(base + i) % NPins : i \in 0..(count - 1)}
WritePins(pins, data, base, count) ==
    (pins \ Span(base, count)) \cup {(base + i) % NPins : i \in data \cap 0..(count - 1)}
----------------------------------------------------------------------------
(***************************************************************************)
(* The state machines.                                                     *)
(***************************************************************************)
Forced(s) == core[s].forced # None

Advance(s) == IF core[s].pc = regs[s].top THEN regs[s].bottom ELSE (core[s].pc + 1) % N

(* One tick: of the forced instruction, which moves the program counter    *)
(* only when it is a jump, or of the one fetched.                          *)
Execute(s, i) ==
    LET moved == [core[s] EXCEPT !.forced = None,
                                 !.pc = IF i.op = "jmp" THEN i.to
                                        ELSE IF Forced(s) THEN @ ELSE Advance(s)]
    IN  IF i.op = "set"
        THEN [moved EXCEPT ![i.dest] = WritePins(@, i.data, regs[s].base, regs[s].count)]
        ELSE moved

Tick(s) ==
    /\ s \in enabled
    /\ core' = [core EXCEPT ![s] = Execute(s, IF Forced(s) THEN @.forced ELSE imem[@.pc])]
    /\ job' = IF Forced(s) \/ job[s].first # N THEN job
              ELSE [job EXCEPT ![s].first = core[s].pc]
    /\ UNCHANGED <<software, script, imem, enabled, regs, held, holders, wanted>>
----------------------------------------------------------------------------
(***************************************************************************)
(* The writes of the processor.                                            *)
(***************************************************************************)
WImem(a, i) == [reg |-> "imem", at |-> a, value |-> i]
WEnable(set) == [reg |-> "ctrl", value |-> set, restart |-> {}]
WRestart(set, s) == [reg |-> "ctrl", value |-> set, restart |-> {s}]
WRegs(s, r) == [reg |-> "regs", at |-> s, value |-> r]
WInstr(s, i) == [reg |-> "instr", at |-> s, value |-> i]

(* What a write does.  CTRL carries the enables it was read with, and a    *)
(* restart sends the program counter to the wrap target; the forced        *)
(* instruction is a register: it is overwritten, never queued, and neither *)
(* disabling nor restarting the machine clears it.                         *)
Perform(w) ==
    /\ imem' = IF w.reg = "imem" THEN [imem EXCEPT ![w.at] = w.value] ELSE imem
    /\ enabled' = IF w.reg = "ctrl" THEN w.value ELSE enabled
    /\ regs' = IF w.reg = "regs" THEN [regs EXCEPT ![w.at] = w.value] ELSE regs
    /\ core' = [s \in Sms |->
                  IF w.reg = "ctrl" /\ s \in w.restart
                  THEN [core[s] EXCEPT !.pc = regs[s].bottom]
                  ELSE IF w.reg = "instr" /\ w.at = s THEN [core[s] EXCEPT !.forced = w.value]
                  ELSE core[s]]

Settled == \A s \in enabled : ~Forced(s)

Bus == /\ script # <<>>
       /\ "fast" \in Rules => Settled
       /\ Perform(Head(script))
       /\ script' = Tail(script)
       /\ UNCHANGED <<software, history>>

(* A call of the library: nothing of the last one is left to do. *)
Ready == script = <<>> /\ ("fast" \in Rules => Settled)
----------------------------------------------------------------------------
(***************************************************************************)
(* Instruction memory.                                                     *)
(***************************************************************************)
(* ((1u << length) - 1u) << offset.  Shifting by the whole width is        *)
(* undefined: the mask is all ones or, where the shift wraps, none.        *)
Masks(p, offset) == IF Length(p) < N THEN {Slots(p, offset) \cap Slot} ELSE {{}, Slot}

\* Mutant of Fits: only the first slot is tested.
FitsFirst(p, offset, mask) == offset + Length(p) <= N /\ offset \notin used

(* pio_can_add_program_at_offset. *)
Fits(p, offset, mask) == offset + Length(p) <= N /\ used \cap mask = {}

(* Where pio_add_program puts a program: its origin, or the first place.   *)
Places(p, choose) ==
    LET fit == {o \in Slot : Fits(p, o, choose[o])}
    IN  IF p.origin < N THEN fit \cap {p.origin} ELSE {o \in fit : \A q \in fit : o <= q}

Load(p, offset, mask) ==
    /\ script' = [i \in 1..Length(p) |-> WImem(offset + i - 1, p.code[i])]
    /\ used' = used \cup mask
    /\ held' = held \cup {[program |-> p, offset |-> offset]}
    /\ UNCHANGED <<claimed, hardware, holders, job, wanted>>

AddProgram(p) ==
    /\ Ready
    /\ \E full \in {0, 1} :
         LET choose == [o \in Slot |-> IF Length(p) < N THEN Slots(p, o) \cap Slot
                                       ELSE IF full = 1 THEN Slot ELSE {}]
         IN  \E o \in Places(p, choose) : Load(p, o, choose[o])

(* pio_add_program_at_offset, at a place of the caller's choosing. *)
AddProgramAt(p, offset) ==
    /\ Ready
    /\ p.origin = N
    /\ \E mask \in Masks(p, offset) : Fits(p, offset, mask) /\ Load(p, offset, mask)

RemoveProgram(h) ==
    /\ Ready
    /\ h \in held
    /\ "stopped" \in Rules => \A s \in Sms : job[s].slots # Slots(h.program, h.offset)
    /\ \E mask \in Masks(h.program, h.offset) : used' = used \ mask
    /\ held' = held \ {h}
    /\ UNCHANGED <<claimed, script, hardware, holders, job, wanted>>

(* pio_clear_instruction_memory: every slot becomes a jump to itself. *)
ClearMemory ==
    /\ Ready
    /\ "stopped" \in Rules => \A s \in Sms : job[s] = NoJob
    /\ script' = [i \in 1..N |-> WImem(i - 1, Jmp(i - 1))]
    /\ used' = {}
    /\ held' = {}
    /\ UNCHANGED <<claimed, hardware, holders, job, wanted>>
----------------------------------------------------------------------------
(***************************************************************************)
(* Claims.                                                                 *)
(***************************************************************************)
Claims(s) == /\ claimed' = claimed \cup {s}
             /\ holders' = [holders EXCEPT ![s] = @ + 1]
             /\ UNCHANGED <<used, script, hardware, held, job, wanted>>

(* pio_claim_unused_sm: the first bit that is clear, or an error. *)
ClaimUnused == /\ Ready
               /\ \E s \in Sms : s \notin claimed /\ (\A t \in Sms : t < s => t \in claimed) /\ Claims(s)

(* pio_sm_claim sets the bit whatever it was. *)
Claim(s) == /\ Ready
            /\ holders[s] < 2
            /\ "checked" \in Rules => s \notin claimed
            /\ Claims(s)

\* By a caller that has disabled the machine and is done with it.
Unclaim(s) == /\ Ready
              /\ holders[s] > 0
              /\ s \notin enabled
              /\ claimed' = claimed \ {s}
              /\ holders' = [holders EXCEPT ![s] = @ - 1]
              /\ job' = [job EXCEPT ![s] = NoJob]
              /\ UNCHANGED <<used, script, hardware, held, wanted>>
----------------------------------------------------------------------------
(***************************************************************************)
(* State machines.                                                         *)
(***************************************************************************)
\* Mutant of Config: the wrap top is one past the program.
ConfigWide(h) == [bottom |-> h.offset + h.program.target,
                  top |-> (h.offset + Length(h.program)) % N,
                  base |-> 0, count |-> Chunk]

Config(h) == [bottom |-> h.offset + h.program.target,
              top |-> h.offset + Length(h.program) - 1,
              base |-> 0, count |-> Chunk]

(* pio_sm_init with the default configuration of a loaded program:         *)
(* disable, configure, restart, and force a jump to the entry.  The        *)
(* toggling of FJOIN_RX and the write to FDEBUG change nothing.            *)
SmInit(s, h) ==
    /\ Ready
    /\ holders[s] > 0 /\ h \in held
    /\ Perform(WEnable(enabled \ {s}))
    /\ script' = << WRegs(s, Config(h)), WRestart(enabled \ {s}, s),
                    WInstr(s, Jmp(h.offset + h.program.entry)) >>
    /\ job' = [job EXCEPT ![s] = [slots |-> Slots(h.program, h.offset),
                                  entry |-> h.offset + h.program.entry, first |-> N]]
    /\ UNCHANGED <<software, held, holders, wanted>>

(* pio_sm_set_enabled and pio_set_sm_mask_enabled. *)
Enable(set) == /\ Ready
               /\ set # {} /\ \A s \in set : job[s] # NoJob /\ s \notin enabled
               /\ script' = << WEnable(enabled \cup set) >>
               /\ UNCHANGED <<software, hardware, history>>

Disable(s) == /\ Ready
              /\ s \in enabled
              /\ script' = << WEnable(enabled \ {s}) >>
              /\ UNCHANGED <<software, hardware, history>>
----------------------------------------------------------------------------
(***************************************************************************)
(* Pins, through forced SETs with SET_BASE and SET_COUNT changed for them  *)
(* and put back at the end.                                                *)
(***************************************************************************)
SetOf(base, count, data) == [base |-> base, count |-> count, data |-> data]

(* Each SET in turn: its base and count, then the instruction. *)
Helper(s, sets, dest, pins) ==
    /\ Ready
    /\ job[s] # NoJob
    /\ "running" \in Rules => s \in enabled
    /\ script' = [j \in 1..(2 * Len(sets) + 1) |->
                    IF j > 2 * Len(sets) THEN WRegs(s, regs[s])
                    ELSE IF j % 2 = 0 THEN WInstr(s, Set(dest, sets[j \div 2].data))
                    ELSE WRegs(s, [regs[s] EXCEPT !.base = sets[(j + 1) \div 2].base,
                                                  !.count = sets[(j + 1) \div 2].count])]
    /\ wanted' = [wanted EXCEPT ![s][dest] = pins]
    /\ UNCHANGED <<software, hardware, held, holders, job>>

Smaller(a, b) == IF a < b THEN a ELSE b
All == 0..(Chunk - 1)

\* Mutant of SetConsecutivePindirs: the base is not moved on.
SetConsecutivePindirsStuck(s, base, count, out) ==
    Helper(s, [k \in 1..((count + Chunk - 1) \div Chunk) |->
                 SetOf(base, Smaller(Chunk, count - (k - 1) * Chunk), IF out THEN All ELSE {})],
           "dirs", IF out THEN wanted[s].dirs \cup Span(base, count)
                   ELSE wanted[s].dirs \ Span(base, count))

(* pio_sm_set_consecutive_pindirs: Chunk pins at a time. *)
SetConsecutivePindirs(s, base, count, out) ==
    Helper(s, [k \in 1..((count + Chunk - 1) \div Chunk) |->
                 SetOf((base + (k - 1) * Chunk) % NPins,
                       Smaller(Chunk, count - (k - 1) * Chunk), IF out THEN All ELSE {})],
           "dirs", IF out THEN wanted[s].dirs \cup Span(base, count)
                   ELSE wanted[s].dirs \ Span(base, count))

(* pio_sm_set_pins: every pin. *)
SetPins(s, values) ==
    Helper(s, [k \in 1..((NPins + Chunk - 1) \div Chunk) |->
                 LET base == (k - 1) * Chunk
                 IN  SetOf(base, Smaller(Chunk, NPins - base),
                           {i \in All : base + i \in values})],
           "outs", values)

(* pio_sm_set_pins_with_mask and pio_sm_set_pindirs_with_mask: one pin at  *)
(* a time, from the lowest.                                                *)
Ascending(pins) == \A i, j \in DOMAIN pins : i < j => pins[i] < pins[j]
SetWithMask(s, dest, values, mask) ==
    \E pins \in [1..Cardinality(mask) -> mask] :
        /\ Ascending(pins)
        /\ \A p \in mask : \E k \in DOMAIN pins : pins[k] = p
        /\ Helper(s, [k \in DOMAIN pins |->
                         SetOf(pins[k], 1, IF pins[k] \in values THEN {0} ELSE {})],
                  dest, (wanted[s][dest] \ mask) \cup (values \cap mask))
----------------------------------------------------------------------------
Init ==
    /\ used = {} /\ claimed = {} /\ script = <<>>
    /\ imem = [a \in Slot |-> Other]    \* not reset, and not fetched
    /\ enabled = {}
    /\ regs = [s \in Sms |-> [bottom |-> 0, top |-> N - 1, base |-> 0, count |-> 0]]
    /\ core = [s \in Sms |-> [pc |-> 0, forced |-> None, dirs |-> {}, outs |-> {}]]
    /\ held = {} /\ holders = [s \in Sms |-> 0]
    /\ job = [s \in Sms |-> NoJob]
    /\ wanted = [s \in Sms |-> [dirs |-> {}, outs |-> {}]]

Memory == \/ ClearMemory
          \/ \E p \in Programs : AddProgram(p) \/ \E o \in Slot : AddProgramAt(p, o)
          \/ \E h \in held : RemoveProgram(h)

Machines == \/ ClaimUnused
            \/ \E set \in SUBSET Sms : Enable(set)
            \/ \E s \in Sms : Claim(s) \/ Unclaim(s) \/ Disable(s)
            \/ \E s \in Sms, h \in held : SmInit(s, h)

PinCalls == \E s \in PinSms :
    \/ \E base \in Pin, count \in 1..NPins, out \in BOOLEAN : SetConsecutivePindirs(s, base, count, out)
    \/ \E values \in SUBSET Pin : SetPins(s, values)
    \/ \E dest \in {"dirs", "outs"}, values, mask \in SUBSET Pin :
           values \subseteq mask /\ SetWithMask(s, dest, values, mask)

Next == Bus \/ Memory \/ Machines \/ PinCalls \/ \E s \in Sms : Tick(s)

Spec == Init /\ [][Next]_vars
----------------------------------------------------------------------------
(* Programs that are loaded and not removed share no slot, every slot of   *)
(* theirs stays marked used, and a state machine has one claimant.         *)
NothingShared ==
    /\ \A h, g \in held : h # g => Slots(h.program, h.offset) \cap Slots(g.program, g.offset) = {}
    /\ \A h \in held : Slots(h.program, h.offset) \subseteq used
    /\ \A s \in Sms : holders[s] <= 1

Loading(h) == \E i \in DOMAIN script : script[i].reg = "imem" /\ script[i].at \in Slots(h.program, h.offset)

(* A machine that was initialised with a loaded program starts at the      *)
(* entry it was given and from then on fetches that program's own          *)
(* instructions, whatever else is loaded, removed, claimed or run.         *)
RunsOwnProgram ==
    /\ \A s \in Sms : job[s].first \in {job[s].entry, N}
    /\ \A s \in enabled : job[s].first # N => core[s].pc \in job[s].slots
    /\ \A h \in held : ~Loading(h) =>
         \A i \in DOMAIN h.program.code : imem[h.offset + i - 1] = h.program.code[i]

(* When a call that sets pins has returned and the machine has run, its    *)
(* pins have the directions and values asked of it, and only those.        *)
PinsAsAsked ==
    \A s \in enabled : Ready /\ ~Forced(s) /\ job[s].first # N =>
        core[s].dirs = wanted[s].dirs /\ core[s].outs = wanted[s].outs
=============================================================================
