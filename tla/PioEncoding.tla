---------------------------- MODULE PioEncoding ----------------------------
(***************************************************************************)
(* The callers of the formats of PioFormats: the sm_config_* builders of   *)
(* src/sw/lib/hardware/pio.h, which put fields into the four words of a    *)
(* configuration in any order, and the encoders of                         *)
(* hardware/pio_instructions.h, which or an instruction together.          *)
(***************************************************************************)
EXTENDS PioFormats

CONSTANTS Operands,    \* what callers pass for each kind of operand
          MaxCalls,    \* bound on the calls that build one configuration
          MaxBefore    \* bound on those of them before an instruction is assembled

OperandsLegal ==
    Operands \in [pin : SUBSET (0..31),          \* wrap and jump addresses included
                  side_count : SUBSET (0..5),    \* the enable bit included
                  set_count : SUBSET (0..5),     out_count : SUBSET (0..32),
                  threshold : SUBSET (1..32),    count : SUBSET (1..32),
                  divisor : SUBSET (1..(Power(16) - 1)), fraction : SUBSET (0..255),
                  level : SUBSET (0..15),        irq : SUBSET (0..7),
                  delay : SUBSET (1..31),        side : SUBSET (0..31)]
ASSUME EncodingAssumption == OperandsLegal /\ MaxCalls \in Nat /\ MaxBefore \in Nat

VARIABLES config,   \* pio_sm_config: four words
          asked,    \* the value last asked for each field
          calls,    \* builder calls so far
          instr,    \* the instruction being assembled
          meant     \* what the caller asked the encoder for

encodingVars == <<config, asked, calls, instr, meant>>

Asked(fields) == [f \in DOMAIN asked |-> IF f \in DOMAIN fields THEN fields[f] ELSE asked[f]]

(* What the encoders are asked for: the operands the hardware knows. *)
Instructions ==
    [op : {"jmp"}, cond : 0..7, addr : Operands.pin]
      \cup [op : {"wait"}, polarity : BOOLEAN, source : {0, 1}, index : Operands.pin]
      \cup [op : {"wait"}, polarity : BOOLEAN, source : {2}, index : Operands.irq, rel : BOOLEAN]
      \cup [op : {"in"}, source : {0, 1, 2, 3, 6, 7}, count : Operands.count]
      \cup [op : {"out"}, dest : 0..7, count : Operands.count]
      \cup [op : {"push", "pull"}, cond : BOOLEAN, block : BOOLEAN]
      \cup [op : {"mov"}, dest : {0, 1, 2, 4, 5, 6, 7}, fn : 0..2, source : {0, 1, 2, 3, 5, 6, 7}]
      \cup [op : {"irq"}, mode : 0..2, index : Operands.irq, rel : BOOLEAN]
      \cup [op : {"set"}, dest : {0, 1, 2, 4}, data : Operands.pin]

NoInstr == [op |-> "none"]
----------------------------------------------------------------------------
EncodingInit ==
    /\ config = DefaultConfig /\ asked = DefaultFields /\ calls = 0
    /\ instr = {} /\ meant = [instr |-> NoInstr, side |-> NoSide, delay |-> 0]

Build(reg, fields) ==
    /\ calls < MaxCalls /\ meant.instr = NoInstr
    /\ calls' = calls + 1
    /\ config' = Put(config, reg, fields)
    /\ asked' = Asked(fields)
    /\ UNCHANGED <<instr, meant>>

SetOutPins == \E b \in Operands.pin, n \in Operands.out_count :
                  Build("pinctrl", [out_base |-> b, out_count |-> n])
SetSetPins == \E b \in Operands.pin, n \in Operands.set_count :
                  Build("pinctrl", [set_base |-> b, set_count |-> n])
SetInPins == \E b \in Operands.pin : Build("pinctrl", [in_base |-> b])
SetSidesetPins == \E b \in Operands.pin : Build("pinctrl", [side_base |-> b])
SetJmpPin == \E p \in Operands.pin : Build("execctrl", [jmp_pin |-> p])
SetInShift == \E r, a \in {0, 1}, t \in Operands.threshold :
                  Build("shiftctrl", [in_right |-> r, autopush |-> a, push_thresh |-> t])
SetOutShift == \E r, a \in {0, 1}, t \in Operands.threshold :
                  Build("shiftctrl", [out_right |-> r, autopull |-> a, pull_thresh |-> t])
SetFifoJoin == \E j \in 0..2 : Build("shiftctrl", [join |-> j])
SetMovStatus == \E s \in {0, 1}, n \in Operands.level :
                    Build("execctrl", [status_sel |-> s, status_n |-> n])

(* sm_config_set_wrap, and pio_sm_set_wrap on the register itself. *)
SetWrap == \E target, wrap \in Operands.pin :
               Build("execctrl", [wrap_bottom |-> target, wrap_top |-> wrap])

(* The word is assigned, not masked. *)
SetClkdiv == \E n \in Operands.divisor, f \in Operands.fraction :
                 /\ calls < MaxCalls /\ meant.instr = NoInstr
                 /\ calls' = calls + 1
                 /\ config' = [config EXCEPT !.clkdiv = Shl(Bits(f), 8) \cup Shl(Bits(n), 16)]
                 /\ asked' = Asked([div |-> n, frac |-> f])
                 /\ UNCHANGED <<instr, meant>>

(* The one builder that writes two words. *)
SetSideset == \E n \in Operands.side_count, optional, pindirs \in {0, 1} :
    LET exec == [side_en |-> optional, side_pindir |-> pindirs]
    IN  /\ n = 0 => optional = 0
        /\ calls < MaxCalls /\ meant.instr = NoInstr
        /\ calls' = calls + 1
        /\ config' = [config EXCEPT !.pinctrl = Put(config, "pinctrl", [side_count |-> n]).pinctrl,
                                    !.execctrl = Put(config, "execctrl", exec).execctrl]
        /\ asked' = [Asked(exec) EXCEPT !.side_count = n]
        /\ UNCHANGED <<instr, meant>>

Assemble == /\ meant.instr = NoInstr
            /\ calls <= MaxBefore
            /\ \E i \in Instructions : instr' = Encode(i) /\ meant' = [meant EXCEPT !.instr = i]
            /\ UNCHANGED <<config, asked, calls>>

(* pio_encode_delay, with the bits the side-set leaves to it. *)
AddDelay == /\ meant.instr # NoInstr /\ meant.delay = 0
            /\ \E d \in Operands.delay :
                 /\ d < Power(5 - asked.side_count)
                 /\ instr' = instr \cup Shl(Bits(d), 8)
                 /\ meant' = [meant EXCEPT !.delay = d]
            /\ UNCHANGED <<config, asked, calls>>

(* pio_encode_sideset and pio_encode_sideset_opt, with the number of data  *)
(* bits that belongs to the configured count.                              *)
AddSideset ==
    LET n == asked.side_count - asked.side_en
    IN  /\ meant.instr # NoInstr /\ meant.side = NoSide /\ asked.side_count > 0
        /\ \E v \in Operands.side :
             /\ v < Power(n)
             /\ instr' = instr \cup (IF asked.side_en = 1
                                     THEN {12} \cup Shl(Bits(v), 12 - n)
                                     ELSE Shl(Bits(v), 13 - n))
             /\ meant' = [meant EXCEPT !.side = [set |-> TRUE, value |-> v]]
        /\ UNCHANGED <<config, asked, calls>>

EncodingNext ==
    \/ SetOutPins \/ SetSetPins \/ SetInPins \/ SetSidesetPins \/ SetSideset
    \/ SetClkdiv \/ SetWrap \/ SetJmpPin \/ SetInShift \/ SetOutShift
    \/ SetFifoJoin \/ SetMovStatus \/ Assemble \/ AddDelay \/ AddSideset

EncodingSpec == EncodingInit /\ [][EncodingNext]_encodingVars
----------------------------------------------------------------------------
(* Whatever builders are called in whatever order, every field the         *)
(* hardware slices out of the four words is the value last asked for it:   *)
(* no builder disturbs a field of another, and the headers and pio.sv      *)
(* agree on where each field lies.                                         *)
FieldsDecode ==
    LET hw == HwField(config)
    IN  \A f \in DOMAIN hw :
            IF f \in {"push_thresh", "pull_thresh"} THEN Or32(hw[f]) = Or32(asked[f])
            ELSE hw[f] = asked[f]

(* An assembled instruction is decoded by the hardware, under the          *)
(* configuration the program was built for, as the operation, operands,    *)
(* side-set and delay the caller asked for.  Without an enable bit an      *)
(* instruction without side-set drives 0: every one of them drives.        *)
InstrDecode ==
    meant.instr # NoInstr =>
        /\ Decode(instr) = meant.instr
        /\ HwDelay(config, instr) = meant.delay
        /\ HwSide(config, instr) =
              IF meant.side = NoSide /\ asked.side_count > 0 /\ asked.side_en = 0
              THEN [set |-> TRUE, value |-> 0] ELSE meant.side
=============================================================================
