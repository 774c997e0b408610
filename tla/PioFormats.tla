----------------------------- MODULE PioFormats -----------------------------
(***************************************************************************)
(* The data formats the PIO library and the PIO hardware must agree on:    *)
(* the four configuration words of a state machine, written through the    *)
(* field positions of hardware/structs/pio.h, and the 16-bit instructions  *)
(* built by hardware/pio_instructions.h.  The hardware side is the slices  *)
(* of pio.sv and the decoder of pio_sm.sv, which know nothing of the       *)
(* headers.  A word is the set of its bits that are 1.                     *)
(***************************************************************************)
EXTENDS Naturals

(***************************************************************************)
(* Binary numerals of up to 16 bits.                                       *)
(***************************************************************************)
Power(n) == <<1, 2, 4, 8, 16, 32, 64, 128, 256, 512, 1024, 2048, 4096, 8192,
              16384, 32768, 65536>>[n + 1]
Bits(v) == {i \in 0..15 : (v \div Power(i)) % 2 = 1}
Value(word) ==
    LET b == [i \in 0..15 |-> IF i \in word THEN Power(i) ELSE 0]
    IN  b[0] + b[1] + b[2] + b[3] + b[4] + b[5] + b[6] + b[7]
          + b[8] + b[9] + b[10] + b[11] + b[12] + b[13] + b[14] + b[15]
Shl(word, n) == {i + n : i \in word} \cap (0..31)
Flag(b) == IF b THEN 1 ELSE 0

(***************************************************************************)
(* The headers: word and bits of each field.                               *)
(***************************************************************************)
At(reg, lsb, msb) == [reg |-> reg, lsb |-> lsb, msb |-> msb]
Layout == [
    frac |-> At("clkdiv", 8, 15),          div |-> At("clkdiv", 16, 31),
    status_n |-> At("execctrl", 0, 3),     status_sel |-> At("execctrl", 4, 4),
    wrap_bottom |-> At("execctrl", 7, 11), wrap_top |-> At("execctrl", 12, 16),
    jmp_pin |-> At("execctrl", 24, 28),    side_pindir |-> At("execctrl", 29, 29),
    side_en |-> At("execctrl", 30, 30),
    autopush |-> At("shiftctrl", 16, 16),  autopull |-> At("shiftctrl", 17, 17),
    in_right |-> At("shiftctrl", 18, 18),  out_right |-> At("shiftctrl", 19, 19),
    push_thresh |-> At("shiftctrl", 20, 24), pull_thresh |-> At("shiftctrl", 25, 29),
    join |-> At("shiftctrl", 30, 31),
    out_base |-> At("pinctrl", 0, 4),      set_base |-> At("pinctrl", 5, 9),
    side_base |-> At("pinctrl", 10, 14),   in_base |-> At("pinctrl", 15, 19),
    out_count |-> At("pinctrl", 20, 25),   set_count |-> At("pinctrl", 26, 28),
    side_count |-> At("pinctrl", 29, 31)]

Mask(f) == Layout[f].lsb..Layout[f].msb

(* (value << lsb) & mask *)
FieldBits(f, value) == Shl(Bits(value), Layout[f].lsb) \cap Mask(f)

\* Mutant of Put: the old value of the fields is not masked out.
PutUnmasked(config, reg, fields) ==
    [config EXCEPT ![reg] =
        @ \cup UNION {FieldBits(f, fields[f]) : f \in DOMAIN fields}]

(* (word & ~masks) | ..., for the fields of one word that a builder sets.  *)
Put(config, reg, fields) ==
    [config EXCEPT ![reg] =
        (@ \ UNION {Mask(f) : f \in DOMAIN fields})
          \cup UNION {FieldBits(f, fields[f]) : f \in DOMAIN fields}]

(* pio_get_default_sm_config. *)
DefaultFields == [f \in DOMAIN Layout |->
    CASE f = "div" -> 1 [] f = "wrap_top" -> 31 [] f = "set_count" -> 5
      [] f \in {"in_right", "out_right"} -> 1 [] OTHER -> 0]
DefaultConfig == [clkdiv |-> {16}, execctrl |-> Shl(Bits(31), 12),
                  shiftctrl |-> {18, 19}, pinctrl |-> Shl(Bits(5), 26)]
----------------------------------------------------------------------------
\* Mutant of InstrAndArgs: arg2 loses its highest bit.
InstrAndArgsShort(opcode, arg1, arg2) ==
    Shl(Bits(opcode), 13) \cup Shl(Bits(arg1), 5) \cup (Bits(arg2) \cap 0..3)

(***************************************************************************)
(* Instructions: opcode in bits 13 to 15, arg1 from bit 5, arg2 in the     *)
(* five bits below.                                                        *)
(***************************************************************************)
InstrAndArgs(opcode, arg1, arg2) ==
    Shl(Bits(opcode), 13) \cup Shl(Bits(arg1), 5) \cup (Bits(arg2) \cap 0..4)

Rel(i) == (IF i.rel THEN 16 ELSE 0) + i.index

(* The encoders, one per kind of instruction; i is what the caller asks.   *)
Encode(i) ==
    CASE i.op = "jmp"  -> InstrAndArgs(0, i.cond, i.addr)
      [] i.op = "wait" -> InstrAndArgs(1, (IF i.polarity THEN 4 ELSE 0) + i.source,
                                       IF i.source = 2 THEN Rel(i) ELSE i.index)
      [] i.op = "in"   -> InstrAndArgs(2, i.source, i.count)
      [] i.op = "out"  -> InstrAndArgs(3, i.dest, i.count)
      [] i.op = "push" -> InstrAndArgs(4, 2 * Flag(i.cond) + Flag(i.block), 0)
      [] i.op = "pull" -> InstrAndArgs(4, 4 + 2 * Flag(i.cond) + Flag(i.block), 0)
      [] i.op = "mov"  -> InstrAndArgs(5, i.dest, 8 * i.fn + i.source)
      [] i.op = "irq"  -> InstrAndArgs(6, i.mode, Rel(i))
      [] i.op = "set"  -> InstrAndArgs(7, i.dest, i.data)
----------------------------------------------------------------------------
(***************************************************************************)
(* The hardware: slices of the configuration words, the decoder, and the   *)
(* split of the five delay and side-set bits.                              *)
(***************************************************************************)
Slice(word, lsb, msb) == Value({i - lsb : i \in word \cap (lsb..msb)})
HwField(config) == [
    div |-> Slice(config.clkdiv, 16, 31),
    jmp_pin |-> Slice(config.execctrl, 24, 28),
    wrap_top |-> Slice(config.execctrl, 12, 16),
    wrap_bottom |-> Slice(config.execctrl, 7, 11),
    side_en |-> Slice(config.execctrl, 30, 30),
    side_pindir |-> Slice(config.execctrl, 29, 29),
    autopull |-> Slice(config.shiftctrl, 17, 17),
    autopush |-> Slice(config.shiftctrl, 16, 16),
    pull_thresh |-> Slice(config.shiftctrl, 25, 29),
    push_thresh |-> Slice(config.shiftctrl, 20, 24),
    out_right |-> Slice(config.shiftctrl, 19, 19),
    in_right |-> Slice(config.shiftctrl, 18, 18),
    out_base |-> Slice(config.pinctrl, 0, 4),
    out_count |-> Slice(config.pinctrl, 20, 25),
    set_base |-> Slice(config.pinctrl, 5, 9),
    set_count |-> Slice(config.pinctrl, 26, 28),
    in_base |-> Slice(config.pinctrl, 15, 19),
    side_base |-> Slice(config.pinctrl, 10, 14),
    side_count |-> Slice(config.pinctrl, 29, 31)]

Or32(v) == IF v = 0 THEN 32 ELSE v     \* a threshold or count of 0 is 32
Decode(instr) ==
    LET opcode == Slice(instr, 13, 15)
        arg1 == Slice(instr, 5, 7)
        arg2 == Slice(instr, 0, 4)
        Bit(n) == n \in instr
    IN  CASE opcode = 0 -> [op |-> "jmp", cond |-> arg1, addr |-> arg2]
          [] opcode = 1 /\ Slice(instr, 5, 6) = 2 ->
                [op |-> "wait", polarity |-> Bit(7), source |-> 2,
                 index |-> Slice(instr, 0, 2), rel |-> Bit(4)]
          [] opcode = 1 /\ Slice(instr, 5, 6) # 2 ->
                [op |-> "wait", polarity |-> Bit(7), source |-> Slice(instr, 5, 6), index |-> arg2]
          [] opcode = 2 -> [op |-> "in", source |-> arg1, count |-> Or32(arg2)]
          [] opcode = 3 -> [op |-> "out", dest |-> arg1, count |-> Or32(arg2)]
          [] opcode = 4 -> [op |-> IF Bit(7) THEN "pull" ELSE "push", cond |-> Bit(6), block |-> Bit(5)]
          [] opcode = 5 -> [op |-> "mov", dest |-> arg1, fn |-> Slice(instr, 3, 4),
                            source |-> Slice(instr, 0, 2)]
          [] opcode = 6 -> [op |-> "irq", mode |-> IF Bit(5) THEN 1 ELSE IF Bit(6) THEN 2 ELSE 0,
                            index |-> Slice(instr, 0, 2), rel |-> Bit(4)]
          [] opcode = 7 -> [op |-> "set", dest |-> arg1, data |-> arg2]

NoSide == [set |-> FALSE]

(* The top side_count bits are side-set, the highest of them the enable    *)
(* when SIDE_EN is set; the rest is the delay.                             *)
HwSide(config, instr) ==
    LET count == HwField(config).side_count
        en == HwField(config).side_en
    IN  IF count \in 1..5 /\ (en = 1 => 12 \in instr)
        THEN [set |-> TRUE, value |-> Slice(instr, 13 - count, 12 - en)]
        ELSE NoSide
HwDelay(config, instr) ==
    LET count == HwField(config).side_count
    IN  Slice(instr, 8, IF count \in 1..5 THEN 12 - count ELSE 12)
=============================================================================
