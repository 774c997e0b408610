--------------------------- MODULE DmaAccelProofs ---------------------------
(* Proofs about DmaAccel, for every processing function, length and software. *)
EXTENDS DmaAccel, TLAPS

LEMMA WordArithmetic ==
    ASSUME NEW x \in Word, NEW y \in Word
    PROVE  Add(x, y) \in Word /\ Dec(x) \in Word
  BY AccelAssumption DEF Add, Dec, Word

LEMMA SmallWords == 0 \in Word /\ 1 \in Word
  BY AccelAssumption DEF Word

\* What appending does to a history.
LEMMA Appended ==
    ASSUME NEW S, NEW s \in Seq(S), NEW x \in S
    PROVE  /\ Append(s, x) \in Seq(S)
           /\ Len(Append(s, x)) = Len(s) + 1
           /\ Append(s, x)[Len(s) + 1] = x
           /\ \A i \in 1 .. Len(s) : Append(s, x)[i] = s[i]
  OBVIOUS

----------------------------------------------------------------------------
(* The assignments shared by several actions.                               *)

LEMMA TakeInType ==
    ASSUME TypeOK, NEW x \in Word, TakeIn(x), port' \in {"idle", "granted", "served"}
    PROVE  TypeOK'
  <1>1. Proc[x] \in Word
    BY AccelAssumption
  <1>2. taken' \in Seq(Word)
    BY Appended DEF TakeIn, TypeOK
  <1>3. QED
    BY <1>1, <1>2 DEF TakeIn, TypeOK, config, modes, status, States, OutStates

LEMMA PutOutType ==
    ASSUME TypeOK, NEW sink \in {"memory", "stream"}, NEW at \in Word,
           NEW isLast \in BOOLEAN, PutOut(sink, at, isLast),
           port' \in {"idle", "granted", "served"}, cur_dst' \in Word
    PROVE  TypeOK'
  <1>1. remaining' \in Word /\ cur_src' \in Word
    BY SmallWords, WordArithmetic DEF PutOut, Emitted, TypeOK
  <1>2. [sink |-> sink, at |-> at, data |-> proc_result, last |-> isLast] \in Output
    BY DEF TypeOK, Output
  <1>3. outputs' \in Seq(Output)
    BY <1>2, Appended DEF PutOut, Emitted, TypeOK
  <1>4. state' \in States /\ busy' \in BOOLEAN /\ done' \in BOOLEAN
    BY DEF PutOut, NextInput, status, States, TypeOK
  <1>5. QED
    BY <1>1, <1>3, <1>4 DEF PutOut, Emitted, TypeOK, config, modes

LEMMA StartType ==
    ASSUME TypeOK, NEW in \in BOOLEAN, NEW out \in BOOLEAN, Start(in, out) \/ StartEmpty
    PROVE  /\ state' \in States /\ busy' \in BOOLEAN /\ done' \in BOOLEAN
           /\ cur_src' \in Word /\ cur_dst' \in Word /\ remaining' \in Word
           /\ proc_result' \in Word
           /\ job' \in [src : Word, dst : Word, len : Word, in : BOOLEAN, out : BOOLEAN,
                        mem : [Word -> Word]]
           /\ taken' \in Seq(Word) /\ outputs' \in Seq(Output) /\ quiet' \in BOOLEAN
  <1>1. CASE Start(in, out)
    <2>1. /\ cur_src' \in Word /\ cur_dst' \in Word /\ remaining' \in Word
          /\ taken' = <<>> /\ outputs' = <<>> /\ quiet' = TRUE /\ proc_result' \in Word
      BY <1>1 DEF Start, TypeOK
    <2>2. state' \in States /\ busy' \in BOOLEAN /\ done' \in BOOLEAN
      BY <1>1 DEF Start, States
    <2>3. job' \in [src : Word, dst : Word, len : Word, in : BOOLEAN, out : BOOLEAN,
                    mem : [Word -> Word]]
      BY <1>1 DEF Start, TypeOK
    <2>4. QED
      BY <2>1, <2>2, <2>3
  <1>2. CASE StartEmpty
    BY <1>2 DEF StartEmpty, TypeOK, working, history
  <1>3. QED
    BY <1>1, <1>2

\* One step, action by action.
LEMMA TypeStep == TypeOK /\ [Next]_vars => TypeOK'
  <1> SUFFICES ASSUME TypeOK, [Next]_vars PROVE TypeOK'
    OBVIOUS
  <1> USE DEF bus, config, modes, status, working, history
  <1>1. ASSUME NEW v \in Sources, WriteSrcAddr(v) PROVE TypeOK'
    BY <1>1, AccelAssumption DEF WriteSrcAddr, TypeOK
  <1>2. ASSUME NEW v \in Destinations, WriteDstAddr(v) PROVE TypeOK'
    BY <1>2, AccelAssumption DEF WriteDstAddr, TypeOK
  <1>3. ASSUME NEW v \in Lengths, WriteLen(v) PROVE TypeOK'
    BY <1>3, AccelAssumption DEF WriteLen, TypeOK
  <1>4. ASSUME NEW b \in BOOLEAN, WriteIer(b) PROVE TypeOK'
    BY <1>4 DEF WriteIer, TypeOK
  <1>5. ASSUME NEW go \in BOOLEAN, NEW in \in BOOLEAN, NEW out \in BOOLEAN,
               WriteCtrl(go, in, out)
        PROVE  TypeOK'
    <2>1. CASE Start(in, out) \/ StartEmpty
      BY <1>5, <2>1, StartType DEF WriteCtrl, CtrlWrite, TypeOK
    <2>2. CASE NoStart
      BY <1>5, <2>2 DEF WriteCtrl, CtrlWrite, NoStart, TypeOK
    <2>3. QED
      BY <1>5, <2>1, <2>2 DEF WriteCtrl
  <1>6. CASE Grant
    BY <1>6 DEF Grant, Granted, TypeOK, States, OutStates
  <1>7. CASE Serve
    BY <1>7 DEF Serve, ServeRead, ServeWrite, TypeOK
  <1>8. CASE ReadDone
    BY <1>8, TakeInType DEF ReadDone, TypeOK
  <1>9. CASE WriteDone
    <2>1. cur_dst' \in Word
      BY <1>9, SmallWords, WordArithmetic DEF WriteDone, TypeOK
    <2>2. QED
      BY <1>9, <2>1, PutOutType DEF WriteDone, TypeOK
  <1>10. ASSUME NEW x \in StreamWords, StreamIn(x) PROVE TypeOK'
    BY <1>10, TakeInType, AccelAssumption DEF StreamIn, TypeOK
  <1>11. CASE StreamOut
    BY <1>11, SmallWords, PutOutType DEF StreamOut, TypeOK
  <1>12. CASE UNCHANGED vars
    BY <1>12 DEF vars, TypeOK
  <1>13. QED
    BY <1>1, <1>2, <1>3, <1>4, <1>5, <1>6, <1>7, <1>8, <1>9, <1>10, <1>11, <1>12
       DEF Next, Cpu, Upstream

LEMMA TypeInit == Init => TypeOK
  BY SmallWords, AccelAssumption DEF Init, TypeOK, States, Output

\* Every register keeps its type, for every software.
THEOREM TypeCorrect == Spec => []TypeOK
  BY TypeInit, TypeStep, PTL DEF Spec

----------------------------------------------------------------------------
(* The inductive invariant: the FSM state decides BUSY, DONE and the bus, and *)
(* the histories of inputs and outputs differ by the word inside the engine.  *)

IInv == TypeOK /\ StatusCoherent /\ WordsConserved

LEMMA StatusStep == TypeOK /\ StatusCoherent /\ [Next]_vars => StatusCoherent'
  <1> SUFFICES ASSUME TypeOK, StatusCoherent, [Next]_vars PROVE StatusCoherent'
    OBVIOUS
  <1> USE DEF bus, config, modes, status, working, history
  <1>1. ASSUME NEW v, \/ WriteSrcAddr(v) \/ WriteDstAddr(v) \/ WriteLen(v) \/ WriteIer(v)
        PROVE  StatusCoherent'
    BY <1>1 DEF WriteSrcAddr, WriteDstAddr, WriteLen, WriteIer, StatusCoherent
  <1>2. ASSUME NEW go, NEW in, NEW out, WriteCtrl(go, in, out) PROVE StatusCoherent'
    <2>1. CASE ~busy /\ state = "IDLE" /\ (Start(in, out) \/ StartEmpty)
      BY <1>2, <2>1 DEF WriteCtrl, CtrlWrite, Start, StartEmpty, StatusCoherent
    <2>2. CASE NoStart
      BY <1>2, <2>2 DEF WriteCtrl, CtrlWrite, NoStart, StatusCoherent
    <2>3. QED
      BY <1>2, <2>1, <2>2 DEF WriteCtrl
  <1>3. CASE Grant
    <2>1. /\ state \in {"RD_REQ", "WR_REQ"} /\ state' \in {"RD_WAIT", "WR_WAIT"}
          /\ port' = "granted" /\ busy' = busy /\ done' = done
      BY <1>3 DEF Grant, Granted
    <2>2. QED
      BY <2>1 DEF StatusCoherent
  <1>4. CASE Serve
    <2>1. /\ port = "granted" /\ port' = "served"
          /\ state' = state /\ busy' = busy /\ done' = done
      BY <1>4 DEF Serve, ServeRead, ServeWrite
    <2>2. QED
      BY <2>1 DEF StatusCoherent
  <1>5. ASSUME NEW x, TakeIn(x), port' = "idle", state # "IDLE" PROVE StatusCoherent'
    BY <1>5 DEF TakeIn, StatusCoherent
  <1>6. ASSUME NEW sink, NEW at, NEW last, PutOut(sink, at, last), port' = "idle",
               state # "IDLE"
        PROVE  StatusCoherent'
    BY <1>6 DEF PutOut, NextInput, StatusCoherent
  <1>7. CASE ReadDone \/ \E x \in StreamWords : StreamIn(x)
    BY <1>5, <1>7 DEF ReadDone, StreamIn, StatusCoherent
  <1>8. CASE WriteDone \/ StreamOut
    BY <1>6, <1>8 DEF WriteDone, StreamOut, StatusCoherent
  <1>9. CASE UNCHANGED vars
    BY <1>9 DEF vars, StatusCoherent
  <1>10. QED
    BY <1>1, <1>2, <1>3, <1>4, <1>7, <1>8, <1>9 DEF Next, Cpu, Upstream

LEMMA TakeInConserves ==
    ASSUME IInv, NEW x \in Word, TakeIn(x), state \in {"RD_WAIT", "STREAM_IN"}
    PROVE  WordsConserved'
  <1> USE DEF IInv, TypeOK, WordsConserved, OutStates
  <1>1. /\ outputs' = outputs /\ job' = job /\ remaining' = remaining /\ busy' = busy
        /\ state' \in OutStates /\ proc_result' = Proc[x]
    BY DEF TakeIn, status
  <1>2. /\ Len(taken') = Len(taken) + 1 /\ taken'[Len(taken) + 1] = x
        /\ \A i \in 1 .. Len(taken) : taken'[i] = taken[i]
    BY Appended DEF TakeIn
  <1>3. Len(taken) = Len(outputs)
    OBVIOUS
  <1>4. QED
    BY <1>1, <1>2, <1>3

LEMMA PutOutConserves ==
    ASSUME IInv, NEW sink \in {"memory", "stream"}, NEW at \in Word, NEW last \in BOOLEAN,
           PutOut(sink, at, last), state \in OutStates, busy
    PROVE  WordsConserved'
  <1> USE DEF IInv, TypeOK, WordsConserved
  <1>1. taken' = taken /\ job' = job /\ remaining' = Dec(remaining)
    BY DEF PutOut, Emitted
  <1> DEFINE o == [sink |-> sink, at |-> at, data |-> proc_result, last |-> last]
  <1>2. o \in Output /\ outputs' = Append(outputs, o)
    BY DEF PutOut, Emitted, Output
  <1>3. /\ Len(outputs') = Len(outputs) + 1 /\ outputs'[Len(outputs) + 1] = o
        /\ \A i \in 1 .. Len(outputs) : outputs'[i] = outputs[i]
    BY <1>2, Appended
  <1>4. Len(taken) = Len(outputs) + 1 /\ o.data = Proc[taken[Len(taken)]]
    OBVIOUS
  <1>5. /\ remaining \in 1 .. job.len /\ Dec(remaining) = remaining - 1
        /\ job.len \in Word /\ Len(outputs) \in Nat
    BY DEF Dec, Word
  <1>6. \A i \in 1 .. Len(outputs') : outputs'[i].data = Proc[taken'[i]]
    <2> SUFFICES ASSUME NEW i \in 1 .. Len(outputs) + 1
                 PROVE  outputs'[i].data = Proc[taken[i]]
      BY <1>1, <1>3
    <2>1. CASE i = Len(outputs) + 1
      BY <1>3, <1>4, <2>1
    <2>2. CASE i # Len(outputs) + 1
      <3>1. i \in 1 .. Len(outputs)
        BY <1>5, <2>2
      <3>2. QED
        BY <1>3, <3>1
    <2>3. QED
      BY <2>1, <2>2
  <1>7. Len(outputs') = job.len - (remaining - 1)
    BY <1>3, <1>5, AccelAssumption DEF Word
  <1>8. state' \notin OutStates
    BY DEF PutOut, NextInput, OutStates
  <1>9. CASE remaining = 1
    <2>1. ~busy'
      BY <1>9 DEF PutOut
    <2>2. Len(outputs') = job.len
      BY <1>5, <1>7, <1>9, AccelAssumption DEF Word
    <2>3. QED
      BY <1>1, <1>3, <1>4, <1>6, <1>8, <2>1, <2>2
  <1>10. CASE remaining # 1
    <2>1. busy' = busy
      BY <1>10 DEF PutOut, status
    <2>2. remaining - 1 \in 1 .. job.len
      <3>1. job.len \in Int
        BY <1>5, AccelAssumption DEF Word
      <3> HIDE DEF IInv, TypeOK, WordsConserved
      <3>2. QED
        BY <1>5, <1>10, <3>1
    <2>3. QED
      BY <1>1, <1>3, <1>4, <1>5, <1>6, <1>7, <1>8, <2>1, <2>2
  <1>11. QED
    BY <1>9, <1>10

LEMMA ConservedStep == IInv /\ [Next]_vars => WordsConserved'
  <1> SUFFICES ASSUME IInv, [Next]_vars PROVE WordsConserved'
    OBVIOUS
  <1> USE DEF bus, config, modes, status, working, history
  <1>1. ASSUME UNCHANGED <<busy, remaining, proc_result, job, taken, outputs>>,
               state \in OutStates <=> state' \in OutStates
        PROVE  WordsConserved'
    BY <1>1 DEF IInv, WordsConserved
  <1>2. ASSUME NEW v, \/ WriteSrcAddr(v) \/ WriteDstAddr(v) \/ WriteLen(v) \/ WriteIer(v)
        PROVE  WordsConserved'
    BY <1>1, <1>2 DEF WriteSrcAddr, WriteDstAddr, WriteLen, WriteIer
  <1>3. ASSUME NEW go, NEW in, NEW out, WriteCtrl(go, in, out) PROVE WordsConserved'
    <2>1. CASE ~busy /\ state = "IDLE" /\ Start(in, out)
      <3>1. /\ taken' = <<>> /\ outputs' = <<>> /\ busy' /\ state' \notin OutStates
            /\ remaining' = len /\ job'.len = len /\ len # 0
        BY <2>1 DEF Start, OutStates
      <3>2. len \in 1 .. len /\ len - len = 0
        BY <3>1, AccelAssumption DEF IInv, TypeOK, Word
      <3>3. QED
        BY <3>1, <3>2 DEF WordsConserved
    <2>2. CASE ~busy /\ state = "IDLE" /\ StartEmpty
      BY <1>1, <2>2 DEF StartEmpty
    <2>3. CASE NoStart
      BY <1>1, <2>3 DEF NoStart
    <2>4. QED
      BY <1>3, <2>1, <2>2, <2>3 DEF WriteCtrl
  <1>4. CASE Grant
    BY <1>1, <1>4 DEF Grant, Granted, OutStates
  <1>5. CASE Serve
    BY <1>1, <1>5 DEF Serve, ServeRead, ServeWrite
  <1>6. CASE ReadDone \/ \E x \in StreamWords : StreamIn(x)
    BY <1>6, TakeInConserves, AccelAssumption DEF ReadDone, StreamIn, IInv, TypeOK
  <1>7. CASE WriteDone \/ StreamOut
    BY <1>7, PutOutConserves, SmallWords
       DEF WriteDone, StreamOut, IInv, TypeOK, StatusCoherent, OutStates
  <1>8. CASE UNCHANGED vars
    BY <1>1, <1>8 DEF vars
  <1>9. QED
    BY <1>2, <1>3, <1>4, <1>5, <1>6, <1>7, <1>8 DEF Next, Cpu, Upstream

LEMMA IInvCorrect == Spec => []IInv
  <1>1. Init => IInv
    BY TypeInit DEF Init, IInv, StatusCoherent, WordsConserved, OutStates
  <1>2. IInv /\ [Next]_vars => IInv'
    BY TypeStep, StatusStep, ConservedStep DEF IInv
  <1>3. QED
    BY <1>1, <1>2, PTL DEF Spec

\* Whatever software writes to the registers and whenever, no word is lost,
\* repeated or reordered on its way through the engine, and LEN words leave it.
THEOREM WordsAreConserved == Spec => []WordsConserved
  BY IInvCorrect, PTL DEF IInv

\* BUSY, DONE and the outstanding request agree with the FSM.
THEOREM StatusIsCoherent == Spec => []StatusCoherent
  BY IInvCorrect, PTL DEF IInv

----------------------------------------------------------------------------
(***************************************************************************)
(* Places.  A transfer has fewer words than memory, so no two of its words *)
(* have the same place, and the arithmetic of the properties is that of    *)
(* the address counters.                                                   *)
(***************************************************************************)
Less(x, y) == IF x >= y THEN x - y ELSE x - y + Words

LEMMA Modulo ==
    ASSUME NEW x \in Word, NEW y \in Word
    PROVE  (x + y) % Words = Add(x, y) /\ (x - y) % Words = Less(x, y) /\ Less(x, y) \in Word
  <1>1. Words \in Nat /\ Words >= 2
    BY AccelAssumption
  <1>2. \A z \in Int : 0 <= z /\ z < Words => z % Words = z
    BY <1>1
  <1>3. \A z \in Int : Words <= z /\ z < 2 * Words => z % Words = z - Words
    BY <1>1
  <1>4. \A z \in Int : -Words <= z /\ z < 0 => z % Words = z + Words
    BY <1>1
  <1>5. /\ x \in Int /\ y \in Int /\ 0 <= x /\ x < Words /\ 0 <= y /\ y < Words
    BY <1>1 DEF Word
  <1>6. (x + y) % Words = Add(x, y)
    BY <1>1, <1>2, <1>3, <1>5 DEF Add
  <1>7. (x - y) % Words = Less(x, y)
    BY <1>1, <1>2, <1>4, <1>5 DEF Less
  <1>8. QED
    BY <1>1, <1>5, <1>6, <1>7 DEF Less, Word

(* Fewer than Words steps from a place never lead back to it. *)
LEMMA Onward ==
    ASSUME NEW x \in Word, NEW k \in Nat, k < Words
    PROVE  /\ Add(x, k) \in Word
           /\ k # 0 => Add(x, k) # x
           /\ k + 1 < Words => Add(x, k + 1) = Add(Add(x, k), 1)
  <1>1. Words \in Nat /\ Words >= 2 /\ x \in Nat /\ x < Words
    BY AccelAssumption DEF Word
  <1>2. QED
    BY <1>1 DEF Add, Word

(* The words written to memory lie below the destination of the next one,  *)
(* each at its own place, and a word that has been served is in memory.    *)
Behind(i, k) == Add(outputs[i].at, k) = cur_dst

PlaceInv ==
    /\ busy => \A i \in 1 .. Len(outputs) :
         outputs[i].sink = "memory" => \E k \in 1 .. Len(outputs) - i + 1 : Behind(i, k)
    /\ state = "WR_WAIT" /\ port = "served" => mem[cur_dst] = proc_result
    /\ MemoryHoldsOutputs

LEMMA InTransfer ==
    ASSUME IInv, busy
    PROVE  Len(outputs) \in 0 .. Words - 2
  <1>1. remaining \in 1 .. job.len /\ Len(outputs) = job.len - remaining
    BY DEF IInv, WordsConserved
  <1>2. job.len \in Word /\ Len(outputs) \in Nat
    BY DEF IInv, TypeOK
  <1>3. QED
    BY <1>1, <1>2, AccelAssumption DEF Word

LEMMA PlaceServeWrite ==
    ASSUME IInv, PlaceInv, ServeWrite
    PROVE  PlaceInv'
  <1>1. /\ busy /\ state = "WR_WAIT" /\ port' = "served"
        /\ mem' = [mem EXCEPT ![cur_dst] = proc_result]
        /\ UNCHANGED <<state, busy, cur_dst, proc_result, outputs>>
    BY DEF ServeWrite, IInv, StatusCoherent, status, working, history
  <1>2. mem \in [Word -> Word] /\ cur_dst \in Word /\ outputs \in Seq(Output)
    BY DEF IInv, TypeOK
  <1>3. ASSUME NEW i \in 1 .. Len(outputs), outputs[i].sink = "memory"
        PROVE  outputs[i].at # cur_dst /\ outputs[i].at \in Word
    <2>1. PICK k \in 1 .. Len(outputs) - i + 1 : Behind(i, k)
      BY <1>1, <1>3 DEF PlaceInv
    <2>2. k \in 1 .. Words - 2
      BY <1>1, <1>2, <2>1, InTransfer, AccelAssumption
    <2>3. outputs[i] \in Output
      BY <1>2
    <2>4. outputs[i].at \in Word
      BY <2>3 DEF Output
    <2>5. k \in Nat /\ k < Words /\ k # 0
      BY <2>2, AccelAssumption
    <2>6. QED
      BY <2>1, <2>4, <2>5, Onward DEF Behind
  <1>4. MemoryHoldsOutputs'
    BY <1>1, <1>2, <1>3 DEF PlaceInv, MemoryHoldsOutputs
  <1>5. QED
    BY <1>1, <1>2, <1>4 DEF PlaceInv, Behind

LEMMA PlacePutOut ==
    ASSUME IInv, PlaceInv, busy, state \in OutStates,
           NEW at \in Word, NEW last \in BOOLEAN, NEW sink \in {"memory", "stream"},
           PutOut(sink, at, last), port' = "idle",
           \/ sink = "memory" /\ at = cur_dst /\ cur_dst' = Add(cur_dst, 1) /\ mem[cur_dst] = proc_result
           \/ sink = "stream" /\ cur_dst' = cur_dst
    PROVE  PlaceInv'
  <1> DEFINE o == [sink |-> sink, at |-> at, data |-> proc_result, last |-> last]
             n == Len(outputs)
  <1>1. /\ outputs' = Append(outputs, o) /\ mem' = mem
        /\ outputs \in Seq(Output) /\ o \in Output /\ cur_dst \in Word
    BY DEF PutOut, Emitted, IInv, TypeOK, Output
  <1>2. /\ Len(outputs') = n + 1 /\ n \in 0 .. Words - 2 /\ n \in Nat /\ outputs'[n + 1] = o
        /\ \A i \in 1 .. n : outputs'[i] = outputs[i]
    BY <1>1, Appended, InTransfer
  <1>3. MemoryHoldsOutputs'
    <2>1. SUFFICES ASSUME NEW i \in 1 .. n + 1, outputs'[i].sink = "memory"
                   PROVE  mem[outputs'[i].at] = outputs'[i].data
      BY <1>1, <1>2 DEF MemoryHoldsOutputs
    <2>2. CASE i = n + 1
      <3>1. outputs'[i].sink = sink /\ outputs'[i].at = at /\ outputs'[i].data = proc_result
        BY <1>2, <2>2
      <3>2. QED
        BY <2>1, <3>1
    <2>3. CASE i \in 1 .. n
      BY <1>2, <2>1, <2>3 DEF PlaceInv, MemoryHoldsOutputs
    <2>4. QED
      BY <1>2, <2>2, <2>3
  <1>4. ASSUME NEW i \in 1 .. n + 1, outputs'[i].sink = "memory"
        PROVE  \E k \in 1 .. n + 1 - i + 1 : Add(outputs'[i].at, k) = cur_dst'
    <2>1. CASE i = n + 1
      <3>1. sink = "memory" /\ outputs'[i].at = at
        BY <1>2, <1>4, <2>1
      <3>2. Add(outputs'[i].at, 1) = cur_dst'
        BY <3>1
      <3>3. QED
        BY <1>2, <2>1, <3>2
    <2>2. CASE i \in 1 .. n
      <3>1. PICK k \in 1 .. n - i + 1 : Add(outputs[i].at, k) = cur_dst
        BY <1>2, <1>4, <2>2 DEF PlaceInv, Behind
      <3>2. outputs'[i] = outputs[i] /\ outputs[i].at \in Word
        <4>1. outputs[i] \in Output
          BY <1>1, <2>2
        <4>2. QED
          BY <1>2, <2>2, <4>1 DEF Output
      <3>3. k \in 1 .. Words - 2
        BY <1>2, <2>2, AccelAssumption
      <3>4. Add(outputs[i].at, k + 1) = Add(cur_dst, 1)
        <4>1. k \in Nat /\ k < Words /\ k + 1 < Words
          BY <3>3, AccelAssumption
        <4>2. QED
          BY <3>1, <3>2, <4>1, Onward
      <3>5. k \in 1 .. n + 1 - i + 1 /\ k + 1 \in 1 .. n + 1 - i + 1
        BY <1>2, <2>2
      <3>6. QED
        BY <3>1, <3>2, <3>4, <3>5
    <2>3. QED
      BY <1>2, <2>1, <2>2
  <1>5. state' # "WR_WAIT"
    BY DEF PutOut, NextInput
  <1>6. QED
    BY <1>2, <1>3, <1>4, <1>5 DEF PlaceInv, Behind

LEMMA PlaceStep == IInv /\ PlaceInv /\ [Next]_vars => PlaceInv'
  <1> SUFFICES ASSUME IInv, PlaceInv, [Next]_vars PROVE PlaceInv'
    OBVIOUS
  <1> USE DEF bus, config, modes, status, working, history
  <1>1. ASSUME UNCHANGED <<mem, outputs, cur_dst, proc_result>>, busy' => busy,
               state' = "WR_WAIT" /\ port' = "served" => state = "WR_WAIT" /\ port = "served"
        PROVE  PlaceInv'
    BY <1>1 DEF PlaceInv, Behind, MemoryHoldsOutputs
  <1>2. ASSUME NEW v, \/ WriteSrcAddr(v) \/ WriteDstAddr(v) \/ WriteLen(v) \/ WriteIer(v)
        PROVE  PlaceInv'
    BY <1>1, <1>2 DEF WriteSrcAddr, WriteDstAddr, WriteLen, WriteIer
  <1>3. ASSUME NEW go, NEW in, NEW out, WriteCtrl(go, in, out) PROVE PlaceInv'
    <2>1. CASE Start(in, out)
      <3>1. outputs' = <<>> /\ state' # "WR_WAIT"
        BY <2>1 DEF Start
      <3>2. QED
        BY <3>1 DEF PlaceInv, MemoryHoldsOutputs
    <2>2. CASE StartEmpty \/ NoStart
      BY <1>1, <1>3, <2>2 DEF WriteCtrl, CtrlWrite, StartEmpty, NoStart
    <2>3. QED
      BY <1>3, <2>1, <2>2 DEF WriteCtrl
  <1>4. CASE Grant
    BY <1>1, <1>4 DEF Grant, Granted
  <1>5. CASE ServeRead
    BY <1>1, <1>5 DEF ServeRead
  <1>6. CASE ReadDone \/ \E x \in StreamWords : StreamIn(x)
    <2>1. /\ UNCHANGED <<mem, outputs, cur_dst, busy>> /\ state' # "WR_WAIT"
      BY <1>6 DEF ReadDone, StreamIn, TakeIn
    <2>2. QED
      BY <2>1 DEF PlaceInv, Behind, MemoryHoldsOutputs
  <1>7. CASE WriteDone
    <2>1. /\ busy /\ state \in OutStates /\ cur_dst \in Word /\ mem[cur_dst] = proc_result
      BY <1>7 DEF WriteDone, IInv, StatusCoherent, TypeOK, OutStates, PlaceInv
    <2>2. QED
      BY <1>7, <2>1, PlacePutOut DEF WriteDone
  <1>8. CASE StreamOut
    <2>1. /\ busy /\ state \in OutStates /\ port = "idle" /\ (remaining = 1) \in BOOLEAN
      BY <1>8 DEF StreamOut, IInv, StatusCoherent, TypeOK, OutStates
    <2>2. QED
      BY <1>8, <2>1, SmallWords, PlacePutOut DEF StreamOut
  <1>9. CASE UNCHANGED vars
    BY <1>1, <1>9 DEF vars
  <1>10. QED
    BY <1>2, <1>3, <1>4, <1>5, <1>6, <1>7, <1>8, <1>9, PlaceServeWrite DEF Next, Cpu, Upstream, Serve

LEMMA PlaceInit == Init => PlaceInv
  BY DEF Init, PlaceInv, MemoryHoldsOutputs

(* Every word written to memory stays there for the rest of the transfer,  *)
(* wherever the buffers are and whatever software writes to CTRL meanwhile. *)
THEOREM OutputsStayInMemory == Spec => []MemoryHoldsOutputs
  <1>1. PlaceInv => MemoryHoldsOutputs
    BY DEF PlaceInv
  <1>2. QED
    BY <1>1, PlaceInit, PlaceStep, IInvCorrect, PTL DEF Spec

----------------------------------------------------------------------------
(***************************************************************************)
(* The source.  While software leaves CTRL alone, a transfer from memory   *)
(* keeps to the sides it was started with, its address counters are        *)
(* functions of the number of words put out, and memory differs from what  *)
(* it was at GO in just the places of these words.                         *)
(***************************************************************************)
Gap == Less(job.dst, job.src)
Expected(i) == IF ~job.out /\ Gap \in 1 .. i - 1
                 THEN Proc[taken[i - Gap]]
                 ELSE job.mem[Add(job.src, i - 1)]

Sides == {"RD_REQ", "RD_WAIT"} \cup (IF job.out THEN {"MAXIS_OUT"} ELSE {"WR_REQ", "WR_WAIT"})

Untouched(a) == /\ \A i \in 0 .. Len(outputs) - 1 : a # Add(job.dst, i)
                /\ ~(state = "WR_WAIT" /\ port = "served" /\ a = cur_dst)

RunInv ==
    /\ mode = FALSE /\ mode_out = job.out /\ state \in Sides
    /\ cur_src = Add(job.src, Len(outputs))
    /\ job.out => mem = job.mem
    /\ ~job.out =>
         /\ cur_dst = Add(job.dst, Len(outputs))
         /\ \A i \in 1 .. Len(outputs) : mem[Add(job.dst, i - 1)] = outputs[i].data
         /\ \A a \in Word : Untouched(a) => mem[a] = job.mem[a]
    /\ state = "RD_WAIT" /\ port = "served" => rdata = Expected(Len(taken) + 1)

SourceInv ==
    quiet /\ ~job.in =>
        /\ \A i \in 1 .. Len(taken) : taken[i] = Expected(i)
        /\ busy => RunInv

LEMMA JobTyped ==
    ASSUME IInv
    PROVE  /\ job.src \in Word /\ job.dst \in Word /\ job.len \in Word /\ Gap \in Word
           /\ job.in \in BOOLEAN /\ job.out \in BOOLEAN /\ job.mem \in [Word -> Word]
           /\ Len(taken) \in Nat /\ Len(outputs) \in Nat /\ Len(taken) < Words
           /\ taken \in Seq(Word) /\ outputs \in Seq(Output)
  <1>1. /\ job.src \in Word /\ job.dst \in Word /\ job.len \in Word
        /\ job.in \in BOOLEAN /\ job.out \in BOOLEAN /\ job.mem \in [Word -> Word]
        /\ taken \in Seq(Word) /\ outputs \in Seq(Output)
    BY DEF IInv, TypeOK
  <1>2. Gap \in Word
    BY <1>1, Modulo DEF Gap
  <1>3. Len(taken) < Words
    <2>1. /\ Len(taken) = Len(outputs) + (IF state \in OutStates THEN 1 ELSE 0)
          /\ busy => remaining \in 1 .. job.len
          /\ Len(outputs) = job.len - (IF busy THEN remaining ELSE 0)
          /\ busy <=> state # "IDLE"
      BY DEF IInv, WordsConserved, StatusCoherent
    <2>2. state \in OutStates => busy
      BY <2>1 DEF OutStates
    <2>3. /\ job.len \in Nat /\ job.len < Words /\ Words \in Nat
          /\ Len(taken) \in Nat /\ Len(outputs) \in Nat
      <3>1. job.len \in 0 .. Words - 1 /\ Words \in Nat
        BY <1>1, AccelAssumption DEF Word
      <3>2. Len(taken) \in Nat /\ Len(outputs) \in Nat
        BY <1>1
      <3>3. QED
        BY <3>1, <3>2
    <2>4. CASE busy
      <3>1. remaining \in Nat /\ remaining >= 1 /\ Len(outputs) = job.len - remaining
        BY <2>1, <2>3, <2>4
      <3>2. Len(taken) <= Len(outputs) + 1
        BY <2>1, <2>3
      <3>3. QED
        BY <2>3, <3>1, <3>2
    <2>5. CASE ~busy
      <3>1. Len(taken) = Len(outputs) + 0 /\ Len(outputs) = job.len - 0
        BY <2>1, <2>2, <2>5
      <3>2. QED
        BY <2>3, <3>1
    <2>6. QED
      BY <2>4, <2>5
  <1>4. QED
    BY <1>1, <1>2, <1>3

(* Where the n-th word of the source lies among the first n of the         *)
(* destination.                                                            *)
LEMMA Overlap ==
    ASSUME NEW x \in Word, NEW y \in Word, NEW n \in Nat, n < Words
    PROVE  /\ Less(y, x) \in 1 .. n => Add(x, n) = Add(y, n - Less(y, x))
           /\ \A i \in 0 .. n - 1 : Less(y, x) \notin 1 .. n => Add(x, n) # Add(y, i)
           /\ \A i \in 0 .. n - 1 : Add(y, i) # Add(y, n)
  <1>1. /\ Words \in Nat /\ Words >= 2
        /\ x \in Nat /\ x < Words /\ y \in Nat /\ y < Words
    BY AccelAssumption DEF Word
  <1>2. QED
    BY <1>1 DEF Add, Less

LEMMA ReadsExpected ==
    ASSUME IInv, SourceInv, quiet, ~job.in, state = "RD_WAIT", port # "served"
    PROVE  mem[cur_src] = Expected(Len(taken) + 1)
  <1> DEFINE n == Len(outputs)
  <1>1. busy /\ Len(taken) = n /\ n \in Nat /\ n < Words /\ RunInv
    <2>1. busy /\ Len(taken) = n
      BY DEF IInv, StatusCoherent, WordsConserved, OutStates
    <2>2. QED
      BY <2>1, JobTyped DEF SourceInv
  <1>2. cur_src = Add(job.src, n) /\ cur_src \in Word
    BY <1>1 DEF RunInv, IInv, TypeOK
  <1>3. (n + 1) - 1 = n
    BY <1>1
  <1>4. CASE job.out
    BY <1>1, <1>2, <1>3, <1>4 DEF RunInv, Expected
  <1>5. CASE ~job.out /\ Gap \in 1 .. n
    <2>1. cur_src = Add(job.dst, n - Gap)
      BY <1>1, <1>2, <1>5, JobTyped, Overlap DEF Gap
    <2>2. n + 1 - Gap \in 1 .. n /\ (n + 1 - Gap) - 1 = n - Gap
      BY <1>1, <1>5
    <2>3. mem[Add(job.dst, n - Gap)] = outputs[n + 1 - Gap].data
      BY <1>1, <1>5, <2>2 DEF RunInv
    <2>4. outputs[n + 1 - Gap].data = Proc[taken[n + 1 - Gap]]
      BY <2>2 DEF IInv, WordsConserved
    <2>5. QED
      BY <1>1, <1>3, <1>5, <2>1, <2>3, <2>4 DEF Expected
  <1>6. CASE ~job.out /\ Gap \notin 1 .. n
    <2>1. \A i \in 0 .. n - 1 : cur_src # Add(job.dst, i)
      BY <1>1, <1>2, <1>6, JobTyped, Overlap DEF Gap
    <2>2. Untouched(cur_src)
      BY <2>1 DEF Untouched
    <2>3. mem[cur_src] = job.mem[cur_src]
      BY <1>1, <1>2, <1>6, <2>2 DEF RunInv
    <2>4. QED
      BY <1>1, <1>2, <1>3, <1>6, <2>3 DEF Expected
  <1>7. QED
    BY <1>4, <1>5, <1>6

LEMMA SourceServe ==
    ASSUME IInv, PlaceInv, SourceInv, Serve
    PROVE  SourceInv'
  <1> SUFFICES ASSUME quiet, ~job.in
               PROVE  SourceInv'
    BY DEF SourceInv, Serve, ServeRead, ServeWrite, history
  <1> DEFINE n == Len(outputs)
  <1>1. /\ UNCHANGED <<mode, mode_out, state, busy, cur_src, cur_dst, proc_result>>
        /\ UNCHANGED <<job, taken, outputs, quiet>>
        /\ port' = "served" /\ port = "granted"
    BY DEF Serve, ServeRead, ServeWrite, modes, status, working, history
  <1>2. Expected(Len(taken) + 1)' = Expected(Len(taken) + 1) /\ Sides' = Sides
    BY <1>1 DEF Expected, Gap, Less, Sides
  <1>3. \A i \in 1 .. Len(taken') : taken'[i] = Expected(i)'
    BY <1>1 DEF SourceInv, Expected, Gap, Less
  <1>4. busy /\ RunInv
    BY DEF SourceInv, Serve, ServeRead, ServeWrite, IInv, StatusCoherent
  <1>5. CASE ServeRead
    <2>1. mem' = mem /\ rdata' = mem[cur_src] /\ state = "RD_WAIT"
      BY <1>5 DEF ServeRead
    <2>2. rdata' = Expected(Len(taken) + 1)
      BY <1>1, <2>1, ReadsExpected
    <2>3. \A a \in Word : Untouched(a)' => Untouched(a)
      BY <1>1, <2>1 DEF Untouched
    <2>4. RunInv'
      BY <1>1, <1>2, <1>4, <2>1, <2>2, <2>3 DEF RunInv
    <2>5. QED
      BY <1>3, <2>4 DEF SourceInv
  <1>6. CASE ServeWrite
    <2>1. mem' = [mem EXCEPT ![cur_dst] = proc_result] /\ state = "WR_WAIT"
      BY <1>6 DEF ServeWrite
    <2>2. ~job.out /\ cur_dst = Add(job.dst, n) /\ cur_dst \in Word /\ mem \in [Word -> Word]
      BY <1>4, <2>1 DEF RunInv, Sides, IInv, TypeOK
    <2>3. n \in Nat /\ n < Words
      BY <1>4, JobTyped, InTransfer, AccelAssumption
    <2>4. \A i \in 1 .. n : mem'[Add(job.dst, i - 1)] = outputs[i].data
      <3>1. SUFFICES ASSUME NEW i \in 1 .. n
                     PROVE  mem'[Add(job.dst, i - 1)] = outputs[i].data
        OBVIOUS
      <3>2. i - 1 \in 0 .. n - 1 /\ i - 1 \in Nat /\ i - 1 < Words
        BY <2>3, AccelAssumption
      <3>3. job.dst \in Word
        BY JobTyped
      <3>4. Add(job.dst, i - 1) # Add(job.dst, n)
        BY <2>3, <3>2, <3>3, Overlap
      <3>5. Add(job.dst, i - 1) \in Word
        BY <3>2, <3>3, Onward
      <3>6. mem'[Add(job.dst, i - 1)] = mem[Add(job.dst, i - 1)]
        BY <2>1, <2>2, <3>4, <3>5
      <3>7. QED
        BY <1>4, <2>2, <3>6 DEF RunInv
    <2>5. ASSUME NEW a \in Word, Untouched(a)'
          PROVE  mem'[a] = job.mem[a]
      <3>1. a # cur_dst /\ Untouched(a)
        BY <1>1, <2>1, <2>5 DEF Untouched
      <3>2. QED
        BY <1>4, <2>1, <2>2, <3>1 DEF RunInv
    <2>6. RunInv'
      BY <1>1, <1>2, <1>4, <2>1, <2>2, <2>4, <2>5 DEF RunInv, Add
    <2>7. QED
      BY <1>3, <2>6 DEF SourceInv
  <1>7. QED
    BY <1>5, <1>6 DEF Serve

LEMMA SourceReadDone ==
    ASSUME IInv, SourceInv, ReadDone
    PROVE  SourceInv'
  <1> SUFFICES ASSUME quiet, ~job.in
               PROVE  SourceInv'
    BY DEF SourceInv, ReadDone, TakeIn
  <1> DEFINE n == Len(taken)
  <1>1. /\ UNCHANGED <<mem, mode, mode_out, busy, cur_src, cur_dst, job, outputs, quiet>>
        /\ state = "RD_WAIT" /\ port = "served" /\ port' = "idle"
        /\ state' = IF mode_out THEN "MAXIS_OUT" ELSE "WR_REQ"
        /\ taken' = Append(taken, rdata)
    BY DEF ReadDone, TakeIn, modes, status
  <1>2. busy /\ RunInv
    BY <1>1 DEF SourceInv, IInv, StatusCoherent
  <1>3. rdata = Expected(n + 1)
    BY <1>1, <1>2 DEF RunInv
  <1>4. /\ n \in Nat /\ Len(taken') = n + 1 /\ taken'[n + 1] = rdata
        /\ \A i \in 1 .. n : taken'[i] = taken[i]
        /\ Gap \in Nat
    <2>1. taken \in Seq(Word) /\ rdata \in Word /\ Gap \in Word
      BY JobTyped DEF IInv, TypeOK
    <2>2. QED
      BY <1>1, <2>1, Appended, AccelAssumption DEF Word
  <1>5. \A i \in 1 .. n + 1 : Expected(i)' = Expected(i)
    <2>1. SUFFICES ASSUME NEW i \in 1 .. n + 1, Gap \in 1 .. i - 1
                   PROVE  taken'[i - Gap] = taken[i - Gap]
      BY <1>1 DEF Expected, Gap, Less
    <2>2. i - Gap \in 1 .. n
      BY <1>4, <2>1
    <2>3. QED
      BY <1>4, <2>2
  <1>6. \A i \in 1 .. Len(taken') : taken'[i] = Expected(i)'
    <2>1. SUFFICES ASSUME NEW i \in 1 .. n + 1
                   PROVE  taken'[i] = Expected(i)
      BY <1>4, <1>5
    <2>2. CASE i = n + 1
      BY <1>3, <1>4, <2>2
    <2>3. CASE i \in 1 .. n
      BY <1>4, <2>3 DEF SourceInv
    <2>4. QED
      BY <1>4, <2>2, <2>3
  <1>7. state' \in Sides' /\ state' \notin {"RD_WAIT", "WR_WAIT"}
    BY <1>1, <1>2 DEF RunInv, Sides
  <1>8. \A a \in Word : Untouched(a)' => Untouched(a)
    BY <1>1 DEF Untouched
  <1>9. RunInv'
    <2>1. /\ mode' = FALSE /\ mode_out' = job'.out
          /\ cur_src' = Add(job.src, Len(outputs))
          /\ job.out => mem = job.mem
          /\ ~job.out => cur_dst = Add(job.dst, Len(outputs))
      BY <1>1, <1>2 DEF RunInv
    <2>2. ~job.out => \A i \in 1 .. Len(outputs) : mem[Add(job.dst, i - 1)] = outputs[i].data
      BY <1>2 DEF RunInv
    <2>3. ~job.out => \A a \in Word : Untouched(a)' => mem[a] = job.mem[a]
      BY <1>2, <1>8 DEF RunInv
    <2>4. QED
      BY <1>1, <1>7, <2>1, <2>2, <2>3 DEF RunInv, Add
  <1>10. QED
    BY <1>6, <1>9 DEF SourceInv

LEMMA SourcePutOut ==
    ASSUME IInv, PlaceInv, SourceInv, WriteDone \/ StreamOut
    PROVE  SourceInv'
  <1> SUFFICES ASSUME quiet, ~job.in
               PROVE  SourceInv'
    BY DEF SourceInv, WriteDone, StreamOut, PutOut, Emitted
  <1> DEFINE n == Len(outputs)
  <1>1. /\ UNCHANGED <<mem, mode, mode_out, job, taken, quiet>>
        /\ cur_src' = Add(cur_src, 1)
        /\ \/ state' = "IDLE" /\ busy' = FALSE
           \/ state' = NextInput /\ busy' = busy
        /\ port' = "idle"
        /\ \E o : outputs' = Append(outputs, o) /\ o.data = proc_result
    <2>1. ASSUME NEW sink, NEW at, NEW isLast, PutOut(sink, at, isLast)
          PROVE  /\ UNCHANGED <<mem, mode, mode_out, job, taken, quiet>>
                 /\ cur_src' = Add(cur_src, 1)
                 /\ \/ state' = "IDLE" /\ busy' = FALSE
                    \/ state' = NextInput /\ busy' = busy
                 /\ \E o : outputs' = Append(outputs, o) /\ o.data = proc_result
      <3>1. /\ UNCHANGED <<mem, mode, mode_out, job, taken, quiet>>
            /\ cur_src' = Add(cur_src, 1)
            /\ \/ state' = "IDLE" /\ busy' = FALSE
               \/ state' = NextInput /\ busy' = busy
        BY <2>1 DEF PutOut, Emitted, modes, status
      <3>2. DEFINE o == [sink |-> sink, at |-> at, data |-> proc_result, last |-> isLast]
      <3>3. outputs' = Append(outputs, o)
        BY <2>1 DEF PutOut, Emitted
      <3>4. o.data = proc_result
        OBVIOUS
      <3>5. QED
        BY <3>1, <3>3, <3>4
    <2>2. port' = "idle"
      BY DEF WriteDone, StreamOut, IInv, StatusCoherent
    <2>3. QED
      BY <2>1, <2>2 DEF WriteDone, StreamOut
  <1>2. busy /\ RunInv
    <2>1. state # "IDLE"
      BY DEF WriteDone, StreamOut
    <2>2. QED
      BY <2>1 DEF IInv, StatusCoherent, SourceInv
  <1>3. \A i \in 1 .. Len(taken') : taken'[i] = Expected(i)'
    BY <1>1 DEF SourceInv, Expected, Gap, Less
  <1>4. SUFFICES ASSUME busy'
                 PROVE  RunInv'
    BY <1>3 DEF SourceInv
  <1>5. n \in Nat /\ n + 1 < Words /\ n < Words
    BY <1>2, InTransfer, AccelAssumption
  <1>6. /\ Len(outputs') = n + 1 /\ outputs'[n + 1].data = proc_result
        /\ \A i \in 1 .. n : outputs'[i] = outputs[i]
    BY <1>1, JobTyped
  <1>7. state' = "RD_REQ" /\ Sides' = Sides
    BY <1>1, <1>2, <1>4 DEF NextInput, RunInv, Sides
  <1>8. cur_src' = Add(job.src, n + 1)
    BY <1>1, <1>2, <1>5, JobTyped, Onward DEF RunInv
  <1>9. CASE job.out
    BY <1>1, <1>2, <1>6, <1>7, <1>8, <1>9 DEF RunInv, Sides
  <1>10. CASE ~job.out
    <2>1. state \in OutStates /\ state # "MAXIS_OUT"
      BY <1>2, <1>10 DEF RunInv, Sides, WriteDone, StreamOut, OutStates
    <2>2. WriteDone /\ cur_dst' = Add(cur_dst, 1) /\ mem[cur_dst] = proc_result
      BY <2>1 DEF WriteDone, StreamOut, PlaceInv
    <2>3. cur_dst = Add(job.dst, n) /\ cur_dst' = Add(job.dst, n + 1)
      BY <1>2, <1>5, <1>10, <2>2, JobTyped, Onward DEF RunInv
    <2>4. \A i \in 1 .. n + 1 : mem[Add(job.dst, i - 1)] = outputs'[i].data
      <3>1. SUFFICES ASSUME NEW i \in 1 .. n + 1
                     PROVE  mem[Add(job.dst, i - 1)] = outputs'[i].data
        OBVIOUS
      <3>2. CASE i = n + 1
        <4>1. i - 1 = n
          BY <1>5, <3>2
        <4>2. QED
          BY <1>6, <2>2, <2>3, <3>2, <4>1
      <3>3. CASE i \in 1 .. n
        <4>1. mem[Add(job.dst, i - 1)] = outputs[i].data
          BY <1>2, <1>10, <3>3 DEF RunInv
        <4>2. QED
          BY <1>6, <3>3, <4>1
      <3>4. QED
        BY <1>5, <3>2, <3>3
    <2>5. ASSUME NEW a \in Word, Untouched(a)'
          PROVE  mem[a] = job.mem[a]
      <3>1. \A i \in 0 .. n : a # Add(job.dst, i)
        <4>1. (n + 1) - 1 = n
          BY <1>5
        <4>2. QED
          BY <1>1, <1>6, <2>5, <4>1 DEF Untouched, Add
      <3>2. Untouched(a)
        <4>1. a # cur_dst /\ \A i \in 0 .. n - 1 : a # Add(job.dst, i)
          BY <1>5, <2>3, <3>1
        <4>2. QED
          BY <4>1 DEF Untouched
      <3>3. QED
        BY <1>2, <1>10, <3>2 DEF RunInv
    <2>6. /\ mode' = FALSE /\ mode_out' = job'.out /\ state' \in Sides' /\ ~job'.out
          /\ job' = job /\ mem' = mem
      BY <1>1, <1>2, <1>7, <1>10 DEF RunInv, Sides
    <2>7. cur_src' = Add(job.src, Len(outputs')) /\ cur_dst' = Add(job.dst, Len(outputs'))
      BY <1>6, <1>8, <2>3
    <2>8. \A i \in 1 .. Len(outputs') : mem[Add(job.dst, i - 1)] = outputs'[i].data
      BY <1>6, <2>4
    <2>9. QED
      BY <1>7, <2>5, <2>6, <2>7, <2>8 DEF RunInv, Add
  <1>11. QED
    BY <1>9, <1>10

LEMMA SourceStep == IInv /\ PlaceInv /\ SourceInv /\ [Next]_vars => SourceInv'
  <1> SUFFICES ASSUME IInv, PlaceInv, SourceInv, [Next]_vars PROVE SourceInv'
    OBVIOUS
  <1> USE DEF bus, config, modes, status, working, history
  <1>1. ASSUME UNCHANGED <<mem, rdata, mode, mode_out, cur_src, cur_dst, job, taken, outputs>>,
               quiet' => quiet, busy' => busy,
               busy => UNCHANGED <<state, port>>
        PROVE  SourceInv'
    <2>1. busy => (RunInv => RunInv')
      <3>1. busy => /\ Sides' = Sides /\ Expected(Len(taken) + 1)' = Expected(Len(taken) + 1)
                    /\ \A a \in Word : Untouched(a)' = Untouched(a)
        BY <1>1 DEF Sides, Expected, Gap, Less, Untouched
      <3>2. QED
        BY <1>1, <3>1 DEF RunInv
    <2>2. \A i \in 1 .. Len(taken) : Expected(i)' = Expected(i)
      BY <1>1 DEF Expected, Gap, Less
    <2>3. QED
      BY <1>1, <2>1, <2>2 DEF SourceInv
  <1>2. ASSUME NEW v, \/ WriteSrcAddr(v) \/ WriteDstAddr(v) \/ WriteLen(v) \/ WriteIer(v)
        PROVE  SourceInv'
    BY <1>1, <1>2 DEF WriteSrcAddr, WriteDstAddr, WriteLen, WriteIer
  <1>3. ASSUME NEW go \in BOOLEAN, NEW in \in BOOLEAN, NEW out \in BOOLEAN, WriteCtrl(go, in, out)
        PROVE  SourceInv'
    <2>1. CASE ~busy /\ Start(in, out)
      <3>1. /\ taken' = <<>> /\ outputs' = <<>> /\ mem' = mem /\ job'.mem = mem
            /\ job'.in = in /\ job'.out = out /\ job'.src = src_addr /\ job'.dst = dst_addr
            /\ mode' = in /\ mode_out' = out /\ cur_src' = src_addr /\ cur_dst' = dst_addr
            /\ state' = (IF in THEN "STREAM_IN" ELSE "RD_REQ")
        BY <1>3, <2>1 DEF WriteCtrl, CtrlWrite, Start
      <3>2. Add(src_addr, 0) = src_addr /\ Add(dst_addr, 0) = dst_addr
        BY AccelAssumption DEF IInv, TypeOK, Add, Word
      <3>3. ~in => RunInv'
        BY <3>1, <3>2 DEF RunInv, Sides, Add
      <3>4. QED
        BY <3>1, <3>3 DEF SourceInv
    <2>2. CASE ~busy /\ (StartEmpty \/ NoStart)
      <3>1. /\ UNCHANGED <<job, taken>> /\ ~busy' /\ (quiet' => quiet)
        <4>1. CASE StartEmpty
          BY <2>2, <4>1 DEF StartEmpty
        <4>2. CASE NoStart
          BY <2>2, <4>2 DEF NoStart
        <4>3. QED
          BY <2>2, <4>1, <4>2
      <3>2. \A i \in 1 .. Len(taken) : Expected(i)' = Expected(i)
        BY <3>1 DEF Expected, Gap, Less
      <3>3. QED
        BY <3>1, <3>2 DEF SourceInv
    <2>3. CASE busy /\ NoStart
      BY <2>3 DEF NoStart, SourceInv
    <2>4. QED
      BY <1>3, <2>1, <2>2, <2>3 DEF WriteCtrl
  <1>4. CASE Grant
    <2>1. /\ UNCHANGED <<mem, rdata, mode, mode_out, cur_src, cur_dst, job, taken, outputs, quiet, busy>>
          /\ port' = "granted"
          /\ \/ state = "RD_REQ" /\ state' = "RD_WAIT"
             \/ state = "WR_REQ" /\ state' = "WR_WAIT"
      BY <1>4 DEF Grant, Granted
    <2>2. port = "idle" /\ busy
      BY <2>1 DEF IInv, TypeOK, StatusCoherent
    <2>3. RunInv => RunInv'
      <3>1. /\ Sides' = Sides
            /\ \A a \in Word : Untouched(a)' = Untouched(a)
        BY <2>1, <2>2 DEF Sides, Untouched
      <3>2. RunInv => state' \in Sides'
        BY <2>1 DEF RunInv, Sides
      <3>3. QED
        BY <2>1, <3>1, <3>2 DEF RunInv
    <2>4. \A i \in 1 .. Len(taken) : Expected(i)' = Expected(i)
      BY <2>1 DEF Expected, Gap, Less
    <2>5. QED
      BY <2>1, <2>2, <2>3, <2>4 DEF SourceInv
  <1>5. ASSUME NEW x \in StreamWords, StreamIn(x) PROVE SourceInv'
    <2>1. ~(quiet /\ ~job.in)
      <3>1. busy /\ state = "STREAM_IN"
        BY <1>5 DEF StreamIn, IInv, StatusCoherent
      <3>2. QED
        BY <3>1 DEF SourceInv, RunInv, Sides
    <2>2. QED
      BY <1>5, <2>1 DEF StreamIn, TakeIn, SourceInv
  <1>6. CASE UNCHANGED vars
    BY <1>1, <1>6 DEF vars
  <1>7. QED
    BY <1>2, <1>3, <1>4, <1>5, <1>6, SourceServe, SourceReadDone, SourcePutOut
       DEF Next, Cpu, Upstream

LEMMA SourceInit == Init => SourceInv
  BY DEF Init, SourceInv

(* A transfer from memory whose CTRL software leaves alone takes in the    *)
(* source as it was at GO, and its own outputs where the destination       *)
(* overlaps it from above: for every size of memory, length and function.  *)
THEOREM InputsAreFromSource == Spec => []InputsFromSource
  <1>1. ASSUME IInv, SourceInv
        PROVE  InputsFromSource
    <2>1. SUFFICES ASSUME quiet, ~job.in, NEW i \in 1 .. Len(taken)
                   PROVE  taken[i] = IF ~job.out /\ (job.dst - job.src) % Words \in 1 .. i - 1
                                       THEN Proc[taken[i - ((job.dst - job.src) % Words)]]
                                       ELSE job.mem[(job.src + i - 1) % Words]
      BY DEF InputsFromSource
    <2>2. (job.dst - job.src) % Words = Gap
      BY <1>1, JobTyped, Modulo DEF Gap
    <2>3. i - 1 \in Word /\ job.src + i - 1 = job.src + (i - 1)
      BY <1>1, JobTyped, AccelAssumption DEF Word
    <2>4. (job.src + i - 1) % Words = Add(job.src, i - 1)
      BY <1>1, <2>3, JobTyped, Modulo
    <2>5. taken[i] = Expected(i)
      BY <1>1, <2>1 DEF SourceInv
    <2>6. QED
      BY <2>2, <2>4, <2>5 DEF Expected
  <1>2. QED
    BY <1>1, PlaceInit, PlaceStep, SourceInit, SourceStep, IInvCorrect, PTL DEF Spec
----------------------------------------------------------------------------
(***************************************************************************)
(* The destination.  The words left tell whether the next one is the last; *)
(* while software leaves CTRL alone, the output side is that of GO and the *)
(* destination counter a function of the number of words put out.          *)
(***************************************************************************)
LastMarked(i) == outputs[i].sink = "stream" => (outputs[i].last <=> i = job.len)

Routed(i) == IF job.out THEN outputs[i].sink = "stream"
             ELSE outputs[i].sink = "memory" /\ outputs[i].at = Add(job.dst, i - 1)

Heading ==
    /\ mode_out = job.out
    /\ state \in OutStates => (state = "MAXIS_OUT" <=> job.out)
    /\ ~job.out => cur_dst = Add(job.dst, Len(outputs))

RouteInv ==
    /\ \A i \in 1 .. Len(outputs) : LastMarked(i)
    /\ quiet => \A i \in 1 .. Len(outputs) : Routed(i)
    /\ quiet /\ busy => Heading

LEMMA RoutePutOut ==
    ASSUME IInv, RouteInv, WriteDone \/ StreamOut
    PROVE  RouteInv'
  <1> DEFINE n == Len(outputs)
  <1>1. /\ UNCHANGED <<mode_out, job, quiet>> /\ busy /\ state \in OutStates
        /\ outputs \in Seq(Output) /\ remaining \in 1 .. job.len /\ n = job.len - remaining
        /\ job.len \in Nat
    <2>1. UNCHANGED <<mode_out, job, quiet>> /\ state \in OutStates
      BY DEF WriteDone, StreamOut, PutOut, Emitted, modes, OutStates
    <2>2. busy
      BY <2>1 DEF IInv, StatusCoherent, OutStates
    <2>3. QED
      BY <2>1, <2>2, JobTyped, AccelAssumption DEF IInv, WordsConserved, Word
  <1>2. PICK o \in Output :
           /\ outputs' = Append(outputs, o)
           /\ \/ WriteDone /\ o.sink = "memory" /\ o.at = cur_dst
              \/ StreamOut /\ o.sink = "stream" /\ (o.last <=> remaining = 1)
    <2>1. CASE WriteDone
      <3> DEFINE o == [sink |-> "memory", at |-> cur_dst, data |-> proc_result, last |-> FALSE]
      <3>1. o \in Output
        BY DEF IInv, TypeOK, Output
      <3>2. outputs' = Append(outputs, o)
        BY <2>1 DEF WriteDone, PutOut, Emitted
      <3>3. QED
        BY <2>1, <3>1, <3>2
    <2>2. CASE StreamOut
      <3> DEFINE o == [sink |-> "stream", at |-> 0, data |-> proc_result,
                       last |-> (remaining = 1)]
      <3>1. o \in Output
        BY SmallWords DEF IInv, TypeOK, Output
      <3>2. outputs' = Append(outputs, o)
        BY <2>2 DEF StreamOut, PutOut, Emitted
      <3>3. o.sink = "stream" /\ (o.last <=> remaining = 1)
        OBVIOUS
      <3>4. QED
        BY <2>2, <3>1, <3>2, <3>3
    <2>3. QED
      BY <2>1, <2>2
  <1>3. /\ Len(outputs') = n + 1 /\ outputs'[n + 1] = o /\ n \in Nat
        /\ \A i \in 1 .. n : outputs'[i] = outputs[i]
    BY <1>1, <1>2, Appended
  <1>4. \A i \in 1 .. n + 1 : i \in 1 .. n \/ i = n + 1
    BY <1>3
  <1>5. \A i \in 1 .. Len(outputs') : LastMarked(i)'
    <2>1. o.sink = "stream" => (o.last <=> n + 1 = job.len)
      <3>1. remaining = 1 <=> n + 1 = job.len
        BY <1>1
      <3>2. QED
        BY <1>2, <3>1 DEF WriteDone, StreamOut
    <2>2. QED
      BY <1>1, <1>3, <1>4, <2>1 DEF RouteInv, LastMarked
  <1>6. ASSUME quiet
        PROVE  /\ \A i \in 1 .. Len(outputs') : Routed(i)'
               /\ busy' => Heading'
    <2>1. Heading
      BY <1>1, <1>6 DEF RouteInv
    <2>2. WriteDone <=> ~job.out
      BY <1>1, <2>1 DEF Heading, WriteDone, StreamOut
    <2>3. IF job.out THEN o.sink = "stream" ELSE o.sink = "memory" /\ o.at = Add(job.dst, n)
      BY <1>2, <2>1, <2>2 DEF Heading, WriteDone, StreamOut
    <2>4. \A i \in 1 .. n + 1 : Routed(i)'
      <3>1. (n + 1) - 1 = n
        BY <1>3
      <3>2. QED
        BY <1>1, <1>3, <1>4, <1>6, <2>3, <3>1 DEF RouteInv, Routed, Add
    <2>5. ~job.out => cur_dst' = Add(job.dst, n + 1)
      <3>1. n + 1 < Words
        BY <1>1, InTransfer, AccelAssumption
      <3>2. ~job.out => cur_dst = Add(job.dst, n) /\ cur_dst' = Add(cur_dst, 1)
        BY <2>1, <2>2 DEF Heading, WriteDone
      <3>3. QED
        BY <1>3, <3>1, <3>2, JobTyped, Onward, AccelAssumption
    <2>6. state' \notin OutStates
      BY DEF WriteDone, StreamOut, PutOut, NextInput, OutStates
    <2>7. mode_out' = job'.out
      BY <1>1, <2>1 DEF Heading
    <2>8. QED
      BY <1>1, <1>3, <2>4, <2>5, <2>6, <2>7 DEF Heading, Add
  <1>7. QED
    BY <1>1, <1>5, <1>6 DEF RouteInv

LEMMA RouteStep == IInv /\ RouteInv /\ [Next]_vars => RouteInv'
  <1> SUFFICES ASSUME IInv, RouteInv, [Next]_vars PROVE RouteInv'
    OBVIOUS
  <1> USE DEF bus, config, modes, status, working, history
  <1>1. ASSUME UNCHANGED <<job, outputs>>, quiet' => quiet, busy' => busy,
               busy' /\ quiet' /\ Heading => Heading'
        PROVE  RouteInv'
    BY <1>1 DEF RouteInv, LastMarked, Routed, Add
  <1>2. ASSUME NEW v, \/ WriteSrcAddr(v) \/ WriteDstAddr(v) \/ WriteLen(v) \/ WriteIer(v)
        PROVE  RouteInv'
    BY <1>1, <1>2 DEF WriteSrcAddr, WriteDstAddr, WriteLen, WriteIer, Heading, Add
  <1>3. ASSUME NEW go, NEW in, NEW out, WriteCtrl(go, in, out) PROVE RouteInv'
    <2>1. CASE ~busy /\ Start(in, out)
      <3>1. /\ outputs' = <<>> /\ job'.out = out /\ job'.dst = dst_addr
            /\ mode_out' = out /\ cur_dst' = dst_addr /\ state' \notin OutStates
        BY <1>3, <2>1 DEF WriteCtrl, CtrlWrite, Start, OutStates
      <3>2. Add(dst_addr, 0) = dst_addr
        BY AccelAssumption DEF IInv, TypeOK, Add, Word
      <3>3. QED
        BY <3>1, <3>2 DEF RouteInv, Heading, Add
    <2>2. CASE ~busy /\ StartEmpty
      BY <1>1, <2>2 DEF StartEmpty
    <2>3. CASE NoStart
      BY <1>1, <2>3 DEF NoStart
    <2>4. QED
      BY <1>3, <2>1, <2>2, <2>3 DEF WriteCtrl
  <1>4. CASE Grant
    BY <1>1, <1>4 DEF Grant, Granted, Heading, OutStates, Add
  <1>5. CASE Serve
    BY <1>1, <1>5 DEF Serve, ServeRead, ServeWrite, Heading, Add
  <1>6. CASE ReadDone \/ \E x \in StreamWords : StreamIn(x)
    BY <1>1, <1>6 DEF ReadDone, StreamIn, TakeIn, Heading, OutStates, Add
  <1>7. CASE UNCHANGED vars
    BY <1>1, <1>7 DEF vars, Heading, Add
  <1>8. QED
    BY <1>2, <1>3, <1>4, <1>5, <1>6, <1>7, RoutePutOut DEF Next, Cpu, Upstream

(* TLAST marks the last word of a transfer, whatever software writes to    *)
(* CTRL meanwhile; if it leaves CTRL alone, all words leave on the side of *)
(* GO, those to memory to consecutive places: for every size and length.   *)
THEOREM OutputsArePlaced == Spec => []OutputsPlaced
  <1>1. Init => RouteInv
    BY DEF Init, RouteInv
  <1>2. ASSUME IInv, RouteInv
        PROVE  OutputsPlaced
    <2>1. ASSUME NEW i \in 1 .. Len(outputs)
          PROVE  (job.dst + i - 1) % Words = Add(job.dst, i - 1)
      <3>1. i - 1 \in Word /\ job.dst + i - 1 = job.dst + (i - 1)
        <4>1. /\ job.dst \in Nat /\ Len(outputs) \in Nat /\ Words \in Nat
              /\ Len(outputs) <= Len(taken) /\ Len(taken) < Words
          <5>1. /\ job.dst \in Word /\ Len(outputs) \in Nat /\ Len(taken) \in Nat
                /\ Len(taken) < Words
            BY <1>2, JobTyped
          <5>2. Len(outputs) <= Len(taken)
            BY <1>2, <5>1 DEF IInv, WordsConserved
          <5>3. QED
            BY <5>1, <5>2, AccelAssumption DEF Word
        <4>2. QED
          BY <2>1, <4>1 DEF Word
      <3>2. QED
        BY <1>2, <3>1, JobTyped, Modulo
    <2>2. QED
      BY <1>2, <2>1 DEF OutputsPlaced, RouteInv, LastMarked, Routed
  <1>3. QED
    BY <1>1, <1>2, RouteStep, IInvCorrect, PTL DEF Spec
=============================================================================
