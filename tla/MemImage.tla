------------------------------ MODULE MemImage ------------------------------
(***************************************************************************)
(* How the simulator fills its memories before the first cycle: the        *)
(* registry of memory areas, the command line of VerilatorMemUtil, the     *)
(* staging of an ELF file segment by segment, and the writing of the       *)
(* staged bytes (src/hw/ip/dv_verilator/cpp).  Bytes are small numbers; an *)
(* address is a number below Space, the 2^32 of the code.                  *)
(***************************************************************************)
EXTENDS Naturals, Sequences, FiniteSetsExt

CONSTANTS Space,       \* addresses
          Width,       \* bytes of a memory word
          Candidates,  \* areas callers try to register: [name, base, words, present]
          Files,       \* [ext, class, segs] or [ext, class, words]
          Names,       \* names that --meminit and its relatives are given
          MaxTries,    \* bound on the calls of RegisterMemoryArea
          MaxLoads     \* bound on the load options of a command line

(* Program headers: cut is set where the file ends before the segment.  *)
Header == [load : BOOLEAN, addr : 0..(Space - 1), data : Seq(Nat), cut : BOOLEAN]

(* The simulator reads a vmem file word by word. *)
ASSUME MemAssumption ==
    /\ Space \in Nat \ {0} /\ Width \in Nat \ {0} /\ MaxTries \in Nat /\ MaxLoads \in Nat
    /\ \A a \in Candidates : /\ a.words \in Nat /\ a.base \in 0..(Space - 1)
                            /\ a.words * Width \in 1..Space
    /\ \A f \in Files : f.class = "elf" => f.segs \in Seq(Header)
    /\ \A f \in Files : f.class = "vmem" => f.bytes \in Seq(Nat) /\ Len(f.bytes) % Width = 0

VARIABLES
    areas,   \* mem_areas_, base_addrs_ and names_
    names,   \* name_to_mem_
    ranges,  \* addr_to_mem_
    tries,   \* calls of RegisterMemoryArea so far
    mem,     \* contents of each area, by byte
    phase,   \* where the program is, or how it ended
    loads,   \* load_args not performed yet
    staged,  \* staging_area_: the segments of each area
    segs,    \* program headers of the file being staged still to come
    writes,  \* staged segments still to be written
    image    \* history: what each area should hold after the loads so far

vars == <<areas, names, ranges, tries, mem, phase, loads, staged, segs, writes, image>>
----------------------------------------------------------------------------
(***************************************************************************)
(* Ranged maps: sets of entries whose ranges are disjoint, found by their  *)
(* lowest address.                                                         *)
(***************************************************************************)
Hi(seg) == seg.lo + Len(seg.data) - 1

(* Bytes of the newer segment win. *)
MergeSegments(old, new) ==
    IF new.lo <= old.lo /\ Hi(old) <= Hi(new) THEN new
    ELSE IF new.lo <= old.lo
    THEN [new EXCEPT !.data = @ \o SubSeq(old.data, Hi(new) - old.lo + 2, Len(old.data))]
    ELSE [old EXCEPT !.data = SubSeq(@, 1, new.lo - old.lo) \o new.data
                                \o SubSeq(@, Hi(new) - old.lo + 2, Len(@))]

(* Older segments that a newer one touches are merged into it one after    *)
(* the other, from the lowest up.                                          *)
Merged(new, hits) ==
    LET acc[a \in Nat] ==
          IF a = 0 THEN new
          ELSE LET at == {e \in hits : e.lo = a - 1}
               IN  IF at = {} THEN acc[a - 1]
                   ELSE MergeSegments(CHOOSE e \in at : TRUE, acc[a - 1])
    IN  acc[Space]

\* Mutant of Emplace: the entries above the new one are not looked for.
EmplaceLeft(map, new) ==
    LET left == {e \in map : e.lo <= new.lo /\ new.lo <= Hi(e)}
    IN  (map \ left) \cup {Merged(new, left)}

(* The entries that touch the new one are found from both sides of its     *)
(* lowest address.                                                         *)
Emplace(map, new) ==
    LET right == {e \in map : e.lo > new.lo /\ e.lo <= Hi(new)}
        left == {e \in map : e.lo <= new.lo
                   /\ \A f \in map : f.lo \in e.lo..new.lo => new.lo <= Hi(f)}
    IN  (map \ (left \cup right)) \cup {Merged(new, left \cup right)}

AddSegment(map, offset, data) ==
    IF data = <<>> THEN map ELSE Emplace(map, [lo |-> offset, data |-> data])

(* StagedMem::GetFlat: from the lowest byte to the highest, gaps zero. *)
Flat(map) ==
    IF map = {} THEN <<>>
    ELSE LET low == Min({e.lo : e \in map})
         IN  [i \in 1..(Max({Hi(e) : e \in map}) - low + 1) |->
                LET at == {e \in map : low + i - 1 \in e.lo..Hi(e)}
                IN  IF at = {} THEN 0 ELSE LET e == CHOOSE e \in at : TRUE
                                           IN  e.data[low + i - e.lo]]

(* RangedMap::find: the last entry that starts at or before the address.   *)
Find(addr) ==
    LET below == {r \in ranges : r.lo <= addr}
    IN  {r \in below : addr <= r.hi /\ \A q \in below : q.lo <= r.lo}

\* Mutant of Clash: only the neighbour on the left is looked at.
ClashLeft(lo, hi) == Find(lo)

(* RangedMap::EmplaceDisjoint: the neighbour on the right, then the one on *)
(* the left.                                                               *)
Clash(lo, hi) ==
    LET right == {r \in ranges : r.lo > lo /\ \A q \in ranges : q.lo > lo => r.lo <= q.lo}
        hit == {r \in right : r.lo <= hi}
    IN  IF hit # {} THEN hit ELSE Find(lo)
----------------------------------------------------------------------------
(***************************************************************************)
(* Registration.                                                           *)
(***************************************************************************)
Size(a) == a.words * Width
Unwritten == 9
Fresh(a) == [o \in 0..(Size(a) - 1) |-> Unwritten]

(* RegisterMemoryArea.  An overflow, a name in use and an overlap throw,   *)
(* and the caller goes on; but the overlap is first asserted to be with an *)
(* area whose index is not 0.                                              *)
Register(a) ==
    LET top == (a.base + Size(a) - 1) % Space
        clash == Clash(a.base, top)
    IN  /\ phase = "register" /\ tries < MaxTries
        /\ tries' = tries + 1
        /\ IF top < a.base \/ a.name \in DOMAIN names \/ clash # {}
           THEN /\ phase' = IF top >= a.base /\ a.name \notin DOMAIN names
                               /\ \E r \in clash : r.index = 0
                            THEN "aborted" ELSE phase
                /\ UNCHANGED <<areas, names, ranges, mem, staged, image>>
           ELSE /\ names' = [n \in DOMAIN names \cup {a.name} |->
                               IF n = a.name THEN Len(areas) ELSE names[n]]
                /\ ranges' = ranges \cup {[lo |-> a.base, hi |-> top, index |-> Len(areas)]}
                /\ areas' = Append(areas, a)
                /\ mem' = Append(mem, Fresh(a))
                /\ image' = Append(image, Fresh(a))
                /\ staged' = Append(staged, {})
                /\ UNCHANGED phase
        /\ UNCHANGED <<loads, segs, writes>>
----------------------------------------------------------------------------
(***************************************************************************)
(* The command line.  Loads are collected and performed in order once all  *)
(* of it has been read.                                                    *)
(***************************************************************************)
registry == <<areas, names, ranges, tries>>
loading == <<mem, staged, segs, writes, image>>

Types == {"elf", "vmem"}

Collect(load) == /\ phase \in {"register", "parse"} /\ Len(loads) < MaxLoads
                 /\ phase' = "parse"
                 /\ loads' = Append(loads, load)
                 /\ UNCHANGED <<registry, loading>>

Return(how) == phase' = how /\ UNCHANGED <<registry, loads, loading>>

(* A file without an extension is taken for an ELF file. *)
Detected(f) == IF f.ext = "" THEN "elf" ELSE f.ext

(* --rominit, --raminit, --flashinit, --otpinit: the type is found out     *)
(* when the file is loaded.                                                *)
InitOption(n, f) == Collect([name |-> n, file |-> f, type |-> Detected(f)])

(* --load-elf. *)
ElfOption(f) == Collect([name |-> "", file |-> f, type |-> "elf"])

(* --meminit=name,file[,type].  A type that has no meaning throws while    *)
(* the command line is read, where nothing catches it.  (The simulator's   *)
(* reader is only given files it can read.)                                *)
MemOption(n, f, given) ==
    LET type == IF given = "" THEN Detected(f) ELSE given
    IN  /\ type = "vmem" => f.class = "vmem"
        /\ IF type \in Types THEN Collect([name |-> n, file |-> f, type |-> type])
           ELSE phase \in {"register", "parse"} /\ Return("terminated")

(* --meminit=list, --help, and a missing or malformed argument. *)
LeaveOption(how) == /\ phase \in {"register", "parse"}
                    /\ how \in {"listed", "loaded", "refused"}
                    /\ Return(how)

Begin == phase = "parse" /\ Return("load")

Finish == phase = "load" /\ loads = <<>> /\ Return("loaded")
----------------------------------------------------------------------------
(***************************************************************************)
(* Memory areas.                                                           *)
(***************************************************************************)
Words(data) == (Len(data) + Width - 1) \div Width

(* MemArea::Write: whole words, the last one filled up with zeros. *)
Written(bytes, word, data) ==
    [o \in DOMAIN bytes |->
        IF o \notin (word * Width)..((word + Words(data)) * Width - 1) THEN bytes[o]
        ELSE IF o < word * Width + Len(data) THEN data[o - word * Width + 1] ELSE 0]
----------------------------------------------------------------------------
(***************************************************************************)
(* Loads into a named memory.                                              *)
(***************************************************************************)
Current == Head(loads)
IsType(t) == Current.type = t
Target == names[Current.name] + 1

LoadSegs(f) == {s \in {f.segs[i] : i \in DOMAIN f.segs} : s.load}
Overflows(s) == s.addr + Len(s.data) > Space
Low(f) == Min({s.addr : s \in {s \in LoadSegs(f) : s.data # <<>>}})

(* FlattenElfFile, for a file it does not refuse: its segments in order.   *)
FlattenElf(f) ==
    LET map[k \in 0..Len(f.segs)] ==
          IF k = 0 THEN {}
          ELSE LET s == f.segs[k]
               IN  IF s.load THEN AddSegment(map[k - 1], s.addr - Low(f), s.data) ELSE map[k - 1]
    IN  Flat(map[Len(f.segs)])

Flattens(f) ==
    /\ f.class = "elf"
    /\ \A s \in LoadSegs(f) : ~Overflows(s)
    /\ (\E s \in LoadSegs(f) : s.data # <<>>) => (\A s \in LoadSegs(f) : ~s.cut)

(* What the files say each byte of an area is (see MemoryHoldsImage). *)
Covers(s, addr) == s.load /\ addr \in s.addr..(s.addr + Len(s.data) - 1)
ByteAt(f, addr) ==
    LET hits == {i \in DOMAIN f.segs : Covers(f.segs[i], addr)}
    IN  IF hits = {} THEN {} ELSE {f.segs[Max(hits)].data[addr - f.segs[Max(hits)].addr + 1]}
TouchesWord(f, addr) == \E x \in addr..(addr + Width - 1) : ByteAt(f, x) # {}
Image(bytes, f, base, dense) ==
    [o \in DOMAIN bytes |->
        IF ByteAt(f, base + o) # {} THEN CHOOSE b \in ByteAt(f, base + o) : TRUE
        ELSE IF \/ TouchesWord(f, base + o - (o % Width))
                \/ dense /\ \E p \in DOMAIN bytes : p > o /\ ByteAt(f, base + p) # {}
        THEN 0 ELSE bytes[o]]

Performing == phase = "load" /\ loads # <<>>

(* LoadFileToNamedMem with an ELF file: flattened, written from word 0.    *)
(* That it fits is asserted.                                               *)
NamedElf ==
    /\ Performing /\ Current.name \in DOMAIN names /\ IsType("elf") /\ Flattens(Current.file)
    /\ LET data == FlattenElf(Current.file)
       IN  IF Words(data) > areas[Target].words THEN Return("aborted")
           ELSE IF ~areas[Target].present /\ data # <<>> THEN Return("refused")
           ELSE /\ mem' = [mem EXCEPT ![Target] = Written(@, 0, data)]
                /\ image' = [image EXCEPT ![Target] =
                               IF data = <<>> THEN @ ELSE Image(@, Current.file, Low(Current.file), TRUE)]
                /\ loads' = Tail(loads)
                /\ UNCHANGED <<registry, phase, staged, segs, writes>>

(* With a vmem file, read into the words from 0 by the simulator. *)
NamedVmem ==
    /\ Performing /\ Current.name \in DOMAIN names /\ IsType("vmem")
    /\ areas[Target].present
    /\ Current.file.class = "vmem"
    /\ mem' = [mem EXCEPT ![Target] = Written(@, 0, Current.file.bytes)]
    /\ image' = [image EXCEPT ![Target] =
                   [o \in DOMAIN @ |-> IF o < Len(Current.file.bytes)
                                       THEN Current.file.bytes[o + 1] ELSE @[o]]]
    /\ loads' = Tail(loads)
    /\ UNCHANGED <<registry, phase, staged, segs, writes>>

NamedRefused ==
    /\ Performing /\ Current.name # ""
    /\ \/ ~IsType("elf") /\ ~IsType("vmem")
       \/ Current.name \notin DOMAIN names
       \/ IsType("elf") /\ ~Flattens(Current.file)
       \/ IsType("vmem") /\ Current.name \in DOMAIN names /\ ~areas[Target].present
    /\ Return("refused")
----------------------------------------------------------------------------
(***************************************************************************)
(* Loads by address: StageElf stages every segment, or throws and leaves   *)
(* those before; LoadElfToMemories then writes what is staged.             *)
(***************************************************************************)
ElfLoad ==
    /\ Performing /\ Current.name = ""
    /\ staged' = [i \in DOMAIN areas |-> {}]
    /\ IF Current.file.class = "elf"
       THEN segs' = Current.file.segs /\ phase' = "stage"
       ELSE phase' = "refused" /\ UNCHANGED segs
    /\ UNCHANGED <<registry, mem, loads, writes, image>>

\* Mutant of Region: a segment may end one byte past its area.
RegionWide(s) == {r \in Find(s.addr) : /\ ~Overflows(s)
                                       /\ s.addr + Len(s.data) - 1 - r.lo <= Size(areas[r.index + 1])}

(* GetRegionForSegment: the area the segment starts in, if it ends there. *)
Region(s) == {r \in Find(s.addr) : /\ ~Overflows(s)
                                   /\ s.addr + Len(s.data) - 1 - r.lo < Size(areas[r.index + 1])}

StageSegment ==
    /\ phase = "stage" /\ segs # <<>>
    /\ LET s == Head(segs)
       IN  IF ~s.load \/ s.data = <<>> THEN UNCHANGED <<staged, phase>>
           ELSE IF \E r \in Region(s) : (s.addr - r.lo) % Width = 0 /\ ~s.cut
           THEN /\ \E r \in Region(s) :
                     staged' = [staged EXCEPT ![r.index + 1] = AddSegment(@, s.addr - r.lo, s.data)]
                /\ UNCHANGED phase
           ELSE phase' = "refused" /\ UNCHANGED staged
    /\ segs' = Tail(segs)
    /\ UNCHANGED <<registry, mem, loads, writes, image>>

AllStaged ==
    /\ phase = "stage" /\ segs = <<>>
    /\ phase' = "write"
    /\ writes' = UNION {{[area |-> i, seg |-> s] : s \in staged[i]} : i \in DOMAIN areas}
    /\ UNCHANGED <<registry, mem, loads, staged, segs, image>>

(* Area by area, in the order of their names, which is left open here. *)
WriteSegment ==
    /\ phase = "write"
    /\ \E w \in writes :
         LET word == w.seg.lo \div Width
         IN  /\ \A v \in writes : v.area = w.area => w.seg.lo <= v.seg.lo
             /\ writes' = writes \ {w}
             /\ IF word + Words(w.seg.data) > areas[w.area].words
                THEN phase' = "aborted" /\ UNCHANGED mem
                ELSE IF ~areas[w.area].present THEN phase' = "refused" /\ UNCHANGED mem
                ELSE /\ mem' = [mem EXCEPT ![w.area] = Written(@, word, w.seg.data)]
                     /\ UNCHANGED phase
    /\ UNCHANGED <<registry, loads, staged, segs, image>>

AllWritten ==
    /\ phase = "write" /\ writes = {}
    /\ phase' = "load"
    /\ image' = [i \in DOMAIN areas |-> Image(image[i], Current.file, areas[i].base, FALSE)]
    /\ loads' = Tail(loads)
    /\ UNCHANGED <<registry, mem, staged, segs, writes>>
----------------------------------------------------------------------------
Init == /\ areas = <<>> /\ names = [n \in {} |-> 0] /\ ranges = {} /\ tries = 0
        /\ mem = <<>> /\ image = <<>> /\ staged = <<>>
        /\ phase = "register" /\ loads = <<>> /\ segs = <<>> /\ writes = {}

CommandLine == \/ \E n \in Names, f \in Files : InitOption(n, f)
               \/ \E f \in Files : ElfOption(f)
               \/ \E n \in Names, f \in Files, t \in {"", "elf", "vmem", "hex"} : MemOption(n, f, t)
               \/ \E how \in {"listed", "loaded", "refused"} : LeaveOption(how)

Loading == \/ Begin \/ Finish \/ NamedElf \/ NamedVmem \/ NamedRefused \/ ElfLoad
           \/ StageSegment \/ AllStaged \/ WriteSegment \/ AllWritten

Next == (\E a \in Candidates : Register(a)) \/ CommandLine \/ Loading

Spec == Init /\ [][Next]_vars
----------------------------------------------------------------------------
(* The registry is consistent, after registrations that throw too: every   *)
(* area can be found by its name and by each of its addresses, nothing     *)
(* else can, and no two areas share an address.                            *)
RegistryCoherent ==
    /\ \A n \in DOMAIN names : names[n] < Len(areas) /\ areas[names[n] + 1].name = n
    /\ \A i \in DOMAIN areas : areas[i].name \in DOMAIN names /\ names[areas[i].name] = i - 1
    /\ \A x \in 0..(Space - 1), i \in DOMAIN areas :
         (\E r \in Find(x) : r.index = i - 1) <=> x \in areas[i].base..(areas[i].base + Size(areas[i]) - 1)

(* What is staged: segments of one area are disjoint and start on a word,  *)
(* so that writing whole words never touches another's, and they fit, so   *)
(* that the assertion of MemArea::Write holds for loads by address.        *)
StagedFits ==
    \A i \in DOMAIN areas : \A s \in staged[i] :
        /\ s.lo % Width = 0
        /\ s.lo \div Width + Words(s.data) <= areas[i].words
        /\ \A t \in staged[i] \ {s} : Hi(s) < t.lo \/ Hi(t) < s.lo

(* Between loads every memory holds the image of the files loaded so far:  *)
(* the last segment of the last file that has the byte, zeros up to the    *)
(* end of a word, and what was there before elsewhere.  A load that is     *)
(* refused before writing has changed nothing.                             *)
MemoryHoldsImage == phase \in {"load", "stage", "loaded"} => mem = image
=============================================================================
