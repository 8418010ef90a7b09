------------------------------ MODULE SysfsReg ------------------------------
(***************************************************************************)
(* The registers of the framer and of the radio traffic generator, and the *)
(* ways to change them: the sysfs files of the two kernel drivers          *)
(* (xroeframer-driver/sysfs_xroe*.c, xtraffic/sysfs_xroe_traffic_*.c), and *)
(* reads and writes of whole words from user space (devmem in the start    *)
(* script, /dev/xroe/ip in xroe-app).                                      *)
(*                                                                         *)
(* A store reads the word, replaces its field and writes the word back,    *)
(* with no lock: nothing keeps two of them from overlapping.               *)
(*                                                                         *)
(* A word, and a value written to a field, is the set of its bits that     *)
(* are 1.                                                                  *)
(***************************************************************************)
EXTENDS Integers, FiniteSets

CONSTANTS
  Field,      \* the fields of registers that somebody uses
  Attr,       \* Attr[f]: where f is, and how its file reads text
  Writable,   \* Writable[c]: the bits of word c that keep what is written
  InitReg,    \* InitReg[c]: word c after power-up
  Proc,       \* the processes that write
  Texts,      \* bound: the texts written to files
  Words,      \* bound: the words written from user space, and what hardware sets
  Driver      \* the drivers

Bit == 0 .. 31
Base == {15, 16}

\* A text is up to two digits, with or without 0x; 16 and more are letters past
\* f, and anything else that is no digit.
Text == [prefix : BOOLEAN, high : Nat, low : Nat]

\* The word of a field, its lowest bit, and its bits
CellOf == [f \in Field |-> Attr[f].cell]
Off    == [f \in Field |-> Attr[f].off]
Mask   == [f \in Field |-> Off[f] .. Off[f] + Attr[f].width - 1]

Cell == {CellOf[f] : f \in Field}

\* The bits of a word that are the hardware's
Own == [c \in Cell |-> Bit \ Writable[c]]

ASSUME AttrAssumption ==
  Attr \in [Field -> [cell : Nat, off : Bit, width : 1 .. 32, rw : BOOLEAN, base : Base,
                      driver : Driver \cup {"none"}, group : STRING]]
ASSUME MaskAssumption == \A f \in Field : Mask[f] \subseteq Bit
ASSUME FieldsApart ==
  \A f, g \in Field : f # g /\ CellOf[f] = CellOf[g] => Mask[f] \cap Mask[g] = {}
ASSUME WritableAssumption == Writable \in [Cell -> SUBSET Bit]
ASSUME InitRegAssumption == InitReg \in [Cell -> SUBSET Bit]
ASSUME TextsAssumption == Texts \subseteq Text /\ Words \subseteq SUBSET Bit
ASSUME DriverAssumption == "none" \notin Driver

VARIABLES
  reg,        \* the registers
  phase,      \* phase[d]: "absent", "mapped" or "hidden" (files gone, still mapped)
  todo,       \* todo[d]: the groups of files whose turn has not come
  visible,    \* the fields that have a file
  op,         \* op[p]: the read-modify-write p is in the middle of
  held,       \* history: what was written to each field last
  kept,       \* history: no overlapping write has touched the field since
  seen,       \* history: everything written to each field
  blind       \* history: the words rewritten without having been read

vars == <<reg, phase, todo, visible, op, held, kept, seen, blind>>
drivers == <<phase, todo, visible>>
history == <<held, kept, seen, blind>>

Idle == [field |-> "none"]
Op == [field : Field, value : SUBSET Nat, word : SUBSET Bit, fresh : BOOLEAN,
       got : BOOLEAN, via : {"file", "memory"}]

Busy(p) == op[p] # Idle

-----------------------------------------------------------------------------
(* Fields of words *)

\* Faulty forms of the next two: a shift without a mask, a field that is not
\* cleared first, and a value that spills over.
ShowUnmasked(w, f) == {b - Off[f] : b \in w}
MergeUncleared(w, v, f) == w \cup ({b + Off[f] : b \in v} \cap Mask[f])
MergeUnmasked(w, v, f) == (w \ Mask[f]) \cup {b + Off[f] : b \in v}

\* (word & mask) >> offset
Show(w, f) == {b - Off[f] : b \in w \cap Mask[f]}

\* The field takes all the value's bits that its mask lets through.
Merge(w, v, f) == (w \ Mask[f]) \cup ({b + Off[f] : b \in v} \cap Mask[f])

\* What a field can hold of a value
Fits(v, f) == {b \in v : b + Off[f] \in Mask[f]}

\* Fields all of whose bits keep what is written
Keeps(f) == Mask[f] \cap Own[CellOf[f]] = {}

\* A write of word w to c
Land(c, w) == [reg EXCEPT ![c] = (w \ Own[c]) \cup (@ \cap Own[c])]

-----------------------------------------------------------------------------
(* kstrtouint *)

Parses(f, t) ==
  /\ t.prefix => Attr[f].base = 16
  /\ t.high < Attr[f].base /\ t.low < Attr[f].base

Bits(n) == {b \in 0 .. 7 : (n \div 2^b) % 2 = 1}
ValueOf(f, t) == Bits(t.high * Attr[f].base + t.low)

-----------------------------------------------------------------------------
Init ==
  /\ reg = InitReg
  /\ phase = [d \in Driver |-> "absent"]
  /\ todo = [d \in Driver |-> {}]
  /\ visible = {}
  /\ op = [p \in Proc |-> Idle]
  /\ held = [f \in Field |-> Show(InitReg[CellOf[f]], f)]
  /\ kept = [f \in Field |-> TRUE]
  /\ seen = [f \in Field |-> {Show(InitReg[CellOf[f]], f)}]
  /\ blind = {}

-----------------------------------------------------------------------------
(* Read-modify-write *)

Begin(p, f, v, w, got, via) ==
  /\ ~Busy(p)
  /\ op' = [op EXCEPT ![p] = [field |-> f, value |-> v, word |-> w, fresh |-> TRUE,
                              got |-> got, via |-> via]]
  /\ UNCHANGED <<reg, drivers, history>>

\* xroe_reg_store: a text that does not parse is refused, and nothing happens.
BeginStore(p, f, t) ==
  /\ f \in visible /\ Attr[f].rw
  /\ Parses(f, t)
  /\ Begin(p, f, ValueOf(f, t), reg[CellOf[f]], TRUE, "file")

\* From user space.  xroe-app does not look at whether its read succeeded: it
\* goes on with 0 when it has got nothing.
BeginRmw(p, f, v, got) ==
  Begin(p, f, v, IF got THEN reg[CellOf[f]] ELSE {}, got, "memory")

\* A word written over c: whoever has read c holds a word that is old.
Overtaken(c) ==
  [q \in Proc |-> IF Busy(q) /\ CellOf[op[q].field] = c
                  THEN [op[q] EXCEPT !.fresh = FALSE] ELSE op[q]]

EndOp(p) ==
  /\ Busy(p)
  /\ LET o == op[p]
         c == CellOf[o.field]
     IN /\ reg' = Land(c, Merge(o.word, o.value, o.field))
        /\ op' = [Overtaken(c) EXCEPT ![p] = Idle]
        /\ held' = [held EXCEPT ![o.field] = Fits(o.value, o.field)]
        /\ seen' = [seen EXCEPT ![o.field] = @ \cup {Fits(o.value, o.field)}]
        /\ kept' = [f \in Field |-> \/ f = o.field
                                    \/ kept[f] /\ (CellOf[f] = c => o.fresh /\ o.got)]
        /\ blind' = IF o.got THEN blind ELSE blind \cup {c}
  /\ UNCHANGED drivers

\* xroe-app's write fails: its device is gone.
Drop(p) ==
  /\ Busy(p) /\ op[p].via = "memory"
  /\ op' = [op EXCEPT ![p] = Idle]
  /\ UNCHANGED <<reg, drivers, history>>

-----------------------------------------------------------------------------
(* Whole words *)

Poke(c, w) ==
  /\ reg' = Land(c, w)
  /\ op' = Overtaken(c)
  /\ held' = [f \in Field |-> IF CellOf[f] = c THEN Show(w, f) ELSE held[f]]
  /\ seen' = [f \in Field |-> IF CellOf[f] = c THEN seen[f] \cup {Show(w, f)} ELSE seen[f]]
  /\ kept' = [f \in Field |-> kept[f] \/ CellOf[f] = c]
  /\ UNCHANGED <<drivers, blind>>

\* The bits that are the hardware's own change when it likes.
Hardware(c, w) ==
  /\ reg' = [reg EXCEPT ![c] = (@ \ Own[c]) \cup (w \cap Own[c])]
  /\ UNCHANGED <<op, drivers, history>>

-----------------------------------------------------------------------------
(* The life of a driver *)

FilesOf(d) == {f \in Field : Attr[f].driver = d}
Groups(d)  == {Attr[f].group : f \in FilesOf(d)}

\* probe: the registers are mapped, then xroe_sysfs_init goes through the groups.
Probe(d) ==
  /\ phase[d] = "absent"
  /\ phase' = [phase EXCEPT ![d] = "mapped"]
  /\ todo' = [todo EXCEPT ![d] = Groups(d)]
  /\ UNCHANGED <<reg, visible, op, history>>

CreateGroup(d, g) ==
  /\ g \in todo[d]
  /\ todo' = [todo EXCEPT ![d] = @ \ {g}]
  /\ visible' = visible \cup {f \in FilesOf(d) : Attr[f].group = g}
  /\ UNCHANGED <<reg, phase, op, history>>

\* A group cannot be made: the driver goes on without it, or leaves out those that
\* are left too (xroe_sysfs_init), and probe succeeds.  When the framer's first
\* group fails, the directory of the others is freed and used all the same
\* (sysfs_xroe.c:172): what follows that is not modelled.
FailGroup(d, g) ==
  /\ g \in todo[d]
  /\ \E rest \in {todo[d] \ {g}, {}} : todo' = [todo EXCEPT ![d] = rest]
  /\ UNCHANGED <<reg, phase, visible, op, history>>

InUse(d) == \E p \in Proc : Busy(p) /\ op[p].via = "file" /\ Attr[op[p].field].driver = d

\* Faulty: the files go at once, whoever uses them.
HideFilesAtOnce(d) ==
  /\ phase[d] = "mapped" /\ todo[d] = {}
  /\ phase' = [phase EXCEPT ![d] = "hidden"]
  /\ visible' = visible \ FilesOf(d)
  /\ UNCHANGED <<reg, todo, op, history>>

\* framer_exit: xroe_sysfs_exit first.  kobject_del waits for the stores that
\* are under way.
HideFiles(d) ==
  /\ phase[d] = "mapped" /\ todo[d] = {}
  /\ ~InUse(d)
  /\ phase' = [phase EXCEPT ![d] = "hidden"]
  /\ visible' = visible \ FilesOf(d)
  /\ UNCHANGED <<reg, todo, op, history>>

\* platform_driver_unregister: the mapping goes with the device.  (A device that
\* is unbound without that would lose its mapping and keep its files; there is no
\* remove.  It is not modelled.)
Unmap(d) ==
  /\ phase[d] = "hidden"
  /\ phase' = [phase EXCEPT ![d] = "absent"]
  /\ UNCHANGED <<reg, todo, visible, op, history>>

DriverStep ==
  \E d \in Driver :
    \/ Probe(d)
    \/ \E g \in todo[d] : CreateGroup(d, g) \/ FailGroup(d, g)
    \/ HideFiles(d)
    \/ Unmap(d)

-----------------------------------------------------------------------------
Next ==
  \/ \E p \in Proc, f \in Field, t \in Texts : BeginStore(p, f, t)
  \/ \E p \in Proc, f \in Field, v \in Words, got \in BOOLEAN : BeginRmw(p, f, v, got)
  \/ \E p \in Proc : EndOp(p) \/ Drop(p)
  \/ \E c \in Cell, w \in Words : Poke(c, w) \/ Hardware(c, w)
  \/ DriverStep

Spec == Init /\ [][Next]_vars

-----------------------------------------------------------------------------
(* Properties *)

\* Words are 32 bits wide, and what is pending is a well-formed store.
TypeOK ==
  /\ reg \in [Cell -> SUBSET Bit]
  /\ phase \in [Driver -> {"absent", "mapped", "hidden"}]
  /\ todo \in [Driver -> SUBSET STRING]
  /\ visible \subseteq Field
  /\ op \in [Proc -> Op \cup {Idle}]
  /\ held \in [Field -> SUBSET Nat]
  /\ kept \in [Field -> BOOLEAN]
  /\ seen \in [Field -> SUBSET SUBSET Nat]
  /\ blind \subseteq Cell

(***************************************************************************)
(* A field that keeps what is written shows what was written to it last,   *)
(* whatever has been written to its neighbours in the word since and by    *)
(* whom - unless one of them was read before and written back after        *)
(* another write (utils_write32withmask takes no lock), or was not read at *)
(* all.                                                                    *)
(***************************************************************************)
KeptUnlessOverlapped ==
  \A f \in Field : Keeps(f) /\ kept[f] => Show(reg[CellOf[f]], f) = held[f]

(***************************************************************************)
(* Even where stores overlap, a field never shows a mixture: it shows some *)
(* value that was written to it as a whole - unless its word was written   *)
(* back by a command that had not been able to read it.                    *)
(***************************************************************************)
NothingInvented ==
  \A f \in Field : Keeps(f) /\ CellOf[f] \notin blind => Show(reg[CellOf[f]], f) \in seen[f]

(***************************************************************************)
(* As long as a store through a file is under way, the driver of the file  *)
(* has its registers mapped: removing the module while a store runs does   *)
(* not take them away (the order of framer_exit).                          *)
(***************************************************************************)
NoAccessUnmapped ==
  \A p \in Proc : Busy(p) /\ op[p].via = "file" => phase[Attr[op[p].field].driver] # "absent"
=============================================================================
