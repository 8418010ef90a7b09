--------------------------- MODULE SysfsRegProofs ---------------------------
(***************************************************************************)
(* Theorems about SysfsReg, for any register map whose fields do not       *)
(* overlap, any drivers and any number of processes; and about the map of  *)
(* the two drivers, as RegistersMC states them.                            *)
(***************************************************************************)
EXTENDS RegistersMC, TLAPS

-----------------------------------------------------------------------------
(* Fields of words *)

LEMMA FieldFacts ==
  ASSUME NEW f \in Field
  PROVE  /\ CellOf[f] \in Cell
         /\ Off[f] \in 0 .. 31
         /\ Mask[f] \subseteq Bit
         /\ \A b \in Mask[f] : b - Off[f] \in Nat
  BY AttrAssumption, MaskAssumption DEF CellOf, Cell, Off, Mask, Bit

LEMMA OwnBits ==
  ASSUME NEW c \in Cell
  PROVE  Own[c] \subseteq Bit
  BY DEF Own

\* Merging a value into a field gives a word, from which the field shows what it
\* can hold of the value.
LEMMA MergeIsWord ==
  ASSUME NEW f \in Field, NEW w \in SUBSET Bit, NEW v
  PROVE  Merge(w, v, f) \in SUBSET Bit
  BY FieldFacts DEF Merge

LEMMA ShowMerge ==
  ASSUME NEW f \in Field, NEW w, NEW v \in SUBSET Nat
  PROVE  Show(Merge(w, v, f), f) = Fits(v, f)
PROOF
  <1>0. Off[f] \in Nat /\ Mask[f] \subseteq Nat
    BY FieldFacts DEF Bit
  <1>1. Merge(w, v, f) \cap Mask[f] = {b + Off[f] : b \in v} \cap Mask[f]
    BY DEF Merge
  <1>2. ASSUME NEW x \in Show(Merge(w, v, f), f) PROVE x \in Fits(v, f)
    BY <1>0, <1>1, <1>2 DEF Show, Fits
  <1>3. ASSUME NEW x \in Fits(v, f) PROVE x \in Show(Merge(w, v, f), f)
    <2>1. x + Off[f] \in Merge(w, v, f) \cap Mask[f] /\ x = (x + Off[f]) - Off[f]
      BY <1>0, <1>1, <1>3 DEF Fits
    <2> QED
      BY <2>1 DEF Show
  <1> QED
    BY <1>2, <1>3

\* The other fields of the word show what they did.
LEMMA ShowMergeOther ==
  ASSUME NEW f \in Field, NEW g \in Field, f # g, CellOf[f] = CellOf[g], NEW w, NEW v
  PROVE  Show(Merge(w, v, f), g) = Show(w, g)
PROOF
  <1>1. Mask[f] \cap Mask[g] = {}
    BY FieldsApart
  <1>2. Merge(w, v, f) \cap Mask[g] = w \cap Mask[g]
    BY <1>1 DEF Merge
  <1> QED
    BY <1>2 DEF Show

\* Words that agree on a field show the same there.
LEMMA ShowAgree ==
  ASSUME NEW f \in Field, NEW v, NEW w, v \cap Mask[f] = w \cap Mask[f]
  PROVE  Show(v, f) = Show(w, f)
  BY DEF Show

\* What a field shows is a set of natural numbers.
LEMMA ShowType ==
  ASSUME NEW f \in Field, NEW w
  PROVE  Show(w, f) \in SUBSET Nat
  BY FieldFacts DEF Show

\* A write of a word to c: the fields that keep what is written show it.
LEMMA ShowLand ==
  ASSUME NEW f \in Field, Keeps(f), NEW w, NEW r, NEW c, c = CellOf[f]
  PROVE  Show((w \ Own[c]) \cup (r \cap Own[c]), f) = Show(w, f)
PROOF
  <1>1. ((w \ Own[c]) \cup (r \cap Own[c])) \cap Mask[f] = w \cap Mask[f]
    BY DEF Keeps
  <1> QED
    BY <1>1, ShowAgree

-----------------------------------------------------------------------------
(* Types *)

LEMMA LandType ==
  ASSUME reg \in [Cell -> SUBSET Bit], NEW c \in Cell, NEW w \in SUBSET Bit
  PROVE  Land(c, w) \in [Cell -> SUBSET Bit]
  BY OwnBits DEF Land

LEMMA OpType ==
  ASSUME TypeOK, NEW p \in Proc, Busy(p)
  PROVE  op[p] \in Op
  BY DEF TypeOK, Busy

LEMMA OvertakenType ==
  ASSUME TypeOK, NEW c
  PROVE  Overtaken(c) \in [Proc -> Op \cup {Idle}]
PROOF
  <1>1. ASSUME NEW q \in Proc, Busy(q)
        PROVE  [op[q] EXCEPT !.fresh = FALSE] \in Op
    BY <1>1, OpType DEF Op
  <1>2. \A q \in Proc : op[q] \in Op \cup {Idle}
    BY DEF TypeOK
  <1> QED
    BY <1>1, <1>2 DEF Overtaken

LEMMA BeginType ==
  ASSUME TypeOK, NEW p \in Proc, NEW f \in Field, NEW v \in SUBSET Nat, NEW w \in SUBSET Bit,
         NEW got \in BOOLEAN, NEW via \in {"file", "memory"}, Begin(p, f, v, w, got, via)
  PROVE  TypeOK'
PROOF
  <1>1. [field |-> f, value |-> v, word |-> w, fresh |-> TRUE, got |-> got, via |-> via] \in Op
    BY DEF Op
  <1>2. op' \in [Proc -> Op \cup {Idle}]
    BY <1>1 DEF Begin, TypeOK
  <1> QED
    BY <1>2 DEF Begin, TypeOK, drivers, history

LEMMA RegWord ==
  ASSUME TypeOK, NEW f \in Field
  PROVE  reg[CellOf[f]] \in SUBSET Bit
  BY FieldFacts DEF TypeOK

LEMMA EndOpType ==
  ASSUME TypeOK, NEW p \in Proc, EndOp(p)
  PROVE  TypeOK'
PROOF
  <1> DEFINE o == op[p]
             c == CellOf[o.field]
  <1>1. o \in Op /\ o.field \in Field /\ c \in Cell
    BY OpType, FieldFacts DEF EndOp, Op
  <1>2. reg' \in [Cell -> SUBSET Bit]
    <2>1. Merge(o.word, o.value, o.field) \in SUBSET Bit
      BY <1>1, MergeIsWord DEF Op
    <2> QED
      BY <1>1, <2>1, LandType DEF EndOp, TypeOK
  <1>3. op' \in [Proc -> Op \cup {Idle}]
    BY OvertakenType DEF EndOp
  <1>4. Fits(o.value, o.field) \in SUBSET Nat
    BY <1>1 DEF Fits, Op
  <1>5. held' \in [Field -> SUBSET Nat] /\ seen' \in [Field -> SUBSET SUBSET Nat]
    BY <1>1, <1>4 DEF EndOp, TypeOK
  <1>6. kept' \in [Field -> BOOLEAN]
    BY DEF EndOp
  <1>7. blind' \subseteq Cell
    BY <1>1 DEF EndOp, TypeOK
  <1> QED
    BY <1>2, <1>3, <1>5, <1>6, <1>7 DEF EndOp, TypeOK, drivers

LEMMA PokeType ==
  ASSUME TypeOK, NEW c \in Cell, NEW w \in SUBSET Bit, Poke(c, w)
  PROVE  TypeOK'
PROOF
  <1>1. reg' \in [Cell -> SUBSET Bit]
    BY LandType DEF Poke, TypeOK
  <1>2. op' \in [Proc -> Op \cup {Idle}]
    BY OvertakenType DEF Poke
  <1>3. held' \in [Field -> SUBSET Nat] /\ seen' \in [Field -> SUBSET SUBSET Nat]
    BY ShowType DEF Poke, TypeOK
  <1>4. kept' \in [Field -> BOOLEAN]
    BY DEF Poke
  <1> QED
    BY <1>1, <1>2, <1>3, <1>4 DEF Poke, TypeOK, drivers

LEMMA GroupsAreNames ==
  ASSUME NEW d \in Driver
  PROVE  Groups(d) \in SUBSET STRING /\ FilesOf(d) \subseteq Field
  BY AttrAssumption DEF Groups, FilesOf

LEMMA DriverType ==
  ASSUME TypeOK, DriverStep
  PROVE  TypeOK'
PROOF
  <1>1. ASSUME NEW d \in Driver, Probe(d) PROVE TypeOK'
    BY <1>1, GroupsAreNames DEF Probe, TypeOK, history
  <1>2. ASSUME NEW d \in Driver, NEW g \in todo[d], CreateGroup(d, g) PROVE TypeOK'
    BY <1>2, GroupsAreNames DEF CreateGroup, TypeOK, history
  <1>3. ASSUME NEW d \in Driver, NEW g \in todo[d], FailGroup(d, g) PROVE TypeOK'
    BY <1>3 DEF FailGroup, TypeOK, history
  <1>4. ASSUME NEW d \in Driver, HideFiles(d) PROVE TypeOK'
    BY <1>4 DEF HideFiles, TypeOK, history
  <1>5. ASSUME NEW d \in Driver, Unmap(d) PROVE TypeOK'
    BY <1>5 DEF Unmap, TypeOK, history
  <1> QED
    BY <1>1, <1>2, <1>3, <1>4, <1>5 DEF DriverStep

\* The steps of the processes that start something, with what they start
LEMMA Starts ==
  ASSUME TypeOK, NEW p \in Proc, NEW f \in Field,
         (\E t \in Texts : BeginStore(p, f, t)) \/ (\E v \in Words, got \in BOOLEAN : BeginRmw(p, f, v, got))
  PROVE  \E v \in SUBSET Nat, w \in SUBSET Bit, got \in BOOLEAN, via \in {"file", "memory"} :
           /\ Begin(p, f, v, w, got, via)
           /\ got => w = reg[CellOf[f]]
           /\ via = "file" => f \in visible
PROOF
  <1>1. ASSUME NEW t \in Texts, BeginStore(p, f, t)
        PROVE  Begin(p, f, ValueOf(f, t), reg[CellOf[f]], TRUE, "file") /\ f \in visible
    BY <1>1 DEF BeginStore
  <1>2. \A t : ValueOf(f, t) \in SUBSET Nat
    BY DEF ValueOf, Bits
  <1>3. ASSUME NEW v \in Words, NEW got \in BOOLEAN, BeginRmw(p, f, v, got)
        PROVE  /\ Begin(p, f, v, IF got THEN reg[CellOf[f]] ELSE {}, got, "memory")
               /\ v \in SUBSET Nat
               /\ (IF got THEN reg[CellOf[f]] ELSE {}) \in SUBSET Bit
    BY <1>3, TextsAssumption, RegWord DEF BeginRmw, Bit
  <1> QED
    BY <1>1, <1>2, <1>3, RegWord

LEMMA TypeKept ==
  ASSUME TypeOK, [Next]_vars
  PROVE  TypeOK'
PROOF
  <1>1. ASSUME NEW p \in Proc, NEW f \in Field, NEW t \in Texts, BeginStore(p, f, t) PROVE TypeOK'
    BY <1>1, Starts, BeginType
  <1>2. ASSUME NEW p \in Proc, NEW f \in Field, NEW v \in Words, NEW got \in BOOLEAN, BeginRmw(p, f, v, got)
        PROVE  TypeOK'
    BY <1>2, Starts, BeginType
  <1>3. ASSUME NEW p \in Proc, EndOp(p) PROVE TypeOK'
    BY <1>3, EndOpType
  <1>4. ASSUME NEW p \in Proc, Drop(p) PROVE TypeOK'
    BY <1>4 DEF Drop, TypeOK, drivers, history
  <1>5. ASSUME NEW c \in Cell, NEW w \in Words, Poke(c, w) PROVE TypeOK'
    BY <1>5, PokeType, TextsAssumption
  <1>6. ASSUME NEW c \in Cell, NEW w \in Words, Hardware(c, w) PROVE TypeOK'
    BY <1>6, TextsAssumption, OwnBits DEF Hardware, TypeOK, drivers, history
  <1>7. CASE UNCHANGED vars
    BY <1>7 DEF TypeOK, vars
  <1> QED
    BY <1>1, <1>2, <1>3, <1>4, <1>5, <1>6, <1>7, DriverType DEF Next

LEMMA TypeAtInit == Init => TypeOK
  BY InitRegAssumption, ShowType DEF Init, TypeOK, Cell

\* Registers hold words of 32 bits, whatever is written to their fields.
THEOREM TypeCorrect == Spec => []TypeOK
  BY TypeAtInit, TypeKept, PTL DEF Spec

-----------------------------------------------------------------------------
(* What the fields of a word show, and what is in the hands of the processes *)

\* What the processes will write back agrees with the word, wherever the word has
\* been read and not been written since.
FreshWords ==
  \A p \in Proc : Busy(p) /\ op[p].fresh /\ op[p].got =>
    op[p].word \ Own[CellOf[op[p].field]] =
      reg[CellOf[op[p].field]] \ Own[CellOf[op[p].field]]

\* Every word that was read shows values that were written, old as it may be.
KnownWords ==
  \A p \in Proc, f \in Field :
    Busy(p) /\ op[p].got /\ CellOf[f] = CellOf[op[p].field] /\ Keeps(f) /\ CellOf[f] \notin blind =>
      Show(op[p].word, f) \in seen[f]

FieldInv == FreshWords /\ KnownWords /\ KeptUnlessOverlapped /\ NothingInvented

\* A process is in the middle of something after a write to c only if it was
\* before; what it holds is what it held, except that a word of c is old.
LEMMA AfterWrite ==
  ASSUME TypeOK, NEW c, NEW q \in Proc, NEW new, new = Overtaken(c)[q], new # Idle
  PROVE  /\ Busy(q)
         /\ new.field = op[q].field /\ new.word = op[q].word /\ new.got = op[q].got
         /\ new.via = op[q].via
         /\ new.fresh => CellOf[op[q].field] # c /\ op[q].fresh
PROOF
  <1>1. Busy(q)
    BY DEF Overtaken, Busy
  <1>2. op[q] \in Op
    BY <1>1, OpType
  <1>3. CASE CellOf[op[q].field] = c
    BY <1>1, <1>2, <1>3 DEF Overtaken, Op
  <1>4. CASE CellOf[op[q].field] # c
    BY <1>1, <1>2, <1>4 DEF Overtaken
  <1> QED
    BY <1>1, <1>3, <1>4

LEMMA FieldBegin ==
  ASSUME TypeOK, FieldInv, NEW p \in Proc, NEW f \in Field, NEW v \in SUBSET Nat, NEW w \in SUBSET Bit,
         NEW got \in BOOLEAN, NEW via \in {"file", "memory"}, Begin(p, f, v, w, got, via),
         got => w = reg[CellOf[f]]
  PROVE  FieldInv'
PROOF
  <1>1. /\ op' = [op EXCEPT ![p] = [field |-> f, value |-> v, word |-> w, fresh |-> TRUE,
                                   got |-> got, via |-> via]]
        /\ UNCHANGED <<reg, held, kept, seen, blind>>
    BY DEF Begin, history
  <1>2. \A q \in Proc : q # p => op'[q] = op[q]
    BY <1>1 DEF TypeOK
  <1>3. op'[p].field = f /\ op'[p].word = w /\ op'[p].got = got
    BY <1>1 DEF TypeOK
  <1>4. KeptUnlessOverlapped' /\ NothingInvented'
    BY <1>1 DEF FieldInv, KeptUnlessOverlapped, NothingInvented
  <1>5. FreshWords'
    BY <1>1, <1>2, <1>3 DEF FieldInv, FreshWords, Busy
  <1>6. KnownWords'
    <2> SUFFICES ASSUME NEW q \in Proc, NEW g \in Field, Busy(q)', op'[q].got,
                        CellOf[g] = CellOf[op'[q].field], Keeps(g), CellOf[g] \notin blind
                 PROVE  Show(op'[q].word, g) \in seen[g]
      BY <1>1 DEF KnownWords
    <2>1. CASE q = p
      <3>1. op'[q].word = reg[CellOf[g]]
        BY <1>3, <2>1
      <3> QED
        BY <3>1 DEF FieldInv, NothingInvented
    <2>2. CASE q # p
      BY <1>2, <2>2 DEF FieldInv, KnownWords, Busy
    <2> QED
      BY <2>1, <2>2
  <1> QED
    BY <1>4, <1>5, <1>6 DEF FieldInv

LEMMA FieldEndOp ==
  ASSUME TypeOK, FieldInv, NEW p \in Proc, EndOp(p)
  PROVE  FieldInv'
PROOF
  <1> DEFINE o == op[p]
             h == o.field
             c == CellOf[h]
             m == Merge(o.word, o.value, h)
  <1>1. Busy(p) /\ o \in Op /\ h \in Field /\ c \in Cell /\ o.value \in SUBSET Nat
    BY OpType, FieldFacts DEF EndOp, Op
  <1>2. /\ reg' = Land(c, m)
        /\ op' = [Overtaken(c) EXCEPT ![p] = Idle]
        /\ held' = [held EXCEPT ![h] = Fits(o.value, h)]
        /\ seen' = [seen EXCEPT ![h] = @ \cup {Fits(o.value, h)}]
        /\ kept' = [f \in Field |-> f = h \/ (kept[f] /\ (CellOf[f] = c => o.fresh /\ o.got))]
        /\ blind' = IF o.got THEN blind ELSE blind \cup {c}
    BY DEF EndOp
  <1>3. /\ reg'[c] = (m \ Own[c]) \cup (reg[c] \cap Own[c])
        /\ \A d \in Cell : d # c => reg'[d] = reg[d]
    BY <1>1, <1>2 DEF Land, TypeOK
  <1>4. \A f \in Field : CellOf[f] = c /\ Keeps(f) => Show(reg'[c], f) = Show(m, f)
    BY <1>3, ShowLand
  <1>5. Show(m, h) = Fits(o.value, h)
    BY <1>1, ShowMerge
  <1>6. \A f \in Field : f # h /\ CellOf[f] = c => Show(m, f) = Show(o.word, f)
    BY <1>1, ShowMergeOther
  <1>7. /\ held'[h] = Fits(o.value, h) /\ Fits(o.value, h) \in seen'[h]
        /\ \A f \in Field : (f # h => held'[f] = held[f]) /\ seen[f] \subseteq seen'[f]
    BY <1>1, <1>2 DEF TypeOK
  <1>8. blind \subseteq blind' /\ (c \notin blind' => o.got)
    BY <1>2
  <1>9. \A f \in Field : CellOf[f] \in Cell
    BY FieldFacts
  <1>10. KeptUnlessOverlapped'
    <2> SUFFICES ASSUME NEW f \in Field, Keeps(f), kept'[f]
                 PROVE  Show(reg'[CellOf[f]], f) = held'[f]
      BY DEF KeptUnlessOverlapped
    <2>1. CASE f = h
      BY <1>4, <1>5, <1>7, <2>1
    <2>2. CASE f # h /\ CellOf[f] = c
      <3>1. kept[f] /\ o.fresh /\ o.got
        BY <1>2, <2>2
      <3>2. o.word \ Own[c] = reg[c] \ Own[c]
        BY <1>1, <3>1 DEF FieldInv, FreshWords
      <3>3. o.word \cap Mask[f] = reg[c] \cap Mask[f]
        BY <2>2, <3>2 DEF Keeps
      <3>4. Show(o.word, f) = Show(reg[c], f)
        BY <3>3, ShowAgree
      <3>5. Show(reg[c], f) = held[f]
        BY <2>2, <3>1 DEF FieldInv, KeptUnlessOverlapped
      <3> QED
        BY <1>4, <1>6, <1>7, <2>2, <3>4, <3>5
    <2>3. CASE CellOf[f] # c
      <3>1. f # h /\ kept[f]
        BY <1>2, <2>3
      <3> QED
        BY <1>3, <1>7, <1>9, <2>3, <3>1 DEF FieldInv, KeptUnlessOverlapped
    <2> QED
      BY <2>1, <2>2, <2>3
  <1>11. NothingInvented'
    <2> SUFFICES ASSUME NEW f \in Field, Keeps(f), CellOf[f] \notin blind'
                 PROVE  Show(reg'[CellOf[f]], f) \in seen'[f]
      BY DEF NothingInvented
    <2>1. CASE f = h
      BY <1>4, <1>5, <1>7, <2>1
    <2>2. CASE f # h /\ CellOf[f] = c
      <3>1. Show(o.word, f) \in seen[f]
        BY <1>1, <1>8, <2>2 DEF FieldInv, KnownWords
      <3> QED
        BY <1>4, <1>6, <1>7, <2>2, <3>1
    <2>3. CASE CellOf[f] # c
      BY <1>3, <1>7, <1>8, <1>9, <2>3 DEF FieldInv, NothingInvented
    <2> QED
      BY <2>1, <2>2, <2>3
  <1>12. ASSUME NEW q \in Proc, Busy(q)'
         PROVE  /\ Busy(q) /\ op[q].field \in Field
                /\ op'[q].field = op[q].field /\ op'[q].word = op[q].word /\ op'[q].got = op[q].got
                /\ op'[q].fresh => CellOf[op[q].field] # c /\ op[q].fresh
    <2>1. Overtaken(c) \in [Proc -> Op \cup {Idle}]
      BY OvertakenType
    <2>2. q # p /\ op'[q] = Overtaken(c)[q]
      BY <1>2, <1>12, <2>1 DEF Busy
    <2>3. op'[q] # Idle
      BY <1>12 DEF Busy
    <2>4. Busy(q) => op[q].field \in Field
      BY OpType DEF Op
    <2> HIDE DEF c
    <2> QED
      BY <2>2, <2>3, <2>4, AfterWrite
  <1>13. FreshWords'
    <2> SUFFICES ASSUME NEW q \in Proc, Busy(q)', op'[q].fresh, op'[q].got
                 PROVE  op'[q].word \ Own[CellOf[op'[q].field]] =
                          reg'[CellOf[op'[q].field]] \ Own[CellOf[op'[q].field]]
      BY DEF FreshWords
    <2>1. op'[q].field = op[q].field /\ op'[q].word = op[q].word /\ Busy(q)
          /\ op[q].got /\ op[q].fresh /\ CellOf[op[q].field] # c /\ CellOf[op[q].field] \in Cell
      BY <1>9, <1>12
    <2>2. reg'[CellOf[op[q].field]] = reg[CellOf[op[q].field]]
      BY <1>3, <2>1
    <2> QED
      BY <2>1, <2>2 DEF FieldInv, FreshWords
  <1>14. KnownWords'
    <2> SUFFICES ASSUME NEW q \in Proc, NEW f \in Field, Busy(q)', op'[q].got,
                        CellOf[f] = CellOf[op'[q].field], Keeps(f), CellOf[f] \notin blind'
                 PROVE  Show(op'[q].word, f) \in seen'[f]
      BY DEF KnownWords
    <2>1. Show(op[q].word, f) \in seen[f]
      BY <1>8, <1>12 DEF FieldInv, KnownWords
    <2> QED
      BY <1>7, <1>12, <2>1
  <1> QED
    BY <1>10, <1>11, <1>13, <1>14 DEF FieldInv

LEMMA FieldPoke ==
  ASSUME TypeOK, FieldInv, NEW c \in Cell, NEW w \in SUBSET Bit, Poke(c, w)
  PROVE  FieldInv'
PROOF
  <1>1. /\ reg'[c] = (w \ Own[c]) \cup (reg[c] \cap Own[c])
        /\ \A d \in Cell : d # c => reg'[d] = reg[d]
    BY DEF Poke, Land, TypeOK
  <1>2. \A f \in Field : CellOf[f] = c /\ Keeps(f) => Show(reg'[c], f) = Show(w, f)
    BY <1>1, ShowLand
  <1>3. \A f \in Field :
          /\ CellOf[f] = c => held'[f] = Show(w, f) /\ Show(w, f) \in seen'[f]
          /\ CellOf[f] # c => held'[f] = held[f] /\ (kept'[f] => kept[f])
          /\ seen[f] \subseteq seen'[f]
    BY DEF Poke
  <1>4. blind' = blind /\ \A f \in Field : CellOf[f] \in Cell
    BY FieldFacts DEF Poke
  <1>5. ASSUME NEW q \in Proc, Busy(q)'
        PROVE  /\ Busy(q) /\ op[q].field \in Field
               /\ op'[q].field = op[q].field /\ op'[q].word = op[q].word /\ op'[q].got = op[q].got
               /\ op'[q].fresh => CellOf[op[q].field] # c /\ op[q].fresh
    <2>1. op'[q] = Overtaken(c)[q] /\ op'[q] # Idle
      BY <1>5 DEF Poke, Busy
    <2>2. Busy(q) => op[q].field \in Field
      BY OpType DEF Op
    <2> QED
      BY <2>1, <2>2, AfterWrite
  <1>6. KeptUnlessOverlapped'
    BY <1>1, <1>2, <1>3, <1>4 DEF FieldInv, KeptUnlessOverlapped
  <1>7. NothingInvented'
    BY <1>1, <1>2, <1>3, <1>4 DEF FieldInv, NothingInvented
  <1>8. FreshWords'
    <2> SUFFICES ASSUME NEW q \in Proc, Busy(q)', op'[q].fresh, op'[q].got
                 PROVE  op'[q].word \ Own[CellOf[op'[q].field]] =
                          reg'[CellOf[op'[q].field]] \ Own[CellOf[op'[q].field]]
      BY DEF FreshWords
    <2>1. reg'[CellOf[op[q].field]] = reg[CellOf[op[q].field]]
      BY <1>1, <1>4, <1>5
    <2> QED
      BY <1>5, <2>1 DEF FieldInv, FreshWords
  <1>9. KnownWords'
    BY <1>3, <1>4, <1>5 DEF FieldInv, KnownWords
  <1> QED
    BY <1>6, <1>7, <1>8, <1>9 DEF FieldInv

LEMMA FieldHardware ==
  ASSUME TypeOK, FieldInv, NEW c \in Cell, NEW w, Hardware(c, w)
  PROVE  FieldInv'
PROOF
  <1>1. /\ reg'[c] = (reg[c] \ Own[c]) \cup (w \cap Own[c])
        /\ \A d \in Cell : d # c => reg'[d] = reg[d]
        /\ UNCHANGED <<op, held, kept, seen, blind>>
    BY DEF Hardware, TypeOK, history
  <1>2. \A f \in Field : Keeps(f) => Show(reg'[CellOf[f]], f) = Show(reg[CellOf[f]], f)
    <2> SUFFICES ASSUME NEW f \in Field, Keeps(f)
                 PROVE  Show(reg'[CellOf[f]], f) = Show(reg[CellOf[f]], f)
      OBVIOUS
    <2>1. CASE CellOf[f] = c
      <3>1. reg'[c] \cap Mask[f] = reg[c] \cap Mask[f]
        BY <1>1, <2>1 DEF Keeps
      <3> QED
        BY <2>1, <3>1, ShowAgree
    <2>2. CASE CellOf[f] # c
      BY <1>1, <2>2, FieldFacts
    <2> QED
      BY <2>1, <2>2
  <1>3. \A d \in Cell : reg'[d] \ Own[d] = reg[d] \ Own[d]
    BY <1>1
  <1>4. \A q \in Proc : Busy(q) => CellOf[op[q].field] \in Cell
    BY OpType, FieldFacts DEF Op
  <1>5. FreshWords'
    BY <1>1, <1>3, <1>4 DEF FieldInv, FreshWords, Busy
  <1>6. KnownWords'
    BY <1>1 DEF FieldInv, KnownWords, Busy
  <1>7. KeptUnlessOverlapped' /\ NothingInvented'
    BY <1>1, <1>2 DEF FieldInv, KeptUnlessOverlapped, NothingInvented
  <1> QED
    BY <1>5, <1>6, <1>7 DEF FieldInv

LEMMA FieldKept ==
  ASSUME TypeOK, FieldInv, [Next]_vars
  PROVE  FieldInv'
PROOF
  <1>1. ASSUME NEW p \in Proc, NEW f \in Field, NEW t \in Texts, BeginStore(p, f, t) PROVE FieldInv'
    BY <1>1, Starts, FieldBegin
  <1>2. ASSUME NEW p \in Proc, NEW f \in Field, NEW v \in Words, NEW got \in BOOLEAN, BeginRmw(p, f, v, got)
        PROVE  FieldInv'
    BY <1>2, Starts, FieldBegin
  <1>3. ASSUME NEW p \in Proc, EndOp(p) PROVE FieldInv'
    BY <1>3, FieldEndOp
  <1>4. ASSUME NEW p \in Proc, Drop(p) PROVE FieldInv'
    <2>1. /\ \A q \in Proc : op'[q] # Idle => op'[q] = op[q]
          /\ UNCHANGED <<reg, held, kept, seen, blind>>
      BY <1>4 DEF Drop, TypeOK, history
    <2> QED
      BY <2>1 DEF FieldInv, FreshWords, KnownWords, KeptUnlessOverlapped, NothingInvented, Busy
  <1>5. ASSUME NEW c \in Cell, NEW w \in Words, Poke(c, w) PROVE FieldInv'
    BY <1>5, FieldPoke, TextsAssumption
  <1>6. ASSUME NEW c \in Cell, NEW w \in Words, Hardware(c, w) PROVE FieldInv'
    BY <1>6, FieldHardware
  <1>7. CASE UNCHANGED <<reg, op, history>>
    BY <1>7 DEF FieldInv, FreshWords, KnownWords, KeptUnlessOverlapped, NothingInvented, Busy, history
  <1>8. DriverStep => UNCHANGED <<reg, op, history>>
    BY DEF DriverStep, Probe, CreateGroup, FailGroup, HideFiles, Unmap
  <1>9. UNCHANGED vars => UNCHANGED <<reg, op, history>>
    BY DEF vars, history
  <1> QED
    BY <1>1, <1>2, <1>3, <1>4, <1>5, <1>6, <1>7, <1>8, <1>9 DEF Next

LEMMA FieldAtInit == Init => FieldInv
  BY DEF Init, FieldInv, FreshWords, KnownWords, KeptUnlessOverlapped, NothingInvented, Busy

LEMMA FieldAlways == Spec => [](TypeOK /\ FieldInv)
PROOF
  <1>1. Init => TypeOK /\ FieldInv
    BY TypeAtInit, FieldAtInit
  <1>2. TypeOK /\ FieldInv /\ [Next]_vars => (TypeOK /\ FieldInv)'
    BY TypeKept, FieldKept
  <1> QED
    BY <1>1, <1>2, PTL DEF Spec

\* A field shows what was written to it last, unless a write of a neighbour
\* overlapped with another write or had not read the word.
THEOREM FieldsKeepTheirValue == Spec => []KeptUnlessOverlapped
PROOF
  <1>1. TypeOK /\ FieldInv => KeptUnlessOverlapped
    BY DEF FieldInv
  <1> QED
    BY <1>1, FieldAlways, PTL

\* However stores overlap, a field shows a value that somebody wrote to it, unless
\* its word was written back unread.
THEOREM FieldsShowWhatWasWritten == Spec => []NothingInvented
PROOF
  <1>1. TypeOK /\ FieldInv => NothingInvented
    BY DEF FieldInv
  <1> QED
    BY <1>1, FieldAlways, PTL

-----------------------------------------------------------------------------
(* The life of a driver *)

\* Files are there, and groups are to come, only while the driver has its
\* registers mapped.
FilesInv ==
  /\ \A f \in visible : Attr[f].driver \in Driver /\ phase[Attr[f].driver] = "mapped"
  /\ \A d \in Driver : todo[d] # {} => phase[d] = "mapped"
  /\ \A p \in Proc : Busy(p) /\ op[p].via = "file" =>
       Attr[op[p].field].driver \in Driver /\ phase[Attr[op[p].field].driver] = "mapped"

LEMMA FilesBegin ==
  ASSUME TypeOK, FilesInv, NEW p \in Proc, NEW f \in Field, NEW v \in SUBSET Nat, NEW w \in SUBSET Bit,
         NEW got \in BOOLEAN, NEW via \in {"file", "memory"}, Begin(p, f, v, w, got, via),
         via = "file" => f \in visible
  PROVE  FilesInv'
PROOF
  <1>1. /\ op' = [op EXCEPT ![p] = [field |-> f, value |-> v, word |-> w, fresh |-> TRUE,
                                   got |-> got, via |-> via]]
        /\ UNCHANGED <<phase, todo, visible>>
    BY DEF Begin, drivers
  <1>2. /\ \A q \in Proc : q # p => op'[q] = op[q]
        /\ op'[p].field = f /\ op'[p].via = via
    BY <1>1 DEF TypeOK
  <1> QED
    BY <1>1, <1>2 DEF FilesInv, Busy

LEMMA FilesOvertaken ==
  ASSUME TypeOK, FilesInv, UNCHANGED drivers,
         NEW c, \A q \in Proc : op'[q] # Idle => op'[q] = Overtaken(c)[q]
  PROVE  FilesInv'
PROOF
  <1>1. ASSUME NEW q \in Proc, Busy(q)'
        PROVE  Busy(q) /\ op'[q].field = op[q].field /\ op'[q].via = op[q].via
    BY <1>1, AfterWrite DEF Busy
  <1> QED
    BY <1>1 DEF FilesInv, drivers

\* HideFiles takes place while no store runs, Unmap after it.
LEMMA FilesDriver ==
  ASSUME TypeOK, FilesInv, DriverStep
  PROVE  FilesInv'
PROOF
  <1>1. ASSUME NEW d \in Driver, Probe(d) PROVE FilesInv'
    <2>1. /\ phase' = [phase EXCEPT ![d] = "mapped"] /\ todo' = [todo EXCEPT ![d] = Groups(d)]
          /\ UNCHANGED <<visible, op>>
      BY <1>1 DEF Probe
    <2>2. \A e \in Driver : phase[e] = "mapped" => phase'[e] = "mapped"
      BY <2>1 DEF TypeOK
    <2>3. \A e \in Driver : todo'[e] # {} => phase'[e] = "mapped"
      BY <2>1 DEF TypeOK, FilesInv
    <2> QED
      BY <2>1, <2>2, <2>3 DEF FilesInv, Busy
  <1>2. ASSUME NEW d \in Driver, NEW g \in todo[d], CreateGroup(d, g) PROVE FilesInv'
    <2>1. /\ todo' = [todo EXCEPT ![d] = @ \ {g}] /\ UNCHANGED <<phase, op>>
          /\ visible' = visible \cup {f \in FilesOf(d) : Attr[f].group = g}
      BY <1>2 DEF CreateGroup
    <2>2. phase[d] = "mapped"
      BY DEF FilesInv
    <2>3. \A e \in Driver : todo'[e] # {} => todo[e] # {}
      BY <2>1 DEF TypeOK
    <2>4. \A f \in visible' : f \in visible \/ Attr[f].driver = d
      BY <2>1 DEF FilesOf
    <2> QED
      BY <2>1, <2>2, <2>3, <2>4 DEF FilesInv, Busy
  <1>3. ASSUME NEW d \in Driver, NEW g \in todo[d], FailGroup(d, g) PROVE FilesInv'
    <2>1. (\A e \in Driver : todo'[e] # {} => todo[e] # {}) /\ UNCHANGED <<phase, visible, op>>
      BY <1>3 DEF FailGroup, TypeOK
    <2> QED
      BY <2>1 DEF FilesInv, Busy
  <1>4. ASSUME NEW d \in Driver, HideFiles(d) PROVE FilesInv'
    <2>1. /\ phase' = [phase EXCEPT ![d] = "hidden"] /\ UNCHANGED <<todo, op>>
          /\ visible' = visible \ FilesOf(d) /\ todo[d] = {} /\ ~InUse(d)
      BY <1>4 DEF HideFiles
    <2>2. \A e \in Driver : e # d => phase'[e] = phase[e]
      BY <2>1 DEF TypeOK
    <2>3. \A f \in visible' : f \in visible /\ Attr[f].driver # d
      BY <2>1 DEF FilesOf, TypeOK
    <2>4. \A p \in Proc : Busy(p) /\ op[p].via = "file" => Attr[op[p].field].driver # d
      BY <2>1 DEF InUse
    <2>5. \A e \in Driver : todo'[e] # {} => e # d
      BY <2>1
    <2> QED
      BY <2>1, <2>2, <2>3, <2>4, <2>5 DEF FilesInv, Busy
  <1>5. ASSUME NEW d \in Driver, Unmap(d) PROVE FilesInv'
    <2>1. phase[d] = "hidden" /\ phase' = [phase EXCEPT ![d] = "absent"] /\ UNCHANGED <<todo, visible, op>>
      BY <1>5 DEF Unmap
    <2>2. \A e \in Driver : phase[e] = "mapped" => phase'[e] = "mapped"
      BY <2>1 DEF TypeOK
    <2> QED
      BY <2>1, <2>2 DEF FilesInv, Busy
  <1> QED
    BY <1>1, <1>2, <1>3, <1>4, <1>5 DEF DriverStep

LEMMA FilesKept ==
  ASSUME TypeOK, FilesInv, [Next]_vars
  PROVE  FilesInv'
PROOF
  <1>1. ASSUME NEW p \in Proc, NEW f \in Field, NEW t \in Texts, BeginStore(p, f, t) PROVE FilesInv'
    BY <1>1, Starts, FilesBegin
  <1>2. ASSUME NEW p \in Proc, NEW f \in Field, NEW v \in Words, NEW got \in BOOLEAN, BeginRmw(p, f, v, got)
        PROVE  FilesInv'
    BY <1>2, Starts, FilesBegin
  <1>3. ASSUME NEW p \in Proc, EndOp(p) PROVE FilesInv'
    <2>1. Overtaken(CellOf[op[p].field]) \in [Proc -> Op \cup {Idle}]
      BY OvertakenType
    <2>2. UNCHANGED drivers /\ op' = [Overtaken(CellOf[op[p].field]) EXCEPT ![p] = Idle]
      BY <1>3 DEF EndOp
    <2>3. \A q \in Proc : op'[q] # Idle => op'[q] = Overtaken(CellOf[op[p].field])[q]
      BY <2>1, <2>2
    <2> QED
      BY <2>2, <2>3, FilesOvertaken
  <1>4. ASSUME NEW p \in Proc, Drop(p) PROVE FilesInv'
    <2>1. (\A q \in Proc : op'[q] # Idle => op'[q] = op[q]) /\ UNCHANGED <<phase, todo, visible>>
      BY <1>4 DEF Drop, TypeOK, drivers
    <2> QED
      BY <2>1 DEF FilesInv, Busy
  <1>5. ASSUME NEW c \in Cell, NEW w \in Words, Poke(c, w) PROVE FilesInv'
    BY <1>5, FilesOvertaken DEF Poke
  <1>6. CASE UNCHANGED <<phase, todo, visible, op>>
    BY <1>6 DEF FilesInv, Busy
  <1>7. ASSUME NEW c \in Cell, NEW w \in Words, Hardware(c, w) PROVE UNCHANGED <<phase, todo, visible, op>>
    BY <1>7 DEF Hardware, drivers
  <1>8. UNCHANGED vars => UNCHANGED <<phase, todo, visible, op>>
    BY DEF vars
  <1> QED
    BY <1>1, <1>2, <1>3, <1>4, <1>5, <1>6, <1>7, <1>8, FilesDriver DEF Next

\* Removing a driver while one of its files is being written does not take the
\* registers away from the store.
THEOREM StoresHaveTheirRegisters == Spec => []NoAccessUnmapped
PROOF
  <1>1. Init => FilesInv
    BY DEF Init, FilesInv, Busy
  <1>2. FilesInv => NoAccessUnmapped
    BY DEF FilesInv, NoAccessUnmapped
  <1> QED
    BY <1>1, <1>2, TypeAtInit, TypeKept, FilesKept, PTL DEF Spec

-----------------------------------------------------------------------------
(* The register map *)

\* Where the banks of the header are, and what kind of numbers its fields are
Within(r, a, b) == r.addr \in Int /\ a <= r.addr /\ r.addr <= b
Field32(r) == r.off \in 0 .. 31 /\ r.width \in 1 .. 32

LEMMA BanksApart ==
  /\ \A r \in CfgRegs         : Within(r, \h0, \h30)       /\ Field32(r)
  /\ \A r \in SymbolTableRegs : Within(r, \h34, \h5C)      /\ Field32(r)
  /\ \A r \in FramRegs        : Within(r, \h2000, \h2200)  /\ Field32(r)
  /\ \A r \in DefmRegs        : Within(r, \h6000, \h6080)  /\ Field32(r)
  /\ \A r \in FilterRegs      : Within(r, \h6100, \h6170)  /\ Field32(r)
  /\ \A r \in EthRegs         : Within(r, \hA000, \hA08C)  /\ Field32(r)
  /\ \A r \in Ipv6Regs        : Within(r, \hA090, \hA0B0)  /\ Field32(r)
  /\ \A r \in StatsRegs       : Within(r, \hC000, \hC030)  /\ Field32(r)
  /\ \A r \in OranRegs        : Within(r, \hE000, \hE11C)  /\ Field32(r)
  /\ \A r \in OranSetupRegs   : Within(r, \hE124, \hE610)  /\ Field32(r)
PROOF
  <1> USE DEF Within, Field32, Reg, Ro, Rw, Pulse
  <1>1. \A r \in CfgRegs : Within(r, \h0, \h30) /\ Field32(r)
    BY DEF CfgRegs
  <1>2. \A r \in SymbolTableRegs : Within(r, \h34, \h5C) /\ Field32(r)
    BY DEF SymbolTableRegs
  <1>3. \A r \in FramRegs : Within(r, \h2000, \h2200) /\ Field32(r)
    BY DEF FramRegs
  <1>4. \A r \in DefmRegs : Within(r, \h6000, \h6080) /\ Field32(r)
    BY DEF DefmRegs
  <1>5. \A r \in FilterRegs : Within(r, \h6100, \h6170) /\ Field32(r)
    BY DEF FilterRegs
  <1>6. \A r \in EthRegs : Within(r, \hA000, \hA08C) /\ Field32(r)
    BY DEF EthRegs
  <1>7. \A r \in Ipv6Regs : Within(r, \hA090, \hA0B0) /\ Field32(r)
    BY DEF Ipv6Regs
  <1>8. \A r \in StatsRegs : Within(r, \hC000, \hC030) /\ Field32(r)
    BY DEF StatsRegs
  <1>9. \A r \in OranRegs : Within(r, \hE000, \hE11C) /\ Field32(r)
    BY DEF OranRegs
  <1>10. \A r \in OranSetupRegs : Within(r, \hE124, \hE610) /\ Field32(r)
    BY DEF OranSetupRegs
  <1> QED
    BY <1>1, <1>2, <1>3, <1>4, <1>5, <1>6, <1>7, <1>8, <1>9, <1>10

\* The banks of the framer
Banks == {CfgRegs, SymbolTableRegs, FramRegs, DefmRegs, FilterRegs, EthRegs, Ipv6Regs,
          StatsRegs, OranRegs, OranSetupRegs}

\* Two registers at the same bits
Clash(r, s) == Overlap(r.addr, r, s.addr, s)

LEMMA BankDisjoint ==
  \A bank \in Banks \cup {RadioRegs} : \A r, s \in bank : Clash(r, s) => r = s
PROOF
  <1> USE DEF Clash, Overlap, Reg, Ro, Rw, Pulse
  <1>1. \A r, s \in CfgRegs : Clash(r, s) => r = s
    BY DEF CfgRegs
  <1>2. \A r, s \in SymbolTableRegs : Clash(r, s) => r = s
    BY DEF SymbolTableRegs
  <1>3. \A r, s \in FramRegs : Clash(r, s) => r = s
    BY DEF FramRegs
  <1>4. \A r, s \in DefmRegs : Clash(r, s) => r = s
    BY DEF DefmRegs
  <1>5. \A r, s \in FilterRegs : Clash(r, s) => r = s
    BY DEF FilterRegs
  <1>6. \A r, s \in EthRegs : Clash(r, s) => r = s
    BY DEF EthRegs
  <1>7. \A r, s \in Ipv6Regs : Clash(r, s) => r = s
    BY DEF Ipv6Regs
  <1>8. \A r, s \in StatsRegs : Clash(r, s) => r = s
    BY DEF StatsRegs
  <1>9. \A r, s \in OranRegs : Clash(r, s) => r = s
    BY DEF OranRegs
  <1>10. \A r, s \in OranSetupRegs : Clash(r, s) => r = s
    BY DEF OranSetupRegs
  <1>11. \A r, s \in RadioRegs : Clash(r, s) => r = s
    BY DEF RadioRegs
  <1> QED
    BY <1>1, <1>2, <1>3, <1>4, <1>5, <1>6, <1>7, <1>8, <1>9, <1>10, <1>11 DEF Banks

\* The address of a register tells its bank.
LEMMA AddressTellsBank ==
  ASSUME NEW r \in FramerRegs
  PROVE  /\ r \in CfgRegs <=> Within(r, \h0, \h30)
         /\ r \in SymbolTableRegs <=> Within(r, \h34, \h5C)
         /\ r \in FramRegs <=> Within(r, \h2000, \h2200)
         /\ r \in DefmRegs <=> Within(r, \h6000, \h6080)
         /\ r \in FilterRegs <=> Within(r, \h6100, \h6170)
         /\ r \in EthRegs <=> Within(r, \hA000, \hA08C)
         /\ r \in Ipv6Regs <=> Within(r, \hA090, \hA0B0)
         /\ r \in StatsRegs <=> Within(r, \hC000, \hC030)
         /\ r \in OranRegs <=> Within(r, \hE000, \hE11C)
         /\ r \in OranSetupRegs <=> Within(r, \hE124, \hE610)
PROOF
  <1>1. \/ r \in CfgRegs \/ r \in SymbolTableRegs \/ r \in FramRegs \/ r \in DefmRegs
        \/ r \in FilterRegs \/ r \in EthRegs \/ r \in Ipv6Regs \/ r \in StatsRegs
        \/ r \in OranRegs \/ r \in OranSetupRegs
    BY DEF FramerRegs
  <1>2. CASE r \in CfgRegs
    BY <1>2, BanksApart DEF Within
  <1>3. CASE r \in SymbolTableRegs
    BY <1>3, BanksApart DEF Within
  <1>4. CASE r \in FramRegs
    BY <1>4, BanksApart DEF Within
  <1>5. CASE r \in DefmRegs
    BY <1>5, BanksApart DEF Within
  <1>6. CASE r \in FilterRegs
    BY <1>6, BanksApart DEF Within
  <1>7. CASE r \in EthRegs
    BY <1>7, BanksApart DEF Within
  <1>8. CASE r \in Ipv6Regs
    BY <1>8, BanksApart DEF Within
  <1>9. CASE r \in StatsRegs
    BY <1>9, BanksApart DEF Within
  <1>10. CASE r \in OranRegs
    BY <1>10, BanksApart DEF Within
  <1>11. CASE r \in OranSetupRegs
    BY <1>11, BanksApart DEF Within
  <1> QED
    BY <1>1, <1>2, <1>3, <1>4, <1>5, <1>6, <1>7, <1>8, <1>9, <1>10, <1>11

\* No two registers of the framer share bits.
LEMMA RegistersDisjoint ==
  ASSUME NEW r \in FramerRegs, NEW s \in FramerRegs, Clash(r, s)
  PROVE  r = s
PROOF
  <1>1. r.addr = s.addr
    BY DEF Clash, Overlap
  <1>2. \A bank \in Banks : r \in bank <=> s \in bank
    <2>1. \A a, b : Within(r, a, b) <=> Within(s, a, b)
      BY <1>1 DEF Within
    <2>2. /\ (r \in CfgRegs <=> s \in CfgRegs) /\ (r \in SymbolTableRegs <=> s \in SymbolTableRegs)
          /\ (r \in FramRegs <=> s \in FramRegs) /\ (r \in DefmRegs <=> s \in DefmRegs)
          /\ (r \in FilterRegs <=> s \in FilterRegs) /\ (r \in EthRegs <=> s \in EthRegs)
          /\ (r \in Ipv6Regs <=> s \in Ipv6Regs) /\ (r \in StatsRegs <=> s \in StatsRegs)
          /\ (r \in OranRegs <=> s \in OranRegs) /\ (r \in OranSetupRegs <=> s \in OranSetupRegs)
      BY <2>1, AddressTellsBank
    <2> QED
      BY <2>2 DEF Banks
  <1>3. PICK bank \in Banks : r \in bank
    BY DEF FramerRegs, Banks
  <1> QED
    BY <1>2, <1>3, BankDisjoint DEF Banks

-----------------------------------------------------------------------------
(* The files of the map *)

\* File f is the one in the f.i-th of count directories, stride bytes apart, for
\* one of the registers regs.
Shown(f, count, stride, regs) ==
  /\ f.i \in 0 .. count - 1 /\ f.reg \in regs
  /\ f.at = f.reg.addr + stride * f.i
  /\ f = [dir |-> f.dir, i |-> f.i, reg |-> f.reg, at |-> f.at]

MainRegs    == CfgRegs \cup FramRegs \cup DefmRegs
CarrierRegs == {r \in OranRegs : r.addr <= \hE004 \/ r.addr >= \hE100}
PointerReg  == Rw("ORAN_CC_DL_DATA_UNROLL_OFFSET", \hE500, 0, 16)
FirstFilter == {r \in FilterRegs : r.idx = 0}

\* The names a directory shows are those of registers of one bank.
LEMMA NamesTellBank ==
  ASSUME NEW r \in FramerRegs
  PROVE  /\ r.name \in MainNames   => r \in MainRegs
         /\ r.name \in CcNames     => r \in CarrierRegs
         /\ r.name \in StatsNames  => r \in StatsRegs
         /\ r.name \in EthNames    => r \in EthRegs \cup Ipv6Regs
         /\ r.name \in SharedNames => r = PointerReg
PROOF
  <1> USE DEF FramerRegs, CfgRegs, SymbolTableRegs, FramRegs, DefmRegs, FilterRegs, EthRegs,
              Ipv6Regs, StatsRegs, OranRegs, OranSetupRegs, Reg, Ro, Rw, Pulse,
              MainNames, CcNames, StatsNames, EthNames, SharedNames
  <1>1. r.name \in MainNames   => r \in MainRegs
    BY DEF MainRegs
  <1>2. r.name \in CcNames     => r \in CarrierRegs
    BY DEF CarrierRegs
  <1>3. r.name \in SharedNames => r = PointerReg
    BY DEF PointerReg
  <1>4. r.name \in StatsNames  => r \in StatsRegs
    OBVIOUS
  <1>5. r.name \in EthNames    => r \in EthRegs \cup Ipv6Regs
    OBVIOUS
  <1> QED
    BY <1>1, <1>2, <1>3, <1>4, <1>5


ShownSomewhere(f) ==
  \/ f.dir = "xroe"           /\ Shown(f, 1, 0, MainRegs)
  \/ f.dir = "cc"             /\ Shown(f, 2, 32, CarrierRegs)
  \/ f.dir = "stats"          /\ Shown(f, 1, 256, StatsRegs)
  \/ f.dir = "eth_port"       /\ Shown(f, 1, 256, EthRegs \cup Ipv6Regs)
  \/ f.dir = "dl_data_ptr"    /\ Shown(f, 5, 4, {PointerReg})
  \/ f.dir = "message_filter" /\ Shown(f, 4, 32, FirstFilter)

LEMMA FilesAre ==
  ASSUME NEW dir, NEW names, NEW count, NEW stride, NEW regs,
         \A r \in FramerRegs : r.name \in names => r \in regs,
         NEW f \in Files(dir, names, count, stride)
  PROVE  f.dir = dir /\ Shown(f, count, stride, regs)
  BY DEF Files, Shown, InDirectory

LEMMA FramerFile ==
  ASSUME NEW f \in FramerFiles
  PROVE  ShownSomewhere(f)
PROOF
  <1>1. CASE f \in Files("xroe", MainNames, 1, 0)
    BY <1>1, NamesTellBank, FilesAre DEF ShownSomewhere
  <1>2. CASE f \in Files("cc", CcNames, 2, 32)
    BY <1>2, NamesTellBank, FilesAre DEF ShownSomewhere
  <1>3. CASE f \in Files("stats", StatsNames, 1, 256)
    BY <1>3, NamesTellBank, FilesAre DEF ShownSomewhere
  <1>4. CASE f \in Files("eth_port", EthNames, 1, 256)
    BY <1>4, NamesTellBank, FilesAre DEF ShownSomewhere
  <1>5. CASE f \in Files("dl_data_ptr", SharedNames, 5, 4)
    <2>1. \A r \in FramerRegs : r.name \in SharedNames => r \in {PointerReg}
      BY NamesTellBank
    <2> QED
      BY <1>5, <2>1, FilesAre DEF ShownSomewhere
  <1>6. CASE f \in FilterFiles
    <2>1. PICK port \in 0 .. 0, i \in 0 .. 3, r \in FirstFilter :
            f = [dir |-> "message_filter", i |-> i, reg |-> r, at |-> r.addr + 256 * port + 32 * i]
      BY <1>6 DEF FilterFiles, InFilter, FirstFilter, MAX_NUM_ETH_PORTS, ETH_FILTER_LENGTH_IN_WORDS,
                  ADDR_LOOP_OFFSET_ETH, ADDR_LOOP_OFFSET_FILTER
    <2>2. r.addr \in Int
      BY BanksApart DEF FirstFilter, Within
    <2> QED
      BY <2>1, <2>2 DEF ShownSomewhere, Shown
  <1> QED
    BY <1>1, <1>2, <1>3, <1>4, <1>5, <1>6
       DEF FramerFiles, MAX_NUM_ETH_PORTS, MAX_NUM_ORAN_CC, MAX_NUM_ORAN_DL_DATA_PTR,
           ADDR_LOOP_OFFSET_CC, ADDR_LOOP_OFFSET_STATS, ADDR_LOOP_OFFSET_ETH, ADDR_LOOP_OFFSET_DL_DATA_PTR

\* Where the files of a directory are
FileAt(f, a, b) == a <= f.at /\ f.at <= b

LEMMA FilePlaces ==
  ASSUME NEW f \in FramerFiles
  PROVE  /\ f.at \in Int
         /\ f.dir = "xroe"           => \/ FileAt(f, \h0, \h30) \/ FileAt(f, \h2000, \h2200)
                                        \/ FileAt(f, \h6000, \h6080)
         /\ f.dir = "message_filter" => FileAt(f, \h6100, \h6170)
         /\ f.dir = "eth_port"       => FileAt(f, \hA000, \hA0B0)
         /\ f.dir = "stats"          => FileAt(f, \hC000, \hC030)
         /\ f.dir = "cc"             => FileAt(f, \hE000, \hE13C)
         /\ f.dir = "dl_data_ptr"    => FileAt(f, \hE500, \hE510)
PROOF
  <1> USE BanksApart DEF Shown, FileAt, Within
  <1>0. ShownSomewhere(f)
    BY FramerFile
  <1>1. CASE f.dir = "xroe" /\ Shown(f, 1, 0, MainRegs)
    BY <1>1 DEF MainRegs
  <1>2. CASE f.dir = "cc" /\ Shown(f, 2, 32, CarrierRegs)
    BY <1>2 DEF CarrierRegs
  <1>3. CASE f.dir = "stats" /\ Shown(f, 1, 256, StatsRegs)
    BY <1>3
  <1>4. CASE f.dir = "eth_port" /\ Shown(f, 1, 256, EthRegs \cup Ipv6Regs)
    BY <1>4
  <1>5. CASE f.dir = "dl_data_ptr" /\ Shown(f, 5, 4, {PointerReg})
    BY <1>5 DEF PointerReg, Rw, Reg
  <1>6. CASE f.dir = "message_filter" /\ Shown(f, 4, 32, FirstFilter)
    <2>1. f.reg.addr \in {\h6100, \h6104, \h6108, \h610C, \h6110}
      BY <1>6 DEF FirstFilter, FilterRegs, Reg
    <2> QED
      BY <1>6, <2>1
  <1> QED
    BY <1>0, <1>1, <1>2, <1>3, <1>4, <1>5, <1>6 DEF ShownSomewhere

LEMMA DirectoriesApart ==
  ASSUME NEW f \in FramerFiles, NEW g \in FramerFiles, f.at = g.at
  PROVE  f.dir = g.dir
  BY FilePlaces, FramerFile DEF FileAt, ShownSomewhere

LEMMA BanksInFramer ==
  /\ MainRegs \subseteq FramerRegs /\ CarrierRegs \subseteq FramerRegs
  /\ StatsRegs \subseteq FramerRegs /\ EthRegs \cup Ipv6Regs \subseteq FramerRegs
  /\ PointerReg \in FramerRegs /\ FirstFilter \subseteq FramerRegs
PROOF
  <1>1. PointerReg \in OranSetupRegs
    BY DEF PointerReg, OranSetupRegs
  <1> QED
    BY <1>1 DEF FramerRegs, MainRegs, CarrierRegs, FirstFilter

\* Two files of directories of one kind that reach the same place are one.
LEMMA SamePlaceSameFile ==
  ASSUME NEW f \in FramerFiles, NEW g \in FramerFiles, f.at = g.at, Overlap(f.at, f.reg, g.at, g.reg)
  PROVE  f = g
PROOF
  <1>1. f.dir = g.dir /\ ShownSomewhere(f) /\ ShownSomewhere(g)
    BY DirectoriesApart, FramerFile
  <1>2. ASSUME f.i = g.i, f.reg \in FramerRegs, g.reg \in FramerRegs,
               f.reg.addr = g.reg.addr,
               f = [dir |-> f.dir, i |-> f.i, reg |-> f.reg, at |-> f.at],
               g = [dir |-> g.dir, i |-> g.i, reg |-> g.reg, at |-> g.at]
        PROVE  f = g
    <2>1. Clash(f.reg, g.reg)
      BY <1>2 DEF Clash, Overlap
    <2> QED
      BY <1>1, <1>2, <2>1, RegistersDisjoint
  <1> USE BanksApart, BanksInFramer, <1>1, <1>2 DEF Shown, Within
  <1>3. CASE f.dir = "xroe"
    <2>1. Shown(f, 1, 0, MainRegs) /\ Shown(g, 1, 0, MainRegs)
      BY <1>3 DEF ShownSomewhere
    <2> QED
      BY <2>1 DEF MainRegs
  <1>4. CASE f.dir = "cc"
    <2>1. Shown(f, 2, 32, CarrierRegs) /\ Shown(g, 2, 32, CarrierRegs)
      BY <1>4 DEF ShownSomewhere
    <2>2. f.reg.addr + 32 * f.i = g.reg.addr + 32 * g.i /\ f.i \in {0, 1} /\ g.i \in {0, 1}
      BY <2>1
    <2>3. f.i = g.i /\ f.reg.addr = g.reg.addr
      BY <2>1, <2>2 DEF CarrierRegs
    <2> QED
      BY <2>1, <2>3
  <1>5. CASE f.dir = "stats"
    <2>1. Shown(f, 1, 256, StatsRegs) /\ Shown(g, 1, 256, StatsRegs)
      BY <1>5 DEF ShownSomewhere
    <2> QED
      BY <2>1
  <1>6. CASE f.dir = "eth_port"
    <2>1. Shown(f, 1, 256, EthRegs \cup Ipv6Regs) /\ Shown(g, 1, 256, EthRegs \cup Ipv6Regs)
      BY <1>6 DEF ShownSomewhere
    <2> QED
      BY <2>1
  <1>7. CASE f.dir = "dl_data_ptr"
    <2>1. Shown(f, 5, 4, {PointerReg}) /\ Shown(g, 5, 4, {PointerReg})
      BY <1>7 DEF ShownSomewhere
    <2>2. PointerReg.addr = \hE500
      BY DEF PointerReg, Rw, Reg
    <2> QED
      BY <2>1, <2>2
  <1>8. CASE f.dir = "message_filter"
    <2>1. Shown(f, 4, 32, FirstFilter) /\ Shown(g, 4, 32, FirstFilter)
      BY <1>8 DEF ShownSomewhere
    <2>2. \A r \in FirstFilter : r.addr \in Int /\ \h6100 <= r.addr /\ r.addr <= \h6110
      BY DEF FirstFilter, FilterRegs, Reg
    <2>3. f.i = g.i /\ f.reg.addr = g.reg.addr
      BY <2>1, <2>2
    <2> QED
      BY <2>1, <2>3
  <1> QED
    BY <1>1, <1>3, <1>4, <1>5, <1>6, <1>7, <1>8 DEF ShownSomewhere

\* No two files show the same bits.
LEMMA NoFilesOverlap == FilesDisjoint
PROOF
  <1>1. ASSUME NEW f \in FramerFiles, NEW g \in FramerFiles, Overlap(f.at, f.reg, g.at, g.reg)
        PROVE  f = g
    BY <1>1, SamePlaceSameFile DEF Overlap
  <1>2. ASSUME NEW f \in TrafficFiles, NEW g \in TrafficFiles, Overlap(f.at, f.reg, g.at, g.reg)
        PROVE  f = g
    <2>1. PICK r \in RadioRegs : f = [dir |-> "traffic", i |-> 0, reg |-> r, at |-> r.addr]
      BY DEF TrafficFiles
    <2>2. PICK s \in RadioRegs : g = [dir |-> "traffic", i |-> 0, reg |-> s, at |-> s.addr]
      BY DEF TrafficFiles
    <2>3. Clash(r, s)
      BY <1>2, <2>1, <2>2 DEF Clash, Overlap
    <2> QED
      BY <2>1, <2>2, <2>3, BankDisjoint
  <1> QED
    BY <1>1, <1>2 DEF FilesDisjoint

\* A filter's file is there for the register of its name in the filter of its
\* number, and that is where it is.
LEMMA FilterMeant ==
  ASSUME NEW f, f.dir = "message_filter", Shown(f, 4, 32, FirstFilter)
  PROVE  /\ Meant(f) \in FramerRegs /\ Meant(f).addr = f.at
         /\ Meant(f).off = f.reg.off /\ Meant(f).width = f.reg.width
PROOF
  <1>1. ASSUME NEW r \in FirstFilter, NEW i \in 0 .. 3
        PROVE  \E q \in FilterRegs : /\ q.name = r.name /\ q.idx = i /\ q.addr = r.addr + 32 * i
                                     /\ q.off = r.off /\ q.width = r.width
    <2>1. \/ r = Reg("DEFM_USER_DATA_FILTER_31_0",   0, \h6100, 0, 32, "rw")
          \/ r = Reg("DEFM_USER_DATA_FILTER_63_32",  0, \h6104, 0, 32, "rw")
          \/ r = Reg("DEFM_USER_DATA_FILTER_95_64",  0, \h6108, 0, 32, "rw")
          \/ r = Reg("DEFM_USER_DATA_FILTER_127_96", 0, \h610C, 0, 32, "rw")
          \/ r = Reg("DEFM_USER_DATA_FILTER_MASK",   0, \h6110, 0, 16, "rw")
      BY DEF FirstFilter, FilterRegs, Reg
    <2>2. Reg(r.name, i, r.addr + 32 * i, r.off, r.width, "rw") \in FilterRegs
      BY <2>1 DEF FilterRegs, Reg
    <2> QED
      BY <2>2 DEF Reg
  <1>2. \A r, s \in FilterRegs : r.name = s.name /\ r.idx = s.idx => r = s
    BY DEF FilterRegs, Reg
  <1>3. PICK q \in FilterRegs : /\ q.name = f.reg.name /\ q.idx = f.i /\ q.addr = f.at
                                /\ q.off = f.reg.off /\ q.width = f.reg.width
    BY <1>1 DEF Shown
  <1>4. Meant(f) = CHOOSE r \in FilterRegs : r.name = f.reg.name /\ r.idx = f.i
    BY DEF Meant
  <1>5. Meant(f) = q
    BY <1>2, <1>3, <1>4
  <1>6. q \in FramerRegs
    BY DEF FramerRegs
  <1> QED
    BY <1>3, <1>5, <1>6

\* A register has a bit.
LEMMA HasBits ==
  ASSUME NEW r \in FramerRegs
  PROVE  r.off \in Int /\ r.width \in Int /\ r.width >= 1
PROOF
  <1> USE DEF Reg, Ro, Rw, Pulse
  <1>1. CASE r \in CfgRegs
    BY <1>1 DEF CfgRegs
  <1>2. CASE r \in SymbolTableRegs
    BY <1>2 DEF SymbolTableRegs
  <1>3. CASE r \in FramRegs \cup DefmRegs
    BY <1>3 DEF FramRegs, DefmRegs
  <1>4. CASE r \in FilterRegs
    BY <1>4 DEF FilterRegs
  <1>5. CASE r \in EthRegs \cup Ipv6Regs
    BY <1>5 DEF EthRegs, Ipv6Regs
  <1>6. CASE r \in StatsRegs
    BY <1>6 DEF StatsRegs
  <1>7. CASE r \in OranRegs \cup OranSetupRegs
    BY <1>7 DEF OranRegs, OranSetupRegs
  <1> QED
    BY <1>1, <1>2, <1>3, <1>4, <1>5, <1>6, <1>7 DEF FramerRegs

\* A file at the place of its register reaches that and nothing else.
LEMMA AtItsRegister ==
  ASSUME NEW f, Meant(f) \in FramerRegs, Meant(f).addr = f.at,
         Meant(f).off = f.reg.off, Meant(f).width = f.reg.width
  PROVE  Reached(f) = {Meant(f)}
PROOF
  <1>1. Overlap(f.at, f.reg, Meant(f).addr, Meant(f))
    BY HasBits DEF Overlap
  <1>2. ASSUME NEW s \in FramerRegs, Overlap(f.at, f.reg, s.addr, s)
        PROVE  s = Meant(f)
    <2>1. Clash(Meant(f), s)
      BY <1>2 DEF Clash, Overlap
    <2> QED
      BY <2>1, RegistersDisjoint
  <1> QED
    BY <1>1, <1>2 DEF Reached

\* The first files of each directory are at the place of their register.
LEMMA FirstFilesReach ==
  ASSUME NEW f \in FramerFiles, f \notin LaterFiles
  PROVE  Reached(f) = {Meant(f)}
PROOF
  <1>1. ShownSomewhere(f) /\ ~(f.dir \in {"cc", "dl_data_ptr"} /\ f.i # 0)
    BY FramerFile DEF LaterFiles
  <1>2. ASSUME f.reg \in FramerRegs, f.at = f.reg.addr, f.dir # "message_filter"
        PROVE  Reached(f) = {Meant(f)}
    <2>1. Meant(f) = f.reg
      BY <1>2 DEF Meant
    <2> QED
      BY <1>2, <2>1, AtItsRegister
  <1> USE BanksApart, BanksInFramer, <1>2 DEF Shown, Within
  <1>3. CASE f.dir = "xroe" /\ Shown(f, 1, 0, MainRegs)
    BY <1>3 DEF MainRegs
  <1>4. CASE f.dir = "cc" /\ Shown(f, 2, 32, CarrierRegs)
    BY <1>1, <1>4 DEF CarrierRegs
  <1>5. CASE f.dir = "stats" /\ Shown(f, 1, 256, StatsRegs)
    BY <1>5
  <1>6. CASE f.dir = "eth_port" /\ Shown(f, 1, 256, EthRegs \cup Ipv6Regs)
    BY <1>6
  <1>7. CASE f.dir = "dl_data_ptr" /\ Shown(f, 5, 4, {PointerReg})
    <2>1. PointerReg.addr = \hE500
      BY DEF PointerReg, Rw, Reg
    <2> QED
      BY <1>1, <1>7, <2>1
  <1>8. CASE f.dir = "message_filter" /\ Shown(f, 4, 32, FirstFilter)
    BY <1>8, FilterMeant, AtItsRegister
  <1> QED
    BY <1>1, <1>3, <1>4, <1>5, <1>6, <1>7, <1>8 DEF ShownSomewhere

\* The addresses of the first carrier's registers
CarrierAddr(a) == a = \hE000 \/ a = \hE004 \/ (\hE100 <= a /\ a <= \hE11C)

\* Where a later file is, and what is there.
LEMMA LaterFilesMiss ==
  ASSUME NEW f \in LaterFiles
  PROVE  /\ Meant(f) \notin Reached(f)
         /\ \A r \in Reached(f) : f.dir = "cc" /\ r.name = "ORAN_CC_SF_SYMBOLS"
PROOF
  <1>1. ShownSomewhere(f) /\ f.dir \in {"cc", "dl_data_ptr"} /\ f.i # 0 /\ Meant(f) = f.reg
    BY FramerFile DEF LaterFiles, Meant
  <1> USE DEF Shown
  <1>2. CASE f.dir = "cc" /\ Shown(f, 2, 32, CarrierRegs)
    <2>1. f.reg.addr \in Int /\ CarrierAddr(f.reg.addr)
      BY <1>2 DEF CarrierRegs, CarrierAddr, OranRegs, Rw, Pulse, Reg
    <2>2. f.at = f.reg.addr + 32
      BY <1>1, <1>2, <2>1
    <2>3. f.at # f.reg.addr
      BY <2>1, <2>2
    <2>4. ASSUME NEW s \in FramerRegs, s.addr = f.at PROVE s.name = "ORAN_CC_SF_SYMBOLS"
      <3>1. s.addr = \hE020 \/ s.addr = \hE024 \/ (\hE120 <= s.addr /\ s.addr <= \hE13C)
        BY <2>1, <2>2, <2>4 DEF CarrierAddr
      <3>2. s.addr \in Int
        BY <2>1, <2>2, <2>4
      <3>3. s \in OranRegs \/ s \in OranSetupRegs
        BY <3>1, <3>2, AddressTellsBank DEF FramerRegs, Within
      <3>4. s \notin OranRegs
        <4>1. s \in OranRegs => CarrierAddr(s.addr)
          BY DEF CarrierAddr, OranRegs, Rw, Pulse, Reg
        <4> QED
          BY <3>1, <3>2, <4>1 DEF CarrierAddr
      <3> QED
        BY <3>1, <3>2, <3>3, <3>4 DEF OranSetupRegs, Rw, Reg
    <2> QED
      BY <1>1, <1>2, <2>3, <2>4 DEF Reached, Overlap
  <1>3. CASE f.dir = "dl_data_ptr" /\ Shown(f, 5, 4, {PointerReg})
    <2>1. PointerReg.addr = \hE500
      BY DEF PointerReg, Rw, Reg
    <2>2. f.at \in Int /\ \hE504 <= f.at /\ f.at <= \hE510
      BY <1>1, <1>3, <2>1
    <2>3. ASSUME NEW s \in FramerRegs, s.addr = f.at PROVE FALSE
      <3>1. s \in OranSetupRegs
        BY <2>2, <2>3, AddressTellsBank DEF Within
      <3>2. s.addr <= \hE500 \/ s.addr >= \hE600
        BY <3>1 DEF OranSetupRegs, Reg, Rw
      <3> QED
        BY <2>2, <2>3, <3>2
    <2> QED
      BY <2>3 DEF Reached, Overlap
  <1> QED
    BY <1>1, <1>2, <1>3 DEF ShownSomewhere

\* The strays are the later files, no less and no more.
LEMMA StraysAre == StraysKnown
PROOF
  <1>1. ASSUME NEW f \in FramerFiles PROVE f \in StrayFiles <=> f \in LaterFiles
    BY FirstFilesReach, LaterFilesMiss DEF StrayFiles
  <1>2. StrayFiles \subseteq FramerFiles /\ LaterFiles \subseteq FramerFiles
    BY DEF StrayFiles, LaterFiles
  <1>3. StrayFiles = LaterFiles
    BY <1>1, <1>2
  <1> QED
    BY <1>3, LaterFilesMiss DEF StraysKnown

\* The words of the antennas are where the header has nothing else.
LEMMA FamiliesAreApart == FamiliesApart
PROOF
  <1>1. \A r \in AntennaRegs : r.addr \in {\h4000, \h4400, \h8000, \h8400, \h8800, \h9800}
    BY DEF AntennaRegs, FramAntennaRegs, DefmAntennaRegs, BufferStateRegs, Rw, Ro, Reg
  <1>2. ASSUME NEW r \in AntennaRegs, NEW w \in WordsOf(r)
        PROVE  w \in Int /\ r.addr <= w /\ w < r.addr + 1024
    BY <1>1, <1>2 DEF WordsOf, AntennaWord, Antennas, FRAMING_REG_SIZE
  <1>3. ASSUME NEW r \in AntennaRegs, NEW f \in FramerFiles PROVE f.at \notin WordsOf(r)
    <2>1. f.at \in WordsOf(r) =>
            \/ (\h4000 <= f.at /\ f.at < \h4800) \/ (\h8000 <= f.at /\ f.at < \h8C00)
            \/ (\h9800 <= f.at /\ f.at < \h9C00)
      BY <1>1, <1>2
    <2> QED
      BY <2>1, FilePlaces, FramerFile DEF FileAt, ShownSomewhere
  <1>4. ASSUME NEW r \in AntennaRegs, NEW s \in AntennaRegs, r.addr # s.addr
        PROVE  WordsOf(r) \cap WordsOf(s) = {}
    BY <1>1, <1>2, <1>4
  <1> QED
    BY <1>3, <1>4 DEF FamiliesApart

-----------------------------------------------------------------------------
(* Theorems about the map *)

\* No two files of a driver show the same bits: a store to one is never a store
\* to the other (the files of sysfs_xroe*.c, with the strides of xroe_framer.h).
THEOREM FilesApartCorrect == Spec => []FilesApart
PROOF
  <1>1. FilesApart
    BY NoFilesOverlap DEF FilesApart
  <1> QED
    BY <1>1, PTL

\* Every file of the framer reaches the register it is there for and no other,
\* those of cc_1 and of dl_data_ptr_1 to 4 apart, none of which does
\* (sysfs_xroe_framer_cfg.c, sysfs_xroe_framer_shared.c).
THEOREM StraysCorrect == Spec => []OnlyLaterFilesStray
PROOF
  <1>1. OnlyLaterFilesStray
    BY StraysAre DEF OnlyLaterFilesStray
  <1> QED
    BY <1>1, PTL

\* The words that the framing commands compute from the number of an antenna are
\* nobody else's (framing_set_fram_func and its like).
THEOREM AntennasCorrect == Spec => []AntennasApart
PROOF
  <1>1. AntennasApart
    BY FamiliesAreApart DEF AntennasApart
  <1> QED
    BY <1>1, PTL
=============================================================================
