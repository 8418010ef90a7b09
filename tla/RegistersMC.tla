---------------------------- MODULE RegistersMC ----------------------------
(***************************************************************************)
(* SysfsReg for TLC: two fields of one word of the framer's first carrier, *)
(* at the places the driver's header gives them.  The bits of the word     *)
(* that have no file are taken for the hardware's.                         *)
(***************************************************************************)
EXTENDS SysfsReg, RegisterMap, TLC

CONSTANTS ul_ud_iq_width, ul_ud_comp_meth

Place(n) ==
  LET r == CHOOSE r \in OranRegs : r.name = n
  IN [cell |-> r.addr, off |-> r.off, width |-> r.width, rw |-> r.mode = "rw",
      base |-> 16, driver |-> "framer", group |-> "cc_0"]

MapAttr ==
  ul_ud_iq_width :> Place("ORAN_CC_UL_UD_IQ_WIDTH")
  @@ ul_ud_comp_meth :> Place("ORAN_CC_UL_UD_COMP_METH")

MapWritable == [c \in Cell |-> UNION {Mask[f] : f \in Field}]
ZeroReg == [c \in Cell |-> {}]

\* 0x12, too wide for four bits; 1; g
SmallTexts == {
  [prefix |-> TRUE, high |-> 1, low |-> 2], [prefix |-> FALSE, high |-> 0, low |-> 1],
  [prefix |-> FALSE, high |-> 0, low |-> 16]}
SmallWords == {{0, 9}}

Symmetry == Permutations(Proc)

-----------------------------------------------------------------------------
(* The places the driver takes registers to be at, once its files are made *)

Made == phase["framer"] = "mapped" /\ todo["framer"] = {}

(***************************************************************************)
(* No two files show the same bits, whatever the directories and however   *)
(* their addresses are computed: a store to one is never a store to the    *)
(* other (the strides of xroe_framer.h against the headers' addresses).    *)
(***************************************************************************)
FilesApart == Made => FilesDisjoint

(***************************************************************************)
(* Each file reaches the register it is there for, all of it, and no other *)
(* the header names, but for the directories cc_1 and dl_data_ptr_1 to 4,  *)
(* none of whose files does.  The header has the registers of one carrier, *)
(* 108 bytes of them, and one pointer; the driver takes those of the next  *)
(* to be 32 bytes, and 4, further on.  There the pointers meet nothing the *)
(* header names, and the carrier nothing but the table of symbols of its   *)
(* first one, which twelve of its sixteen files change.                    *)
(***************************************************************************)
OnlyLaterFilesStray == Made => StraysKnown

(***************************************************************************)
(* Up to antenna 255, the framing commands of xroe-app, which compute      *)
(* their addresses from a number the user gives, reach no register that    *)
(* has a file, and the words of one family are none of another's           *)
(* (framer_regs and deframer_regs against the map of the driver).          *)
(***************************************************************************)
AntennasApart == Made => FamiliesApart
=============================================================================
