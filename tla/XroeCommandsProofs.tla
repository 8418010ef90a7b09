------------------------- MODULE XroeCommandsProofs -------------------------
(***************************************************************************)
(* Theorems about XroeCommands, for any number of antennas and any values  *)
(* of the registers.                                                       *)
(***************************************************************************)
EXTENDS XroeCommands, SequenceTheorems, TLAPS

-----------------------------------------------------------------------------
(* The items of the commands *)

FirstItems ==
  <<FileItem("radio_source_enable", "Enable"), FileItem("radio_cdc_error_31_0", "Error"),
    FileItem("radio_cdc_status_31_0", "Status"), FileItem("radio_cdc_loopback", "Loopback"),
    FileItem("radio_cdc_error_31_0", "ant_error")>>
LastItems == <<FileItem("radio_cdc_loopback", "Loopback")>>

RadioItem ==
  {FirstItems[j] : j \in 1 .. 5} \cup {AntennaItems(i)[j] : i \in Nat, j \in 1 .. 6} \cup {LastItems[1]}

LEMMA AntennaItemsAre ==
  ASSUME NEW i \in Nat
  PROVE  /\ AntennaItems(i)[5].target = <<"Rwin", i>>
         /\ \A j \in 1 .. 6 : AntennaItems(i)[j].target[1] = "Pdu" => j = 6
         /\ AntennaItems(i)[6].target = <<"Pdu", i>>
PROOF
  <1>1. /\ AntennaItems(i)[1] = RegItem("DATA_BUFFER_STATE_ALIGNMENT", i, "Align")
        /\ AntennaItems(i)[2] = RegItem("DATA_BUFFER_STATE_REGULAR", i, "Regular")
        /\ AntennaItems(i)[3] = RegItem("DATA_BUFFER_STATE_OVERFLOW", i, "Overflow")
        /\ AntennaItems(i)[4] = RegItem("DATA_BUFFER_STATE_UNDERFLOW", i, "Overflow")
        /\ AntennaItems(i)[5] = RegItem("DATA_BUFFER_STATE_RWIN", i, "Rwin")
        /\ AntennaItems(i)[6] = RegItem("DATA_BUFFER_STATE_LATENCY", i, "Pdu")
    BY DEF AntennaItems
  <1> HIDE DEF AntennaItems
  <1>2. \A j \in 1 .. 6 : j \in {1, 2, 3, 4, 5, 6}
    OBVIOUS
  <1>4. \A j \in 1 .. 6 : AntennaItems(i)[j].target[1] = "Pdu" => j = 6
    BY <1>1, <1>2 DEF RegItem
  <1> QED
    BY <1>1, <1>4 DEF RegItem

\* The items of the antennas, one after the other
AllAntennas ==
  [n \in 1 .. 6 * MAX_NUMBER_OF_ANTENNAS |-> AntennaItems((n - 1) \div 6)[1 + ((n - 1) % 6)]]

LEMMA SameRange ==
  ASSUME NEW a \in Nat, NEW b \in Nat, 1 .. a = 1 .. b
  PROVE  a = b
  OBVIOUS

LEMMA AllAntennasAre ==
  /\ AllAntennas \in Seq(RadioItem) /\ Len(AllAntennas) = 6 * MAX_NUMBER_OF_ANTENNAS
  /\ \A n \in 1 .. Len(AllAntennas) :
       AllAntennas[n].target[1] = "Pdu" =>
         n - 1 \in 1 .. Len(AllAntennas) /\ AllAntennas[n - 1].target = <<"Rwin", AllAntennas[n].target[2]>>
PROOF
  <1> DEFINE all == 6 * MAX_NUMBER_OF_ANTENNAS
             a(n) == (n - 1) \div 6
             j(n) == 1 + ((n - 1) % 6)
  <1>1. all \in Nat
    BY AntennaAssumption
  <1>2. ASSUME NEW n \in 1 .. all PROVE a(n) \in Nat /\ j(n) \in 1 .. 6 /\ n = 6 * a(n) + j(n)
    BY <1>1, <1>2
  <1>3. \A n \in 1 .. all : AllAntennas[n] = AntennaItems(a(n))[j(n)]
    BY DEF AllAntennas
  <1>4. AllAntennas \in [1 .. all -> RadioItem]
    BY <1>2 DEF AllAntennas, RadioItem
  <1> HIDE DEF all
  <1>5. AllAntennas \in Seq(RadioItem) /\ Len(AllAntennas) = all
    <2>1. AllAntennas \in Seq(RadioItem)
      BY <1>1, <1>4, SeqDef
    <2>2. DOMAIN AllAntennas = 1 .. Len(AllAntennas) /\ Len(AllAntennas) \in Nat
      BY <2>1, LenProperties
    <2>3. DOMAIN AllAntennas = 1 .. all
      BY <1>4
    <2> QED
      BY <1>1, <2>1, <2>2, <2>3, SameRange
  <1>6. ASSUME NEW n \in 1 .. all, AllAntennas[n].target[1] = "Pdu"
        PROVE  n - 1 \in 1 .. all /\ AllAntennas[n - 1].target = <<"Rwin", AllAntennas[n].target[2]>>
    <2>1. a(n) \in Nat /\ j(n) \in 1 .. 6 /\ n = 6 * a(n) + j(n) /\ AllAntennas[n] = AntennaItems(a(n))[j(n)]
      BY <1>2, <1>3
    <2>2. j(n) = 6
      <3> HIDE DEF a, j
      <3> QED
        BY <1>6, <2>1, AntennaItemsAre
    <2>3. n - 1 \in 1 .. all /\ a(n - 1) = a(n) /\ j(n - 1) = 5
      <3> DEFINE i == a(n)
      <3>1. i \in Nat /\ n = 6 * i + 6
        BY <2>1, <2>2
      <3> HIDE DEF i
      <3>2. n - 1 \in 1 .. all
        BY <1>1, <3>1
      <3>3. ((n - 1) - 1) \div 6 = i /\ ((n - 1) - 1) % 6 = 4
        BY <3>1
      <3> QED
        BY <3>2, <3>3 DEF i
    <2>4. AllAntennas[n - 1] = AntennaItems(a(n))[5]
      BY <1>3, <2>3
    <2> HIDE DEF a, j
    <2>5. AllAntennas[n - 1].target = <<"Rwin", a(n)>> /\ AllAntennas[n].target = <<"Pdu", a(n)>>
      BY <2>1, <2>2, <2>4, AntennaItemsAre
    <2> QED
      BY <2>3, <2>5
  <1> QED
    BY <1>5, <1>6 DEF all

LEMMA ShortSeqs ==
  ASSUME NEW S, NEW a \in S, NEW b \in S, NEW c \in S, NEW d \in S, NEW e \in S
  PROVE  <<a, b, c, d, e>> \in Seq(S) /\ <<a>> \in Seq(S)
  OBVIOUS

LEMMA RadioItemsAre ==
  /\ RadioItems \in Seq(RadioItem) /\ Len(RadioItems) \in Nat \ {0}
  /\ \A n \in 1 .. Len(RadioItems) :
       RadioItems[n].target[1] = "Pdu" =>
         \E k \in 1 .. Len(RadioItems) : RadioItems[k].target = <<"Rwin", RadioItems[n].target[2]>>
PROOF
  <1>1. RadioItems = (FirstItems \o AllAntennas) \o LastItems
    BY DEF RadioItems, FirstItems, AllAntennas, LastItems
  <1>2. /\ FirstItems \in Seq(RadioItem) /\ Len(FirstItems) = 5
        /\ LastItems \in Seq(RadioItem) /\ Len(LastItems) = 1
    <2>1. Len(FirstItems) = 5 /\ Len(LastItems) = 1
      BY DEF FirstItems, LastItems
    <2>2. /\ FirstItems = <<FirstItems[1], FirstItems[2], FirstItems[3], FirstItems[4], FirstItems[5]>>
          /\ LastItems = <<LastItems[1]>>
      BY DEF FirstItems, LastItems
    <2>3. /\ FirstItems[1] \in RadioItem /\ FirstItems[2] \in RadioItem /\ FirstItems[3] \in RadioItem
          /\ FirstItems[4] \in RadioItem /\ FirstItems[5] \in RadioItem /\ LastItems[1] \in RadioItem
      BY DEF RadioItem
    <2>4. /\ <<FirstItems[1], FirstItems[2], FirstItems[3], FirstItems[4], FirstItems[5]>> \in Seq(RadioItem)
          /\ <<LastItems[1]>> \in Seq(RadioItem)
      BY <2>3, ShortSeqs
    <2> QED
      BY <2>1, <2>2, <2>4, Zenon
  <1>3. /\ \A n \in 1 .. 5 : FirstItems[n].target[1] # "Pdu"
        /\ LastItems[1].target[1] # "Pdu"
    <2>1. \A n \in 1 .. 5 : n \in {1, 2, 3, 4, 5}
      OBVIOUS
    <2> QED
      BY <2>1 DEF FirstItems, LastItems, FileItem
  <1> DEFINE all == Len(AllAntennas)
  <1>4. AllAntennas \in Seq(RadioItem) /\ all \in Nat
    BY AllAntennasAre, LenProperties
  <1> HIDE DEF all
  <1>5. /\ FirstItems \o AllAntennas \in Seq(RadioItem) /\ Len(FirstItems \o AllAntennas) = 5 + all
        /\ \A i \in 1 .. 5 + all : (FirstItems \o AllAntennas)[i] = IF i <= 5 THEN FirstItems[i] ELSE AllAntennas[i - 5]
    <2>1. /\ FirstItems \o AllAntennas \in Seq(RadioItem)
          /\ Len(FirstItems \o AllAntennas) = Len(FirstItems) + Len(AllAntennas)
          /\ \A i \in 1 .. Len(FirstItems) + Len(AllAntennas) :
               (FirstItems \o AllAntennas)[i] =
                 IF i <= Len(FirstItems) THEN FirstItems[i] ELSE AllAntennas[i - Len(FirstItems)]
      BY <1>2, <1>4, ConcatProperties, Zenon
    <2> QED
      BY <1>2, <2>1, Zenon DEF all
  <1>6. /\ RadioItems \in Seq(RadioItem) /\ Len(RadioItems) = 5 + all + 1
        /\ \A i \in 1 .. 5 + all + 1 :
             RadioItems[i] = IF i <= 5 THEN FirstItems[i]
                             ELSE IF i <= 5 + all THEN AllAntennas[i - 5] ELSE LastItems[i - (5 + all)]
    <2> DEFINE s == FirstItems \o AllAntennas
    <2> HIDE DEF s
    <2>1. s \in Seq(RadioItem) /\ Len(s) = 5 + all
      BY <1>5 DEF s
    <2>2. /\ s \o LastItems \in Seq(RadioItem) /\ Len(s \o LastItems) = Len(s) + Len(LastItems)
          /\ \A i \in 1 .. Len(s) + Len(LastItems) :
               (s \o LastItems)[i] = IF i <= Len(s) THEN s[i] ELSE LastItems[i - Len(s)]
      BY <1>2, <2>1, ConcatProperties
    <2>3. RadioItems = s \o LastItems
      BY <1>1 DEF s
    <2>4. \A i \in 1 .. 5 + all : s[i] = IF i <= 5 THEN FirstItems[i] ELSE AllAntennas[i - 5]
      BY <1>5 DEF s
    <2> QED
      BY <1>2, <1>4, <2>1, <2>2, <2>3, <2>4
  <1>7. ASSUME NEW n \in 1 .. 5 + all + 1, RadioItems[n].target[1] = "Pdu"
        PROVE  \E k \in 1 .. 5 + all + 1 : RadioItems[k].target = <<"Rwin", RadioItems[n].target[2]>>
    <2>1. 5 < n /\ n <= 5 + all /\ RadioItems[n] = AllAntennas[n - 5] /\ n - 5 \in 1 .. all
      BY <1>3, <1>4, <1>6, <1>7
    <2>2. n - 5 - 1 \in 1 .. all /\ AllAntennas[n - 5 - 1].target = <<"Rwin", AllAntennas[n - 5].target[2]>>
      BY <1>7, <2>1, AllAntennasAre DEF all
    <2>3. n - 1 \in 1 .. 5 + all + 1 /\ RadioItems[n - 1] = AllAntennas[n - 5 - 1]
      BY <1>4, <1>6, <2>1, <2>2
    <2> QED
      BY <2>1, <2>2, <2>3
  <1> DEFINE len == 5 + all + 1
  <1>8. len \in Nat \ {0}
    BY <1>4
  <1> HIDE DEF len
  <1>9. RadioItems \in Seq(RadioItem) /\ Len(RadioItems) = len
    BY <1>6 DEF len
  <1>10. \A n \in 1 .. len : RadioItems[n].target[1] = "Pdu" =>
            \E k \in 1 .. len : RadioItems[k].target = <<"Rwin", RadioItems[n].target[2]>>
    BY <1>7 DEF len
  <1> QED
    BY <1>8, <1>9, <1>10, Zenon

LEMMA StatsItemsAre ==
  /\ DOMAIN StatsItems = 1 .. 17 /\ Len(StatsItems) = 17
  /\ \A n \in 1 .. Len(StatsItems) : StatsItems[n].target[1] # "Pdu"
  /\ StatsItems[1].via = "stats"
PROOF
  <1>1. DOMAIN StatsItems = 1 .. 17 /\ Len(StatsItems) = 17
    BY DEF StatsItems
  <1>2. \A n \in 1 .. 17 : n \in {1, 2, 3, 4, 5, 6, 7, 8, 9, 10, 11, 12, 13, 14, 15, 16, 17}
    OBVIOUS
  <1>3. \A n \in 1 .. 17 : StatsItems[n].target[1] # "Pdu"
    BY <1>2 DEF StatsItems, StatsItem, RegItem
  <1>4. StatsItems[1].via = "stats"
    BY DEF StatsItems, StatsItem
  <1> QED
    BY <1>1, <1>3, <1>4

\* Every command has items; they are read from fields and into targets.
LEMMA ItemsAre ==
  /\ DOMAIN Items = {"radio_ctrl", "stats"}
  /\ \A c \in DOMAIN Items :
       /\ Len(Items[c]) \in Nat \ {0} /\ DOMAIN Items[c] = 1 .. Len(Items[c])
       /\ \A i \in 1 .. Len(Items[c]) : Items[c][i].target \in Target /\ Items[c][i].field \in Field
  /\ PcId \in Field
  /\ \A t \in Target : t[1] = "Pdu" => <<"Rwin", t[2]>> \in Target
  /\ Items["radio_ctrl"] = RadioItems /\ Items["stats"][1].via = "stats"
PROOF
  <1>1. /\ DOMAIN Items = {"radio_ctrl", "stats"}
        /\ Items["radio_ctrl"] = RadioItems /\ Items["stats"] = StatsItems
    BY DEF Items
  <1>2. /\ Len(RadioItems) \in Nat \ {0} /\ DOMAIN RadioItems = 1 .. Len(RadioItems)
        /\ Len(StatsItems) \in Nat \ {0} /\ DOMAIN StatsItems = 1 .. Len(StatsItems)
    BY RadioItemsAre, StatsItemsAre, LenProperties
  <1> HIDE DEF RadioItems, StatsItems, Items
  <1>3. /\ \A i \in DOMAIN RadioItems : RadioItems[i].target \in Target /\ RadioItems[i].field \in Field
        /\ \A i \in DOMAIN StatsItems : StatsItems[i].target \in Target /\ StatsItems[i].field \in Field
    BY DEF Target, Field, Range
  <1>4. ASSUME NEW t \in Target, t[1] = "Pdu" PROVE <<"Rwin", t[2]>> \in Target
    <2>1. \/ \E i \in DOMAIN RadioItems : t = RadioItems[i].target
          \/ \E i \in DOMAIN StatsItems : t = StatsItems[i].target
      BY DEF Target, Range
    <2>2. PICK i \in DOMAIN RadioItems : t = RadioItems[i].target
      BY <1>2, <1>4, <2>1, StatsItemsAre
    <2>3. PICK k \in DOMAIN RadioItems : RadioItems[k].target = <<"Rwin", RadioItems[i].target[2]>>
      BY <1>2, <1>4, <2>2, RadioItemsAre, Zenon
    <2> QED
      BY <1>3, <2>2, <2>3
  <1>5. PcId \in Field
    BY DEF Field
  <1>6. Items["stats"][1].via = "stats"
    BY <1>1, StatsItemsAre
  <1> QED
    BY <1>1, <1>2, <1>3, <1>4, <1>5, <1>6

-----------------------------------------------------------------------------
(* Types *)

CmdRecord ==
  cmd \in [name : {"none", "crashed", "set_fram", "radio_ctrl", "stats"}, at : Nat, got : Nat]

Sweep == cmd.name \in DOMAIN Items

TypeInv == TypeOK /\ CmdRecord

\* What a command is at, by its name
LEMMA AtItem ==
  ASSUME TypeInv
  PROVE  /\ Sweep => /\ cmd.at \in 1 .. Len(Items[cmd.name]) /\ cmd.got \in {0, 1}
                     /\ cmd.name \in {"radio_ctrl", "stats"}
                     /\ Item.target \in Target /\ Item.field \in Field
         /\ cmd.name = "set_fram" => cmd.at = 1 /\ cmd.got \in Value
         /\ cmd = Idling => ~Sweep
PROOF
  <1>1. DOMAIN Items = {"radio_ctrl", "stats"}
    BY ItemsAre
  <1>2. Sweep => cmd.at \in 1 .. Len(Items[cmd.name]) /\ cmd.got \in {0, 1}
    <2> HIDE DEF Items
    <2> QED
      BY <1>1 DEF TypeInv, TypeOK, Sweep, Idling, Crashed
  <1>3. Sweep => Item.target \in Target /\ Item.field \in Field
    <2> HIDE DEF Items, Target, Field
    <2> QED
      BY <1>2, ItemsAre DEF Item, Sweep
  <1>4. cmd.name = "set_fram" => cmd.at = 1 /\ cmd.got \in Value
    <2> HIDE DEF Items
    <2> QED
      BY <1>1 DEF TypeInv, TypeOK, Idling, Crashed
  <1>5. cmd = Idling => ~Sweep
    <2> HIDE DEF Items
    <2> QED
      BY <1>1 DEF Sweep, Idling
  <1>6. Sweep => cmd.name \in {"radio_ctrl", "stats"}
    BY <1>1 DEF Sweep
  <1> QED
    BY <1>2, <1>3, <1>4, <1>5, <1>6

\* A register that cannot be read leaves a value the variables may have.
LEMMA LeftoverType ==
  ASSUME TypeInv, NEW t \in Target
  PROVE  Leftover(t) \in Value \cup {Never, Unparsed}
PROOF
  <1>1. t[1] = "Pdu" => <<"Rwin", t[2]>> \in Target
    BY ItemsAre
  <1>2. report \in [Target -> Value \cup {Never, Unparsed}]
    BY DEF TypeInv, TypeOK
  <1> HIDE DEF Target
  <1> QED
    BY <1>1, <1>2, ValueAssumption DEF Leftover

\* The end of an item leaves the daemon at the next one, or idle.
LEMMA AdvanceType ==
  ASSUME TypeInv, Sweep, Advance
  PROVE  /\ CmdRecord' /\ reply'.ret \in {0, -1}
         /\ \/ cmd' = Idling
            \/ cmd'.name \in DOMAIN Items /\ cmd'.at \in 1 .. Len(Items[cmd'.name]) /\ cmd'.got \in {0, 1}
PROOF
  <1> DEFINE len == Len(Items[cmd.name])
  <1>1. /\ cmd.at \in 1 .. len /\ len \in Nat /\ cmd.name \in {"radio_ctrl", "stats"}
        /\ cmd.name \in DOMAIN Items /\ reply.ret \in {0, -1}
    BY AtItem, ItemsAre DEF Sweep, TypeInv, TypeOK
  <1>2. CASE cmd.at = len
    BY <1>2 DEF Advance, Idling, Return, CmdRecord
  <1>3. CASE cmd.at # len
    <2>1. cmd' = [cmd EXCEPT !.at = cmd.at + 1, !.got = 0] /\ reply' = reply
      BY <1>3 DEF Advance
    <2> HIDE DEF Items
    <2>2. cmd'.name = cmd.name /\ cmd'.at = cmd.at + 1 /\ cmd'.got = 0 /\ CmdRecord'
      <3> DEFINE Rec == [name : {"none", "crashed", "set_fram", "radio_ctrl", "stats"}, at : Nat, got : Nat]
      <3>1. cmd \in Rec
        BY DEF TypeInv, CmdRecord
      <3>2. cmd' = [cmd EXCEPT !.at = cmd.at + 1, !.got = 0]
        BY <2>1
      <3> DEFINE next == [cmd EXCEPT !.at = cmd.at + 1]
      <3>3. next \in Rec
        BY <3>1
      <3>4. cmd' = [next EXCEPT !.got = 0]
        BY <3>2
      <3>5. [next EXCEPT !.got = 0] \in Rec
        <4> HIDE DEF next
        <4> QED
          BY <3>3
      <3>6. cmd'.name = cmd.name /\ cmd'.at = cmd.at + 1 /\ cmd'.got = 0
        BY <3>1, <3>2
      <3> QED
        BY <3>4, <3>5, <3>6, Zenon DEF CmdRecord
    <2> HIDE DEF len
    <2>3. cmd'.at \in 1 .. len
      BY <1>1, <1>3, <2>2
    <2> QED
      BY <1>1, <2>1, <2>2, <2>3 DEF len
  <1> QED
    BY <1>2, <1>3

LEMMA TypeKept ==
  ASSUME TypeInv, [Next]_vars
  PROVE  TypeInv'
PROOF
  <1> HIDE DEF Items, Target, Field, PcId, Idling, Crashed
  <1>0. /\ report \in [Target -> Value \cup {Never, Unparsed}]
        /\ reply.ret \in {0, -1}
        /\ value \in [Field -> Value]
        /\ CmdRecord
        /\ \/ cmd \in {Idling, Crashed}
           \/ cmd.name = "set_fram" /\ cmd.at = 1 /\ cmd.got \in Value
           \/ cmd.name \in DOMAIN Items /\ cmd.at \in 1 .. Len(Items[cmd.name]) /\ cmd.got \in {0, 1}
    BY DEF TypeInv, TypeOK
  <1>1. CASE UNCHANGED vars
    BY <1>0, <1>1 DEF vars, TypeInv, TypeOK, CmdRecord
  \* The daemon, idle
  <1>2. ASSUME cmd' = Idling, reply'.ret \in {0, -1},
               report' \in [Target -> Value \cup {Never, Unparsed}], value' \in [Field -> Value]
        PROVE  TypeInv'
    BY <1>2 DEF TypeInv, TypeOK, CmdRecord, Idling
  <1>3. ASSUME NEW c \in DOMAIN Items, BeginSweep(c) PROVE TypeInv'
    <2>1. 1 \in 1 .. Len(Items[c]) /\ c \in {"radio_ctrl", "stats"}
      BY ItemsAre
    <2>2. cmd'.name = c /\ cmd'.at = 1 /\ cmd'.got = 0 /\ reply'.ret = 0 /\ CmdRecord'
      BY <1>3, <2>1 DEF BeginSweep, NoReply, CmdRecord
    <2>3. UNCHANGED <<report, value>>
      BY <1>3 DEF BeginSweep, system
    <2> QED
      BY <1>0, <2>1, <2>2, <2>3 DEF TypeInv, TypeOK
  <1>4. CASE OpenFile
    <2>1. /\ Sweep /\ cmd' = [cmd EXCEPT !.got = 1] /\ UNCHANGED <<report, reply, value>>
      BY <1>4 DEF OpenFile, Sweeping, Sweep, system
    <2>2. cmd'.name = cmd.name /\ cmd'.at = cmd.at /\ cmd'.got = 1 /\ CmdRecord'
      BY <1>0, <2>1 DEF CmdRecord
    <2>3. cmd.at \in 1 .. Len(Items[cmd.name])
      BY <2>1, AtItem
    <2> QED
      BY <1>0, <2>1, <2>2, <2>3 DEF TypeInv, TypeOK, Sweep
  \* An item that has been read
  <1>5. ASSUME Sweep, Advance, NEW v \in Value \cup {Never, Unparsed}, UNCHANGED value,
               report' = [report EXCEPT ![Item.target] = v]
        PROVE  TypeInv'
    <2>1. report' \in [Target -> Value \cup {Never, Unparsed}]
      BY <1>0, <1>5, AtItem
    <2> QED
      BY <1>0, <1>5, <2>1, AdvanceType DEF TypeInv, TypeOK
  <1>6. CASE ReadFile
    <2>1. Sweep /\ UNCHANGED value
      BY <1>6 DEF ReadFile, Sweeping, Sweep, system
    <2>2. CASE loaded
      <3>1. value[Item.field] \in Value
        BY <1>0, <2>1, AtItem
      <3> QED
        BY <1>5, <1>6, <2>1, <2>2, <3>1 DEF ReadFile
    <2>3. CASE ~loaded
      <3>1. cmd' = Crashed /\ UNCHANGED <<report, reply>>
        BY <1>6, <2>3 DEF ReadFile
      <3> QED
        BY <1>0, <2>1, <3>1 DEF TypeInv, TypeOK, CmdRecord, Crashed
    <2> QED
      BY <2>2, <2>3
  <1>7. CASE NoFile \/ RefuseRegister
    BY <1>0, <1>2, <1>7 DEF NoFile, RefuseRegister, Abandon, Return, system
  <1>8. CASE NoStatsFile
    <2>1. Sweep /\ report' = [report EXCEPT ![Item.target] = Unparsed]
      BY <1>8 DEF NoStatsFile, Sweeping, Sweep
    <2>2. report' \in [Target -> Value \cup {Never, Unparsed}]
      BY <1>0, <2>1, AtItem
    <2> QED
      BY <1>0, <1>2, <1>8, <2>2 DEF NoStatsFile, Abandon, Return, system
  <1>9. CASE ReadRegister
    <2> DEFINE v == IF dev THEN value[Item.field] ELSE Leftover(Item.target)
    <2>1. Sweep /\ UNCHANGED value /\ Advance /\ report' = [report EXCEPT ![Item.target] = v]
      BY <1>9 DEF ReadRegister, Sweeping, Sweep, system
    <2>2. v \in Value \cup {Never, Unparsed}
      <3>1. Item.target \in Target /\ Item.field \in Field
        BY <2>1, AtItem
      <3>2. value[Item.field] \in Value /\ Leftover(Item.target) \in Value \cup {Never, Unparsed}
        BY <1>0, <3>1, LeftoverType
      <3> QED
        BY <3>2
    <2> HIDE DEF v
    <2> QED
      BY <1>5, <2>1, <2>2
  <1>10. ASSUME NEW w \in Value, BeginSet(w) PROVE TypeInv'
    <2>1. cmd' = [name |-> "set_fram", at |-> 1, got |-> w] /\ w \in Nat
      BY <1>10, ValueAssumption DEF BeginSet
    <2>2. CmdRecord' /\ cmd'.name = "set_fram" /\ cmd'.at = 1 /\ cmd'.got = w
      BY <2>1 DEF CmdRecord
    <2> QED
      BY <1>0, <1>10, <2>2 DEF BeginSet, NoReply, system, TypeInv, TypeOK
  <1>11. CASE EndSet
    <2>1. cmd.got \in Value
      BY <1>11, AtItem DEF EndSet
    <2>2. value' = [value EXCEPT ![PcId] = cmd.got] \/ value' = value
      BY <1>11 DEF EndSet
    <2>3. value' \in [Field -> Value]
      BY <1>0, <2>1, <2>2
    <2>4. cmd' = Idling /\ reply'.ret = 0 /\ report' = report
      BY <1>11 DEF EndSet, Return
    <2> QED
      BY <1>0, <1>2, <2>3, <2>4
  <1>12. CASE GetField
    <2>1. cmd' = Idling /\ reply'.ret = 0 /\ UNCHANGED <<report, value>>
      BY <1>12 DEF GetField, Return, system
    <2> QED
      BY <1>0, <1>2, <2>1
  <1>13. CASE IdleCommand
    BY <1>0, <1>2, <1>13 DEF IdleCommand, RestartXxv, SwitchFramer, SwitchLoopback, Idle, Return, system
  <1>14. CASE Surroundings
    <2>1. value' \in [Field -> Value]
      BY <1>0, <1>14 DEF Surroundings
    <2> QED
      BY <1>0, <1>14, <2>1 DEF Surroundings, NoReply, TypeInv, TypeOK, CmdRecord
  <1> QED
    BY <1>1, <1>3, <1>4, <1>6, <1>7, <1>8, <1>9, <1>10, <1>11, <1>12, <1>13, <1>14
    DEF Next, Working, Starting

LEMMA TypeAtInit == Init => TypeInv
PROOF
  <1> HIDE DEF Items, Target, Field
  <1> QED
    BY ValueAssumption DEF Init, TypeInv, TypeOK, CmdRecord, NoReply, Idling

\* The daemon is idle, dead or at an item of its command, whatever the number of
\* antennas, and what it returns is 0 or -1.
THEOREM TypeCorrect == Spec => []TypeOK
PROOF
  <1>1. Spec => []TypeInv
    BY TypeAtInit, TypeKept, PTL DEF Spec
  <1>2. TypeInv => TypeOK
    BY DEF TypeInv
  <1> QED
    BY <1>1, <1>2, PTL

-----------------------------------------------------------------------------
(* What a reply can be relied on for *)

\* An item shows what its register has meanwhile shown, or is one for which the
\* device could not be opened.
Fresh(item) ==
  report[item.target] \in shown[item.field] \/ (item.via = "ip" /\ item.target \in missed)

\* The same of the next state, for an item of this one.
FreshNext(item) ==
  report'[item.target] \in shown'[item.field] \/ (item.via = "ip" /\ item.target \in missed')

\* Item i is the last before item n that is read into its variable.
LastBefore(items, i, n) == \A j \in 1 .. n - 1 : items[j].target = items[i].target => j <= i

\* The items a command has behind it are fresh, those that were read again
\* later apart.
SweepInv ==
  Sweep => \A i \in 1 .. cmd.at - 1 :
             LastBefore(Items[cmd.name], i, cmd.at) => Fresh(Items[cmd.name][i])

\* stats does not get beyond its first item.
StatsInv == cmd.name = "stats" => cmd.at = 1

\* A command under way has not answered, nor has a daemon that is dead.
QuietInv == cmd # Idling => reply = NoReply

FreshInv == TypeInv /\ SweepInv /\ StatsInv /\ QuietInv /\ ReplyIsFresh

\* An item stays fresh for as long as the command goes on and its variable is
\* left alone.
LEMMA FreshKept ==
  ASSUME NEW item, item.field \in Field, Fresh(item), cmd # Idling, Witness,
         report'[item.target] = report[item.target],
         item.target \in missed => item.target \in missed'
  PROVE  FreshNext(item)
PROOF
  <1> HIDE DEF Field, Idling
  <1>1. Running
    BY DEF Running
  <1>2. shown'[item.field] = shown[item.field] \cup {value'[item.field]}
    BY <1>1 DEF Witness
  <1> QED
    BY <1>2 DEF Fresh, FreshNext

\* An item just read is fresh.
LEMMA FreshRead ==
  ASSUME NEW item, item.field \in Field, cmd # Idling, Witness, UNCHANGED value,
         report'[item.target] = value[item.field] \/ (item.via = "ip" /\ item.target \in missed')
  PROVE  FreshNext(item)
PROOF
  <1> HIDE DEF Field, Idling
  <1>1. Running
    BY DEF Running
  <1>2. value'[item.field] \in shown'[item.field]
    BY <1>1 DEF Witness
  <1> QED
    BY <1>2 DEF Fresh, FreshNext

LEMMA NoReplyFresh ==
  ASSUME reply' = NoReply
  PROVE  ReplyIsFresh'
PROOF
  <1> HIDE DEF Items, PcId
  <1> QED
    BY ItemsAre DEF ReplyIsFresh, NoReply

\* A command that goes on with its item, its variables left alone
LEMMA SweepGoesOn ==
  ASSUME FreshInv, Witness, UNCHANGED report, cmd'.name = cmd.name, cmd'.at = cmd.at,
         cmd # Idling => UNCHANGED missed
  PROVE  SweepInv' /\ StatsInv'
PROOF
  <1> HIDE DEF Items, Field
  <1> SUFFICES ASSUME Sweep, NEW i \in 1 .. cmd.at - 1, LastBefore(Items[cmd.name], i, cmd.at)
               PROVE  FreshNext(Items[cmd.name][i])
    <2>1. Items' = Items
      BY DEF Items
    <2>2. StatsInv'
      BY DEF FreshInv, StatsInv
    <2> QED
      BY <2>1, <2>2 DEF SweepInv, Sweep, LastBefore, Fresh, FreshNext
  <1>1. cmd.at \in 1 .. Len(Items[cmd.name]) /\ cmd # Idling /\ cmd.name \in DOMAIN Items
    BY AtItem DEF FreshInv, Sweep
  <1>2. i \in 1 .. Len(Items[cmd.name])
    BY <1>1, ItemsAre
  <1> DEFINE item == Items[cmd.name][i]
  <1>3. item.field \in Field
    BY <1>1, <1>2, ItemsAre
  <1>4. Fresh(item)
    BY DEF FreshInv, SweepInv
  <1> HIDE DEF item
  <1>5. FreshNext(item)
    BY <1>1, <1>3, <1>4, FreshKept
  <1> QED
    BY <1>5 DEF item

\* A command that has read its item
LEMMA SweepAdvances ==
  ASSUME FreshInv, Witness, UNCHANGED system, Sweep, Advance, NEW v,
         report' = [report EXCEPT ![Item.target] = v], Item.via # "stats",
         \A t : t # Item.target /\ t \in missed => t \in missed',
         v = value[Item.field] \/ (Item.via = "ip" /\ Item.target \in missed')
  PROVE  SweepInv' /\ StatsInv' /\ QuietInv' /\ ReplyIsFresh'
PROOF
  <1> DEFINE items == Items[cmd.name]
             n == cmd.at
  <1>1. /\ n \in 1 .. Len(items) /\ Len(items) \in Nat /\ cmd # Idling /\ cmd.name \in DOMAIN Items
        /\ cmd.name \in {"radio_ctrl", "stats"}
        /\ DOMAIN items = 1 .. Len(items)
        /\ \A i \in 1 .. Len(items) : items[i].target \in Target /\ items[i].field \in Field
    <2> HIDE DEF Items, Target, Field
    <2> QED
      BY AtItem, ItemsAre DEF FreshInv, Sweep
  <1>2. reply = NoReply /\ UNCHANGED value
    <2> HIDE DEF Items, Idling
    <2> QED
      BY <1>1 DEF FreshInv, QuietInv, system
  <1>3. Item = items[n]
    BY DEF Item
  <1>4. report \in [Target -> Value \cup {Never, Unparsed}]
    BY DEF FreshInv, TypeInv, TypeOK
  <1>5. \A i \in 1 .. n - 1 : LastBefore(items, i, n) => Fresh(items[i])
    BY DEF FreshInv, SweepInv
  <1>9. cmd.name # "stats"
    <2> HIDE DEF Items
    <2> QED
      BY ItemsAre DEF FreshInv, StatsInv, Item
  <1>10. cmd.name = "radio_ctrl" /\ items = RadioItems
    BY <1>1, <1>9, ItemsAre
  <1> HIDE DEF items, n, Items, Target, Field, Idling, PcId, RadioItems
  \* Each item behind the command is fresh again.
  <1>6. ASSUME NEW i \in 1 .. n, LastBefore(items, i, n + 1)
        PROVE  FreshNext(items[i])
    <2> DEFINE it == items[i]
    <2>1. it.field \in Field /\ it.target \in Target /\ i \in 1 .. Len(items)
      BY <1>1
    <2>3. CASE i = n
      <3>1. report'[it.target] = v /\ it = Item
        BY <1>3, <1>4, <2>1, <2>3
      <3>2. \A x : /\ x.field \in Field
                   /\ report'[x.target] = value[x.field] \/ (x.via = "ip" /\ x.target \in missed')
                   => FreshNext(x)
        BY <1>1, <1>2, FreshRead
      <3> QED
        BY <2>1, <3>1, <3>2
    <2>4. CASE i # n
      <3>1. i \in 1 .. n - 1
        BY <1>1, <2>4
      <3>2. LastBefore(items, i, n)
        BY <1>1, <1>6 DEF LastBefore
      <3>3. items[n].target # it.target
        BY <1>1, <1>6, <3>1 DEF LastBefore
      <3>4. report'[it.target] = report[it.target]
        BY <1>3, <1>4, <2>1, <3>3
      <3>5. Fresh(it)
        BY <1>5, <3>1, <3>2
      <3>6. \A x : /\ x.field \in Field /\ Fresh(x) /\ report'[x.target] = report[x.target]
                   /\ x.target \in missed => x.target \in missed'
                   => FreshNext(x)
        BY <1>1, FreshKept
      <3>7. it.target \in missed => it.target \in missed'
        BY <1>3, <3>3
      <3> QED
        BY <2>1, <3>4, <3>5, <3>6, <3>7
    <2> QED
      BY <2>3, <2>4
  <1>7. CASE n = Len(items)
    <2>1. cmd' = Idling /\ reply' = [name |-> cmd.name, ret |-> 0, arg |-> 0]
      BY <1>7 DEF Advance, Return, items, n
    <2>2. SweepInv' /\ StatsInv' /\ QuietInv'
      BY <2>1, ItemsAre DEF SweepInv, Sweep, StatsInv, QuietInv, Idling
    <2>3. reply'.name = "radio_ctrl"
      BY <1>10, <2>1
    <2>4. ASSUME NEW i \in DOMAIN items, LastForTarget(items, i)
          PROVE  FreshNext(items[i])
      <3>1. i \in 1 .. n /\ LastBefore(items, i, n + 1)
        BY <1>1, <1>7, <2>4 DEF LastForTarget, LastBefore
      <3> QED
        BY <1>6, <3>1
    <2>5. ReplyIsFresh'
      <3>1. RadioItems' = items
        BY <1>10 DEF RadioItems
      <3> QED
        BY <2>3, <2>4, <3>1 DEF ReplyIsFresh, FreshNext, LastForTarget
    <2> QED
      BY <2>2, <2>5
  <1>8. CASE n # Len(items)
    <2>1. cmd' = [cmd EXCEPT !.at = n + 1, !.got = 0] /\ reply' = reply
      BY <1>8 DEF Advance, items, n
    <2>2. cmd'.name = cmd.name /\ cmd'.at = n + 1
      BY <2>1 DEF FreshInv, TypeInv, CmdRecord
    <2>3. SweepInv'
      <3> SUFFICES ASSUME NEW i \in 1 .. (n + 1) - 1, LastBefore(items, i, n + 1)
                   PROVE  FreshNext(items[i])
        <4>1. Items'[cmd'.name] = items /\ items' = items
          BY <2>2 DEF items, Items
        <4> QED
          BY <2>2, <4>1 DEF SweepInv, LastBefore, Fresh, FreshNext
      <3>1. i \in 1 .. n
        BY <1>1
      <3> QED
        BY <1>6, <3>1
    <2>4. reply' = NoReply
      BY <1>2, <2>1
    <2>5. ReplyIsFresh'
      BY <2>4, NoReplyFresh
    <2>6. StatsInv'
      BY <1>9, <2>2 DEF StatsInv
    <2> QED
      BY <2>3, <2>4, <2>5, <2>6 DEF QuietInv
  <1> QED
    BY <1>7, <1>8

LEMMA FreshStep ==
  ASSUME FreshInv, [Next]_vars
  PROVE  FreshInv'
PROOF
  <1> HIDE DEF Items, RadioItems, Target, Field, PcId, Idling, Crashed
  <1>0. /\ TypeInv' /\ TypeInv /\ SweepInv /\ StatsInv /\ QuietInv /\ ReplyIsFresh
        /\ PcId \in Field /\ DOMAIN Items = {"radio_ctrl", "stats"} /\ Items' = Items /\ RadioItems' = RadioItems
    BY TypeKept, ItemsAre DEF FreshInv, Items, RadioItems
  <1>1. CASE UNCHANGED vars
    BY <1>0, <1>1 DEF vars, FreshInv, SweepInv, Sweep, StatsInv, LastBefore, Fresh, QuietInv, ReplyIsFresh, LastForTarget
  <1> SUFFICES ASSUME Working \/ Starting \/ Surroundings, Witness
               PROVE  SweepInv' /\ StatsInv' /\ QuietInv' /\ ReplyIsFresh'
    BY <1>0, <1>1 DEF Next, FreshInv
  \* A daemon that is idle has no sweep under way; an answer other than 0 says
  \* nothing.
  <1>2. cmd' = Idling => SweepInv' /\ StatsInv' /\ QuietInv'
    BY <1>0 DEF SweepInv, Sweep, StatsInv, QuietInv, Idling
  <1>3. reply'.ret # 0 => ReplyIsFresh'
    BY DEF ReplyIsFresh
  <1>4. ASSUME NEW c \in DOMAIN Items, BeginSweep(c)
        PROVE  SweepInv' /\ StatsInv' /\ QuietInv' /\ ReplyIsFresh'
    <2>1. cmd'.at = 1 /\ reply' = NoReply
      BY <1>4 DEF BeginSweep
    <2> QED
      BY <2>1, NoReplyFresh DEF SweepInv, StatsInv, QuietInv
  <1>5. CASE OpenFile
    <2>1. /\ Sweep /\ cmd' = [cmd EXCEPT !.got = 1] /\ UNCHANGED <<report, reply, missed>>
      BY <1>5 DEF OpenFile, Sweeping, Sweep
    <2>2. cmd'.name = cmd.name /\ cmd'.at = cmd.at
      BY <1>0, <2>1 DEF TypeInv, CmdRecord
    <2>3. SweepInv' /\ StatsInv'
      BY <2>1, <2>2, SweepGoesOn
    <2>4. reply' = NoReply
      BY <1>0, <2>1, AtItem DEF QuietInv
    <2> QED
      BY <2>3, <2>4, NoReplyFresh DEF QuietInv
  <1>6. CASE ReadFile
    <2>1. Sweep /\ UNCHANGED system /\ Item.via = "traffic"
      BY <1>6 DEF ReadFile, Sweeping, Sweep
    <2>2. CASE loaded
      <3>1. report' = [report EXCEPT ![Item.target] = value[Item.field]] /\ Advance /\ missed' = missed
        BY <1>6, <2>2 DEF ReadFile
      <3> QED
        BY <2>1, <3>1, SweepAdvances
    <2>3. CASE ~loaded
      <3>1. cmd' = Crashed /\ reply' = reply
        BY <1>6, <2>3 DEF ReadFile
      <3>2. reply' = NoReply
        BY <1>0, <2>1, <3>1, AtItem DEF QuietInv
      <3> QED
        BY <1>0, <3>1, <3>2, NoReplyFresh DEF SweepInv, Sweep, StatsInv, QuietInv, Crashed
    <2> QED
      BY <2>2, <2>3
  <1>7. CASE NoFile \/ NoStatsFile \/ RefuseRegister
    <2>1. cmd' = Idling /\ reply'.ret = -1
      BY <1>7 DEF NoFile, NoStatsFile, RefuseRegister, Abandon, Return
    <2> QED
      BY <1>2, <1>3, <2>1
  <1>8. CASE ReadRegister
    <2> DEFINE v == IF dev THEN value[Item.field] ELSE Leftover(Item.target)
    <2>1. /\ Sweep /\ UNCHANGED system /\ Advance /\ Item.via = "ip"
          /\ report' = [report EXCEPT ![Item.target] = v]
          /\ missed' = IF dev THEN missed \ {Item.target} ELSE missed \cup {Item.target}
      BY <1>8 DEF ReadRegister, Sweeping, Sweep
    <2>2. v = value[Item.field] \/ (Item.via = "ip" /\ Item.target \in missed')
      BY <2>1
    <2>3. \A t : t # Item.target /\ t \in missed => t \in missed'
      BY <2>1
    <2> HIDE DEF v
    <2> QED
      BY <2>1, <2>2, <2>3, SweepAdvances
  <1>9. ASSUME NEW w \in Value, BeginSet(w)
        PROVE  SweepInv' /\ StatsInv' /\ QuietInv' /\ ReplyIsFresh'
    <2>1. cmd'.name = "set_fram" /\ reply' = NoReply
      BY <1>9 DEF BeginSet
    <2> QED
      BY <1>0, <2>1, NoReplyFresh DEF SweepInv, Sweep, StatsInv, QuietInv
  <1>10. CASE EndSet
    <2>1. /\ cmd' = Idling /\ cmd.name = "set_fram" /\ reply' = [name |-> "set_fram", ret |-> 0, arg |-> cmd.got]
          /\ value' = [value EXCEPT ![PcId] = cmd.got] \/ missed' = {PcId}
      BY <1>10 DEF EndSet, Return
    <2>2. Running
      BY <2>1 DEF Running, Idling
    <2>3. value'[PcId] \in shown'[PcId]
      BY <1>0, <2>2 DEF Witness
    <2>4. value'[PcId] = cmd.got \/ PcId \in missed'
      BY <1>0, <2>1 DEF TypeInv, TypeOK
    <2>5. ReplyIsFresh'
      <3>1. reply'.name = "set_fram" /\ reply'.arg = cmd.got /\ PcId' = PcId
        BY <2>1 DEF PcId
      <3> QED
        BY <1>0, <2>3, <2>4, <3>1 DEF ReplyIsFresh
    <2> QED
      BY <1>2, <2>1, <2>5
  <1>11. CASE GetField
    <2>1. /\ cmd' = cmd /\ cmd = Idling /\ value' = value
          /\ \/ reply' = [name |-> "get_fram", ret |-> 0, arg |-> value[PcId]]
             \/ reply' = [name |-> "get_fram", ret |-> 0, arg |-> 0] /\ missed' = {PcId}
      BY <1>11 DEF GetField, Return, system
    <2>2. Running
      BY <2>1 DEF Running
    <2>3. value'[PcId] \in shown'[PcId]
      BY <1>0, <2>2 DEF Witness
    <2>4. ReplyIsFresh'
      <3>1. /\ reply'.name = "get_fram" /\ PcId' = PcId
            /\ reply'.arg = value'[PcId] \/ (PcId \in missed' /\ reply'.arg = 0)
        BY <2>1 DEF PcId
      <3> QED
        BY <1>0, <2>3, <3>1 DEF ReplyIsFresh
    <2> QED
      BY <1>2, <2>1, <2>4
  <1>12. CASE IdleCommand
    <2>1. /\ cmd' = Idling
          /\ reply'.name \in {"restart", "enable", "disable", "loopback"}
      BY <1>12 DEF IdleCommand, RestartXxv, SwitchFramer, SwitchLoopback, Idle, Return
    <2>2. ReplyIsFresh'
      BY <1>0, <2>1 DEF ReplyIsFresh
    <2> QED
      BY <1>2, <2>1, <2>2
  <1>13. CASE Surroundings
    <2>1. cmd' = cmd /\ report' = report /\ reply' = NoReply /\ (cmd # Idling => missed' = missed)
      BY <1>13 DEF Surroundings
    <2>2. SweepInv' /\ StatsInv'
      BY <2>1, SweepGoesOn
    <2> QED
      BY <2>1, <2>2, NoReplyFresh DEF QuietInv
  <1> QED
    BY <1>4, <1>5, <1>6, <1>7, <1>8, <1>9, <1>10, <1>11, <1>12, <1>13 DEF Working, Starting

\* However the drivers come and go, the device fails and the registers change,
\* and whatever the number of antennas, a command that answers 0 shows only what
\* its registers have meanwhile shown, and has set or got what it says; excepted
\* are the very items and accesses whose failure the code tells nobody of.
THEOREM ReplyCorrect == Spec => []ReplyIsFresh
PROOF
  <1>1. Init => FreshInv
    <2> HIDE DEF Items, Target, Field, PcId
    <2> SUFFICES ASSUME Init PROVE FreshInv
      OBVIOUS
    <2>1. cmd = Idling /\ reply = NoReply
      BY DEF Init
    <2>2. ReplyIsFresh
      BY <2>1, ItemsAre DEF ReplyIsFresh, NoReply
    <2>3. SweepInv /\ StatsInv /\ QuietInv
      BY <2>1, ItemsAre DEF SweepInv, Sweep, StatsInv, QuietInv, Idling
    <2> QED
      BY <2>2, <2>3, TypeAtInit DEF FreshInv
  <1>2. Spec => []FreshInv
    BY <1>1, FreshStep, PTL DEF Spec
  <1>3. FreshInv => ReplyIsFresh
    BY DEF FreshInv
  <1> QED
    BY <1>2, <1>3, PTL
=============================================================================
