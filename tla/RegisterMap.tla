---------------------------- MODULE RegisterMap ----------------------------
(***************************************************************************)
(* The registers of the framer and of the radio traffic generator, as the  *)
(* headers generated with the hardware give them to the two drivers        *)
(* (xroeframer-driver/roe_framer_ctrl.h, xtraffic/roe_radio_ctrl.h), and   *)
(* the sysfs files the drivers make of them (sysfs_xroe.c,                 *)
(* sysfs_xroe_framer_*.c, sysfs_xroe_traffic_config.c).                    *)
(*                                                                         *)
(* A register here is a field: bits off .. off + width - 1 of the word at  *)
(* addr.  Where the header numbers a family of them, idx is the number.    *)
(***************************************************************************)
EXTENDS Integers, FiniteSets, Sequences

Reg(n, i, a, o, w, m) == [name |-> n, idx |-> i, addr |-> a, off |-> o, width |-> w, mode |-> m]

\* Types rw, rwInt and rwpdef keep what is written; roCst, roInt and roSig do
\* not; wPlsH makes a pulse of it.
Rw(n, a, o, w)    == Reg(n, 0, a, o, w, "rw")
Ro(n, a, o, w)    == Reg(n, 0, a, o, w, "ro")
Pulse(n, a, o, w) == Reg(n, 0, a, o, w, "pulse")

\* Bank cfg: revision, master control, GPIO, what the framer was built with
CfgRegs == {
  Ro("CFG_MAJOR_REVISION", \h0, 24, 8), Ro("CFG_MINOR_REVISION", \h0, 16, 8),
  Ro("CFG_VERSION_REVISION", \h0, 8, 8), Ro("CFG_INTERNAL_REVISION", \h4, 0, 32),
  Rw("CFG_TIMEOUT_VALUE", \h8, 0, 12), Rw("CFG_USER_RW_OUT", \hC, 0, 8),
  Ro("CFG_USER_RO_IN", \hC, 16, 8), Rw("CFG_MASTER_INT_ENABLE", \h10, 0, 1),
  Rw("CFG_FRAM_FIFO_OF_ENABLE", \h14, 0, 1), Rw("CFG_FRAM_FIFO_UF_ENABLE", \h14, 1, 1),
  Rw("CFG_AXI_TIMEOUT_ENABLE", \h14, 31, 1),
  Rw("CFG_INTERRUPT_STATUS_SAMPLE", \h1C, 0, 1), Ro("CFG_FRAM_RESET_STATUS", \h18, 0, 1),
  Ro("CFG_DEFM_RESET_STATUS", \h18, 1, 1), Ro("CFG_FRAM_ANT_OF_INTERRUPT", \h18, 8, 1),
  Ro("CFG_FRAM_ETH_OF_INTERRUPT", \h18, 9, 1),
  Ro("CFG_FRAM_ANT_UF_INTERRUPT", \h18, 10, 1),
  Ro("CFG_FRAM_ETH_UF_INTERRUPT", \h18, 11, 1), Ro("CFG_AXI_TIMEOUT_STATUS", \h18, 31, 1),
  Ro("CFG_CONFIG_NO_OF_FRAM_ANTS", \h20, 0, 16),
  Ro("CFG_CONFIG_NO_OF_DEFM_ANTS", \h20, 16, 16),
  Ro("CFG_CONFIG_NO_OF_ETH_PORTS", \h24, 0, 10), Ro("CFG_CONFIG_ETH_SPEED", \h24, 16, 10),
  Ro("CFG_CONFIG_XRAN_SUPPORT_MODE", \h28, 0, 4),
  Ro("CFG_CONFIG_XRAN_MAX_CC", \h2C, 0, 5),
  Ro("CFG_CONFIG_XRAN_MAX_DL_SYMBOLS", \h30, 0, 5)}

\* Bank cfg, continued: numerology and the symbol tables, four entries to a word
SymbolTableRegs ==
  {Ro("CFG_CONFIG_XRAN_MAX_NUMEROLOGY", \h34, 0, 3), Ro("CFG_CONFIG_XRAN_MIN_NUMEROLOGY", \h38, 0, 3)}
  \cup {Reg("CFG_CC_SL_SYMBOLS", i, \h40 + 4 * (i \div 4), 8 * (i % 4), 8, "ro") : i \in 0 .. 15}
  \cup {Reg("CFG_CC_SL_12SYMBOLS", i, \h50 + 4 * (i \div 4), 8 * (i % 4), 8, "ro") : i \in 0 .. 15}

\* Bank fram
FramRegs == {
  Rw("FRAM_DISABLE", \h2000, 0, 1), Ro("FRAM_READY", \h2000, 1, 1),
  Ro("FRAM_FIFO_FULL_INDICATOR", \h2004, 0, 32),
  Rw("FRAM_XRAN_RU_PORT_ID_FIELD_WIDTH", \h2080, 0, 4),
  Rw("FRAM_XRAN_CC_ID_FIELD_WIDTH", \h2080, 4, 4),
  Rw("FRAM_XRAN_BANDSECTOR_FIELD_WIDTH", \h2080, 8, 4),
  Rw("FRAM_PROTOCOL_DEFINITION", \h2200, 0, 4), Rw("FRAM_GEN_VLAN_TAG", \h2200, 4, 1),
  Rw("FRAM_SEL_IPV_ADDRESS_TYPE", \h2200, 5, 2)}

\* Bank defm
DefmRegs == {
  Rw("DEFM_DISABLE", \h6000, 0, 1), Ro("DEFM_READY", \h6000, 1, 1),
  Rw("DEFM_ERR_PACKET_FILTER", \h6004, 0, 2),
  Ro("DEFM_XRAN_RU_PORT_ID_FIELD_WIDTH", \h6080, 0, 4),
  Ro("DEFM_XRAN_CC_ID_FIELD_WIDTH", \h6080, 4, 4),
  Ro("DEFM_XRAN_BANDSECTOR_FIELD_WIDTH", \h6080, 8, 4)}

\* Bank defm, continued: four message filters of four words and a mask each
FilterRegs == UNION {{
  Reg("DEFM_USER_DATA_FILTER_31_0",   i, \h6100 + \h20 * i, 0, 32, "rw"),
  Reg("DEFM_USER_DATA_FILTER_63_32",  i, \h6104 + \h20 * i, 0, 32, "rw"),
  Reg("DEFM_USER_DATA_FILTER_95_64",  i, \h6108 + \h20 * i, 0, 32, "rw"),
  Reg("DEFM_USER_DATA_FILTER_127_96", i, \h610C + \h20 * i, 0, 32, "rw"),
  Reg("DEFM_USER_DATA_FILTER_MASK",   i, \h6110 + \h20 * i, 0, 16, "rw")} : i \in 0 .. 3}

\* Bank eth: the headers of the packets
EthRegs == {
  Rw("ETH_DEST_ADDR_31_0", \hA000, 0, 32), Rw("ETH_DEST_ADDR_47_32", \hA004, 0, 16),
  Rw("ETH_SRC_ADDR_31_0", \hA008, 0, 32), Rw("ETH_SRC_ADDR_47_32", \hA00C, 0, 16),
  Rw("ETH_VLAN_ID", \hA010, 0, 12), Rw("ETH_VLAN_DEI", \hA010, 12, 1),
  Rw("ETH_VLAN_PCP", \hA010, 13, 3), Rw("ETH_IPV4_VERSION", \hA030, 0, 4),
  Rw("ETH_IPV4_IHL", \hA030, 4, 4), Rw("ETH_IPV4_DSCP", \hA034, 0, 6),
  Rw("ETH_IPV4_ECN", \hA034, 6, 2), Rw("ETH_IPV4_ID", \hA038, 0, 16),
  Rw("ETH_IPV4_FLAGS", \hA03C, 0, 3), Rw("ETH_IPV4_FRAGMENT_OFFSET", \hA03C, 3, 14),
  Rw("ETH_IPV4_TIME_TO_LIVE", \hA040, 0, 8), Rw("ETH_IPV4_PROTOCOL", \hA044, 0, 8),
  Rw("ETH_IPV4_SOURCE_ADD", \hA048, 0, 32), Rw("ETH_IPV4_DESTINATION_ADD", \hA04C, 0, 32),
  Rw("ETH_UDP_SOURCE_PORT", \hA050, 0, 16),
  Rw("ETH_UDP_DESTINATION_PORT", \hA050, 16, 16), Rw("ETH_IPV6_V", \hA080, 0, 4),
  Rw("ETH_IPV6_TRAFFIC_CLASS", \hA084, 0, 8), Rw("ETH_IPV6_FLOW_LABEL", \hA088, 0, 20),
  Rw("ETH_IPV6_NEXT_HEADER", \hA08C, 0, 8)}

\* Bank eth, continued: the two IPv6 addresses, word by word
Ipv6Regs ==
  {Rw("ETH_IPV6_HOP_LIMIT", \hA090, 0, 8)}
  \cup {Reg("ETH_IPV6_SOURCE_ADD", i, \hA094 + 4 * i, 0, 32, "rw") : i \in 0 .. 3}
  \cup {Reg("ETH_IPV6_DESTINATION_ADD", i, \hA0A4 + 4 * i, 0, 32, "rw") : i \in 0 .. 3}

\* Bank stats
StatsRegs == {
  Ro("STATS_ETH_STATS_TOTAL_RX_GOOD_PKT_CNT", \hC000, 0, 32),
  Ro("STATS_ETH_STATS_TOTAL_RX_BAD_PKT_CNT", \hC004, 0, 32),
  Ro("STATS_ETH_STATS_TOTAL_RX_BAD_FCS_CNT", \hC008, 0, 32),
  Ro("STATS_ETH_STATS_USER_DATA_RX_PACKETS_CNT", \hC00C, 0, 32),
  Ro("STATS_ETH_STATS_USER_DATA_RX_GOOD_PKT_CNT", \hC010, 0, 32),
  Ro("STATS_ETH_STATS_USER_DATA_RX_BAD_PKT_CNT", \hC014, 0, 32),
  Ro("STATS_ETH_STATS_USER_DATA_RX_BAD_FCS_CNT", \hC018, 0, 32),
  Ro("STATS_ETH_STATS_USER_CTRL_RX_PACKETS_CNT", \hC01C, 0, 32),
  Ro("STATS_ETH_STATS_USER_CTRL_RX_GOOD_PKT_CNT", \hC020, 0, 32),
  Ro("STATS_ETH_STATS_USER_CTRL_RX_BAD_PKT_CNT", \hC024, 0, 32),
  Ro("STATS_ETH_STATS_USER_CTRL_RX_BAD_FCS_CNT", \hC028, 0, 32),
  Ro("STATS_ETH_STATS_USER_DATA_RX_PKTS_RATE", \hC02C, 0, 32),
  Ro("STATS_ETH_STATS_USER_CTRL_RX_PKTS_RATE", \hC030, 0, 32)}

\* Bank oran: the component carriers
OranRegs == {
  Pulse("ORAN_CC_RELOAD", \hE000, 0, 8), Rw("ORAN_CC_ENABLE", \hE004, 0, 8),
  Rw("ORAN_CC_SYMPERSLOT", \hE100, 24, 1), Rw("ORAN_CC_NUMEROLOGY", \hE100, 16, 3),
  Rw("ORAN_CC_NUMRBS", \hE100, 0, 9), Rw("ORAN_CC_DL_CTRL_OFFSETS", \hE104, 0, 16),
  Rw("ORAN_CC_DL_CTRL_UNROLLED_OFFSETS", \hE108, 0, 16),
  Rw("ORAN_CC_UL_CTRL_OFFSETS", \hE10C, 0, 16),
  Rw("ORAN_CC_UL_CTRL_UNROLLED_OFFSETS", \hE110, 0, 16),
  Rw("ORAN_CC_DL_DATA_SYM_START_INDEX", \hE114, 0, 6),
  Rw("ORAN_CC_DL_DATA_SYM_NUM_INDEX", \hE114, 8, 6),
  Rw("ORAN_CC_DL_CTRL_SYM_NUM_INDEX", \hE114, 16, 6),
  Rw("ORAN_CC_UL_CTRL_SYM_NUM_INDEX", \hE114, 24, 6),
  Rw("ORAN_CC_UL_UD_IQ_WIDTH", \hE118, 0, 4), Rw("ORAN_CC_UL_UD_COMP_METH", \hE118, 4, 4),
  Rw("ORAN_CC_UL_MPLANE_UDCOMP_PARAM", \hE118, 8, 1),
  Rw("ORAN_CC_DL_UD_IQ_WIDTH", \hE11C, 0, 4), Rw("ORAN_CC_DL_UD_COMP_METH", \hE11C, 4, 4),
  Rw("ORAN_CC_DL_MPLANE_UDCOMP_PARAM", \hE11C, 8, 1)}

\* Bank oran, continued: symbol numbers, timing, set-up
OranSetupRegs == {
  Rw("ORAN_CC_MAX_SYMBOLS", \hE158, 0, 12),
  Rw("ORAN_CC_NUM_CTRL_PER_SYMBOL_DL", \hE160, 0, 16),
  Rw("ORAN_CC_NUM_CTRL_PER_SYMBOL_UL", \hE164, 0, 16),
  Rw("ORAN_CC_MODVALS_DL", \hE168, 0, 16), Rw("ORAN_CC_MODVALS_UL", \hE16C, 0, 16),
  Rw("ORAN_CC_DL_DATA_UNROLL_OFFSET", \hE500, 0, 16), Rw("ORAN_SETUP_CNT", \hE600, 0, 32),
  Rw("ORAN_STRIP_FCS", \hE604, 0, 1), Rw("ORAN_SETUP_SF", \hE608, 0, 4),
  Rw("ORAN_SETUP_SL", \hE60C, 0, 4), Rw("ORAN_SETUP_SY", \hE610, 0, 4)}
  \cup {Reg("ORAN_CC_SF_SYMBOLS", i, \hE120 + 4 * i, 0, 11, "rw") : i \in 1 .. 9}

\* The radio traffic generator, a block of its own
RadioRegs == {
  Ro("RADIO_ID", \h0, 0, 32), Rw("RADIO_TIMEOUT_ENABLE", \h4, 0, 1),
  Ro("RADIO_TIMEOUT_STATUS", \h8, 0, 1), Rw("RADIO_TIMEOUT_VALUE", \hC, 0, 12),
  Rw("RADIO_GPIO_CDC_LEDMODE2", \h10, 0, 1), Rw("RADIO_GPIO_CDC_LEDGPIO", \h10, 4, 2),
  Ro("RADIO_GPIO_CDC_DIPSTATUS", \h14, 0, 8), Pulse("RADIO_SW_TRIGGER", \h20, 0, 1),
  Rw("RADIO_CDC_ENABLE", \h24, 0, 1), Ro("RADIO_CDC_ERROR", \h24, 1, 1),
  Ro("RADIO_CDC_STATUS", \h24, 2, 1), Rw("RADIO_CDC_LOOPBACK", \h28, 0, 1),
  Rw("RADIO_SOURCE_ENABLE", \h2C, 0, 1), Rw("RADIO_SINK_ENABLE", \h2C, 1, 1),
  Ro("RADIO_CDC_ERROR_31_0", \h30, 0, 32), Ro("RADIO_CDC_ERROR_63_32", \h34, 0, 32),
  Ro("RADIO_CDC_ERROR_95_64", \h38, 0, 32), Ro("RADIO_CDC_ERROR_127_96", \h3C, 0, 32),
  Ro("RADIO_CDC_STATUS_31_0", \h40, 0, 32), Ro("RADIO_CDC_STATUS_63_32", \h44, 0, 32),
  Ro("RADIO_CDC_STATUS_95_64", \h48, 0, 32), Ro("RADIO_CDC_STATUS_127_96", \h4C, 0, 32),
  Rw("RADIO_APP_SCRATCH_REG_0", \h50, 0, 16), Rw("RADIO_APP_SCRATCH_REG_1", \h54, 0, 16),
  Rw("RADIO_APP_SCRATCH_REG_2", \h58, 0, 16), Rw("RADIO_APP_SCRATCH_REG_3", \h5C, 0, 16),
  Rw("FRAM_PACKET_DATA_SIZE", \h1000, 0, 7), Rw("FRAM_PAUSE_DATA_SIZE", \h1004, 0, 7)}

\* What xroe-app's own header (xroe-app/roe_framer_ctrl.h) has besides: bits the
\* driver's header has under other names, and the words of each antenna
RestartRegs == {
  Rw("FRAM_RESTART", \h2000, 0, 1), Ro("FRAM_AUTO_RESTART_CNT", \h2004, 0, 32),
  Rw("DEFM_RESTART", \h6000, 0, 1)}
FramAntennaRegs == {
  Rw("FRAM_DATA_PC_ID", \h4000, 0, 16), Rw("FRAM_DATA_MESSAGE_TYPE", \h4000, 16, 8),
  Rw("FRAM_DATA_ETHERNET_PORT", \h4000, 24, 8), Rw("FRAM_CTRL_PC_ID", \h4400, 0, 16),
  Rw("FRAM_CTRL_MESSAGE_TYPE", \h4400, 16, 8), Rw("FRAM_CTRL_ETHERNET_PORT", \h4400, 24, 8)}
BufferStateRegs(kind, a) == {
  Ro(kind \o "_BUFFER_STATE_LATENCY", a, 0, 24), Ro(kind \o "_BUFFER_STATE_ALIGNMENT", a, 24, 1),
  Ro(kind \o "_BUFFER_STATE_OVERFLOW", a, 25, 1), Ro(kind \o "_BUFFER_STATE_UNDERFLOW", a, 26, 1),
  Ro(kind \o "_BUFFER_STATE_REGULAR", a, 27, 1), Ro(kind \o "_BUFFER_STATE_RWIN", a, 28, 4)}
DefmAntennaRegs ==
  {Rw("DEFM_DATA_PC_ID", \h8000, 0, 16), Rw("DEFM_CTRL_PC_ID", \h8400, 0, 16)}
  \cup BufferStateRegs("DATA", \h8800) \cup BufferStateRegs("CTRL", \h9800)
AntennaRegs == FramAntennaRegs \cup DefmAntennaRegs

FramerRegs == UNION {CfgRegs, SymbolTableRegs, FramRegs, DefmRegs, FilterRegs, EthRegs,
                     Ipv6Regs, StatsRegs, OranRegs, OranSetupRegs}

-----------------------------------------------------------------------------
(* The files: which registers each directory shows, and where *)

\* xroe_framer.h: the directories of each kind, and how far apart the driver
\* takes their registers to be
MAX_NUM_ETH_PORTS           == 1
MAX_NUM_ORAN_CC             == 2
MAX_NUM_ORAN_DL_DATA_PTR    == 5
ETH_FILTER_LENGTH_IN_WORDS  == 4
ADDR_LOOP_OFFSET_CC          == \h20
ADDR_LOOP_OFFSET_ETH         == \h100
ADDR_LOOP_OFFSET_STATS       == \h100
\* Faulty distances: filters half as far apart, pointers as far apart as ports
FilterHalf == \h10
DataPtrFar == \h100
ADDR_LOOP_OFFSET_FILTER      == \h20
ADDR_LOOP_OFFSET_DL_DATA_PTR == \h4

\* xroe/
MainNames == {
  "CFG_MAJOR_REVISION", "CFG_MINOR_REVISION", "CFG_VERSION_REVISION",
  "CFG_MASTER_INT_ENABLE", "FRAM_DISABLE", "DEFM_DISABLE", "CFG_USER_RW_OUT",
  "CFG_CONFIG_NO_OF_FRAM_ANTS", "CFG_CONFIG_NO_OF_DEFM_ANTS",
  "CFG_CONFIG_NO_OF_ETH_PORTS", "CFG_CONFIG_ETH_SPEED", "CFG_CONFIG_XRAN_SUPPORT_MODE",
  "CFG_CONFIG_XRAN_MAX_CC", "CFG_CONFIG_XRAN_MAX_DL_SYMBOLS"}

\* xroe/oran/cfg/cc_<i>/
CcNames == {
  "ORAN_CC_ENABLE", "ORAN_CC_NUMEROLOGY", "ORAN_CC_NUMRBS", "ORAN_CC_RELOAD",
  "ORAN_CC_DL_CTRL_OFFSETS", "ORAN_CC_DL_CTRL_UNROLLED_OFFSETS",
  "ORAN_CC_UL_CTRL_OFFSETS", "ORAN_CC_UL_CTRL_UNROLLED_OFFSETS",
  "ORAN_CC_DL_DATA_SYM_START_INDEX", "ORAN_CC_DL_DATA_SYM_NUM_INDEX",
  "ORAN_CC_UL_UD_IQ_WIDTH", "ORAN_CC_UL_UD_COMP_METH", "ORAN_CC_UL_MPLANE_UDCOMP_PARAM",
  "ORAN_CC_DL_UD_IQ_WIDTH", "ORAN_CC_DL_UD_COMP_METH", "ORAN_CC_DL_MPLANE_UDCOMP_PARAM"}

\* xroe/stats/eth_port_<i>/ shows the whole bank, xroe/deframer/eth_config/eth_port_<i>/ too.
StatsNames == {r.name : r \in StatsRegs}
EthNames   == {r.name : r \in EthRegs \cup Ipv6Regs}

\* xroe/shared/dl_data_ptr_<i>/, and the message_filter_<i>/ of each port
SharedNames == {"ORAN_CC_DL_DATA_UNROLL_OFFSET"}
FilterNames == {r.name : r \in FilterRegs}

\* xroe_reg_show and xroe_reg_store: a file takes its place from the number in the
\* path of its directory.
InDirectory(r, stride, i) == r.addr + stride * i

\* The attributes of a filter have a port and a filter above them.
InFilter(r, port, i) == r.addr + ADDR_LOOP_OFFSET_ETH * port + ADDR_LOOP_OFFSET_FILTER * i

Files(dir, names, count, stride) ==
  {[dir |-> dir, i |-> i, reg |-> r, at |-> InDirectory(r, stride, i)] :
      i \in 0 .. count - 1, r \in {s \in FramerRegs : s.name \in names}}

\* The attributes of every filter name the registers of filter 0.
FilterFiles ==
  {[dir |-> "message_filter", i |-> i, reg |-> r, at |-> InFilter(r, port, i)] :
      port \in 0 .. MAX_NUM_ETH_PORTS - 1, i \in 0 .. ETH_FILTER_LENGTH_IN_WORDS - 1,
      r \in {s \in FilterRegs : s.idx = 0}}

FramerFiles == UNION {
  Files("xroe", MainNames, 1, 0),
  Files("cc", CcNames, MAX_NUM_ORAN_CC, ADDR_LOOP_OFFSET_CC),
  Files("stats", StatsNames, MAX_NUM_ETH_PORTS, ADDR_LOOP_OFFSET_STATS),
  Files("eth_port", EthNames, MAX_NUM_ETH_PORTS, ADDR_LOOP_OFFSET_ETH),
  Files("dl_data_ptr", SharedNames, MAX_NUM_ORAN_DL_DATA_PTR, ADDR_LOOP_OFFSET_DL_DATA_PTR),
  FilterFiles}

\* The traffic driver has one directory, with a file for each of its registers.
TrafficFiles == {[dir |-> "traffic", i |-> 0, reg |-> r, at |-> r.addr] : r \in RadioRegs}

\* framing_set_fram_func and its like: the number of the antenna is not checked.
\* A faulty size: in bits
RegSizeInBits == 32
FRAMING_REG_SIZE == 4
AntennaWord(r, antenna) == r.addr + FRAMING_REG_SIZE * antenna

-----------------------------------------------------------------------------
(* What a good map is *)

\* Whether register r of the word at a and register s of the word at b share bits
Overlap(a, r, b, s) == a = b /\ r.off < s.off + s.width /\ s.off < r.off + r.width

\* The register a file is there for
Meant(f) == IF f.dir = "message_filter"
            THEN CHOOSE r \in FilterRegs : r.name = f.reg.name /\ r.idx = f.i
            ELSE f.reg

Reached(f) == {r \in FramerRegs : Overlap(f.at, f.reg, r.addr, r)}

FilesDisjoint ==
  \A files \in {FramerFiles, TrafficFiles} : \A f, g \in files :
    f # g => ~Overlap(f.at, f.reg, g.at, g.reg)

\* The files that do not reach their register, or not only that
StrayFiles == {f \in FramerFiles : Reached(f) # {Meant(f)}}

\* The files of a carrier or of a pointer after the first, of which the header
\* gives no registers
LaterFiles == {f \in FramerFiles : f.dir \in {"cc", "dl_data_ptr"} /\ f.i # 0}

StraysKnown ==
  /\ StrayFiles = LaterFiles
  /\ \A f \in StrayFiles : \A r \in Reached(f) : f.dir = "cc" /\ r.name = "ORAN_CC_SF_SYMBOLS"

\* Bound: antennas with room of their own
Antennas == 0 .. 255
WordsOf(r) == {AntennaWord(r, i) : i \in Antennas}

FamiliesApart ==
  /\ \A r \in AntennaRegs : WordsOf(r) \cap {f.at : f \in FramerFiles} = {}
  /\ \A r, s \in AntennaRegs : r.addr # s.addr => WordsOf(r) \cap WordsOf(s) = {}
=============================================================================
