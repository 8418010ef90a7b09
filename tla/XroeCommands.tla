---------------------------- MODULE XroeCommands ----------------------------
(***************************************************************************)
(* The commands of xroe-app that reach registers (xroe_api.c, framing.c,   *)
(* stats.c, radio_ctrl.c, enable.c, disable.c, restart.c), with drivers    *)
(* that come and go and registers that change under them.  How the         *)
(* registers themselves are changed is in SysfsReg.                        *)
(*                                                                         *)
(* The daemon runs one command at a time.  A command that shows a status   *)
(* reads its items one after the other, some through a file of a driver,   *)
(* some through /dev/xroe/ip, into the static variables it prints from.    *)
(***************************************************************************)
EXTENDS Integers, Sequences, Functions

CONSTANTS
  MAX_NUMBER_OF_ANTENNAS,   \* of radio_ctrl.c
  Value,                    \* bound: the values registers take; 0 is one
  LiveField                 \* bound: the fields of registers that change

\* A field is a pair: its name, and the number of its antenna.
F(n) == <<n, 0>>
XxvReset == F("xxv_reset")
PcId     == F("FRAM_DATA_PC_ID")

ASSUME AntennaAssumption == MAX_NUMBER_OF_ANTENNAS \in Nat \ {0}
ASSUME ValueAssumption == Value \subseteq Nat /\ 0 \in Value

VARIABLES
  cmd,      \* the command the daemon is in the middle of
  report,   \* the variables behind Stats, RadioStatus and AntennasStatus
  reply,    \* what the command that has just ended returned
  dev,      \* whether /dev/xroe/ip can be opened
  loaded,   \* whether the traffic driver has its files
  value,    \* what each field shows
  shown,    \* history: what each field has shown since the command began
  missed    \* history: what the command has not read or written at the device

vars == <<cmd, report, reply, dev, loaded, value, shown, missed>>
system == <<dev, loaded, value>>

-----------------------------------------------------------------------------
(* What the commands that show a status read *)

FileItem(n, t)   == [via |-> "traffic", field |-> F(n), target |-> <<t, 0>>]
StatsItem(n, t)  == [via |-> "stats", field |-> F(n), target |-> <<t, 0>>]
RegItem(n, i, t) == [via |-> "ip", field |-> <<n, i>>, target |-> <<t, i>>]

\* Overflow is read twice, the second time from the bit for underflow; nothing
\* is read for Underflow.  The latency is kept as the two numbers it is made of.
AntennaItems(i) == <<
  RegItem("DATA_BUFFER_STATE_ALIGNMENT", i, "Align"),
  RegItem("DATA_BUFFER_STATE_REGULAR", i, "Regular"),
  RegItem("DATA_BUFFER_STATE_OVERFLOW", i, "Overflow"),
  RegItem("DATA_BUFFER_STATE_UNDERFLOW", i, "Overflow"),
  RegItem("DATA_BUFFER_STATE_RWIN", i, "Rwin"),
  RegItem("DATA_BUFFER_STATE_LATENCY", i, "Pdu")>>

\* radio_ctrl_update_values: bit i of ant_error is the CheckError of antenna i.
\* The six items of the antennas follow one another.
RadioItems ==
  <<FileItem("radio_source_enable", "Enable"), FileItem("radio_cdc_error_31_0", "Error"),
    FileItem("radio_cdc_status_31_0", "Status"), FileItem("radio_cdc_loopback", "Loopback"),
    FileItem("radio_cdc_error_31_0", "ant_error")>>
  \o [n \in 1 .. 6 * MAX_NUMBER_OF_ANTENNAS |-> AntennaItems((n - 1) \div 6)[1 + ((n - 1) % 6)]]
  \o <<FileItem("radio_cdc_loopback", "Loopback")>>

\* stats_update_values
StatsItems == <<
  StatsItem("total_rx_good_pkt", "TotalGood"), StatsItem("total_rx_bad_pkt", "TotalBad"),
  StatsItem("total_rx_bad_fcs", "TotalBadFCS"),
  StatsItem("total_rx_user_pkt", "User"), StatsItem("total_rx_good_user_pkt", "UserGood"),
  StatsItem("total_rx_bad_user_pkt", "UserBad"), StatsItem("total_rx_bad_user_fcs", "UserBadFCS"),
  StatsItem("total_rx_user_ctrl_pkt", "Ctrl"), StatsItem("total_rx_good_user_ctrl_pkt", "CtrlGood"),
  StatsItem("total_rx_bad_user_ctrl_pkt", "CtrlBad"),
  StatsItem("total_rx_bad_user_ctrl_fcs", "CtrlBadFCS"),
  StatsItem("rx_user_pkt_rate", "Rate"), StatsItem("rx_user_ctrl_pkt_rate", "CtrlRate"),
  RegItem("FRAM_AUTO_RESTART_CNT", 0, "FramerRestartCount"),
  RegItem("FRAM_RESTART", 0, "FramerEnable"), RegItem("DEFM_RESTART", 0, "DeFramerEnable"),
  RegItem("xxv_reset", 0, "XXV_Reset")>>

Items == [radio_ctrl |-> RadioItems, stats |-> StatsItems]
Target == {item.target : item \in Range(RadioItems) \cup Range(StatsItems)}
Field == {item.field : item \in Range(RadioItems) \cup Range(StatsItems)} \cup {PcId}

Idling   == [name |-> "none", at |-> 0, got |-> 0]
Crashed  == [name |-> "crashed", at |-> 0, got |-> 0]
NoReply  == [name |-> "none", ret |-> 0, arg |-> 0]
Never    == -1          \* the variable was never assigned
Unparsed == -2          \* strtoul of a buffer nothing was read into

Init ==
  /\ cmd = Idling
  /\ report = [t \in Target |-> Never]
  /\ reply = NoReply
  /\ dev \in BOOLEAN
  /\ loaded \in BOOLEAN
  /\ value = [f \in Field |-> 0]
  /\ shown = [f \in Field |-> {}]
  /\ missed = {}

-----------------------------------------------------------------------------
(* A status command, item by item.  got: the descriptor of a file is open. *)

Return(c, ret, arg) == reply' = [name |-> c, ret |-> ret, arg |-> arg]

BeginSweep(c) ==
  /\ cmd = Idling
  /\ cmd' = [name |-> c, at |-> 1, got |-> 0]
  /\ reply' = NoReply
  /\ missed' = {}
  /\ UNCHANGED <<report, system>>

Item == Items[cmd.name][cmd.at]
Sweeping(via) == cmd.name \in DOMAIN Items /\ Item.via = via

\* A faulty end: one item too late.
AdvanceBeyond ==
  IF cmd.at > Len(Items[cmd.name])
  THEN cmd' = Idling /\ Return(cmd.name, 0, 0)
  ELSE cmd' = [cmd EXCEPT !.at = @ + 1, !.got = 0] /\ UNCHANGED reply

\* The next item, or the end of the sweep, which then returns 0.
Advance ==
  IF cmd.at = Len(Items[cmd.name])
  THEN cmd' = Idling /\ Return(cmd.name, 0, 0)
  ELSE cmd' = [cmd EXCEPT !.at = @ + 1, !.got = 0] /\ UNCHANGED reply

\* Faulty: the sweep goes on after a failure.
AbandonNot == Advance /\ UNCHANGED missed

\* The first failure ends the sweep.
Abandon == cmd' = Idling /\ Return(cmd.name, -1, 0) /\ missed' = {}

OpenFile ==
  /\ Sweeping("traffic") /\ cmd.got = 0 /\ loaded
  /\ cmd' = [cmd EXCEPT !.got = 1]
  /\ UNCHANGED <<report, reply, missed, system>>

\* The driver has gone in between: read returns -1, which is not 0 and passes for
\* a length.  The copy of that many bytes overruns every buffer.
ReadFile ==
  /\ Sweeping("traffic") /\ cmd.got = 1
  /\ IF loaded
     THEN report' = [report EXCEPT ![Item.target] = value[Item.field]] /\ Advance /\ UNCHANGED missed
     ELSE cmd' = Crashed /\ missed' = {} /\ UNCHANGED <<report, reply>>
  /\ UNCHANGED system

\* Faulty: the file is waited for.
NoFileWaiting == FALSE /\ UNCHANGED vars

NoFile ==
  /\ Sweeping("traffic") /\ cmd.got = 0 /\ ~loaded
  /\ Abandon
  /\ UNCHANGED <<report, system>>

\* The files stats.c opens are not those the driver makes (stats/eth_port_<i>/):
\* it assigns what is in its buffer, and ends.
NoStatsFile ==
  /\ Sweeping("stats")
  /\ report' = [report EXCEPT ![Item.target] = Unparsed]
  /\ Abandon
  /\ UNCHANGED system

\* What a variable is assigned where IP_API_Read_Register has assigned nothing:
\* the two of the latency are assigned from one variable that starts as 0.
Leftover(t) ==
  CASE t[1] = "Rwin" -> 0
    [] t[1] = "Pdu" -> report[<<"Rwin", t[2]>>]
    [] OTHER -> report[t]

\* IP_API_Read_Register returns 0 where the device cannot be opened.
ReadRegister ==
  /\ Sweeping("ip")
  /\ report' = [report EXCEPT ![Item.target] = IF dev THEN value[Item.field] ELSE Leftover(Item.target)]
  /\ missed' = IF dev THEN missed \ {Item.target} ELSE missed \cup {Item.target}
  /\ Advance
  /\ UNCHANGED system

\* The device can be opened and its ioctl fails: this is returned, and ends the
\* sweep.
RefuseRegister ==
  /\ Sweeping("ip") /\ dev
  /\ Abandon
  /\ UNCHANGED <<report, system>>

-----------------------------------------------------------------------------
(* Commands that set or get one field of the device *)

\* An access by pread or pwrite: it needs the device, and a device that can be
\* opened may still fail it.
Access(carried) == carried \in BOOLEAN /\ (carried => dev)

\* framing set_fram and set_defr: what the read of the word returns is not looked
\* at, nor what the write returns.
BeginSet(v) ==
  /\ cmd = Idling
  /\ cmd' = [name |-> "set_fram", at |-> 1, got |-> v]
  /\ reply' = NoReply
  /\ missed' = {}
  /\ UNCHANGED <<report, system>>

\* The write.  However it goes the command returns 0.
EndSet ==
  /\ cmd.name = "set_fram"
  /\ \E carried \in BOOLEAN :
       /\ Access(carried)
       /\ value' = IF carried THEN [value EXCEPT ![PcId] = cmd.got] ELSE value
       /\ missed' = IF carried THEN {} ELSE {PcId}
  /\ cmd' = Idling
  /\ Return("set_fram", 0, cmd.got)
  /\ UNCHANGED <<report, dev, loaded>>

\* framing get_fram and get_defr: one read, into a variable that starts as 0.
\* Whether it read anything is not looked at.
GetField ==
  /\ cmd = Idling
  /\ \E carried \in BOOLEAN :
       /\ Access(carried)
       /\ Return("get_fram", 0, IF carried THEN value[PcId] ELSE 0)
       /\ missed' = IF carried THEN {} ELSE {PcId}
  /\ UNCHANGED <<cmd, report, system>>

(***************************************************************************)
(* Commands that change nothing: each returns what its access to a file    *)
(* returns.  restart xxv writes the one byte t and then the one byte f to  *)
(* xxv_reset, if that is there: the driver takes both for numbers and      *)
(* refuses both, write returns -1, and the test for 0 takes that for a     *)
(* success.  enable, disable and loopback open files that neither driver   *)
(* makes; the last tells of it in its text only.                           *)
(***************************************************************************)
Idle(c, ret) ==
  /\ cmd = Idling
  /\ Return(c, ret, 0)
  /\ missed' = {}
  /\ UNCHANGED <<cmd, report, system>>

RestartXxv == \E ret \in {0, -1} : Idle("restart", ret)
SwitchFramer == \E c \in {"enable", "disable"} : Idle(c, -1)
SwitchLoopback == Idle("loopback", 0)

IdleCommand == RestartXxv \/ SwitchFramer \/ SwitchLoopback

-----------------------------------------------------------------------------
Working ==
  \/ OpenFile \/ ReadFile \/ NoFile \/ NoStatsFile
  \/ ReadRegister \/ RefuseRegister \/ EndSet
Starting ==
  \/ \E c \in DOMAIN Items : BeginSweep(c)
  \/ \E v \in Value : BeginSet(v)
  \/ GetField
  \/ IdleCommand

\* What a command returned is soon forgotten.
Surroundings ==
  /\ \/ dev' = ~dev /\ UNCHANGED <<loaded, value>>
     \/ loaded' = ~loaded /\ UNCHANGED <<dev, value>>
     \/ \E f \in LiveField, v \in Value :
          value' = [value EXCEPT ![f] = v] /\ UNCHANGED <<dev, loaded>>
  /\ reply' = NoReply
  /\ missed' = IF cmd = Idling THEN {} ELSE missed
  /\ UNCHANGED <<cmd, report>>

Running == cmd # Idling \/ cmd' # Idling \/ reply'.name = "get_fram"
Witness ==
  shown' = [f \in Field |->
    IF Running THEN (IF cmd = Idling THEN {value[f]} ELSE shown[f]) \cup {value'[f]} ELSE {}]

Next == (Working \/ Starting \/ Surroundings) /\ Witness

\* The daemon goes on with a command it has begun.
Fairness == WF_vars(Working /\ Witness)
Spec == Init /\ [][Next]_vars /\ Fairness

-----------------------------------------------------------------------------
(* Properties *)

\* The daemon is idle, dead, or at an item of its command, and what it returns
\* is 0 or -1.
TypeOK ==
  /\ \/ cmd \in {Idling, Crashed}
     \/ cmd.name = "set_fram" /\ cmd.at = 1 /\ cmd.got \in Value
     \/ cmd.name \in DOMAIN Items /\ cmd.at \in 1 .. Len(Items[cmd.name]) /\ cmd.got \in {0, 1}
  /\ report \in [Target -> Value \cup {Never, Unparsed}]
  /\ reply.ret \in {0, -1}
  /\ value \in [Field -> Value]

\* Item i of a command is the last one it reads into its variable.
LastForTarget(items, i) ==
  \A j \in DOMAIN items : items[j].target = items[i].target => j <= i

(***************************************************************************)
(* What a reply of 0 can be relied on for, however the drivers come and go *)
(* while the command runs.  The status of the radio shows, for every       *)
(* variable, a value the register behind it had meanwhile - none of an     *)
(* earlier command, and none of a failed read -, what was set has been     *)
(* set, and what was got was there; stats never answers 0.                 *)
(*                                                                         *)
(* Excepted is exactly what xroe_api.c or its callers tell nobody of: an   *)
(* item of a status for which /dev/xroe/ip could not be opened, and a set  *)
(* or get whose own pread or pwrite was not carried out, by a device that  *)
(* is not there or by one that fails it.  Such a get shows 0.  An ioctl    *)
(* that fails is no exception, and neither is any file.                    *)
(***************************************************************************)
ReplyIsFresh ==
  reply.ret = 0 =>
    /\ reply.name # "stats"
    /\ reply.name = "radio_ctrl" =>
         \A i \in DOMAIN RadioItems :
           LastForTarget(RadioItems, i) =>
             LET item == RadioItems[i]
             IN report[item.target] \in shown[item.field] \/ (item.via = "ip" /\ item.target \in missed)
    /\ reply.name = "set_fram" => reply.arg \in shown[PcId] \/ PcId \in missed
    /\ reply.name = "get_fram" => reply.arg \in shown[PcId] \/ (PcId \in missed /\ reply.arg = 0)

(***************************************************************************)
(* Every command ends - in an answer, or with the daemon when the driver   *)
(* goes between the opening of a file and the read -, however often the    *)
(* device, the files and the registers change under it.                    *)
(***************************************************************************)
EveryCommandEnds == cmd # Idling ~> cmd \in {Idling, Crashed}
=============================================================================
