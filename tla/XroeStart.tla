------------------------------ MODULE XroeStart ------------------------------
(***************************************************************************)
(* How xroe-app starts and ends (xroe-app.c skeleton_daemon and main,      *)
(* comms.c open_connections and close_connections), with the start script  *)
(* that launches it and then watches the block lock of the 10G link        *)
(* (xroe-auto-start/runXroe.bash).  Nothing keeps two of the latter from   *)
(* running: xroe-auto-start looks for a process that executes              *)
(* xroe-startup.sh, and what executes a script is the shell.               *)
(*                                                                         *)
(* Every instance of xroe-app is a process here, whoever started it: the   *)
(* script or a user, daemonised or not, on its own port, with or without   *)
(* the hardware.  They share the pidfiles in /var/run and the one socket   *)
(* file in /tmp.  Nothing supervises them.                                 *)
(***************************************************************************)
EXTENDS Integers

CONSTANTS
  Proc,       \* processes
  Nobody,     \* not a process
  Script,     \* runs of the start script
  Port,       \* what -p is given, 0 where it is not: the number in the pidfile's name
  Ways,       \* bound: the ways users start it in
  LIMIT       \* a reset is tried when blNotSetCount is greater (10 in the script)

ASSUME NobodyAssumption == Nobody \notin Proc
ASSUME PortAssumption == Port \subseteq Int /\ 0 \in Port
ASSUME LimitAssumption == LIMIT \in Nat

\* How a process is started: -p port, -d, and not -s
Options == [port : Port, daemonise : BOOLEAN, hw : BOOLEAN]
ByScript == [port |-> 0, daemonise |-> TRUE, hw |-> TRUE]

ASSUME WaysAssumption == Ways \subseteq Options

XROE_COMM_PORT == 44798

\* open_connections: the port a process listens on is XROE_COMM_PORT for 0, and
\* htons takes 16 bits of any other number.
ListenPort(o) == IF o.port = 0 THEN XROE_COMM_PORT ELSE o.port % 65536

Stages == {"none", "start", "open", "bind", "ports", "serving", "closing", "unlinking"}

VARIABLES
  stage,      \* stage[p]: how far p has come; "none" when there is no such process
  options,    \* options[p]: how p was started, as long as there is p
  pidfile,    \* the ports whose pidfile exists
  sockfile,   \* the process whose socket the socket file is of, or Nobody
  pc,         \* pc[s]: where s is; "off" when it does not run
  mac,        \* the reset of the XXV MAC is asserted
  lock,       \* block lock
  blStatus, blNotSetCount,  \* the variables of each script
  lossRun,    \* history: how often in a row a script has seen the lock lost
  company,    \* history: processes that another one shared the socket file with
  untidy      \* history: some process has crashed or failed since the system came up

app == <<stage, options, pidfile, sockfile, company, untidy>>
monitor == <<blStatus, blNotSetCount, lossRun>>
script == <<pc, mac, lock, monitor>>
vars == <<app, script>>

Alive(p) == stage[p] # "none"
\* Past the pidfile, where there is one
Started(p) == stage[p] \notin {"none", "start"}
\* Has to do with the socket file
Uses(p) == Started(p) /\ options[p].hw

\* The system comes up, and starts one script.
Boot == \E s \in Script : pc' = [t \in Script |-> IF t = s THEN "boot" ELSE "off"]

Init ==
  /\ stage = [p \in Proc |-> "none"]
  /\ options = [p \in Proc |-> ByScript]
  /\ pidfile = {}
  /\ sockfile = Nobody
  /\ \E s \in Script : pc = [t \in Script |-> IF t = s THEN "boot" ELSE "off"]
  /\ mac = FALSE
  /\ lock \in BOOLEAN
  /\ blStatus = [s \in Script |-> 1] /\ blNotSetCount = [s \in Script |-> 0]
  /\ lossRun = [s \in Script |-> 0]
  /\ company = {}
  /\ untidy = FALSE

-----------------------------------------------------------------------------
(* xroe-app *)

\* Those who share the socket file after p's stage has changed to s
Companions(p, s) ==
  LET users == {q \in Proc \ {p} : Uses(q)}
               \cup (IF s \notin {"none", "start"} /\ options[p].hw THEN {p} ELSE {})
  IN IF \E q, r \in users : q # r THEN company \cup users ELSE company \cap users

Move(p, s) ==
  /\ stage' = [stage EXCEPT ![p] = s]
  /\ company' = Companions(p, s)
  /\ options' = IF s = "none" THEN [options EXCEPT ![p] = ByScript] ELSE options
  /\ UNCHANGED script

Fail(p) == Move(p, "none") /\ untidy' = TRUE

\* main: whether the pidfile exists is only printed.
Launch(p, o) ==
  /\ ~Alive(p)
  /\ stage' = [stage EXCEPT ![p] = "start"]
  /\ options' = [options EXCEPT ![p] = o]
  /\ UNCHANGED <<pidfile, sockfile, company, untidy>>

\* A faulty creation: without O_EXCL.
CreatePidfileShared(p) ==
  /\ stage[p] = "start" /\ options[p].daemonise
  /\ pidfile' = pidfile \cup {options[p].port}
  /\ Move(p, "open")
  /\ UNCHANGED <<sockfile, untidy>>

\* skeleton_daemon: O_CREAT | O_EXCL
CreatePidfile(p) ==
  /\ stage[p] = "start" /\ options[p].daemonise
  /\ options[p].port \notin pidfile
  /\ pidfile' = pidfile \cup {options[p].port}
  /\ Move(p, "open")
  /\ UNCHANGED <<sockfile, untidy>>

\* A faulty refusal: it cleans up like main at its end.
AnotherRunsClosing(p) ==
  /\ stage[p] = "start" /\ options[p].daemonise
  /\ options[p].port \in pidfile
  /\ sockfile' = Nobody
  /\ Move(p, "none")
  /\ UNCHANGED <<pidfile, untidy>>

AnotherRuns(p) ==
  /\ stage[p] = "start" /\ options[p].daemonise
  /\ options[p].port \in pidfile
  /\ Move(p, "none")
  /\ UNCHANGED <<pidfile, sockfile, untidy>>

NoPidfile(p) ==
  /\ stage[p] = "start" /\ ~options[p].daemonise
  /\ Move(p, "open")
  /\ UNCHANGED <<pidfile, sockfile, untidy>>

\* open_connections: the socket file goes, whoever it is of.
RemoveSocketFile(p) ==
  /\ stage[p] = "open"
  /\ sockfile' = IF options[p].hw THEN Nobody ELSE sockfile
  /\ Move(p, IF options[p].hw THEN "bind" ELSE "ports")
  /\ UNCHANGED <<pidfile, untidy>>

Bind(p) ==
  /\ stage[p] = "bind"
  /\ IF sockfile = Nobody
     THEN sockfile' = p /\ Move(p, "ports") /\ UNCHANGED untidy
     ELSE Fail(p) /\ UNCHANGED sockfile
  /\ UNCHANGED pidfile

\* The TCP and UDP sockets.  Processes can share ports (SO_REUSEPORT).
OpenPorts(p) ==
  /\ stage[p] = "ports"
  /\ Move(p, "serving")
  /\ UNCHANGED <<pidfile, sockfile, untidy>>

\* main exits on a connection error as it is: the files stay.
FailPorts(p) ==
  /\ stage[p] = "ports"
  /\ Fail(p)
  /\ UNCHANGED <<pidfile, sockfile>>

\* The command quit, or an error of get_message
Quit(p) ==
  /\ stage[p] = "serving"
  /\ Move(p, "closing")
  /\ UNCHANGED <<pidfile, sockfile, untidy>>

\* A faulty end: the socket file stays.
CloseConnectionsKeeping(p) ==
  /\ stage[p] = "closing"
  /\ Move(p, "unlinking")
  /\ UNCHANGED <<pidfile, sockfile, untidy>>

\* close_connections: the socket file goes, whoever it is of.
CloseConnections(p) ==
  /\ stage[p] = "closing"
  /\ sockfile' = IF options[p].hw THEN Nobody ELSE sockfile
  /\ Move(p, "unlinking")
  /\ UNCHANGED <<pidfile, untidy>>

\* unlink(pid_path), which is empty where the process is no daemon
UnlinkPidfile(p) ==
  /\ stage[p] = "unlinking"
  /\ pidfile' = IF options[p].daemonise THEN pidfile \ {options[p].port} ELSE pidfile
  /\ Move(p, "none")
  /\ UNCHANGED <<sockfile, untidy>>

\* A signal; there is no handler.
Crash(p) ==
  /\ Alive(p)
  /\ Fail(p)
  /\ UNCHANGED <<pidfile, sockfile>>

Running(p) ==
  \/ CreatePidfile(p) \/ AnotherRuns(p) \/ NoPidfile(p)
  \/ RemoveSocketFile(p) \/ Bind(p) \/ OpenPorts(p) \/ FailPorts(p)
  \/ CloseConnections(p) \/ UnlinkPidfile(p)

-----------------------------------------------------------------------------
(* The start script *)

Goto(s, l) == pc' = [pc EXCEPT ![s] = l]

\* f_resetXxvMac, at the start and in the loop
PulseUp(s, l, next)   == pc[s] = l /\ Goto(s, next) /\ mac' = TRUE /\ UNCHANGED <<app, lock, monitor>>
PulseDown(s, l, next) == pc[s] = l /\ Goto(s, next) /\ mac' = FALSE

BootPulse(s) ==
  \/ PulseUp(s, "boot", "bootFall")
  \/ PulseDown(s, "bootFall", "app") /\ UNCHANGED <<app, lock, monitor>>

\* $USERAPPFILE -d -e ..., once, if there is such a file
LaunchApp(s) ==
  /\ pc[s] = "app"
  /\ \/ \E p \in Proc : Launch(p, ByScript)
     \/ UNCHANGED app
  /\ Goto(s, "check")
  /\ UNCHANGED <<mac, lock, monitor>>

\* A faulty count: it goes on past what is compared.
CountOn(n, limit) == n + 1

\* A count that only tells whether it is over the limit
Count(n, limit) == IF n > limit THEN n ELSE n + 1

\* A faulty monitor: the count is not cleared.
LockSeenCounting(s) ==
  /\ pc[s] = "check" /\ lock
  /\ blStatus' = [blStatus EXCEPT ![s] = 1]
  /\ UNCHANGED blNotSetCount
  /\ lossRun' = [lossRun EXCEPT ![s] = 0]
  /\ UNCHANGED <<app, pc, mac, lock>>

\* The loop reads the lock.  (Its copy of it in a scratch register of the radio,
\* and the LEDs, are not read by anything here and left out.)
LockSeen(s) ==
  /\ pc[s] = "check" /\ lock
  /\ blStatus' = [blStatus EXCEPT ![s] = 1]
  /\ blNotSetCount' = [blNotSetCount EXCEPT ![s] = IF blStatus[s] = 0 THEN 0 ELSE @]
  /\ lossRun' = [lossRun EXCEPT ![s] = 0]
  /\ UNCHANGED <<app, pc, mac, lock>>

Lost(s) ==
  /\ blStatus' = [blStatus EXCEPT ![s] = 0]
  /\ blNotSetCount' = [blNotSetCount EXCEPT ![s] = Count(@, LIMIT)]

\* A faulty monitor: the count is compared with one more than it reaches.
LossSeenStrict(s) ==
  /\ pc[s] = "check" /\ ~lock
  /\ lossRun' = [lossRun EXCEPT ![s] = Count(@, LIMIT + 1)]
  /\ IF blNotSetCount[s] > LIMIT + 1
     THEN Goto(s, "pulse") /\ UNCHANGED <<blStatus, blNotSetCount>>
     ELSE Lost(s) /\ UNCHANGED pc
  /\ UNCHANGED <<app, mac, lock>>

LossSeen(s) ==
  /\ pc[s] = "check" /\ ~lock
  /\ lossRun' = [lossRun EXCEPT ![s] = Count(@, LIMIT + 1)]
  /\ IF blNotSetCount[s] > LIMIT
     THEN Goto(s, "pulse") /\ UNCHANGED <<blStatus, blNotSetCount>>
     ELSE Lost(s) /\ UNCHANGED pc
  /\ UNCHANGED <<app, mac, lock>>

\* A faulty pulse: it stops half-way.
ResetMacHeld(s) == PulseUp(s, "pulse", "fall")

ResetMac(s) ==
  \/ PulseUp(s, "pulse", "fall")
  \/ PulseDown(s, "fall", "check") /\ Lost(s) /\ UNCHANGED <<app, lock, lossRun>>

ScriptStep(s) == BootPulse(s) \/ LaunchApp(s) \/ LockSeen(s) \/ LossSeen(s) \/ ResetMac(s)

\* Somebody kills a script, at any point (stop in xroe-auto-start does not, nor
\* does the end of xroe-startup.sh), and start makes another one, which begins
\* with blStatus=1 and blNotSetCount=0.
StopScript(s) ==
  /\ pc[s] # "off" /\ Goto(s, "off")
  /\ blStatus' = [blStatus EXCEPT ![s] = 1]
  /\ blNotSetCount' = [blNotSetCount EXCEPT ![s] = 0]
  /\ lossRun' = [lossRun EXCEPT ![s] = 0]
  /\ UNCHANGED <<app, mac, lock>>
StartScript(s) == pc[s] = "off" /\ Goto(s, "boot") /\ UNCHANGED <<app, mac, lock, monitor>>

-----------------------------------------------------------------------------
LockChanges == lock' = ~lock /\ UNCHANGED <<app, pc, mac, monitor>>

\* /var/run and /tmp are in memory.
Reboot ==
  /\ stage' = [p \in Proc |-> "none"]
  /\ pidfile' = {} /\ sockfile' = Nobody
  /\ company' = {} /\ untidy' = FALSE
  /\ options' = [p \in Proc |-> ByScript]
  /\ Boot /\ mac' = FALSE
  /\ blStatus' = [s \in Script |-> 1] /\ blNotSetCount' = [s \in Script |-> 0]
  /\ lossRun' = [s \in Script |-> 0]
  /\ UNCHANGED lock

Next ==
  \/ \E p \in Proc :
       \/ \E o \in Ways : Launch(p, o) /\ UNCHANGED script
       \/ Running(p) \/ Quit(p) \/ Crash(p)
  \/ \E s \in Script : ScriptStep(s) \/ StopScript(s) \/ StartScript(s)
  \/ LockChanges
  \/ Reboot

\* A script goes on, as long as it runs.
Fairness == \A s \in Script : WF_vars(ScriptStep(s))
Spec == Init /\ [][Next]_vars /\ Fairness

-----------------------------------------------------------------------------
(* Properties *)

\* Everybody is somewhere, and the counts stay within what they tell apart.
TypeOK ==
  /\ stage \in [Proc -> Stages]
  /\ options \in [Proc -> Options]
  /\ pidfile \subseteq Port
  /\ sockfile \in Proc \cup {Nobody}
  /\ pc \in [Script -> {"off", "boot", "bootFall", "app", "check", "pulse", "fall"}]
  /\ mac \in BOOLEAN /\ lock \in BOOLEAN
  /\ blStatus \in [Script -> {0, 1}] /\ blNotSetCount \in [Script -> 0 .. LIMIT + 1]
  /\ lossRun \in [Script -> 0 .. LIMIT + 2]
  /\ company \subseteq Proc /\ untidy \in BOOLEAN

Daemon(p) == Started(p) /\ options[p].daemonise

(***************************************************************************)
(* At most one daemon listens on a port at a time, from its pidfile to its *)
(* last step, however starts, ends and crashes follow one another          *)
(* (skeleton_daemon: "is there another daemon running?"), when they are    *)
(* all given their port in one form, none at all or a number that is one.  *)
(* The pidfile is named after what was given, not after the port: -d and   *)
(* -d -p 44798 are two daemons on one port (SO_REUSEPORT).                 *)
(***************************************************************************)
IsPort(n) == 1 <= n /\ n <= 65535
SameForm(m, n) == (m = 0 /\ n = 0) \/ (IsPort(m) /\ IsPort(n))

OneDaemonPerPort ==
  \A p, q \in Proc :
    /\ Daemon(p) /\ Daemon(q) /\ ListenPort(options[p]) = ListenPort(options[q])
    /\ SameForm(options[p].port, options[q].port)
    => p = q

(***************************************************************************)
(* A process that serves the socket file and has had no company there is   *)
(* the one the file leads to: what earlier processes left behind, by a     *)
(* crash or a failed start, does not keep clients from it.                 *)
(***************************************************************************)
ReachableWhenAlone ==
  \A p \in Proc : stage[p] = "serving" /\ Uses(p) => sockfile = p \/ p \in company

(***************************************************************************)
(* As long as no process has crashed or failed to start, those that have   *)
(* ended have left nothing: without a process there is no pidfile, and no  *)
(* socket file (the end of main).                                          *)
(***************************************************************************)
TidyEnd ==
  ~untidy /\ (\A p \in Proc : ~Started(p)) => pidfile = {} /\ sockfile = Nobody

(***************************************************************************)
(* A script resets the MAC only when it has itself seen the lock lost more *)
(* than LIMIT + 1 times in a row: a lock that comes and goes resets        *)
(* nothing, however many scripts run.                                      *)
(***************************************************************************)
ResetOnlyAfterLosses == \A s \in Script : pc[s] \in {"pulse", "fall"} => lossRun[s] = LIMIT + 2

\* A lock that stays lost is answered with resets, again and again, as long as
\* a script is left to run.
LossIsAnswered == \A s \in Script : <>[](~lock /\ pc[s] # "off") => []<>mac

\* A script that has asserted the reset releases it, unless it is killed in the
\* middle.
ResetIsReleased == \A s \in Script : pc[s] \in {"bootFall", "fall"} ~> ~mac \/ pc[s] = "off"
=============================================================================
