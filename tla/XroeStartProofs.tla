--------------------------- MODULE XroeStartProofs ---------------------------
(***************************************************************************)
(* Theorems about XroeStart, for any number of processes, ports and        *)
(* scripts and any limit: one daemon for each port, a socket file that     *)
(* leads to the process that is alone there, nothing left by tidy ends,    *)
(* and no reset of the MAC but after a run of losses.                      *)
(***************************************************************************)
EXTENDS XroeStart, TLAPS

-----------------------------------------------------------------------------
(* Types *)

Labels == {"off", "boot", "bootFall", "app", "check", "pulse", "fall"}

\* TypeOK, the half about processes and the half about scripts
AppTypes ==
  /\ stage \in [Proc -> Stages]
  /\ options \in [Proc -> Options]
  /\ pidfile \subseteq Port
  /\ sockfile \in Proc \cup {Nobody}
  /\ company \subseteq Proc /\ untidy \in BOOLEAN

ScriptTypes ==
  /\ pc \in [Script -> Labels]
  /\ mac \in BOOLEAN /\ lock \in BOOLEAN
  /\ blStatus \in [Script -> {0, 1}] /\ blNotSetCount \in [Script -> 0 .. LIMIT + 1]
  /\ lossRun \in [Script -> 0 .. LIMIT + 2]

\* The two halves are TypeOK.
LEMMA Halves == TypeOK <=> AppTypes /\ ScriptTypes
  BY DEF TypeOK, AppTypes, ScriptTypes, Labels

\* How the script starts a process is one of the ways there are.
LEMMA ByScriptIsAWay == ByScript \in Options
  BY PortAssumption DEF ByScript, Options

\* A capped count stays within its cap.
LEMMA CountBound ==
  ASSUME NEW limit \in Nat, NEW n \in 0 .. limit + 1
  PROVE  Count(n, limit) \in 0 .. limit + 1
  BY DEF Count

\* A process step keeps the types of the processes.
LEMMA MoveTypes ==
  ASSUME AppTypes, NEW p \in Proc, NEW s \in Stages, Move(p, s)
  PROVE  stage' \in [Proc -> Stages] /\ options' \in [Proc -> Options] /\ company' \subseteq Proc
  BY ByScriptIsAWay DEF AppTypes, Move, Companions

\* Launching a process keeps them too.
LEMMA LaunchTypes ==
  ASSUME AppTypes, NEW p \in Proc, NEW o \in Options, Launch(p, o)
  PROVE  AppTypes'
  BY DEF AppTypes, Launch, Stages

\* What a process can do by itself
ProcStep(p) == Running(p) \/ Quit(p) \/ Crash(p)

\* No process step touches the scripts, and every one keeps the types.
LEMMA ProcStepTypes ==
  ASSUME AppTypes, NEW p \in Proc, ProcStep(p)
  PROVE  AppTypes' /\ UNCHANGED script
PROOF
  <1> USE DEF Move, Fail
  <1>s. /\ {"none", "open", "bind", "ports", "serving", "closing", "unlinking"} \subseteq Stages
    BY DEF Stages
  <1>o. options[p].port \in Port
    BY DEF AppTypes, Options
  <1>1. CASE CreatePidfile(p)
    BY <1>1, <1>s, <1>o, MoveTypes DEF CreatePidfile, AppTypes
  <1>2. CASE AnotherRuns(p)
    BY <1>2, <1>s, MoveTypes DEF AnotherRuns, AppTypes
  <1>3. CASE NoPidfile(p)
    BY <1>3, <1>s, MoveTypes DEF NoPidfile, AppTypes
  <1>4. CASE RemoveSocketFile(p)
    <2>1. PICK s \in Stages : Move(p, s)
      BY <1>4, <1>s DEF RemoveSocketFile
    <2> QED
      BY <1>4, <2>1, MoveTypes DEF RemoveSocketFile, AppTypes
  <1>5. CASE Bind(p)
    <2>1. PICK s \in Stages : Move(p, s)
      BY <1>5, <1>s DEF Bind
    <2> QED
      BY <1>5, <2>1, MoveTypes DEF Bind, AppTypes
  <1>6. CASE OpenPorts(p)
    BY <1>6, <1>s, MoveTypes DEF OpenPorts, AppTypes
  <1>7. CASE FailPorts(p)
    BY <1>7, <1>s, MoveTypes DEF FailPorts, AppTypes
  <1>8. CASE Quit(p)
    BY <1>8, <1>s, MoveTypes DEF Quit, AppTypes
  <1>9. CASE CloseConnections(p)
    BY <1>9, <1>s, MoveTypes DEF CloseConnections, AppTypes
  <1>10. CASE UnlinkPidfile(p)
    BY <1>10, <1>s, MoveTypes DEF UnlinkPidfile, AppTypes
  <1>11. CASE Crash(p)
    BY <1>11, <1>s, MoveTypes DEF Crash, AppTypes
  <1> QED
    BY <1>1, <1>2, <1>3, <1>4, <1>5, <1>6, <1>7, <1>8, <1>9, <1>10, <1>11 DEF ProcStep, Running

\* A process step, a launch, a reboot: nothing else changes what processes see.
AppReboot ==
  /\ stage' = [p \in Proc |-> "none"] /\ options' = [p \in Proc |-> ByScript]
  /\ pidfile' = {} /\ sockfile' = Nobody /\ company' = {} /\ untidy' = FALSE

LEMMA AppSteps ==
  ASSUME [Next]_vars
  PROVE  \/ UNCHANGED app
         \/ \E p \in Proc, o \in Options : Launch(p, o)
         \/ \E p \in Proc : ProcStep(p)
         \/ AppReboot
PROOF
  <1>1. CASE \E p \in Proc, o \in Ways : Launch(p, o)
    BY <1>1, WaysAssumption
  <1>2. CASE \E p \in Proc : ProcStep(p)
    BY <1>2
  <1>3. ASSUME NEW s \in Script, ScriptStep(s)
        PROVE  UNCHANGED app \/ \E p \in Proc, o \in Options : Launch(p, o)
    BY <1>3, ByScriptIsAWay
       DEF ScriptStep, BootPulse, LaunchApp, LockSeen, LossSeen, ResetMac, PulseUp, PulseDown
  <1>4. ASSUME NEW s \in Script, StopScript(s) \/ StartScript(s)
        PROVE  UNCHANGED app
    BY <1>4 DEF StopScript, StartScript
  <1>5. CASE Reboot
    BY <1>5 DEF Reboot, AppReboot
  <1>6. CASE LockChanges \/ UNCHANGED vars
    BY <1>6 DEF LockChanges, vars
  <1> QED
    BY <1>1, <1>2, <1>3, <1>4, <1>5, <1>6 DEF Next, ProcStep

\* A reset of one script's variables
Cleared(s) ==
  /\ blStatus' = [blStatus EXCEPT ![s] = 1]
  /\ blNotSetCount' = [blNotSetCount EXCEPT ![s] = 0]
  /\ lossRun' = [lossRun EXCEPT ![s] = 0]

\* Every step keeps the types of the scripts.
LEMMA ScriptTypesKept ==
  ASSUME ScriptTypes, [Next]_vars
  PROVE  ScriptTypes'
PROOF
  <1>t. {"off", "boot", "bootFall", "app", "check", "pulse", "fall"} = Labels
    BY DEF Labels
  <1>a. \A s \in Script, l \in Labels : Goto(s, l) => pc' \in [Script -> Labels]
    BY DEF ScriptTypes, Goto
  <1>b. ASSUME NEW s \in Script, Lost(s)
        PROVE  blStatus' \in [Script -> {0, 1}] /\ blNotSetCount' \in [Script -> 0 .. LIMIT + 1]
    <2>1. Count(blNotSetCount[s], LIMIT) \in 0 .. LIMIT + 1
      BY LimitAssumption, CountBound DEF ScriptTypes
    <2> QED
      BY <1>b, <2>1 DEF ScriptTypes, Lost
  <1>c. \A s \in Script : Count(lossRun[s], LIMIT + 1) \in 0 .. LIMIT + 2
    BY LimitAssumption DEF ScriptTypes, Count
  <1>1. ASSUME UNCHANGED script PROVE ScriptTypes'
    BY <1>1 DEF ScriptTypes, script, monitor
  <1>2. ASSUME NEW s \in Script, BootPulse(s) \/ LaunchApp(s) PROVE ScriptTypes'
    BY <1>2, <1>a, <1>t DEF BootPulse, LaunchApp, PulseUp, PulseDown, ScriptTypes, monitor
  <1>3. ASSUME NEW s \in Script, LockSeen(s) PROVE ScriptTypes'
    BY <1>3, LimitAssumption DEF LockSeen, ScriptTypes
  <1>4. ASSUME NEW s \in Script, LossSeen(s) PROVE ScriptTypes'
    <2>1. lossRun' \in [Script -> 0 .. LIMIT + 2]
      BY <1>4, <1>c DEF LossSeen, ScriptTypes
    <2>2. pc' \in [Script -> Labels] /\ mac' \in BOOLEAN /\ lock' \in BOOLEAN
      BY <1>4, <1>a, <1>t DEF LossSeen, ScriptTypes
    <2>3. blStatus' \in [Script -> {0, 1}] /\ blNotSetCount' \in [Script -> 0 .. LIMIT + 1]
      BY <1>4, <1>b DEF LossSeen, ScriptTypes
    <2> QED
      BY <2>1, <2>2, <2>3 DEF ScriptTypes
  <1>5. ASSUME NEW s \in Script, ResetMac(s) PROVE ScriptTypes'
    <2>1. CASE PulseUp(s, "pulse", "fall")
      BY <2>1, <1>a, <1>t DEF PulseUp, ScriptTypes, monitor
    <2>2. CASE PulseDown(s, "fall", "check") /\ Lost(s) /\ UNCHANGED <<app, lock, lossRun>>
      <3>1. pc' \in [Script -> Labels] /\ mac' \in BOOLEAN
        BY <2>2, <1>a, <1>t DEF PulseDown
      <3> QED
        BY <2>2, <3>1, <1>b DEF ScriptTypes
    <2> QED
      BY <1>5, <2>1, <2>2 DEF ResetMac
  <1>6. ASSUME NEW s \in Script, StopScript(s) PROVE ScriptTypes'
    BY <1>6, <1>a, <1>t, LimitAssumption DEF StopScript, ScriptTypes
  <1>7. ASSUME NEW s \in Script, StartScript(s) PROVE ScriptTypes'
    BY <1>7, <1>a, <1>t DEF StartScript, ScriptTypes, monitor
  <1>8. CASE LockChanges
    BY <1>8 DEF LockChanges, ScriptTypes, monitor
  <1>9. CASE Reboot
    <2>1. pc' \in [Script -> Labels]
      BY <1>9 DEF Reboot, Boot, Labels
    <2>2. 0 \in 0 .. LIMIT + 1 /\ 0 \in 0 .. LIMIT + 2
      BY LimitAssumption
    <2> QED
      BY <1>9, <2>1, <2>2 DEF Reboot, ScriptTypes
  <1>10. ASSUME NEW p \in Proc, ProcStep(p) PROVE UNCHANGED script
    BY <1>10 DEF ProcStep, Running, CreatePidfile, AnotherRuns, NoPidfile, RemoveSocketFile, Bind,
                OpenPorts, FailPorts, Quit, CloseConnections, UnlinkPidfile, Crash, Move, Fail
  <1> QED
    BY <1>1, <1>2, <1>3, <1>4, <1>5, <1>6, <1>7, <1>8, <1>9, <1>10
       DEF Next, ScriptStep, ProcStep, vars, script

\* Every step keeps the types of the processes.
LEMMA AppTypesKept ==
  ASSUME AppTypes, [Next]_vars
  PROVE  AppTypes'
PROOF
  <1>1. CASE UNCHANGED app
    BY <1>1 DEF AppTypes, app
  <1>2. CASE AppReboot
    BY <1>2, ByScriptIsAWay DEF AppTypes, AppReboot, Stages
  <1> QED
    BY <1>1, <1>2, AppSteps, LaunchTypes, ProcStepTypes

\* Everybody is somewhere, and no count runs away, however many processes and
\* scripts there are (TypeOK).
THEOREM TypeCorrect == Spec => []TypeOK
PROOF
  <1>1. Init => TypeOK
    <2>1. Init => AppTypes
      BY ByScriptIsAWay DEF Init, AppTypes, Stages
    <2>2. Init => ScriptTypes
      <3>1. ASSUME NEW s \in Script, pc = [t \in Script |-> IF t = s THEN "boot" ELSE "off"]
            PROVE  pc \in [Script -> Labels]
        BY <3>1 DEF Labels
      <3>2. 0 \in 0 .. LIMIT + 1 /\ 0 \in 0 .. LIMIT + 2
        BY LimitAssumption
      <3>3. Init => pc \in [Script -> Labels]
        BY <3>1 DEF Init
      <3>4. Init => /\ blStatus \in [Script -> {0, 1}] /\ blNotSetCount \in [Script -> 0 .. LIMIT + 1]
                    /\ lossRun \in [Script -> 0 .. LIMIT + 2]
        BY <3>2 DEF Init
      <3>5. Init => mac \in BOOLEAN /\ lock \in BOOLEAN
        BY DEF Init
      <3> QED
        BY <3>3, <3>4, <3>5 DEF ScriptTypes
    <2> QED
      BY <2>1, <2>2, Halves
  <1>2. TypeOK /\ [Next]_vars => TypeOK'
    <2>1. SUFFICES ASSUME AppTypes, ScriptTypes, [Next]_vars PROVE AppTypes' /\ ScriptTypes'
      BY DEF TypeOK, AppTypes, ScriptTypes, Labels
    <2> QED
      BY <2>1, AppTypesKept, ScriptTypesKept
  <1> QED
    BY <1>1, <1>2, PTL DEF Spec

-----------------------------------------------------------------------------
(* One daemon for each port *)

(***************************************************************************)
(* The pidfile of a daemon exists as long as the daemon does.  That is     *)
(* what makes it the only one with its file: O_EXCL refuses another, and   *)
(* only the daemon itself removes the file.                                *)
(***************************************************************************)
OneDaemonPerPidfile ==
  \A p, q \in Proc : Daemon(p) /\ Daemon(q) /\ options[p].port = options[q].port => p = q

PidInv ==
  /\ OneDaemonPerPidfile
  /\ \A p \in Proc : Daemon(p) => options[p].port \in pidfile

\* What a process step does to the others: nothing.
LEMMA OthersStay ==
  ASSUME AppTypes, NEW p \in Proc, ProcStep(p), NEW q \in Proc, q # p
  PROVE  stage'[q] = stage[q] /\ options'[q] = options[q]
PROOF
  <1>1. PICK s \in Stages : Move(p, s)
    BY DEF ProcStep, Running, CreatePidfile, AnotherRuns, NoPidfile, RemoveSocketFile, Bind, OpenPorts,
           FailPorts, Quit, CloseConnections, UnlinkPidfile, Crash, Fail, Stages
  <1> QED
    BY <1>1 DEF Move, AppTypes

\* Where a process step takes the process itself, and what it leaves of its options.
LEMMA OwnMove ==
  ASSUME AppTypes, NEW p \in Proc, NEW s, Move(p, s)
  PROVE  stage'[p] = s /\ (s # "none" => options' = options)
  BY DEF Move, AppTypes

\* No process becomes a daemon but by creating the pidfile of its port, and a
\* pidfile only goes with its daemon.
LEMMA PidStep ==
  ASSUME AppTypes, NEW p \in Proc, ProcStep(p)
  PROVE  \/ CreatePidfile(p)
         \/ (Daemon(p)' => Daemon(p)) /\ options'[p] = options[p] /\ pidfile' = pidfile
         \/ ~Daemon(p)' /\ pidfile' = pidfile
         \/ Daemon(p) /\ ~Daemon(p)' /\ pidfile' = pidfile \ {options[p].port}
PROOF
  <1> USE DEF Daemon, Started, Fail
  <1>1. CASE AnotherRuns(p) \/ FailPorts(p) \/ Crash(p)
    BY <1>1, OwnMove DEF AnotherRuns, FailPorts, Crash
  <1>2. CASE NoPidfile(p)
    BY <1>2, OwnMove DEF NoPidfile
  <1>3. CASE RemoveSocketFile(p) \/ OpenPorts(p) \/ Quit(p) \/ CloseConnections(p)
    BY <1>3, OwnMove DEF RemoveSocketFile, OpenPorts, Quit, CloseConnections
  <1>4. CASE Bind(p)
    BY <1>4, OwnMove DEF Bind
  <1>5. CASE UnlinkPidfile(p)
    BY <1>5, OwnMove DEF UnlinkPidfile
  <1> QED
    BY <1>1, <1>2, <1>3, <1>4, <1>5 DEF ProcStep, Running

LEMMA PidInvKept ==
  ASSUME AppTypes, PidInv, [Next]_vars
  PROVE  PidInv'
PROOF
  <1>1. CASE UNCHANGED app
    BY <1>1 DEF app, PidInv, OneDaemonPerPidfile, Daemon, Started
  <1>2. ASSUME NEW p \in Proc, NEW o \in Options, Launch(p, o) PROVE PidInv'
    BY <1>2 DEF Launch, Alive, AppTypes, PidInv, OneDaemonPerPidfile, Daemon, Started
  <1>3. ASSUME NEW p \in Proc, ProcStep(p) PROVE PidInv'
    <2>0. \A q \in Proc : q # p => (Daemon(q)' <=> Daemon(q)) /\ options'[q] = options[q]
      BY <1>3, OthersStay DEF Daemon, Started
    <2>1. CASE CreatePidfile(p)
      BY <2>0, <2>1, OwnMove DEF CreatePidfile, PidInv, OneDaemonPerPidfile
    <2>2. CASE (Daemon(p)' => Daemon(p)) /\ options'[p] = options[p] /\ pidfile' = pidfile
      BY <2>0, <2>2 DEF PidInv, OneDaemonPerPidfile
    <2>3. CASE ~Daemon(p)' /\ pidfile' = pidfile
      BY <2>0, <2>3 DEF PidInv, OneDaemonPerPidfile
    <2>4. CASE Daemon(p) /\ ~Daemon(p)' /\ pidfile' = pidfile \ {options[p].port}
      BY <2>0, <2>4 DEF PidInv, OneDaemonPerPidfile
    <2> QED
      BY <1>3, <2>1, <2>2, <2>3, <2>4, PidStep
  <1>4. CASE AppReboot
    BY <1>4 DEF AppReboot, PidInv, OneDaemonPerPidfile, Daemon, Started
  <1> QED
    BY <1>1, <1>2, <1>3, <1>4, AppSteps

LEMMA PidInvHolds == Spec => [](AppTypes /\ PidInv)
PROOF
  <1>1. Init => AppTypes /\ PidInv
    <2>1. Init => AppTypes
      BY ByScriptIsAWay DEF Init, AppTypes, Stages
    <2> QED
      BY <2>1 DEF Init, PidInv, OneDaemonPerPidfile, Daemon, Started
  <1>2. AppTypes /\ PidInv /\ [Next]_vars => (AppTypes /\ PidInv)'
    BY AppTypesKept, PidInvKept
  <1> QED
    BY <1>1, <1>2, PTL DEF Spec

LEMMA DivMod ==
  ASSUME NEW a \in Int, NEW n \in Nat \ {0}
  PROVE  a \div n \in Int /\ a % n \in 0 .. n - 1 /\ a = n * (a \div n) + (a % n)
  BY SMT

\* The number of a port is not changed by the conversion to 16 bits.
LEMMA PortFits ==
  ASSUME NEW n \in Int, 1 <= n, n <= 65535
  PROVE  n % 65536 = n
PROOF
  <1>1. n \div 65536 \in Int /\ 0 <= n % 65536 /\ n % 65536 <= 65535
    BY DivMod
  <1>2. n = 65536 * (n \div 65536) + (n % 65536) /\ n % 65536 \in Int
    BY DivMod
  <1> DEFINE q == n \div 65536
             k == n % 65536
  <1>3. q \in Int /\ k \in Int /\ 0 <= k /\ k <= 65535 /\ n = 65536 * q + k
    BY <1>1, <1>2
  <1> HIDE DEF q, k
  <1>4. k = n
    BY <1>3, SMT
  <1> QED
    BY <1>4 DEF k

\* Ports given in one form are told apart by their numbers: below 2^16 the
\* conversion to a port loses nothing.
LEMMA PortOfNumber ==
  ASSUME NEW o \in Options, NEW r \in Options,
         SameForm(o.port, r.port), ListenPort(o) = ListenPort(r)
  PROVE  o.port = r.port
PROOF
  <1>1. ASSUME NEW x \in Options, x.port # 0, 1 <= x.port, x.port <= 65535
        PROVE  ListenPort(x) = x.port
    <2>1. x.port \in Int
      BY PortAssumption DEF Options
    <2>2. x.port % 65536 = x.port
      BY <1>1, <2>1, PortFits
    <2> QED
      BY <1>1, <2>2 DEF ListenPort
  <1>2. CASE o.port = 0 /\ r.port = 0
    BY <1>2
  <1>3. CASE IsPort(o.port) /\ IsPort(r.port)
    <2>1. o.port # 0 /\ r.port # 0
      BY <1>3 DEF IsPort
    <2>2. ListenPort(o) = o.port /\ ListenPort(r) = r.port
      BY <1>1, <1>3, <2>1 DEF IsPort
    <2> QED
      BY <2>2
  <1> QED
    BY <1>2, <1>3 DEF SameForm

\* At most one daemon listens on each port, however many processes are started,
\* crash and end (skeleton_daemon's pidfile), when all are given no port or a
\* number that is a port's.
THEOREM OneDaemon == Spec => []OneDaemonPerPort
PROOF
  <1>1. AppTypes /\ PidInv => OneDaemonPerPort
    <2> SUFFICES ASSUME AppTypes, PidInv, NEW p \in Proc, NEW q \in Proc, Daemon(p), Daemon(q),
                        ListenPort(options[p]) = ListenPort(options[q]),
                        SameForm(options[p].port, options[q].port)
                 PROVE  p = q
      BY DEF OneDaemonPerPort
    <2>1. options[p] \in Options /\ options[q] \in Options
      BY DEF AppTypes
    <2>2. options[p].port = options[q].port
      BY <2>1, PortOfNumber
    <2> QED
      BY <2>2 DEF PidInv, OneDaemonPerPidfile
  <1> QED
    BY <1>1, PidInvHolds, PTL

-----------------------------------------------------------------------------
(* The socket file *)

\* From its bind on, a process that has had no company has the socket file.
Bound(p) == stage[p] \in {"ports", "serving", "closing"} /\ options[p].hw
SocketInv == \A p \in Proc : Bound(p) => sockfile = p \/ p \in company

\* A process that uses the socket file while another one takes a step as a user
\* of it, or to become one, is in company afterwards.
LEMMA InCompany ==
  ASSUME AppTypes, NEW p \in Proc, NEW s \in Stages \ {"none", "start"}, Move(p, s), options[p].hw,
         NEW q \in Proc, q # p, Uses(q)
  PROVE  p \in company' /\ q \in company'
  BY DEF Move, Companions

\* Nobody who uses the socket file leaves the company of the others.
LEMMA CompanyStays ==
  ASSUME AppTypes, NEW p \in Proc, NEW s, Move(p, s), NEW q \in Proc, q # p, Uses(q), q \in company
  PROVE  q \in company'
  BY DEF Move, Companions

\* Nor does the one that takes a step.
LEMMA OwnCompanyStays ==
  ASSUME AppTypes, NEW p \in Proc, NEW s \in Stages \ {"none", "start"}, Move(p, s), options[p].hw,
         p \in company
  PROVE  p \in company'
  BY DEF Move, Companions

\* Every process step is a move; it leaves the socket file, or takes it away as a
\* user of it, or makes it the process's own.
LEMMA SocketStep ==
  ASSUME AppTypes, NEW p \in Proc, ProcStep(p)
  PROVE  \E s \in Stages :
           /\ Move(p, s)
           /\ \/ sockfile' = sockfile /\ (Bound(p)' => Bound(p))
              \/ sockfile' = Nobody /\ s \in {"bind", "unlinking"} /\ options[p].hw
              \/ sockfile' = p /\ s = "ports" /\ stage[p] = "bind"
              \/ sockfile' = sockfile /\ s = "ports" /\ ~options[p].hw
PROOF
  <1> USE DEF Bound, Fail
  <1>s. {"none", "open", "bind", "ports", "serving", "closing", "unlinking"} \subseteq Stages
    BY DEF Stages
  <1>1. CASE CreatePidfile(p) \/ NoPidfile(p)
    BY <1>1, <1>s, OwnMove DEF CreatePidfile, NoPidfile
  <1>2. CASE AnotherRuns(p) \/ FailPorts(p) \/ Crash(p)
    BY <1>2, <1>s, OwnMove DEF AnotherRuns, FailPorts, Crash
  <1>3. CASE RemoveSocketFile(p)
    BY <1>3, <1>s, OwnMove DEF RemoveSocketFile
  <1>4. CASE Bind(p)
    BY <1>4, <1>s, OwnMove DEF Bind
  <1>5. CASE OpenPorts(p) \/ Quit(p)
    BY <1>5, <1>s, OwnMove DEF OpenPorts, Quit
  <1>6. CASE CloseConnections(p)
    BY <1>6, <1>s, OwnMove DEF CloseConnections
  <1>7. CASE UnlinkPidfile(p)
    BY <1>7, <1>s, OwnMove DEF UnlinkPidfile
  <1> QED
    BY <1>1, <1>2, <1>3, <1>4, <1>5, <1>6, <1>7 DEF ProcStep, Running

\* A process is in stage "bind" with the hardware only.
BindInv == \A p \in Proc : stage[p] = "bind" => options[p].hw

LEMMA BindInvKept ==
  ASSUME AppTypes, BindInv, [Next]_vars
  PROVE  BindInv'
PROOF
  <1>1. CASE UNCHANGED app
    BY <1>1 DEF app, BindInv
  <1>2. ASSUME NEW p \in Proc, NEW o \in Options, Launch(p, o) PROVE BindInv'
    BY <1>2 DEF Launch, Alive, AppTypes, BindInv
  <1>3. ASSUME NEW p \in Proc, ProcStep(p) PROVE BindInv'
    <2>1. stage'[p] = "bind" => options'[p].hw
      BY <1>3, OwnMove
         DEF ProcStep, Running, CreatePidfile, AnotherRuns, NoPidfile, RemoveSocketFile, Bind, OpenPorts,
             FailPorts, Quit, CloseConnections, UnlinkPidfile, Crash, Fail
    <2> QED
      BY <1>3, <2>1, OthersStay DEF BindInv
  <1>4. CASE AppReboot
    BY <1>4 DEF AppReboot, BindInv
  <1> QED
    BY <1>1, <1>2, <1>3, <1>4, AppSteps

LEMMA SocketInvKept ==
  ASSUME AppTypes, BindInv, SocketInv, [Next]_vars
  PROVE  SocketInv'
PROOF
  <1>1. CASE UNCHANGED app
    BY <1>1 DEF app, SocketInv, Bound
  <1>2. ASSUME NEW p \in Proc, NEW o \in Options, Launch(p, o) PROVE SocketInv'
    BY <1>2 DEF Launch, Alive, AppTypes, SocketInv, Bound
  <1>3. ASSUME NEW p \in Proc, ProcStep(p), NEW q \in Proc, Bound(q)'
        PROVE  sockfile' = q \/ q \in company'
    <2> DEFINE Step(s) ==
          \/ sockfile' = sockfile /\ (Bound(p)' => Bound(p))
          \/ sockfile' = Nobody /\ s \in {"bind", "unlinking"} /\ options[p].hw
          \/ sockfile' = p /\ s = "ports" /\ stage[p] = "bind"
          \/ sockfile' = sockfile /\ s = "ports" /\ ~options[p].hw
    <2>1. PICK s \in Stages : Move(p, s) /\ Step(s)
      BY <1>3, SocketStep
    <2>2. CASE q # p
      <3>1. Bound(q) /\ Uses(q)
        BY <1>3, <2>2, OthersStay DEF Bound, Uses, Started
      <3>2. CASE q \in company
        BY <2>1, <2>2, <3>1, <3>2, CompanyStays
      <3>3. CASE sockfile = q /\ sockfile' = sockfile
        BY <3>3
      <3>4. CASE sockfile' # sockfile
        <4>1. options[p].hw /\ s \in {"bind", "unlinking", "ports"}
          BY <2>1, <3>4 DEF BindInv
        <4> QED
          BY <2>1, <2>2, <3>1, <4>1, InCompany
      <3> QED
        BY <3>1, <3>2, <3>3, <3>4 DEF SocketInv
    <2>3. CASE q = p
      <3>1. stage'[p] = s /\ options' = options /\ options[p].hw /\ s \in {"ports", "serving", "closing"}
        BY <1>3, <2>1, <2>3, OwnMove DEF Bound
      <3>2. CASE sockfile' = p
        BY <2>3, <3>2
      <3>3. CASE sockfile' = sockfile /\ Bound(p)
        <4>1. CASE sockfile = p
          BY <2>3, <3>3, <4>1
        <4>2. CASE p \in company
          BY <2>1, <2>3, <3>1, <4>2, OwnCompanyStays
        <4> QED
          BY <3>3, <4>1, <4>2 DEF SocketInv
      <3> QED
        BY <1>3, <2>1, <2>3, <3>1, <3>2, <3>3
    <2> QED
      BY <2>2, <2>3
  <1>4. CASE AppReboot
    BY <1>4 DEF AppReboot, SocketInv, Bound
  <1> QED
    BY <1>1, <1>2, <1>3, <1>4, AppSteps DEF SocketInv

\* A process that serves the socket file without company is the one it leads to,
\* whatever earlier processes left behind.
THEOREM Reachable == Spec => []ReachableWhenAlone
PROOF
  <1> DEFINE Inv == AppTypes /\ BindInv /\ SocketInv
  <1>1. Init => Inv
    <2>1. Init => AppTypes
      BY ByScriptIsAWay DEF Init, AppTypes, Stages
    <2> QED
      BY <2>1 DEF Init, BindInv, SocketInv, Bound
  <1>2. Inv /\ [Next]_vars => Inv'
    BY AppTypesKept, BindInvKept, SocketInvKept
  <1>3. Inv => ReachableWhenAlone
    BY DEF SocketInv, Bound, ReachableWhenAlone, Uses
  <1> QED
    BY <1>1, <1>2, <1>3, PTL DEF Spec

-----------------------------------------------------------------------------
(* Tidy ends *)

\* Until something crashes or fails, each pidfile has its daemon, and the socket
\* file leads to a process that is still to remove it.
TidyInv ==
  ~untidy =>
    /\ \A t \in pidfile : \E p \in Proc : Daemon(p) /\ options[p].port = t
    /\ sockfile # Nobody => Bound(sockfile)

LEMMA TidyInvKept ==
  ASSUME AppTypes, BindInv, TidyInv, [Next]_vars
  PROVE  TidyInv'
PROOF
  <1>1. CASE UNCHANGED app
    BY <1>1 DEF app, TidyInv, Bound, Daemon, Started
  <1>2. ASSUME NEW p \in Proc, NEW o \in Options, Launch(p, o) PROVE TidyInv'
    BY <1>2 DEF Launch, Alive, AppTypes, TidyInv, Bound, Daemon, Started
  <1>3. ASSUME NEW p \in Proc, ProcStep(p) PROVE TidyInv'
    <2>1. SUFFICES ASSUME ~untidy'
                   PROVE  /\ \A t \in pidfile' : \E q \in Proc : Daemon(q)' /\ options'[q].port = t
                          /\ sockfile' # Nobody => Bound(sockfile)'
      BY DEF TidyInv
    <2>2. ~untidy /\ ~FailPorts(p) /\ ~Crash(p) /\ ~(Bind(p) /\ sockfile # Nobody)
      BY <1>3, <2>1 DEF ProcStep, Running, CreatePidfile, AnotherRuns, NoPidfile, RemoveSocketFile, Bind,
                        OpenPorts, FailPorts, Quit, CloseConnections, UnlinkPidfile, Crash, Fail
    <2>3. \A q \in Proc : q # p => /\ (Daemon(q)' <=> Daemon(q)) /\ options'[q] = options[q]
                                  /\ (Bound(q)' <=> Bound(q))
      BY <1>3, OthersStay DEF Daemon, Started, Bound
    <2>4. CASE CreatePidfile(p)
      <3>1. Daemon(p)' /\ options' = options /\ pidfile' = pidfile \cup {options[p].port}
        BY <2>4, OwnMove DEF CreatePidfile, Daemon, Started
      <3>2. ~Daemon(p) /\ ~Bound(p) /\ sockfile' = sockfile
        BY <2>4 DEF CreatePidfile, Daemon, Started, Bound
      <3> QED
        BY <2>2, <2>3, <3>1, <3>2 DEF TidyInv, AppTypes
    <2>5. CASE AnotherRuns(p) \/ NoPidfile(p)
      <3>1. ~Daemon(p) /\ ~Bound(p) /\ sockfile' = sockfile /\ pidfile' = pidfile
        BY <2>5 DEF AnotherRuns, NoPidfile, Daemon, Started, Bound
      <3> QED
        BY <2>2, <2>3, <3>1 DEF TidyInv, AppTypes
    <2>6. CASE RemoveSocketFile(p) \/ CloseConnections(p)
      <3>1. (Daemon(p)' <=> Daemon(p)) /\ options' = options /\ pidfile' = pidfile
        BY <2>6, OwnMove DEF RemoveSocketFile, CloseConnections, Daemon, Started
      <3>2. sockfile' = Nobody \/ (sockfile' = sockfile /\ ~options[p].hw)
        BY <2>6 DEF RemoveSocketFile, CloseConnections
      <3>3. sockfile' # Nobody => Bound(sockfile)'
        BY <2>2, <2>3, <3>2 DEF TidyInv, AppTypes, Bound
      <3> QED
        BY <2>2, <2>3, <3>1, <3>3 DEF TidyInv
    <2>7. CASE Bind(p) \/ OpenPorts(p) \/ Quit(p)
      <3>1. (Daemon(p)' <=> Daemon(p)) /\ options' = options /\ pidfile' = pidfile
        BY <2>2, <2>7, OwnMove DEF Bind, OpenPorts, Quit, Daemon, Started
      <3>2. options[p].hw => Bound(p)'
        BY <2>2, <2>7, OwnMove DEF Bind, OpenPorts, Quit, Bound
      <3>3. sockfile' = sockfile \/ (sockfile' = p /\ options[p].hw)
        BY <2>2, <2>7 DEF Bind, OpenPorts, Quit, BindInv
      <3>4. sockfile' # Nobody => Bound(sockfile)'
        BY <2>2, <2>3, <3>2, <3>3 DEF TidyInv, AppTypes, Bound
      <3> QED
        BY <2>2, <2>3, <3>1, <3>4 DEF TidyInv
    <2>8. CASE UnlinkPidfile(p)
      <3>1. ~Bound(p) /\ sockfile' = sockfile
        BY <2>8 DEF UnlinkPidfile, Bound
      <3>2. /\ Daemon(p) => pidfile' = pidfile \ {options[p].port}
            /\ ~Daemon(p) => pidfile' = pidfile
        BY <2>8 DEF UnlinkPidfile, Daemon, Started
      <3> QED
        BY <2>2, <2>3, <3>1, <3>2 DEF TidyInv, AppTypes
    <2> QED
      BY <1>3, <2>2, <2>4, <2>5, <2>6, <2>7, <2>8 DEF ProcStep, Running
  <1>4. CASE AppReboot
    BY <1>4 DEF AppReboot, TidyInv
  <1> QED
    BY <1>1, <1>2, <1>3, <1>4, AppSteps

\* As long as nothing crashes or fails to start, processes that end leave neither
\* a pidfile nor a socket file.
THEOREM EndsTidily == Spec => []TidyEnd
PROOF
  <1> DEFINE Inv == AppTypes /\ BindInv /\ TidyInv
  <1>1. Init => Inv
    <2>1. Init => AppTypes
      BY ByScriptIsAWay DEF Init, AppTypes, Stages
    <2> QED
      BY <2>1 DEF Init, BindInv, TidyInv
  <1>2. Inv /\ [Next]_vars => Inv'
    BY AppTypesKept, BindInvKept, TidyInvKept
  <1>3. Inv => TidyEnd
    BY DEF AppTypes, TidyInv, TidyEnd, Bound, Daemon, Started
  <1> QED
    BY <1>1, <1>2, <1>3, PTL DEF Spec

-----------------------------------------------------------------------------
(* The link monitor *)

(***************************************************************************)
(* A script counts no more losses than it has seen in a row.  That needs   *)
(* blStatus: the count is cleared when the lock is back, because a count   *)
(* that is not 0 goes with a status that is.                               *)
(***************************************************************************)
LossInv ==
  \A s \in Script :
    /\ blNotSetCount[s] <= lossRun[s]
    /\ blNotSetCount[s] > 0 => blStatus[s] = 0
    /\ pc[s] \in {"pulse", "fall"} => lossRun[s] = LIMIT + 2

LEMMA LossInvKept ==
  ASSUME ScriptTypes, LossInv, [Next]_vars
  PROVE  LossInv'
PROOF
  <1> USE LimitAssumption
  <1>1. ASSUME UNCHANGED script PROVE LossInv'
    BY <1>1 DEF LossInv, script, monitor
  <1>2. ASSUME NEW s \in Script, BootPulse(s) \/ LaunchApp(s) \/ StartScript(s) PROVE LossInv'
    BY <1>2 DEF BootPulse, LaunchApp, StartScript, PulseUp, PulseDown, Goto, LossInv, ScriptTypes, monitor
  <1>3. ASSUME NEW s \in Script, LockSeen(s) PROVE LossInv'
    BY <1>3 DEF LockSeen, LossInv, ScriptTypes
  <1>4. ASSUME NEW s \in Script, LossSeen(s) PROVE LossInv'
    <2>1. \A t \in Script : t # s => /\ pc'[t] = pc[t] /\ lossRun'[t] = lossRun[t]
                                    /\ blNotSetCount'[t] = blNotSetCount[t] /\ blStatus'[t] = blStatus[t]
      BY <1>4 DEF LossSeen, Lost, Goto, ScriptTypes
    <2>2. lossRun'[s] = Count(lossRun[s], LIMIT + 1)
      BY <1>4 DEF LossSeen, ScriptTypes
    <2>3. blNotSetCount[s] \in 0 .. LIMIT + 1 /\ lossRun[s] \in 0 .. LIMIT + 2
      BY DEF ScriptTypes
    <2>4. CASE blNotSetCount[s] > LIMIT
      <3>1. blNotSetCount'[s] = blNotSetCount[s] /\ blStatus'[s] = blStatus[s]
        BY <1>4, <2>4 DEF LossSeen
      <3>2. lossRun'[s] = LIMIT + 2
        BY <2>2, <2>3, <2>4 DEF LossInv, Count
      <3> QED
        BY <2>1, <2>3, <3>1, <3>2 DEF LossInv
    <2>5. CASE ~(blNotSetCount[s] > LIMIT)
      <3>1. blNotSetCount'[s] = blNotSetCount[s] + 1 /\ blStatus'[s] = 0 /\ pc'[s] = "check"
        BY <1>4, <2>3, <2>5 DEF LossSeen, Lost, Count, ScriptTypes
      <3>2. lossRun'[s] >= blNotSetCount[s] + 1
        BY <2>2, <2>3, <2>5 DEF LossInv, Count
      <3> QED
        BY <2>1, <2>3, <3>1, <3>2 DEF LossInv
    <2> QED
      BY <2>4, <2>5
  <1>5. ASSUME NEW s \in Script, ResetMac(s) PROVE LossInv'
    <2>1. CASE PulseUp(s, "pulse", "fall")
      BY <2>1 DEF PulseUp, Goto, LossInv, ScriptTypes, monitor
    <2>2. CASE PulseDown(s, "fall", "check") /\ Lost(s) /\ UNCHANGED <<app, lock, lossRun>>
      BY <2>2 DEF PulseDown, Goto, Lost, Count, LossInv, ScriptTypes
    <2> QED
      BY <1>5, <2>1, <2>2 DEF ResetMac
  <1>6. ASSUME NEW s \in Script, StopScript(s) PROVE LossInv'
    BY <1>6 DEF StopScript, Goto, LossInv, ScriptTypes
  <1>7. CASE LockChanges
    BY <1>7 DEF LockChanges, LossInv, monitor
  <1>8. CASE Reboot
    <2>1. \A s \in Script : pc'[s] \in {"boot", "off"}
      BY <1>8 DEF Reboot, Boot
    <2> QED
      BY <1>8, <2>1 DEF Reboot, LossInv
  <1>9. ASSUME NEW p \in Proc, ProcStep(p) PROVE UNCHANGED script
    BY <1>9 DEF ProcStep, Running, CreatePidfile, AnotherRuns, NoPidfile, RemoveSocketFile, Bind,
               OpenPorts, FailPorts, Quit, CloseConnections, UnlinkPidfile, Crash, Move, Fail
  <1> QED
    BY <1>1, <1>2, <1>3, <1>4, <1>5, <1>6, <1>7, <1>8, <1>9 DEF Next, ScriptStep, ProcStep, vars, script

\* No script resets the MAC but after it has seen the lock lost more than LIMIT + 1
\* times in a row, for any limit and however many scripts run.
THEOREM ResetsAfterLosses == Spec => []ResetOnlyAfterLosses
PROOF
  <1>1. Init => LossInv
    <2>1. Init => \A s \in Script : pc[s] \in {"boot", "off"}
      BY DEF Init
    <2> QED
      BY <2>1 DEF Init, LossInv
  <1>2. TypeOK => ScriptTypes
    BY Halves
  <1>3. ScriptTypes /\ LossInv /\ [Next]_vars => LossInv'
    BY LossInvKept
  <1>4. LossInv => ResetOnlyAfterLosses
    BY DEF LossInv, ResetOnlyAfterLosses
  <1> QED
    BY <1>1, <1>2, <1>3, <1>4, TypeCorrect, PTL DEF Spec
=============================================================================
