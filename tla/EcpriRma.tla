------------------------------ MODULE EcpriRma ------------------------------
(***************************************************************************)
(* Remote memory access (RMA) and remote reset (RMR) of the eCPRI          *)
(* protocol, as the xroe-app daemons of several nodes run them             *)
(* (xroe-app/ecpri.c, ecpri_proto.c).                                      *)
(*                                                                         *)
(* A daemon is single-threaded.  A command of one of its users sends a     *)
(* request and then polls the socket, for ever if need be, until a message *)
(* comes; only after that does the daemon go back to its main loop, which  *)
(* serves the requests of the others.  Whatever message comes ends the     *)
(* polling, and is gone.  The message ids are always 0 and nobody compares *)
(* them, nor the sender: the fields id and of of a message, the id in cmd, *)
(* and served are history.                                                 *)
(***************************************************************************)
EXTENDS Integers, FiniteSets

CONSTANTS
  Caller,       \* the nodes whose users give RMA and RMR commands
  Target,       \* the nodes the commands go to
  Addr, Val,    \* the addresses and the values of a read or write
  Zero,         \* the value of a buffer nobody has written
  Refused,      \* the addresses /dev/xroe/ip fails to read and write
  Faults,       \* what the environment may do, a subset of FaultKinds
  Restarts,     \* the nodes whose daemon may die and be started again
  Measured,     \* the nodes that OWDM, event and test messages come to
  MaxMsg        \* bound: no command and no other message beyond MaxMsg messages

(***************************************************************************)
(* "lose"     a message may be lost                                        *)
(* "send"     a request may not leave: bad address, failing sendto()       *)
(* "reorder"  messages of one node to another may overtake each other      *)
(* "short"    datagrams arrive that are no eCPRI message                   *)
(***************************************************************************)
FaultKinds == {"lose", "send", "reorder", "short"}

ASSUME ZeroAssumption    == Zero \in Val
ASSUME RefusedAssumption == Refused \subseteq Addr
ASSUME FaultsAssumption  == Faults \subseteq FaultKinds
ASSUME MaxMsgAssumption  == MaxMsg \in Nat

Node == Caller \cup Target

ASSUME RestartsAssumption == Restarts \subseteq Node
ASSUME MeasuredAssumption == Measured \subseteq Node

VARIABLES
  mem,          \* mem[t]: what /dev/xroe/ip gives access to at t
  cmd,          \* cmd[n]: the command n waits for the answer of, or None
  ret,          \* history: ret[n], how the last command of n that ended did so
  net,          \* messages in the network or in a socket's receive buffer
  sent,         \* history: number of messages so far, the source of ids
  served        \* history: the requests performed, by whom and with what answer

vars == <<mem, cmd, ret, net, sent, served>>

-----------------------------------------------------------------------------
(* Commands and messages *)

None == [op |-> "none"]

Commands ==
  [op : {"read"}, to : Target, addr : Addr]
    \cup [op : {"write"}, to : Target, addr : Addr, val : Val]
    \cup [op : {"reset"}, to : Target]

Answers == [op : {"read"}, val : Val] \cup [op : {"write", "reset"}]

\* A message.  body is a command, an answer, or None; of is, in an answer, the
\* id of the request.
Message(i, s, d, k, b, r) == [id |-> i, src |-> s, dst |-> d, kind |-> k, body |-> b, of |-> r]

Messages == [id : Nat, src : Node, dst : Node, kind : {"req", "resp", "other", "short"},
             body : Commands \cup Answers \cup {None}, of : Nat]

\* The socket of p's destination receives p.
Receive(p) ==
  /\ p \in net
  /\ "reorder" \in Faults \/ \A q \in net : q.src = p.src /\ q.dst = p.dst => p.id <= q.id

Waiting(n) == cmd[n] # None

-----------------------------------------------------------------------------
(* The caller *)

\* A faulty request, which leaves twice.
SendRequestTwice(n, c) ==
  /\ ~Waiting(n) /\ n # c.to
  /\ sent < MaxMsg
  /\ sent' = sent + 2
  /\ cmd' = [cmd EXCEPT ![n] = [op |-> "call", id |-> sent + 1, command |-> c]]
  /\ net' = net \cup {Message(sent + 1, n, c.to, "req", c, 0), Message(sent + 2, n, c.to, "req", c, 0)}
  /\ UNCHANGED <<mem, ret, served>>

\* rma_send_request, rmr_send_request: the daemon waits for an answer whether
\* or not the request could be sent.
SendRequest(n, c) ==
  /\ ~Waiting(n) /\ n # c.to
  /\ sent < MaxMsg
  /\ sent' = sent + 1
  /\ cmd' = [cmd EXCEPT ![n] = [op |-> "call", id |-> sent + 1, command |-> c]]
  /\ \/ net' = net \cup {Message(sent + 1, n, c.to, "req", c, 0)}
     \/ "send" \in Faults /\ UNCHANGED net
  /\ UNCHANGED <<mem, ret, served>>

\* The answer is taken for that of the command when it has the same type.
Accepts(c, p) == p.kind = "resp" /\ p.body.op = c.command.op

\* Faulty ways to wait: one ends with any datagram, one goes on when a message
\* is not for it.
GetResponseOnce(p) ==
  LET n == p.dst
  IN /\ Receive(p) /\ Waiting(n)
     /\ ret' = [ret EXCEPT ![n] = [op |-> IF Accepts(cmd[n], p) THEN "returned" ELSE "failed",
                                   for |-> cmd[n], by |-> p]]
     /\ cmd' = [cmd EXCEPT ![n] = None]
     /\ net' = net \ {p}
     /\ UNCHANGED <<mem, sent, served>>

GetResponseInsisting(p) ==
  LET n == p.dst
  IN /\ Receive(p) /\ Waiting(n) /\ p.kind # "short"
     /\ IF Accepts(cmd[n], p)
        THEN /\ ret' = [ret EXCEPT ![n] = [op |-> "returned", for |-> cmd[n], by |-> p]]
             /\ cmd' = [cmd EXCEPT ![n] = None]
        ELSE UNCHANGED <<ret, cmd>>
     /\ net' = net \ {p}
     /\ UNCHANGED <<mem, sent, served>>

\* proto_ecpri_rma_get_response, proto_ecpri_rmr_get_response: any eCPRI message
\* ends the waiting.  One that is not accepted is "not for us", and nobody else
\* gets it.
GetResponse(p) ==
  LET n == p.dst
  IN /\ Receive(p) /\ Waiting(n) /\ p.kind # "short"
     /\ ret' = [ret EXCEPT ![n] = [op |-> IF Accepts(cmd[n], p) THEN "returned" ELSE "failed",
                                   for |-> cmd[n], by |-> p]]
     /\ cmd' = [cmd EXCEPT ![n] = None]
     /\ net' = net \ {p}
     /\ UNCHANGED <<mem, sent, served>>

\* proto_ecpri_recv returns 0 for what is no eCPRI message: the waiting goes on.
SkipShort(p) ==
  /\ Receive(p) /\ Waiting(p.dst) /\ p.kind = "short"
  /\ net' = net \ {p}
  /\ UNCHANGED <<mem, cmd, ret, sent, served>>

-----------------------------------------------------------------------------
(* The target: proto_ecpri_handle_incoming_rma, proto_ecpri_handle_incoming_rmr *)

\* A faulty answer: the request sent back.
AnswerToEcho(t, c) == c

\* IP_API_Read fails for a refused address, and the zeroed buffer is sent.
AnswerTo(t, c) ==
  IF c.op = "read"
  THEN [op |-> "read", val |-> IF c.addr \in Refused THEN Zero ELSE mem[t][c.addr]]
  ELSE [op |-> c.op]

\* A faulty address: that of the node that asked first of all.
SenderStale(p) == CHOOSE n \in Caller : TRUE

\* proto_ecpri_recv: the address a message came from, which its answer goes to.
Sender(p) == p.src

\* IP_API_Write.  A reset request is only acknowledged.
Perform(t, c) ==
  IF c.op = "write" /\ c.addr \notin Refused
  THEN [mem EXCEPT ![t][c.addr] = c.val]
  ELSE mem

\* The answer goes out even when the device refused.
Serve(p) ==
  LET t == p.dst
      a == AnswerTo(t, p.body)
  IN /\ Receive(p) /\ ~Waiting(t) /\ p.kind = "req"
     /\ mem' = Perform(t, p.body)
     /\ served' = served \cup {[of |-> p.id, by |-> t, for |-> p.src, answer |-> a]}
     /\ sent' = sent + 1
     /\ \/ net' = (net \ {p}) \cup {Message(sent + 1, t, Sender(p), "resp", a, p.id)}
        \/ "send" \in Faults /\ net' = net \ {p}
     /\ UNCHANGED <<cmd, ret>>

\* The main loop drops the answers nobody waits for.  (What it does with the
\* OWDM messages is the subject of EcpriOwdm.)
Drop(p) ==
  /\ Receive(p) /\ ~Waiting(p.dst) /\ p.kind \in {"resp", "other"}
  /\ net' = net \ {p}
  /\ UNCHANGED <<mem, cmd, ret, sent, served>>

\* To the main loop proto_ecpri_recv returns 1 even for what is no eCPRI message,
\* because it has an rx stamp, and the loop looks at a type and a buffer nobody
\* has set.  It gets by, or the daemon dies and is started again, and what had
\* arrived at its socket is gone.
HandleShort(p) ==
  /\ Receive(p) /\ ~Waiting(p.dst) /\ p.kind = "short"
  /\ \E gone \in SUBSET {q \in net : q.dst = p.dst} : net' = net \ (gone \cup {p})
  /\ UNCHANGED <<mem, cmd, ret, sent, served>>

HandleMessage(p) == GetResponse(p) \/ SkipShort(p) \/ Serve(p) \/ Drop(p) \/ HandleShort(p)

-----------------------------------------------------------------------------
(* The environment *)

\* A message of another kind: an OWDM or test message of a daemon that does not
\* wait, or a datagram of any program.
SendOther(n, d) ==
  /\ n # d /\ sent < MaxMsg
  /\ sent' = sent + 1
  /\ \/ /\ d \in Measured /\ ~Waiting(n)
        /\ net' = net \cup {Message(sent + 1, n, d, "other", None, 0)}
     \/ /\ "short" \in Faults
        /\ net' = net \cup {Message(sent + 1, n, d, "short", None, 0)}
  /\ UNCHANGED <<mem, cmd, ret, served>>

Lose(p) ==
  /\ "lose" \in Faults
  /\ p \in net
  /\ net' = net \ {p}
  /\ UNCHANGED <<mem, cmd, ret, sent, served>>

\* The memory is that of the device and outlives the daemon.
Restart(n) ==
  /\ n \in Restarts
  /\ \E gone \in SUBSET {p \in net : p.dst = n} : net' = net \ gone
  /\ cmd' = [cmd EXCEPT ![n] = None]
  /\ UNCHANGED <<mem, ret, sent, served>>

-----------------------------------------------------------------------------
Init ==
  /\ mem    = [t \in Target |-> [a \in Addr |-> Zero]]
  /\ cmd    = [n \in Node |-> None]
  /\ ret    = [n \in Node |-> None]
  /\ net    = {}
  /\ sent   = 0
  /\ served = {}

Next ==
  \/ \E n \in Caller, c \in Commands : SendRequest(n, c)
  \/ \E p \in net : GetResponse(p)
  \/ \E p \in net : SkipShort(p)
  \/ \E p \in net : Serve(p)
  \/ \E p \in net : Drop(p)
  \/ \E p \in net : HandleShort(p)
  \/ \E n, d \in Node : SendOther(n, d)
  \/ \E p \in net : Lose(p)
  \/ \E n \in Node : Restart(n)

Spec == Init /\ [][Next]_vars

\* A daemon whose socket holds a message takes it: the loop of GetResponse polls
\* the socket, and the main loop gets to it after the commands that have arrived.
FairSpec ==
  /\ Spec
  /\ \A n \in Node : WF_vars(\E p \in net : p.dst = n /\ HandleMessage(p))

-----------------------------------------------------------------------------
(* Properties *)

Calls == [op : {"call"}, id : Nat, command : Commands]

TypeOK ==
  /\ mem \in [Target -> [Addr -> Val]]
  /\ cmd \in [Node -> Calls \cup {None}]
  /\ ret \in [Node -> [op : {"returned", "failed"}, for : Calls, by : Messages] \cup {None}]
  /\ net \in SUBSET Messages
  /\ sent \in Nat
  /\ served \in SUBSET [of : Nat, by : Node, for : Node, answer : Answers]

\* Whatever is lost, reordered or restarted: what a command reports as its
\* answer is what some target answered when it performed a request of this very
\* node, a request of that type.
AcceptedWasServed ==
  \A n \in Node : ret[n].op = "returned" =>
    /\ [of |-> ret[n].by.of, by |-> ret[n].by.src, for |-> n, answer |-> ret[n].by.body] \in served
    /\ ret[n].by.body.op = ret[n].for.command.op

\* An answer is that of the command it is reported for.
AnswerIsOwn ==
  \A n \in Node : ret[n].op = "returned" => ret[n].by.of = ret[n].for.id

\* No daemon polls for ever.
EveryCommandEnds == \A n \in Node : Waiting(n) ~> ~Waiting(n)

\* RemoteMemory, with what is in served about a command as its performance.
PerformanceOf(n) == {s \in served : cmd[n] # None /\ s.of = cmd[n].id}

Memory == INSTANCE RemoteMemory WITH
  call     <- [n \in Caller |-> IF cmd[n] = None THEN None ELSE cmd[n].command],
  answer   <- [n \in Caller |->
                IF PerformanceOf(n) = {} THEN None ELSE (CHOOSE s \in PerformanceOf(n) : TRUE).answer],
  returned <- [n \in Caller |->
                IF ret[n].op = "returned"
                THEN [op |-> "returned", command |-> ret[n].for.command, answer |-> ret[n].by.body]
                ELSE None]

\* When no node is both a caller and a target, commands implement the promises
\* of RemoteMemory.
ImplementsRemoteMemory == Memory!Spec
=============================================================================
