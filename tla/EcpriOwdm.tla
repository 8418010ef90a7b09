----------------------------- MODULE EcpriOwdm -----------------------------
(***************************************************************************)
(* The one-way delay measurement (OWDM) of the eCPRI protocol, as the      *)
(* xroe-app daemons of several nodes run it (xroe-app/ecpri_proto.c).      *)
(*                                                                         *)
(* A daemon is single-threaded: a command or a received message is handled *)
(* to the end before the next one, so every handler is one action.  What   *)
(* interleaves is the handlers of the different nodes, the network, the    *)
(* time-stamps the network driver posts on the socket's error queue, and   *)
(* restarts.                                                               *)
(*                                                                         *)
(* A time-stamp is abstracted to the event it stamps: the packet, the node *)
(* and whether the packet was leaving ("tx") or arriving ("rx").  Whether  *)
(* a delay is right is then whether its two stamps are those of the        *)
(* departure and of the arrival of one packet; the arithmetic on the       *)
(* stamps is in OwdmDelay.  The fields ex and of of a packet and own are   *)
(* history: the program has no such identities (the message id is always 0 *)
(* and nobody compares it).                                                *)
(***************************************************************************)
EXTENDS Integers, Sequences

CONSTANTS
  Node,         \* the hosts that run a daemon
  NoNode,       \* the zeroed address a daemon starts with
  Faults,       \* what the environment may do, a subset of FaultKinds
  LossyKinds,   \* the actions of the messages the network may lose
  Concurrent,   \* TRUE: a node may start or restart while measurements are under way
  MaxPkt        \* bound: no command and no unrelated send beyond MaxPkt packets

(***************************************************************************)
(* "reorder"  messages of one node to another may overtake each other      *)
(* "send"     sendto() may fail                                            *)
(* "late"     a tx time-stamp may miss the polling of the error queue      *)
(* "other"    the socket carries RMA, reset and test messages too          *)
(* "restart"  a daemon may die and be started again                        *)
(***************************************************************************)
FaultKinds == {"reorder", "send", "late", "other", "restart"}

ActionType == {"REQ_FOL_UP", "FOL_UP", "RESP", "REM_REQ_FOL_UP"}

ASSUME NoNodeAssumption     == NoNode \notin Node
ASSUME FaultsAssumption     == Faults \subseteq FaultKinds
ASSUME LossyAssumption      == LossyKinds \subseteq ActionType
ASSUME ConcurrentAssumption == Concurrent \in BOOLEAN
ASSUME MaxPktAssumption     == MaxPkt \in Nat

VARIABLES
  owdm_req,     \* owdm_req[n]: measurements requested at n since its start
  owdm_msg,     \* owdm_msg[n]: the one stamp n remembers (node and stamp)
  owdm_result,  \* owdm_result[n]: the last result (node, direction, number, stamps)
  errq,         \* errq[n]: tx stamps waiting on the error queue of sock_ip
  late,         \* late[n]: packets sent whose tx stamp has not been posted yet
  net,          \* messages in the network or in a socket's receive buffer
  sent,         \* history: number of packets handed to sendto so far, the source of ids
  own           \* own[n]: history, the measurement n asked for last, 0 if answered

vars == <<owdm_req, owdm_msg, owdm_result, errq, late, net, sent, own>>

-----------------------------------------------------------------------------
(* Time-stamps *)

Stamp(i, n, w) == [pkt |-> i, by |-> n, at |-> w]

\* The bytes of a static variable nobody has written, and those of a local
\* one: 0 stands for "no packet".
ZeroStamp    == Stamp(0, NoNode, "zero")
GarbageStamp == Stamp(0, NoNode, "garbage")

Stamps == [pkt : Nat, by : Node \cup {NoNode}, at : {"tx", "rx", "zero", "garbage"}]

ZeroMsg    == [node |-> NoNode, ts |-> ZeroStamp]
ZeroResult == [node |-> NoNode, direction |-> "TO_REMOTE", resp_num |-> 0,
               from |-> ZeroStamp, to |-> ZeroStamp]

-----------------------------------------------------------------------------
(* The socket *)

Packet(i, s, d, a, t, x, r) ==
  [id |-> i, src |-> s, dst |-> d, action |-> a, ts |-> t, ex |-> x, of |-> r]

Packets == [id : Nat, src : Node, dst : Node, action : ActionType, ts : Stamps,
            ex : Nat, of : Nat]

\* The stamp of a packet that was sent is posted on the error queue before
\* the daemon has finished polling for it, or later.
Prompt == IF "late" \in Faults THEN BOOLEAN ELSE {TRUE}

Posted(q, i, prompt) == IF prompt THEN Append(q, i) ELSE q

\* proto_ecpri_handle_timestamps: takes the oldest stamp of the error queue,
\* whatever packet it is of.  If none comes in time it gives up, returns 0
\* all the same and leaves the caller's variable uninitialised.
HandleTimestamps(q, n) == IF q = <<>> THEN GarbageStamp ELSE Stamp(Head(q), n, "tx")
Flush(q) == IF q = <<>> THEN q ELSE Tail(q)

\* The socket of n receives p.  Messages of one peer arrive in the order they
\* were sent unless the network reorders them.
Receive(p) ==
  /\ p \in net
  /\ "reorder" \in Faults \/ \A q \in net : q.src = p.src /\ q.dst = p.dst => p.id <= q.id

\* A faulty SendOnly, which does not flush the stamp of what it sent.
SendOnlyUnflushed(n, d, a, t, x, r, rest) ==
  /\ net'  = rest \cup {Packet(sent + 1, n, d, a, t, x, r)}
  /\ errq' = [errq EXCEPT ![n] = Append(@, sent + 1)]
  /\ sent' = sent + 1
  /\ UNCHANGED late

\* proto_ecpri_owdm_send_req_get_ts with send_ts = 0: send one message, then
\* take one stamp off the error queue.  rest is net without the message that
\* is being answered.
SendOnly(n, d, a, t, x, r, rest) ==
  \/ \E prompt \in Prompt :
       /\ net'  = rest \cup {Packet(sent + 1, n, d, a, t, x, r)}
       /\ errq' = [errq EXCEPT ![n] = Flush(Posted(@, sent + 1, prompt))]
       /\ late' = [late EXCEPT ![n] = IF prompt THEN @ ELSE @ \cup {sent + 1}]
       /\ sent' = sent + 1
  \/ /\ "send" \in Faults
     /\ net' = rest
     /\ sent' = sent + 1
     /\ UNCHANGED <<errq, late>>

\* proto_ecpri_owdm_send_req_get_ts with send_ts = 1: send the request, read
\* its tx stamp, remember it, send it in a follow-up and take the follow-up's
\* own stamp off the queue.  (A follow-up that cannot be sent is one that is
\* lost.)
SendWithFollowUp(n, d, x, rest) ==
  \/ \E prompt1, prompt2 \in Prompt :
       LET q1  == Posted(errq[n], sent + 1, prompt1)
           ts  == HandleTimestamps(q1, n)
           q2  == Posted(Flush(q1), sent + 2, prompt2)
       IN /\ net'  = rest \cup {Packet(sent + 1, n, d, "REQ_FOL_UP", ZeroStamp, x, sent + 1),
                                Packet(sent + 2, n, d, "FOL_UP", ts, x, sent + 1)}
          /\ errq' = [errq EXCEPT ![n] = Flush(q2)]
          /\ late' = [late EXCEPT ![n] = @ \cup (IF prompt1 THEN {} ELSE {sent + 1})
                                           \cup (IF prompt2 THEN {} ELSE {sent + 2})]
          /\ owdm_msg' = [owdm_msg EXCEPT ![n].ts = ts]
          /\ sent' = sent + 2
  \/ /\ "send" \in Faults
     /\ net' = rest
     /\ sent' = sent + 1
     /\ UNCHANGED <<errq, late, owdm_msg>>

-----------------------------------------------------------------------------
(* Commands: ecpri owdm_req <d> to_remote | from_remote *)

\* No message from or to n is on its way.
Idle(n) == \A p \in net : p.src # n /\ p.dst # n

\* What the operators of the nodes do: unless Concurrent, they start a
\* measurement only between two nodes that are in no measurement, and restart
\* only such a node.
MayStart(n, d) ==
  /\ n # d
  /\ sent < MaxPkt
  /\ Concurrent \/ (Idle(n) /\ Idle(d))

\* Faulty requests: one that is not counted, and one that asks for the
\* measurement without follow-up, which no daemon supports.
RequestToRemoteUncounted(n, d) ==
  /\ MayStart(n, d)
  /\ SendWithFollowUp(n, d, sent + 1, net)
  /\ own' = [own EXCEPT ![n] = sent + 1]
  /\ UNCHANGED <<owdm_req, owdm_result>>

RequestFromRemoteNoFollowUp(n, d) ==
  /\ MayStart(n, d)
  /\ SendOnly(n, d, "REM_REQ", ZeroStamp, sent + 1, 0, net)
  /\ owdm_req' = [owdm_req EXCEPT ![n] = @ + 1]
  /\ own' = [own EXCEPT ![n] = sent + 1]
  /\ UNCHANGED <<owdm_msg, owdm_result>>

\* owdm_req is counted whether or not the message could be sent.
RequestToRemote(n, d) ==
  /\ MayStart(n, d)
  /\ SendWithFollowUp(n, d, sent + 1, net)
  /\ owdm_req' = [owdm_req EXCEPT ![n] = @ + 1]
  /\ own' = [own EXCEPT ![n] = sent + 1]
  /\ UNCHANGED owdm_result

RequestFromRemote(n, d) ==
  /\ MayStart(n, d)
  /\ SendOnly(n, d, "REM_REQ_FOL_UP", ZeroStamp, sent + 1, 0, net)
  /\ owdm_req' = [owdm_req EXCEPT ![n] = @ + 1]
  /\ own' = [own EXCEPT ![n] = sent + 1]
  /\ UNCHANGED <<owdm_msg, owdm_result>>

-----------------------------------------------------------------------------
(* Messages: proto_ecpri_handle_incoming_owdm *)

\* A faulty StoreResult, which numbers the results by themselves.
StoreResultCounting(n, peer, dir, from, to, x) ==
  /\ owdm_result' = [owdm_result EXCEPT ![n] =
       [node |-> peer, direction |-> dir, resp_num |-> @.resp_num + 1, from |-> from, to |-> to]]
  /\ own' = [own EXCEPT ![n] = IF @ = x THEN 0 ELSE @]

\* ecpri_owdm_calc_delay and the lines around it: the delay is "to" minus
\* "from", and it is numbered with the count of n's own requests, whoever
\* asked for the measurement.
StoreResult(n, peer, dir, from, to, x) ==
  /\ owdm_result' = [owdm_result EXCEPT ![n] =
       [node |-> peer, direction |-> dir, resp_num |-> owdm_req[n], from |-> from, to |-> to]]
  /\ own' = [own EXCEPT ![n] = IF @ = x THEN 0 ELSE @]

\* Faulty handlers: one forgets to store the stamp, one subtracts the wrong
\* way round.
HandleReqFolUpForgetting(p) ==
  /\ Receive(p) /\ p.action = "REQ_FOL_UP"
  /\ owdm_msg' = [owdm_msg EXCEPT ![p.dst].node = p.src]
  /\ net' = net \ {p}
  /\ UNCHANGED <<owdm_req, owdm_result, errq, late, sent, own>>

HandleRespSwapped(p) ==
  /\ Receive(p) /\ p.action = "RESP"
  /\ StoreResult(p.dst, p.src, "TO_REMOTE", p.ts, owdm_msg[p.dst].ts, p.ex)
  /\ net' = net \ {p}
  /\ UNCHANGED <<owdm_req, owdm_msg, errq, late, sent>>

\* Store the rx stamp for later.
HandleReqFolUp(p) ==
  /\ Receive(p) /\ p.action = "REQ_FOL_UP"
  /\ owdm_msg' = [owdm_msg EXCEPT ![p.dst] =
       [node |-> p.src, ts |-> Stamp(p.id, p.dst, "rx")]]
  /\ net' = net \ {p}
  /\ UNCHANGED <<owdm_req, owdm_result, errq, late, sent, own>>

\* Answer with the stamp remembered, and compute the delay for ourselves.
HandleFolUp(p) ==
  /\ Receive(p) /\ p.action = "FOL_UP"
  /\ StoreResult(p.dst, p.src, "FROM_REMOTE", p.ts, owdm_msg[p.dst].ts, p.ex)
  /\ SendOnly(p.dst, p.src, "RESP", owdm_msg[p.dst].ts, p.ex, p.of, net \ {p})
  /\ UNCHANGED <<owdm_req, owdm_msg>>

HandleResp(p) ==
  /\ Receive(p) /\ p.action = "RESP"
  /\ StoreResult(p.dst, p.src, "TO_REMOTE", owdm_msg[p.dst].ts, p.ts, p.ex)
  /\ net' = net \ {p}
  /\ UNCHANGED <<owdm_req, owdm_msg, errq, late, sent>>

\* Send a request with follow-up back; this is not counted in owdm_req.
HandleRemReqFolUp(p) ==
  /\ Receive(p) /\ p.action = "REM_REQ_FOL_UP"
  /\ SendWithFollowUp(p.dst, p.src, p.ex, net \ {p})
  /\ UNCHANGED <<owdm_req, owdm_result, own>>

HandleIncomingOwdm(p) ==
  HandleReqFolUp(p) \/ HandleFolUp(p) \/ HandleResp(p) \/ HandleRemReqFolUp(p)

-----------------------------------------------------------------------------
(* The rest of the daemon and of the environment *)

\* RMA and reset requests and responses and test messages leave through the
\* same socket; their senders do not take the tx stamp off the error queue.
SendOther(n) ==
  /\ "other" \in Faults
  /\ sent < MaxPkt
  /\ errq' = [errq EXCEPT ![n] = Append(@, sent + 1)]
  /\ sent' = sent + 1
  /\ UNCHANGED <<owdm_req, owdm_msg, owdm_result, late, net, own>>

\* poll() reports POLLERR and no POLLIN: the main loop drops one stamp.
DrainErrQueue(n) ==
  /\ errq[n] # <<>>
  /\ errq' = [errq EXCEPT ![n] = Flush(@)]
  /\ UNCHANGED <<owdm_req, owdm_msg, owdm_result, late, net, sent, own>>

\* The driver posts a stamp the daemon has given up on.
PostLate(n, i) ==
  /\ i \in late[n]
  /\ errq' = [errq EXCEPT ![n] = Append(@, i)]
  /\ late' = [late EXCEPT ![n] = @ \ {i}]
  /\ UNCHANGED <<owdm_req, owdm_msg, owdm_result, net, sent, own>>

Lose(p) ==
  /\ p \in net
  /\ p.action \in LossyKinds
  /\ net' = net \ {p}
  /\ UNCHANGED <<owdm_req, owdm_msg, owdm_result, errq, late, sent, own>>

\* The daemon of n dies and is started again: its variables are zero, its
\* new socket has an empty error queue and the messages that had arrived at
\* the old one are gone.
Restart(n) ==
  /\ "restart" \in Faults
  /\ Concurrent \/ Idle(n)
  /\ \E gone \in SUBSET {p \in net : p.dst = n} : net' = net \ gone
  /\ owdm_req' = [owdm_req EXCEPT ![n] = 0]
  /\ owdm_msg' = [owdm_msg EXCEPT ![n] = ZeroMsg]
  /\ owdm_result' = [owdm_result EXCEPT ![n] = ZeroResult]
  /\ errq' = [errq EXCEPT ![n] = <<>>]
  /\ late' = [late EXCEPT ![n] = {}]
  /\ own' = [own EXCEPT ![n] = 0]
  /\ UNCHANGED sent

-----------------------------------------------------------------------------
Init ==
  /\ owdm_req    = [n \in Node |-> 0]
  /\ owdm_msg    = [n \in Node |-> ZeroMsg]
  /\ owdm_result = [n \in Node |-> ZeroResult]
  /\ errq        = [n \in Node |-> <<>>]
  /\ late        = [n \in Node |-> {}]
  /\ net         = {}
  /\ sent        = 0
  /\ own         = [n \in Node |-> 0]

Next ==
  \/ \E n, d \in Node : RequestToRemote(n, d)
  \/ \E n, d \in Node : RequestFromRemote(n, d)
  \/ \E p \in net : HandleReqFolUp(p)
  \/ \E p \in net : HandleFolUp(p)
  \/ \E p \in net : HandleResp(p)
  \/ \E p \in net : HandleRemReqFolUp(p)
  \/ \E n \in Node : SendOther(n)
  \/ \E n \in Node : DrainErrQueue(n)
  \/ \E n \in Node : \E i \in late[n] : PostLate(n, i)
  \/ \E p \in net : Lose(p)
  \/ \E n \in Node : Restart(n)

Spec == Init /\ [][Next]_vars

\* A daemon whose socket holds a message gets to it: the main loop serves the
\* commands that have arrived and then the socket.
FairSpec ==
  /\ Spec
  /\ \A n \in Node : WF_vars(\E p \in net : p.dst = n /\ HandleIncomingOwdm(p))

-----------------------------------------------------------------------------
(* Properties *)

TypeOK ==
  /\ owdm_req \in [Node -> Nat]
  /\ owdm_msg \in [Node -> [node : Node \cup {NoNode}, ts : Stamps]]
  /\ owdm_result \in [Node -> [node : Node \cup {NoNode},
                               direction : {"TO_REMOTE", "FROM_REMOTE"},
                               resp_num : Nat, from : Stamps, to : Stamps]]
  /\ errq \in [Node -> Seq(Nat)]
  /\ late \in [Node -> SUBSET Nat]
  /\ net \in SUBSET Packets
  /\ sent \in Nat
  /\ own \in [Node -> Nat]

\* A follow-up carries the stamp of the departure of the very request it
\* follows (the error queue held that stamp and no older one when
\* proto_ecpri_owdm_send_req_get_ts read it).
FollowUpCarriesItsTx ==
  \A p \in net : p.action = "FOL_UP" => p.ts = Stamp(p.of, p.src, "tx")

\* A response carries the stamp of the arrival of the request of its own
\* measurement: the one slot owdm_msg still held it when the follow-up came.
ResponseCarriesItsRx ==
  \A p \in net : p.action = "RESP" => p.ts = Stamp(p.of, p.src, "rx")

\* A stored delay is that of one packet, from its departure to its arrival,
\* between the node and the peer it names and in the direction it names.
CoherentResult(n, r) ==
  LET sender   == IF r.direction = "TO_REMOTE" THEN n ELSE r.node
      receiver == IF r.direction = "TO_REMOTE" THEN r.node ELSE n
  IN /\ r.from = Stamp(r.from.pkt, sender, "tx")
     /\ r.to   = Stamp(r.from.pkt, receiver, "rx")

ResultMeasuresOnePacket ==
  \A n \in Node : owdm_result[n].node # NoNode => CoherentResult(n, owdm_result[n])

\* While a message of the measurement n asked for last is still on its way
\* and n has no result for it, "ecpri owdm_res" answers "pending".
PendingWhileUnderway ==
  \A n \in Node :
    (own[n] # 0 /\ \E p \in net : p.ex = own[n])
      => owdm_req[n] # owdm_result[n].resp_num

\* Nobody is left with "pending" for ever.
PendingEnds ==
  \A n \in Node :
    (owdm_req[n] # owdm_result[n].resp_num) ~> (owdm_req[n] = owdm_result[n].resp_num)
=============================================================================
