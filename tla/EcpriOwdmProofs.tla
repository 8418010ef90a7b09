-------------------------- MODULE EcpriOwdmProofs --------------------------
(***************************************************************************)
(* Theorems about EcpriOwdm, for any number of nodes and of measurements.  *)
(***************************************************************************)
EXTENDS EcpriOwdm, TLAPS

USE DEF ActionType

-----------------------------------------------------------------------------
(* The socket *)

\* What taking a stamp off an error queue yields and leaves.
LEMMA FlushType ==
  \A q \in Seq(Nat) : Flush(q) \in Seq(Nat)
BY DEF Flush

LEMMA HandleTimestampsType ==
  \A q \in Seq(Nat), n \in Node : HandleTimestamps(q, n) \in Stamps
<1>1. ASSUME NEW q \in Seq(Nat), NEW n \in Node
      PROVE  HandleTimestamps(q, n) \in Stamps
  <2>1. q # <<>> => Head(q) \in Nat
    OBVIOUS
  <2>2. QED
    BY <2>1 DEF HandleTimestamps, GarbageStamp, Stamp, Stamps
<1>2. QED
  BY <1>1

\* The stamps nobody has written are stamps.
LEMMA StampType ==
  /\ ZeroStamp \in Stamps
  /\ GarbageStamp \in Stamps
  /\ \A i \in Nat, n \in Node, w \in {"tx", "rx"} : Stamp(i, n, w) \in Stamps
BY DEF ZeroStamp, GarbageStamp, Stamp, Stamps

LEMMA PromptType == Prompt \subseteq BOOLEAN
BY DEF Prompt

\* Sending keeps the types of the variables of the socket.
LEMMA SendOnlyType ==
  ASSUME TypeOK,
         NEW n \in Node, NEW d \in Node, NEW a \in ActionType, NEW t \in Stamps,
         NEW x \in Nat, NEW r \in Nat, NEW rest \in SUBSET net,
         SendOnly(n, d, a, t, x, r, rest)
  PROVE  /\ errq' \in [Node -> Seq(Nat)]
         /\ late' \in [Node -> SUBSET Nat]
         /\ net' \in SUBSET Packets
         /\ sent' \in Nat
<1> USE DEF TypeOK
<1>1. CASE \E prompt \in Prompt :
             /\ net'  = rest \cup {Packet(sent + 1, n, d, a, t, x, r)}
             /\ errq' = [errq EXCEPT ![n] = Flush(Posted(@, sent + 1, prompt))]
             /\ late' = [late EXCEPT ![n] = IF prompt THEN @ ELSE @ \cup {sent + 1}]
             /\ sent' = sent + 1
  <2>1. PICK prompt \in BOOLEAN :
             /\ net'  = rest \cup {Packet(sent + 1, n, d, a, t, x, r)}
             /\ errq' = [errq EXCEPT ![n] = Flush(Posted(@, sent + 1, prompt))]
             /\ late' = [late EXCEPT ![n] = IF prompt THEN @ ELSE @ \cup {sent + 1}]
             /\ sent' = sent + 1
    BY <1>1, PromptType
  <2>2. Posted(errq[n], sent + 1, prompt) \in Seq(Nat)
    BY DEF Posted
  <2>3. Flush(Posted(errq[n], sent + 1, prompt)) \in Seq(Nat)
    BY <2>2, FlushType
  <2>4. Packet(sent + 1, n, d, a, t, x, r) \in Packets
    BY DEF Packet, Packets
  <2> HIDE DEF TypeOK
  <2>5. errq' \in [Node -> Seq(Nat)]
    BY <2>1, <2>3 DEF TypeOK
  <2>6. late' \in [Node -> SUBSET Nat]
    BY <2>1 DEF TypeOK
  <2>7. net' \in SUBSET Packets /\ sent' \in Nat
    BY <2>1, <2>4 DEF TypeOK
  <2>8. QED
    BY <2>5, <2>6, <2>7
<1>2. CASE net' = rest /\ sent' = sent + 1 /\ UNCHANGED <<errq, late>>
  BY <1>2
<1>3. QED
  BY <1>1, <1>2 DEF SendOnly

LEMMA SendWithFollowUpType ==
  ASSUME TypeOK,
         NEW n \in Node, NEW d \in Node, NEW x \in Nat, NEW rest \in SUBSET net,
         SendWithFollowUp(n, d, x, rest)
  PROVE  /\ errq' \in [Node -> Seq(Nat)]
         /\ late' \in [Node -> SUBSET Nat]
         /\ net' \in SUBSET Packets
         /\ sent' \in Nat
         /\ owdm_msg' \in [Node -> [node : Node \cup {NoNode}, ts : Stamps]]
<1> USE DEF TypeOK
<1> DEFINE Sent(p1, p2) ==
      LET q1  == Posted(errq[n], sent + 1, p1)
          ts  == HandleTimestamps(q1, n)
          q2  == Posted(Flush(q1), sent + 2, p2)
      IN /\ net'  = rest \cup {Packet(sent + 1, n, d, "REQ_FOL_UP", ZeroStamp, x, sent + 1),
                               Packet(sent + 2, n, d, "FOL_UP", ts, x, sent + 1)}
         /\ errq' = [errq EXCEPT ![n] = Flush(q2)]
         /\ late' = [late EXCEPT ![n] = @ \cup (IF p1 THEN {} ELSE {sent + 1})
                                          \cup (IF p2 THEN {} ELSE {sent + 2})]
         /\ owdm_msg' = [owdm_msg EXCEPT ![n].ts = ts]
         /\ sent' = sent + 2
<1>1. CASE \E p1, p2 \in Prompt : Sent(p1, p2)
  <2>1. PICK p1 \in BOOLEAN, p2 \in BOOLEAN : Sent(p1, p2)
    BY <1>1, PromptType
  <2> DEFINE q1 == Posted(errq[n], sent + 1, p1)
             ts == HandleTimestamps(q1, n)
             q2 == Posted(Flush(q1), sent + 2, p2)
  <2>q. q1 \in Seq(Nat)
    BY DEF Posted
  <2>2. Flush(q1) \in Seq(Nat) /\ ts \in Stamps
    BY <2>q, FlushType, HandleTimestampsType
  <2>r. q2 \in Seq(Nat)
    BY <2>2 DEF Posted
  <2>3. Flush(q2) \in Seq(Nat)
    BY <2>r, FlushType
  <2>4. /\ Packet(sent + 1, n, d, "REQ_FOL_UP", ZeroStamp, x, sent + 1) \in Packets
        /\ Packet(sent + 2, n, d, "FOL_UP", ts, x, sent + 1) \in Packets
    BY <2>2, StampType DEF Packet, Packets
  <2> HIDE DEF q1, ts, q2
  <2>5. /\ net'  = rest \cup {Packet(sent + 1, n, d, "REQ_FOL_UP", ZeroStamp, x, sent + 1),
                               Packet(sent + 2, n, d, "FOL_UP", ts, x, sent + 1)}
        /\ errq' = [errq EXCEPT ![n] = Flush(q2)]
        /\ late' = [late EXCEPT ![n] = @ \cup (IF p1 THEN {} ELSE {sent + 1})
                                         \cup (IF p2 THEN {} ELSE {sent + 2})]
        /\ owdm_msg' = [owdm_msg EXCEPT ![n].ts = ts]
        /\ sent' = sent + 2
    BY <2>1 DEF q1, ts, q2
  <2>6. errq' \in [Node -> Seq(Nat)]
    BY <2>3, <2>5
  <2>7. late' \in [Node -> SUBSET Nat]
    BY <2>5
  <2>8. net' \in SUBSET Packets /\ sent' \in Nat
    BY <2>4, <2>5
  <2>9. owdm_msg' \in [Node -> [node : Node \cup {NoNode}, ts : Stamps]]
    BY <2>2, <2>5
  <2>10. QED
    BY <2>6, <2>7, <2>8, <2>9
<1>2. CASE net' = rest /\ sent' = sent + 1 /\ UNCHANGED <<errq, late, owdm_msg>>
  BY <1>2
<1>3. QED
  BY <1>1, <1>2 DEF SendWithFollowUp

-----------------------------------------------------------------------------
(* Type correctness *)

LEMMA StoreResultType ==
  ASSUME TypeOK,
         NEW n \in Node, NEW peer \in Node, NEW dir \in {"TO_REMOTE", "FROM_REMOTE"},
         NEW from \in Stamps, NEW to \in Stamps, NEW x \in Nat,
         StoreResult(n, peer, dir, from, to, x)
  PROVE  /\ owdm_result' \in [Node -> [node : Node \cup {NoNode},
                                       direction : {"TO_REMOTE", "FROM_REMOTE"},
                                       resp_num : Nat, from : Stamps, to : Stamps]]
         /\ own' \in [Node -> Nat]
BY DEF TypeOK, StoreResult

\* What a received message is.
LEMMA PacketType ==
  ASSUME TypeOK, NEW p \in net
  PROVE  /\ p.id \in Nat /\ p.src \in Node /\ p.dst \in Node /\ p.action \in ActionType
         /\ p.ts \in Stamps /\ p.ex \in Nat /\ p.of \in Nat
BY DEF TypeOK, Packets

LEMMA TypeStep == TypeOK /\ [Next]_vars => TypeOK'
<1> SUFFICES ASSUME TypeOK, [Next]_vars
             PROVE  TypeOK'
  OBVIOUS
<1>t. owdm_msg \in [Node -> [node : Node \cup {NoNode}, ts : Stamps]]
  BY DEF TypeOK
<1>1. ASSUME NEW n \in Node, NEW d \in Node, RequestToRemote(n, d)
      PROVE  TypeOK'
  <2>1. SendWithFollowUp(n, d, sent + 1, net) /\ sent + 1 \in Nat
    BY <1>1 DEF RequestToRemote, TypeOK
  <2>2. /\ errq' \in [Node -> Seq(Nat)]
        /\ late' \in [Node -> SUBSET Nat]
        /\ net' \in SUBSET Packets
        /\ sent' \in Nat
        /\ owdm_msg' \in [Node -> [node : Node \cup {NoNode}, ts : Stamps]]
    BY <2>1, SendWithFollowUpType
  <2>3. owdm_req' \in [Node -> Nat] /\ own' \in [Node -> Nat]
    BY <1>1 DEF RequestToRemote, TypeOK
  <2>4. UNCHANGED owdm_result
    BY <1>1 DEF RequestToRemote
  <2>5. QED
    BY <2>2, <2>3, <2>4 DEF TypeOK
<1>2. ASSUME NEW n \in Node, NEW d \in Node, RequestFromRemote(n, d)
      PROVE  TypeOK'
  <2>1. SendOnly(n, d, "REM_REQ_FOL_UP", ZeroStamp, sent + 1, 0, net) /\ sent + 1 \in Nat
    BY <1>2 DEF RequestFromRemote, TypeOK
  <2>2. /\ errq' \in [Node -> Seq(Nat)]
        /\ late' \in [Node -> SUBSET Nat]
        /\ net' \in SUBSET Packets
        /\ sent' \in Nat
    BY <2>1, SendOnlyType, StampType
  <2>3. owdm_req' \in [Node -> Nat] /\ own' \in [Node -> Nat]
    BY <1>2 DEF RequestFromRemote, TypeOK
  <2>4. UNCHANGED owdm_result /\ UNCHANGED owdm_msg
    BY <1>2 DEF RequestFromRemote
  <2>5. QED
    BY <2>2, <2>3, <2>4 DEF TypeOK
<1>3. ASSUME NEW p \in net, HandleReqFolUp(p)
      PROVE  TypeOK'
  <2>1. [node |-> p.src, ts |-> Stamp(p.id, p.dst, "rx")] \in [node : Node \cup {NoNode}, ts : Stamps]
    BY PacketType, StampType
  <2>2. QED
    BY <1>3, <2>1 DEF HandleReqFolUp, TypeOK
<1>4. ASSUME NEW p \in net, HandleFolUp(p)
      PROVE  TypeOK'
  <2>1. owdm_msg[p.dst].ts \in Stamps
    BY <1>t, PacketType
  <2>2. /\ owdm_result' \in [Node -> [node : Node \cup {NoNode},
                                      direction : {"TO_REMOTE", "FROM_REMOTE"},
                                      resp_num : Nat, from : Stamps, to : Stamps]]
        /\ own' \in [Node -> Nat]
    BY <1>4, <2>1, PacketType, StoreResultType DEF HandleFolUp
  <2>3. SendOnly(p.dst, p.src, "RESP", owdm_msg[p.dst].ts, p.ex, p.of, net \ {p})
    BY <1>4 DEF HandleFolUp
  <2>4. /\ errq' \in [Node -> Seq(Nat)]
        /\ late' \in [Node -> SUBSET Nat]
        /\ net' \in SUBSET Packets
        /\ sent' \in Nat
    BY <2>1, <2>3, PacketType, SendOnlyType
  <2>5. QED
    BY <1>4, <2>2, <2>4 DEF HandleFolUp, TypeOK
<1>5. ASSUME NEW p \in net, HandleResp(p)
      PROVE  TypeOK'
  <2>1. owdm_msg[p.dst].ts \in Stamps
    BY <1>t, PacketType
  <2>2. /\ owdm_result' \in [Node -> [node : Node \cup {NoNode},
                                      direction : {"TO_REMOTE", "FROM_REMOTE"},
                                      resp_num : Nat, from : Stamps, to : Stamps]]
        /\ own' \in [Node -> Nat]
    BY <1>5, <2>1, PacketType, StoreResultType DEF HandleResp
  <2>3. QED
    BY <1>5, <2>2 DEF HandleResp, TypeOK
<1>6. ASSUME NEW p \in net, HandleRemReqFolUp(p)
      PROVE  TypeOK'
  <2>1. SendWithFollowUp(p.dst, p.src, p.ex, net \ {p})
    BY <1>6 DEF HandleRemReqFolUp
  <2>2. /\ errq' \in [Node -> Seq(Nat)]
        /\ late' \in [Node -> SUBSET Nat]
        /\ net' \in SUBSET Packets
        /\ sent' \in Nat
        /\ owdm_msg' \in [Node -> [node : Node \cup {NoNode}, ts : Stamps]]
    BY <2>1, PacketType, SendWithFollowUpType
  <2>3. QED
    BY <1>6, <2>2 DEF HandleRemReqFolUp, TypeOK
<1>7. ASSUME NEW n \in Node, SendOther(n)
      PROVE  TypeOK'
  BY <1>7 DEF SendOther, TypeOK
<1>8. ASSUME NEW n \in Node, DrainErrQueue(n)
      PROVE  TypeOK'
  <2>1. Flush(errq[n]) \in Seq(Nat)
    BY FlushType DEF TypeOK
  <2>2. QED
    BY <1>8, <2>1 DEF DrainErrQueue, TypeOK
<1>9. ASSUME NEW n \in Node, NEW i \in late[n], PostLate(n, i)
      PROVE  TypeOK'
  <2>1. i \in Nat
    BY DEF TypeOK
  <2>2. Append(errq[n], i) \in Seq(Nat)
    BY <2>1 DEF TypeOK
  <2>3. QED
    BY <1>9, <2>2 DEF PostLate, TypeOK
<1>10. ASSUME NEW p \in net, Lose(p)
       PROVE  TypeOK'
  BY <1>10 DEF Lose, TypeOK
<1>11. ASSUME NEW n \in Node, Restart(n)
       PROVE  TypeOK'
  <2>1. /\ ZeroMsg \in [node : Node \cup {NoNode}, ts : Stamps]
        /\ ZeroResult \in [node : Node \cup {NoNode}, direction : {"TO_REMOTE", "FROM_REMOTE"},
                            resp_num : Nat, from : Stamps, to : Stamps]
    BY StampType DEF ZeroMsg, ZeroResult
  <2>2. net' \in SUBSET Packets
    BY <1>11 DEF Restart, TypeOK
  <2>3. QED
    BY <1>11, <2>1, <2>2 DEF Restart, TypeOK
<1>12. CASE UNCHANGED vars
  BY <1>12 DEF vars, TypeOK
<1>13. QED
  BY <1>1, <1>2, <1>3, <1>4, <1>5, <1>6, <1>7, <1>8, <1>9, <1>10, <1>11, <1>12 DEF Next

LEMMA TypeInit == Init => TypeOK
BY StampType DEF Init, TypeOK, ZeroMsg, ZeroResult

\* Every variable keeps its type, whatever the environment does.
THEOREM TypeCorrect == Spec => []TypeOK
BY TypeInit, TypeStep, PTL DEF Spec

-----------------------------------------------------------------------------
(* Follow-ups *)

\* Every send is stamped while its sender polls for the stamp, and nothing but
\* OWDM messages leaves through the socket.
PromptStamps == Faults \cap {"late", "other"} = {}

\* Between two handlers no stamp is left on an error queue: this is why the
\* oldest stamp that proto_ecpri_owdm_send_req_get_ts reads is its own.
QueuesEmpty == \A n \in Node : errq[n] = <<>> /\ late[n] = {}

FollowUpInv == TypeOK /\ QueuesEmpty /\ FollowUpCarriesItsTx

\* One stamp in, the same stamp out.
LEMMA OneStamp ==
  \A i \in Nat, n \in Node :
    /\ Posted(<<>>, i, TRUE) = <<i>>
    /\ Flush(<<i>>) = <<>>
    /\ HandleTimestamps(<<i>>, n) = Stamp(i, n, "tx")
BY DEF Posted, Flush, HandleTimestamps

\* What the two ways of sending do when stamps are prompt: either the messages
\* leave and no stamp stays behind, or nothing leaves.
LEMMA SendOnlyPrompt ==
  ASSUME PromptStamps, TypeOK, QueuesEmpty,
         NEW n \in Node, NEW d \in Node, NEW a, NEW t, NEW x, NEW r, NEW rest,
         SendOnly(n, d, a, t, x, r, rest)
  PROVE  /\ QueuesEmpty'
         /\ net' = rest \/ net' = rest \cup {Packet(sent + 1, n, d, a, t, x, r)}
<1> USE DEF TypeOK
<1>1. Prompt = {TRUE}
  BY DEF PromptStamps, Prompt
<1>2. CASE /\ net'  = rest \cup {Packet(sent + 1, n, d, a, t, x, r)}
           /\ errq' = [errq EXCEPT ![n] = Flush(Posted(@, sent + 1, TRUE))]
           /\ late' = [late EXCEPT ![n] = IF TRUE THEN @ ELSE @ \cup {sent + 1}]
  <2>1. sent + 1 \in Nat /\ errq[n] = <<>>
    BY DEF QueuesEmpty
  <2>2. Flush(Posted(errq[n], sent + 1, TRUE)) = <<>>
    BY <2>1, OneStamp
  <2>3. QED
    BY <1>2, <2>2 DEF QueuesEmpty
<1>3. CASE net' = rest /\ UNCHANGED <<errq, late>>
  BY <1>3 DEF QueuesEmpty
<1>4. QED
  BY <1>1, <1>2, <1>3 DEF SendOnly

LEMMA SendWithFollowUpPrompt ==
  ASSUME PromptStamps, TypeOK, QueuesEmpty,
         NEW n \in Node, NEW d \in Node, NEW x, NEW rest,
         SendWithFollowUp(n, d, x, rest)
  PROVE  /\ QueuesEmpty'
         /\ \/ net' = rest /\ UNCHANGED owdm_msg
            \/ /\ net' = rest \cup
                    {Packet(sent + 1, n, d, "REQ_FOL_UP", ZeroStamp, x, sent + 1),
                     Packet(sent + 2, n, d, "FOL_UP", Stamp(sent + 1, n, "tx"), x, sent + 1)}
               /\ owdm_msg' = [owdm_msg EXCEPT ![n].ts = Stamp(sent + 1, n, "tx")]
<1> USE DEF TypeOK
<1> DEFINE q1 == Posted(errq[n], sent + 1, TRUE)
           ts == HandleTimestamps(q1, n)
           q2 == Posted(Flush(q1), sent + 2, TRUE)
<1>1. Prompt = {TRUE}
  BY DEF PromptStamps, Prompt
<1>n. sent + 1 \in Nat /\ sent + 2 \in Nat /\ errq[n] = <<>>
  BY DEF QueuesEmpty
<1>2. /\ q1 = <<sent + 1>>
      /\ ts = Stamp(sent + 1, n, "tx")
      /\ Flush(q1) = <<>>
  BY <1>n, OneStamp
<1>3. Flush(q2) = <<>>
  BY <1>n, <1>2, OneStamp
<1> HIDE DEF q1, ts, q2
<1>4. CASE /\ net'  = rest \cup {Packet(sent + 1, n, d, "REQ_FOL_UP", ZeroStamp, x, sent + 1),
                                Packet(sent + 2, n, d, "FOL_UP", ts, x, sent + 1)}
           /\ errq' = [errq EXCEPT ![n] = Flush(q2)]
           /\ late' = [late EXCEPT ![n] = @ \cup (IF TRUE THEN {} ELSE {sent + 1})
                                            \cup (IF TRUE THEN {} ELSE {sent + 2})]
           /\ owdm_msg' = [owdm_msg EXCEPT ![n].ts = ts]
  BY <1>2, <1>3, <1>4 DEF QueuesEmpty
<1>5. CASE net' = rest /\ UNCHANGED <<errq, late, owdm_msg>>
  BY <1>5 DEF QueuesEmpty
<1>6. QED
  BY <1>1, <1>4, <1>5 DEF SendWithFollowUp, q1, ts, q2

LEMMA FollowUpStep ==
  PromptStamps /\ FollowUpInv /\ [Next]_vars => FollowUpInv'
<1> SUFFICES ASSUME PromptStamps, FollowUpInv, [Next]_vars
             PROVE  QueuesEmpty' /\ FollowUpCarriesItsTx'
  BY TypeStep DEF FollowUpInv
<1>t. TypeOK /\ QueuesEmpty /\ FollowUpCarriesItsTx
  BY DEF FollowUpInv
\* A message that is no follow-up does not matter.
<1>a. ASSUME NEW n \in Node, NEW d \in Node, NEW a \in ActionType \ {"FOL_UP"},
             NEW t, NEW x, NEW r, NEW rest \in SUBSET net,
             SendOnly(n, d, a, t, x, r, rest)
      PROVE  QueuesEmpty' /\ FollowUpCarriesItsTx'
  <2>1. /\ QueuesEmpty'
        /\ net' = rest \/ net' = rest \cup {Packet(sent + 1, n, d, a, t, x, r)}
    BY <1>t, <1>a, SendOnlyPrompt
  <2>2. Packet(sent + 1, n, d, a, t, x, r).action # "FOL_UP"
    BY DEF Packet
  <2>3. QED
    BY <1>t, <2>1, <2>2 DEF FollowUpCarriesItsTx
<1>b. ASSUME NEW n \in Node, NEW d \in Node, NEW x, NEW rest \in SUBSET net,
             SendWithFollowUp(n, d, x, rest)
      PROVE  QueuesEmpty' /\ FollowUpCarriesItsTx'
  <2> DEFINE req == Packet(sent + 1, n, d, "REQ_FOL_UP", ZeroStamp, x, sent + 1)
             fup == Packet(sent + 2, n, d, "FOL_UP", Stamp(sent + 1, n, "tx"), x, sent + 1)
  <2>1. QueuesEmpty' /\ (net' = rest \/ net' = rest \cup {req, fup})
    BY <1>t, <1>b, SendWithFollowUpPrompt
  <2>2. req.action # "FOL_UP" /\ fup.ts = Stamp(fup.of, fup.src, "tx")
    BY DEF Packet
  <2> HIDE DEF req, fup
  <2>3. QED
    BY <1>t, <2>1, <2>2 DEF FollowUpCarriesItsTx
<1>1. ASSUME NEW n \in Node, NEW d \in Node, RequestToRemote(n, d)
      PROVE  QueuesEmpty' /\ FollowUpCarriesItsTx'
  BY <1>1, <1>b DEF RequestToRemote
<1>2. ASSUME NEW n \in Node, NEW d \in Node, RequestFromRemote(n, d)
      PROVE  QueuesEmpty' /\ FollowUpCarriesItsTx'
  BY <1>2, <1>a DEF RequestFromRemote
<1>3. ASSUME NEW p \in net, HandleReqFolUp(p) \/ HandleResp(p) \/ Lose(p)
      PROVE  QueuesEmpty' /\ FollowUpCarriesItsTx'
  BY <1>t, <1>3 DEF HandleReqFolUp, HandleResp, Lose, QueuesEmpty, FollowUpCarriesItsTx
<1>4. ASSUME NEW p \in net, HandleFolUp(p)
      PROVE  QueuesEmpty' /\ FollowUpCarriesItsTx'
  BY <1>t, <1>4, <1>a, PacketType DEF HandleFolUp
<1>5. ASSUME NEW p \in net, HandleRemReqFolUp(p)
      PROVE  QueuesEmpty' /\ FollowUpCarriesItsTx'
  BY <1>t, <1>5, <1>b, PacketType DEF HandleRemReqFolUp
<1>6. ASSUME NEW n \in Node, SendOther(n) \/ DrainErrQueue(n) \/ \E i \in late[n] : PostLate(n, i)
      PROVE  QueuesEmpty' /\ FollowUpCarriesItsTx'
  BY <1>t, <1>6 DEF SendOther, DrainErrQueue, QueuesEmpty, PromptStamps
<1>7. ASSUME NEW n \in Node, Restart(n)
      PROVE  QueuesEmpty' /\ FollowUpCarriesItsTx'
  BY <1>t, <1>7 DEF Restart, QueuesEmpty, FollowUpCarriesItsTx, TypeOK
<1>8. CASE UNCHANGED vars
  BY <1>t, <1>8 DEF vars, QueuesEmpty, FollowUpCarriesItsTx
<1>9. QED
  BY <1>1, <1>2, <1>3, <1>4, <1>5, <1>6, <1>7, <1>8 DEF Next

\* With prompt stamps a follow-up carries the stamp of the departure of its
\* own request, whatever the number of nodes, however many measurements cross,
\* and although messages are lost and reordered and daemons restart.
THEOREM FollowUpCorrect ==
  ASSUME PromptStamps
  PROVE  Spec => []FollowUpCarriesItsTx
<1>1. Init => FollowUpInv
  BY TypeInit DEF FollowUpInv, QueuesEmpty, FollowUpCarriesItsTx, Init
<1>2. FollowUpInv /\ [Next]_vars => FollowUpInv'
  BY FollowUpStep
<1>3. FollowUpInv => FollowUpCarriesItsTx
  BY DEF FollowUpInv
<1>4. QED
  BY <1>1, <1>2, <1>3, PTL DEF Spec

-----------------------------------------------------------------------------
(* Results *)

\* Measurements are started between nodes that are in no measurement, stamps
\* are prompt, the network keeps the order of the messages of one node to
\* another and loses no request.  Daemons restart, too, in no measurement.
OneAtATime ==
  /\ PromptStamps
  /\ ~Concurrent
  /\ "reorder" \notin Faults
  /\ "REQ_FOL_UP" \notin LossyKinds

\* p and q have a node in common.
Meet(p, q) == {p.src, p.dst} \cap {q.src, q.dst} # {}

\* q is the follow-up of the request p.
Follows(q, p) ==
  /\ p.action = "REQ_FOL_UP" /\ q.action = "FOL_UP"
  /\ q.src = p.src /\ q.dst = p.dst /\ q.of = p.id /\ p.id < q.id

\* A node takes part in one measurement: it is an end of one message, or of a
\* request and its follow-up.
OneMeasurementPerNode ==
  \A p, q \in net : Meet(p, q) => p = q \/ Follows(p, q) \/ Follows(q, p)

\* What the one slot owdm_msg of either end holds while the measurement goes
\* through its messages.
SlotsInv ==
  \A p \in net :
    /\ p.src # p.dst
    /\ p.action = "FOL_UP" =>
         /\ owdm_msg[p.src].ts = Stamp(p.of, p.src, "tx")
         /\ \/ \E q \in net : Follows(p, q)
            \/ owdm_msg[p.dst].ts = Stamp(p.of, p.dst, "rx")
    /\ p.action = "RESP" =>
         /\ p.ts = Stamp(p.of, p.src, "rx")
         /\ owdm_msg[p.dst].ts = Stamp(p.of, p.dst, "tx")

MeasurementInv ==
  /\ FollowUpInv
  /\ OneMeasurementPerNode
  /\ SlotsInv
  /\ ResultMeasuresOnePacket

\* n is an end of no message of rest.
Free(n, rest) == \A q \in rest : q.src # n /\ q.dst # n

\* Two free nodes start, or go on with, a measurement by one message: the
\* others are not disturbed.
LEMMA OneMessage ==
  ASSUME OneAtATime, MeasurementInv,
         NEW n \in Node, NEW d \in Node, n # d,
         NEW rest \in SUBSET net, Free(n, rest), Free(d, rest),
         \A q \in net \ rest : {q.src, q.dst} \subseteq {n, d},
         NEW m, m.src = n, m.dst = d, m.action \in {"RESP", "REM_REQ_FOL_UP"},
         m.action = "RESP" => /\ m.ts = Stamp(m.of, n, "rx")
                              /\ owdm_msg[d].ts = Stamp(m.of, d, "tx"),
         net' = rest \/ net' = rest \cup {m},
         UNCHANGED owdm_msg
  PROVE  OneMeasurementPerNode' /\ SlotsInv'
<1>1. OneMeasurementPerNode /\ SlotsInv
  BY DEF MeasurementInv
<1>2. \A p \in rest : ~Meet(p, m) /\ ~Meet(m, p)
  BY DEF Free, Meet
<1>3. OneMeasurementPerNode'
  <2> SUFFICES ASSUME NEW p \in net', NEW q \in net', Meet(p, q)
               PROVE  p = q \/ Follows(p, q) \/ Follows(q, p)
    BY DEF OneMeasurementPerNode, Meet, Follows
  <2>1. (p \in rest /\ q \in rest) \/ (p = m /\ q = m)
    BY <1>2
  <2>2. QED
    BY <1>1, <2>1 DEF OneMeasurementPerNode
<1>4. ASSUME NEW p \in rest, p.action = "FOL_UP"
      PROVE  \/ \E q \in net' : Follows(p, q)
             \/ owdm_msg[p.dst].ts = Stamp(p.of, p.dst, "rx")
  <2>1. CASE \E q \in net : Follows(p, q)
    <3>1. PICK q \in net : Follows(p, q)
      BY <2>1
    <3>2. q \in rest
      BY <3>1 DEF Follows, Free
    <3>3. QED
      BY <3>1, <3>2
  <2>2. QED
    BY <1>1, <1>4, <2>1 DEF SlotsInv
<1>5. SlotsInv'
  BY <1>1, <1>4 DEF SlotsInv, Follows
<1>6. QED
  BY <1>3, <1>5

\* The same for a request and its follow-up.
LEMMA RequestAndFollowUp ==
  ASSUME OneAtATime, MeasurementInv,
         NEW n \in Node, NEW d \in Node, n # d, NEW x,
         NEW rest \in SUBSET net, Free(n, rest), Free(d, rest),
         \A q \in net \ rest : {q.src, q.dst} \subseteq {n, d},
         SendWithFollowUp(n, d, x, rest)
  PROVE  OneMeasurementPerNode' /\ SlotsInv'
<1> DEFINE req == Packet(sent + 1, n, d, "REQ_FOL_UP", ZeroStamp, x, sent + 1)
           fup == Packet(sent + 2, n, d, "FOL_UP", Stamp(sent + 1, n, "tx"), x, sent + 1)
<1>1. /\ OneMeasurementPerNode /\ SlotsInv /\ TypeOK /\ sent \in Nat
      /\ owdm_msg \in [Node -> [node : Node \cup {NoNode}, ts : Stamps]]
  BY DEF MeasurementInv, FollowUpInv, TypeOK
<1>2. \/ net' = rest /\ UNCHANGED owdm_msg
      \/ net' = rest \cup {req, fup} /\ owdm_msg' = [owdm_msg EXCEPT ![n].ts = Stamp(sent + 1, n, "tx")]
  BY SendWithFollowUpPrompt DEF OneAtATime, MeasurementInv, FollowUpInv
<1>3. /\ Follows(fup, req)
      /\ req.src = n /\ req.dst = d /\ req.action = "REQ_FOL_UP"
      /\ fup.src = n /\ fup.dst = d /\ fup.action = "FOL_UP" /\ fup.of = sent + 1
  BY <1>1 DEF Packet, Follows
<1> HIDE DEF req, fup
<1>4. \A p \in rest, m \in {req, fup} : ~Meet(p, m) /\ ~Meet(m, p)
  BY <1>3 DEF Free, Meet
<1>5. OneMeasurementPerNode'
  <2> SUFFICES ASSUME NEW p \in net', NEW q \in net', Meet(p, q)
               PROVE  p = q \/ Follows(p, q) \/ Follows(q, p)
    BY DEF OneMeasurementPerNode, Meet, Follows
  <2>1. (p \in rest /\ q \in rest) \/ (p \in {req, fup} /\ q \in {req, fup})
    BY <1>2, <1>4
  <2>2. QED
    BY <1>1, <1>3, <2>1 DEF OneMeasurementPerNode
<1>6. \A p \in rest : owdm_msg'[p.src] = owdm_msg[p.src] /\ owdm_msg'[p.dst] = owdm_msg[p.dst]
  BY <1>1, <1>2, PacketType DEF Free
<1>7. ASSUME NEW p \in rest, p.action = "FOL_UP"
      PROVE  \/ \E q \in net' : Follows(p, q)
             \/ owdm_msg[p.dst].ts = Stamp(p.of, p.dst, "rx")
  <2>1. CASE \E q \in net : Follows(p, q)
    <3>1. PICK q \in net : Follows(p, q)
      BY <2>1
    <3>2. q \in rest
      BY <3>1 DEF Follows, Free
    <3>3. QED
      BY <1>2, <3>1, <3>2
  <2>2. QED
    BY <1>1, <1>7, <2>1 DEF SlotsInv
<1>8. ASSUME NEW p \in net'
      PROVE  /\ p.src # p.dst
             /\ p.action = "FOL_UP" =>
                  /\ owdm_msg'[p.src].ts = Stamp(p.of, p.src, "tx")
                  /\ \/ \E q \in net' : Follows(p, q)
                     \/ owdm_msg'[p.dst].ts = Stamp(p.of, p.dst, "rx")
             /\ p.action = "RESP" =>
                  /\ p.ts = Stamp(p.of, p.src, "rx")
                  /\ owdm_msg'[p.dst].ts = Stamp(p.of, p.dst, "tx")
  <2>1. CASE p \in rest
    BY <1>1, <1>6, <1>7, <2>1 DEF SlotsInv
  <2>2. CASE p \notin rest
    <3>1. p \in {req, fup} /\ net' = rest \cup {req, fup}
      BY <1>2, <2>2
    <3>2. owdm_msg'[n].ts = Stamp(sent + 1, n, "tx")
      BY <1>1, <1>2, <2>2
    <3>3. QED
      BY <1>3, <3>1, <3>2
  <2>3. QED
    BY <2>1, <2>2
<1>9. SlotsInv'
  BY <1>8 DEF SlotsInv, Follows
<1>10. QED
  BY <1>5, <1>9

\* The measurement is over, or loses its last message: the others go on.
LEMMA MessageGone ==
  ASSUME OneAtATime, MeasurementInv,
         NEW m \in net, net' = net \ {m}, m.action # "REQ_FOL_UP",
         UNCHANGED owdm_msg
  PROVE  OneMeasurementPerNode' /\ SlotsInv'
<1>1. OneMeasurementPerNode /\ SlotsInv
  BY DEF MeasurementInv
<1>2. OneMeasurementPerNode'
  BY <1>1 DEF OneMeasurementPerNode, Meet, Follows
<1>3. \A p, q \in net : Follows(p, q) => q # m
  BY DEF Follows
<1>4. SlotsInv'
  BY <1>1, <1>3 DEF SlotsInv, Follows
<1>5. QED
  BY <1>2, <1>4

\* A message that meets no other leaves its ends free when it is taken.
LEMMA TakenAlone ==
  ASSUME OneMeasurementPerNode, NEW p \in net,
         \A q \in net : ~Follows(p, q) /\ ~Follows(q, p)
  PROVE  Free(p.src, net \ {p}) /\ Free(p.dst, net \ {p})
BY DEF OneMeasurementPerNode, Free, Meet

\* The follow-up that a daemon handles comes after its request: the stamps
\* are then those of the departure and the arrival of the request.
LEMMA FollowUpReceived ==
  ASSUME OneAtATime, MeasurementInv, NEW p \in net, Receive(p), p.action = "FOL_UP"
  PROVE  /\ \A q \in net : ~Follows(p, q) /\ ~Follows(q, p)
         /\ p.ts = Stamp(p.of, p.src, "tx")
         /\ owdm_msg[p.src].ts = Stamp(p.of, p.src, "tx")
         /\ owdm_msg[p.dst].ts = Stamp(p.of, p.dst, "rx")
<1>1. \A q \in net : q.src = p.src /\ q.dst = p.dst => p.id <= q.id
  BY DEF Receive, OneAtATime
<1>2. \A q \in net : p.id \in Nat /\ q.id \in Nat
  BY PacketType DEF MeasurementInv, FollowUpInv
<1>3. \A q \in net : ~Follows(p, q) /\ ~Follows(q, p)
  BY <1>1, <1>2 DEF Follows
<1>4. SlotsInv /\ FollowUpCarriesItsTx
  BY DEF MeasurementInv, FollowUpInv
<1>5. QED
  BY <1>3, <1>4 DEF SlotsInv, FollowUpCarriesItsTx

\* A coherent result stays, and the others stay as they were.
LEMMA ResultStored ==
  ASSUME TypeOK, ResultMeasuresOnePacket,
         NEW n \in Node, NEW peer \in Node, NEW dir, NEW from, NEW to, NEW x,
         StoreResult(n, peer, dir, from, to, x),
         LET sender   == IF dir = "TO_REMOTE" THEN n ELSE peer
             receiver == IF dir = "TO_REMOTE" THEN peer ELSE n
         IN from = Stamp(from.pkt, sender, "tx") /\ to = Stamp(from.pkt, receiver, "rx")
  PROVE  ResultMeasuresOnePacket'
BY DEF TypeOK, ResultMeasuresOnePacket, CoherentResult, StoreResult

LEMMA MeasurementStep ==
  OneAtATime /\ MeasurementInv /\ [Next]_vars => MeasurementInv'
<1> SUFFICES ASSUME OneAtATime, MeasurementInv, [Next]_vars
             PROVE  (OneMeasurementPerNode /\ SlotsInv /\ ResultMeasuresOnePacket)'
  BY FollowUpStep DEF MeasurementInv, OneAtATime
<1>t. /\ TypeOK /\ QueuesEmpty /\ OneMeasurementPerNode /\ SlotsInv
      /\ ResultMeasuresOnePacket
  BY DEF MeasurementInv, FollowUpInv
<1>m. owdm_msg \in [Node -> [node : Node \cup {NoNode}, ts : Stamps]]
  BY <1>t DEF TypeOK
<1>1. ASSUME NEW n \in Node, NEW d \in Node, RequestToRemote(n, d)
      PROVE  (OneMeasurementPerNode /\ SlotsInv /\ ResultMeasuresOnePacket)'
  <2>1. n # d /\ Free(n, net) /\ Free(d, net)
    BY <1>1 DEF RequestToRemote, MayStart, Idle, Free, OneAtATime
  <2>2. SendWithFollowUp(n, d, sent + 1, net)
    BY <1>1 DEF RequestToRemote
  <2>3. OneMeasurementPerNode' /\ SlotsInv'
    BY <2>1, <2>2, RequestAndFollowUp
  <2>4. ResultMeasuresOnePacket'
    BY <1>t, <1>1 DEF RequestToRemote, ResultMeasuresOnePacket, CoherentResult
  <2>5. QED
    BY <2>3, <2>4
<1>2. ASSUME NEW n \in Node, NEW d \in Node, RequestFromRemote(n, d)
      PROVE  (OneMeasurementPerNode /\ SlotsInv /\ ResultMeasuresOnePacket)'
  <2> DEFINE m == Packet(sent + 1, n, d, "REM_REQ_FOL_UP", ZeroStamp, sent + 1, 0)
  <2>1. n # d /\ Free(n, net) /\ Free(d, net)
    BY <1>2 DEF RequestFromRemote, MayStart, Idle, Free, OneAtATime
  <2>2. net' = net \/ net' = net \cup {m}
    BY <1>t, <1>2, SendOnlyPrompt DEF RequestFromRemote, OneAtATime
  <2>3. m.src = n /\ m.dst = d /\ m.action = "REM_REQ_FOL_UP"
    BY DEF Packet
  <2> HIDE DEF m
  <2>4. UNCHANGED <<owdm_msg, owdm_result>>
    BY <1>2 DEF RequestFromRemote
  <2>5. OneMeasurementPerNode' /\ SlotsInv'
    BY <2>1, <2>2, <2>3, <2>4, OneMessage
  <2>6. ResultMeasuresOnePacket'
    BY <1>t, <2>4 DEF ResultMeasuresOnePacket, CoherentResult
  <2>7. QED
    BY <2>5, <2>6
<1>3. ASSUME NEW p \in net, HandleReqFolUp(p)
      PROVE  (OneMeasurementPerNode /\ SlotsInv /\ ResultMeasuresOnePacket)'
  <2>1. /\ net' = net \ {p} /\ p.action = "REQ_FOL_UP" /\ UNCHANGED owdm_result
        /\ owdm_msg' = [owdm_msg EXCEPT ![p.dst] =
                          [node |-> p.src, ts |-> Stamp(p.id, p.dst, "rx")]]
    BY <1>3 DEF HandleReqFolUp
  <2>2. OneMeasurementPerNode'
    BY <1>t, <2>1 DEF OneMeasurementPerNode, Meet, Follows
  <2>3. ASSUME NEW q \in net, q # p
        PROVE  \/ /\ owdm_msg'[q.src] = owdm_msg[q.src]
                  /\ owdm_msg'[q.dst] = owdm_msg[q.dst]
                  /\ \A r \in net : Follows(q, r) => r \in net'
               \/ /\ q.action = "FOL_UP" /\ q.src # q.dst
                  /\ owdm_msg'[q.src] = owdm_msg[q.src]
                  /\ owdm_msg'[q.dst].ts = Stamp(q.of, q.dst, "rx")
    <3>1. q.src \in Node /\ q.dst \in Node /\ p.dst \in Node
      BY <1>t, PacketType
    <3>2. CASE Meet(p, q)
      <4>1. Follows(q, p)
        BY <1>t, <2>1, <2>3, <3>2 DEF OneMeasurementPerNode, Follows
      <4>2. p.src # p.dst
        BY <1>t DEF SlotsInv
      <4>3. QED
        BY <1>m, <2>1, <3>1, <4>1, <4>2 DEF Follows
    <3>3. CASE ~Meet(p, q)
      <4>1. q.src # p.dst /\ q.dst # p.dst
        BY <3>3 DEF Meet
      <4>2. \A r \in net : Follows(q, r) => r \in net'
        BY <2>1, <3>3 DEF Meet, Follows
      <4>3. QED
        BY <1>m, <2>1, <3>1, <4>1, <4>2
    <3>4. QED
      BY <3>2, <3>3
  <2>4. SlotsInv'
    <3>1. ASSUME NEW q \in net, q # p
          PROVE  /\ q.src # q.dst
                 /\ q.action = "FOL_UP" =>
                      /\ owdm_msg'[q.src].ts = Stamp(q.of, q.src, "tx")
                      /\ \/ \E r \in net' : Follows(q, r)
                         \/ owdm_msg'[q.dst].ts = Stamp(q.of, q.dst, "rx")
                 /\ q.action = "RESP" =>
                      /\ q.ts = Stamp(q.of, q.src, "rx")
                      /\ owdm_msg'[q.dst].ts = Stamp(q.of, q.dst, "tx")
      BY <1>t, <2>3, <3>1 DEF SlotsInv
    <3>2. QED
      BY <2>1, <3>1 DEF SlotsInv, Follows
  <2>5. ResultMeasuresOnePacket'
    BY <1>t, <2>1 DEF ResultMeasuresOnePacket, CoherentResult
  <2>6. QED
    BY <2>2, <2>4, <2>5
<1>4. ASSUME NEW p \in net, HandleFolUp(p)
      PROVE  (OneMeasurementPerNode /\ SlotsInv /\ ResultMeasuresOnePacket)'
  <2> DEFINE m == Packet(sent + 1, p.dst, p.src, "RESP", owdm_msg[p.dst].ts, p.ex, p.of)
  <2>1. /\ Receive(p) /\ p.action = "FOL_UP" /\ UNCHANGED owdm_msg
        /\ StoreResult(p.dst, p.src, "FROM_REMOTE", p.ts, owdm_msg[p.dst].ts, p.ex)
        /\ SendOnly(p.dst, p.src, "RESP", owdm_msg[p.dst].ts, p.ex, p.of, net \ {p})
    BY <1>4 DEF HandleFolUp
  <2>2. /\ \A q \in net : ~Follows(p, q) /\ ~Follows(q, p)
        /\ p.ts = Stamp(p.of, p.src, "tx")
        /\ owdm_msg[p.src].ts = Stamp(p.of, p.src, "tx")
        /\ owdm_msg[p.dst].ts = Stamp(p.of, p.dst, "rx")
    BY <2>1, FollowUpReceived
  <2>3. p.src \in Node /\ p.dst \in Node /\ p.src # p.dst
    BY <1>t, PacketType DEF SlotsInv
  <2>4. Free(p.src, net \ {p}) /\ Free(p.dst, net \ {p})
    BY <1>t, <2>2, TakenAlone
  <2>5. net' = net \ {p} \/ net' = (net \ {p}) \cup {m}
    BY <1>t, <2>1, <2>3, SendOnlyPrompt DEF OneAtATime
  <2>6. /\ m.src = p.dst /\ m.dst = p.src /\ m.action = "RESP"
        /\ m.ts = owdm_msg[p.dst].ts /\ m.of = p.of
    BY DEF Packet
  <2> HIDE DEF m
  <2>7. \A q \in net \ (net \ {p}) : {q.src, q.dst} \subseteq {p.dst, p.src}
    OBVIOUS
  <2>8. OneMeasurementPerNode' /\ SlotsInv'
    <3>1. /\ m.ts = Stamp(m.of, p.dst, "rx")
          /\ owdm_msg[p.src].ts = Stamp(m.of, p.src, "tx")
      BY <2>2, <2>6
    <3>2. m.action \in {"RESP", "REM_REQ_FOL_UP"} /\ p.dst # p.src
      BY <2>3, <2>6
    <3>3. net \ {p} \in SUBSET net /\ UNCHANGED owdm_msg
      BY <2>1
    <3>4. m.src = p.dst /\ m.dst = p.src
      BY <2>6
    <3>5. QED
      BY <2>3, <2>4, <2>5, <2>7, <3>1, <3>2, <3>3, <3>4, OneMessage
  <2>9. ResultMeasuresOnePacket'
    <3>1. p.ts.pkt = p.of
      BY <2>2 DEF Stamp
    <3>2. QED
      BY <1>t, <2>1, <2>2, <2>3, <3>1, ResultStored
  <2>10. QED
    BY <2>8, <2>9
<1>5. ASSUME NEW p \in net, HandleResp(p)
      PROVE  (OneMeasurementPerNode /\ SlotsInv /\ ResultMeasuresOnePacket)'
  <2>1. /\ p.action = "RESP" /\ UNCHANGED owdm_msg /\ net' = net \ {p}
        /\ StoreResult(p.dst, p.src, "TO_REMOTE", owdm_msg[p.dst].ts, p.ts, p.ex)
    BY <1>5 DEF HandleResp
  <2>2. /\ p.ts = Stamp(p.of, p.src, "rx")
        /\ owdm_msg[p.dst].ts = Stamp(p.of, p.dst, "tx")
        /\ p.src \in Node /\ p.dst \in Node
    BY <1>t, <2>1, PacketType DEF SlotsInv
  <2>3. owdm_msg[p.dst].ts.pkt = p.of
    BY <2>2 DEF Stamp
  <2>4. OneMeasurementPerNode' /\ SlotsInv'
    BY <2>1, MessageGone
  <2>5. ResultMeasuresOnePacket'
    BY <1>t, <2>1, <2>2, <2>3, ResultStored
  <2>6. QED
    BY <2>4, <2>5
<1>6. ASSUME NEW p \in net, HandleRemReqFolUp(p)
      PROVE  (OneMeasurementPerNode /\ SlotsInv /\ ResultMeasuresOnePacket)'
  <2>1. /\ p.action = "REM_REQ_FOL_UP" /\ UNCHANGED owdm_result
        /\ SendWithFollowUp(p.dst, p.src, p.ex, net \ {p})
    BY <1>6 DEF HandleRemReqFolUp
  <2>2. p.src \in Node /\ p.dst \in Node /\ p.src # p.dst
    BY <1>t, PacketType DEF SlotsInv
  <2>3. Free(p.src, net \ {p}) /\ Free(p.dst, net \ {p})
    BY <1>t, <2>1, TakenAlone DEF Follows
  <2>4. \A q \in net \ (net \ {p}) : {q.src, q.dst} \subseteq {p.dst, p.src}
    OBVIOUS
  <2>n. p.dst # p.src /\ net \ {p} \in SUBSET net
    BY <2>2
  <2>5. OneMeasurementPerNode' /\ SlotsInv'
    BY ONLY OneAtATime, MeasurementInv, <2>1, <2>2, <2>3, <2>4, <2>n, RequestAndFollowUp
  <2>6. ResultMeasuresOnePacket'
    BY <1>t, <2>1 DEF ResultMeasuresOnePacket, CoherentResult
  <2>7. QED
    BY <2>5, <2>6
<1>7. ASSUME NEW p \in net, Lose(p)
      PROVE  (OneMeasurementPerNode /\ SlotsInv /\ ResultMeasuresOnePacket)'
  <2>1. /\ net' = net \ {p} /\ p.action # "REQ_FOL_UP"
        /\ UNCHANGED <<owdm_msg, owdm_result>>
    BY <1>7 DEF Lose, OneAtATime
  <2>2. OneMeasurementPerNode' /\ SlotsInv'
    BY <2>1, MessageGone
  <2>3. QED
    BY <1>t, <2>1, <2>2 DEF ResultMeasuresOnePacket, CoherentResult
<1>8. ASSUME NEW n \in Node,
             \/ SendOther(n) \/ DrainErrQueue(n) \/ \E i \in late[n] : PostLate(n, i)
      PROVE  FALSE
  BY <1>t, <1>8 DEF SendOther, DrainErrQueue, PostLate, QueuesEmpty, OneAtATime, PromptStamps
<1>9. ASSUME NEW n \in Node, Restart(n)
      PROVE  (OneMeasurementPerNode /\ SlotsInv /\ ResultMeasuresOnePacket)'
  <2>1. /\ Free(n, net) /\ net' = net
        /\ owdm_msg' = [owdm_msg EXCEPT ![n] = ZeroMsg]
        /\ owdm_result' = [owdm_result EXCEPT ![n] = ZeroResult]
    BY <1>9 DEF Restart, Idle, Free, OneAtATime
  <2>2. OneMeasurementPerNode'
    BY <1>t, <2>1 DEF OneMeasurementPerNode, Meet, Follows
  <2>3. \A p \in net : /\ owdm_msg'[p.src] = owdm_msg[p.src]
                       /\ owdm_msg'[p.dst] = owdm_msg[p.dst]
    BY <1>m, <1>t, <2>1, PacketType DEF Free
  <2>4. SlotsInv'
    BY <1>t, <2>1, <2>3 DEF SlotsInv, Follows
  <2>5. owdm_result'[n].node = NoNode /\ \A k \in Node \ {n} : owdm_result'[k] = owdm_result[k]
    BY <1>t, <2>1 DEF TypeOK, ZeroResult
  <2>6. ResultMeasuresOnePacket'
    BY <1>t, <2>5 DEF ResultMeasuresOnePacket, CoherentResult
  <2>7. QED
    BY <2>2, <2>4, <2>6
<1>10. CASE UNCHANGED vars
  BY <1>t, <1>10 DEF vars, OneMeasurementPerNode, SlotsInv, ResultMeasuresOnePacket,
                     CoherentResult, Meet, Follows
<1>11. QED
  BY <1>1, <1>2, <1>3, <1>4, <1>5, <1>6, <1>7, <1>8, <1>9, <1>10 DEF Next

LEMMA MeasurementInit == Init => MeasurementInv
BY TypeInit DEF Init, MeasurementInv, FollowUpInv, QueuesEmpty, FollowUpCarriesItsTx,
   OneMeasurementPerNode, SlotsInv, ResultMeasuresOnePacket, ZeroResult

\* When measurements are kept apart, every stored delay is that of one packet,
\* from its departure to its arrival, at every node and whatever the number of
\* nodes that measure at the same time.
THEOREM ResultCorrect ==
  ASSUME OneAtATime
  PROVE  Spec => []ResultMeasuresOnePacket
<1>1. Init => MeasurementInv
  BY MeasurementInit
<1>2. MeasurementInv /\ [Next]_vars => MeasurementInv'
  BY MeasurementStep
<1>3. MeasurementInv => ResultMeasuresOnePacket
  BY DEF MeasurementInv
<1>4. QED
  BY <1>1, <1>2, <1>3, PTL DEF Spec

\* Under the same conditions a response carries the stamp of the arrival of
\* the request of its own measurement: nothing has overwritten the one slot.
THEOREM ResponseCorrect ==
  ASSUME OneAtATime
  PROVE  Spec => []ResponseCarriesItsRx
<1>1. Init => MeasurementInv
  BY MeasurementInit
<1>2. MeasurementInv /\ [Next]_vars => MeasurementInv'
  BY MeasurementStep
<1>3. MeasurementInv => ResponseCarriesItsRx
  BY DEF MeasurementInv, SlotsInv, ResponseCarriesItsRx
<1>4. QED
  BY <1>1, <1>2, <1>3, PTL DEF Spec

-----------------------------------------------------------------------------
(* Pending *)

\* Nothing is asked for or under way that has not been sent, and no result has
\* a number that n has not given yet.
CountsInv ==
  /\ \A n \in Node : own[n] <= sent /\ owdm_result[n].resp_num <= owdm_req[n]
  /\ \A p \in net : p.ex <= sent

\* A message of the measurement that n asked for last goes from or to n, and n
\* has not stored a result since it asked.
UnderwayInv ==
  \A n \in Node : \A p \in net :
    own[n] # 0 /\ p.ex = own[n] =>
      /\ p.src = n \/ p.dst = n
      /\ owdm_result[n].resp_num < owdm_req[n]

PendingInv == MeasurementInv /\ CountsInv /\ UnderwayInv

\* A request is counted, and its number is new.
LEMMA RequestPending ==
  ASSUME PendingInv, NEW n \in Node, NEW d \in Node,
         sent' \in {sent + 1, sent + 2},
         \A p \in net' : p \in net \/ (p.ex = sent + 1 /\ p.src = n),
         owdm_req' = [owdm_req EXCEPT ![n] = @ + 1],
         own' = [own EXCEPT ![n] = sent + 1],
         UNCHANGED owdm_result
  PROVE  CountsInv' /\ UnderwayInv'
<1>1. /\ sent \in Nat
      /\ \A k \in Node : own[k] \in Nat /\ owdm_req[k] \in Nat /\ owdm_result[k].resp_num \in Nat
      /\ \A p \in net : p.ex \in Nat
  BY PacketType DEF PendingInv, MeasurementInv, FollowUpInv, TypeOK
<1>2. /\ own'[n] = sent + 1 /\ owdm_req'[n] = owdm_req[n] + 1
      /\ \A k \in Node \ {n} : own'[k] = own[k] /\ owdm_req'[k] = owdm_req[k]
  BY DEF PendingInv, MeasurementInv, FollowUpInv, TypeOK
<1>3. CountsInv'
  BY <1>1, <1>2 DEF PendingInv, CountsInv
<1>4. ASSUME NEW k \in Node, NEW p \in net', own'[k] # 0, p.ex = own'[k]
      PROVE  (p.src = k \/ p.dst = k) /\ owdm_result'[k].resp_num < owdm_req'[k]
  <2>1. CASE k = n
    BY <1>1, <1>2, <1>4, <2>1 DEF PendingInv, CountsInv
  <2>2. CASE k # n
    <3>1. own'[k] = own[k] /\ p.ex # sent + 1
      BY <1>1, <1>2, <1>4, <2>2 DEF PendingInv, CountsInv
    <3>2. QED
      BY <1>2, <1>4, <2>2, <3>1 DEF PendingInv, UnderwayInv
  <2>3. QED
    BY <2>1, <2>2
<1>5. UnderwayInv'
  BY <1>4 DEF UnderwayInv
<1>6. QED
  BY <1>3, <1>5

\* A result ends the pending of its node.  No other message there is of the
\* measurement the node asked for.
LEMMA ResultPending ==
  ASSUME PendingInv, NEW p \in net, \A q \in net : ~Follows(p, q) /\ ~Follows(q, p),
         NEW dir, NEW from, NEW to,
         StoreResult(p.dst, p.src, dir, from, to, p.ex),
         \A q \in net' : q \in net \ {p} \/ (q.ex = p.ex /\ q.src = p.dst /\ q.dst = p.src),
         sent' \in {sent, sent + 1}, UNCHANGED owdm_req
  PROVE  CountsInv' /\ UnderwayInv'
<1> DEFINE n == p.dst
<1>1. /\ sent \in Nat /\ n \in Node
      /\ \A k \in Node : own[k] \in Nat /\ owdm_req[k] \in Nat /\ owdm_result[k].resp_num \in Nat
      /\ \A q \in net : q.ex \in Nat
  BY PacketType DEF PendingInv, MeasurementInv, FollowUpInv, TypeOK
<1>2. /\ own'[n] = (IF own[n] = p.ex THEN 0 ELSE own[n]) /\ owdm_result'[n].resp_num = owdm_req[n]
      /\ \A k \in Node \ {n} : own'[k] = own[k] /\ owdm_result'[k] = owdm_result[k]
  <2>1. own \in [Node -> Nat] /\ DOMAIN owdm_result = Node
    BY DEF PendingInv, MeasurementInv, FollowUpInv, TypeOK
  <2>2. QED
    BY <1>1, <2>1 DEF StoreResult
<1>3. CountsInv'
  BY <1>1, <1>2 DEF PendingInv, CountsInv
<1>4. ASSUME NEW k \in Node, NEW q \in net', own'[k] # 0, q.ex = own'[k]
      PROVE  (q.src = k \/ q.dst = k) /\ owdm_result'[k].resp_num < owdm_req'[k]
  <2>1. CASE k = n
    <3>1. q \in net /\ q # p /\ own[n] # 0 /\ q.ex = own[n]
      BY <1>2, <1>4, <2>1
    <3>2. q.src = n \/ q.dst = n
      BY <1>1, <3>1 DEF PendingInv, UnderwayInv
    <3>3. Meet(p, q)
      BY <3>2 DEF Meet
    <3>4. QED
      BY <3>1, <3>3 DEF PendingInv, MeasurementInv, OneMeasurementPerNode
  <2>2. CASE k # n
    <3>1. own[k] # 0 /\ q.ex = own[k] /\ owdm_result'[k] = owdm_result[k]
      BY <1>2, <1>4, <2>2
    <3>2. QED
      BY <3>1 DEF PendingInv, UnderwayInv
  <2>3. QED
    BY <2>1, <2>2
<1>5. UnderwayInv'
  BY <1>4 DEF UnderwayInv
<1>6. QED
  BY <1>3, <1>5

LEMMA PendingStep ==
  OneAtATime /\ PendingInv /\ [Next]_vars => PendingInv'
<1> SUFFICES ASSUME OneAtATime, PendingInv, [Next]_vars
             PROVE  CountsInv' /\ UnderwayInv'
  BY MeasurementStep DEF PendingInv
<1>t. TypeOK /\ QueuesEmpty /\ MeasurementInv /\ PromptStamps
  BY DEF PendingInv, MeasurementInv, FollowUpInv, OneAtATime
<1>n. sent \in Nat /\ \A p \in net : p.ex \in Nat
  BY <1>t, PacketType DEF TypeOK
<1>1. ASSUME NEW n \in Node, NEW d \in Node, RequestToRemote(n, d)
      PROVE  CountsInv' /\ UnderwayInv'
  <2>1. SendWithFollowUp(n, d, sent + 1, net) /\ sent' \in {sent + 1, sent + 2}
    BY <1>1 DEF RequestToRemote, SendWithFollowUp
  <2>2. \A p \in net' : p \in net \/ (p.ex = sent + 1 /\ p.src = n)
    BY <1>t, <2>1, SendWithFollowUpPrompt DEF Packet
  <2>3. QED
    BY <1>1, <2>1, <2>2, RequestPending DEF RequestToRemote
<1>2. ASSUME NEW n \in Node, NEW d \in Node, RequestFromRemote(n, d)
      PROVE  CountsInv' /\ UnderwayInv'
  <2>1. SendOnly(n, d, "REM_REQ_FOL_UP", ZeroStamp, sent + 1, 0, net) /\ sent' = sent + 1
    BY <1>2 DEF RequestFromRemote, SendOnly
  <2>2. \A p \in net' : p \in net \/ (p.ex = sent + 1 /\ p.src = n)
    BY <1>t, <2>1, SendOnlyPrompt DEF Packet
  <2>3. QED
    BY <1>2, <2>1, <2>2, RequestPending DEF RequestFromRemote
<1>3. ASSUME NEW p \in net, HandleFolUp(p)
      PROVE  CountsInv' /\ UnderwayInv'
  <2>1. /\ Receive(p) /\ p.action = "FOL_UP" /\ UNCHANGED owdm_req
        /\ StoreResult(p.dst, p.src, "FROM_REMOTE", p.ts, owdm_msg[p.dst].ts, p.ex)
        /\ SendOnly(p.dst, p.src, "RESP", owdm_msg[p.dst].ts, p.ex, p.of, net \ {p})
    BY <1>3 DEF HandleFolUp
  <2>2. sent' = sent + 1
    BY <2>1 DEF SendOnly
  <2>3. \A q \in net' : q \in net \ {p} \/ (q.ex = p.ex /\ q.src = p.dst /\ q.dst = p.src)
    BY <1>t, <2>1, PacketType, SendOnlyPrompt DEF Packet
  <2>4. \A q \in net : ~Follows(p, q) /\ ~Follows(q, p)
    BY <1>t, <2>1, FollowUpReceived
  <2>5. QED
    BY <2>1, <2>2, <2>3, <2>4, ResultPending
<1>4. ASSUME NEW p \in net, HandleResp(p)
      PROVE  CountsInv' /\ UnderwayInv'
  <2>1. /\ p.action = "RESP" /\ UNCHANGED <<owdm_req, sent>> /\ net' = net \ {p}
        /\ StoreResult(p.dst, p.src, "TO_REMOTE", owdm_msg[p.dst].ts, p.ts, p.ex)
    BY <1>4 DEF HandleResp
  <2>2. \A q \in net : ~Follows(p, q) /\ ~Follows(q, p)
    BY <2>1 DEF Follows
  <2>3. QED
    BY <2>1, <2>2, ResultPending
<1>5. ASSUME NEW p \in net, HandleRemReqFolUp(p)
      PROVE  CountsInv' /\ UnderwayInv'
  <2>1. SendWithFollowUp(p.dst, p.src, p.ex, net \ {p}) /\ UNCHANGED <<owdm_req, owdm_result, own>>
    BY <1>5 DEF HandleRemReqFolUp
  <2>2. sent' \in {sent + 1, sent + 2}
    BY <2>1 DEF SendWithFollowUp
  <2>3. \A q \in net' : q \in net \/ (q.ex = p.ex /\ q.src = p.dst /\ q.dst = p.src)
    BY <1>t, <2>1, PacketType, SendWithFollowUpPrompt DEF Packet
  <2>4. CountsInv'
    <3>1. \A n \in Node : own[n] \in Nat
      BY <1>t DEF TypeOK
    <3>2. QED
      BY <1>n, <2>1, <2>2, <2>3, <3>1 DEF PendingInv, CountsInv
  <2>5. UnderwayInv'
    BY <2>1, <2>3 DEF PendingInv, UnderwayInv
  <2>6. QED
    BY <2>4, <2>5
<1>6. ASSUME net' \subseteq net, UNCHANGED <<owdm_req, owdm_result, own, sent>>
      PROVE  CountsInv' /\ UnderwayInv'
  BY <1>6 DEF PendingInv, CountsInv, UnderwayInv
<1>7. ASSUME NEW p \in net, HandleReqFolUp(p) \/ Lose(p)
      PROVE  CountsInv' /\ UnderwayInv'
  BY <1>6, <1>7 DEF HandleReqFolUp, Lose
<1>8. ASSUME NEW n \in Node,
             \/ SendOther(n) \/ DrainErrQueue(n) \/ \E i \in late[n] : PostLate(n, i)
      PROVE  FALSE
  BY <1>t, <1>8 DEF SendOther, DrainErrQueue, PostLate, QueuesEmpty, PromptStamps
<1>9. ASSUME NEW n \in Node, Restart(n)
      PROVE  CountsInv' /\ UnderwayInv'
  <2>1. /\ net' \subseteq net /\ sent' = sent
        /\ own' = [own EXCEPT ![n] = 0] /\ owdm_req' = [owdm_req EXCEPT ![n] = 0]
        /\ owdm_result' = [owdm_result EXCEPT ![n] = ZeroResult]
    BY <1>9 DEF Restart
  <2>2. /\ own'[n] = 0 /\ owdm_req'[n] = 0 /\ owdm_result'[n].resp_num = 0
        /\ \A k \in Node \ {n} : /\ own'[k] = own[k] /\ owdm_req'[k] = owdm_req[k]
                                 /\ owdm_result'[k] = owdm_result[k]
    BY <1>t, <2>1 DEF TypeOK, ZeroResult
  <2>3. QED
    BY <1>n, <2>1, <2>2 DEF PendingInv, CountsInv, UnderwayInv
<1>10. CASE UNCHANGED vars
  BY <1>6, <1>10 DEF vars
<1>11. QED
  BY <1>1, <1>2, <1>3, <1>4, <1>5, <1>7, <1>8, <1>9, <1>10 DEF Next

\* When measurements are kept apart, "ecpri owdm_res" answers "pending" as long
\* as a message of the measurement asked for last is on its way: numbering the
\* results with the count of the own requests does no harm then, although the
\* measurements of others are numbered so, too.
THEOREM PendingCorrect ==
  ASSUME OneAtATime
  PROVE  Spec => []PendingWhileUnderway
<1>1. Init => PendingInv
  BY MeasurementInit DEF Init, PendingInv, CountsInv, UnderwayInv, ZeroResult
<1>2. PendingInv /\ [Next]_vars => PendingInv'
  BY PendingStep
<1>3. PendingInv => PendingWhileUnderway
  <2>1. TypeOK => \A n \in Node : owdm_req[n] \in Nat /\ owdm_result[n].resp_num \in Nat
    BY DEF TypeOK
  <2>2. QED
    BY <2>1 DEF PendingInv, UnderwayInv, MeasurementInv, FollowUpInv, PendingWhileUnderway
<1>4. QED
  BY <1>1, <1>2, <1>3, PTL DEF Spec
=============================================================================
