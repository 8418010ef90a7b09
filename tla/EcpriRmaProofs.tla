--------------------------- MODULE EcpriRmaProofs ---------------------------
(***************************************************************************)
(* Theorems about EcpriRma, for any callers, targets, faults and number of *)
(* messages.                                                               *)
(***************************************************************************)
EXTENDS EcpriRma, TLAPS

\* What a message carries goes with its kind, and requests go to targets.
BodiesInv ==
  \A p \in net :
    /\ p.kind = "req"  => p.body \in Commands /\ p.dst \in Target
    /\ p.kind = "resp" => p.body \in Answers

TypeInv == TypeOK /\ BodiesInv

-----------------------------------------------------------------------------
(* Lemmas about commands and answers *)

LEMMA CommandParts ==
  ASSUME NEW c \in Commands
  PROVE  /\ c.op \in {"read", "write", "reset"} /\ c.to \in Target
         /\ c.op = "read"  => c.addr \in Addr
         /\ c.op = "write" => c.addr \in Addr /\ c.val \in Val
  BY DEF Commands

LEMMA NoneApart == None \notin Calls /\ None.op = "none"
  BY DEF None, Calls

LEMMA WaitingCalls ==
  ASSUME TypeOK, NEW n \in Node, Waiting(n)
  PROVE  cmd[n] \in Calls
  BY DEF TypeOK, Waiting

\* A performance gives an answer and leaves the memory a memory.
LEMMA Performed ==
  ASSUME TypeOK, NEW t \in Target, NEW c \in Commands
  PROVE  /\ AnswerTo(t, c) \in Answers
         /\ AnswerTo(t, c).op = c.op
         /\ Perform(t, c) \in [Target -> [Addr -> Val]]
PROOF
  <1>1. /\ c.op \in {"read", "write", "reset"}
        /\ c.op = "read"  => c.addr \in Addr
        /\ c.op = "write" => c.addr \in Addr /\ c.val \in Val
    BY CommandParts
  <1>2. mem \in [Target -> [Addr -> Val]] /\ Zero \in Val
    BY ZeroAssumption DEF TypeOK
  <1>3. AnswerTo(t, c) \in Answers /\ AnswerTo(t, c).op = c.op
    <2>1. CASE c.op = "read"
      <3>1. (IF c.addr \in Refused THEN Zero ELSE mem[t][c.addr]) \in Val
        BY <1>1, <1>2, <2>1
      <3> QED
        BY <2>1, <3>1 DEF AnswerTo, Answers
    <2>2. CASE c.op # "read"
      BY <1>1, <2>2 DEF AnswerTo, Answers
    <2> QED
      BY <2>1, <2>2
  <1>4. Perform(t, c) \in [Target -> [Addr -> Val]]
    BY <1>1, <1>2 DEF Perform
  <1> QED
    BY <1>3, <1>4

\* A well-formed message
LEMMA MessageType ==
  ASSUME NEW i \in Nat, NEW s \in Node, NEW d \in Node, NEW r \in Nat,
         NEW k \in {"req", "resp", "other", "short"}, NEW b \in Commands \cup Answers \cup {None}
  PROVE  /\ Message(i, s, d, k, b, r) \in Messages
         /\ Message(i, s, d, k, b, r).kind = k /\ Message(i, s, d, k, b, r).body = b
         /\ Message(i, s, d, k, b, r).src = s /\ Message(i, s, d, k, b, r).dst = d
         /\ Message(i, s, d, k, b, r).id = i /\ Message(i, s, d, k, b, r).of = r
  BY DEF Message, Messages

-----------------------------------------------------------------------------
(* Types *)

LEMMA SendRequestType ==
  ASSUME TypeInv, NEW n \in Caller, NEW c \in Commands, SendRequest(n, c)
  PROVE  TypeInv'
PROOF
  <1> DEFINE m == Message(sent + 1, n, c.to, "req", c, 0)
  <1>1. sent + 1 \in Nat /\ n \in Node /\ c.to \in Target /\ c.to \in Node
    BY CommandParts DEF TypeInv, TypeOK, Node
  <1>2. m \in Messages /\ m.kind = "req" /\ m.body = c /\ m.dst = c.to
    BY <1>1, MessageType
  <1>3. net' \subseteq net \cup {m}
    BY DEF SendRequest
  <1>4. [op |-> "call", id |-> sent + 1, command |-> c] \in Calls
    BY <1>1 DEF Calls
  <1>5. TypeOK'
    BY <1>1, <1>2, <1>3, <1>4 DEF SendRequest, TypeInv, TypeOK
  <1>6. BodiesInv'
    BY <1>1, <1>2, <1>3 DEF TypeInv, BodiesInv
  <1> QED
    BY <1>5, <1>6 DEF TypeInv

LEMMA GetResponseType ==
  ASSUME TypeInv, NEW p \in net, GetResponse(p)
  PROVE  TypeInv'
PROOF
  <1>1. p \in Messages /\ p.dst \in Node /\ p.dst \in DOMAIN cmd
    BY DEF TypeInv, TypeOK, Messages
  <1>2. cmd[p.dst] \in Calls
    BY <1>1, WaitingCalls DEF GetResponse, TypeInv
  <1>3. TypeOK'
    BY <1>1, <1>2 DEF GetResponse, TypeInv, TypeOK
  <1>4. BodiesInv'
    BY DEF GetResponse, TypeInv, BodiesInv
  <1> QED
    BY <1>3, <1>4 DEF TypeInv

LEMMA ServeType ==
  ASSUME TypeInv, NEW p \in net, Serve(p)
  PROVE  TypeInv'
PROOF
  <1> DEFINE a == AnswerTo(p.dst, p.body)
             m == Message(sent + 1, p.dst, Sender(p), "resp", a, p.id)
  <1>1. p.kind = "req" /\ p.body \in Commands /\ p.dst \in Target
    BY DEF Serve, TypeInv, BodiesInv
  <1>2. /\ p.id \in Nat /\ p.src \in Node /\ p.dst \in Node /\ sent + 1 \in Nat
        /\ Sender(p) \in Node
    BY DEF TypeInv, TypeOK, Messages, Sender
  <1>3. a \in Answers /\ Perform(p.dst, p.body) \in [Target -> [Addr -> Val]]
    BY <1>1, Performed DEF TypeInv
  <1>4. m \in Messages /\ m.kind = "resp" /\ m.body = a
    BY <1>2, <1>3 DEF Message, Messages
  <1>5. net' \subseteq net \cup {m}
    BY DEF Serve
  <1>6. served' = served \cup {[of |-> p.id, by |-> p.dst, for |-> p.src, answer |-> a]}
    BY DEF Serve
  <1>7. TypeOK'
    BY <1>2, <1>3, <1>4, <1>5, <1>6 DEF Serve, TypeInv, TypeOK
  <1>8. BodiesInv'
    BY <1>3, <1>4, <1>5 DEF TypeInv, BodiesInv
  <1> QED
    BY <1>7, <1>8 DEF TypeInv

LEMMA SendOtherType ==
  ASSUME TypeInv, NEW n \in Node, NEW d \in Node, SendOther(n, d)
  PROVE  TypeInv'
PROOF
  <1> DEFINE m(k) == Message(sent + 1, n, d, k, None, 0)
  <1>1. PICK k \in {"other", "short"} : net' = net \cup {m(k)}
    BY DEF SendOther
  <1>2. sent + 1 \in Nat
    BY DEF TypeInv, TypeOK
  <1>3. m(k) \in Messages /\ m(k).kind = k
    BY <1>2, MessageType
  <1>4. TypeOK'
    BY <1>1, <1>2, <1>3 DEF SendOther, TypeInv, TypeOK
  <1>5. BodiesInv'
    BY <1>1, <1>3 DEF TypeInv, BodiesInv
  <1> QED
    BY <1>4, <1>5 DEF TypeInv

\* The steps that only take messages away, and stop a daemon
Shrinks ==
  /\ net' \subseteq net
  /\ \A n \in Node : cmd'[n] \in {cmd[n], None}
  /\ cmd' \in [Node -> Calls \cup {None}]
  /\ UNCHANGED <<mem, ret, sent, served>>

LEMMA ShrinkingSteps ==
  ASSUME TypeOK,
         \/ \E p \in net : SkipShort(p) \/ Drop(p) \/ HandleShort(p) \/ Lose(p)
         \/ \E n \in Node : Restart(n)
  PROVE  Shrinks
PROOF
  <1>1. CASE \E p \in net : SkipShort(p) \/ Drop(p) \/ HandleShort(p) \/ Lose(p)
    BY <1>1 DEF SkipShort, Drop, HandleShort, Lose, Shrinks, TypeOK
  <1>2. ASSUME NEW n \in Node, Restart(n) PROVE Shrinks
    BY <1>2 DEF Restart, Shrinks, TypeOK
  <1> QED
    BY <1>1, <1>2

LEMMA ShrinkingType ==
  ASSUME TypeInv, Shrinks
  PROVE  TypeInv'
  BY DEF Shrinks, TypeInv, TypeOK, BodiesInv

LEMMA TypeKept ==
  ASSUME TypeInv, [Next]_vars
  PROVE  TypeInv'
PROOF
  <1>1. CASE UNCHANGED vars
    BY <1>1 DEF vars, TypeInv, TypeOK, BodiesInv
  <1>2. ASSUME NEW n \in Caller, NEW c \in Commands, SendRequest(n, c) PROVE TypeInv'
    BY <1>2, SendRequestType
  <1>3. ASSUME NEW p \in net, GetResponse(p) PROVE TypeInv'
    BY <1>3, GetResponseType
  <1>4. ASSUME NEW p \in net, Serve(p) PROVE TypeInv'
    BY <1>4, ServeType
  <1>5. ASSUME NEW n \in Node, NEW d \in Node, SendOther(n, d) PROVE TypeInv'
    BY <1>5, SendOtherType
  <1>6. CASE \/ \E p \in net : SkipShort(p) \/ Drop(p) \/ HandleShort(p) \/ Lose(p)
             \/ \E n \in Node : Restart(n)
    <2>1. Shrinks
      BY <1>6, ShrinkingSteps DEF TypeInv
    <2> QED
      BY <2>1, ShrinkingType
  <1> QED
    BY <1>1, <1>2, <1>3, <1>4, <1>5, <1>6 DEF Next

LEMMA TypeAtInit == Init => TypeInv
  BY ZeroAssumption DEF Init, TypeInv, TypeOK, BodiesInv

LEMMA TypeAlways == Spec => []TypeInv
  BY TypeAtInit, TypeKept, PTL DEF Spec

\* Every daemon, message and record keeps its type.
THEOREM TypeCorrect == Spec => []TypeOK
PROOF
  <1>1. TypeInv => TypeOK
    BY DEF TypeInv
  <1> QED
    BY <1>1, TypeAlways, PTL

-----------------------------------------------------------------------------
(* What a command reports *)

\* The record of the performance that p answers
PerformanceOfAnswer(p) == [of |-> p.of, by |-> p.src, for |-> p.dst, answer |-> p.body]

\* An answer on its way is that of a performance.
AnswersServed == \A p \in net : p.kind = "resp" => PerformanceOfAnswer(p) \in served

ServedInv == TypeInv /\ AnswersServed /\ AcceptedWasServed

LEMMA SendRequestServed ==
  ASSUME ServedInv, NEW n \in Caller, NEW c \in Commands, SendRequest(n, c)
  PROVE  AnswersServed' /\ AcceptedWasServed'
PROOF
  <1> DEFINE m == Message(sent + 1, n, c.to, "req", c, 0)
  <1>1. net' \subseteq net \cup {m} /\ m.kind = "req"
    BY DEF SendRequest, Message
  <1>2. UNCHANGED <<ret, served>>
    BY DEF SendRequest
  <1> HIDE DEF m
  <1>3. AnswersServed'
    BY <1>1, <1>2 DEF ServedInv, AnswersServed, PerformanceOfAnswer
  <1>4. AcceptedWasServed'
    BY <1>2 DEF ServedInv, AcceptedWasServed
  <1> QED
    BY <1>3, <1>4

\* The answer accepted was on its way, and it has the type of the command.
LEMMA GetResponseServed ==
  ASSUME ServedInv, NEW p \in net, GetResponse(p)
  PROVE  AnswersServed' /\ AcceptedWasServed'
PROOF
  <1>1. net' \subseteq net /\ served' = served
    BY DEF GetResponse
  <1>2. AnswersServed'
    BY <1>1 DEF ServedInv, AnswersServed, PerformanceOfAnswer
  <1>3. p.dst \in DOMAIN ret /\ DOMAIN ret = Node
    BY DEF ServedInv, TypeInv, TypeOK, Messages
  <1>4. ret' = [ret EXCEPT ![p.dst] = [op |-> IF Accepts(cmd[p.dst], p) THEN "returned" ELSE "failed",
                                       for |-> cmd[p.dst], by |-> p]]
    BY DEF GetResponse
  <1>5. ASSUME NEW n \in Node, ret'[n].op = "returned"
        PROVE  /\ [of |-> ret'[n].by.of, by |-> ret'[n].by.src, for |-> n, answer |-> ret'[n].by.body]
                    \in served'
               /\ ret'[n].by.body.op = ret'[n].for.command.op
    <2>1. CASE n # p.dst
      BY <1>1, <1>3, <1>4, <1>5, <2>1 DEF ServedInv, AcceptedWasServed
    <2>2. CASE n = p.dst
      <3>1. ret'[n].by = p /\ ret'[n].for = cmd[n]
        BY <1>3, <1>4, <2>2
      <3>2. Accepts(cmd[n], p)
        BY <1>3, <1>4, <1>5, <2>2
      <3> QED
        BY <1>1, <2>2, <3>1, <3>2 DEF Accepts, ServedInv, AnswersServed, PerformanceOfAnswer
    <2> QED
      BY <2>1, <2>2
  <1>6. AcceptedWasServed'
    BY <1>5 DEF AcceptedWasServed
  <1> QED
    BY <1>2, <1>6

\* The answer that leaves is recorded with the one it goes to.
LEMMA ServeServed ==
  ASSUME ServedInv, NEW p \in net, Serve(p)
  PROVE  AnswersServed' /\ AcceptedWasServed'
PROOF
  <1> DEFINE a == AnswerTo(p.dst, p.body)
             m == Message(sent + 1, p.dst, Sender(p), "resp", a, p.id)
  <1>1. net' \subseteq net \cup {m}
    BY DEF Serve
  <1>2. served' = served \cup {[of |-> p.id, by |-> p.dst, for |-> p.src, answer |-> a]}
    BY DEF Serve
  <1>3. ret' = ret
    BY DEF Serve
  <1> HIDE DEF a
  <1>4. PerformanceOfAnswer(m) = [of |-> p.id, by |-> p.dst, for |-> p.src, answer |-> a]
    BY DEF PerformanceOfAnswer, Message, Sender
  <1> HIDE DEF m
  <1>5. AnswersServed'
    BY <1>1, <1>2, <1>4 DEF ServedInv, AnswersServed, PerformanceOfAnswer
  <1>6. AcceptedWasServed'
    BY <1>2, <1>3 DEF ServedInv, AcceptedWasServed
  <1> QED
    BY <1>5, <1>6

LEMMA SendOtherServed ==
  ASSUME ServedInv, NEW n \in Node, NEW d \in Node, SendOther(n, d)
  PROVE  AnswersServed' /\ AcceptedWasServed'
PROOF
  <1> DEFINE message(k) == Message(sent + 1, n, d, k, None, 0)
  <1>1. PICK k \in {"other", "short"} : net' = net \cup {message(k)}
    BY DEF SendOther
  <1>2. message(k).kind # "resp"
    BY DEF Message
  <1> HIDE DEF message
  <1>3. UNCHANGED <<ret, served>>
    BY DEF SendOther
  <1>4. AnswersServed'
    BY <1>1, <1>2, <1>3 DEF ServedInv, AnswersServed, PerformanceOfAnswer
  <1>5. AcceptedWasServed'
    BY <1>3 DEF ServedInv, AcceptedWasServed
  <1> QED
    BY <1>4, <1>5

LEMMA ShrinkingServed ==
  ASSUME ServedInv, Shrinks
  PROVE  AnswersServed' /\ AcceptedWasServed'
  BY DEF Shrinks, ServedInv, AnswersServed, AcceptedWasServed, PerformanceOfAnswer

LEMMA ServedKept ==
  ASSUME ServedInv, [Next]_vars
  PROVE  ServedInv'
PROOF
  <1>1. TypeInv'
    BY TypeKept DEF ServedInv
  <1>2. CASE UNCHANGED vars
    BY <1>1, <1>2 DEF vars, ServedInv, AnswersServed, AcceptedWasServed, PerformanceOfAnswer
  <1>3. ASSUME NEW n \in Caller, NEW c \in Commands, SendRequest(n, c) PROVE ServedInv'
    BY <1>1, <1>3, SendRequestServed DEF ServedInv
  <1>4. ASSUME NEW p \in net, GetResponse(p) PROVE ServedInv'
    BY <1>1, <1>4, GetResponseServed DEF ServedInv
  <1>5. ASSUME NEW p \in net, Serve(p) PROVE ServedInv'
    BY <1>1, <1>5, ServeServed DEF ServedInv
  <1>6. ASSUME NEW n \in Node, NEW d \in Node, SendOther(n, d) PROVE ServedInv'
    BY <1>1, <1>6, SendOtherServed DEF ServedInv
  <1>7. CASE \/ \E p \in net : SkipShort(p) \/ Drop(p) \/ HandleShort(p) \/ Lose(p)
             \/ \E n \in Node : Restart(n)
    <2>1. Shrinks
      BY <1>7, ShrinkingSteps DEF ServedInv, TypeInv
    <2> QED
      BY <1>1, <2>1, ShrinkingServed DEF ServedInv
  <1> QED
    BY <1>2, <1>3, <1>4, <1>5, <1>6, <1>7 DEF Next

LEMMA ServedAtInit == Init => ServedInv
  BY TypeAtInit DEF Init, ServedInv, AnswersServed, AcceptedWasServed, None

\* Whatever is lost, reordered or restarted, for any number of nodes: what a
\* command reports as its answer is what a target answered to a request of that
\* type, of this very node.
THEOREM AcceptedCorrect == Spec => []AcceptedWasServed
PROOF
  <1>1. Spec => []ServedInv
    BY ServedAtInit, ServedKept, PTL DEF Spec
  <1>2. ServedInv => AcceptedWasServed
    BY DEF ServedInv
  <1> QED
    BY <1>1, <1>2, PTL

-----------------------------------------------------------------------------
(* Callers and targets apart *)

\* No node is both, the daemons of the callers are not restarted, and nothing is
\* measured with them.
Apart == Caller \cap Target = {} /\ Restarts \cap Caller = {} /\ Measured \cap Caller = {}

TargetsServe == \A t \in Target : ~Waiting(t)

\* The ids of messages and commands
IdsInv ==
  /\ \A p \in net : p.id <= sent
  /\ \A p, q \in net : p.id = q.id => p = q
  /\ \A n \in Node : Waiting(n) => cmd[n].id <= sent
  /\ \A n, m \in Node : Waiting(n) /\ Waiting(m) /\ cmd[n].id = cmd[m].id => n = m
  /\ \A s \in served : s.of <= sent

\* A request is that of the command its sender waits for, and not yet performed.
RequestsInv ==
  \A p \in net : p.kind = "req" =>
    /\ p.src \in Caller /\ p.dst = p.body.to
    /\ Waiting(p.src) /\ cmd[p.src].id = p.id /\ cmd[p.src].command = p.body
    /\ \A s \in served : s.of # p.id

\* An answer is the only one to the command its receiver waits for.
AnswersInv ==
  /\ \A p \in net : p.kind = "resp" =>
       /\ p.dst \in Caller /\ Waiting(p.dst) /\ cmd[p.dst].id = p.of
       /\ p.body.op = cmd[p.dst].command.op
  /\ \A p, q \in net : p.kind = "resp" /\ q.kind = "resp" /\ p.of = q.of => p = q

PerformedOnce == \A r, s \in served : r.of = s.of => r = s

OthersInv == \A p \in net : p.kind = "other" => p.dst \notin Caller

ApartInv ==
  /\ ServedInv /\ TargetsServe /\ IdsInv /\ RequestsInv /\ AnswersInv
  /\ PerformedOnce /\ OthersInv /\ AnswerIsOwn

LEMMA SendRequestApart ==
  ASSUME Apart, ApartInv, NEW n \in Caller, NEW c \in Commands, SendRequest(n, c)
  PROVE  /\ TargetsServe' /\ IdsInv' /\ RequestsInv' /\ AnswersInv'
         /\ PerformedOnce' /\ OthersInv' /\ AnswerIsOwn'
PROOF
  <1> DEFINE m == Message(sent + 1, n, c.to, "req", c, 0)
             k == [op |-> "call", id |-> sent + 1, command |-> c]
  <1>1. /\ m.kind = "req" /\ m.id = sent + 1 /\ m.src = n /\ m.dst = c.to /\ m.body = c
        /\ k.id = sent + 1 /\ k.command = c /\ k # None
    BY DEF Message, None
  <1>2. /\ net' \subseteq net \cup {m} /\ cmd' = [cmd EXCEPT ![n] = k] /\ ~Waiting(n)
        /\ sent' = sent + 1 /\ served' = served /\ ret' = ret
    BY DEF SendRequest
  <1> HIDE DEF m, k
  <1>3. /\ sent \in Nat /\ DOMAIN cmd = Node /\ n \in Node /\ n \notin Target
        /\ \A p \in net : p.id \in Nat /\ p.src \in Node /\ p.dst \in Node
        /\ \A x \in Node : Waiting(x) => cmd[x].id \in Nat
        /\ \A s \in served : s.of \in Nat
    BY WaitingCalls DEF Apart, ApartInv, ServedInv, TypeInv, TypeOK, Messages, Node, Calls
  <1>4. /\ \A x \in Node : x # n => cmd'[x] = cmd[x] /\ (Waiting(x)' <=> Waiting(x))
        /\ cmd'[n] = k /\ Waiting(n)'
    BY <1>1, <1>2, <1>3 DEF Waiting
  <1>5. TargetsServe'
    BY <1>3, <1>4 DEF ApartInv, TargetsServe, Node
  <1>6. IdsInv'
    <2>1. \A p \in net' : p.id <= sent'
      BY <1>1, <1>2, <1>3 DEF ApartInv, IdsInv
    <2>2. \A p, q \in net' : p.id = q.id => p = q
      BY <1>1, <1>2, <1>3 DEF ApartInv, IdsInv
    <2>3. \A x \in Node : Waiting(x)' => cmd'[x].id <= sent'
      BY <1>1, <1>2, <1>3, <1>4 DEF ApartInv, IdsInv
    <2>4. \A x, y \in Node : Waiting(x)' /\ Waiting(y)' /\ cmd'[x].id = cmd'[y].id => x = y
      BY <1>1, <1>3, <1>4 DEF ApartInv, IdsInv
    <2>5. \A s \in served' : s.of <= sent'
      BY <1>2, <1>3 DEF ApartInv, IdsInv
    <2> QED
      BY <2>1, <2>2, <2>3, <2>4, <2>5 DEF IdsInv
  <1>7. RequestsInv'
    <2> SUFFICES ASSUME NEW p \in net', p.kind = "req"
                 PROVE  /\ p.src \in Caller /\ p.dst = p.body.to
                        /\ Waiting(p.src)' /\ cmd'[p.src].id = p.id /\ cmd'[p.src].command = p.body
                        /\ \A s \in served' : s.of # p.id
      BY DEF RequestsInv
    <2>1. CASE p = m
      BY <1>1, <1>2, <1>3, <1>4, <2>1 DEF ApartInv, IdsInv
    <2>2. CASE p \in net
      BY <1>2, <1>3, <1>4, <2>2 DEF ApartInv, RequestsInv
    <2> QED
      BY <1>2, <2>1, <2>2
  <1>8. AnswersInv'
    <2>1. \A p \in net' : p.kind = "resp" => p \in net /\ p.dst # n
      BY <1>1, <1>2 DEF ApartInv, AnswersInv
    <2> QED
      BY <1>3, <1>4, <2>1 DEF ApartInv, AnswersInv
  <1>9. PerformedOnce' /\ OthersInv' /\ AnswerIsOwn'
    BY <1>1, <1>2 DEF ApartInv, PerformedOnce, OthersInv, AnswerIsOwn
  <1> QED
    BY <1>5, <1>6, <1>7, <1>8, <1>9

\* A waiting caller accepts the message it gets: no request, and no message of
\* another kind, comes to it.
LEMMA ResponseAccepted ==
  ASSUME Apart, ApartInv, NEW p \in net, GetResponse(p)
  PROVE  /\ p.kind = "resp" /\ p.dst \in Caller /\ Accepts(cmd[p.dst], p)
         /\ cmd[p.dst].id = p.of /\ Waiting(p.dst)
PROOF
  <1>1. p.dst \in Node /\ Waiting(p.dst) /\ p.kind \in {"req", "resp", "other"}
    BY DEF GetResponse, ApartInv, ServedInv, TypeInv, TypeOK, Messages
  <1>2. p.dst \in Caller /\ p.dst \notin Target
    BY <1>1 DEF Node, Apart, ApartInv, TargetsServe
  <1>3. p.kind # "req"
    BY <1>2 DEF ApartInv, ServedInv, TypeInv, BodiesInv
  <1>4. p.kind # "other"
    BY <1>2 DEF ApartInv, OthersInv
  <1> QED
    BY <1>1, <1>2, <1>3, <1>4 DEF Accepts, ApartInv, AnswersInv

LEMMA GetResponseApart ==
  ASSUME Apart, ApartInv, NEW p \in net, GetResponse(p)
  PROVE  /\ TargetsServe' /\ IdsInv' /\ RequestsInv' /\ AnswersInv'
         /\ PerformedOnce' /\ OthersInv' /\ AnswerIsOwn'
PROOF
  <1>1. /\ p.kind = "resp" /\ p.dst \in Caller /\ Accepts(cmd[p.dst], p)
        /\ cmd[p.dst].id = p.of
    BY ResponseAccepted
  <1>2. /\ ret' = [ret EXCEPT ![p.dst] = [op |-> IF Accepts(cmd[p.dst], p) THEN "returned" ELSE "failed",
                                          for |-> cmd[p.dst], by |-> p]]
        /\ cmd' = [cmd EXCEPT ![p.dst] = None] /\ net' = net \ {p}
        /\ sent' = sent /\ served' = served
    BY DEF GetResponse
  <1>3. DOMAIN cmd = Node /\ DOMAIN ret = Node /\ p.dst \in Node
    BY <1>1 DEF ApartInv, ServedInv, TypeInv, TypeOK, Node
  <1>4. /\ \A x \in Node : x # p.dst => cmd'[x] = cmd[x] /\ (Waiting(x)' <=> Waiting(x))
        /\ ~Waiting(p.dst)'
    BY <1>2, <1>3 DEF Waiting
  <1>5. TargetsServe'
    BY <1>4 DEF ApartInv, TargetsServe, Node
  <1>6. IdsInv'
    BY <1>2, <1>4 DEF ApartInv, IdsInv
  <1>7. RequestsInv'
    <2>1. \A q \in net' : q.kind = "req" => q.src # p.dst
      \* The answer to p.dst's request shows that it has been performed.
      <3>1. PerformanceOfAnswer(p) \in served /\ PerformanceOfAnswer(p).of = p.of
        BY <1>1 DEF ApartInv, ServedInv, AnswersServed, PerformanceOfAnswer
      <3> QED
        BY <1>1, <1>2, <3>1 DEF ApartInv, RequestsInv
    <2> QED
      BY <1>2, <1>4, <2>1 DEF ApartInv, RequestsInv, Node
  <1>8. AnswersInv'
    <2>1. \A q \in net' : q.kind = "resp" => q.dst # p.dst
      BY <1>1, <1>2 DEF ApartInv, AnswersInv
    <2> QED
      BY <1>2, <1>4, <2>1 DEF ApartInv, AnswersInv, Node
  <1>9. PerformedOnce' /\ OthersInv'
    BY <1>2 DEF ApartInv, PerformedOnce, OthersInv
  <1>10. AnswerIsOwn'
    <2>1. ret'[p.dst].by = p /\ ret'[p.dst].for = cmd[p.dst]
      BY <1>2, <1>3
    <2>2. \A x \in Node : x # p.dst => ret'[x] = ret[x]
      BY <1>2, <1>3
    <2> HIDE DEF ApartInv
    <2>3. AnswerIsOwn
      BY DEF ApartInv
    <2> QED
      BY <1>1, <2>1, <2>2, <2>3 DEF AnswerIsOwn
  <1> QED
    BY <1>5, <1>6, <1>7, <1>8, <1>9, <1>10

LEMMA ServeApart ==
  ASSUME Apart, ApartInv, NEW p \in net, Serve(p)
  PROVE  /\ TargetsServe' /\ IdsInv' /\ RequestsInv' /\ AnswersInv'
         /\ PerformedOnce' /\ OthersInv' /\ AnswerIsOwn'
PROOF
  <1> DEFINE a == AnswerTo(p.dst, p.body)
             m == Message(sent + 1, p.dst, Sender(p), "resp", a, p.id)
             r == [of |-> p.id, by |-> p.dst, for |-> p.src, answer |-> a]
  <1>1. /\ p.kind = "req" /\ p.body \in Commands /\ p.dst \in Target
        /\ a.op = p.body.op
    BY Performed DEF Serve, ApartInv, ServedInv, TypeInv, BodiesInv
  <1>2. /\ net' \subseteq (net \ {p}) \cup {m} /\ cmd' = cmd /\ ret' = ret
        /\ sent' = sent + 1 /\ served' = served \cup {r}
    BY DEF Serve
  <1>3. /\ m.kind = "resp" /\ m.id = sent + 1 /\ m.dst = p.src /\ m.of = p.id /\ m.body = a
        /\ r.of = p.id
    BY DEF Message, Sender
  <1> HIDE DEF a, m, r
  <1>4. /\ sent \in Nat
        /\ \A q \in net : q.id \in Nat
        /\ \A x \in Node : Waiting(x) => cmd[x].id \in Nat
        /\ \A s \in served : s.of \in Nat
    BY WaitingCalls DEF ApartInv, ServedInv, TypeInv, TypeOK, Messages, Calls
  <1>5. /\ p.src \in Caller /\ Waiting(p.src) /\ cmd[p.src].id = p.id /\ cmd[p.src].command = p.body
        /\ \A s \in served : s.of # p.id
    BY <1>1 DEF ApartInv, RequestsInv
  <1>6. TargetsServe'
    BY <1>2 DEF ApartInv, TargetsServe, Waiting
  <1>7. IdsInv'
    <2>1. \A q \in net' : q.id <= sent'
      BY <1>2, <1>3, <1>4 DEF ApartInv, IdsInv
    <2>2. \A q, s \in net' : q.id = s.id => q = s
      BY <1>2, <1>3, <1>4 DEF ApartInv, IdsInv
    <2>3. /\ \A x \in Node : Waiting(x)' => cmd'[x].id <= sent'
          /\ \A x, y \in Node : Waiting(x)' /\ Waiting(y)' /\ cmd'[x].id = cmd'[y].id => x = y
      BY <1>2, <1>4 DEF ApartInv, IdsInv, Waiting
    <2>4. \A s \in served' : s.of <= sent'
      BY <1>2, <1>3, <1>4 DEF ApartInv, IdsInv
    <2> QED
      BY <2>1, <2>2, <2>3, <2>4 DEF IdsInv
  <1>8. RequestsInv'
    <2>1. \A q \in net' : q.kind = "req" => q \in net /\ q.id # p.id
      BY <1>2, <1>3 DEF ApartInv, IdsInv
    <2> QED
      BY <1>2, <1>3, <2>1 DEF ApartInv, RequestsInv, Waiting
  <1>9. AnswersInv'
    <2>1. \A q \in net : q.kind = "resp" => q.of # p.id
      BY <1>5 DEF ApartInv, ServedInv, AnswersServed, PerformanceOfAnswer
    <2>2. \A q \in net' : q.kind = "resp" =>
            /\ q.dst \in Caller /\ Waiting(q.dst)' /\ cmd'[q.dst].id = q.of
            /\ q.body.op = cmd'[q.dst].command.op
      BY <1>1, <1>2, <1>3, <1>5 DEF ApartInv, AnswersInv, Waiting
    <2>3. \A q, s \in net' : q.kind = "resp" /\ s.kind = "resp" /\ q.of = s.of => q = s
      BY <1>2, <1>3, <2>1 DEF ApartInv, AnswersInv
    <2> QED
      BY <2>2, <2>3 DEF AnswersInv
  <1>10. PerformedOnce'
    BY <1>2, <1>3, <1>5 DEF ApartInv, PerformedOnce
  <1>11. OthersInv'
    BY <1>2, <1>3 DEF ApartInv, OthersInv
  <1>12. AnswerIsOwn'
    BY <1>2 DEF ApartInv, AnswerIsOwn
  <1> QED
    BY <1>6, <1>7, <1>8, <1>9, <1>10, <1>11, <1>12

LEMMA SendOtherApart ==
  ASSUME Apart, ApartInv, NEW n \in Node, NEW d \in Node, SendOther(n, d)
  PROVE  /\ TargetsServe' /\ IdsInv' /\ RequestsInv' /\ AnswersInv'
         /\ PerformedOnce' /\ OthersInv' /\ AnswerIsOwn'
PROOF
  <1> DEFINE message(k) == Message(sent + 1, n, d, k, None, 0)
  <1>1. PICK k \in {"other", "short"} :
          net' = net \cup {message(k)} /\ (k = "other" => d \in Measured)
    BY DEF SendOther
  <1>2. message(k).kind = k /\ message(k).id = sent + 1 /\ message(k).dst = d
    BY DEF Message
  <1> HIDE DEF message
  <1>3. sent' = sent + 1 /\ UNCHANGED <<cmd, ret, served>>
    BY DEF SendOther
  <1>4. /\ sent \in Nat
        /\ \A q \in net : q.id \in Nat
        /\ \A x \in Node : Waiting(x) => cmd[x].id \in Nat
        /\ \A s \in served : s.of \in Nat
    BY WaitingCalls DEF ApartInv, ServedInv, TypeInv, TypeOK, Messages, Calls
  <1>5. TargetsServe' /\ PerformedOnce' /\ AnswerIsOwn'
    BY <1>3 DEF ApartInv, TargetsServe, Waiting, PerformedOnce, AnswerIsOwn
  <1>6. IdsInv'
    <2>1. \A q \in net' : q.id <= sent'
      BY <1>1, <1>2, <1>3, <1>4 DEF ApartInv, IdsInv
    <2>2. \A q, s \in net' : q.id = s.id => q = s
      BY <1>1, <1>2, <1>4 DEF ApartInv, IdsInv
    <2>3. /\ \A x \in Node : Waiting(x)' => cmd'[x].id <= sent'
          /\ \A x, y \in Node : Waiting(x)' /\ Waiting(y)' /\ cmd'[x].id = cmd'[y].id => x = y
          /\ \A s \in served' : s.of <= sent'
      BY <1>3, <1>4 DEF ApartInv, IdsInv, Waiting
    <2> QED
      BY <2>1, <2>2, <2>3 DEF IdsInv
  <1>7. \A q \in net' : q.kind \in {"req", "resp"} => q \in net
    BY <1>1, <1>2
  <1>8. RequestsInv' /\ AnswersInv'
    BY <1>3, <1>7 DEF ApartInv, RequestsInv, AnswersInv, Waiting
  <1>9. OthersInv'
    BY <1>1, <1>2 DEF Apart, ApartInv, OthersInv
  <1> QED
    BY <1>5, <1>6, <1>8, <1>9

\* The daemons that are restarted do not wait.
LEMMA ShrinkingApart ==
  ASSUME Apart, ApartInv,
         \/ \E p \in net : SkipShort(p) \/ Drop(p) \/ HandleShort(p) \/ Lose(p)
         \/ \E n \in Node : Restart(n)
  PROVE  net' \subseteq net /\ UNCHANGED <<mem, cmd, ret, sent, served>>
PROOF
  <1>1. CASE \E p \in net : SkipShort(p) \/ Drop(p) \/ HandleShort(p) \/ Lose(p)
    BY <1>1 DEF SkipShort, Drop, HandleShort, Lose
  <1>2. ASSUME NEW n \in Node, Restart(n) PROVE cmd' = cmd /\ net' \subseteq net /\ UNCHANGED <<mem, ret, sent, served>>
    <2>1. cmd[n] = None
      BY <1>2 DEF Restart, Node, Apart, ApartInv, TargetsServe, Waiting
    <2>2. cmd' = cmd
      BY <1>2, <2>1 DEF Restart, ApartInv, ServedInv, TypeInv, TypeOK
    <2> QED
      BY <1>2, <2>2 DEF Restart
  <1> QED
    BY <1>1, <1>2

LEMMA ApartKept ==
  ASSUME Apart, ApartInv, [Next]_vars
  PROVE  ApartInv'
PROOF
  <1>1. ServedInv'
    BY ServedKept DEF ApartInv
  <1>2. ASSUME net' \subseteq net, UNCHANGED <<cmd, ret, sent, served>> PROVE ApartInv'
    BY <1>1, <1>2 DEF ApartInv, TargetsServe, IdsInv, RequestsInv, AnswersInv, PerformedOnce,
                      OthersInv, AnswerIsOwn, Waiting
  <1>3. CASE UNCHANGED vars
    BY <1>2, <1>3 DEF vars
  <1>4. ASSUME NEW n \in Caller, NEW c \in Commands, SendRequest(n, c) PROVE ApartInv'
    BY <1>1, <1>4, SendRequestApart DEF ApartInv
  <1>5. ASSUME NEW p \in net, GetResponse(p) PROVE ApartInv'
    BY <1>1, <1>5, GetResponseApart DEF ApartInv
  <1>6. ASSUME NEW p \in net, Serve(p) PROVE ApartInv'
    BY <1>1, <1>6, ServeApart DEF ApartInv
  <1>7. ASSUME NEW n \in Node, NEW d \in Node, SendOther(n, d) PROVE ApartInv'
    BY <1>1, <1>7, SendOtherApart DEF ApartInv
  <1>8. CASE \/ \E p \in net : SkipShort(p) \/ Drop(p) \/ HandleShort(p) \/ Lose(p)
             \/ \E n \in Node : Restart(n)
    BY <1>2, <1>8, ShrinkingApart
  <1> QED
    BY <1>3, <1>4, <1>5, <1>6, <1>7, <1>8 DEF Next

LEMMA ApartAtInit == Init => ApartInv
  BY ServedAtInit DEF Init, ApartInv, TargetsServe, Node, Waiting, IdsInv, RequestsInv, AnswersInv,
                      PerformedOnce, OthersInv, AnswerIsOwn, None

LEMMA ApartAlways == ASSUME Apart PROVE Spec => []ApartInv
  BY ApartAtInit, ApartKept, PTL DEF Spec

\* Between callers and targets, whatever is lost, delayed, or short, and however
\* often targets are restarted: the answer of a command is its own, although
\* nobody compares ids.
THEOREM AnswerIsOwnApart == ASSUME Apart PROVE Spec => []AnswerIsOwn
PROOF
  <1>1. ApartInv => AnswerIsOwn
    BY DEF ApartInv
  <1> QED
    BY <1>1, ApartAlways, PTL

-----------------------------------------------------------------------------
(* Callers and targets apart: RemoteMemory is implemented *)

\* What RemoteMemory sees of a caller
CallOf(n) == IF cmd[n] = None THEN None ELSE cmd[n].command

AnswerIn(P) == IF P = {} THEN None ELSE (CHOOSE s \in P : TRUE).answer

AnswerOf(n) == AnswerIn(PerformanceOf(n))

ReturnedOf(n) == IF ret[n].op = "returned"
                 THEN [op |-> "returned", command |-> ret[n].for.command, answer |-> ret[n].by.body]
                 ELSE None

LEMMA MemoryAtInit == Init => Memory!Init
  BY DEF Init, Memory!Init, Memory!None, None, PerformanceOf, Node

\* A request is a call, whether it leaves or not.
LEMMA SendRequestCalls ==
  ASSUME Apart, ApartInv, NEW n \in Caller, NEW c \in Commands, SendRequest(n, c)
  PROVE  Memory!Call(n, c)
PROOF
  <1> DEFINE k == [op |-> "call", id |-> sent + 1, command |-> c]
  <1>1. k.id = sent + 1 /\ k.command = c /\ k # None
    BY DEF None
  <1>2. /\ cmd' = [cmd EXCEPT ![n] = k] /\ cmd[n] = None
        /\ served' = served /\ ret' = ret /\ mem' = mem
    BY DEF SendRequest, Waiting
  <1> HIDE DEF k
  <1>3. /\ sent \in Nat /\ DOMAIN cmd = Node /\ Caller \subseteq Node
        /\ \A s \in served : s.of \in Nat /\ s.of <= sent
    BY DEF ApartInv, ServedInv, TypeInv, TypeOK, Node, IdsInv
  <1>4. cmd'[n] = k /\ \A x \in Caller : x # n => cmd'[x] = cmd[x]
    BY <1>2, <1>3
  <1>5. \A x \in Caller : PerformanceOf(x)' = PerformanceOf(x)
    <2>1. PerformanceOf(n) = {} /\ PerformanceOf(n)' = {}
      BY <1>1, <1>2, <1>3, <1>4 DEF PerformanceOf
    <2>2. \A x \in Caller : x # n => PerformanceOf(x)' = PerformanceOf(x)
      BY <1>2, <1>4 DEF PerformanceOf
    <2> QED
      BY <2>1, <2>2
  <1>6. CallOf(n) = None /\ CallOf(n)' = c /\ \A x \in Caller : x # n => CallOf(x)' = CallOf(x)
    BY <1>1, <1>2, <1>4 DEF CallOf
  <1>7. \A x \in Caller : AnswerOf(x)' = AnswerOf(x) /\ ReturnedOf(x)' = ReturnedOf(x)
    <2>1. \A x \in Caller : AnswerOf(x)' = AnswerOf(x)
      BY <1>5 DEF AnswerOf
    <2>2. \A x \in Caller : ReturnedOf(x)' = ReturnedOf(x)
      BY <1>2 DEF ReturnedOf
    <2> QED
      BY <2>1, <2>2
  <1>8. [x \in Caller |-> CallOf(x)]' = [[x \in Caller |-> CallOf(x)] EXCEPT ![n] = c]
    BY <1>6
  <1>9. /\ [x \in Caller |-> AnswerOf(x)]' = [x \in Caller |-> AnswerOf(x)]
        /\ [x \in Caller |-> ReturnedOf(x)]' = [x \in Caller |-> ReturnedOf(x)]
    BY <1>7
  <1> QED
    BY <1>2, <1>6, <1>8, <1>9 DEF Memory!Call, Memory!None, None, CallOf, AnswerOf, AnswerIn, ReturnedOf

\* Serving a request is the performance of the call it was sent for.
LEMMA ServePerforms ==
  ASSUME Apart, ApartInv, NEW p \in net, Serve(p)
  PROVE  p.src \in Caller /\ Memory!Perform(p.src)
PROOF
  <1> DEFINE n == p.src
             a == AnswerTo(p.dst, p.body)
             r == [of |-> p.id, by |-> p.dst, for |-> p.src, answer |-> a]
  <1>1. /\ p.kind = "req" /\ p.body \in Commands /\ p.dst \in Target /\ a \in Answers
    BY Performed DEF Serve, ApartInv, ServedInv, TypeInv, BodiesInv
  <1>2. /\ cmd' = cmd /\ ret' = ret /\ served' = served \cup {r} /\ mem' = Perform(p.dst, p.body)
    BY DEF Serve
  <1>3. /\ n \in Caller /\ p.dst = p.body.to
        /\ cmd[n] # None /\ cmd[n].id = p.id /\ cmd[n].command = p.body
        /\ \A s \in served : s.of # p.id
    BY <1>1 DEF ApartInv, RequestsInv, Waiting
  <1>4. r.of = p.id /\ r.answer = a
    OBVIOUS
  <1>5. /\ a # None /\ p.body # None
        /\ a = Memory!AnswerTo(mem, p.body)
        /\ Perform(p.dst, p.body) = Memory!After(mem, p.body)
    <2>1. a # None
      BY <1>1 DEF Answers, None
    <2>2. p.body # None
      BY <1>1, CommandParts DEF None
    <2>3. a = Memory!AnswerTo(mem, p.body)
      BY <1>3 DEF AnswerTo, Memory!AnswerTo
    <2>4. Perform(p.dst, p.body) = Memory!After(mem, p.body)
      BY <1>3 DEF Perform, Memory!After
    <2> QED
      BY <2>1, <2>2, <2>3, <2>4
  <1> HIDE DEF a, r
  <1>6. PerformanceOf(n) = {} /\ PerformanceOf(n)' = {r}
    BY <1>2, <1>3, <1>4 DEF PerformanceOf
  <1>7. \A x \in Caller : x # n => PerformanceOf(x)' = PerformanceOf(x)
    <2>1. \A x \in Caller : x # n /\ cmd[x] # None => cmd[x].id # p.id
      BY <1>3 DEF ApartInv, IdsInv, Waiting, Node
    <2> QED
      BY <1>2, <1>4, <2>1 DEF PerformanceOf
  <1>8. AnswerOf(n) = None /\ AnswerOf(n)' = a
    BY <1>4, <1>6 DEF AnswerOf, AnswerIn
  <1>9. \A x \in Caller : x # n => AnswerOf(x)' = AnswerOf(x)
    BY <1>7 DEF AnswerOf
  <1>10. [x \in Caller |-> AnswerOf(x)]' = [[x \in Caller |-> AnswerOf(x)] EXCEPT ![n] = a]
    BY <1>3, <1>8, <1>9
  <1>11. CallOf(n) = p.body /\ [x \in Caller |-> CallOf(x)]' = [x \in Caller |-> CallOf(x)]
    BY <1>2, <1>3 DEF CallOf
  <1>12. [x \in Caller |-> ReturnedOf(x)]' = [x \in Caller |-> ReturnedOf(x)]
    BY <1>2 DEF ReturnedOf
  <1>13. [x \in Caller |-> CallOf(x)][n] = p.body /\ [x \in Caller |-> AnswerOf(x)][n] = None
    BY <1>3, <1>8, <1>11
  <1> HIDE DEF n
  <1> QED
    BY <1>2, <1>3, <1>5, <1>10, <1>11, <1>12, <1>13
    DEF Memory!Perform, Memory!None, None, CallOf, AnswerOf, AnswerIn, ReturnedOf, n

\* Accepting the answer is the return of the call: the answer is that of the
\* one performance there was.
LEMMA GetResponseReturns ==
  ASSUME Apart, ApartInv, NEW p \in net, GetResponse(p)
  PROVE  p.dst \in Caller /\ Memory!Return(p.dst)
PROOF
  <1> DEFINE n == p.dst
             r == PerformanceOfAnswer(p)
  <1>1. /\ p.kind = "resp" /\ n \in Caller /\ Accepts(cmd[n], p)
        /\ cmd[n].id = p.of /\ cmd[n] # None
    BY ResponseAccepted DEF Waiting
  <1>2. /\ ret' = [ret EXCEPT ![n] = [op |-> "returned", for |-> cmd[n], by |-> p]]
        /\ cmd' = [cmd EXCEPT ![n] = None]
        /\ served' = served /\ mem' = mem
    BY <1>1 DEF GetResponse
  <1>3. r \in served /\ r.of = p.of /\ r.answer = p.body /\ p.body \in Answers
    BY <1>1 DEF ApartInv, ServedInv, TypeInv, BodiesInv, AnswersServed, PerformanceOfAnswer
  <1>4. DOMAIN cmd = Node /\ DOMAIN ret = Node /\ Caller \subseteq Node
    BY DEF ApartInv, ServedInv, TypeInv, TypeOK, Node
  <1> HIDE DEF n, r
  <1>5. /\ cmd'[n] = None /\ ret'[n] = [op |-> "returned", for |-> cmd[n], by |-> p]
        /\ \A x \in Caller : x # n => cmd'[x] = cmd[x] /\ ret'[x] = ret[x]
    BY <1>1, <1>2, <1>4
  <1>6. PerformanceOf(n) = {r} /\ PerformanceOf(n)' = {}
    BY <1>1, <1>2, <1>3, <1>5 DEF PerformanceOf, ApartInv, PerformedOnce
  <1>7. \A x \in Caller : x # n => PerformanceOf(x)' = PerformanceOf(x)
    BY <1>2, <1>5 DEF PerformanceOf
  <1>8. AnswerOf(n) = p.body /\ AnswerOf(n)' = None /\ p.body # None
    BY <1>3, <1>6 DEF AnswerOf, AnswerIn, Answers, None
  <1>9. \A x \in Caller : x # n => AnswerOf(x)' = AnswerOf(x)
    BY <1>7 DEF AnswerOf
  <1>10. [x \in Caller |-> AnswerOf(x)]' = [[x \in Caller |-> AnswerOf(x)] EXCEPT ![n] = None]
    BY <1>1, <1>8, <1>9
  <1>11. /\ CallOf(n) = cmd[n].command /\ CallOf(n)' = None
         /\ \A x \in Caller : x # n => CallOf(x)' = CallOf(x)
    BY <1>1, <1>5 DEF CallOf
  <1>12. [x \in Caller |-> CallOf(x)]' = [[x \in Caller |-> CallOf(x)] EXCEPT ![n] = None]
    BY <1>1, <1>11
  <1>13. /\ ReturnedOf(n)' = [op |-> "returned", command |-> CallOf(n), answer |-> AnswerOf(n)]
         /\ \A x \in Caller : x # n => ReturnedOf(x)' = ReturnedOf(x)
    BY <1>5, <1>8, <1>11 DEF ReturnedOf
  <1>14. [x \in Caller |-> ReturnedOf(x)]' =
           [[x \in Caller |-> ReturnedOf(x)] EXCEPT
              ![n] = [op |-> "returned", command |-> CallOf(n), answer |-> AnswerOf(n)]]
    BY <1>1, <1>13
  <1>15. /\ [x \in Caller |-> CallOf(x)][n] = CallOf(n)
         /\ [x \in Caller |-> AnswerOf(x)][n] = AnswerOf(n)
         /\ AnswerOf(n) # None
    BY <1>1, <1>8
  <1>16. Memory!Return(n)
    BY <1>2, <1>10, <1>12, <1>14, <1>15
    DEF Memory!Return, Memory!None, None, CallOf, AnswerOf, AnswerIn, ReturnedOf
  <1> QED
    BY <1>1, <1>16 DEF n

LEMMA MemoryStutters ==
  ASSUME UNCHANGED <<mem, cmd, ret, served>>
  PROVE  UNCHANGED Memory!vars
  BY DEF Memory!vars, PerformanceOf

LEMMA MemoryStep ==
  ASSUME Apart, ApartInv, [Next]_vars
  PROVE  [Memory!Next]_Memory!vars
PROOF
  <1>1. CASE UNCHANGED vars
    BY <1>1, MemoryStutters DEF vars
  <1>2. ASSUME NEW n \in Caller, NEW c \in Commands, SendRequest(n, c) PROVE Memory!Next
    <2>1. Memory!Call(n, c) /\ c \in Memory!Commands
      BY <1>2, SendRequestCalls DEF Commands, Memory!Commands
    <2> QED
      BY <2>1 DEF Memory!Next
  <1>3. ASSUME NEW p \in net, GetResponse(p) PROVE Memory!Next
    BY <1>3, GetResponseReturns DEF Memory!Next
  <1>4. ASSUME NEW p \in net, Serve(p) PROVE Memory!Next
    BY <1>4, ServePerforms DEF Memory!Next
  <1>5. ASSUME NEW n \in Node, NEW d \in Node, SendOther(n, d) PROVE UNCHANGED Memory!vars
    BY <1>5, MemoryStutters DEF SendOther
  <1>6. ASSUME \/ \E p \in net : SkipShort(p) \/ Drop(p) \/ HandleShort(p) \/ Lose(p)
               \/ \E n \in Node : Restart(n)
        PROVE UNCHANGED Memory!vars
    BY <1>6, ShrinkingApart, MemoryStutters
  <1> QED
    BY <1>1, <1>2, <1>3, <1>4, <1>5, <1>6 DEF Next

\* Between callers and targets that are apart, with any number of them and
\* whatever is lost, delayed, short or restarted: every command is called,
\* performed exactly once before it returns, and returns what that performance
\* answered.
THEOREM RemoteMemoryImplemented == ASSUME Apart PROVE Spec => ImplementsRemoteMemory
PROOF
  <1>1. Init => Memory!Init
    BY MemoryAtInit
  <1>2. ApartInv /\ [Next]_vars => [Memory!Next]_Memory!vars
    BY MemoryStep
  <1> QED
    BY <1>1, <1>2, ApartAlways, PTL DEF Spec, ImplementsRemoteMemory, Memory!Spec

-----------------------------------------------------------------------------
(* Two nodes that both call and are called *)

\* Their messages keep their order, nobody else sends them any but short ones,
\* and they are not restarted.  Messages may be lost.
Pair ==
  /\ \E a, b \in Node : Node = {a, b}
  /\ "reorder" \notin Faults /\ Restarts = {} /\ Measured = {}

PairIds ==
  /\ \A p \in net : p.id <= sent /\ p.src # p.dst /\ p.kind # "other"
  /\ \A p, q \in net : p.id = q.id => p = q
  /\ \A n \in Node : Waiting(n) => cmd[n].id <= sent

\* A node that waits has sent no request or answer since.
QuietInv ==
  \A p \in net : p.kind # "short" /\ Waiting(p.src) => p.id <= cmd[p.src].id

\* The sender of the request waits for its answer, or it has gone on, and then
\* the other node waits too, has nothing on its way, and gets this request first.
Current(p) == Waiting(p.src) /\ cmd[p.src].id = p.id

Stale(p) ==
  /\ Waiting(p.dst)
  /\ \A q \in net : q.kind # "short" => q.src # p.dst /\ (q.src = p.src => p.id <= q.id)

PairRequests == \A p \in net : p.kind = "req" => Current(p) \/ Stale(p)

\* An answer is waited for.  There is one at a time, no request is on its way
\* in the other direction, and one in the same direction comes later.
PairAnswers ==
  \A p \in net : p.kind = "resp" =>
    /\ Waiting(p.dst) /\ cmd[p.dst].id = p.of
    /\ \A q \in net :
         /\ q.kind = "req" => q.src # p.dst /\ (q.src = p.src => p.id < q.id)
         /\ q.kind = "resp" /\ q.dst = p.dst => q = p

PairInv == TypeInv /\ PairIds /\ QuietInv /\ PairRequests /\ PairAnswers /\ AnswerIsOwn

LEMMA TwoNodes ==
  ASSUME Pair, NEW x \in Node, NEW y \in Node, NEW z \in Node, x # y, z # y
  PROVE  x = z
  BY DEF Pair

\* The facts the steps below share
LEMMA PairTypes ==
  ASSUME Pair, PairInv
  PROVE  /\ sent \in Nat /\ DOMAIN cmd = Node /\ DOMAIN ret = Node
         /\ \A p \in net : p.id \in Nat /\ p.src \in Node /\ p.dst \in Node /\ p.src # p.dst
                           /\ p.kind \in {"req", "resp", "short"}
         /\ \A x \in Node : Waiting(x) => cmd[x].id \in Nat
         /\ \A p, q \in net : /\ p.dst = q.dst <=> p.src = q.src
                              /\ p.dst = q.src <=> p.src = q.dst
                              /\ p.src # q.src => p.src = q.dst
PROOF
  <1>1. /\ sent \in Nat /\ DOMAIN cmd = Node /\ DOMAIN ret = Node
        /\ \A x \in Node : Waiting(x) => cmd[x].id \in Nat
    BY WaitingCalls DEF PairInv, TypeInv, TypeOK, Calls
  <1>2. \A p \in net : p.id \in Nat /\ p.src \in Node /\ p.dst \in Node /\ p.src # p.dst
                       /\ p.kind \in {"req", "resp", "short"}
    BY DEF PairInv, TypeInv, TypeOK, PairIds, Messages
  <1>3. \A p, q \in net : /\ p.dst = q.dst <=> p.src = q.src
                          /\ p.dst = q.src <=> p.src = q.dst
                          /\ p.src # q.src => p.src = q.dst
    BY <1>2, TwoNodes
  <1> QED
    BY <1>1, <1>2, <1>3

\* A node that gives a command does not wait, so that no answer is on its way to
\* it, and no request of the other node has come too late.
LEMMA SendRequestPair ==
  ASSUME Pair, PairInv, NEW n \in Caller, NEW c \in Commands, SendRequest(n, c)
  PROVE  PairIds' /\ QuietInv' /\ PairRequests' /\ PairAnswers' /\ AnswerIsOwn'
PROOF
  <1> DEFINE m == Message(sent + 1, n, c.to, "req", c, 0)
             k == [op |-> "call", id |-> sent + 1, command |-> c]
  <1>1. /\ m.kind = "req" /\ m.id = sent + 1 /\ m.src = n /\ m.dst = c.to
        /\ k.id = sent + 1 /\ k # None
    BY DEF Message, None
  <1>2. /\ net' \subseteq net \cup {m} /\ cmd' = [cmd EXCEPT ![n] = k] /\ ~Waiting(n)
        /\ sent' = sent + 1 /\ ret' = ret /\ n # c.to
    BY DEF SendRequest
  <1> HIDE DEF m, k
  <1>3. /\ sent \in Nat /\ DOMAIN cmd = Node /\ n \in Node
        /\ \A p \in net : p.id \in Nat /\ p.src \in Node /\ p.dst \in Node /\ p.src # p.dst
        /\ \A x \in Node : Waiting(x) => cmd[x].id \in Nat
    BY PairTypes DEF Node
  <1>4. /\ \A x \in Node : x # n => cmd'[x] = cmd[x] /\ (Waiting(x)' <=> Waiting(x))
        /\ cmd'[n] = k /\ Waiting(n)'
    BY <1>1, <1>2, <1>3 DEF Waiting
  <1>5. PairIds'
    <2>1. \A p \in net' : p.id <= sent' /\ p.src # p.dst /\ p.kind # "other"
      BY <1>1, <1>2, <1>3 DEF PairInv, PairIds
    <2>2. \A p, q \in net' : p.id = q.id => p = q
      BY <1>1, <1>2, <1>3 DEF PairInv, PairIds
    <2>3. \A x \in Node : Waiting(x)' => cmd'[x].id <= sent'
      BY <1>1, <1>2, <1>3, <1>4 DEF PairInv, PairIds
    <2> QED
      BY <2>1, <2>2, <2>3 DEF PairIds
  <1>6. \A p \in net : p.id <= k.id
    BY <1>1, <1>3 DEF PairInv, PairIds
  <1>7. QuietInv'
    BY <1>1, <1>2, <1>3, <1>4, <1>6 DEF PairInv, QuietInv
  <1>8. PairRequests'
    <2> SUFFICES ASSUME NEW p \in net', p.kind = "req" PROVE Current(p)' \/ Stale(p)'
      BY DEF PairRequests
    <2>1. CASE p = m
      BY <1>1, <1>4, <2>1 DEF Current
    <2>2. CASE p \in net /\ Current(p)
      BY <1>2, <1>3, <1>4, <2>2 DEF Current
    <2>3. CASE p \in net /\ Stale(p)
      <3>1. Waiting(p.dst) /\ p.dst # n
        BY <1>2, <2>3 DEF Stale
      <3>2. \A q \in net' : q.kind # "short" => q.src # p.dst /\ (q.src = p.src => p.id <= q.id)
        BY <1>1, <1>2, <1>6, <2>3, <3>1 DEF Stale
      <3> QED
        BY <1>3, <1>4, <2>3, <3>1, <3>2 DEF Stale
    <2> QED
      BY <1>2, <2>1, <2>2, <2>3 DEF PairInv, PairRequests
  <1>9. PairAnswers'
    <2> SUFFICES ASSUME NEW p \in net', p.kind = "resp"
                 PROVE  /\ Waiting(p.dst)' /\ cmd'[p.dst].id = p.of
                        /\ \A q \in net' :
                             /\ q.kind = "req" => q.src # p.dst /\ (q.src = p.src => p.id < q.id)
                             /\ q.kind = "resp" /\ q.dst = p.dst => q = p
      BY DEF PairAnswers
    <2>1. p \in net /\ Waiting(p.dst) /\ p.dst # n
      BY <1>1, <1>2 DEF PairInv, PairAnswers
    <2>2. p.id < m.id
      BY <1>1, <1>3, <2>1 DEF PairInv, PairIds
    <2>3. Waiting(p.dst)' /\ cmd'[p.dst].id = p.of
      BY <1>3, <1>4, <2>1 DEF PairInv, PairAnswers
    <2>4. \A q \in net' :
             /\ q.kind = "req" => q.src # p.dst /\ (q.src = p.src => p.id < q.id)
             /\ q.kind = "resp" /\ q.dst = p.dst => q = p
      BY <1>1, <1>2, <2>1, <2>2 DEF PairInv, PairAnswers
    <2> QED
      BY <2>3, <2>4
  <1>10. AnswerIsOwn'
    BY <1>2 DEF PairInv, AnswerIsOwn
  <1> QED
    BY <1>5, <1>7, <1>8, <1>9, <1>10

\* What a node receives that waits is the answer to its command, or a request of
\* the other node, which then waits too.  Its own request, when it has not been
\* received yet, is stale from now on.
LEMMA GetResponsePair ==
  ASSUME Pair, PairInv, NEW p \in net, GetResponse(p)
  PROVE  PairIds' /\ QuietInv' /\ PairRequests' /\ PairAnswers' /\ AnswerIsOwn'
PROOF
  <1> DEFINE n == p.dst
             m == p.src
  <1>1. /\ Waiting(n) /\ p.kind # "short" /\ net' = net \ {p} /\ sent' = sent
        /\ cmd' = [cmd EXCEPT ![n] = None]
        /\ ret' = [ret EXCEPT ![n] = [op |-> IF Accepts(cmd[n], p) THEN "returned" ELSE "failed",
                                      for |-> cmd[n], by |-> p]]
    BY DEF GetResponse
  <1>2. \A q \in net : q.src = m /\ q.dst = n => p.id <= q.id
    BY DEF GetResponse, Receive, Pair
  <1>3. /\ sent \in Nat /\ DOMAIN cmd = Node /\ DOMAIN ret = Node
        /\ n \in Node /\ m \in Node /\ n # m /\ p.kind \in {"req", "resp"}
        /\ \A x \in Node : Waiting(x) => cmd[x].id \in Nat
    BY <1>1, PairTypes
  <1>4. \A q \in net : /\ q.id \in Nat /\ q.src \in Node /\ q.dst \in Node
                       /\ (q.src = m /\ q.dst = n) \/ (q.src = n /\ q.dst = m)
                       /\ q.kind \in {"req", "resp", "short"}
    BY PairTypes
  <1>5. /\ \A x \in Node : x # n => cmd'[x] = cmd[x] /\ (Waiting(x)' <=> Waiting(x))
        /\ ~Waiting(n)'
    BY <1>1, <1>3 DEF Waiting
  <1>6. PairIds'
    BY <1>1, <1>5 DEF PairInv, PairIds
  <1>7. QuietInv'
    BY <1>1, <1>4, <1>5 DEF PairInv, QuietInv
  <1>8. \A q \in net : q.kind = "req" /\ q.src = n =>
          /\ Waiting(m)
          /\ \A r \in net : r.kind # "short" => (r.src = m => r = p) /\ (r.src = n => q.id <= r.id)
    <2> SUFFICES ASSUME NEW q \in net, q.kind = "req", q.src = n
                 PROVE  /\ Waiting(m)
                        /\ \A r \in net : r.kind # "short" =>
                             (r.src = m => r = p) /\ (r.src = n => q.id <= r.id)
      OBVIOUS
    <2>1. p.kind = "req"
      BY <1>3 DEF PairInv, PairAnswers
    <2>2. ~Stale(p) /\ ~Stale(q)
      BY <1>1, <1>4, <2>1 DEF Stale
    <2>3. Current(p) /\ Current(q)
      BY <2>1, <2>2 DEF PairInv, PairRequests
    <2>4. ASSUME NEW r \in net, r.kind # "short", r.src = m PROVE r = p
      <3>1. r.id <= p.id
        BY <2>3, <2>4 DEF Current, PairInv, QuietInv
      <3>2. p.id <= r.id
        BY <1>2, <1>3, <1>4, <2>4
      <3> QED
        BY <1>4, <3>1, <3>2 DEF PairInv, PairIds
    <2>5. ASSUME NEW r \in net, r.kind # "short", r.src = n PROVE q.id <= r.id
      <3>1. r.kind # "resp"
        BY <1>3, <1>4, <2>1, <2>5 DEF PairInv, PairAnswers
      <3>2. r.kind = "req" /\ ~Stale(r)
        BY <1>1, <1>4, <2>5, <3>1 DEF Stale
      <3>3. Current(r)
        BY <3>2 DEF PairInv, PairRequests
      <3> QED
        BY <1>3, <1>4, <2>3, <2>5, <3>3 DEF Current
    <2> QED
      BY <2>3, <2>4, <2>5 DEF Current
  <1>9. PairRequests'
    <2> SUFFICES ASSUME NEW q \in net', q.kind = "req" PROVE Current(q)' \/ Stale(q)'
      BY DEF PairRequests
    <2>1. q \in net /\ q # p
      BY <1>1
    <2>2. CASE q.src = n
      <3>1. Waiting(m)' /\ q.dst = m
        BY <1>3, <1>4, <1>5, <1>8, <2>1, <2>2
      <3>2. \A r \in net' : r.kind # "short" => r.src # m /\ (r.src = n => q.id <= r.id)
        BY <1>1, <1>8, <2>1, <2>2
      <3> QED
        BY <2>2, <3>1, <3>2 DEF Stale
    <2>3. CASE q.src = m
      <3>1. q.dst = n
        BY <1>3, <1>4, <2>1, <2>3
      <3>2. ~Stale(q)
        <4>1. p.id <= q.id
          BY <1>2, <2>1, <2>3, <3>1
        <4>2. p.id # q.id
          BY <2>1 DEF PairInv, PairIds
        <4> QED
          BY <1>1, <1>4, <2>1, <2>3, <4>1, <4>2 DEF Stale
      <3>3. Current(q)
        BY <2>1, <3>2 DEF PairInv, PairRequests
      <3> QED
        BY <1>3, <1>5, <2>3, <3>3 DEF Current
    <2> QED
      BY <1>4, <2>1, <2>2, <2>3
  <1>10. PairAnswers'
    <2> SUFFICES ASSUME NEW q \in net', q.kind = "resp"
                 PROVE  /\ Waiting(q.dst)' /\ cmd'[q.dst].id = q.of
                        /\ \A r \in net' :
                             /\ r.kind = "req" => r.src # q.dst /\ (r.src = q.src => q.id < r.id)
                             /\ r.kind = "resp" /\ r.dst = q.dst => r = q
      BY DEF PairAnswers
    <2>1. q \in net /\ q # p
      BY <1>1
    <2>2. q.dst # n
      <3> SUFFICES ASSUME q.dst = n PROVE FALSE
        OBVIOUS
      <3>1. q.src = m
        BY <1>3, <1>4, <2>1
      <3>2. p.kind = "req"
        BY <1>3, <2>1 DEF PairInv, PairAnswers
      <3>3. q.id < p.id
        BY <2>1, <3>1, <3>2 DEF PairInv, PairAnswers
      <3>4. p.id <= q.id
        BY <1>2, <2>1, <3>1
      <3> QED
        BY <1>4, <2>1, <3>3, <3>4
    <2>3. Waiting(q.dst)' /\ cmd'[q.dst].id = q.of
      BY <1>4, <1>5, <2>1, <2>2 DEF PairInv, PairAnswers
    <2>4. \A r \in net' :
             /\ r.kind = "req" => r.src # q.dst /\ (r.src = q.src => q.id < r.id)
             /\ r.kind = "resp" /\ r.dst = q.dst => r = q
      BY <1>1, <2>1 DEF PairInv, PairAnswers
    <2> QED
      BY <2>3, <2>4
  <1>11. AnswerIsOwn'
    <2>1. ret'[n].op = "returned" => p.kind = "resp"
      BY <1>1, <1>3 DEF Accepts
    <2>2. p.kind = "resp" => cmd[n].id = p.of
      BY DEF PairInv, PairAnswers
    <2>3. ret'[n].by = p /\ ret'[n].for = cmd[n]
      BY <1>1, <1>3
    <2>4. \A x \in Node : x # n => ret'[x] = ret[x]
      BY <1>1, <1>3
    <2>5. AnswerIsOwn
      BY DEF PairInv
    <2> QED
      BY <2>1, <2>2, <2>3, <2>4, <2>5 DEF AnswerIsOwn
  <1> QED
    BY <1>6, <1>7, <1>9, <1>10, <1>11

\* A request that is served is the one its sender waits for, and the only one on
\* its way; there is no answer either.
LEMMA ServePair ==
  ASSUME Pair, PairInv, NEW p \in net, Serve(p)
  PROVE  PairIds' /\ QuietInv' /\ PairRequests' /\ PairAnswers' /\ AnswerIsOwn'
PROOF
  <1> DEFINE t == p.dst
             s == p.src
             m == Message(sent + 1, t, Sender(p), "resp", AnswerTo(t, p.body), p.id)
  <1>1. /\ p.kind = "req" /\ ~Waiting(t)
        /\ net' \subseteq (net \ {p}) \cup {m} /\ cmd' = cmd /\ ret' = ret /\ sent' = sent + 1
    BY DEF Serve
  <1>2. m.kind = "resp" /\ m.id = sent + 1 /\ m.src = t /\ m.dst = s /\ m.of = p.id
    BY DEF Message, Sender
  <1> HIDE DEF m
  <1>3. /\ sent \in Nat /\ t \in Node /\ s \in Node /\ t # s
        /\ \A x \in Node : Waiting(x) => cmd[x].id \in Nat
    BY PairTypes
  <1>4. \A q \in net : /\ q.id \in Nat
                       /\ (q.src = s /\ q.dst = t) \/ (q.src = t /\ q.dst = s)
                       /\ q.kind \in {"req", "resp", "short"}
    BY PairTypes
  <1>5. Current(p)
    BY <1>1 DEF Stale, PairInv, PairRequests
  <1>6. \A q \in net : q.kind = "req" => q = p
    <2> SUFFICES ASSUME NEW q \in net, q.kind = "req" PROVE q = p
      OBVIOUS
    <2>1. CASE q.src = s
      <3>1. Current(q)
        BY <1>1, <1>3, <1>4, <2>1 DEF Stale, PairInv, PairRequests
      <3> QED
        BY <1>5, <2>1, <3>1 DEF Current, PairInv, PairIds
    <2>2. CASE q.src = t
      <3>1. ~Current(q)
        BY <1>1, <2>2 DEF Current
      <3>2. ~Stale(q)
        BY <1>1, <1>3, <1>4, <2>2 DEF Stale
      <3> QED
        BY <3>1, <3>2 DEF PairInv, PairRequests
    <2> QED
      BY <1>4, <2>1, <2>2
  <1>7. \A q \in net : q.kind # "resp"
    <2> SUFFICES ASSUME NEW q \in net, q.kind = "resp" PROVE FALSE
      OBVIOUS
    <2>1. q.dst = s
      BY <1>1, <1>4 DEF PairInv, PairAnswers
    <2> QED
      BY <1>1, <2>1 DEF PairInv, PairAnswers
  <1>8. \A q \in net' : q.kind # "short" => q = m
    BY <1>1, <1>4, <1>6, <1>7
  <1>9. PairIds'
    <2>1. \A q \in net' : q.id <= sent' /\ q.src # q.dst /\ q.kind # "other"
      BY <1>1, <1>2, <1>3, <1>4 DEF PairInv, PairIds
    <2>2. \A q, r \in net' : q.id = r.id => q = r
      BY <1>1, <1>2, <1>3, <1>4 DEF PairInv, PairIds
    <2>3. \A x \in Node : Waiting(x)' => cmd'[x].id <= sent'
      BY <1>1, <1>3 DEF PairInv, PairIds, Waiting
    <2> QED
      BY <2>1, <2>2, <2>3 DEF PairIds
  <1>10. QuietInv'
    BY <1>1, <1>2, <1>8 DEF QuietInv, Waiting
  <1>11. PairRequests'
    BY <1>2, <1>8 DEF PairRequests
  <1>12. PairAnswers'
    BY <1>1, <1>2, <1>5, <1>8 DEF PairAnswers, Current, Waiting
  <1>13. AnswerIsOwn'
    BY <1>1 DEF PairInv, AnswerIsOwn
  <1> QED
    BY <1>9, <1>10, <1>11, <1>12, <1>13

LEMMA SendOtherPair ==
  ASSUME Pair, PairInv, NEW n \in Node, NEW d \in Node, SendOther(n, d)
  PROVE  PairIds' /\ QuietInv' /\ PairRequests' /\ PairAnswers' /\ AnswerIsOwn'
PROOF
  <1> DEFINE m == Message(sent + 1, n, d, "short", None, 0)
  <1>1. /\ net' = net \cup {m} /\ n # d
        /\ sent' = sent + 1 /\ UNCHANGED <<cmd, ret>>
    BY DEF SendOther, Pair
  <1>2. m.kind = "short" /\ m.id = sent + 1 /\ m.src = n /\ m.dst = d
    BY DEF Message
  <1> HIDE DEF m
  <1>3. /\ sent \in Nat
        /\ \A q \in net : q.id \in Nat
        /\ \A x \in Node : Waiting(x) => cmd[x].id \in Nat
    BY PairTypes
  <1>4. PairIds'
    <2>1. \A q \in net' : q.id <= sent' /\ q.src # q.dst /\ q.kind # "other"
      BY <1>1, <1>2, <1>3 DEF PairInv, PairIds
    <2>2. \A q, r \in net' : q.id = r.id => q = r
      BY <1>1, <1>2, <1>3 DEF PairInv, PairIds
    <2>3. \A x \in Node : Waiting(x)' => cmd'[x].id <= sent'
      BY <1>1, <1>3 DEF PairInv, PairIds, Waiting
    <2> QED
      BY <2>1, <2>2, <2>3 DEF PairIds
  <1>5. \A q \in net' : q.kind # "short" => q \in net
    BY <1>1, <1>2
  <1>6. QuietInv' /\ PairRequests'
    BY <1>1, <1>5 DEF PairInv, QuietInv, PairRequests, Current, Stale, Waiting
  <1>7. PairAnswers' /\ AnswerIsOwn'
    BY <1>1, <1>5 DEF PairInv, PairAnswers, Waiting, AnswerIsOwn
  <1> QED
    BY <1>4, <1>6, <1>7

LEMMA PairKept ==
  ASSUME Pair, PairInv, [Next]_vars
  PROVE  PairInv'
PROOF
  <1>1. TypeInv'
    BY TypeKept DEF PairInv
  <1>2. ASSUME net' \subseteq net, UNCHANGED <<cmd, ret, sent>> PROVE PairInv'
    <2>1. PairIds' /\ QuietInv' /\ AnswerIsOwn'
      BY <1>2 DEF PairInv, PairIds, QuietInv, AnswerIsOwn, Waiting
    <2>2. PairRequests'
      BY <1>2 DEF PairInv, PairRequests, Current, Stale, Waiting
    <2>3. PairAnswers'
      BY <1>2 DEF PairInv, PairAnswers, Waiting
    <2> QED
      BY <1>1, <2>1, <2>2, <2>3 DEF PairInv
  <1>3. CASE UNCHANGED vars
    BY <1>2, <1>3 DEF vars
  <1>4. ASSUME NEW n \in Caller, NEW c \in Commands, SendRequest(n, c) PROVE PairInv'
    BY <1>1, <1>4, SendRequestPair DEF PairInv
  <1>5. ASSUME NEW p \in net, GetResponse(p) PROVE PairInv'
    BY <1>1, <1>5, GetResponsePair DEF PairInv
  <1>6. ASSUME NEW p \in net, Serve(p) PROVE PairInv'
    BY <1>1, <1>6, ServePair DEF PairInv
  <1>7. ASSUME NEW n \in Node, NEW d \in Node, SendOther(n, d) PROVE PairInv'
    BY <1>1, <1>7, SendOtherPair DEF PairInv
  <1>8. CASE \E p \in net : SkipShort(p) \/ Drop(p) \/ HandleShort(p) \/ Lose(p)
    BY <1>2, <1>8 DEF SkipShort, Drop, HandleShort, Lose
  <1>9. ~\E n \in Node : Restart(n)
    BY DEF Restart, Pair
  <1> QED
    BY <1>3, <1>4, <1>5, <1>6, <1>7, <1>8, <1>9 DEF Next

LEMMA PairAtInit == Init => PairInv
  BY TypeAtInit DEF Init, PairInv, PairIds, QuietInv, PairRequests, PairAnswers, Waiting,
                    AnswerIsOwn, None

\* Between two nodes that both call and are called, for any number of messages,
\* lost or short ones among them: a command that fails because the other node's
\* request came instead of its answer leaves no answer behind for the next.
THEOREM AnswerIsOwnPair == ASSUME Pair PROVE Spec => []AnswerIsOwn
PROOF
  <1>1. PairInv => AnswerIsOwn
    BY DEF PairInv
  <1> QED
    BY <1>1, PairAtInit, PairKept, PTL DEF Spec
=============================================================================
