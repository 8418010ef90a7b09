-------------------------- MODULE XroeCommsProofs --------------------------
(***************************************************************************)
(* Theorems about XroeComms, for any clients, commands and eCPRI messages, *)
(* and any number of connections.                                          *)
(***************************************************************************)
EXTENDS XroeComms, TLAPS

-----------------------------------------------------------------------------
(* The connections that wait to be accepted *)

LEMMA RangeAppend ==
  ASSUME NEW S, NEW s \in Seq(S), NEW e \in S
  PROVE  Append(s, e) \in Seq(S) /\ Range(Append(s, e)) = Range(s) \cup {e}
PROOF
  <1>1. Append(s, e) \in Seq(S)
    OBVIOUS
  <1>2. \A i \in DOMAIN s : i \in DOMAIN Append(s, e) /\ Append(s, e)[i] = s[i]
    OBVIOUS
  <1>3. Len(s) + 1 \in DOMAIN Append(s, e) /\ Append(s, e)[Len(s) + 1] = e
    OBVIOUS
  <1>4. \A i \in DOMAIN Append(s, e) : i \in DOMAIN s \/ i = Len(s) + 1
    OBVIOUS
  <1> QED
    BY <1>1, <1>2, <1>3, <1>4 DEF Range

LEMMA RangeTail ==
  ASSUME NEW S, NEW s \in Seq(S), s # <<>>
  PROVE  /\ Head(s) \in S /\ Tail(s) \in Seq(S)
         /\ Range(s) = {Head(s)} \cup Range(Tail(s))
PROOF
  <1>1. Head(s) \in S /\ Tail(s) \in Seq(S)
    OBVIOUS
  <1>2. \A i \in DOMAIN Tail(s) : i + 1 \in DOMAIN s /\ Tail(s)[i] = s[i + 1]
    OBVIOUS
  <1>3. 1 \in DOMAIN s /\ Head(s) = s[1]
    OBVIOUS
  <1>4. \A i \in DOMAIN s : i = 1 \/ (i - 1 \in DOMAIN Tail(s) /\ Tail(s)[i - 1] = s[i])
    OBVIOUS
  <1>5. Range(s) \subseteq {Head(s)} \cup Range(Tail(s))
    BY <1>3, <1>4 DEF Range
  <1>6. Head(s) \in Range(s)
    BY <1>3 DEF Range
  <1>7. Range(Tail(s)) \subseteq Range(s)
    BY <1>2 DEF Range
  <1> QED
    BY <1>1, <1>5, <1>6, <1>7

LEMMA SeqEmpty == ASSUME NEW S PROVE <<>> \in Seq(S)
  OBVIOUS

-----------------------------------------------------------------------------
(* The invariant *)

\* What a client has written goes with what it is doing: "waiting" is waiting
\* for the answer to a word, and a remote command is the word of the client that
\* is served.
WordsInv ==
  /\ \A c \in Client :
       /\ client[c] \in {"away", "connected"} => text[c] = ""
       /\ client[c] = "waiting" => text[c] # ""
  /\ daemon = "remote" => text[newsockfd] # ""

CommsInv == TypeOK /\ WordsInv /\ NoClientForgotten /\ OnlyWordlessLeak

-----------------------------------------------------------------------------
(* The clients *)

LEMMA ConnectInv ==
  ASSUME CommsInv, NEW c \in Client, Connect(c)
  PROVE  CommsInv'
PROOF
  <1>1. /\ unix' \in Seq(UnixClient) /\ tcp' \in Seq(TcpClient)
        /\ Accepting' = Accepting \cup {c}
    <2>0. unix \in Seq(UnixClient) /\ tcp \in Seq(TcpClient)
      BY DEF CommsInv, TypeOK
    <2>1. CASE c \in UnixClient
      <3>1. unix' = Append(unix, c) /\ tcp' = tcp
        BY <2>1, ClientAssumption DEF Connect
      <3>2. Append(unix, c) \in Seq(UnixClient) /\ Range(Append(unix, c)) = Range(unix) \cup {c}
        BY <2>0, <2>1, RangeAppend
      <3> QED
        BY <2>0, <3>1, <3>2 DEF Accepting
    <2>2. CASE c \in TcpClient
      <3>1. unix' = unix /\ tcp' = Append(tcp, c)
        BY <2>2, ClientAssumption DEF Connect
      <3>2. Append(tcp, c) \in Seq(TcpClient) /\ Range(Append(tcp, c)) = Range(tcp) \cup {c}
        BY <2>0, <2>2, RangeAppend
      <3> QED
        BY <2>0, <3>1, <3>2 DEF Accepting
    <2> QED
      BY <2>1, <2>2 DEF Client
  <1>2. Serving' = Serving
    BY DEF Connect, Serving
  <1> HIDE DEF Accepting
  <1>3. TypeOK'
    BY <1>1 DEF Connect, CommsInv, TypeOK, ClientStates
  <1>4. WordsInv'
    BY DEF Connect, CommsInv, TypeOK, WordsInv
  <1>5. NoClientForgotten'
    BY <1>1, <1>2 DEF Connect, CommsInv, TypeOK, NoClientForgotten
  <1>6. OnlyWordlessLeak'
    BY <1>2 DEF Connect, CommsInv, TypeOK, OnlyWordlessLeak
  <1> QED
    BY <1>3, <1>4, <1>5, <1>6 DEF CommsInv

\* A client that writes or leaves is one the daemon has not forgotten, and not
\* one of those whose connection leaks.
LEMMA WriteInv ==
  ASSUME CommsInv, NEW c \in Client, NEW t \in Texts, Write(c, t)
  PROVE  CommsInv'
PROOF
  <1>1. Serving' = Serving /\ Accepting' = Accepting
    BY DEF Write, Serving, Accepting
  <1>2. t # ""
    BY TextsAssumption DEF AllTexts
  <1>3. TypeOK'
    BY DEF Write, CommsInv, TypeOK, ClientStates
  <1>4. WordsInv'
    BY <1>2 DEF Write, CommsInv, TypeOK, WordsInv
  <1>5. NoClientForgotten'
    BY <1>1 DEF Write, CommsInv, TypeOK, NoClientForgotten
  <1>6. OnlyWordlessLeak'
    BY <1>1 DEF Write, CommsInv, TypeOK, OnlyWordlessLeak
  <1> QED
    BY <1>3, <1>4, <1>5, <1>6 DEF CommsInv

LEMMA LeaveInv ==
  ASSUME CommsInv, NEW c \in Client, Leave(c)
  PROVE  CommsInv'
PROOF
  <1>1. Serving' = Serving /\ Accepting' = Accepting
    BY DEF Leave, Serving, Accepting
  <1>2. TypeOK'
    BY DEF Leave, CommsInv, TypeOK, ClientStates
  <1>3. WordsInv'
    BY DEF Leave, CommsInv, TypeOK, WordsInv
  <1>4. NoClientForgotten'
    BY <1>1 DEF Leave, CommsInv, TypeOK, NoClientForgotten
  <1>5. OnlyWordlessLeak'
    BY <1>1 DEF Leave, CommsInv, TypeOK, OnlyWordlessLeak
  <1> QED
    BY <1>2, <1>3, <1>4, <1>5 DEF CommsInv

LEMMA AgainInv ==
  ASSUME CommsInv, NEW c \in Client, Again(c)
  PROVE  CommsInv'
PROOF
  <1>1. Serving' = Serving /\ Accepting' = Accepting
    BY DEF Again, Serving, Accepting
  <1>2. TypeOK'
    BY DEF Again, CommsInv, TypeOK, ClientStates
  <1>3. WordsInv'
    BY DEF Again, CommsInv, TypeOK, WordsInv
  <1>4. NoClientForgotten'
    BY <1>1 DEF Again, CommsInv, TypeOK, NoClientForgotten
  \* The connection of a client that is gone does not leak any more, and only
  \* such clients have leaked.
  <1>5. OnlyWordlessLeak'
    BY <1>1 DEF Again, CommsInv, TypeOK, OnlyWordlessLeak
  <1> QED
    BY <1>2, <1>3, <1>4, <1>5 DEF CommsInv

-----------------------------------------------------------------------------
(* The daemon *)

\* At its end nobody is left waiting, and no connection is left.
LEMMA GoDownInv ==
  ASSUME CommsInv, GoDown, newsockfd' = newsockfd, text' = text
  PROVE  CommsInv'
PROOF
  <1>1. /\ unix' = <<>> /\ tcp' = <<>> /\ ecpri' = <<>> /\ open' = {} /\ daemon' = "down"
        /\ \A c \in Client : client'[c] = IF client[c] \in {"connected", "waiting"}
                                          THEN "refused" ELSE client[c]
        /\ client' \in [Client -> ClientStates]
    BY DEF GoDown, CommsInv, TypeOK, ClientStates
  <1>0. unix' \in Seq(UnixClient) /\ tcp' \in Seq(TcpClient) /\ ecpri' \in Seq(EcpriKinds)
    BY <1>1, SeqEmpty
  <1>2. TypeOK'
    BY <1>0, <1>1 DEF CommsInv, TypeOK
  <1>3. WordsInv'
    BY <1>1 DEF CommsInv, WordsInv
  <1>4. NoClientForgotten' /\ OnlyWordlessLeak'
    BY <1>1 DEF NoClientForgotten, OnlyWordlessLeak
  <1> QED
    BY <1>2, <1>3, <1>4 DEF CommsInv

\* Accepting is done between two commands, when the daemon serves nobody.
LEMMA AcceptInv ==
  ASSUME CommsInv, AcceptUnix \/ AcceptTcp
  PROVE  CommsInv'
PROOF
  <1>1. PICK c \in Client : Accept(c) /\ Accepting = {c} \cup Accepting'
                            /\ unix' \in Seq(UnixClient) /\ tcp' \in Seq(TcpClient)
    <2>1. CASE AcceptUnix
      <3>1. unix # <<>>
        BY <2>1 DEF AcceptUnix, Polled, FirstReady
      <3>2. Head(unix) \in UnixClient /\ Tail(unix) \in Seq(UnixClient)
            /\ Range(unix) = {Head(unix)} \cup Range(Tail(unix))
        BY <3>1, RangeTail DEF CommsInv, TypeOK
      <3> QED
        BY <2>1, <3>2 DEF AcceptUnix, Accepting, Client, CommsInv, TypeOK
    <2>2. CASE AcceptTcp
      <3>1. tcp # <<>>
        BY <2>2 DEF AcceptTcp, Polled, FirstReady
      <3>2. Head(tcp) \in TcpClient /\ Tail(tcp) \in Seq(TcpClient)
            /\ Range(tcp) = {Head(tcp)} \cup Range(Tail(tcp))
        BY <3>1, RangeTail DEF CommsInv, TypeOK
      <3> QED
        BY <2>2, <3>2 DEF AcceptTcp, Accepting, Client, CommsInv, TypeOK
    <2> QED
      BY <2>1, <2>2
  <1>2. Serving = {} /\ Serving' = {c}
    BY <1>1 DEF AcceptUnix, AcceptTcp, Polled, Accept, Serving
  <1>3. TypeOK'
    BY <1>1 DEF Accept, CommsInv, TypeOK
  <1>4. WordsInv'
    BY <1>1 DEF Accept, CommsInv, WordsInv
  <1>5. NoClientForgotten'
    BY <1>1, <1>2 DEF Accept, CommsInv, NoClientForgotten
  <1>6. OnlyWordlessLeak'
    BY <1>1, <1>2 DEF Accept, CommsInv, OnlyWordlessLeak
  <1> QED
    BY <1>3, <1>4, <1>5, <1>6 DEF CommsInv

\* The client that was served has left without a word.
LEMMA ReadNothingInv ==
  ASSUME CommsInv, ReadNothing
  PROVE  CommsInv'
PROOF
  <1>1. Serving = {newsockfd} /\ Serving' = {} /\ Accepting' = Accepting
    BY DEF ReadNothing, Serving, Accepting
  <1>2. TypeOK'
    BY DEF ReadNothing, CommsInv, TypeOK
  <1>3. WordsInv'
    BY DEF ReadNothing, CommsInv, WordsInv
  <1>4. NoClientForgotten'
    BY <1>1 DEF ReadNothing, CommsInv, NoClientForgotten
  <1>5. OnlyWordlessLeak'
    BY <1>1 DEF ReadNothing, CommsInv, OnlyWordlessLeak
  <1> QED
    BY <1>2, <1>3, <1>4, <1>5 DEF CommsInv

\* The answer to a command ends the service of the client that wrote it; the
\* one to no command can only go to a connection that has leaked.
LEMMA SendResponseInv ==
  ASSUME CommsInv, NEW rest \in Seq(EcpriKinds), SendResponse(rest),
         daemon \in {"read", "remote"} => text[newsockfd] # "",
         newsockfd' = newsockfd, text' = text
  PROVE  CommsInv'
PROOF
  <1>1. CASE GoDown
    BY <1>1, GoDownInv
  <1>2. CASE ~GoDown
    <2>1. /\ open' = open \ {newsockfd} /\ daemon' = "poll" /\ ecpri' = rest
          /\ unix' = unix /\ tcp' = tcp
          /\ client' = [c \in Client |-> IF c = newsockfd /\ c \in open /\ client[c] = "waiting"
                                         THEN "answered" ELSE client[c]]
      BY <1>2 DEF SendResponse
    <2>2. /\ Serving' = {} /\ Accepting' = Accepting
          /\ daemon \in {"read", "remote"} => Serving = {newsockfd} /\ newsockfd \in open
          /\ daemon \notin {"read", "remote"} => Serving = {}
      BY <2>1 DEF Serving, Accepting, CommsInv, TypeOK
    <2>3. TypeOK'
      BY <2>1 DEF CommsInv, TypeOK, ClientStates
    <2>4. WordsInv'
      BY <2>1 DEF CommsInv, WordsInv
    <2>5. NoClientForgotten'
      BY <2>1, <2>2 DEF CommsInv, NoClientForgotten, WordsInv
    <2>6. OnlyWordlessLeak'
      BY <2>1, <2>2 DEF CommsInv, TypeOK, OnlyWordlessLeak
    <2> QED
      BY <2>3, <2>4, <2>5, <2>6 DEF CommsInv
  <1> QED
    BY <1>1, <1>2

\* Steps that change neither clients nor connections
LEMMA QuietInv ==
  ASSUME CommsInv, UNCHANGED <<open, unix, tcp, client, text>>,
         ecpri' \in Seq(EcpriKinds), daemon' = daemon, newsockfd' = newsockfd
  PROVE  CommsInv'
PROOF
  <1>1. Serving' = Serving /\ Accepting' = Accepting
    BY DEF Serving, Accepting
  <1>2. TypeOK'
    BY DEF CommsInv, TypeOK
  <1> QED
    BY <1>1, <1>2 DEF CommsInv, WordsInv, NoClientForgotten, OnlyWordlessLeak

\* A daemon that is started holds the connection to the log, and nobody is left
\* of the one before it.
LEMMA StartInv ==
  ASSUME CommsInv, Start
  PROVE  CommsInv'
PROOF
  <1>1. Serving = {} /\ Serving' = {} /\ Accepting' = Accepting
    BY DEF Start, Serving, Accepting
  <1>2. open' \cap Client = {}
    BY Fd0Assumption DEF Start, Client
  <1>3. TypeOK'
    BY DEF Start, CommsInv, TypeOK
  <1>4. WordsInv'
    BY DEF Start, CommsInv, WordsInv
  <1>5. NoClientForgotten'
    BY <1>1 DEF Start, CommsInv, NoClientForgotten
  <1>6. OnlyWordlessLeak'
    BY <1>2 DEF OnlyWordlessLeak
  <1> QED
    BY <1>3, <1>4, <1>5, <1>6 DEF CommsInv

\* While a remote command waits, its client is still the one that is served.
LEMMA SendRequestInv ==
  ASSUME CommsInv, SendRequest
  PROVE  CommsInv'
PROOF
  <1>1. newsockfd \in Client /\ text[newsockfd] = "remote"
    BY DEF SendRequest, CommsInv, TypeOK
  <1>2. Serving' = Serving /\ Accepting' = Accepting
    BY DEF SendRequest, Serving, Accepting
  <1>3. TypeOK'
    BY <1>1 DEF SendRequest, CommsInv, TypeOK
  <1>4. WordsInv'
    BY <1>1 DEF SendRequest, CommsInv, WordsInv
  <1>5. NoClientForgotten' /\ OnlyWordlessLeak'
    BY <1>2 DEF SendRequest, CommsInv, NoClientForgotten, OnlyWordlessLeak
  <1> QED
    BY <1>3, <1>4, <1>5 DEF CommsInv

LEMMA GetResponseInv ==
  ASSUME CommsInv, GetResponse
  PROVE  CommsInv'
PROOF
  <1>1. ecpri \in Seq(EcpriKinds) /\ ecpri # <<>>
    BY DEF GetResponse, CommsInv, TypeOK
  <1>2. Tail(ecpri) \in Seq(EcpriKinds)
    BY <1>1, RangeTail
  <1>3. newsockfd' = newsockfd /\ text' = text
    BY DEF GetResponse, CommsInv, TypeOK
  <1>4. daemon = "remote" /\ text[newsockfd] # ""
    BY DEF GetResponse, CommsInv, WordsInv
  <1>5. CASE Head(ecpri) = "alien"
    BY <1>2, <1>3, <1>5, QuietInv DEF GetResponse, CommsInv, TypeOK
  <1>6. CASE Head(ecpri) # "alien"
    BY <1>2, <1>3, <1>4, <1>6, SendResponseInv DEF GetResponse
  <1> QED
    BY <1>5, <1>6

LEMMA CommsKept ==
  ASSUME CommsInv, [Next]_vars
  PROVE  CommsInv'
PROOF
  <1>0. TypeOK
    BY DEF CommsInv
  <1>1. ASSUME NEW c \in Client, Connect(c) \/ Leave(c) \/ Again(c) \/ \E t \in Texts : Write(c, t)
        PROVE  CommsInv'
    BY <1>1, ConnectInv, LeaveInv, AgainInv, WriteInv
  <1>2. ASSUME NEW k \in EcpriKinds, Arrive(k) PROVE CommsInv'
    <2>0. ecpri \in Seq(EcpriKinds) /\ ecpri' = Append(ecpri, k)
      BY <1>0, <1>2 DEF Arrive, TypeOK
    <2>1. ecpri' \in Seq(EcpriKinds)
      BY <2>0
    <2> QED
      BY <1>0, <1>2, <2>1, QuietInv DEF Arrive, TypeOK
  <1>3. CASE AcceptUnix \/ AcceptTcp
    BY <1>3, AcceptInv
  <1>4. CASE AcceptFails \/ ReadFails
    BY <1>0, <1>4, GoDownInv DEF AcceptFails, ReadFails, TypeOK
  <1>5. CASE ReadNothing
    BY <1>5, ReadNothingInv
  <1>6. CASE RunCommand
    <2>1. newsockfd \in Client
      BY <1>0, <1>6 DEF RunCommand, TypeOK
    <2>2. /\ newsockfd' = newsockfd /\ text' = text
          /\ ecpri \in Seq(EcpriKinds) /\ text[newsockfd] # ""
          /\ GoDown \/ SendResponse(ecpri)
      BY <1>0, <1>6, <2>1 DEF RunCommand, TypeOK
    <2> QED
      BY <2>2, GoDownInv, SendResponseInv
  <1>7. CASE HandleMessage
    <2>1. ecpri # <<>>
      BY <1>7 DEF HandleMessage, MayHandle, Polled, FirstReady
    <2>2. ecpri \in Seq(EcpriKinds) /\ ecpri' = Tail(ecpri)
      BY <1>0, <1>7 DEF HandleMessage, TypeOK
    <2>3. ecpri' \in Seq(EcpriKinds)
      BY <2>1, <2>2, RangeTail
    <2> QED
      BY <1>0, <1>7, <2>3, QuietInv DEF HandleMessage, TypeOK
  <1>8. CASE HandleShort
    BY <1>0, <1>8, GoDownInv DEF HandleShort, TypeOK
  <1>9. CASE HandleRefused
    <2>1. ecpri # <<>> /\ daemon = "poll"
      BY <1>9 DEF HandleRefused, MayHandle, Polled, FirstReady
    <2>0. ecpri \in Seq(EcpriKinds)
      BY <1>0 DEF TypeOK
    <2>2. Tail(ecpri) \in Seq(EcpriKinds)
      BY <2>0, <2>1, RangeTail
    <2> QED
      BY <1>9, <2>1, <2>2, SendResponseInv DEF HandleRefused
  <1>10. CASE Start
    BY <1>10, StartInv
  <1>11. CASE UNCHANGED vars
    BY <1>0, <1>11, QuietInv DEF vars, TypeOK
  <1>12. CASE SendRequest
    BY <1>12, SendRequestInv
  <1>13. CASE GetResponse
    BY <1>13, GetResponseInv
  <1> QED
    BY <1>1, <1>2, <1>3, <1>4, <1>5, <1>6, <1>7, <1>8, <1>9, <1>10, <1>11, <1>12, <1>13 DEF Next

LEMMA CommsAtInit == Init => CommsInv
PROOF
  <1> SUFFICES ASSUME Init PROVE CommsInv
    OBVIOUS
  <1>1. unix \in Seq(UnixClient) /\ tcp \in Seq(TcpClient) /\ ecpri \in Seq(EcpriKinds)
    BY SeqEmpty DEF Init
  <1>2. TypeOK
    BY <1>1 DEF Init, TypeOK, ClientStates
  <1>3. open \cap Client = {}
    BY Fd0Assumption DEF Init, Client
  <1>4. WordsInv /\ NoClientForgotten /\ OnlyWordlessLeak
    BY <1>3 DEF Init, WordsInv, NoClientForgotten, OnlyWordlessLeak
  <1> QED
    BY <1>2, <1>4 DEF CommsInv

LEMMA CommsAlways == Spec => []CommsInv
  BY CommsAtInit, CommsKept, PTL DEF Spec

\* Everything keeps its type, and the daemon never reads from a connection it
\* does not hold.
THEOREM TypeCorrect == Spec => []TypeOK
PROOF
  <1>1. CommsInv => TypeOK
    BY DEF CommsInv
  <1> QED
    BY <1>1, CommsAlways, PTL

\* Whatever commands, failures and eCPRI messages end or do not end the daemon:
\* a client that is connected is served or waits to be accepted.
THEOREM NobodyForgotten == Spec => []NoClientForgotten
PROOF
  <1>1. CommsInv => NoClientForgotten
    BY DEF CommsInv
  <1> QED
    BY <1>1, CommsAlways, PTL

\* The only connections of clients that leak are those of clients that left without a word.
THEOREM LeaksAreWordless == Spec => []OnlyWordlessLeak
PROOF
  <1>1. CommsInv => OnlyWordlessLeak
    BY DEF CommsInv
  <1> QED
    BY <1>1, CommsAlways, PTL
=============================================================================
