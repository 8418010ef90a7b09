----------------------------- MODULE XroeComms -----------------------------
(***************************************************************************)
(* The main loop of the xroe-app daemon and its connections                *)
(* (xroe-app/xroe-app.c main, comms.c, parser.c, client.c).                *)
(*                                                                         *)
(* One thread polls a UNIX socket, a TCP socket and the eCPRI socket, in   *)
(* this order of preference.  It accepts a connection, blocks until its    *)
(* client writes a command or goes away, runs the command and answers on   *)
(* newsockfd, the one variable that names a connection.  A command to      *)
(* another node polls the eCPRI socket without a timeout: what it polls    *)
(* for is the subject of EcpriRma, here it is any eCPRI message.           *)
(***************************************************************************)
EXTENDS Integers, Sequences, FiniteSets, SequencesExt

CONSTANTS
  UnixClient,   \* the clients that connect to the UNIX socket
  TcpClient,    \* the clients that connect to the TCP socket
  Fd0,          \* descriptor 0, which newsockfd names before the first connection:
                \* of a daemon it is the connection to the log
  Texts,        \* the commands clients write, a subset of AllTexts
  EcpriKinds,   \* the eCPRI messages that arrive, a subset of AllEcpriKinds
  FdLimit,      \* how many connections the daemon may hold, the log's included
  MaxEcpri      \* bound: eCPRI messages in the receive buffer at a time

\* "remote" stands for the commands that wait for another node, "help" for every
\* other one but "quit": the modules' functions look at no handler's return value,
\* and none returns less than 0.
AllTexts == {"help", "remote", "quit"}

(***************************************************************************)
(* "handled"  the handler returns 0                                        *)
(* "refused"  a remote write when the device cannot be opened, or of no    *)
(*            bytes: the handler returns the EIO or EFAULT of              *)
(*            IP_API_Write, a positive number                              *)
(* "short"    an OWDM message that is too short: the handler returns -1    *)
(* "alien"    no eCPRI message: type and buffer are used as they are, and  *)
(*            the handler returns 0 or -1, or the daemon dies              *)
(***************************************************************************)
AllEcpriKinds == {"handled", "refused", "short", "alien"}

ASSUME Fd0Assumption    == Fd0 \notin UnixClient \cup TcpClient
ASSUME ClientAssumption   == UnixClient \cap TcpClient = {}
ASSUME TextsAssumption    == Texts \subseteq AllTexts
ASSUME EcpriAssumption    == EcpriKinds \subseteq AllEcpriKinds
ASSUME BoundAssumption    == FdLimit \in Nat \ {0} /\ MaxEcpri \in Nat

Client == UnixClient \cup TcpClient

VARIABLES
  daemon,       \* "poll", "read" (blocked on newsockfd), "remote" (a command waits
                \* for another node) or "down"
  newsockfd,    \* the connection accepted last, open or not
  open,         \* the connections the daemon holds, with the log's
  unix, tcp,    \* the connections that wait to be accepted
  ecpri,        \* the eCPRI messages in the receive buffer
  client,       \* client[c]: what c is doing
  text          \* text[c]: what c has written, "" if nothing

vars == <<daemon, newsockfd, open, unix, tcp, ecpri, client, text>>

(***************************************************************************)
(* A client is "away", "connected" (it has written nothing yet), "waiting" *)
(* (for the answer to what it has written), "answered", "refused" (the     *)
(* daemon is or has gone down), or it is "gone" while the daemon still has *)
(* its connection.                                                         *)
(***************************************************************************)
ClientStates == {"away", "connected", "waiting", "answered", "refused", "gone"}

-----------------------------------------------------------------------------
(* The clients: client_send_message, or any program that connects *)

Connect(c) ==
  /\ client[c] = "away" /\ c \notin open \cup Range(unix) \cup Range(tcp)
  /\ daemon # "down"
  /\ client' = [client EXCEPT ![c] = "connected"]
  /\ unix' = IF c \in UnixClient THEN Append(unix, c) ELSE unix
  /\ tcp'  = IF c \in TcpClient THEN Append(tcp, c) ELSE tcp
  /\ UNCHANGED <<daemon, newsockfd, open, ecpri, text>>

Write(c, t) ==
  /\ client[c] = "connected"
  /\ client' = [client EXCEPT ![c] = "waiting"]
  /\ text' = [text EXCEPT ![c] = t]
  /\ UNCHANGED <<daemon, newsockfd, open, unix, tcp, ecpri>>

\* A client closes its connection, with or without having written.
Leave(c) ==
  /\ client[c] \in {"connected", "waiting"}
  /\ client' = [client EXCEPT ![c] = "gone"]
  /\ UNCHANGED <<daemon, newsockfd, open, unix, tcp, ecpri, text>>

\* A client that is through with the daemon can be run again.
Again(c) ==
  /\ client[c] \in {"answered", "refused", "gone"}
  /\ c \notin open \cup Range(unix) \cup Range(tcp)
  /\ client' = [client EXCEPT ![c] = "away"]
  /\ text' = [text EXCEPT ![c] = ""]
  /\ UNCHANGED <<daemon, newsockfd, open, unix, tcp, ecpri>>

Arrive(k) ==
  /\ daemon # "down" /\ Len(ecpri) < MaxEcpri
  /\ ecpri' = Append(ecpri, k)
  /\ UNCHANGED <<daemon, newsockfd, open, unix, tcp, client, text>>

-----------------------------------------------------------------------------
(* The end of the daemon: all its sockets are closed *)

GoDown ==
  /\ daemon' = "down"
  /\ client' = [c \in Client |-> IF client[c] \in {"connected", "waiting"}
                                 THEN "refused" ELSE client[c]]
  /\ open' = {} /\ unix' = <<>> /\ tcp' = <<>> /\ ecpri' = <<>>

\* It is started again by hand or by the start script.
Start ==
  /\ daemon = "down"
  /\ daemon' = "poll"
  /\ newsockfd' = Fd0 /\ open' = {Fd0}
  /\ UNCHANGED <<unix, tcp, ecpri, client, text>>

-----------------------------------------------------------------------------
(* get_message *)

\* A faulty order of preference.
FirstReadyReversed ==
  IF ecpri # <<>> THEN "ecpri" ELSE IF tcp # <<>> THEN "tcp" ELSE IF unix # <<>> THEN "unix" ELSE "none"

\* The socket get_message looks at when poll() returns.
FirstReady ==
  IF unix # <<>> THEN "unix" ELSE IF tcp # <<>> THEN "tcp" ELSE IF ecpri # <<>> THEN "ecpri" ELSE "none"

Polled(socket) == daemon = "poll" /\ FirstReady = socket

\* A faulty accept that does not tell the others which connection it is.
AcceptLocal(c) ==
  /\ Cardinality(open) < FdLimit
  /\ open' = open \cup {c}
  /\ daemon' = "read"
  /\ UNCHANGED <<newsockfd, ecpri, client, text>>

\* accept() succeeds while the process may open files.  The daemon then blocks
\* in read().
Accept(c) ==
  /\ Cardinality(open) < FdLimit
  /\ newsockfd' = c
  /\ open' = open \cup {c}
  /\ daemon' = "read"
  /\ UNCHANGED <<ecpri, client, text>>

AcceptUnix ==
  /\ Polled("unix")
  /\ Accept(Head(unix))
  /\ unix' = Tail(unix)
  /\ UNCHANGED tcp

AcceptTcp ==
  /\ Polled("tcp")
  /\ Accept(Head(tcp))
  /\ tcp' = Tail(tcp)
  /\ UNCHANGED unix

\* Too many open files: get_message returns -1, and the daemon ends.
AcceptFails ==
  /\ Polled("unix") \/ Polled("tcp")
  /\ Cardinality(open) >= FdLimit
  /\ GoDown
  /\ UNCHANGED <<newsockfd, text>>

\* A faulty read that does not wait for the client.
ReadAtOnce ==
  /\ daemon = "read" /\ text[newsockfd] = ""
  /\ daemon' = "poll"
  /\ UNCHANGED <<newsockfd, open, unix, tcp, ecpri, client, text>>

\* read() returns 0 for a client that left without a word.  So does get_message,
\* and the main loop takes it that there is nothing left to do: the connection
\* stays open.
ReadNothing ==
  /\ daemon = "read" /\ client[newsockfd] = "gone" /\ text[newsockfd] = ""
  /\ daemon' = "poll"
  /\ UNCHANGED <<newsockfd, open, unix, tcp, ecpri, client, text>>

\* read() fails when a TCP client has reset its connection.  The -1, unsigned, is
\* more than 0, and command[-1] is written: it is the byte before command, and the
\* -1 that get_message returns ends the daemon, or it is 4 GB beyond it.
ReadFails ==
  /\ daemon = "read" /\ newsockfd \in TcpClient /\ client[newsockfd] = "gone"
  /\ GoDown
  /\ UNCHANGED <<newsockfd, text>>

-----------------------------------------------------------------------------
(* parse_command and send_response *)

\* A faulty answer that leaves the connection open.
SendResponseKeeping(rest) ==
  /\ client' = [c \in Client |-> IF c = newsockfd /\ client[c] = "waiting"
                                 THEN "answered" ELSE client[c]]
  /\ daemon' = "poll"
  /\ ecpri' = rest
  /\ UNCHANGED <<open, unix, tcp>>

\* write() to a UNIX connection whose client has gone raises SIGPIPE, which ends
\* the daemon.  To a TCP connection the first write passes, and before the first
\* connection the text goes to the log, whose descriptor is then closed like any
\* other.  To a connection that is closed already it fails.  rest is what remains
\* in ecpri.
SendResponse(rest) ==
  IF newsockfd \in open \cap UnixClient /\ client[newsockfd] = "gone"
  THEN GoDown
  ELSE /\ open' = open \ {newsockfd}
       /\ client' = [c \in Client |-> IF c = newsockfd /\ c \in open /\ client[c] = "waiting"
                                      THEN "answered" ELSE client[c]]
       /\ daemon' = "poll"
       /\ ecpri' = rest
       /\ UNCHANGED <<unix, tcp>>

\* A command has been read.  For "quit" parse_command returns less than 0, and the
\* loop ends without the answer.
RunCommand ==
  /\ daemon = "read" /\ text[newsockfd] \notin {"", "remote"}
  /\ IF text[newsockfd] = "quit" THEN GoDown ELSE SendResponse(ecpri)
  /\ UNCHANGED <<newsockfd, text>>

\* A remote command: it waits whether or not its request could be sent.
SendRequest ==
  /\ daemon = "read" /\ text[newsockfd] = "remote"
  /\ daemon' = "remote"
  /\ UNCHANGED <<newsockfd, open, unix, tcp, ecpri, client, text>>

\* The command polls the eCPRI socket, and nothing else, until an eCPRI message
\* comes, whatever it is: it is not handled, and the command is over.
GetResponse ==
  /\ daemon = "remote" /\ ecpri # <<>>
  /\ IF Head(ecpri) = "alien"
     THEN ecpri' = Tail(ecpri) /\ UNCHANGED <<daemon, open, unix, tcp, client>>
     ELSE SendResponse(Tail(ecpri))
  /\ UNCHANGED <<newsockfd, text>>

-----------------------------------------------------------------------------
(* proto_ecpri_handle_incoming_msg, as the main loop sees it *)

MayHandle(k) == Polled("ecpri") /\ Head(ecpri) = k

HandleMessage ==
  /\ MayHandle("handled") \/ MayHandle("alien")
  /\ ecpri' = Tail(ecpri)
  /\ UNCHANGED <<daemon, newsockfd, open, unix, tcp, client, text>>

HandleShort ==
  /\ MayHandle("short") \/ MayHandle("alien")
  /\ GoDown
  /\ UNCHANGED <<newsockfd, text>>

\* The positive number is taken for the length of a command.  The command is
\* empty, the usage text is its answer, and it goes to newsockfd.
HandleRefused ==
  /\ MayHandle("refused")
  /\ SendResponse(Tail(ecpri))
  /\ UNCHANGED <<newsockfd, text>>

Daemon ==
  \/ AcceptUnix \/ AcceptTcp \/ AcceptFails \/ ReadNothing \/ ReadFails \/ RunCommand
  \/ SendRequest \/ GetResponse \/ HandleMessage \/ HandleShort \/ HandleRefused

-----------------------------------------------------------------------------
Init ==
  /\ daemon = "poll" /\ newsockfd = Fd0 /\ open = {Fd0}
  /\ unix = <<>> /\ tcp = <<>> /\ ecpri = <<>>
  /\ client = [c \in Client |-> "away"]
  /\ text = [c \in Client |-> ""]

Next ==
  \/ \E c \in Client : Connect(c) \/ Leave(c) \/ Again(c) \/ \E t \in Texts : Write(c, t)
  \/ \E k \in EcpriKinds : Arrive(k)
  \/ AcceptUnix \/ AcceptTcp \/ AcceptFails \/ ReadNothing \/ ReadFails \/ RunCommand
  \/ SendRequest \/ GetResponse \/ HandleMessage \/ HandleShort \/ HandleRefused
  \/ Start

Spec == Init /\ [][Next]_vars

\* The daemon, one thread, goes on while there is something it can do.  Clients and
\* other nodes are not fair: they may say nothing for ever.
FairSpec == Spec /\ WF_vars(Daemon)

-----------------------------------------------------------------------------
(* Properties *)

Accepting == Range(unix) \cup Range(tcp)
Serving   == IF daemon \in {"read", "remote"} THEN {newsockfd} ELSE {}

\* read() blocks on a client that has neither written nor left, and a remote command
\* goes on polling while no eCPRI message comes.
Blocked ==
  \/ daemon = "read" /\ client[newsockfd] = "connected"
  \/ daemon = "remote" /\ Range(ecpri) \subseteq {"alien"}

TypeOK ==
  /\ daemon \in {"poll", "read", "remote", "down"}
  /\ newsockfd \in Client \cup {Fd0}
  /\ open \in SUBSET (Client \cup {Fd0})
  /\ unix \in Seq(UnixClient) /\ tcp \in Seq(TcpClient) /\ ecpri \in Seq(EcpriKinds)
  /\ client \in [Client -> ClientStates]
  /\ text \in [Client -> Texts \cup {""}]
  /\ daemon \in {"read", "remote"} => newsockfd \in open \cap Client

\* The daemon forgets no client: one that is connected is waiting to be accepted,
\* or is the one the daemon serves.
NoClientForgotten ==
  \A c \in Client : client[c] \in {"connected", "waiting"} => c \in Accepting \cup Serving

\* The daemon holds no connection but that of the client it serves, and those of
\* clients that left without a word.
OnlyWordlessLeak ==
  \A c \in (open \cap Client) \ Serving : client[c] = "gone" /\ text[c] = ""

\* A client of the UNIX socket that has written a command is answered, or the
\* daemon ends, or the daemon blocks for good, on a client that says nothing or for
\* an eCPRI message that does not come: no stream of other clients and messages,
\* handled one per poll, keeps it waiting.
UnixClientServed ==
  \A c \in UnixClient : (client[c] = "waiting") ~> (client[c] # "waiting" \/ []Blocked)

\* An eCPRI message is dealt with internally, unless it ends the daemon: no client
\* is answered for it and no client's connection closed.
EcpriDealtWithInternally ==
  [][Polled("ecpri") /\ Daemon /\ daemon' # "down" => UNCHANGED <<open \cap Client, client>>]_vars
=============================================================================
