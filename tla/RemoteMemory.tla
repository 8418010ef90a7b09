---------------------------- MODULE RemoteMemory ----------------------------
(***************************************************************************)
(* What "ecpri rma_read", "rma_write" and "rmr" promise a caller: between  *)
(* the call and its return the target performs the command exactly once,   *)
(* on a memory that no other command touches at that moment, and the call  *)
(* returns what that one performance answered.  A command need not return. *)
(*                                                                         *)
(* An answer says that the target dealt with the command, not that the     *)
(* device accepted it: reading an address the device refuses answers Zero, *)
(* writing one answers "ack" and changes nothing.                          *)
(***************************************************************************)
CONSTANTS
  Caller,       \* who calls
  Target,       \* whose memory is read and written
  Addr, Val,    \* the addresses and the values
  Zero,         \* the value a refused read answers and the memory starts with
  Refused       \* the addresses the device of a target refuses

None == [op |-> "none"]

Commands ==
  [op : {"read"}, to : Target, addr : Addr]
    \cup [op : {"write"}, to : Target, addr : Addr, val : Val]
    \cup [op : {"reset"}, to : Target]

Answers == [op : {"read"}, val : Val] \cup [op : {"write", "reset"}]

VARIABLES
  mem,          \* mem[t]: the memory of target t
  call,         \* call[c]: the command c has called and that has not returned
  answer,       \* answer[c]: what the target answered, None before it has
  returned      \* returned[c]: the last command of c that returned, and its answer

vars == <<mem, call, answer, returned>>

AnswerTo(m, c) ==
  IF c.op = "read"
  THEN [op |-> "read", val |-> IF c.addr \in Refused THEN Zero ELSE m[c.to][c.addr]]
  ELSE [op |-> c.op]

After(m, c) ==
  IF c.op = "write" /\ c.addr \notin Refused
  THEN [m EXCEPT ![c.to][c.addr] = c.val]
  ELSE m

Init ==
  /\ mem = [t \in Target |-> [a \in Addr |-> Zero]]
  /\ call = [c \in Caller |-> None]
  /\ answer = [c \in Caller |-> None]
  /\ returned = [c \in Caller |-> None]

Call(c, command) ==
  /\ call[c] = None
  /\ call' = [call EXCEPT ![c] = command]
  /\ UNCHANGED <<mem, answer, returned>>

Perform(c) ==
  /\ call[c] # None /\ answer[c] = None
  /\ mem' = After(mem, call[c])
  /\ answer' = [answer EXCEPT ![c] = AnswerTo(mem, call[c])]
  /\ UNCHANGED <<call, returned>>

Return(c) ==
  /\ answer[c] # None
  /\ returned' = [returned EXCEPT ![c] = [op |-> "returned", command |-> call[c], answer |-> answer[c]]]
  /\ call' = [call EXCEPT ![c] = None]
  /\ answer' = [answer EXCEPT ![c] = None]
  /\ UNCHANGED mem

Next ==
  \E c \in Caller :
    \/ \E command \in Commands : Call(c, command)
    \/ Perform(c)
    \/ Return(c)

Spec == Init /\ [][Next]_vars
=============================================================================
