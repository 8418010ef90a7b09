----------------------------- MODULE OwdmDelay -----------------------------
(***************************************************************************)
(* The arithmetic of a one-way delay: how ecpri_owdm_calc_delay subtracts  *)
(* two time-stamps, what "ecpri owdm_res" shows of the result, and when    *)
(* the report limit triggers (xroe-app/ecpri_proto.c, ecpri.c).            *)
(*                                                                         *)
(* A stamp is 6 bytes of seconds and 4 of nanoseconds.  The code gathers   *)
(* the bytes with shifts of an int into words of unsigned type, so a word  *)
(* is not always the number the bytes stand for.  The widths are constants *)
(* so that TLC can go through all stamps of a small machine.               *)
(***************************************************************************)
EXTENDS Integers

CONSTANTS
  INT,      \* 2^32: the 4 low bytes of a field, and what an int can tell apart
  SECS,     \* 2^48: the 6 bytes of the seconds
  ULL,      \* 2^64: an unsigned long long, and an unsigned long
  NSEC,     \* 10^9: nanoseconds in a second
  Second,   \* the values of the seconds of a stamp
  Nano,     \* the values of the nanoseconds of a stamp, NSEC and more in garbage
  Limit     \* the report limits a user sets, of either sign (strtol)

ASSUME WidthAssumption ==
  /\ INT \in Nat /\ SECS \in Nat /\ ULL \in Nat /\ NSEC \in Nat
  /\ 0 < NSEC /\ NSEC + NSEC <= INT /\ INT <= SECS /\ SECS <= ULL
ASSUME StampAssumption == Second \subseteq 0 .. SECS - 1 /\ Nano \subseteq 0 .. INT - 1
\* A limit is a long.
ASSUME LimitAssumption == \A l \in Limit : l \in Int /\ -ULL <= l + l /\ l + l < ULL

Stamps == [sec : Second, nsec : Nano]
ZeroStamp == [sec |-> 0, nsec |-> 0]

VARIABLES
  owdm_result,          \* the stored delay: its 6 and 4 bytes
  ecpri_report_limit,   \* the limit in nanoseconds, 0 for none
  tried,                \* history: the last measurement went for the trigger
  ila,                  \* the last measurement wrote the trigger of the ILA
  measured              \* history: the stamps of the last measurement, and the limit then

vars == <<owdm_result, ecpri_report_limit, tried, ila, measured>>

-----------------------------------------------------------------------------
(* Bytes to words *)

\* A byte shifted by 24 may reach the sign bit of the int, which then fills the
\* rest of the word.
SignExtend(low) == IF low + low < INT THEN low ELSE low + ULL - INT

\* Bytes 4 and 5 are shifted by more than the int has bits: what becomes of them
\* is up to the build.  Their bits vanish, or end up in bytes 0 and 1.
Lows(x) ==
  LET low  == x % INT
      high == SECS \div INT
  IN IF x < INT THEN {x} ELSE {l \in low .. INT - 1 : l \div high = low \div high}

Words(x) == {SignExtend(low) : low \in Lows(x)}

-----------------------------------------------------------------------------
(* ecpri_owdm_calc_delay *)

\* A faulty subtraction that also borrows when there is no need.
MinusBorrowing(s1, n1, s2, n2) ==
  LET borrow == IF n2 >= n1 THEN 1 ELSE 0
  IN [sec  |-> (s1 - borrow - s2) % ULL, nsec |-> (n1 + borrow * NSEC - n2) % ULL]

\* The difference of two pairs of words, in words.
Minus(s1, n1, s2, n2) ==
  LET borrow == IF n2 > n1 THEN 1 ELSE 0
  IN [sec  |-> (s1 - borrow - s2) % ULL, nsec |-> (n1 + borrow * NSEC - n2) % ULL]

\* A faulty test that looks at the nanoseconds only.
OverNanos(d) == ecpri_report_limit # 0 /\ d.nsec > ecpri_report_limit % ULL

\* The nanoseconds are an unsigned long, and compared with one: a limit below 0
\* becomes a large word.
Over(d) == ecpri_report_limit # 0 /\ (d.sec > 0 \/ d.nsec > ecpri_report_limit % ULL)

\* A faulty store of the words as they are.
StoredWide(d) == d

Stored(d) == [sec |-> d.sec % SECS, nsec |-> d.nsec % INT]

\* The attributes of /sys/kernel/traffic that could trigger it.
TrafficAttributes == {"radio_sw_trigger"}

\* What a write to an attribute takes.  ecpri_owdm_calc_delay names another, and
\* TRAFGEN_SYSFS_API_Write opens it for reading only.
Writes(name, mode) == name \in TrafficAttributes /\ mode = "O_WRONLY"

CalcDelay(t1, t2) ==
  \E s1 \in Words(t1.sec), s2 \in Words(t2.sec), n1 \in Words(t1.nsec), n2 \in Words(t2.nsec) :
    LET d == Minus(s1, n1, s2, n2)
    IN /\ owdm_result' = Stored(d)
       /\ tried' = Over(d)
       /\ ila' = (Over(d) /\ Writes("sw_trigger", "O_RDONLY"))
       /\ measured' = [t1 |-> t1, t2 |-> t2, limit |-> ecpri_report_limit]
       /\ UNCHANGED ecpri_report_limit

\* proto_ecpri_set_owdm_limit
SetLimit(limit) ==
  /\ ecpri_report_limit' = limit
  /\ UNCHANGED <<owdm_result, tried, ila, measured>>

\* What "ecpri owdm_res" may show of the result (proto_ecpri_get_owdm_result).
Shown(r) == Words(r.sec) \X Words(r.nsec)

-----------------------------------------------------------------------------
Init ==
  /\ owdm_result = [sec |-> 0, nsec |-> 0]
  /\ ecpri_report_limit = 0
  /\ measured = [t1 |-> ZeroStamp, t2 |-> ZeroStamp, limit |-> 0]
  /\ tried = FALSE
  /\ ila = FALSE

Next ==
  \/ \E t1, t2 \in Stamps : CalcDelay(t1, t2)
  \/ \E limit \in Limit : SetLimit(limit)

Spec == Init /\ [][Next]_vars

-----------------------------------------------------------------------------
(* Properties *)

TypeOK ==
  /\ owdm_result \in [sec : 0 .. SECS - 1, nsec : 0 .. INT - 1]
  /\ ecpri_report_limit \in Limit \cup {0}
  /\ tried \in BOOLEAN
  /\ ila \in BOOLEAN
  /\ measured \in [t1 : Stamps \cup {ZeroStamp}, t2 : Stamps \cup {ZeroStamp},
                  limit : Limit \cup {0}]

\* Both stamps are times of day, the first not before the second, and neither
\* has reached the second (in 2038) at which the int they pass through changes
\* its sign.
Sensible(t1, t2) ==
  /\ t1.nsec < NSEC /\ t2.nsec < NSEC
  /\ t1.sec + t1.sec < INT
  /\ t1.sec > t2.sec \/ (t1.sec = t2.sec /\ t1.nsec >= t2.nsec)

\* What "ecpri owdm_res" shows for two such stamps is the one pair of seconds
\* and nanoseconds, the latter less than a second, that added to the second
\* stamp gives the first: no byte is lost on the way and no borrow.
DelayShownIsDifference ==
  Sensible(measured.t1, measured.t2) =>
    \A shown \in Shown(owdm_result) :
      LET nsec == measured.t2.nsec + shown[2]
      IN /\ shown[2] < NSEC
         /\ measured.t1.nsec = IF nsec < NSEC THEN nsec ELSE nsec - NSEC
         /\ measured.t1.sec  = measured.t2.sec + shown[1] + (IF nsec < NSEC THEN 0 ELSE 1)

\* The delay in nanoseconds.
Nanoseconds(t1, t2) == (t1.sec - t2.sec) * NSEC + t1.nsec - t2.nsec

\* The least delay that goes for the trigger.  The seconds are tested apart from
\* the nanoseconds, so that a whole second is over any limit, and a limit below 0
\* is, as a word, more than any nanoseconds.
Threshold(limit) == IF limit \in 0 .. NSEC - 1 THEN limit + 1 ELSE NSEC

(***************************************************************************)
(* The test of the report limit, for two sensible stamps: a delay goes for *)
(* the trigger when it is over a limit that is one, from 1 ns to less than *)
(* a second, and exactly then.  A limit of a second or more triggers for   *)
(* delays it does not exclude, from a second on, and one below 0 misses    *)
(* every delay of less than a second.                                      *)
(* The write the code then goes for never reaches the ILA.  The comment on *)
(* ecpri_owdm_limit_func says that all measurements over the limit trigger *)
(* one: the code does not do that for any limit.                           *)
(***************************************************************************)
LimitTestExact ==
  /\ Sensible(measured.t1, measured.t2) =>
       (tried <=> /\ measured.limit # 0
                  /\ Nanoseconds(measured.t1, measured.t2) >= Threshold(measured.limit))
  /\ ~ila
=============================================================================
