--------------------------- MODULE PtpTimerProofs ---------------------------
(***************************************************************************)
(* Theorems about PtpTimer, for any number of callers, any words and any   *)
(* arguments.                                                              *)
(***************************************************************************)
EXTENDS PtpTimer, TLAPS

-----------------------------------------------------------------------------
(* Lemmas about division *)

LEMMA DivMod ==
  ASSUME NEW a \in Int, NEW n \in Nat \ {0}
  PROVE  a \div n \in Int /\ a % n \in 0 .. n - 1 /\ a = n * (a \div n) + (a % n)
  BY SMT

LEMMA ProductBound ==
  ASSUME NEW n \in Nat \ {0}, NEW k \in Int, k >= 1
  PROVE  n * k >= n
  BY SMT

LEMMA ModUnique ==
  ASSUME NEW n \in Nat \ {0}, NEW q \in Int, NEW r \in 0 .. n - 1
  PROVE  (n * q + r) % n = r
PROOF
  <1> DEFINE p == (n * q + r) \div n
             s == (n * q + r) % n
  <1>1. p \in Int /\ s \in 0 .. n - 1 /\ n * q + r = n * p + s
    BY DivMod, SMT
  <1> HIDE DEF p, s
  <1>2. n * (p - q) = r - s /\ n * (q - p) = s - r
    BY <1>1, SMT
  <1>3. ~(p - q >= 1) /\ ~(q - p >= 1)
    <2>1. CASE p - q >= 1
      BY <1>1, <1>2, <2>1, ProductBound, SMT
    <2>2. CASE q - p >= 1
      BY <1>1, <1>2, <2>2, ProductBound, SMT
    <2> QED
      BY <2>1, <2>2
  <1>4. p = q /\ s = r
    BY <1>1, <1>3, SMT
  <1> QED
    BY <1>4 DEF s

\* Multiples of n do not count modulo n.
LEMMA ModSame ==
  ASSUME NEW n \in Nat \ {0}, NEW a \in Int, NEW k \in Int
  PROVE  (a + n * k) % n = a % n
PROOF
  <1> DEFINE q == a \div n
             r == a % n
  <1>1. q \in Int /\ r \in 0 .. n - 1 /\ a = n * q + r
    BY DivMod
  <1> HIDE DEF q, r
  <1>2. a + n * k = n * (q + k) + r
    BY <1>1, SMT
  <1>3. (n * (q + k) + r) % n = r
    BY <1>1, ModUnique
  <1> QED
    BY <1>2, <1>3 DEF r

LEMMA Ranges ==
  /\ WORD \in Nat \ {0} /\ NSEC \in Nat \ {0} /\ WORD * WORD \in Nat \ {0}
  /\ Range64 \in Nat \ {0}
PROOF
  <1>1. WORD \in Nat \ {0} /\ NSEC \in Nat \ {0}
    BY WordAssumption
  <1>2. WORD * WORD \in Nat \ {0}
    BY <1>1, SMT
  <1>3. WORD * WORD * NSEC \in Nat \ {0}
    BY <1>1, <1>2, SMT
  <1> QED
    BY <1>1, <1>2, <1>3 DEF Range64

\* The increment stays within 1 .. 2 * INC: |ppb| is less than PPB.
LEMMA IncValType ==
  ASSUME NEW ppb \in Ppbs
  PROVE  IncVal(ppb) \in 1 .. 2 * INC
PROOF
  <1>1. INC \in Nat \ {0} /\ PPB \in Nat \ {0} /\ ppb \in Int /\ -PPB < ppb /\ ppb < PPB
    BY RateAssumption
  <1>2. ASSUME NEW a \in Nat, a < PPB
        PROVE  (INC * a) \div PPB \in 0 .. INC - 1
    <2> DEFINE b == INC * a
               q == b \div PPB
               r == b % PPB
    <2>0. b \in Nat /\ b \in Int /\ b = INC * a
      BY <1>1, <1>2, SMT
    <2> HIDE DEF b
    <2>1. q \in Int /\ r \in 0 .. PPB - 1 /\ b = PPB * q + r
      BY <1>1, <2>0, DivMod, Zenon
    <2> HIDE DEF q, r
    <2>2. ASSUME q <= -1 PROVE FALSE
      <3>1. PPB * (-q) >= PPB /\ PPB * (-q) = -(PPB * q)
        BY <1>1, <2>1, <2>2, ProductBound, SMT
      <3> QED
        BY <1>1, <2>0, <2>1, <3>1, SMT
    <2>3. ASSUME q >= INC PROVE FALSE
      <3>1. PPB * q >= INC * PPB
        BY <1>1, <2>1, <2>3, SMT
      <3>2. INC * (PPB - a) >= INC /\ INC * (PPB - a) = INC * PPB - b
        BY <1>1, <1>2, <2>0, ProductBound, SMT
      <3> DEFINE u == INC * PPB
                 v == PPB * q
                 w == INC * (PPB - a)
      <3>3. u \in Int /\ v \in Int /\ w \in Int
        BY <1>1, <1>2, <2>1, SMT
      <3> HIDE DEF u, v, w
      <3>4. v >= u /\ w >= INC /\ w = u - b /\ b = v + r
        BY <2>1, <3>1, <3>2 DEF u, v, w
      <3> QED
        BY <1>1, <2>0, <2>1, <3>3, <3>4
    <2>4. q \in 0 .. INC - 1
      BY <1>1, <2>1, <2>2, <2>3, SMT
    <2> QED
      BY <2>4 DEF q, b
  <1>3. CASE ppb < 0
    <2>1. (INC * (-ppb)) \div PPB \in 0 .. INC - 1
      BY <1>1, <1>2, <1>3
    <2> QED
      BY <1>1, <1>3, <2>1 DEF IncVal
  <1>4. CASE ~(ppb < 0)
    <2>1. (INC * ppb) \div PPB \in 0 .. INC - 1
      BY <1>1, <1>2, <1>4
    <2> QED
      BY <1>1, <1>4, <2>1 DEF IncVal
  <1> QED
    BY <1>3, <1>4

-----------------------------------------------------------------------------
(* Types *)

\* A call is named for as long as it is under way.
NamedInv == \A c \in Caller : pc[c] # "idle" => op[c] # "none"

TypeInv == TypeOK /\ NamedInv

LEMMA TimeType ==
  ASSUME TypeOK
  PROVE  /\ step * NSEC + off.ns \in Nat
         /\ Displacement \in 0 .. Range64 - 1
         /\ TimeOfDay \in 0 .. Range64 - 1
PROOF
  <1>1. step \in Nat /\ off.ns \in Nat /\ free \in Nat /\ NSEC \in Nat
    BY Ranges DEF TypeOK
  <1>2. step * NSEC + off.ns \in Nat
    BY <1>1, SMT
  <1>3. Displacement \in 0 .. Range64 - 1
    <2>1. step * NSEC + off.ns \in Int /\ Range64 \in Nat \ {0}
      BY <1>2, Ranges
    <2> QED
      BY <2>1, DivMod, Zenon DEF Displacement
  <1>4. free + Displacement \in Int
    BY <1>1, <1>3, Ranges
  <1>5. TimeOfDay \in 0 .. Range64 - 1
    BY <1>4, Ranges, DivMod DEF TimeOfDay
  <1> QED
    BY <1>2, <1>3, <1>5

LEMMA TodType ==
  ASSUME NEW first \in Int, NEW second \in Int, NEW target \in Int
  PROVE  TodRead(first, second) \in Int /\ SetDelta(target, first) \in Int
PROOF
  <1>1. WORD \in Nat \ {0} /\ NSEC \in Nat \ {0} /\ WORD * NSEC \in Nat \ {0}
    BY Ranges, SMT
  <1>2. /\ second \div NSEC \in Int /\ first \div NSEC \in Int /\ first % NSEC \in Int
        /\ target % (WORD * NSEC) \in Int
    BY <1>1, DivMod
  <1>3. (second \div NSEC) % WORD \in Int
    BY <1>1, <1>2, DivMod
  <1>4. TodRead(first, second) \in Int
    BY <1>1, <1>2, <1>3, SMT DEF TodRead
  <1> DEFINE sec   == (first \div NSEC) - (IF first \div NSEC >= WORD \div 2 THEN WORD ELSE 0)
             delta == (target % (WORD * NSEC)) - (sec * NSEC + (first % NSEC))
  <1>5. sec \in Int
    BY <1>1, <1>2
  <1> HIDE DEF sec
  <1>6. delta \in Int
    BY <1>1, <1>2, <1>5, SMT
  <1>7. SetDelta(target, first) = IF delta \div NSEC <= 0 THEN delta % NSEC ELSE delta
    BY DEF SetDelta, sec
  <1> HIDE DEF delta
  <1>8. delta % NSEC \in Int
    BY <1>1, <1>6, DivMod
  <1> QED
    BY <1>4, <1>6, <1>7, <1>8

\* The words and the ns of an offset, and the sums, are in range.
LEMMA WordsType ==
  ASSUME NEW a \in Int
  PROVE  /\ ((a \div NSEC) \div WORD) % WORD \in 0 .. WORD - 1
         /\ (a \div NSEC) % WORD \in 0 .. WORD - 1
         /\ a % NSEC \in 0 .. NSEC - 1
         /\ a % Range64 \in 0 .. Range64 - 1
         /\ a % (WORD * WORD) \in 0 .. WORD * WORD - 1
PROOF
  <1>1. a \div NSEC \in Int
    BY Ranges, DivMod
  <1>2. (a \div NSEC) \div WORD \in Int
    BY <1>1, Ranges, DivMod
  <1> QED
    BY <1>1, <1>2, Ranges, DivMod

LEMMA CallerStepType ==
  ASSUME TypeInv, NEW c \in Caller, CallerStep(c)
  PROVE  TypeInv'
PROOF
  <1> USE DEF TypeInv, NamedInv, Goto
  <1>1. UNCHANGED <<free, inc, driver>>
    BY DEF CallerStep, Call, Lock, TodReadNs, TodReadSec, OffsetRead, WriteSecH, WriteSecL, WriteNs, hw
  <1>2. ASSUME NEW o \in {"gettime", "adjtime", "settime"}, NEW a \in Int, Call(c, o, a)
        PROVE  TypeInv'
    BY <1>2 DEF Call, TypeOK, Ops, Pcs, hw, driver
  <1>3. CASE Lock(c)
    <2>1. op[c] \in {"gettime", "adjtime", "settime"}
      BY <1>3 DEF Lock, TypeOK, Ops
    <2> QED
      BY <1>3, <2>1 DEF Lock, TypeOK, Pcs, hw, driver
  <1>4. CASE TodReadNs(c)
    <2>1. TimeOfDay \in Int
      BY TimeType, Ranges
    <2> HIDE DEF TimeOfDay
    <2> QED
      BY <1>4, <2>1 DEF TodReadNs, TypeOK, Pcs, hw, driver
  <1>5. CASE TodReadSec(c)
    <2> DEFINE tod == TodRead(ts[c], TimeOfDay)
    <2>1. ts[c] \in Int /\ arg[c] \in Int /\ TimeOfDay \in Int
      BY TimeType, Ranges DEF TypeOK
    <2>2. tod \in Int /\ SetDelta(arg[c], tod) \in Int
      <3>1. tod \in Int
        BY <2>1, TodType
      <3> HIDE DEF tod
      <3> QED
        BY <2>1, <3>1, TodType
    <2>3. IF op[c] = "gettime"
          THEN Return(c, tod)
          ELSE /\ ts' = [ts EXCEPT ![c] = SetDelta(arg[c], tod)]
               /\ Goto(c, "sec_h")
               /\ UNCHANGED <<reg_lock, op, arg, at>>
      BY <1>5 DEF TodReadSec
    <2>4. UNCHANGED <<hw, zeroed, want, moves, driver>> /\ pc[c] = "tod_sec"
      BY <1>5 DEF TodReadSec
    <2> HIDE DEF tod
    <2>5. CASE op[c] = "gettime"
      BY <2>2, <2>3, <2>4, <2>5 DEF Return, TypeOK, Ops, Pcs, hw, driver
    <2>6. CASE op[c] # "gettime"
      BY <2>2, <2>3, <2>4, <2>6 DEF TypeOK, Pcs, hw, driver
    <2> QED
      BY <2>5, <2>6
  <1>6. CASE OffsetRead(c)
    <2>1. NewOffset(arg[c]) \in Int
      BY DEF NewOffset, TypeOK
    <2> QED
      BY <1>6, <2>1 DEF OffsetRead, TypeOK, Pcs, hw, driver
  <1>7. CASE WriteSecH(c)
    <2>1. ((ts[c] \div NSEC) \div WORD) % WORD \in 0 .. WORD - 1
      BY WordsType DEF TypeOK
    <2> QED
      BY <1>7, <2>1 DEF WriteSecH, TypeOK, Pcs, hw, driver
  <1>8. CASE WriteSecL(c)
    <2>1. (ts[c] \div NSEC) % WORD \in 0 .. WORD - 1
      BY WordsType DEF TypeOK
    <2> QED
      BY <1>8, <2>1 DEF WriteSecL, TypeOK, Pcs, hw, driver
  <1>9. CASE WriteNs(c)
    <2>1. ts[c] \in Int /\ ts[c] % NSEC \in 0 .. NSEC - 1
      BY WordsType DEF TypeOK
    <2>2. step + off.sec_h * WORD + off.sec_l \in Int
      BY Ranges, SMT DEF TypeOK
    <2>3. step' \in 0 .. WORD * WORD - 1
      BY <1>9, <2>2, WordsType DEF WriteNs
    <2>4. off' \in [sec_h : 0 .. WORD - 1, sec_l : 0 .. WORD - 1, ns : 0 .. NSEC - 1]
      BY <1>9, <2>1 DEF WriteNs, TypeOK
    <2>5. Displacement' \in 0 .. Range64 - 1
      <3>1. step' * NSEC + off'.ns \in Int
        BY <2>3, <2>4, Ranges, SMT
      <3> QED
        BY <3>1, Ranges, DivMod DEF Displacement
    <2>6. want + arg[c] \in Int
      BY Ranges DEF TypeOK
    <2>7. (want + arg[c]) % Range64 \in 0 .. Range64 - 1
      BY <2>6, WordsType
    <2> HIDE DEF Displacement
    <2>8. CASE op[c] = "settime" /\ ~zeroed[c]
      <3>1. /\ zeroed' = [zeroed EXCEPT ![c] = TRUE] /\ pc' = [pc EXCEPT ![c] = "tod_ns"]
            /\ UNCHANGED <<reg_lock, op, arg, ts, at, want, free, inc, moves, driver>>
        BY <1>9, <2>8 DEF WriteNs
      <3> QED
        BY <2>3, <2>4, <2>8, <3>1 DEF TypeOK, Pcs, driver
    <2>9. CASE ~(op[c] = "settime" /\ ~zeroed[c])
      <3>1. /\ want' \in 0 .. Range64 - 1
            /\ Return(c, 0) /\ zeroed' = [zeroed EXCEPT ![c] = FALSE]
            /\ UNCHANGED <<free, inc, moves, driver>>
        BY <1>9, <2>5, <2>7, <2>9 DEF WriteNs
      <3> QED
        BY <2>3, <2>4, <3>1 DEF Return, TypeOK, Ops, Pcs, driver
    <2> QED
      BY <2>8, <2>9
  <1> QED
    BY <1>2, <1>3, <1>4, <1>5, <1>6, <1>7, <1>8, <1>9, InputAssumption DEF CallerStep

LEMMA TypeKept ==
  ASSUME TypeInv, [Next]_vars
  PROVE  TypeInv'
PROOF
  <1> USE DEF TypeInv, NamedInv
  <1>1. CASE UNCHANGED vars
    BY <1>1 DEF vars, hw, calls, driver, TypeOK
  <1>2. CASE Tick
    <2>1. free' \in Nat
      BY <1>2, RateAssumption DEF Tick, TypeOK
    <2> QED
      BY <1>2, <2>1 DEF Tick, calls, driver, TypeOK
  <1>3. ASSUME NEW c \in Caller, CallerStep(c) PROVE TypeInv'
    BY <1>3, CallerStepType
  <1>4. ASSUME NEW p \in Ppbs, AdjFreq(p) PROVE TypeInv'
    <2>1. inc' \in 1 .. 2 * INC
      BY <1>4, IncValType DEF AdjFreq
    <2> QED
      BY <1>4, <2>1 DEF AdjFreq, calls, driver, TypeOK
  <1>5. CASE Enable
    BY <1>5 DEF Enable, hw, calls, TypeOK
  <1>6. CASE Interrupt
    <2>1. countpulse' \in 0 .. PULSES - 1 /\ isr' \in {"idle", "event"}
      <3>1. countpulse + 1 \in Int
        BY PulseAssumption DEF TypeOK
      <3> QED
        BY <1>6, <3>1, PulseAssumption, DivMod DEF Interrupt
    <2>2. UNCHANGED <<hw, calls, want, moves, drv, clock, ptp_clock, pps_enable, irq, stray>>
      BY <1>6 DEF Interrupt
    <2> QED
      BY <2>1, <2>2 DEF hw, calls, TypeOK
  <1>7. CASE Event
    <2>1. stray' \in BOOLEAN /\ stray \in BOOLEAN
      BY <1>7, Zenon DEF Event, TypeOK
    <2>2. UNCHANGED <<hw, calls, want, moves, drv, clock, ptp_clock, pps_enable, irq, countpulse>>
      BY <1>7 DEF Event
    <2>3. isr' = "idle"
      BY <1>7 DEF Event
    <2>4. {clock', ptp_clock', pps_enable', irq', stray'} \subseteq BOOLEAN
      BY <2>1, <2>2 DEF TypeOK
    <2> QED
      BY <2>2, <2>3, <2>4 DEF hw, calls, TypeOK
  <1>8. CASE Probe
    <2>1. countpulse' \in 0 .. PULSES - 1
      BY <1>8, PulseAssumption DEF Probe
    <2>2. {clock', ptp_clock', pps_enable', irq', stray'} \subseteq BOOLEAN
      BY <1>8 DEF Probe, TypeOK
    <2>3. drv' = "probing" /\ UNCHANGED <<hw, calls, want, moves, isr>>
      BY <1>8 DEF Probe
    <2> QED
      BY <2>1, <2>2, <2>3 DEF hw, calls, TypeOK
  <1>9. CASE RequestIrq
    BY <1>9 DEF RequestIrq, hw, calls, TypeOK
  <1>10. CASE FreeIrq
    BY <1>10 DEF FreeIrq, hw, calls, TypeOK
  <1>11. CASE Unregister
    BY <1>11 DEF Unregister, hw, calls, TypeOK
  <1> QED
    BY <1>1, <1>2, <1>3, <1>4, <1>5, <1>6, <1>7, <1>8, <1>9, <1>10, <1>11 DEF Next

LEMMA TypeAtInit == Init => TypeInv
PROOF
  <1> SUFFICES ASSUME Init PROVE TypeInv
    OBVIOUS
  <1>1. 0 \in 0 .. WORD - 1 /\ 0 \in 0 .. NSEC - 1 /\ 0 \in 0 .. WORD * WORD - 1 /\ 0 \in 0 .. Range64 - 1
    BY Ranges
  <1>2. INC \in 1 .. 2 * INC /\ 0 \in 0 .. PULSES - 1
    BY RateAssumption, PulseAssumption
  <1>3. off \in [sec_h : 0 .. WORD - 1, sec_l : 0 .. WORD - 1, ns : 0 .. NSEC - 1]
    BY <1>1 DEF Init
  <1>4. /\ op \in [Caller -> Ops] /\ pc \in [Caller -> Pcs] /\ zeroed \in [Caller -> BOOLEAN]
        /\ arg \in [Caller -> Int] /\ ts \in [Caller -> Int] /\ at \in [Caller -> Nat]
    BY DEF Init, Ops, Pcs
  <1>5. {clock, ptp_clock, pps_enable, irq, stray} \subseteq BOOLEAN
    BY DEF Init
  <1>6. NamedInv
    BY DEF Init, NamedInv
  <1> QED
    BY <1>1, <1>2, <1>3, <1>4, <1>5, <1>6, SMT DEF Init, TypeInv, TypeOK

LEMMA TypeAlways == Spec => []TypeInv
  BY TypeAtInit, TypeKept, PTL DEF Spec

\* Every register, call and flag keeps its type: whatever is written, the
\* increment stays positive and the offset within its words.
THEOREM TypeCorrect == Spec => []TypeOK
PROOF
  <1>1. TypeInv => TypeOK
    BY DEF TypeInv
  <1> QED
    BY <1>1, TypeAlways, PTL

-----------------------------------------------------------------------------
(* The life of the driver *)

\* A handler is running only while there is an interrupt, an interrupt only
\* while the driver is bound, and a driver that has begun only with a clock.
LifeInv ==
  /\ isr \in {"idle", "event"}
  /\ isr = "event" => irq
  /\ irq => drv = "bound"
  /\ drv # "unbound" => clock
  /\ NothingAfterRemove

LEMMA LifeKept ==
  ASSUME LifeInv, [Next]_vars
  PROVE  LifeInv'
PROOF
  <1> USE DEF LifeInv, NothingAfterRemove
  <1>1. CASE UNCHANGED vars
    BY <1>1 DEF vars, calls, driver
  <1>2. CASE Tick
    BY <1>2 DEF Tick, calls, driver
  \* A call begins with a clock, and goes on only where it has begun.
  <1>3. ASSUME NEW c \in Caller, CallerStep(c) PROVE LifeInv'
    <2>1. UNCHANGED driver
      BY <1>3 DEF CallerStep, Call, Lock, TodReadNs, TodReadSec, OffsetRead, WriteSecH, WriteSecL, WriteNs
    <2>2. clock
      BY <1>3 DEF CallerStep, Call, Lock, TodReadNs, TodReadSec, OffsetRead, WriteSecH, WriteSecL, WriteNs
    <2> QED
      BY <2>1, <2>2 DEF driver
  <1>4. ASSUME NEW p \in Ppbs, AdjFreq(p) PROVE LifeInv'
    BY <1>4 DEF AdjFreq, calls, driver
  <1>5. CASE Enable
    BY <1>5 DEF Enable, calls
  <1>6. CASE Interrupt
    BY <1>6 DEF Interrupt, calls
  <1>7. CASE Event
    BY <1>7 DEF Event, calls
  <1>8. CASE Probe \/ RequestIrq
    BY <1>8 DEF Probe, RequestIrq, calls
  <1>9. CASE FreeIrq \/ Unregister
    BY <1>9 DEF FreeIrq, Unregister, calls
  <1> QED
    BY <1>1, <1>2, <1>3, <1>4, <1>5, <1>6, <1>7, <1>8, <1>9 DEF Next

\* However calls, interrupts, probes and removes interleave, for any number of
\* callers: no event goes to a clock that has gone, and no call is in the driver
\* then.
THEOREM RemoveCorrect == Spec => []NothingAfterRemove
PROOF
  <1>1. Init => LifeInv
    BY DEF Init, LifeInv, NothingAfterRemove
  <1>2. Spec => []LifeInv
    BY <1>1, LifeKept, PTL DEF Spec
  <1>3. LifeInv => NothingAfterRemove
    BY DEF LifeInv
  <1> QED
    BY <1>2, <1>3, PTL

-----------------------------------------------------------------------------
(* Adjustments *)

\* c is in the section that the lock protects.
Inside(c) == pc[c] \notin {"idle", "lock"}

\* Only the holder of the lock is inside.
LockInv == \A c \in Caller : Inside(c) => reg_lock = c

\* How far an adjtime that is inside has come: it works on the old ns and the
\* delta, and has written the words of the sum that come before its place.
AdjustInv ==
  \A c \in Caller : Inside(c) /\ op[c] = "adjtime" =>
    /\ pc[c] \in {"offset", "sec_h", "sec_l", "ns"}
    /\ pc[c] # "offset" => ts[c] = off.ns + arg[c]
    /\ pc[c] \in {"sec_l", "ns"} => off.sec_h = ((ts[c] \div NSEC) \div WORD) % WORD
    /\ pc[c] = "ns" => off.sec_l = (ts[c] \div NSEC) % WORD

\* Until a settime is inside the sum is that of the displacement.
SumInv == (\A c \in Caller : Inside(c) => op[c] # "settime") => want = Displacement

AddInv == TypeInv /\ LockInv /\ AdjustInv /\ SumInv

\* The three words of a sum, written, displace the clock by the delta.
LEMMA WordsAdd ==
  ASSUME NEW st \in Int, NEW ns \in Int, NEW d \in Int, NEW a \in Int, a = ns + d
  PROVE  LET h == ((a \div NSEC) \div WORD) % WORD
             l == (a \div NSEC) % WORD
             new == (st + h * WORD + l) % (WORD * WORD)
         IN (new * NSEC + (a % NSEC)) % Range64 = (((st * NSEC + ns) % Range64) + d) % Range64
PROOF
  <1> DEFINE u == a \div NSEC
             v == u \div WORD
             h == v % WORD
             l == u % WORD
             w == v \div WORD
             s == st + h * WORD + l
             z == s \div (WORD * WORD)
             new == s % (WORD * WORD)
             t == st * NSEC + ns
             y == t \div Range64
             m == t % Range64
             r == a % NSEC
  <1>1. /\ WORD \in Nat \ {0} /\ NSEC \in Nat \ {0} /\ WORD * WORD \in Nat \ {0}
        /\ Range64 \in Nat \ {0}
    BY Ranges
  <1>2. u \in Int /\ r \in Int /\ a = NSEC * u + r
    BY <1>1, DivMod
  <1>3. v \in Int /\ l \in Int /\ u = WORD * v + l
    <2> HIDE DEF u
    <2> QED
      BY <1>1, <1>2, DivMod
  <1>4. w \in Int /\ h \in Int /\ v = WORD * w + h
    <2>1. v \in Int /\ WORD \in Nat \ {0}
      BY <1>1, <1>3
    <2> HIDE DEF u, v
    <2> QED
      BY <2>1, DivMod
  <1> HIDE DEF u, v, h, l, w, r
  <1>5. s \in Int
    BY <1>1, <1>3, <1>4, SMT
  <1>6. t \in Int
    BY <1>1, SMT
  <1>7. z \in Int /\ new \in Int /\ s = WORD * WORD * z + new
    <2> DEFINE square == WORD * WORD
    <2>1. s \in Int /\ square \in Nat \ {0}
      BY <1>1, <1>5
    <2> HIDE DEF s, square
    <2>2. s \div square \in Int /\ s % square \in Int /\ s = square * (s \div square) + (s % square)
      BY <2>1, DivMod
    <2> QED
      BY <2>2 DEF square
  <1>8. y \in Int /\ m \in Int /\ t = Range64 * y + m
    <2> HIDE DEF t
    <2> QED
      BY <1>1, <1>6, DivMod
  <1>9. s = st + u - WORD * WORD * w
    BY <1>1, <1>3, <1>4, SMT DEF s
  <1> HIDE DEF z, new, y, m
  <1>10. new * NSEC + r = (m + d) + Range64 * (y - w - z)
    <2>1. new = st + u - WORD * WORD * w - WORD * WORD * z
      <3> HIDE DEF s
      <3> DEFINE p == WORD * WORD * w
                 q == WORD * WORD * z
      <3>1. p \in Int /\ q \in Int
        BY <1>1, <1>4, <1>7, SMT
      <3> HIDE DEF p, q
      <3>2. s = st + u - p /\ s = q + new
        BY <1>7, <1>9 DEF p, q
      <3>3. new = st + u - p - q
        BY <1>2, <1>7, <3>1, <3>2
      <3> QED
        BY <3>3 DEF p, q
    <2>2. new * NSEC + r = st * NSEC + (NSEC * u + r) - Range64 * (w + z)
      BY <1>1, <1>2, <1>4, <1>7, <2>1, SMT DEF Range64
    <2>3. new * NSEC + r = t + d - Range64 * (w + z)
      <3> DEFINE g == st * NSEC
                 k == Range64 * (w + z)
                 j == NSEC * u
      <3>1. g \in Int /\ k \in Int /\ j \in Int
        BY <1>1, <1>2, <1>4, <1>7, SMT
      <3>2. t = g + ns /\ a = j + r /\ new * NSEC + r = g + (j + r) - k
        BY <1>2, <2>2
      <3> HIDE DEF g, k, j, t
      <3>3. new * NSEC + r = t + d - k
        BY <1>2, <3>1, <3>2
      <3> QED
        BY <3>3 DEF k
    <2> HIDE DEF t
    <2> QED
      BY <1>1, <1>4, <1>7, <1>8, <2>3, SMT
  <1>11. (new * NSEC + r) % Range64 = (m + d) % Range64
    <2>1. m + d \in Int /\ y - w - z \in Int
      BY <1>4, <1>7, <1>8
    <2>2. ((m + d) + Range64 * (y - w - z)) % Range64 = (m + d) % Range64
      BY <1>1, <2>1, ModSame
    <2> QED
      BY <1>10, <2>2
  <1> QED
    BY <1>11 DEF new, m, r, s, h, l, v, u

\* The last write of a call of c that moves the clock by move, the two words of
\* the seconds written
LastWrite(c, move) ==
  /\ ts[c] = off.ns + move
  /\ off.sec_h = ((ts[c] \div NSEC) \div WORD) % WORD
  /\ off.sec_l = (ts[c] \div NSEC) % WORD
  /\ step' = (step + off.sec_h * WORD + off.sec_l) % (WORD * WORD)
  /\ off'.ns = ts[c] % NSEC

LEMMA AdjustedBy ==
  ASSUME TypeOK, NEW c \in Caller, NEW move \in Int, LastWrite(c, move)
  PROVE  Displacement' = (Displacement + move) % Range64
PROOF
  <1> DEFINE st == step
             ns == off.ns
             d  == move
             a  == ts[c]
  <1>1. st \in Int /\ ns \in Int /\ d \in Int /\ a \in Int /\ a = ns + d
    BY Ranges DEF TypeOK, LastWrite
  <1> HIDE DEF st, ns, d, a
  <1>2. LET h == ((a \div NSEC) \div WORD) % WORD
            l == (a \div NSEC) % WORD
            new == (st + h * WORD + l) % (WORD * WORD)
        IN (new * NSEC + (a % NSEC)) % Range64 = (((st * NSEC + ns) % Range64) + d) % Range64
    BY <1>1, WordsAdd
  <1>3. (step' * NSEC + off'.ns) % Range64 = (((step * NSEC + off.ns) % Range64) + move) % Range64
    BY <1>2, Zenon DEF st, ns, d, a, LastWrite
  <1> QED
    BY <1>3 DEF Displacement

\* Steps that leave the calls under way and the offset alone
LEMMA AddUntouched ==
  ASSUME LockInv, AdjustInv, SumInv, UNCHANGED <<step, off, reg_lock, op, pc, arg, ts, want>>
  PROVE  LockInv' /\ AdjustInv' /\ SumInv'
  BY DEF LockInv, AdjustInv, SumInv, Inside, Displacement

\* The words of an offset before the ns do not move the clock.
LEMMA AddCallerStep ==
  ASSUME AddInv, NEW c \in Caller, CallerStep(c)
  PROVE  LockInv' /\ AdjustInv' /\ SumInv'
PROOF
  <1>0. /\ LockInv /\ AdjustInv /\ SumInv
        /\ op \in [Caller -> Ops] /\ pc \in [Caller -> Pcs]
        /\ arg \in [Caller -> Int] /\ ts \in [Caller -> Int]
        /\ off \in [sec_h : 0 .. WORD - 1, sec_l : 0 .. WORD - 1, ns : 0 .. NSEC - 1]
    BY DEF AddInv, TypeInv, TypeOK
  \* Nobody else is inside when c enters or is inside.
  <1>1. ASSUME Inside(c) \/ Lock(c), NEW d \in Caller, d # c PROVE ~Inside(d)
    BY <1>0, <1>1, CallerAssumption DEF LockInv, Lock
  <1>2. ASSUME NEW o, NEW a, Call(c, o, a)
        PROVE  LockInv' /\ AdjustInv' /\ SumInv'
    <2>1. /\ pc[c] = "idle" /\ pc' = [pc EXCEPT ![c] = "lock"] /\ op' = [op EXCEPT ![c] = o]
          /\ arg' = [arg EXCEPT ![c] = a] /\ UNCHANGED <<step, off, reg_lock, ts, want>>
      BY <1>2 DEF Call, Goto, hw
    <2>2. ~Inside(c) /\ ~Inside(c)'
      BY <1>0, <2>1 DEF Inside
    <2>3. \A d \in Caller : d # c => /\ Inside(d)' = Inside(d) /\ pc'[d] = pc[d]
                                     /\ op'[d] = op[d] /\ arg'[d] = arg[d]
      BY <1>0, <2>1 DEF Inside
    <2>4. Displacement' = Displacement
      BY <2>1 DEF Displacement
    <2> QED
      BY <1>0, <2>1, <2>2, <2>3, <2>4 DEF LockInv, AdjustInv, SumInv
  <1>3. CASE Lock(c)
    <2>1. \A d \in Caller : ~Inside(d)
      BY <1>0, <1>3, CallerAssumption DEF LockInv, Lock
    <2>2. /\ reg_lock' = c /\ pc[c] = "lock"
          /\ op[c] = "adjtime" => pc'[c] = "offset"
          /\ \A d \in Caller : d # c => pc'[d] = pc[d]
          /\ UNCHANGED <<step, off, op, want>>
      BY <1>0, <1>3 DEF Lock, Goto, hw
    <2>3. \A d \in Caller : d # c => ~Inside(d)'
      BY <2>1, <2>2 DEF Inside
    <2>4. want' = Displacement'
      BY <1>0, <2>1, <2>2 DEF SumInv, Displacement
    <2> QED
      BY <2>2, <2>3, <2>4 DEF LockInv, AdjustInv, SumInv
  \* The others stay outside, and when c is not in a settime nobody is.
  <1>4. ASSUME Inside(c), \A d \in Caller : d # c => pc'[d] = pc[d],
               Inside(c)' => reg_lock' = c
        PROVE  /\ LockInv'
               /\ \A d \in Caller : d # c => ~Inside(d) /\ ~Inside(d)'
    <2>1. \A d \in Caller : d # c => ~Inside(d) /\ ~Inside(d)'
      BY <1>1, <1>4 DEF Inside
    <2> QED
      BY <1>4, <2>1 DEF LockInv
  <1>5. CASE TodReadNs(c)
    <2>1. /\ pc[c] = "tod_ns" /\ pc'[c] = "tod_sec" /\ \A d \in Caller : d # c => pc'[d] = pc[d]
          /\ UNCHANGED <<step, off, reg_lock, op, want>>
      BY <1>0, <1>5 DEF TodReadNs, Goto, hw
    <2>2. Inside(c) /\ Inside(c)' /\ reg_lock = c /\ op[c] # "adjtime"
      BY <1>0, <2>1 DEF Inside, LockInv, AdjustInv
    <2>3. LockInv' /\ \A d \in Caller : d # c => ~Inside(d) /\ ~Inside(d)'
      BY <1>4, <2>1, <2>2
    <2> QED
      BY <1>0, <2>1, <2>2, <2>3 DEF AdjustInv, SumInv, Displacement
  <1>6. CASE TodReadSec(c)
    <2> DEFINE tod == TodRead(ts[c], TimeOfDay)
    <2>1. /\ pc[c] = "tod_sec" /\ UNCHANGED <<step, off, want>>
          /\ IF op[c] = "gettime"
             THEN Return(c, tod)
             ELSE /\ ts' = [ts EXCEPT ![c] = SetDelta(arg[c], tod)]
                  /\ Goto(c, "sec_h")
                  /\ UNCHANGED <<reg_lock, op, arg, at>>
      BY <1>6 DEF TodReadSec, hw
    <2>2. Inside(c) /\ reg_lock = c /\ op[c] # "adjtime"
      BY <1>0, <2>1 DEF Inside, LockInv, AdjustInv
    <2> HIDE DEF tod
    <2>3. /\ \A d \in Caller : d # c => pc'[d] = pc[d]
          /\ \/ op[c] = "gettime" /\ pc'[c] = "idle"
             \/ op[c] # "gettime" /\ op' = op /\ pc'[c] = "sec_h" /\ reg_lock' = reg_lock
      BY <1>0, <2>1 DEF Return, Goto
    <2>4. LockInv' /\ \A d \in Caller : d # c => ~Inside(d) /\ ~Inside(d)'
      BY <1>4, <2>2, <2>3 DEF Inside
    <2> QED
      BY <1>0, <2>1, <2>2, <2>3, <2>4 DEF AdjustInv, SumInv, Inside, Displacement
  <1>7. CASE OffsetRead(c)
    <2>1. /\ pc[c] = "offset" /\ pc'[c] = "sec_h" /\ \A d \in Caller : d # c => pc'[d] = pc[d]
          /\ ts'[c] = off.ns + arg[c] /\ UNCHANGED <<step, off, reg_lock, op, arg, want>>
      BY <1>0, <1>7 DEF OffsetRead, NewOffset, Goto, hw
    <2>2. Inside(c) /\ Inside(c)' /\ reg_lock = c
      BY <1>0, <2>1 DEF Inside, LockInv
    <2>3. LockInv' /\ \A d \in Caller : d # c => ~Inside(d) /\ ~Inside(d)'
      BY <1>4, <2>1, <2>2
    <2> QED
      BY <1>0, <2>1, <2>2, <2>3 DEF AdjustInv, SumInv, Displacement
  <1>8. CASE WriteSecH(c)
    <2>1. /\ pc[c] = "sec_h" /\ pc'[c] = "sec_l" /\ \A d \in Caller : d # c => pc'[d] = pc[d]
          /\ off'.sec_h = ((ts[c] \div NSEC) \div WORD) % WORD /\ off'.ns = off.ns
          /\ UNCHANGED <<step, reg_lock, op, arg, ts, want>>
      BY <1>0, <1>8 DEF WriteSecH, Goto
    <2>2. Inside(c) /\ Inside(c)' /\ reg_lock = c
      BY <1>0, <2>1 DEF Inside, LockInv
    <2>3. LockInv' /\ \A d \in Caller : d # c => ~Inside(d) /\ ~Inside(d)'
      BY <1>4, <2>1, <2>2
    <2> QED
      BY <1>0, <2>1, <2>2, <2>3 DEF AdjustInv, SumInv, Displacement
  <1>9. CASE WriteSecL(c)
    <2>1. /\ pc[c] = "sec_l" /\ pc'[c] = "ns" /\ \A d \in Caller : d # c => pc'[d] = pc[d]
          /\ off'.sec_l = (ts[c] \div NSEC) % WORD /\ off'.ns = off.ns /\ off'.sec_h = off.sec_h
          /\ UNCHANGED <<step, reg_lock, op, arg, ts, want>>
      BY <1>0, <1>9 DEF WriteSecL, Goto
    <2>2. Inside(c) /\ Inside(c)' /\ reg_lock = c
      BY <1>0, <2>1 DEF Inside, LockInv
    <2>3. LockInv' /\ \A d \in Caller : d # c => ~Inside(d) /\ ~Inside(d)'
      BY <1>4, <2>1, <2>2
    <2> QED
      BY <1>0, <2>1, <2>2, <2>3 DEF AdjustInv, SumInv, Displacement
  <1>10. CASE WriteNs(c)
    <2>1. /\ pc[c] = "ns" /\ off'.ns = ts[c] % NSEC
          /\ step' = (step + off.sec_h * WORD + off.sec_l) % (WORD * WORD)
          /\ \/ /\ op[c] = "settime" /\ op' = op /\ pc' = [pc EXCEPT ![c] = "tod_ns"]
                /\ reg_lock' = reg_lock
             \/ /\ want' = IF op[c] = "adjtime" THEN (want + arg[c]) % Range64 ELSE Displacement'
                /\ pc' = [pc EXCEPT ![c] = "idle"]
      <3> HIDE DEF Displacement
      <3> QED
        BY <1>0, <1>10 DEF WriteNs, Goto, Return
    <2>2. Inside(c) /\ reg_lock = c
      BY <1>0, <2>1 DEF Inside, LockInv
    <2>3. \A d \in Caller : d # c => pc'[d] = pc[d]
      BY <1>0, <2>1
    <2>4. pc'[c] = "idle" \/ (reg_lock' = reg_lock /\ op'[c] = "settime" /\ Inside(c)')
      BY <1>0, <2>1 DEF Inside
    <2>5. LockInv' /\ \A d \in Caller : d # c => ~Inside(d) /\ ~Inside(d)'
      BY <1>4, <2>2, <2>3, <2>4 DEF Inside
    <2>6. AdjustInv'
      BY <2>4, <2>5 DEF AdjustInv, Inside
    <2>7. SumInv'
      <3>1. CASE op[c] = "settime" /\ op' = op /\ pc' = [pc EXCEPT ![c] = "tod_ns"]
        BY <1>0, <3>1 DEF SumInv, Inside
      <3>2. CASE want' = IF op[c] = "adjtime" THEN (want + arg[c]) % Range64 ELSE Displacement'
        <4>1. CASE op[c] # "adjtime"
          BY <3>2, <4>1 DEF SumInv
        <4>2. CASE op[c] = "adjtime"
          <5>1. want = Displacement
            BY <2>5, <4>2, <1>0 DEF SumInv
          <5>2. /\ ts[c] = off.ns + arg[c]
                /\ off.sec_h = ((ts[c] \div NSEC) \div WORD) % WORD
                /\ off.sec_l = (ts[c] \div NSEC) % WORD
            BY <1>0, <2>1, <2>2, <4>2 DEF AdjustInv
          <5>3. Displacement' = (Displacement + arg[c]) % Range64
            <6>1. arg[c] \in Int /\ LastWrite(c, arg[c]) /\ TypeOK
              BY <1>0, <2>1, <5>2 DEF AddInv, TypeInv, LastWrite
            <6> QED
              BY <6>1, AdjustedBy
          <5> QED
            BY <3>2, <4>2, <5>1, <5>3 DEF SumInv
        <4> QED
          BY <4>1, <4>2
      <3> QED
        BY <2>1, <3>1, <3>2
    <2> QED
      BY <2>5, <2>6, <2>7
  <1> QED
    BY <1>2, <1>3, <1>5, <1>6, <1>7, <1>8, <1>9, <1>10 DEF CallerStep

LEMMA AddKept ==
  ASSUME AddInv, [Next]_vars
  PROVE  AddInv'
PROOF
  <1>1. TypeInv'
    BY TypeKept DEF AddInv
  <1>2. LockInv /\ AdjustInv /\ SumInv
    BY DEF AddInv
  <1>3. ASSUME NEW c \in Caller, CallerStep(c) PROVE LockInv' /\ AdjustInv' /\ SumInv'
    BY <1>3, AddCallerStep
  <1>4. ASSUME UNCHANGED vars \/ Tick \/ (\E p \in Ppbs : AdjFreq(p)) \/ Enable \/ Interrupt \/ Event
               \/ Probe \/ RequestIrq \/ FreeIrq \/ Unregister
        PROVE  UNCHANGED <<step, off, reg_lock, op, pc, arg, ts, want>>
    BY <1>4 DEF vars, hw, calls, Tick, AdjFreq, Enable, Interrupt, Event, Probe, RequestIrq, FreeIrq, Unregister
  <1>5. LockInv' /\ AdjustInv' /\ SumInv'
    BY <1>2, <1>3, <1>4, AddUntouched DEF Next
  <1> QED
    BY <1>1, <1>5 DEF AddInv

LEMMA AddAtInit == Init => AddInv
PROOF
  <1> SUFFICES ASSUME Init PROVE AddInv
    OBVIOUS
  <1>1. \A c \in Caller : ~Inside(c)
    BY DEF Init, Inside
  <1>2. want = Displacement
    <2>1. step * NSEC + off.ns = Range64 * 0 + 0
      BY Ranges, SMT DEF Init
    <2>2. (Range64 * 0 + 0) % Range64 = 0
      BY Ranges, ModUnique
    <2> QED
      BY <2>1, <2>2 DEF Init, Displacement
  <1> QED
    BY <1>1, <1>2, TypeAtInit DEF AddInv, LockInv, AdjustInv, SumInv

\* Whoever calls adjtime and settime, however their calls meet, and whatever the
\* size of a word and of a second: whenever the lock is free, the clock is
\* displaced by the sum of what adjtime was asked for since the last settime.
THEOREM AdjustmentsCorrect == Spec => []AdjustmentsAddUp
PROOF
  <1>1. Spec => []AddInv
    BY AddAtInit, AddKept, PTL DEF Spec
  <1>2. AddInv => AdjustmentsAddUp
    BY CallerAssumption DEF AddInv, LockInv, SumInv, AdjustmentsAddUp
  <1> QED
    BY <1>1, <1>2, PTL

-----------------------------------------------------------------------------
(* Reading and setting the time: the arithmetic *)

\* The time t tells a, or a second more, as far as the low word of the seconds
\* goes.
Tells(a, t) == (t - a) % (WORD * NSEC) \in {0, NSEC}

\* The quotient, and the modulus by another multiple
LEMMA DivUnique ==
  ASSUME NEW n \in Nat \ {0}, NEW q \in Int, NEW r \in 0 .. n - 1
  PROVE  (n * q + r) \div n = q
PROOF
  <1> DEFINE p == (n * q + r) \div n
             s == (n * q + r) % n
  <1>1. p \in Int /\ s \in 0 .. n - 1 /\ n * q + r = n * p + s
    BY DivMod, SMT
  <1>2. s = r
    BY ModUnique
  <1> HIDE DEF p, s
  <1>3. n * (p - q) = 0 /\ n * (q - p) = 0
    BY <1>1, <1>2, SMT
  <1>4. ~(p - q >= 1) /\ ~(q - p >= 1)
    <2>1. CASE p - q >= 1
      BY <1>1, <1>3, <2>1, ProductBound, SMT
    <2>2. CASE q - p >= 1
      BY <1>1, <1>3, <2>2, ProductBound, SMT
    <2> QED
      BY <2>1, <2>2
  <1> QED
    BY <1>1, <1>4 DEF p

\* What is between -n and n, and a multiple of n, is 0.
LEMMA MultipleBetween ==
  ASSUME NEW n \in Nat \ {0}, NEW k \in Int, n * k < n
  PROVE  k <= 0
  BY ProductBound, SMT

LEMMA Word32 ==
  /\ WORD * NSEC \in Nat \ {0} /\ NSEC < WORD * NSEC
  /\ Range64 = (WORD * NSEC) * WORD /\ Range64 = NSEC * (WORD * WORD)
PROOF
  <1>1. WORD \in Nat /\ WORD > 1 /\ NSEC \in Nat /\ NSEC > 1
    BY WordAssumption
  <1>2. WORD * NSEC \in Nat \ {0} /\ NSEC < WORD * NSEC
    BY <1>1, SMT
  <1>3. Range64 = (WORD * NSEC) * WORD /\ Range64 = NSEC * (WORD * WORD)
    BY <1>1, SMT DEF Range64
  <1> QED
    BY <1>2, <1>3

\* Two reads of the clock less than a second apart: the time made of them is
\* that of the first, or a second more when the seconds have changed in between.
LEMMA TornRead ==
  ASSUME NEW a \in Int, NEW b \in Int, b - a \in 0 .. NSEC - 1
  PROVE  LET tod == TodRead(a % Range64, b % Range64)
         IN /\ tod \in 0 .. WORD * NSEC - 1
            /\ (tod - a) % (WORD * NSEC) \in IF a = b THEN {0} ELSE {0, NSEC}
PROOF
  <1> DEFINE qa == a \div NSEC
             ra == a % NSEC
             qb == b \div NSEC
             rb == b % NSEC
             za == a \div Range64
             zb == b \div Range64
             first == a % Range64
             second == b % Range64
             k == qb \div WORD
             l == qb % WORD
             m == WORD * NSEC
  <1>0. /\ WORD \in Nat \ {0} /\ NSEC \in Nat \ {0} /\ Range64 \in Nat \ {0}
        /\ m \in Nat \ {0} /\ NSEC < m
        /\ WORD * WORD \in Nat /\ Range64 = NSEC * (WORD * WORD)
    BY Ranges, Word32
  <1>1. /\ qa \in Int /\ ra \in 0 .. NSEC - 1 /\ a = NSEC * qa + ra
        /\ qb \in Int /\ rb \in 0 .. NSEC - 1 /\ b = NSEC * qb + rb
        /\ za \in Int /\ a = Range64 * za + first
        /\ zb \in Int /\ b = Range64 * zb + second
    BY <1>0, DivMod
  <1>2. first \in Int /\ second \in Int
    BY <1>0, DivMod
  <1> HIDE DEF qa, ra, qb, rb, za, zb, first, second, m
  <1>3. k \in Int /\ l \in 0 .. WORD - 1 /\ qb = WORD * k + l
    BY <1>0, <1>1, DivMod
  <1>4. first % NSEC = ra
    <2> DEFINE x == (WORD * WORD) * (-za)
    <2>1. x \in Int
      BY <1>0, <1>1, SMT
    <2>2. first = NSEC * (qa + x) + ra
      BY <1>0, <1>1, <1>2, SMT
    <2> HIDE DEF x
    <2> QED
      BY <1>0, <1>1, <2>1, <2>2, ModUnique
  <1>5. (second \div NSEC) % WORD = l
    <2> DEFINE x == (WORD * WORD) * (-zb)
               y == WORD * (-zb)
    <2>1. x \in Int /\ y \in Int /\ x = WORD * y
      BY <1>0, <1>1, SMT
    <2>2. second = NSEC * (qb + x) + rb
      BY <1>0, <1>1, <1>2, SMT
    <2> HIDE DEF x, y
    <2>3. second \div NSEC = qb + x
      BY <1>0, <1>1, <2>1, <2>2, DivUnique
    <2>4. (qb + WORD * y) % WORD = qb % WORD
      BY <1>0, <1>1, <2>1, ModSame
    <2> QED
      BY <2>1, <2>3, <2>4
  <1> HIDE DEF k, l
  <1>6. TodRead(first, second) = l * NSEC + ra
    BY <1>4, <1>5 DEF TodRead
  <1>7. l * NSEC + ra \in 0 .. m - 1
    <2>1. (WORD - 1 - l) * NSEC \in Nat /\ l * NSEC \in Nat
      BY <1>0, <1>3, SMT
    <2>2. (WORD - 1 - l) * NSEC = m - NSEC - l * NSEC
      BY <1>0, <1>3, SMT DEF m
    <2> DEFINE u == l * NSEC
               v == (WORD - 1 - l) * NSEC
    <2> HIDE DEF u, v
    <2>3. u \in Nat /\ v \in Nat /\ v = m - NSEC - u
      BY <2>1, <2>2 DEF u, v
    <2>4. u + ra \in 0 .. m - 1
      BY <1>0, <1>1, <2>3
    <2> QED
      BY <2>4 DEF u
  <1>8. qb = qa \/ (qb = qa + 1 /\ a # b)
    <2>1. NSEC * (qa - qb) = rb - ra - (b - a) /\ NSEC * (qb - qa - 1) = (b - a) + ra - rb - NSEC
      BY <1>0, <1>1, SMT
    <2>2. NSEC * (qa - qb) < NSEC /\ NSEC * (qb - qa - 1) < NSEC
      <3> DEFINE u == NSEC * (qa - qb)
                 v == NSEC * (qb - qa - 1)
      <3> HIDE DEF u, v
      <3>1. u = rb - ra - (b - a) /\ v = (b - a) + ra - rb - NSEC
        BY <2>1 DEF u, v
      <3>2. u < NSEC /\ v < NSEC
        BY <1>0, <1>1, <3>1
      <3> QED
        BY <3>2 DEF u, v
    <2>3. qa - qb <= 0 /\ qb - qa - 1 <= 0
      BY <1>0, <1>1, <2>2, MultipleBetween
    <2>4. a = b => qa = qb
      BY DEF qa, qb
    <2> QED
      BY <1>1, <2>3, <2>4
  <1>9. ASSUME NEW e \in {0, NSEC}, NSEC * qb = NSEC * qa + e
        PROVE  ((l * NSEC + ra) - a) % m = e
    <2>1. (l * NSEC + ra) - a = m * (-k) + e
      <3>1. NSEC * qb = m * k + l * NSEC
        BY <1>0, <1>3, SMT DEF m
      <3> DEFINE u == l * NSEC
                 v == m * k
                 w == NSEC * qa
                 z == NSEC * qb
      <3>2. u \in Int /\ v \in Int /\ w \in Int /\ m * (-k) = -v
        BY <1>0, <1>1, <1>3, SMT
      <3> HIDE DEF u, v, w, z
      <3>3. z = v + u /\ z = w + e /\ a = w + ra
        BY <1>1, <1>9, <3>1 DEF u, v, w, z
      <3>4. (u + ra) - a = -v + e
        BY <1>0, <1>1, <3>2, <3>3
      <3> QED
        BY <3>2, <3>4 DEF u, v
    <2>2. e \in 0 .. m - 1 /\ -k \in Int
      BY <1>0, <1>3
    <2>3. (m * (-k) + e) % m = e
      BY <1>0, <2>2, ModUnique
    <2> QED
      BY <2>1, <2>3, Zenon
  <1>10. ((l * NSEC + ra) - a) % m \in IF a = b THEN {0} ELSE {0, NSEC}
    <2>1. CASE qb = qa
      <3>1. NSEC * qb = NSEC * qa + 0
        BY <1>0, <1>1, <2>1, SMT
      <3> QED
        BY <1>9, <3>1
    <2>2. CASE qb = qa + 1 /\ a # b
      <3>1. NSEC * qb = NSEC * qa + NSEC
        BY <1>0, <1>1, <2>2, SMT
      <3> QED
        BY <1>9, <2>2, <3>1
    <2> QED
      BY <1>8, <2>1, <2>2
  <1> DEFINE tod == TodRead(first, second)
             u == l * NSEC + ra
  <1>11. tod = u
    BY <1>6
  <1>12. u \in 0 .. m - 1 /\ (u - a) % m \in IF a = b THEN {0} ELSE {0, NSEC}
    BY <1>7, <1>10
  <1> HIDE DEF tod, u
  <1>13. tod \in 0 .. m - 1 /\ (tod - a) % m \in IF a = b THEN {0} ELSE {0, NSEC}
    BY <1>11, <1>12
  <1> QED
    BY <1>13, Zenon DEF tod, m, first, second

\* A difference modulo n, spelt out
LEMMA ModIs ==
  ASSUME NEW n \in Nat \ {0}, NEW x \in Int
  PROVE  \E g \in Int : x = n * g + (x % n)
  BY DivMod

\* Less than twice n away from 0, a multiple of n is one of three.
LEMMA NearMultiple ==
  ASSUME NEW n \in Nat \ {0}, NEW k \in Int, -(2 * n) < n * k, n * k < n
  PROVE  k \in {-1, 0}
PROOF
  <1>1. n * (-k - 1) < n /\ -k - 1 \in Int
    <2> DEFINE u == n * k
    <2>1. u \in Int /\ n * (-k - 1) = -u - n
      BY SMT
    <2>2. -(2 * n) < u
      OBVIOUS
    <2> HIDE DEF u
    <2>3. -u - n < n
      BY <2>1, <2>2
    <2> QED
      BY <2>1, <2>3
  <1>2. k <= 0
    BY MultipleBetween
  <1>3. -k - 1 <= 0
    BY <1>1, MultipleBetween
  <1> QED
    BY <1>2, <1>3

\* What the cut of settime makes of a difference
LEMMA Cut ==
  ASSUME NEW d \in Int
  PROVE  /\ d >= 0 => (IF d \div NSEC <= 0 THEN d % NSEC ELSE d) = d
         /\ -NSEC <= d /\ d < 0 => (IF d \div NSEC <= 0 THEN d % NSEC ELSE d) = d + NSEC
PROOF
  <1> DEFINE q == d \div NSEC
             r == d % NSEC
  <1>1. NSEC \in Nat \ {0} /\ q \in Int /\ r \in 0 .. NSEC - 1 /\ d = NSEC * q + r
    BY Ranges, DivMod
  <1>2. d >= 0 /\ q <= 0 => r = d
    <2> HIDE DEF q, r
    <2> SUFFICES ASSUME d >= 0, q <= 0 PROVE r = d
      OBVIOUS
    <2>1. NSEC * (-q) < NSEC
      <3> DEFINE u == NSEC * q
      <3>1. NSEC * (-q) = -u /\ u \in Int /\ d = u + r
        BY <1>1, SMT
      <3> HIDE DEF u
      <3> QED
        BY <1>1, <3>1
    <2>2. -q <= 0
      BY <1>1, <2>1, MultipleBetween
    <2>3. q = 0
      BY <1>1, <2>2
    <2> QED
      BY <1>1, <2>3
  <1>3. -NSEC <= d /\ d < 0 => q <= 0 /\ r = d + NSEC
    <2> SUFFICES ASSUME -NSEC <= d, d < 0 PROVE q <= 0 /\ r = d + NSEC
      OBVIOUS
    <2>1. d = NSEC * (-1) + (d + NSEC) /\ d + NSEC \in 0 .. NSEC - 1
      BY <1>1
    <2>2. r = d + NSEC
      BY <1>1, <2>1, ModUnique
    <2>3. q = -1
      BY <1>1, <2>1, DivUnique
    <2> QED
      BY <2>2, <2>3
  <1> QED
    <2> HIDE DEF q, r
    <2>1. /\ d >= 0 => (IF q <= 0 THEN r ELSE d) = d
          /\ -NSEC <= d /\ d < 0 => (IF q <= 0 THEN r ELSE d) = d + NSEC
      BY <1>1, <1>2, <1>3
    <2> QED
      BY <2>1, Zenon DEF q, r

\* settime to a time that is not before what the clock reads, or at a clock that
\* reads half of its seconds, lands there, or a second before it.
LEMMA SetLands ==
  ASSUME NEW a \in Int, NEW t \in Int, NEW tod \in 0 .. WORD * NSEC - 1, Tells(a, tod),
         LET read == a % (WORD * NSEC)
         IN read <= t % (WORD * NSEC) \/ read \div NSEC >= WORD \div 2
  PROVE  \E e \in {0, NSEC}, i \in Int :
           (t % (WORD * NSEC)) - (a + SetDelta(t, tod)) = (WORD * NSEC) * i + e
PROOF
  <1> DEFINE m == WORD * NSEC
             read == a % m
             wanted == t % m
             high == tod \div NSEC >= WORD \div 2
             sec == (tod \div NSEC) - (IF high THEN WORD ELSE 0)
             delta == wanted - (sec * NSEC + (tod % NSEC))
             cut == SetDelta(t, tod)
             e == (tod - a) % m
  <1>0. WORD \in Nat \ {0} /\ NSEC \in Nat \ {0} /\ m \in Nat \ {0} /\ NSEC < m
    BY Ranges, Word32
  <1>1. PICK p \in Int : a = m * p + read
    BY <1>0, ModIs
  <1>2. read \in 0 .. m - 1 /\ wanted \in 0 .. m - 1 /\ tod \in 0 .. m - 1
    BY <1>0, DivMod
  <1>3. PICK g \in Int : tod - a = m * g + e
    <2>1. tod - a \in Int
      BY <1>0, <1>2
    <2> QED
      BY <1>0, <2>1, ModIs
  <1>4. e \in {0, NSEC}
    BY DEF Tells
  <1>5. read <= wanted \/ read \div NSEC >= WORD \div 2
    OBVIOUS
  <1>6. /\ tod \div NSEC \in Int /\ tod % NSEC \in 0 .. NSEC - 1
        /\ tod = NSEC * (tod \div NSEC) + (tod % NSEC)
        /\ read \div NSEC \in Int /\ read % NSEC \in 0 .. NSEC - 1
        /\ read = NSEC * (read \div NSEC) + (read % NSEC)
        /\ WORD \div 2 \in Int
    <2> HIDE DEF read
    <2>1. tod \in Int /\ read \in Int /\ WORD \in Int /\ 2 \in Nat \ {0}
      BY <1>0, <1>2
    <2>2. WORD \div 2 \in Int
      BY <2>1, DivMod
    <2> QED
      BY <1>0, <2>1, <2>2, DivMod, Zenon
  <1>7. cut = IF delta \div NSEC <= 0 THEN delta % NSEC ELSE delta
    BY DEF SetDelta
  <1>8. delta = (wanted - tod) + (IF high THEN m ELSE 0)
    <2> HIDE DEF wanted, high
    <2> DEFINE q == tod \div NSEC
               r == tod % NSEC
               ds == IF high THEN WORD ELSE 0
               dm == IF high THEN m ELSE 0
    <2>1. q \in Int /\ r \in Int /\ tod = NSEC * q + r /\ ds \in Int /\ dm = ds * NSEC
      BY <1>0, <1>6, SMT
    <2> HIDE DEF q, r, ds, dm
    <2>2. (q - ds) * NSEC = NSEC * q - dm
      BY <1>0, <2>1, SMT
    <2> DEFINE u == NSEC * q
               v == (q - ds) * NSEC
    <2>3. u \in Int /\ dm \in Int /\ tod = u + r /\ v = u - dm
      BY <1>0, <2>1, <2>2, SMT
    <2> HIDE DEF u, v
    <2>4. wanted - (v + r) = (wanted - tod) + dm
      BY <1>0, <1>2, <2>1, <2>3
    <2> QED
      BY <2>4 DEF v, q, r, ds, dm
  <1> HIDE DEF m, read, wanted, delta, cut, e, sec
  \* The clock tells its time, or a second more.
  <1>9. /\ g + p \in {-1, 0}
        /\ tod = read + e + m * (g + p)
    <2> DEFINE u == m * g
               v == m * p
               w == m * (g + p)
    <2>1. u \in Int /\ v \in Int /\ w = u + v /\ g + p \in Int
      BY <1>0, SMT
    <2>2. tod - a = u + e /\ a = v + read
      BY <1>1, <1>3
    <2> HIDE DEF u, v, w
    <2>3. tod = read + e + w /\ -(2 * m) < w /\ w < m
      BY <1>0, <1>2, <1>4, <2>1, <2>2
    <2>4. g + p \in {-1, 0}
      BY <1>0, <2>1, <2>3, NearMultiple DEF w
    <2> QED
      BY <2>3, <2>4 DEF w
  <1>10. delta \in Int
    BY <1>0, <1>2, <1>8
  <1>11. /\ delta >= 0 => cut = delta
         /\ -NSEC <= delta /\ delta < 0 => cut = delta + NSEC
    BY <1>7, <1>10, Cut
  \* Either the difference is not negative, and stays whole,
  <1>12. CASE delta >= 0
    <2> DEFINE h == IF high THEN 1 ELSE 0
               u == m * g
               v == m * (g - h)
    <2>1. u \in Int /\ v = u - (IF high THEN m ELSE 0) /\ g - h \in Int
      BY <1>0, SMT
    <2>2. tod - a = u + e
      BY <1>3
    <2> HIDE DEF u, v, h
    <2>3. wanted - (a + cut) = v + e
      BY <1>0, <1>2, <1>4, <1>8, <1>11, <1>12, <2>1, <2>2
    <2> QED
      BY <1>4, <2>1, <2>3 DEF v, m, wanted, cut
  \* or it is negative by less than a second, and is cut to what is missing.
  <1>13. CASE delta < 0
    <2>1. ~high /\ delta = wanted - tod
      BY <1>0, <1>2, <1>8, <1>13
    <2>2. e = NSEC
      <3> SUFFICES ASSUME e # NSEC PROVE FALSE
        OBVIOUS
      <3>1. e = 0
        BY <1>4
      <3> DEFINE w == m * (g + p)
      <3>2. w = 0 \/ w = -m
        BY <1>0, <1>9, SMT
      <3>3. tod = read + e + w
        BY <1>9
      <3> HIDE DEF w
      <3>4. tod = read
        BY <1>0, <1>2, <3>1, <3>2, <3>3
      <3>5. wanted < read
        BY <1>0, <1>2, <1>13, <2>1, <3>4
      <3>6. read \div NSEC >= WORD \div 2
        BY <1>2, <1>5, <3>5
      <3> QED
        BY <2>1, <3>4, <3>6 DEF high
    <2>3. CASE g + p = 0
      <3>1. m * (g + p) = 0
        BY <1>0, <2>3, SMT
      <3>2. tod = read + NSEC
        BY <1>0, <1>2, <1>9, <2>2, <3>1
      <3>3. read \div NSEC < WORD \div 2
        <4> DEFINE q == read \div NSEC
                   r == read % NSEC
                   n == tod \div NSEC
                   u == NSEC * q
        <4>1. q \in Int /\ r \in 0 .. NSEC - 1 /\ read = NSEC * q + r
          BY <1>6
        <4>2. NSEC * (q + 1) = u + NSEC /\ u \in Int /\ read = u + r /\ q + 1 \in Int
          BY <1>0, <4>1, SMT
        <4> HIDE DEF q, r, u, n
        <4>3. tod = NSEC * (q + 1) + r
          BY <1>0, <1>2, <3>2, <4>1, <4>2
        <4>4. (NSEC * (q + 1) + r) \div NSEC = q + 1
          BY <1>0, <4>1, <4>2, DivUnique
        <4>5. n = q + 1
          BY <4>3, <4>4, Zenon DEF n
        <4>6. n < WORD \div 2
          BY <1>6, <2>1 DEF high, n
        <4>7. q < WORD \div 2
          BY <1>6, <4>1, <4>5, <4>6
        <4> QED
          BY <4>7 DEF q
      <3>4. read <= wanted
        <4>1. ~(read \div NSEC >= WORD \div 2)
          BY <1>6, <3>3
        <4> QED
          BY <1>5, <4>1
      <3>5. cut = wanted - read
        BY <1>0, <1>2, <1>11, <1>13, <2>1, <3>2, <3>4
      <3> DEFINE v == m * p
                 w == m * (-p)
      <3>6. v \in Int /\ w = -v /\ -p \in Int
        BY <1>0, SMT
      <3>7. a = v + read
        BY <1>1
      <3> HIDE DEF v, w
      <3>8. wanted - (a + cut) = w + 0
        BY <1>0, <1>2, <3>5, <3>6, <3>7
      <3> QED
        BY <3>6, <3>8 DEF w, m, wanted, cut
    <2>4. CASE g + p = -1
      <3>1. m * (g + p) = -m
        BY <1>0, <2>4, SMT
      <3>2. tod = read + NSEC - m
        BY <1>0, <1>2, <1>9, <2>2, <3>1
      <3>3. cut = wanted - read + m
        BY <1>0, <1>2, <1>11, <1>13, <2>1, <3>2
      <3> DEFINE v == m * p
                 w == m * (-p - 1)
      <3>4. v \in Int /\ w = -v - m /\ -p - 1 \in Int
        BY <1>0, SMT
      <3>5. a = v + read
        BY <1>1
      <3> HIDE DEF v, w
      <3>6. wanted - (a + cut) = w + 0
        BY <1>0, <1>2, <3>3, <3>4, <3>5
      <3> QED
        BY <3>4, <3>6 DEF w, m, wanted, cut
    <2> QED
      BY <1>9, <2>3, <2>4
  <1> QED
    BY <1>10, <1>12, <1>13

-----------------------------------------------------------------------------
(* Reading and setting the time: the calls *)

\* A call between its two reads of the clock: less than a second has passed, and
\* nobody has moved the clock.
ReadInv(c) ==
  pc[c] = "tod_sec" =>
    /\ at[c] <= free /\ free < at[c] + NSEC
    /\ ts[c] = (at[c] + Displacement) % Range64

\* Before its last write a call has written the words of its seconds.
WrittenInv(c) ==
  /\ pc[c] \in {"sec_l", "ns"} => off.sec_h = ((ts[c] \div NSEC) \div WORD) % WORD
  /\ pc[c] = "ns" => off.sec_l = (ts[c] \div NSEC) % WORD

\* A settime works on the offset 0 first.  It then reads the clock without an
\* ns offset, and works on the difference.
SetInv(c) ==
  /\ zeroed[c] => Inside(c) /\ op[c] = "settime"
  /\ Inside(c) /\ op[c] = "settime" =>
       IF zeroed[c]
       THEN /\ off.ns = 0
            /\ pc[c] \in {"tod_ns", "tod_sec", "sec_h", "sec_l", "ns"}
            /\ pc[c] \in {"sec_h", "sec_l", "ns"} =>
                 \E tod \in 0 .. WORD * NSEC - 1 :
                   Tells(at[c] + Displacement, tod) /\ ts[c] = SetDelta(arg[c], tod)
       ELSE pc[c] \in {"sec_h", "sec_l", "ns"} /\ ts[c] = 0

CallInv(c) == ReadInv(c) /\ WrittenInv(c) /\ SetInv(c)

ClockInv == AddInv /\ \A c \in Caller : CallInv(c)

\* What c says of the clock between its two reads
LEMMA ClockRead ==
  ASSUME TypeOK, NEW c \in Caller, ReadInv(c), pc[c] = "tod_sec"
  PROVE  LET tod == TodRead(ts[c], TimeOfDay)
             a   == at[c] + Displacement
         IN /\ tod \in 0 .. WORD * NSEC - 1 /\ Tells(a, tod)
            /\ (tod - a) % (WORD * NSEC) < free - at[c] + NSEC
PROOF
  <1> DEFINE a == at[c] + Displacement
             b == free + Displacement
             tod == TodRead(ts[c], TimeOfDay)
             m == WORD * NSEC
  <1>1. NSEC \in Nat \ {0} /\ free \in Nat /\ at[c] \in Nat /\ Displacement \in Int
    BY Ranges, TimeType DEF TypeOK
  <1>2. at[c] <= free /\ free < at[c] + NSEC /\ ts[c] = a % Range64
    BY DEF ReadInv
  <1>3. TimeOfDay = b % Range64
    BY DEF TimeOfDay
  <1> HIDE DEF Displacement, TimeOfDay
  <1>4. a \in Int /\ b \in Int /\ b - a \in 0 .. NSEC - 1 /\ (a = b => free = at[c]) /\ b - a = free - at[c]
    BY <1>1, <1>2
  <1>5. tod = TodRead(a % Range64, b % Range64)
    BY <1>2, <1>3
  <1> HIDE DEF a, b, tod
  <1>6. /\ tod \in 0 .. WORD * NSEC - 1
        /\ (tod - a) % (WORD * NSEC) \in IF a = b THEN {0} ELSE {0, NSEC}
    BY <1>4, <1>5, TornRead, Zenon
  <1> DEFINE e == (tod - a) % (WORD * NSEC)
  <1>7. e \in IF a = b THEN {0} ELSE {0, NSEC}
    BY <1>6
  <1> HIDE DEF e
  <1>8. e \in {0, NSEC} /\ e < free - at[c] + NSEC
    <2>1. CASE a = b
      BY <1>1, <1>2, <1>4, <1>7, <2>1
    <2>2. CASE a # b
      <3>1. free - at[c] > 0
        BY <1>1, <1>4, <2>2
      <3> QED
        BY <1>1, <1>7, <2>2, <3>1
    <2> QED
      BY <2>1, <2>2
  <1> QED
    BY <1>6, <1>8 DEF a, tod, e, Tells

\* Steps that leave the calls and the clock alone, Tick apart
LEMMA ClockUntouched ==
  ASSUME NEW c \in Caller, CallInv(c),
         free' = free, step' = step, off' = off,
         pc'[c] = pc[c], op'[c] = op[c], arg'[c] = arg[c], ts'[c] = ts[c], at'[c] = at[c],
         zeroed'[c] = zeroed[c]
  PROVE  CallInv(c)'
PROOF
  <1>1. Displacement' = Displacement
    BY DEF Displacement
  <1> QED
    BY <1>1 DEF CallInv, ReadInv, WrittenInv, SetInv, Inside

LEMMA ClockCallerStep ==
  ASSUME ClockInv, NEW c \in Caller, CallerStep(c)
  PROVE  \A d \in Caller : CallInv(d)'
PROOF
  <1>0. /\ LockInv /\ AdjustInv /\ TypeOK /\ NamedInv /\ CallInv(c)
        /\ op \in [Caller -> Ops] /\ pc \in [Caller -> Pcs] /\ zeroed \in [Caller -> BOOLEAN]
        /\ arg \in [Caller -> Int] /\ ts \in [Caller -> Int] /\ at \in [Caller -> Nat]
        /\ off \in [sec_h : 0 .. WORD - 1, sec_l : 0 .. WORD - 1, ns : 0 .. NSEC - 1]
    BY DEF ClockInv, AddInv, TypeInv, TypeOK
  \* The others
  <1>1. ASSUME NEW d \in Caller, d # c
        PROVE  CallInv(d)'
    <2> DEFINE Same == /\ pc'[d] = pc[d] /\ op'[d] = op[d] /\ arg'[d] = arg[d] /\ ts'[d] = ts[d]
                       /\ at'[d] = at[d] /\ zeroed'[d] = zeroed[d]
    <2>1. Same
      <3> HIDE DEF Displacement
      <3> USE <1>0, <1>1
      <3>1. ASSUME NEW o, NEW a, Call(c, o, a) PROVE Same
        BY <3>1 DEF Call, Goto, hw
      <3>2. CASE Lock(c)
        BY <3>2 DEF Lock, Goto
      <3>3. CASE TodReadNs(c)
        BY <3>3 DEF TodReadNs, Goto
      <3>4. CASE TodReadSec(c)
        BY <3>4 DEF TodReadSec, Goto, Return
      <3>5. CASE OffsetRead(c) \/ WriteSecH(c) \/ WriteSecL(c)
        BY <3>5 DEF OffsetRead, WriteSecH, WriteSecL, Goto
      <3>6. CASE WriteNs(c)
        BY <3>6 DEF WriteNs, Goto, Return
      <3> QED
        BY <3>1, <3>2, <3>3, <3>4, <3>5, <3>6 DEF CallerStep
    <2>2. CallInv(d)
      BY DEF ClockInv
    <2>3. CASE UNCHANGED <<free, step, off>>
      BY <2>1, <2>2, <2>3, ClockUntouched
    <2>4. CASE Inside(c)
      <3>1. ~Inside(d)
        BY <1>0, <1>1, <2>4 DEF LockInv
      <3>2. ~Inside(d)' /\ ~zeroed'[d]
        BY <1>0, <2>1, <2>2, <3>1 DEF Inside, CallInv, SetInv
      <3> QED
        BY <3>2 DEF CallInv, ReadInv, WrittenInv, SetInv, Inside
    <2>5. Inside(c) \/ UNCHANGED <<free, step, off>>
      BY <1>0 DEF CallerStep, Call, Lock, TodReadNs, TodReadSec, OffsetRead, WriteSecH, WriteSecL, WriteNs, Inside, hw
    <2> QED
      BY <2>3, <2>4, <2>5
  \* The caller itself
  <1>2. CallInv(c)'
    <2>1. ASSUME NEW o, NEW a, Call(c, o, a) PROVE CallInv(c)'
      <3>1. pc[c] = "idle" /\ pc'[c] = "lock" /\ zeroed' = zeroed
        BY <1>0, <2>1 DEF Call, Goto
      <3> QED
        BY <1>0, <3>1 DEF CallInv, ReadInv, WrittenInv, SetInv, Inside
    <2>2. CASE Lock(c)
      <3>1. /\ pc[c] = "lock" /\ zeroed' = zeroed /\ op' = op /\ ts'[c] = 0
            /\ pc'[c] \in {"tod_ns", "offset", "sec_h"} /\ (op[c] = "settime" => pc'[c] = "sec_h")
        <4>1. op[c] \in {"gettime", "adjtime", "settime"}
          BY <1>0, <2>2 DEF Lock, NamedInv, Ops
        <4> QED
          BY <1>0, <2>2, <4>1 DEF Lock, Goto
      <3> QED
        BY <1>0, <3>1 DEF CallInv, ReadInv, WrittenInv, SetInv, Inside
    <2>3. CASE TodReadNs(c)
      <3>1. /\ pc[c] = "tod_ns" /\ pc'[c] = "tod_sec" /\ at'[c] = free /\ ts'[c] = (free + Displacement) % Range64
            /\ free' = free /\ off' = off /\ zeroed' = zeroed /\ op' = op /\ step' = step
        <4> HIDE DEF Displacement
        <4> QED
          BY <1>0, <2>3 DEF TodReadNs, Goto, TimeOfDay, hw
      <3>2. Displacement' = Displacement
        BY <3>1 DEF Displacement
      <3>3. free \in Nat /\ NSEC \in Nat \ {0}
        BY <1>0, Ranges DEF TypeOK
      <3>4. ReadInv(c)'
        BY <3>1, <3>2, <3>3 DEF ReadInv
      <3>5. WrittenInv(c)' /\ SetInv(c)'
        BY <1>0, <3>1 DEF CallInv, WrittenInv, SetInv, Inside
      <3> QED
        BY <3>4, <3>5 DEF CallInv
    <2>4. CASE TodReadSec(c)
      <3> DEFINE tod == TodRead(ts[c], TimeOfDay)
      <3>1. /\ pc[c] = "tod_sec" /\ UNCHANGED <<free, step, off, zeroed>>
            /\ IF op[c] = "gettime"
               THEN Return(c, tod)
               ELSE /\ ts' = [ts EXCEPT ![c] = SetDelta(arg[c], tod)]
                    /\ Goto(c, "sec_h")
                    /\ UNCHANGED <<reg_lock, op, arg, at>>
        BY <2>4 DEF TodReadSec, hw
      <3>2. tod \in 0 .. WORD * NSEC - 1 /\ Tells(at[c] + Displacement, tod)
        BY <1>0, <3>1, ClockRead DEF CallInv
      <3>3. Displacement' = Displacement
        BY <3>1 DEF Displacement
      <3> HIDE DEF tod
      <3>4. CASE op[c] = "gettime"
        <4>1. pc'[c] = "idle" /\ zeroed' = zeroed
          BY <1>0, <3>1, <3>4 DEF Return, Goto
        <4>2. ~zeroed[c]
          BY <1>0, <3>4 DEF CallInv, SetInv
        <4> QED
          BY <4>1, <4>2 DEF CallInv, ReadInv, WrittenInv, SetInv, Inside
      <3>5. CASE op[c] # "gettime"
        <4>1. /\ pc'[c] = "sec_h" /\ ts'[c] = SetDelta(arg[c], tod)
              /\ UNCHANGED <<op, arg, at, off, zeroed>>
          BY <1>0, <3>1, <3>5 DEF Goto
        <4>2. op[c] = "settime" => zeroed[c] /\ off.ns = 0
          BY <1>0, <3>1 DEF CallInv, SetInv, Inside
        <4>3. ReadInv(c)' /\ WrittenInv(c)'
          BY <4>1 DEF ReadInv, WrittenInv
        <4>4. SetInv(c)'
          <5>1. zeroed'[c] => op'[c] = "settime" /\ Inside(c)'
            BY <1>0, <4>1 DEF CallInv, SetInv, Inside
          <5>2. Tells(at'[c] + Displacement', tod) /\ ts'[c] = SetDelta(arg'[c], tod)
            BY <3>2, <3>3, <4>1
          <5>3. \E t \in 0 .. WORD * NSEC - 1 :
                   Tells(at'[c] + Displacement', t) /\ ts'[c] = SetDelta(arg'[c], t)
            BY <3>2, <5>2
          <5> HIDE DEF Displacement
          <5> QED
            BY <4>1, <4>2, <5>1, <5>3 DEF SetInv
        <4> QED
          BY <4>3, <4>4 DEF CallInv
      <3> QED
        BY <3>4, <3>5
    <2>5. CASE OffsetRead(c)
      <3>1. pc[c] = "offset" /\ pc'[c] = "sec_h" /\ UNCHANGED <<op, zeroed>>
        BY <1>0, <2>5 DEF OffsetRead, Goto
      <3>2. op[c] # "settime"
        BY <1>0, <3>1 DEF CallInv, SetInv, Inside
      <3> QED
        BY <1>0, <3>1, <3>2 DEF CallInv, ReadInv, WrittenInv, SetInv
    <2>6. CASE WriteSecH(c)
      <3>1. /\ pc[c] = "sec_h" /\ pc'[c] = "sec_l" /\ UNCHANGED <<step, op, arg, ts, zeroed, at>>
            /\ off'.sec_h = ((ts[c] \div NSEC) \div WORD) % WORD /\ off'.ns = off.ns
        BY <1>0, <2>6 DEF WriteSecH, Goto
      <3>2. Displacement' = Displacement
        BY <3>1 DEF Displacement
      <3> HIDE DEF Displacement
      <3> QED
        BY <1>0, <3>1, <3>2 DEF CallInv, ReadInv, WrittenInv, SetInv, Inside
    <2>7. CASE WriteSecL(c)
      <3>1. /\ pc[c] = "sec_l" /\ pc'[c] = "ns" /\ UNCHANGED <<step, op, arg, ts, zeroed, at>>
            /\ off'.sec_l = (ts[c] \div NSEC) % WORD /\ off'.sec_h = off.sec_h /\ off'.ns = off.ns
        BY <1>0, <2>7 DEF WriteSecL, Goto
      <3>2. Displacement' = Displacement
        BY <3>1 DEF Displacement
      <3> HIDE DEF Displacement
      <3> QED
        BY <1>0, <3>1, <3>2 DEF CallInv, ReadInv, WrittenInv, SetInv, Inside
    <2>8. CASE WriteNs(c)
      <3>1. pc[c] = "ns" /\ off'.ns = ts[c] % NSEC
        BY <1>0, <2>8 DEF WriteNs
      <3>2. CASE op[c] = "settime" /\ ~zeroed[c]
        <4>1. zeroed'[c] /\ pc'[c] = "tod_ns" /\ op' = op
          BY <1>0, <2>8, <3>2 DEF WriteNs, Goto
        <4>2. ts[c] = 0
          BY <1>0, <3>1, <3>2 DEF CallInv, SetInv, Inside
        <4>3. 0 % NSEC = 0
          <5>1. NSEC \in Nat \ {0} /\ NSEC * 0 + 0 = 0 /\ 0 \in 0 .. NSEC - 1
            BY Ranges, SMT
          <5>2. (NSEC * 0 + 0) % NSEC = 0
            BY <5>1, ModUnique
          <5> QED
            BY <5>1, <5>2
        <4>4. off'.ns = 0
          BY <3>1, <4>2, <4>3
        <4> QED
          BY <3>2, <4>1, <4>4 DEF CallInv, ReadInv, WrittenInv, SetInv, Inside
      <3>3. CASE ~(op[c] = "settime" /\ ~zeroed[c])
        <4>1. ~zeroed'[c] /\ pc'[c] = "idle"
          BY <1>0, <2>8, <3>3 DEF WriteNs, Goto, Return
        <4> QED
          BY <4>1 DEF CallInv, ReadInv, WrittenInv, SetInv, Inside
      <3> QED
        BY <3>2, <3>3
    <2> QED
      BY <2>1, <2>2, <2>3, <2>4, <2>5, <2>6, <2>7, <2>8 DEF CallerStep
  <1> QED
    BY <1>1, <1>2

LEMMA ClockKept ==
  ASSUME ClockInv, [Next]_vars
  PROVE  ClockInv'
PROOF
  <1>1. AddInv' /\ \A c \in Caller : CallInv(c)
    BY AddKept DEF ClockInv
  <1>2. ASSUME NEW c \in Caller, CallerStep(c) PROVE \A d \in Caller : CallInv(d)'
    BY <1>2, ClockCallerStep
  <1>3. CASE Tick
    <2> SUFFICES ASSUME NEW c \in Caller PROVE CallInv(c)'
      BY <1>1 DEF ClockInv
    <2>1. /\ free' = free + inc /\ UNCHANGED <<step, off, op, pc, arg, ts, at, zeroed>>
          /\ pc[c] = "tod_sec" => free + inc - at[c] < NSEC
      BY <1>3 DEF Tick, calls
    <2>2. Displacement' = Displacement
      BY <2>1 DEF Displacement
    <2>3. free \in Nat /\ inc \in Nat /\ at[c] \in Nat /\ NSEC \in Nat /\ free' \in Nat
      BY <2>1, RateAssumption, Ranges DEF ClockInv, AddInv, TypeInv, TypeOK
    <2>4. ReadInv(c)'
      <3>1. pc[c] = "tod_sec" => at[c] <= free /\ ts[c] = (at[c] + Displacement) % Range64
        BY <1>1 DEF CallInv, ReadInv
      <3> HIDE DEF Displacement
      <3> QED
        BY <2>1, <2>2, <2>3, <3>1 DEF ReadInv
    <2>5. WrittenInv(c)' /\ SetInv(c)'
      BY <1>1, <2>1, <2>2 DEF CallInv, WrittenInv, SetInv, Inside
    <2> QED
      BY <2>4, <2>5 DEF CallInv
  <1>4. CASE \/ UNCHANGED vars \/ (\E p \in Ppbs : AdjFreq(p)) \/ Enable \/ Interrupt \/ Event
             \/ Probe \/ RequestIrq \/ FreeIrq \/ Unregister
    <2>1. UNCHANGED <<free, step, off, op, pc, arg, ts, at, zeroed>>
      BY <1>4 DEF vars, hw, calls, AdjFreq, Enable, Interrupt, Event, Probe, RequestIrq, FreeIrq, Unregister
    <2>2. \A c \in Caller : CallInv(c)'
      BY <1>1, <2>1, ClockUntouched
    <2> QED
      BY <1>1, <2>2 DEF ClockInv
  <1> QED
    BY <1>1, <1>2, <1>3, <1>4 DEF Next, ClockInv

LEMMA ClockAlways == Spec => []ClockInv
PROOF
  <1>1. Init => ClockInv
    BY AddAtInit DEF Init, ClockInv, CallInv, ReadInv, WrittenInv, SetInv, Inside
  <1> QED
    BY <1>1, ClockKept, PTL DEF Spec

\* A step that ends a call of c is the second read or the last write of c.
LEMMA CallEnds ==
  ASSUME ClockInv, [Next]_vars, NEW c \in Caller, pc[c] \in {"tod_sec", "ns"}, pc'[c] = "idle"
  PROVE  (pc[c] = "tod_sec" /\ TodReadSec(c)) \/ (pc[c] = "ns" /\ WriteNs(c))
PROOF
  <1>0. pc \in [Caller -> Pcs] /\ Inside(c)
    BY DEF ClockInv, AddInv, TypeInv, TypeOK, Inside
  <1>1. ASSUME UNCHANGED vars \/ Tick \/ (\E p \in Ppbs : AdjFreq(p)) \/ Enable \/ Interrupt \/ Event
               \/ Probe \/ RequestIrq \/ FreeIrq \/ Unregister
        PROVE  pc' = pc
    BY <1>1 DEF vars, hw, calls, Tick, AdjFreq, Enable, Interrupt, Event, Probe, RequestIrq, FreeIrq, Unregister
  <1>2. PICK d \in Caller : CallerStep(d)
    BY <1>1 DEF Next
  <1>3. \E l : pc' = [pc EXCEPT ![d] = l]
    <2> HIDE DEF TodRead, TimeOfDay, Displacement
    <2>1. ASSUME NEW o, NEW a, Call(d, o, a) PROVE \E l : pc' = [pc EXCEPT ![d] = l]
      BY <2>1 DEF Call, Goto
    <2>2. CASE Lock(d) \/ TodReadNs(d) \/ OffsetRead(d) \/ WriteSecH(d) \/ WriteSecL(d)
      BY <2>2, Zenon DEF Lock, TodReadNs, OffsetRead, WriteSecH, WriteSecL, Goto
    <2>3. CASE TodReadSec(d) \/ WriteNs(d)
      BY <2>3, Zenon DEF TodReadSec, WriteNs, Return, Goto
    <2> QED
      BY <1>2, <2>1, <2>2, <2>3 DEF CallerStep
  <1>4. CallerStep(c)
    BY <1>0, <1>2, <1>3
  <1>5. CASE pc[c] = "tod_sec"
    BY <1>4, <1>5 DEF CallerStep, Call, Lock, TodReadNs, OffsetRead, WriteSecH, WriteSecL, WriteNs
  <1>6. CASE pc[c] = "ns"
    BY <1>4, <1>6 DEF CallerStep, Call, Lock, TodReadNs, TodReadSec, OffsetRead, WriteSecH, WriteSecL
  <1> QED
    BY <1>5, <1>6

\* Whoever calls and whatever the size of a word and of a second, gettime returns
\* the time of its call or a later one, by less than a second at its return.
THEOREM GetTimeCorrect == Spec => GetTimeNeverBehind
PROOF
  <1>1. ASSUME ClockInv, [Next]_vars, NEW c \in Caller,
               op[c] = "gettime", pc[c] = "tod_sec", pc'[c] = "idle"
        PROVE  (ts'[c] - (at[c] + Displacement)) % (WORD * NSEC) < free - at[c] + NSEC
    <2> DEFINE tod == TodRead(ts[c], TimeOfDay)
    <2>1. TodReadSec(c) /\ TypeOK /\ ReadInv(c) /\ ts \in [Caller -> Int]
      BY <1>1, CallEnds DEF ClockInv, AddInv, TypeInv, TypeOK, CallInv
    <2>2. (tod - (at[c] + Displacement)) % (WORD * NSEC) < free - at[c] + NSEC
      BY <1>1, <2>1, ClockRead
    <2>3. ts'[c] = tod
      <3> HIDE DEF tod
      <3>1. ts' = [ts EXCEPT ![c] = tod]
        BY <1>1, <2>1 DEF TodReadSec, Return, tod
      <3> QED
        BY <2>1, <3>1
    <2> HIDE DEF tod
    <2> QED
      BY <2>2, <2>3, Zenon
  <1>2. ClockInv /\ [Next]_vars =>
          [\A c \in Caller :
             op[c] = "gettime" /\ pc[c] = "tod_sec" /\ pc'[c] = "idle" =>
               (ts'[c] - (at[c] + Displacement)) % (WORD * NSEC) < free - at[c] + NSEC]_vars
    BY <1>1
  <1> QED
    BY <1>2, ClockAlways, PTL DEF Spec, GetTimeNeverBehind

\* The last write of a settime
LEMMA SetLast ==
  ASSUME ClockInv, NEW c \in Caller, op[c] = "settime", WriteNs(c), pc'[c] = "idle",
         LET read == (at[c] + Displacement) % (WORD * NSEC)
         IN read <= arg[c] % (WORD * NSEC) \/ read \div NSEC >= WORD \div 2
  PROVE  ((arg[c] % (WORD * NSEC)) - ((TimeOfDay' - (free - at[c])) % (WORD * NSEC))) % (WORD * NSEC)
            \in {0, NSEC}
PROOF
  <1> DEFINE a == at[c] + Displacement
             m == WORD * NSEC
             wanted == arg[c] % m
             x == TimeOfDay' - (free - at[c])
             set == x % m
             move == ts[c]
  <1>0. /\ WORD \in Nat \ {0} /\ NSEC \in Nat \ {0} /\ m \in Nat \ {0} /\ NSEC < m
        /\ Range64 \in Nat \ {0} /\ Range64 = m * WORD
    BY Ranges, Word32
  <1>1. /\ TypeOK /\ CallInv(c) /\ pc[c] = "ns" /\ pc \in [Caller -> Pcs]
        /\ arg[c] \in Int /\ ts[c] \in Int /\ at[c] \in Nat /\ free \in Nat /\ Displacement \in Int
    <2>1. TypeOK
      BY DEF ClockInv, AddInv, TypeInv
    <2>2. Displacement \in Int
      BY <2>1, TimeType, Ranges
    <2> QED
      BY <2>1, <2>2 DEF ClockInv, TypeOK, WriteNs
  <1>2. zeroed[c]
    BY <1>1 DEF WriteNs, Goto
  <1>3. /\ off.ns = 0
        /\ \E tod \in 0 .. WORD * NSEC - 1 : Tells(a, tod) /\ ts[c] = SetDelta(arg[c], tod)
    BY <1>1, <1>2 DEF CallInv, SetInv, Inside
  <1>4. PICK tod \in 0 .. WORD * NSEC - 1 : Tells(a, tod) /\ ts[c] = SetDelta(arg[c], tod)
    BY <1>3
  <1>5. a \in Int
    BY <1>1
  <1>6. PICK e \in {0, NSEC}, i \in Int : wanted - (a + move) = m * i + e
    <2> HIDE DEF a
    <2>1. \E e \in {0, NSEC}, i \in Int :
             (arg[c] % (WORD * NSEC)) - (a + SetDelta(arg[c], tod)) = (WORD * NSEC) * i + e
      <3>1. LET read == a % (WORD * NSEC)
            IN read <= arg[c] % (WORD * NSEC) \/ read \div NSEC >= WORD \div 2
        BY DEF a
      <3> QED
        BY <1>1, <1>4, <1>5, <3>1, SetLands
    <2> QED
      BY <1>4, <2>1
  \* The write moves the clock by the difference.
  <1>7. Displacement' = (Displacement + move) % Range64
    <2>1. off \in [sec_h : 0 .. WORD - 1, sec_l : 0 .. WORD - 1, ns : 0 .. NSEC - 1]
      BY <1>1 DEF TypeOK
    <2>2. LastWrite(c, move)
      <3>1. /\ off.sec_h = ((ts[c] \div NSEC) \div WORD) % WORD
            /\ off.sec_l = (ts[c] \div NSEC) % WORD
        BY <1>1 DEF CallInv, WrittenInv
      <3>2. step' = (step + off.sec_h * WORD + off.sec_l) % (WORD * WORD) /\ off'.ns = ts[c] % NSEC
        BY <2>1 DEF WriteNs
      <3>3. ts[c] = off.ns + move
        BY <1>1, <1>3
      <3> QED
        BY <3>1, <3>2, <3>3 DEF LastWrite
    <2>3. move \in Int
      BY <1>1
    <2> HIDE DEF move
    <2> QED
      BY <1>1, <2>2, <2>3, AdjustedBy
  <1>8. TimeOfDay' = (free + Displacement') % Range64
    BY DEF TimeOfDay, WriteNs
  <1>9. PICK g \in Int : Displacement + move = Range64 * g + Displacement'
    <2>1. Displacement + move \in Int
      BY <1>1
    <2> HIDE DEF Displacement, move
    <2> QED
      BY <1>0, <1>7, <2>1, ModIs
  <1>10. Displacement' \in Int
    BY <1>0, <1>1, <1>7, WordsType
  <1>11. PICK h \in Int : free + Displacement' = Range64 * h + TimeOfDay'
    <2>1. free + Displacement' \in Int
      BY <1>1, <1>10
    <2> HIDE DEF Displacement, TimeOfDay
    <2> QED
      BY <1>0, <1>8, <2>1, ModIs
  <1>12. TimeOfDay' \in Int /\ x \in Int
    <2> DEFINE b == free + Displacement'
    <2>1. b \in Int /\ TimeOfDay' = b % Range64
      BY <1>1, <1>8, <1>10
    <2> HIDE DEF b
    <2>2. b % Range64 \in 0 .. Range64 - 1
      BY <1>0, <2>1, DivMod
    <2> HIDE DEF TimeOfDay
    <2>3. TimeOfDay' \in Int
      BY <1>0, <2>1, <2>2
    <2> QED
      BY <1>1, <2>3
  <1>13. PICK k \in Int : x = m * k + set
    <2> HIDE DEF x
    <2> QED
      BY <1>0, <1>12, ModIs
  <1>14. set \in Int /\ wanted \in Int
    <2> HIDE DEF x
    <2>1. x % m \in 0 .. m - 1 /\ arg[c] % m \in 0 .. m - 1
      BY <1>0, <1>1, <1>12, DivMod
    <2> QED
      BY <1>0, <2>1
  <1> HIDE DEF wanted, set, m
  <1>15. wanted - set = m * (i + WORD * (g + h) + k) + e
    <2> DEFINE u == Range64 * g
               v == Range64 * h
               w == m * k
               y == m * i
               z == m * (i + WORD * (g + h) + k)
    <2>1. u \in Int /\ v \in Int /\ w \in Int /\ y \in Int /\ u = m * WORD * g /\ v = m * WORD * h
      BY <1>0, SMT
    <2>2. z = y + u + v + w
      BY <1>0, <2>1, SMT
    <2> DEFINE p == Displacement
               q == Displacement'
               r == TimeOfDay'
    <2>3. /\ p + move = u + q /\ free + q = v + r /\ r - (free - at[c]) = w + set
          /\ wanted - ((at[c] + p) + move) = y + e
      BY <1>6, <1>9, <1>11, <1>13
    <2>4. p \in Int /\ q \in Int /\ r \in Int /\ move \in Int /\ free \in Int /\ at[c] \in Int /\ e \in Int
      BY <1>0, <1>1, <1>10, <1>12
    <2> HIDE DEF u, v, w, y, z, p, q, r, move
    <2>5. wanted - set = z + e
      BY <1>14, <2>1, <2>2, <2>3, <2>4
    <2> QED
      BY <2>5 DEF z
  <1>16. (wanted - set) % m = e
    <2> DEFINE j == i + WORD * (g + h) + k
    <2>1. j \in Int /\ e \in 0 .. m - 1
      BY <1>0, SMT
    <2> HIDE DEF j
    <2>2. (m * j + e) % m = e
      BY <1>0, <2>1, ModUnique
    <2>3. wanted - set = m * j + e
      BY <1>15 DEF j
    <2> QED
      BY <2>2, <2>3, Zenon
  <1> QED
    BY <1>16 DEF wanted, set, m, x

\* Whoever calls and whatever the size of a word and of a second, settime to a
\* time that is not before the clock's own, or at a clock that reads half of its
\* seconds, sets it to that time or to a second before.
THEOREM SetTimeCorrect == Spec => SetTimeWithinSecond
PROOF
  <1> DEFINE Lands(c) ==
        op[c] = "settime" /\ pc[c] = "ns" /\ pc'[c] = "idle" =>
          LET read   == (at[c] + Displacement) % (WORD * NSEC)
              wanted == arg[c] % (WORD * NSEC)
              set    == (TimeOfDay' - (free - at[c])) % (WORD * NSEC)
          IN read <= wanted \/ read \div NSEC >= WORD \div 2
               => (wanted - set) % (WORD * NSEC) \in {0, NSEC}
  <1>1. ASSUME ClockInv, [Next]_vars, NEW c \in Caller
        PROVE  Lands(c)
    BY <1>1, CallEnds, SetLast, Zenon
  <1>2. ClockInv /\ [Next]_vars => [\A c \in Caller : Lands(c)]_vars
    BY <1>1
  <1>3. Spec => [][\A c \in Caller : Lands(c)]_vars
    BY <1>2, ClockAlways, PTL DEF Spec
  <1> QED
    BY <1>3 DEF SetTimeWithinSecond
=============================================================================
