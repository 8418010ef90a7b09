-------------------------- MODULE OwdmDelayProofs --------------------------
(***************************************************************************)
(* Proofs about OwdmDelay, for words of any width: what is stored has the  *)
(* width of its fields, what is shown for two sensible stamps is their     *)
(* difference, and the test of the limit is exact.                         *)
(***************************************************************************)
EXTENDS OwdmDelay, TLAPS

\* A number below the modulus is its own remainder.
LEMMA SmallRemainder ==
  \A x, m \in Nat : x < m => x % m = x
OBVIOUS

\* A number before the sign bit goes through the word unchanged.
LEMMA SmallWord ==
  \A x \in Nat : x + x < INT => Words(x) = {x}
BY WidthAssumption DEF Words, Lows, SignExtend

\* Bytes make words that are integers.
LEMMA WordType ==
  \A x \in Nat : Words(x) \in SUBSET Int
<1> SUFFICES ASSUME NEW x \in Nat, NEW w \in Words(x)
             PROVE  w \in Int
  OBVIOUS
<1>1. PICK l \in Lows(x) : w = SignExtend(l)
  BY DEF Words
<1>2. l \in Int
  BY <1>1, WidthAssumption DEF Lows
<1>3. QED
  BY <1>1, <1>2, WidthAssumption DEF SignExtend

-----------------------------------------------------------------------------

LEMMA StampType ==
  \A t \in Stamps : t.sec \in Nat /\ t.nsec \in Nat
<1>1. Second \subseteq Nat /\ Nano \subseteq Nat
  BY StampAssumption, WidthAssumption
<1>2. QED
  BY <1>1 DEF Stamps

\* The word d is the difference of two times of day, computed with a borrow if
\* it takes one.
IsDifference(d, s1, n1, s2, n2) ==
  /\ d.sec \in Nat /\ d.sec + d.sec < INT
  /\ d.nsec \in Nat /\ d.nsec < NSEC
  /\ n2 > n1 => d.sec = s1 - s2 - 1 /\ d.nsec = n1 + NSEC - n2
  /\ ~(n2 > n1) => d.sec = s1 - s2 /\ d.nsec = n1 - n2

\* The difference of two sensible stamps, in words, is the difference of the
\* times they stand for, and it is small enough for the fields it goes to.
LEMMA MinusExact ==
  ASSUME NEW s1 \in Nat, NEW n1 \in Nat, NEW s2 \in Nat, NEW n2 \in Nat,
         n1 < NSEC, n2 < NSEC, s1 + s1 < INT,
         s1 > s2 \/ (s1 = s2 /\ n1 >= n2)
  PROVE  IsDifference(Minus(s1, n1, s2, n2), s1, n1, s2, n2)
<1>u. ULL \in Nat /\ INT \in Nat /\ NSEC \in Nat /\ NSEC + NSEC <= INT /\ INT <= ULL /\ 0 < NSEC
  BY WidthAssumption
<1>1. CASE n2 > n1
  <2> DEFINE s == s1 - 1 - s2
             n == n1 + NSEC - n2
  <2>1. s \in Nat /\ s < ULL /\ s + s < INT /\ n \in Nat /\ n < ULL /\ n < NSEC
    BY <1>u, <1>1
  <2>2. Minus(s1, n1, s2, n2) = [sec |-> s % ULL, nsec |-> n % ULL]
    <3>1. n1 + 1 * NSEC - n2 = n
      BY <1>u
    <3>2. QED
      BY <1>1, <3>1 DEF Minus
  <2>3. s = s1 - s2 - 1 /\ n = n1 + NSEC - n2
    BY <1>u
  <2> HIDE DEF s, n
  <2>4. s % ULL = s /\ n % ULL = n
    BY <1>u, <2>1, SmallRemainder
  <2>5. QED
    BY <1>1, <2>1, <2>2, <2>3, <2>4 DEF IsDifference
<1>2. CASE ~(n2 > n1)
  <2> DEFINE s == s1 - s2
             n == n1 - n2
  <2>1. s \in Nat /\ s < ULL /\ s + s < INT /\ n \in Nat /\ n < ULL /\ n < NSEC
    BY <1>u, <1>2
  <2>2. Minus(s1, n1, s2, n2) = [sec |-> s % ULL, nsec |-> n % ULL]
    <3>1. n1 + 0 * NSEC - n2 = n /\ s1 - 0 - s2 = s
      BY <1>u
    <3>2. QED
      BY <1>2, <3>1 DEF Minus
  <2>3. s = s1 - s2 /\ n = n1 - n2
    OBVIOUS
  <2> HIDE DEF s, n
  <2>4. s % ULL = s /\ n % ULL = n
    BY <1>u, <2>1, SmallRemainder
  <2>5. QED
    BY <1>2, <2>1, <2>2, <2>3, <2>4 DEF IsDifference
<1>3. QED
  BY <1>1, <1>2

\* A sensible measurement stores the words of Minus as they are, and has gone
\* for the trigger if they are over the limit.
LEMMA SensibleMeasurement ==
  ASSUME NEW t1 \in Stamps, NEW t2 \in Stamps, Sensible(t1, t2), CalcDelay(t1, t2)
  PROVE  /\ owdm_result' = Minus(t1.sec, t1.nsec, t2.sec, t2.nsec)
         /\ tried' = Over(Minus(t1.sec, t1.nsec, t2.sec, t2.nsec))
<1>1. /\ t1.sec \in Nat /\ t1.nsec \in Nat /\ t2.sec \in Nat /\ t2.nsec \in Nat
  BY StampType
<1>2. /\ t1.nsec < NSEC /\ t2.nsec < NSEC /\ t1.sec + t1.sec < INT
      /\ t1.sec > t2.sec \/ (t1.sec = t2.sec /\ t1.nsec >= t2.nsec)
  BY DEF Sensible
<1>3. t2.sec + t2.sec < INT /\ t1.nsec + t1.nsec < INT /\ t2.nsec + t2.nsec < INT
  BY <1>1, <1>2, WidthAssumption
<1>4. /\ Words(t1.sec) = {t1.sec} /\ Words(t2.sec) = {t2.sec}
      /\ Words(t1.nsec) = {t1.nsec} /\ Words(t2.nsec) = {t2.nsec}
  BY <1>1, <1>2, <1>3, SmallWord
<1> DEFINE d == Minus(t1.sec, t1.nsec, t2.sec, t2.nsec)
<1>5. owdm_result' = Stored(d) /\ tried' = Over(d)
  BY <1>4 DEF CalcDelay
<1>6. d.sec \in Nat /\ d.sec + d.sec < INT /\ d.nsec \in Nat /\ d.nsec < NSEC
  BY <1>1, <1>2, MinusExact DEF IsDifference
<1> HIDE DEF d
<1>7. d.sec % SECS = d.sec /\ d.nsec % INT = d.nsec
  <2>1. d.sec < SECS /\ d.nsec < INT /\ SECS \in Nat /\ INT \in Nat
    BY <1>6, WidthAssumption
  <2>2. QED
    BY <1>6, <2>1, SmallRemainder
<1>8. d = [sec |-> d.sec, nsec |-> d.nsec]
  BY DEF d, Minus
<1>9. Stored(d) = d
  BY <1>7, <1>8 DEF Stored
<1>10. QED
  BY <1>5, <1>9 DEF d

-----------------------------------------------------------------------------

LEMMA DelayInit == Init => DelayShownIsDifference /\ LimitTestExact
<1> SUFFICES ASSUME Init
             PROVE  DelayShownIsDifference /\ LimitTestExact
  OBVIOUS
<1>1. Words(0) = {0}
  BY SmallWord, WidthAssumption
<1>2. DelayShownIsDifference
  BY <1>1, WidthAssumption DEF Init, DelayShownIsDifference, Shown, ZeroStamp
<1>3. LimitTestExact
  BY DEF Init, LimitTestExact
<1>4. QED
  BY <1>2, <1>3

LEMMA DelayStep ==
  DelayShownIsDifference /\ [Next]_vars => DelayShownIsDifference'
<1> SUFFICES ASSUME DelayShownIsDifference, [Next]_vars
             PROVE  DelayShownIsDifference'
  OBVIOUS
<1>1. ASSUME NEW t1 \in Stamps, NEW t2 \in Stamps, CalcDelay(t1, t2), Sensible(t1, t2),
             NEW shown \in Shown(owdm_result')
      PROVE  LET nsec == t2.nsec + shown[2]
             IN /\ shown[2] < NSEC
                /\ t1.nsec = IF nsec < NSEC THEN nsec ELSE nsec - NSEC
                /\ t1.sec  = t2.sec + shown[1] + (IF nsec < NSEC THEN 0 ELSE 1)
  <2> DEFINE d == Minus(t1.sec, t1.nsec, t2.sec, t2.nsec)
  <2>1. /\ t1.sec \in Nat /\ t1.nsec \in Nat /\ t2.sec \in Nat /\ t2.nsec \in Nat
    BY StampType
  <2>2. /\ t1.nsec < NSEC /\ t2.nsec < NSEC /\ t1.sec + t1.sec < INT
        /\ t1.sec > t2.sec \/ (t1.sec = t2.sec /\ t1.nsec >= t2.nsec)
    BY <1>1 DEF Sensible
  <2>3. IsDifference(d, t1.sec, t1.nsec, t2.sec, t2.nsec)
    BY <2>1, <2>2, MinusExact
  <2>4. owdm_result' = d
    BY <1>1, SensibleMeasurement
  <2> HIDE DEF d
  <2>5. Words(d.sec) = {d.sec} /\ Words(d.nsec) = {d.nsec}
    BY <2>3, SmallWord, WidthAssumption DEF IsDifference
  <2>6. shown[1] = d.sec /\ shown[2] = d.nsec
    BY <1>1, <2>4, <2>5 DEF Shown
  <2>7. QED
    BY <2>1, <2>2, <2>3, <2>6, WidthAssumption DEF IsDifference
<1>2. ASSUME NEW t1 \in Stamps, NEW t2 \in Stamps, CalcDelay(t1, t2)
      PROVE  DelayShownIsDifference'
  <2>1. measured'.t1 = t1 /\ measured'.t2 = t2
    BY <1>2 DEF CalcDelay
  <2>2. QED
    BY <1>1, <1>2, <2>1 DEF DelayShownIsDifference
<1>3. CASE UNCHANGED <<owdm_result, measured>>
  BY <1>3 DEF DelayShownIsDifference, Shown
<1>4. QED
  BY <1>2, <1>3 DEF Next, SetLimit, vars

\* What the machine compares the nanoseconds with: the limit, or a word that is
\* over any nanoseconds.
LEMMA LimitWord ==
  ASSUME NEW limit \in Limit
  PROVE  /\ limit >= 0 => limit % ULL = limit
         /\ limit < 0 => limit % ULL >= NSEC
<1>1. limit \in Int /\ -ULL <= limit + limit /\ limit + limit < ULL
  BY LimitAssumption
<1>2. ULL \in Nat /\ NSEC \in Nat /\ 0 < NSEC /\ NSEC + NSEC <= ULL
  BY WidthAssumption
<1>3. CASE limit >= 0
  BY <1>1, <1>2, <1>3, SmallRemainder
<1>4. CASE limit < 0
  <2> DEFINE q == limit \div ULL
             r == limit % ULL
  <2>1. q \in Int /\ r \in Int /\ 0 <= r /\ r < ULL /\ limit = ULL * q + r
    BY <1>1, <1>2
  <2> HIDE DEF q, r
  <2>2. q = -1
    <3>1. q >= 0 => ULL * q >= 0
      BY <1>2, <2>1
    <3>2. q <= -2 => ULL * q <= -(ULL + ULL)
      BY <1>2, <2>1
    <3> QED
      BY <1>1, <1>2, <1>4, <2>1, <3>1, <3>2
  <2>3. r = limit + ULL
    BY <1>1, <1>2, <2>1, <2>2
  <2> QED
    BY <1>1, <1>2, <1>4, <2>3 DEF r
<1> QED
  BY <1>1, <1>3, <1>4

\* In nanoseconds, a delay is a second for each of its seconds, and the rest.
LEMMA DelayInNanoseconds ==
  ASSUME NEW t1 \in Stamps, NEW t2 \in Stamps, NEW d,
         IsDifference(d, t1.sec, t1.nsec, t2.sec, t2.nsec)
  PROVE  Nanoseconds(t1, t2) = d.sec * NSEC + d.nsec
<1>1. /\ t1.sec \in Nat /\ t1.nsec \in Nat /\ t2.sec \in Nat /\ t2.nsec \in Nat /\ NSEC \in Nat
  BY StampType, WidthAssumption
<1>2. /\ d.sec \in Nat /\ d.nsec \in Nat
      /\ t2.nsec > t1.nsec => t1.sec - t2.sec = d.sec + 1 /\ d.nsec = t1.nsec + NSEC - t2.nsec
      /\ ~(t2.nsec > t1.nsec) => t1.sec - t2.sec = d.sec /\ d.nsec = t1.nsec - t2.nsec
  BY <1>1 DEF IsDifference
<1>3. (d.sec + 1) * NSEC = d.sec * NSEC + NSEC /\ d.sec * NSEC \in Nat
  BY <1>1, <1>2
<1> QED
  BY <1>1, <1>2, <1>3 DEF Nanoseconds

LEMMA LimitStep ==
  TypeOK /\ LimitTestExact /\ [Next]_vars => LimitTestExact'
<1> SUFFICES ASSUME TypeOK, LimitTestExact, [Next]_vars
             PROVE  LimitTestExact'
  OBVIOUS
<1>1. ASSUME NEW t1 \in Stamps, NEW t2 \in Stamps, CalcDelay(t1, t2)
      PROVE  LimitTestExact'
  <2> DEFINE d == Minus(t1.sec, t1.nsec, t2.sec, t2.nsec)
             limit == ecpri_report_limit
  <2>1. measured' = [t1 |-> t1, t2 |-> t2, limit |-> limit] /\ ~ila'
    BY <1>1 DEF CalcDelay, Writes
  <2>2. SUFFICES ASSUME Sensible(t1, t2)
                 PROVE  (limit # 0 /\ (d.sec > 0 \/ d.nsec > limit % ULL))
                          <=> (limit # 0 /\ Nanoseconds(t1, t2) >= Threshold(limit))
    BY <1>1, <2>1, SensibleMeasurement DEF LimitTestExact, Over
  <2>3. /\ t1.sec \in Nat /\ t1.nsec \in Nat /\ t2.sec \in Nat /\ t2.nsec \in Nat
        /\ t1.nsec < NSEC /\ t2.nsec < NSEC /\ t1.sec + t1.sec < INT
        /\ t1.sec > t2.sec \/ (t1.sec = t2.sec /\ t1.nsec >= t2.nsec)
    BY <2>2, StampType DEF Sensible
  <2>4. IsDifference(d, t1.sec, t1.nsec, t2.sec, t2.nsec)
    BY <2>3, MinusExact
  <2> HIDE DEF d
  <2>5. Nanoseconds(t1, t2) = d.sec * NSEC + d.nsec
    BY <2>4, DelayInNanoseconds
  <2>6. d.sec \in Nat /\ d.nsec \in Nat /\ d.nsec < NSEC /\ NSEC \in Nat
    BY <2>4, WidthAssumption DEF IsDifference
  <2>7. d.sec > 0 => d.sec * NSEC >= NSEC
    BY <2>6
  <2>8. d.sec = 0 => d.sec * NSEC = 0
    BY <2>6
  <2>9. SUFFICES ASSUME limit # 0
                 PROVE  (d.sec > 0 \/ d.nsec > limit % ULL) <=> Nanoseconds(t1, t2) >= Threshold(limit)
    OBVIOUS
  <2>10. limit \in Limit
    BY <2>9 DEF TypeOK
  <2>11. /\ limit \in Int
         /\ limit >= 0 => limit % ULL = limit
         /\ limit < 0 => limit % ULL >= NSEC
    BY <2>10, LimitAssumption, LimitWord
  <2> HIDE DEF limit
  <2>12. CASE 0 <= limit /\ limit <= NSEC - 1
    <3>1. Threshold(limit) = limit + 1 /\ limit % ULL = limit
      BY <2>6, <2>11, <2>12 DEF Threshold
    <3> QED
      BY <2>5, <2>6, <2>7, <2>8, <2>11, <2>12, <3>1
  <2>13. CASE limit < 0 \/ limit >= NSEC
    <3>1. Threshold(limit) = NSEC
      BY <2>6, <2>11, <2>13 DEF Threshold
    <3>2. limit % ULL \in Int /\ limit % ULL >= NSEC
      BY <2>6, <2>11, <2>13, WidthAssumption
    <3> QED
      BY <2>5, <2>6, <2>7, <2>8, <3>1, <3>2
  <2> QED
    BY <2>6, <2>11, <2>12, <2>13
<1>2. CASE UNCHANGED <<tried, ila, measured>>
  BY <1>2 DEF LimitTestExact
<1>3. QED
  BY <1>1, <1>2 DEF Next, SetLimit, vars

-----------------------------------------------------------------------------
(* The theorems *)

LEMMA RemainderType ==
  \A x \in Int, m \in Nat : m > 0 => x % m \in 0 .. m - 1
OBVIOUS

\* Every measurement stores seconds of 6 bytes and nanoseconds of 4, whatever
\* its stamps.
THEOREM TypeCorrect == Spec => []TypeOK
<1>1. Init => TypeOK
  <2>1. 0 \in 0 .. SECS - 1 /\ 0 \in 0 .. INT - 1
    BY WidthAssumption
  <2> SUFFICES ASSUME Init
               PROVE  TypeOK
    OBVIOUS
  <2>2. owdm_result \in [sec : 0 .. SECS - 1, nsec : 0 .. INT - 1]
    BY <2>1 DEF Init
  <2>3. tried \in BOOLEAN /\ ila \in BOOLEAN
    BY DEF Init
  <2>4. measured \in [t1 : Stamps \cup {ZeroStamp}, t2 : Stamps \cup {ZeroStamp},
                     limit : Limit \cup {0}]
    BY DEF Init
  <2>5. QED
    BY <2>2, <2>3, <2>4 DEF Init, TypeOK
<1>2. TypeOK /\ [Next]_vars => TypeOK'
  <2> SUFFICES ASSUME TypeOK, [Next]_vars
               PROVE  TypeOK'
    OBVIOUS
  <2>1. ASSUME NEW t1 \in Stamps, NEW t2 \in Stamps, CalcDelay(t1, t2)
        PROVE  TypeOK'
    <3>1. PICK s1 \in Words(t1.sec), s2 \in Words(t2.sec),
               n1 \in Words(t1.nsec), n2 \in Words(t2.nsec) :
            /\ owdm_result' = Stored(Minus(s1, n1, s2, n2))
            /\ tried' = Over(Minus(s1, n1, s2, n2))
            /\ ila' = (Over(Minus(s1, n1, s2, n2)) /\ Writes("sw_trigger", "O_RDONLY"))
      BY <2>1 DEF CalcDelay
    <3> DEFINE d == Minus(s1, n1, s2, n2)
    <3>2. d.sec \in Int /\ d.nsec \in Int
      <4>1. s1 \in Int /\ s2 \in Int /\ n1 \in Int /\ n2 \in Int
        BY StampType, WordType
      <4> DEFINE borrow == IF n2 > n1 THEN 1 ELSE 0
      <4>2. s1 - borrow - s2 \in Int /\ n1 + borrow * NSEC - n2 \in Int
        BY <4>1, WidthAssumption
      <4>3. d = [sec  |-> (s1 - borrow - s2) % ULL, nsec |-> (n1 + borrow * NSEC - n2) % ULL]
        BY DEF Minus
      <4> HIDE DEF d, borrow
      <4>4. ULL \in Nat /\ ULL > 0
        BY WidthAssumption
      <4>5. QED
        BY <4>2, <4>3, <4>4, RemainderType
    <3> HIDE DEF d
    <3>3. owdm_result' \in [sec : 0 .. SECS - 1, nsec : 0 .. INT - 1]
      <4>1. SECS \in Nat /\ SECS > 0 /\ INT \in Nat /\ INT > 0
        BY WidthAssumption
      <4>2. owdm_result' = [sec |-> d.sec % SECS, nsec |-> d.nsec % INT]
        BY <3>1 DEF Stored, d
      <4>3. d.sec % SECS \in 0 .. SECS - 1 /\ d.nsec % INT \in 0 .. INT - 1
        BY <3>2, <4>1, RemainderType
      <4>4. QED
        BY <4>2, <4>3
    <3>4. tried' \in BOOLEAN /\ ila' \in BOOLEAN
      BY <3>1 DEF Over, Writes
    <3>5. /\ measured' = [t1 |-> t1, t2 |-> t2, limit |-> ecpri_report_limit]
          /\ UNCHANGED ecpri_report_limit
      BY <2>1 DEF CalcDelay
    <3>6. QED
      BY <3>3, <3>4, <3>5 DEF TypeOK
  <2>2. ASSUME NEW limit \in Limit, SetLimit(limit)
        PROVE  TypeOK'
    BY <2>2 DEF SetLimit, TypeOK
  <2>3. CASE UNCHANGED vars
    BY <2>3 DEF vars, TypeOK
  <2>4. QED
    BY <2>1, <2>2, <2>3 DEF Next
<1>3. QED
  BY <1>1, <1>2, PTL DEF Spec

\* For sensible stamps, what "ecpri owdm_res" shows is their exact difference,
\* whatever the width of the words.
THEOREM DelayExact == Spec => []DelayShownIsDifference
<1>1. Init => DelayShownIsDifference
  BY DelayInit
<1>2. QED
  BY <1>1, DelayStep, PTL DEF Spec

\* The test of the report limit, for sensible stamps and any limit a long holds:
\* exact for a limit below a second, and otherwise that of a whole second; and no
\* measurement reaches the ILA.
THEOREM LimitExact == Spec => []LimitTestExact
<1>1. Init => LimitTestExact
  BY DelayInit
<1>2. QED
  BY <1>1, LimitStep, TypeCorrect, PTL DEF Spec
=============================================================================
