--------------------------- MODULE SDDSClock_proofs ---------------------------
(***************************************************************************)
(* Proofs about SDDSTime, for integers of any width, and about SDDSClock,  *)
(* for any calendar and time zone.                                         *)
(***************************************************************************)
EXTENDS SDDSClock, TLAPS

-----------------------------------------------------------------------------
(* Arithmetic.                                                             *)

LEMMA ModOnce ==
  ASSUME NEW m \in Nat \ {0}, NEW a \in Int
  PROVE  /\ a \in 0 .. m - 1 => a % m = a
         /\ a - m \in 0 .. m - 1 => a % m = a - m
         /\ a + m \in 0 .. m - 1 => a % m = a + m
  OBVIOUS

LEMMA DivMod ==
  ASSUME NEW m \in Nat \ {0}, NEW a \in Nat
  PROVE  /\ a \div m \in Nat
         /\ a % m \in 0 .. m - 1
         /\ a = (a \div m) * m + (a % m)
  OBVIOUS

LEMMA Distributive ==
  ASSUME NEW a \in Int, NEW b \in Int, NEW c \in Int
  PROVE  (a + b) * c = a * c + b * c /\ (a - b) * c = a * c - b * c
  OBVIOUS

LEMMA Monotone ==
  ASSUME NEW a \in Int, NEW b \in Int, NEW c \in Nat, a <= b
  PROVE  a * c <= b * c
  OBVIOUS

LEMMA ProductTyped == \A a, b \in Nat : a * b \in Nat
  OBVIOUS

USE TimeAssumption

\* A pair stands for an integer below the product of the widths.
LEMMA FractionsTyped ==
  ASSUME NEW t \in SDDSTimes
  PROVE  Fractions(t) \in 0 .. TicMod * FracMod - 1
  <1>1. t.ps250 \in 0 .. TicMod - 1 /\ t.pf250 \in 0 .. FracMod - 1
    BY DEF SDDSTimes
  <1>2. 0 <= t.ps250 * FracMod /\ (t.ps250 + 1) * FracMod <= TicMod * FracMod
    BY <1>1, Monotone
  <1>3. (t.ps250 + 1) * FracMod = t.ps250 * FracMod + FracMod
    BY <1>1, Distributive
  <1> QED BY <1>1, <1>2, <1>3 DEF Fractions

\* The carry and the wrap of a sum of two pairs.
LEMMA PlusExact ==
  ASSUME NEW s \in SDDSTimes, NEW t \in SDDSTimes
  PROVE  /\ Plus(s, t) \in SDDSTimes
         /\ Fractions(Plus(s, t)) = (Fractions(s) + Fractions(t)) % (TicMod * FracMod)
  <1> DEFINE M == TicMod * FracMod
             carry == IF s.pf250 + t.pf250 >= FracMod THEN 1 ELSE 0
             tics == s.ps250 + t.ps250 + carry
             part == s.pf250 + t.pf250 - carry * FracMod
  <1>1. /\ s.ps250 \in 0 .. TicMod - 1 /\ s.pf250 \in 0 .. FracMod - 1
        /\ t.ps250 \in 0 .. TicMod - 1 /\ t.pf250 \in 0 .. FracMod - 1
    BY DEF SDDSTimes
  <1>2. part \in 0 .. FracMod - 1 /\ Wrapped(s.pf250 + t.pf250, FracMod) = part
    BY <1>1 DEF Wrapped
  <1>3. tics \in Nat /\ tics <= 2 * TicMod - 1
    BY <1>1
  <1>4. Plus(s, t) = [ps250 |-> Wrapped(tics, TicMod), pf250 |-> part]
    BY <1>2 DEF Plus
  <1>5. Wrapped(tics, TicMod) \in 0 .. TicMod - 1
    BY <1>3 DEF Wrapped
  <1>6. Plus(s, t) \in SDDSTimes
    BY <1>2, <1>4, <1>5 DEF SDDSTimes
  <1>7. Fractions(s) + Fractions(t) = tics * FracMod + part
    BY <1>1, Distributive DEF Fractions
  <1> HIDE DEF carry, tics, part
  <1>8. Fractions(Plus(s, t)) = Wrapped(tics, TicMod) * FracMod + part
    BY <1>4 DEF Fractions
  <1>9. \/ Fractions(Plus(s, t)) = Fractions(s) + Fractions(t)
        \/ Fractions(Plus(s, t)) = (Fractions(s) + Fractions(t)) - M
    <2>1. Wrapped(tics, TicMod) \in {tics, tics - TicMod}
      BY <1>3 DEF Wrapped
    <2>2. (tics - TicMod) * FracMod = tics * FracMod - M
      BY <1>3, Distributive
    <2> QED BY <1>2, <1>3, <1>7, <1>8, <2>1, <2>2
  <1>10. /\ Fractions(s) \in Int /\ Fractions(t) \in Int /\ M \in Nat \ {0}
         /\ Fractions(Plus(s, t)) \in 0 .. M - 1
    BY <1>6, FractionsTyped
  <1> HIDE DEF M
  <1> DEFINE sum == Fractions(s) + Fractions(t)
  <1>11. Fractions(Plus(s, t)) = sum % M
    <2>1. sum \in Int /\ Fractions(Plus(s, t)) \in {sum, sum - M}
      BY <1>9, <1>10
    <2> HIDE DEF sum
    <2> QED BY <1>10, <2>1, ModOnce, ZenonT(40)
  <1> QED BY <1>6, <1>11 DEF M

\* The borrow and the wrap of a difference.
LEMMA MinusExact ==
  ASSUME NEW s \in SDDSTimes, NEW t \in SDDSTimes
  PROVE  /\ Minus(s, t) \in SDDSTimes
         /\ Fractions(Minus(s, t)) = (Fractions(s) - Fractions(t)) % (TicMod * FracMod)
  <1> DEFINE M == TicMod * FracMod
             borrow == IF s.pf250 >= t.pf250 THEN 0 ELSE 1
             tics == s.ps250 - (t.ps250 + borrow)
             part == s.pf250 - t.pf250 + borrow * FracMod
  <1>1. /\ s.ps250 \in 0 .. TicMod - 1 /\ s.pf250 \in 0 .. FracMod - 1
        /\ t.ps250 \in 0 .. TicMod - 1 /\ t.pf250 \in 0 .. FracMod - 1
    BY DEF SDDSTimes
  <1>2. part \in 0 .. FracMod - 1 /\ Wrapped(s.pf250 - t.pf250, FracMod) = part
    BY <1>1 DEF Wrapped
  <1>3. tics \in Int /\ -TicMod <= tics /\ tics < TicMod
    BY <1>1
  <1>4. Minus(s, t) = [ps250 |-> Wrapped(tics, TicMod), pf250 |-> part]
    BY <1>2 DEF Minus
  <1>5. Wrapped(tics, TicMod) \in 0 .. TicMod - 1
    BY <1>3 DEF Wrapped
  <1>6. Minus(s, t) \in SDDSTimes
    BY <1>2, <1>4, <1>5 DEF SDDSTimes
  <1>7. Fractions(s) - Fractions(t) = tics * FracMod + part
    BY <1>1, Distributive DEF Fractions
  <1> HIDE DEF borrow, tics, part
  <1>8. Fractions(Minus(s, t)) = Wrapped(tics, TicMod) * FracMod + part
    BY <1>4 DEF Fractions
  <1>9. \/ Fractions(Minus(s, t)) = Fractions(s) - Fractions(t)
        \/ Fractions(Minus(s, t)) = Fractions(s) - Fractions(t) + M
    <2>1. Wrapped(tics, TicMod) \in {tics, tics + TicMod}
      BY <1>3 DEF Wrapped
    <2>2. (tics + TicMod) * FracMod = tics * FracMod + M
      BY <1>3, Distributive
    <2> QED BY <1>2, <1>3, <1>7, <1>8, <2>1, <2>2
  <1>10. /\ Fractions(s) \in Int /\ Fractions(t) \in Int /\ M \in Nat \ {0}
         /\ Fractions(Minus(s, t)) \in 0 .. M - 1
    BY <1>6, FractionsTyped
  <1> HIDE DEF M
  <1>11. Fractions(Minus(s, t)) = (Fractions(s) - Fractions(t)) % M
    BY <1>9, <1>10, ModOnce
  <1> QED BY <1>6, <1>11 DEF M

LEMMA LessExact ==
  ASSUME NEW s \in SDDSTimes, NEW t \in SDDSTimes
  PROVE  Less(s, t) <=> Fractions(s) < Fractions(t)
  <1>1. /\ s.ps250 \in 0 .. TicMod - 1 /\ s.pf250 \in 0 .. FracMod - 1
        /\ t.ps250 \in 0 .. TicMod - 1 /\ t.pf250 \in 0 .. FracMod - 1
    BY DEF SDDSTimes
  <1>2. ASSUME NEW a \in SDDSTimes, NEW b \in SDDSTimes, a.ps250 < b.ps250
        PROVE  Fractions(a) < Fractions(b)
    <2>1. /\ a.ps250 \in Int /\ a.pf250 \in 0 .. FracMod - 1
          /\ b.ps250 \in Int /\ b.pf250 \in 0 .. FracMod - 1
      BY DEF SDDSTimes
    <2>2. (a.ps250 + 1) * FracMod <= b.ps250 * FracMod
      BY <1>2, <2>1, Monotone
    <2>3. (a.ps250 + 1) * FracMod = a.ps250 * FracMod + FracMod
      BY <2>1, Distributive
    <2> QED BY <2>1, <2>2, <2>3 DEF Fractions
  <1>3. Fractions(s) \in Int /\ Fractions(t) \in Int
    BY FractionsTyped
  <1>4. CASE s.ps250 < t.ps250
    BY <1>1, <1>2, <1>4 DEF Less
  <1>5. CASE t.ps250 < s.ps250
    BY <1>1, <1>2, <1>3, <1>5 DEF Less
  <1>6. CASE s.ps250 = t.ps250
    BY <1>1, <1>6 DEF Less, Fractions
  <1> QED BY <1>1, <1>4, <1>5, <1>6

-----------------------------------------------------------------------------
(* Types.                                                                  *)

Stamps == [twsec : 0 .. MaxTime, tfsec : 0 .. TicsPerSecond * FracMod - 1]

LEMMA StartsTyped == \A y \in Years : YearStart[y] \in Nat
  BY CalendarAssumption DEF Years

LEMMA YearTyped ==
  ASSUME NEW t \in 0 .. MaxTime
  PROVE  YearOf(t) \in Years /\ YearStart[YearOf(t)] \in Nat /\ YearStart[YearOf(t)] <= t
  <1>1. \E y \in Years : YearStart[y] <= t /\ t < YearStart[y + 1]
    BY CalendarAssumption DEF Years
  <1>2. YearOf(t) \in Years /\ YearStart[YearOf(t)] <= t
    BY <1>1 DEF YearOf
  <1> QED BY <1>2, CalendarAssumption DEF Years

LEMMA GmtimeTyped ==
  ASSUME NEW t \in 0 .. MaxTime
  PROVE  gmtime(t) \in Tm
  <1>1. /\ YearOf(t) \in Years /\ t - YearStart[YearOf(t)] \in Nat
        /\ SecondsPerDay \in Nat \ {0}
    BY YearTyped, ClockAssumption
  <1> QED BY <1>1, DivMod DEF gmtime, Tm

LEMMA FromSecondsTyped ==
  ASSUME NEW whole \in Int, NEW part \in Nat, NEW t \in FromSeconds(whole, part)
  PROVE  t \in SDDSTimes
  <1>1. PICK n \in ToTics(whole) :
          t = [ps250 |-> (n * TicsPerSecond + part \div FracMod) % TicMod,
               pf250 |-> part % FracMod]
    BY DEF FromSeconds
  <1>2. n \in Nat
    BY <1>1 DEF ToTics
  <1>3. n * TicsPerSecond \in Nat /\ part \div FracMod \in Nat
    BY <1>2, DivMod, ProductTyped
  <1> DEFINE k == n * TicsPerSecond + part \div FracMod
  <1>4. k % TicMod \in 0 .. TicMod - 1
    <2>1. k \in Nat
      BY <1>3
    <2> HIDE DEF k
    <2> QED BY <2>1, DivMod
  <1>5. part % FracMod \in 0 .. FracMod - 1
    BY DivMod
  <1> QED BY <1>1, <1>4, <1>5 DEF SDDSTimes

LEMMA InitTyped == Init => TypeOK
  <1> SUFFICES ASSUME Init PROVE TypeOK
    OBVIOUS
  <1>1. 0 \in 0 .. MaxTime /\ 0 \in 0 .. TicMod - 1 /\ 0 \in 0 .. FracMod - 1
    BY ClockAssumption
  <1>2. 0 \in 0 .. TicsPerSecond * FracMod - 1
    OBVIOUS
  <1>3. tm \in Tm
    BY <1>1, GmtimeTyped DEF Init
  <1> QED BY <1>1, <1>2, <1>3 DEF Init, TypeOK, SDDSTimes

LEMMA TypesInductive == TypeOK /\ [Next]_vars => TypeOK'
  <1> SUFFICES ASSUME TypeOK, [Next]_vars PROVE TypeOK'
    OBVIOUS
  <1> USE DEF TypeOK
  <1>1. CASE Tick
    BY <1>1, ClockAssumption DEF Tick
  <1>2. ASSUME NEW p \in Senders, ReadBlock(p) PROVE TypeOK'
    BY <1>2 DEF ReadBlock
  <1>3. ASSUME NEW p \in Senders, Gmtime(p) PROVE TypeOK'
    BY <1>3, GmtimeTyped DEF Gmtime
  <1>4. ASSUME NEW p \in Senders, Reset(p) PROVE TypeOK'
    <2>1. tm.year \in Years /\ 0 \in 0 .. SecondsPerDay - 1
      BY ClockAssumption DEF Tm
    <2>2. tm' = [year |-> tm.year, day |-> 0, sec |-> 0]
      BY <1>4 DEF Reset, Tm
    <2>3. tm' \in Tm
      BY <2>1, <2>2 DEF Tm
    <2> QED BY <1>4, <2>3 DEF Reset
  <1>5. ASSUME NEW p \in Senders, Stamp(p) PROVE TypeOK'
    <2>1. m_current_time[p] \in Stamps /\ timezone \in Int
      BY ClockAssumption DEF Stamps
    <2>2. tm.day * SecondsPerDay \in Nat /\ tm.sec \in Int
      BY ClockAssumption, ProductTyped DEF Tm
    <2>3. YearStart[tm.year] \in Nat
      BY StartsTyped DEF Tm
    <2>4. StartOfYear \in Int
      BY <2>1, <2>2, <2>3 DEF StartOfYear, mktime
    <2>5. m_current_time[p].twsec \in Int /\ m_current_time[p].tfsec \in Nat
      BY <2>1, ClockAssumption DEF Stamps
    <2>6. \A t \in FromSeconds(m_current_time[p].twsec - StartOfYear, m_current_time[p].tfsec) :
             t \in SDDSTimes
      BY <2>4, <2>5, FromSecondsTyped
    <2>7. ttag' \in [Senders -> SDDSTimes]
      BY <1>5, <2>6 DEF Stamp
    <2> QED BY <1>5, <2>7 DEF Stamp
  <1>6. CASE UNCHANGED vars
    BY <1>6 DEF vars
  <1> QED BY <1>1, <1>2, <1>3, <1>4, <1>5, <1>6 DEF Next

\* Every variable keeps its type; the count of tics stays in its width also for a time
\* stamp of the year before, whose conversion is undefined (BulkIOToSDDSProcessor.cpp:490).
THEOREM ClockTypeCorrect == Spec => []TypeOK
  BY InitTyped, TypesInductive, PTL DEF Spec

\* The operators on time stamps are the arithmetic of the integers they stand for, modulo
\* the product of the two widths, whatever those are (sddspacket.h:107).
THEOREM ArithmeticExactHolds == Spec => []ArithmeticExact
  <1>1. TypeOK => ArithmeticExact
    BY PlusExact, MinusExact, LessExact DEF TypeOK, ArithmeticExact
  <1> QED BY <1>1, ClockTypeCorrect, PTL

-----------------------------------------------------------------------------
(* The tag.                                                                *)

LEMMA QuotientBelow ==
  ASSUME NEW m \in Nat \ {0}, NEW k \in Nat, NEW a \in 0 .. k * m - 1
  PROVE  a \div m <= k - 1
  <1>1. a \div m \in Nat /\ (a \div m) * m <= a
    BY DivMod
  <1>2. a \div m >= k => (a \div m) * m >= k * m
    BY <1>1, Monotone
  <1> QED BY <1>1, <1>2

\* Seconds that the width holds are converted without loss.
LEMMA FromSecondsExact ==
  ASSUME NEW n \in 0 .. MaxTime, NEW part \in 0 .. TicsPerSecond * FracMod - 1,
         NEW t \in FromSeconds(n, part)
  PROVE  Fractions(t) = n * TicsPerSecond * FracMod + part
  <1> DEFINE q == part \div FracMod
             r == part % FracMod
             k == n * TicsPerSecond + q
  <1>1. part \in Nat /\ q \in Nat /\ q <= TicsPerSecond - 1 /\ r \in 0 .. FracMod - 1
        /\ part = q * FracMod + r
    <2>1. part \in Nat
      OBVIOUS
    <2>2. q \in Nat /\ r \in 0 .. FracMod - 1 /\ part = q * FracMod + r
      BY <2>1, DivMod
    <2>3. q <= TicsPerSecond - 1
      BY QuotientBelow
    <2> HIDE DEF q, r
    <2> QED BY <2>1, <2>2, <2>3
  <1>2. (n + 1) * TicsPerSecond <= TicMod
    <2>1. (n + 1) * TicsPerSecond <= (MaxTime + Skew + 1) * TicsPerSecond
      BY ClockAssumption, Monotone
    <2> QED BY <2>1, ClockAssumption, WidthAssumption
  <1>3. n \in 0 .. TicMod - 1
    <2>1. n + 1 <= (n + 1) * TicsPerSecond
      BY ClockAssumption
    <2> QED BY <1>2, <2>1, ClockAssumption
  <1>4. t = [ps250 |-> k % TicMod, pf250 |-> r]
    BY <1>3 DEF FromSeconds, ToTics
  <1>5. k \in 0 .. TicMod - 1
    <2>1. (n + 1) * TicsPerSecond = n * TicsPerSecond + TicsPerSecond
      BY Distributive, ClockAssumption
    <2>2. n * TicsPerSecond \in Nat
      BY ProductTyped, ClockAssumption
    <2> HIDE DEF q
    <2> QED BY <1>1, <1>2, <2>1, <2>2
  <1>6. t.ps250 = k /\ t.pf250 = r
    <2> HIDE DEF k, r
    <2>1. k \in Int /\ k % TicMod = k
      BY <1>5, ModOnce
    <2> QED BY <1>4, <2>1
  <1>7. k * FracMod = n * TicsPerSecond * FracMod + q * FracMod
    <2>1. n * TicsPerSecond \in Nat
      BY ProductTyped, ClockAssumption
    <2> HIDE DEF q
    <2> QED BY <1>1, <2>1, Distributive
  <1>8. n * TicsPerSecond * FracMod \in Nat /\ q * FracMod \in Nat
    BY <1>1, ProductTyped, ClockAssumption
  <1> HIDE DEF k, q, r
  <1> QED BY <1>1, <1>6, <1>7, <1>8 DEF Fractions

\* What a processing thread has found in the object of gmtime(), or left there.
TagInv ==
    \A p \in Senders :
        /\ at[p] = "reset" => tm = gmtime(systemtime[p])
        /\ at[p] = "mktime" => tm = [year |-> YearOf(systemtime[p]), day |-> 0, sec |-> 0]

LEMMA TagInductive ==
  ASSUME \A p, q \in Senders : p = q, TypeOK, TagInv, [Next]_vars
  PROVE  TagInv'
  <1> USE DEF TypeOK, TagInv
  <1>1. CASE Tick
    BY <1>1 DEF Tick
  <1>2. ASSUME NEW p \in Senders, ReadBlock(p) PROVE TagInv'
    BY <1>2 DEF ReadBlock
  <1>3. ASSUME NEW p \in Senders, Gmtime(p) PROVE TagInv'
    <2>1. systemtime'[p] = now /\ tm' = gmtime(now) /\ at'[p] = "reset"
      BY <1>3 DEF Gmtime
    <2>2. gmtime(systemtime[p])' = gmtime(systemtime'[p])
      BY DEF gmtime, YearOf
    <2> QED BY <2>1, <2>2 DEF gmtime, YearOf
  <1>4. ASSUME NEW p \in Senders, Reset(p) PROVE TagInv'
    <2>1. tm' = [gmtime(systemtime[p]) EXCEPT !.day = 0, !.sec = 0]
      BY <1>4 DEF Reset
    <2>2. tm' = [year |-> YearOf(systemtime[p]), day |-> 0, sec |-> 0]
      BY <2>1 DEF gmtime
    <2> QED BY <1>4, <2>2, ZenonT(40) DEF Reset
  <1>5. ASSUME NEW p \in Senders, Stamp(p) PROVE TagInv'
    BY <1>5 DEF Stamp
  <1>6. CASE UNCHANGED vars
    BY <1>6 DEF vars
  <1> QED BY <1>1, <1>2, <1>3, <1>4, <1>5, <1>6 DEF Next

\* What getStartOfYear() returns is the start of the year it asked for, in any zone.
LEMMA StartOfYearIsStart ==
  ASSUME TypeOK, TagInv, NEW p \in Senders, at[p] = "mktime"
  PROVE  StartOfYear = YearStart[YearOf(systemtime[p])]
  <1>1. tm = [year |-> YearOf(systemtime[p]), day |-> 0, sec |-> 0]
    BY DEF TagInv
  <1>2. systemtime[p] \in 0 .. MaxTime /\ timezone \in Int
    BY ClockAssumption DEF TypeOK
  <1>3. YearStart[tm.year] \in Int
    BY <1>1, <1>2, YearTyped
  <1> QED BY <1>1, <1>2, <1>3, ClockAssumption DEF StartOfYear, mktime

LEMMA StampExact ==
  ASSUME TypeOK, TagInv, NEW p \in Senders, Stamp(p),
         NEW start, start = YearStart[YearOf(systemtime[p])],
         m_current_time[p].twsec >= start
  PROVE  Fractions(ttag'[p]) =
            (m_current_time[p].twsec - start) * TicsPerSecond * FracMod + m_current_time[p].tfsec
  <1>1. StartOfYear = start /\ start \in Nat
    BY StartOfYearIsStart, YearTyped DEF Stamp, TypeOK
  <1>2. m_current_time[p] \in Stamps
    BY DEF TypeOK, Stamps
  <1>3. /\ m_current_time[p].twsec - start \in 0 .. MaxTime
        /\ m_current_time[p].tfsec \in 0 .. TicsPerSecond * FracMod - 1
    BY <1>1, <1>2, ClockAssumption DEF Stamps
  <1>4. ttag'[p] \in FromSeconds(m_current_time[p].twsec - start, m_current_time[p].tfsec)
    BY <1>1 DEF Stamp, TypeOK
  <1> QED BY <1>3, <1>4, FromSecondsExact

\* One processor's tag counts from the start of the year of its clock, in every time zone;
\* two that send at the same time share the object of gmtime() (BulkIOToSDDSProcessor.cpp:511).
THEOREM TagDenotesStampHolds ==
  ASSUME \A p, q \in Senders : p = q
  PROVE  Spec => TagDenotesStamp
  <1>1. Init => TagInv
    BY DEF Init, TagInv
  <1>2. TypeOK /\ TagInv /\ [Next]_vars => TagInv'
    BY TagInductive
  <1>3. TypeOK /\ TagInv /\ [Next]_vars =>
          [\A p \in Senders : at[p] = "mktime" /\ at'[p] = "read" =>
              LET start == YearStart[YearOf(systemtime[p])] IN
              m_current_time[p].twsec >= start =>
                  Fractions(ttag'[p]) =
                      (m_current_time[p].twsec - start) * TicsPerSecond * FracMod
                          + m_current_time[p].tfsec]_vars
    <2> SUFFICES ASSUME TypeOK, TagInv, Next, NEW p \in Senders, at[p] = "mktime", at'[p] = "read"
                 PROVE  Stamp(p)
      BY StampExact
    <2> QED BY DEF Next, Tick, ReadBlock, Gmtime, Reset, Stamp, TypeOK
  <1> QED BY <1>1, <1>2, <1>3, ClockTypeCorrect, PTL DEF Spec, TagDenotesStamp
=============================================================================
