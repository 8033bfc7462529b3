------------------------------ MODULE SDDSClock ------------------------------
(***************************************************************************)
(* The time tag of a packet: setSddsTimestamp(), which counts from the     *)
(* start of the year, and getStartOfYear(), which finds that start with    *)
(* gmtime() and mktime() from the clock of the host.  The time stamp is    *)
(* upstream's, and the packet is sent later, perhaps in another year.      *)
(*                                                                         *)
(* gmtime() returns a static object of the process, here tm: each thread   *)
(* that sends changes it in place, and reads it again with mktime().       *)
(***************************************************************************)
EXTENDS SDDSTime, Sequences

CONSTANTS
    YearStart,     \* 1 January 00:00:00 UTC of each year, in seconds since 1970
    SecondsPerDay,
    Zones,         \* the values of timezone, seconds west of UTC
    MaxTime,       \* bound: the last second of the run
    Skew,          \* bound: seconds between a time stamp and the clock of the host
    Senders        \* the processors that send at the same time

\* Every second of the run belongs to a year.
ASSUME CalendarAssumption ==
    /\ YearStart \in Seq(Nat)
    /\ \A t \in 0 .. MaxTime :
          \E y \in 1 .. Len(YearStart) - 1 : YearStart[y] <= t /\ t < YearStart[y + 1]
ASSUME ClockAssumption ==
    /\ SecondsPerDay \in Nat \ {0} /\ Zones \subseteq Int
    /\ MaxTime \in Nat /\ Skew \in Nat
\* 64 bits hold every time of a year.
ASSUME WidthAssumption == (MaxTime + Skew + 1) * TicsPerSecond <= TicMod

VARIABLES
    now,             \* the clock of the host, in seconds
    timezone,        \* of the C library
    tm,              \* the object gmtime() returns
    at,              \* how far the processing thread has got
    systemtime,      \* local of getStartOfYear()
    m_current_time,  \* the time stamp of the block: seconds, and fractions of a tic
    ttag             \* ttag and ttage of the header template

vars == <<now, timezone, tm, at, systemtime, m_current_time, ttag>>

Years == 1 .. Len(YearStart) - 1
YearOf(t) == CHOOSE y \in Years : YearStart[y] <= t /\ t < YearStart[y + 1]

\* tm_year; tm_mon and tm_mday; tm_hour, tm_min and tm_sec.
gmtime(t) ==
    LET rest == t - YearStart[YearOf(t)]
    IN  [year |-> YearOf(t), day |-> rest \div SecondsPerDay, sec |-> rest % SecondsPerDay]

\* The broken-down time is taken for local standard time, as tm_isdst = 0 of gmtime() says.
mktime(t) == YearStart[t.year] + t.day * SecondsPerDay + t.sec + timezone

Init ==
    /\ now \in 0 .. MaxTime
    /\ timezone \in Zones
    /\ tm = gmtime(0)
    /\ at = [p \in Senders |-> "read"]
    /\ systemtime = [p \in Senders |-> 0]
    /\ m_current_time = [p \in Senders |-> [twsec |-> 0, tfsec |-> 0]]
    /\ ttag = [p \in Senders |-> [ps250 |-> 0, pf250 |-> 0]]

Tick ==
    /\ now < MaxTime
    /\ now' = now + 1
    /\ UNCHANGED <<timezone, tm, at, systemtime, m_current_time, ttag>>

\* getDataPointer()
ReadBlock(p) ==
    /\ at[p] = "read"
    /\ \E s \in 0 .. MaxTime, f \in 0 .. TicsPerSecond * FracMod - 1 :
          /\ now - Skew <= s /\ s <= now + Skew
          /\ m_current_time' = [m_current_time EXCEPT ![p] = [twsec |-> s, tfsec |-> f]]
    /\ at' = [at EXCEPT ![p] = "gmtime"]
    /\ UNCHANGED <<now, timezone, tm, systemtime, ttag>>

\* time() and gmtime()
Gmtime(p) ==
    /\ at[p] = "gmtime"
    /\ systemtime' = [systemtime EXCEPT ![p] = now]
    /\ tm' = gmtime(now)
    /\ at' = [at EXCEPT ![p] = "reset"]
    /\ UNCHANGED <<now, timezone, m_current_time, ttag>>

\* Variant: the day of the year is not reset.
Reset_Day(p) ==
    /\ at[p] = "reset"
    /\ tm' = [tm EXCEPT !.sec = 0]
    /\ at' = [at EXCEPT ![p] = "mktime"]
    /\ UNCHANGED <<now, timezone, systemtime, m_current_time, ttag>>

\* The fields are set to the first of January.
Reset(p) ==
    /\ at[p] = "reset"
    /\ tm' = [tm EXCEPT !.day = 0, !.sec = 0]
    /\ at' = [at EXCEPT ![p] = "mktime"]
    /\ UNCHANGED <<now, timezone, systemtime, m_current_time, ttag>>

\* Variant: the start of the year is left in local time.
StartOfYear_Local == mktime(tm)

\* What getStartOfYear() returns.
StartOfYear == mktime(tm) - timezone

\* The rest of setSddsTimestamp(), and the packet is sent.
Stamp(p) ==
    /\ at[p] = "mktime"
    /\ \E t \in FromSeconds(m_current_time[p].twsec - StartOfYear, m_current_time[p].tfsec) :
          ttag' = [ttag EXCEPT ![p] = t]
    /\ at' = [at EXCEPT ![p] = "read"]
    /\ UNCHANGED <<now, timezone, tm, systemtime, m_current_time>>

Next ==
    \/ Tick
    \/ \E p \in Senders : ReadBlock(p) \/ Gmtime(p) \/ Reset(p) \/ Stamp(p)

Spec == Init /\ [][Next]_vars

-----------------------------------------------------------------------------
(* Properties.                                                             *)

Tm == [year : Years, day : Nat, sec : 0 .. SecondsPerDay - 1]

\* Every variable has a value of its type.
TypeOK ==
    /\ now \in 0 .. MaxTime
    /\ timezone \in Zones
    /\ tm \in Tm
    /\ at \in [Senders -> {"read", "gmtime", "reset", "mktime"}]
    /\ systemtime \in [Senders -> 0 .. MaxTime]
    /\ m_current_time \in
          [Senders -> [twsec : 0 .. MaxTime, tfsec : 0 .. TicsPerSecond * FracMod - 1]]
    /\ ttag \in [Senders -> SDDSTimes]

\* tests/Sdds.py:152-163: time tag and extension count the time "since the fixed
\* reference time of 1-January of the current year 00:00:00 UTC", wherever the host is.
\* BulkIOToSDDSProcessor.cpp:490 excepts a time stamp of the year before.
TagDenotesStamp ==
    [][\A p \in Senders : at[p] = "mktime" /\ at'[p] = "read" =>
          LET start == YearStart[YearOf(systemtime[p])] IN
          m_current_time[p].twsec >= start =>
              Fractions(ttag'[p]) =
                  (m_current_time[p].twsec - start) * TicsPerSecond * FracMod
                      + m_current_time[p].tfsec]_vars

\* Arithmetic on the pair is that of one integer of the width of both, which wraps, and
\* its order is that of the integers (sddspacket.h:107-166).
ArithmeticExact ==
    LET modulus == TicMod * FracMod IN
    \A p \in Senders, d \in SDDSTimes :
        /\ Fractions(Plus(ttag[p], d)) = (Fractions(ttag[p]) + Fractions(d)) % modulus
        /\ Fractions(Minus(ttag[p], d)) = (Fractions(ttag[p]) - Fractions(d)) % modulus
        /\ Less(ttag[p], d) <=> Fractions(ttag[p]) < Fractions(d)

=============================================================================
