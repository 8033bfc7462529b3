------------------------------ MODULE SDDSTime ------------------------------
(***************************************************************************)
(* The time of an SDDS packet: a count of 250 picosecond tics, ps250, and  *)
(* a fraction of a tic, pf250, both unsigned integers that wrap.           *)
(***************************************************************************)
EXTENDS Integers

CONSTANTS
    TicMod,         \* the values of ps250: 2^64 in the code
    FracMod,        \* the values of pf250: 2^32 in the code
    TicsPerSecond   \* 4000000000 in the code

ASSUME TimeAssumption ==
    TicMod \in Nat \ {0} /\ FracMod \in Nat \ {0} /\ TicsPerSecond \in Nat \ {0}

SDDSTimes == [ps250 : 0 .. TicMod - 1, pf250 : 0 .. FracMod - 1]

\* A time in fractions of a tic.
Fractions(t) == t.ps250 * FracMod + t.pf250

\* An unsigned integer of m values that was passed over, or under, at most once.
Wrapped(n, m) == IF n >= m THEN n - m ELSE IF n < 0 THEN n + m ELSE n

\* Variant: the carry is lost.
Plus_NoCarry(s, t) ==
    [ps250 |-> Wrapped(s.ps250 + t.ps250, TicMod),
     pf250 |-> Wrapped(s.pf250 + t.pf250, FracMod)]

\* operator+ and operator+=: the sum of the fractions has a 33rd bit.
Plus(s, t) ==
    LET carry == IF s.pf250 + t.pf250 >= FracMod THEN 1 ELSE 0
    IN  [ps250 |-> Wrapped(s.ps250 + t.ps250 + carry, TicMod),
         pf250 |-> Wrapped(s.pf250 + t.pf250, FracMod)]

\* operator- and operator-=
Minus(s, t) ==
    LET borrow == IF s.pf250 >= t.pf250 THEN 0 ELSE 1
    IN  [ps250 |-> Wrapped(s.ps250 - (t.ps250 + borrow), TicMod),
         pf250 |-> Wrapped(s.pf250 - t.pf250, FracMod)]

Less(s, t) ==
    IF s.ps250 = t.ps250 THEN s.pf250 < t.pf250 ELSE s.ps250 < t.ps250

\* The conversion of a double to uint64_t: undefined for what the type cannot hold.
ToTics(n) == IF n \in 0 .. TicMod - 1 THEN {n} ELSE 0 .. TicMod - 1

\* Variant: the fraction keeps the whole tics.
FromSeconds_WholeKept(whole, part) ==
    {[ps250 |-> (n * TicsPerSecond + part \div FracMod) % TicMod, pf250 |-> part] :
         n \in ToTics(whole)}

\* SDDSTime(integral, fractional), with the fraction of a second in fractions of a tic.
FromSeconds(whole, part) ==
    {[ps250 |-> (n * TicsPerSecond + part \div FracMod) % TicMod, pf250 |-> part % FracMod] :
         n \in ToTics(whole)}

=============================================================================
