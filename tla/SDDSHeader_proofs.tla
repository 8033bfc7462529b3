-------------------------- MODULE SDDSHeader_proofs --------------------------
(***************************************************************************)
(* Proofs about SDDSHeader: the receiver reads in every field what was     *)
(* meant for it, for any user headers, sample rates and contents of the    *)
(* memory.                                                                 *)
(***************************************************************************)
EXTENDS SDDSHeader, SDDSPackets_proofs

-----------------------------------------------------------------------------
(* Words as bits.  A word in the memory of the host is a high byte b, the  *)
(* three flags m, t and s, and five bits l; swapped, the flags lead and    *)
(* l and b are the low 13 bits.                                            *)

\* A number has one quotient and one remainder.
LEMMA DivUnique ==
  ASSUME NEW m \in Nat \ {0}, NEW q \in Int, NEW r \in 0 .. m - 1
  PROVE  (q * m + r) \div m = q /\ (q * m + r) % m = r
  OBVIOUS

LEMMA DivMod ==
  ASSUME NEW m \in Nat \ {0}, NEW a \in Nat
  PROVE  /\ a \div m \in Nat
         /\ a % m \in 0 .. m - 1
         /\ a = (a \div m) * m + (a % m)
  OBVIOUS

Byte == 0 .. 255
Bit  == 0 .. 1
Five == 0 .. 31

LEMMA WordBytes ==
  ASSUME NEW w \in Word
  PROVE  \E q \in Byte, r \in Byte : w \div 256 = q /\ w % 256 = r /\ w = q * 256 + r
  <1>1. w \in Nat /\ w <= 65535
    BY SMTT(60) DEF Word
  <1>2. w \div 256 \in Nat /\ w % 256 \in 0 .. 255 /\ w = (w \div 256) * 256 + (w % 256)
    BY <1>1
  <1>3. w \div 256 <= 255
    BY <1>1, <1>2
  <1>4. w \div 256 \in Byte /\ w % 256 \in Byte
    BY <1>2, <1>3 DEF Byte
  <1> QED BY <1>2, <1>4, SMTT(60)

LEMMA TwoBytes ==
  ASSUME NEW c \in Byte, NEW q \in Byte
  PROVE  c * 256 + q \in Word
  <1>1. c * 256 \in Nat /\ c * 256 <= 65280 /\ q \in Nat /\ q <= 255
    BY DEF Byte
  <1> QED BY <1>1, SMTT(60) DEF Word

Built(b, m, t, s, l) == b * 256 + m * 128 + t * 64 + s * 32 + l

\* Every word has such parts, ...
LEMMA WordBuilt ==
  ASSUME NEW w \in Word
  PROVE  \E b \in Byte, m \in Bit, t \in Bit, s \in Bit, l \in Five : w = Built(b, m, t, s, l)
  <1>1. PICK b \in Byte, x \in Byte : w \div 256 = b /\ w % 256 = x /\ w = b * 256 + x
    BY WordBytes
  <1>2. PICK m \in Bit, y \in 0 .. 127 : x = m * 128 + y
    <2>1. CASE x < 128
      <3>1. x = 0 * 128 + x /\ 0 \in Bit /\ x \in 0 .. 127
        BY <2>1 DEF Byte, Bit, Five
      <3> QED BY <3>1 DEF Byte, Bit, Five
    <2>2. CASE x >= 128
      <3>1. x = 1 * 128 + (x - 128) /\ 1 \in Bit /\ x - 128 \in 0 .. 127
        BY <2>2 DEF Byte, Bit, Five
      <3> QED BY <3>1 DEF Byte, Bit, Five
    <2> QED BY <2>1, <2>2 DEF Byte, Bit, Five
  <1>3. PICK t \in Bit, z \in 0 .. 63 : y = t * 64 + z
    <2>1. CASE y < 64
      <3>1. y = 0 * 64 + y /\ 0 \in Bit /\ y \in 0 .. 63
        BY <2>1 DEF Byte, Bit, Five
      <3> QED BY <3>1 DEF Byte, Bit, Five
    <2>2. CASE y >= 64
      <3>1. y = 1 * 64 + (y - 64) /\ 1 \in Bit /\ y - 64 \in 0 .. 63
        BY <2>2 DEF Byte, Bit, Five
      <3> QED BY <3>1 DEF Byte, Bit, Five
    <2> QED BY <2>1, <2>2 DEF Byte, Bit, Five
  <1>4. PICK s \in Bit, l \in Five : z = s * 32 + l
    <2>1. CASE z < 32
      <3>1. z = 0 * 32 + z /\ 0 \in Bit /\ z \in Five
        BY <2>1 DEF Byte, Bit, Five
      <3> QED BY <3>1 DEF Byte, Bit, Five
    <2>2. CASE z >= 32
      <3>1. z = 1 * 32 + (z - 32) /\ 1 \in Bit /\ z - 32 \in Five
        BY <2>2 DEF Byte, Bit, Five
      <3> QED BY <3>1 DEF Byte, Bit, Five
    <2> QED BY <2>1, <2>2 DEF Byte, Bit, Five
  <1>5. w = b * 256 + (m * 128 + (t * 64 + (s * 32 + l)))
    BY <1>1, <1>2, <1>3, <1>4 DEF Byte, Bit, Five
  <1>6. w = Built(b, m, t, s, l)
    BY <1>5 DEF Byte, Bit, Five, Built
  <1> QED BY <1>6

\* ... and any parts make a word.
LEMMA BuiltTyped ==
  ASSUME NEW b \in Byte, NEW m \in Bit, NEW t \in Bit, NEW s \in Bit, NEW l \in Five
  PROVE  \E w \in Word : w = Built(b, m, t, s, l)
  <1>1. PICK x \in Byte : x = m * 128 + t * 64 + s * 32 + l
    BY DEF Byte, Bit, Five
  <1>2. PICK w \in Word : w = b * 256 + x
    BY TwoBytes
  <1>3. Built(b, m, t, s, l) = b * 256 + x
    BY <1>1 DEF Byte, Bit, Five, Built
  <1> QED BY <1>2, <1>3

BitOf(on) == IF on THEN 1 ELSE 0

\* How w is made of its parts, and what is read from it in both byte orders.
Layout(w, b, m, t, s, l) ==
  /\ w = Built(b, m, t, s, l)
  /\ w % 256 = m * 128 + t * 64 + s * 32 + l
  /\ (w % 256) \div 32 = m * 4 + t * 2 + s
  /\ Has(w, MSV) <=> m = 1
  /\ Has(w, TTV) <=> t = 1
  /\ Has(w, SSCV) <=> s = 1
  /\ Flag(w, 32768) = m
  /\ Flag(w, 16384) = t
  /\ Flag(w, 8192) = s
  /\ Swapped(w) % 8192 = l * 256 + b

LEMMA WordRead ==
  ASSUME NEW w \in Word
  PROVE  \E b \in Byte, m \in Bit, t \in Bit, s \in Bit, l \in Five :
            Layout(w, b, m, t, s, l)
  <1>1. PICK b \in Byte, m \in Bit, t \in Bit, s \in Bit, l \in Five :
             w = Built(b, m, t, s, l)
    BY WordBuilt
  <1>2. w \in Int
    BY DEF Byte, Bit, Five, Word
  <1>3. w = b * 256 + (m * 128 + t * 64 + s * 32 + l)
    BY <1>1 DEF Byte, Bit, Five, Built
  <1>4. w \div 256 = b /\ w % 256 = m * 128 + t * 64 + s * 32 + l
    BY <1>3, DivUnique DEF Byte, Bit, Five
  <1>5. w \div 128 = b * 2 + m
    <2>1. w = (b * 2 + m) * 128 + (t * 64 + s * 32 + l)
      BY <1>3 DEF Byte, Bit, Five
    <2> QED BY <2>1, DivUnique DEF Byte, Bit, Five
  <1>6. w \div 64 = (b * 2 + m) * 2 + t
    <2>1. w = ((b * 2 + m) * 2 + t) * 64 + (s * 32 + l)
      BY <1>3 DEF Byte, Bit, Five
    <2> QED BY <2>1, DivUnique DEF Byte, Bit, Five
  <1>7. w \div 32 = ((b * 2 + m) * 2 + t) * 2 + s
    <2>1. w = (((b * 2 + m) * 2 + t) * 2 + s) * 32 + l
      BY <1>3 DEF Byte, Bit, Five
    <2> QED BY <2>1, DivUnique DEF Byte, Bit, Five
  <1>8. (w % 256) \div 32 = m * 4 + t * 2 + s
    <2>1. w % 256 = (m * 4 + t * 2 + s) * 32 + l
      BY <1>4 DEF Byte, Bit, Five
    <2> QED BY <2>1, DivUnique DEF Byte, Bit, Five
  <1>9. \A q \in Int, r \in Bit : (q * 2 + r) % 2 = r
    BY DivUnique DEF Byte, Bit, Five
  <1>10. Has(w, MSV) <=> m = 1
    BY <1>5, <1>9 DEF Byte, Bit, Five, Has, MSV
  <1>11. Has(w, TTV) <=> t = 1
    BY <1>6, <1>9 DEF Byte, Bit, Five, Has, TTV
  <1>12. Has(w, SSCV) <=> s = 1
    BY <1>7, <1>9 DEF Byte, Bit, Five, Has, SSCV
  <1> DEFINE x == Swapped(w)
  <1>13. x = (m * 128 + t * 64 + s * 32 + l) * 256 + b
    BY <1>4 DEF Byte, Bit, Five, Swapped
  <1> HIDE DEF x
  <1>14. x = m * 32768 + t * 16384 + s * 8192 + l * 256 + b
    BY <1>13 DEF Byte, Bit, Five
  <1>15. x % 8192 = l * 256 + b /\ x \div 8192 = (m * 2 + t) * 2 + s
    <2>1. x = ((m * 2 + t) * 2 + s) * 8192 + (l * 256 + b)
      BY <1>14 DEF Byte, Bit, Five
    <2> QED BY <2>1, DivUnique DEF Byte, Bit, Five
  <1>16. x \div 16384 = m * 2 + t
    <2>1. x = (m * 2 + t) * 16384 + (s * 8192 + l * 256 + b)
      BY <1>14 DEF Byte, Bit, Five
    <2> QED BY <2>1, DivUnique DEF Byte, Bit, Five
  <1>17. x \div 32768 = 0 * 2 + m
    <2>1. x = m * 32768 + (t * 16384 + s * 8192 + l * 256 + b)
      BY <1>14 DEF Byte, Bit, Five
    <2> QED BY <2>1, DivUnique DEF Byte, Bit, Five
  <1>18. Has(x, 32768) <=> m = 1
    BY <1>17, <1>9 DEF Byte, Bit, Five, Has
  <1>19. Has(x, 16384) <=> t = 1
    BY <1>16, <1>9 DEF Byte, Bit, Five, Has
  <1>20. Has(x, 8192) <=> s = 1
    BY <1>15, <1>9 DEF Byte, Bit, Five, Has
  <1>21. Flag(w, 32768) = m /\ Flag(w, 16384) = t /\ Flag(w, 8192) = s
    BY <1>18, <1>19, <1>20 DEF Byte, Bit, Five, Flag, x
  <1>22. Swapped(w) % 8192 = l * 256 + b
    BY <1>15 DEF Byte, Bit, Five, x
  <1>23. Layout(w, b, m, t, s, l)
    BY <1>1, <1>4, <1>8, <1>10, <1>11, <1>12, <1>21, <1>22 DEF Byte, Bit, Five, Layout
  <1> QED BY <1>23

LEMMA LayoutOf ==
  ASSUME NEW b \in Byte, NEW m \in Bit, NEW t \in Bit, NEW s \in Bit, NEW l \in Five
  PROVE  \E y \in Word : Layout(y, b, m, t, s, l)
  <1>0. PICK y \in Word : y = Built(b, m, t, s, l)
    BY BuiltTyped
  <1>1. PICK b2 \in Byte, m2 \in Bit, t2 \in Bit, s2 \in Bit, l2 \in Five :
            Layout(y, b2, m2, t2, s2, l2)
    BY WordRead
  <1>2. b * 256 + m * 128 + t * 64 + s * 32 + l = b2 * 256 + m2 * 128 + t2 * 64 + s2 * 32 + l2
    BY <1>0, <1>1 DEF Byte, Bit, Five, Built, Layout
  <1>3. b = b2 /\ m = m2 /\ t = t2 /\ s = s2 /\ l = l2
    BY <1>2 DEF Byte, Bit, Five
  <1>4. Layout(y, b, m, t, s, l)
    BY <1>1, <1>3 DEF Byte, Bit, Five
  <1> QED BY <1>4

\* A flag that is set changes no other, and not msptr.
LEMMA SetMsv ==
  ASSUME NEW w \in Word, NEW on \in BOOLEAN
  PROVE  LET x == SetFlag(w, MSV, on) IN
         /\ x \in Word
         /\ Flag(x, 32768) = BitOf(on)
         /\ Flag(x, 16384) = Flag(w, 16384)
         /\ Flag(x, 8192) = Flag(w, 8192)
         /\ Swapped(x) % 8192 = Swapped(w) % 8192
  <1> DEFINE x == SetFlag(w, MSV, on)
  <1>1. PICK b \in Byte, m \in Bit, t \in Bit, s \in Bit, l \in Five :
             Layout(w, b, m, t, s, l)
    BY WordRead
  <1>2. PICK n \in Bit : n = BitOf(on)
    BY DEF Byte, Bit, Five, BitOf
  <1>3. PICK y \in Word : Layout(y, b, n, t, s, l)
    BY LayoutOf
  <1>4. w = b * 256 + m * 128 + t * 64 + s * 32 + l
    BY <1>1 DEF Byte, Bit, Five, Layout, Built
  <1>5. y = b * 256 + n * 128 + t * 64 + s * 32 + l
    BY <1>3, SMTT(60) DEF Byte, Bit, Five, Layout, Built
  <1>6. w \in Int /\ y \in Int
    BY DEF Byte, Bit, Five, Word
  <1>7. y + m * 128 = w + n * 128
    BY <1>4, <1>5, <1>6 DEF Byte, Bit, Five
  <1>8. (m = 1 <=> Has(w, MSV)) /\ (n = 1 <=> on)
    BY <1>1, <1>2 DEF Byte, Bit, Five, Layout, BitOf
  <1>9. x = y
    <2>1. CASE m = 1 /\ n = 1
      <3>1. y = (w - 128) + 128
        BY <1>6, <1>7, <2>1 DEF Byte, Bit, Five
      <3> QED BY <1>8, <2>1, <3>1 DEF Byte, Bit, Five, SetFlag, MSV
    <2>2. CASE m = 1 /\ n = 0
      <3>1. y = (w - 128) + 0
        BY <1>6, <1>7, <2>2 DEF Byte, Bit, Five
      <3> QED BY <1>8, <2>2, <3>1 DEF Byte, Bit, Five, SetFlag, MSV
    <2>3. CASE m = 0 /\ n = 1
      <3>1. y = w + 128
        BY <1>6, <1>7, <2>3 DEF Byte, Bit, Five
      <3> QED BY <1>8, <2>3, <3>1 DEF Byte, Bit, Five, SetFlag, MSV
    <2>4. CASE m = 0 /\ n = 0
      <3>1. y = w + 0
        BY <1>6, <1>7, <2>4 DEF Byte, Bit, Five
      <3> QED BY <1>8, <2>4, <3>1 DEF Byte, Bit, Five, SetFlag, MSV
    <2> QED BY <2>1, <2>2, <2>3, <2>4 DEF Byte, Bit, Five
  <1> QED BY <1>1, <1>2, <1>3, <1>9 DEF Layout

LEMMA SetTtv ==
  ASSUME NEW w \in Word, NEW on \in BOOLEAN
  PROVE  LET x == SetFlag(w, TTV, on) IN
         /\ x \in Word
         /\ Flag(x, 32768) = Flag(w, 32768)
         /\ Flag(x, 16384) = BitOf(on)
         /\ Flag(x, 8192) = Flag(w, 8192)
         /\ Swapped(x) % 8192 = Swapped(w) % 8192
  <1> DEFINE x == SetFlag(w, TTV, on)
  <1>1. PICK b \in Byte, m \in Bit, t \in Bit, s \in Bit, l \in Five :
             Layout(w, b, m, t, s, l)
    BY WordRead
  <1>2. PICK n \in Bit : n = BitOf(on)
    BY DEF Byte, Bit, Five, BitOf
  <1>3. PICK y \in Word : Layout(y, b, m, n, s, l)
    BY LayoutOf
  <1>4. w = b * 256 + m * 128 + t * 64 + s * 32 + l
    BY <1>1 DEF Byte, Bit, Five, Layout, Built
  <1>5. y = b * 256 + m * 128 + n * 64 + s * 32 + l
    BY <1>3 DEF Byte, Bit, Five, Layout, Built
  <1>6. w \in Int /\ y \in Int
    BY DEF Byte, Bit, Five, Word
  <1>7. y + t * 64 = w + n * 64
    BY <1>4, <1>5, <1>6 DEF Byte, Bit, Five
  <1>8. (t = 1 <=> Has(w, TTV)) /\ (n = 1 <=> on)
    BY <1>1, <1>2 DEF Byte, Bit, Five, Layout, BitOf
  <1>9. x = y
    <2>1. CASE t = 1 /\ n = 1
      <3>1. y = (w - 64) + 64
        BY <1>6, <1>7, <2>1 DEF Byte, Bit, Five
      <3> QED BY <1>8, <2>1, <3>1 DEF Byte, Bit, Five, SetFlag, TTV
    <2>2. CASE t = 1 /\ n = 0
      <3>1. y = (w - 64) + 0
        BY <1>6, <1>7, <2>2 DEF Byte, Bit, Five
      <3> QED BY <1>8, <2>2, <3>1 DEF Byte, Bit, Five, SetFlag, TTV
    <2>3. CASE t = 0 /\ n = 1
      <3>1. y = w + 64
        BY <1>6, <1>7, <2>3 DEF Byte, Bit, Five
      <3> QED BY <1>8, <2>3, <3>1 DEF Byte, Bit, Five, SetFlag, TTV
    <2>4. CASE t = 0 /\ n = 0
      <3>1. y = w + 0
        BY <1>6, <1>7, <2>4 DEF Byte, Bit, Five
      <3> QED BY <1>8, <2>4, <3>1 DEF Byte, Bit, Five, SetFlag, TTV
    <2> QED BY <2>1, <2>2, <2>3, <2>4 DEF Byte, Bit, Five
  <1> QED BY <1>1, <1>2, <1>3, <1>9 DEF Layout

LEMMA SetSscv ==
  ASSUME NEW w \in Word, NEW on \in BOOLEAN
  PROVE  LET x == SetFlag(w, SSCV, on) IN
         /\ x \in Word
         /\ Flag(x, 32768) = Flag(w, 32768)
         /\ Flag(x, 16384) = Flag(w, 16384)
         /\ Flag(x, 8192) = BitOf(on)
         /\ Swapped(x) % 8192 = Swapped(w) % 8192
  <1> DEFINE x == SetFlag(w, SSCV, on)
  <1>1. PICK b \in Byte, m \in Bit, t \in Bit, s \in Bit, l \in Five :
             Layout(w, b, m, t, s, l)
    BY WordRead
  <1>2. PICK n \in Bit : n = BitOf(on)
    BY DEF Byte, Bit, Five, BitOf
  <1>3. PICK y \in Word : Layout(y, b, m, t, n, l)
    BY LayoutOf
  <1>4. w = b * 256 + m * 128 + t * 64 + s * 32 + l
    BY <1>1 DEF Byte, Bit, Five, Layout, Built
  <1>5. y = b * 256 + m * 128 + t * 64 + n * 32 + l
    BY <1>3 DEF Byte, Bit, Five, Layout, Built
  <1>6. w \in Int /\ y \in Int
    BY DEF Byte, Bit, Five, Word
  <1>7. y + s * 32 = w + n * 32
    BY <1>4, <1>5, <1>6 DEF Byte, Bit, Five
  <1>8. (s = 1 <=> Has(w, SSCV)) /\ (n = 1 <=> on)
    BY <1>1, <1>2 DEF Byte, Bit, Five, Layout, BitOf
  <1>9. x = y
    <2>1. CASE s = 1 /\ n = 1
      <3>1. y = (w - 32) + 32
        BY <1>6, <1>7, <2>1 DEF Byte, Bit, Five
      <3> QED BY <1>8, <2>1, <3>1 DEF Byte, Bit, Five, SetFlag, SSCV
    <2>2. CASE s = 1 /\ n = 0
      <3>1. y = (w - 32) + 0
        BY <1>6, <1>7, <2>2 DEF Byte, Bit, Five
      <3> QED BY <1>8, <2>2, <3>1 DEF Byte, Bit, Five, SetFlag, SSCV
    <2>3. CASE s = 0 /\ n = 1
      <3>1. y = w + 32
        BY <1>6, <1>7, <2>3 DEF Byte, Bit, Five
      <3> QED BY <1>8, <2>3, <3>1 DEF Byte, Bit, Five, SetFlag, SSCV
    <2>4. CASE s = 0 /\ n = 0
      <3>1. y = w + 0
        BY <1>6, <1>7, <2>4 DEF Byte, Bit, Five
      <3> QED BY <1>8, <2>4, <3>1 DEF Byte, Bit, Five, SetFlag, SSCV
    <2> QED BY <2>1, <2>2, <2>3, <2>4 DEF Byte, Bit, Five
  <1> QED BY <1>1, <1>2, <1>3, <1>9 DEF Layout

\* set_msptr() changes none of the flags and keeps 11 bits.
LEMMA SetPointer ==
  ASSUME NEW w \in Word, NEW v \in Word
  PROVE  LET x == set_msptr(w, v) IN
         /\ x \in Word
         /\ Flag(x, 32768) = Flag(w, 32768)
         /\ Flag(x, 16384) = Flag(w, 16384)
         /\ Flag(x, 8192) = Flag(w, 8192)
         /\ Swapped(x) % 8192 = v % 2048
  <1> DEFINE x == set_msptr(w, v)
             p == v % 2048
  <1>1. PICK b \in Byte, m \in Bit, t \in Bit, s \in Bit, l \in Five :
             Layout(w, b, m, t, s, l)
    BY WordRead, SMTT(60)
  <1>2. p \in Nat /\ p < 2048
    BY SMTT(60) DEF Byte, Bit, Five, Word
  <1> HIDE DEF p
  <1>3. PICK q \in 0 .. 7, c \in Byte : p \div 256 = q /\ p % 256 = c /\ p = q * 256 + c
    <2>1. p \div 256 \in 0 .. 7 /\ p % 256 \in Byte /\ p = (p \div 256) * 256 + (p % 256)
      BY <1>2, DivMod DEF Byte, Bit, Five
    <2> QED BY <2>1 DEF Byte, Bit, Five
  <1>4. PICK r \in Five : r = q
    BY DEF Byte, Bit, Five
  <1>5. PICK y \in Word : Layout(y, c, m, t, s, r)
    BY LayoutOf
  <1>6. y = c * 256 + m * 128 + t * 64 + s * 32 + q
    BY <1>4, <1>5 DEF Byte, Bit, Five, Layout, Built
  <1>7. x = (c * 256 + q) + (m * 4 + t * 2 + s) * 32
    BY <1>1, <1>3 DEF Byte, Bit, Five, set_msptr, Swapped, Layout, p
  <1>8. x = y
    BY <1>6, <1>7 DEF Byte, Bit, Five
  <1>9. Swapped(y) % 8192 = q * 256 + c
    BY <1>4, <1>5 DEF Byte, Bit, Five, Layout
  <1> QED BY <1>1, <1>3, <1>5, <1>8, <1>9 DEF Layout, p

LEMMA SwappedTwice ==
  ASSUME NEW w \in Word
  PROVE  Swapped(w) \in Word /\ Swapped(Swapped(w)) = w
  <1>1. PICK q \in Byte, c \in Byte : w \div 256 = q /\ w % 256 = c /\ w = q * 256 + c
    BY WordBytes
  <1>2. PICK y \in Word : y = c * 256 + q
    BY TwoBytes
  <1>3. Swapped(w) = y
    BY <1>1, <1>2 DEF Byte, Bit, Five, Swapped
  <1>4. y \div 256 = c /\ y % 256 = q
    BY <1>2, DivUnique DEF Byte, Bit, Five
  <1>5. Swapped(y) = w
    BY <1>1, <1>4 DEF Byte, Bit, Five, Swapped
  <1>6. Swapped(w) \in Word
    BY <1>3
  <1> QED BY <1>3, <1>5, <1>6

-----------------------------------------------------------------------------
(* The fields.                                                             *)

\* A bit-field keeps a value that it has room for.
LEMMA LowBits ==
  ASSUME NEW v \in Word
  PROVE  /\ v < 2 => v = 0 \/ v = 1
         /\ v % 2 \in 0 .. 1 /\ (v < 2 => v % 2 = v)
         /\ v % 8 \in 0 .. 7 /\ (v < 8 => v % 8 = v)
         /\ v % 32 \in 0 .. 31 /\ (v < 32 => v % 32 = v)
         /\ v % 2048 \in 0 .. 2047 /\ (v < 2048 => v % 2048 = v)
  <1>1. v \in Nat
    BY SMTT(60) DEF Word
  <1>2. \A m \in Nat \ {0} : v < m => v % m = v
    <2> TAKE m \in Nat \ {0}
    <2> HAVE v < m
    <2>1. v \in 0 .. m - 1 /\ v = 0 * m + v
      BY <1>1
    <2> QED BY <2>1, DivUnique
  <1>3. v % 2 \in 0 .. 1 /\ v % 8 \in 0 .. 7 /\ v % 32 \in 0 .. 31 /\ v % 2048 \in 0 .. 2047
    BY <1>1
  <1>4. v < 2 => v = 0 \/ v = 1
    BY <1>1
  <1> QED BY <1>2, <1>3, <1>4, SMTT(60)

LEMMA BitOfWord ==
  ASSUME NEW v \in Word, NEW on \in BOOLEAN, on <=> v # 0, v < 2
  PROVE  BitOf(on) = v
  <1>1. v = 0 \/ v = 1
    BY LowBits
  <1>2. CASE on
    BY <1>1, <1>2 DEF BitOf
  <1>3. CASE ~on
    BY <1>1, <1>3 DEF BitOf
  <1> QED BY <1>2, <1>3

\* FieldsReceived of a header and a template.
Agree(hdr, h) ==
    \A f \in DOMAIN Room :
        hdr[f].by # "memory" /\ Documented(f, hdr[f]) < Room[f] =>
            Received(h)[f] = Documented(f, hdr[f])

ShownFields == {"dmode", "bps", "cx", "msv", "ttv", "sscv", "msptr", "msdel", "freq"}

LEMMA ShownFieldsAre == ShownFields = DOMAIN Room /\ ShownFields \subseteq Fields
  BY DEF ShownFields, Room, Fields, Constructed, Untouched, FromSri

LEMMA AgreeUnfolds ==
  ASSUME NEW hdr, NEW h,
         \A f \in ShownFields : hdr[f].by # "memory" /\ Documented(f, hdr[f]) < Room[f] =>
                                   Received(h)[f] = Documented(f, hdr[f])
  PROVE  Agree(hdr, h)
  BY ShownFieldsAre DEF Agree

\* The conversion of a frequency that the field has room for is exact.
LEMMA FreqConverted ==
  ASSUME NEW v \in Nat, NEW q \in ToFreq(v)
  PROVE  q \in 0 .. FreqMod - 1 /\ (v < FreqMod \div 2 => q = v)
  BY FreqAssumption DEF ToFreq

\* What the user gave is read in every field with room for it, whatever was there before.
LEMMA OverrideTyped ==
  ASSUME NEW o \in Overrides, NEW h \in Templates, NEW x \in OverrideSddsHeader(o, h)
  PROVE  /\ x \in Templates
         /\ \A f \in ShownFields : UserHeader[o][f] < Room[f] => Received(x)[f] = UserHeader[o][f]
  <1> DEFINE u == UserHeader[o]
  <1>1. u \in UserHeaders
    BY UserHeaderAssumption
  <1> HIDE DEF u
  <1>2. /\ u.dmode \in Word /\ u.bps \in Word /\ u.cx \in Word /\ u.msv \in Word /\ u.ttv \in Word
        /\ u.sscv \in Word /\ u.msptr \in Word /\ u.msdel \in Word /\ u.freq \in Nat
    BY <1>1 DEF UserHeaders
  <1>3. h.msptr \in Word
    BY DEF Templates
  <1>4. PICK msv \in BOOLEAN, ttv \in BOOLEAN, sscv \in BOOLEAN :
           (msv <=> u.msv # 0) /\ (ttv <=> u.ttv # 0) /\ (sscv <=> u.sscv # 0)
    OBVIOUS
  <1>5. PICK w0 \in Word : w0 = set_msptr(h.msptr, u.msptr) /\ Swapped(w0) % 8192 = u.msptr % 2048
    BY <1>2, <1>3, SetPointer
  <1>6. PICK w1 \in Word :
           /\ w1 = SetFlag(w0, MSV, msv)
           /\ Flag(w1, 32768) = BitOf(msv)
           /\ Swapped(w1) % 8192 = Swapped(w0) % 8192
    BY SetMsv
  <1>7. PICK w2 \in Word :
           /\ w2 = SetFlag(w1, SSCV, sscv)
           /\ Flag(w2, 32768) = Flag(w1, 32768)
           /\ Flag(w2, 8192) = BitOf(sscv)
           /\ Swapped(w2) % 8192 = Swapped(w1) % 8192
    BY SetSscv
  <1>8. PICK w3 \in Word :
           /\ w3 = SetFlag(w2, TTV, ttv)
           /\ Flag(w3, 32768) = Flag(w2, 32768)
           /\ Flag(w3, 16384) = BitOf(ttv)
           /\ Flag(w3, 8192) = Flag(w2, 8192)
           /\ Swapped(w3) % 8192 = Swapped(w2) % 8192
    BY SetTtv
  <1>9. PICK n \in ToFreq(u.freq) :
            x = [dmode |-> u.dmode % 8, bps |-> u.bps % 32, cx |-> u.cx % 2,
                 msptr |-> w3, msdel |-> Swapped(u.msdel), freq |-> n]
    <2>1. o # 0
      BY OverridesAssumption
    <2>2. /\ w1 = SetFlag(set_msptr(h.msptr, u.msptr), MSV, u.msv # 0)
          /\ w2 = SetFlag(w1, SSCV, u.sscv # 0)
          /\ w3 = SetFlag(w2, TTV, u.ttv # 0)
      BY <1>4, <1>5, <1>6, <1>7, <1>8 DEF SetFlag
    <2> QED BY <2>1, <2>2 DEF OverrideSddsHeader, u
  <1>10. n \in 0 .. FreqMod - 1 /\ (u.freq < FreqMod \div 2 => n = u.freq)
    BY <1>2, FreqConverted
  <1>11. Swapped(u.msdel) \in Word /\ Swapped(Swapped(u.msdel)) = u.msdel
    BY <1>2, SwappedTwice
  <1>12. x \in Templates
    <2>1. u.dmode % 8 \in 0 .. 7 /\ u.bps % 32 \in 0 .. 31 /\ u.cx % 2 \in 0 .. 1
      BY <1>2, LowBits
    <2> QED BY <1>8, <1>9, <1>10, <1>11, <2>1 DEF Templates
  <1>13. ASSUME NEW f \in ShownFields, u[f] < Room[f] PROVE Received(x)[f] = u[f]
    <2>0. /\ Received(x).dmode = u.dmode % 8
          /\ Received(x).bps = u.bps % 32
          /\ Received(x).cx = u.cx % 2
          /\ Received(x).msv = BitOf(msv)
          /\ Received(x).ttv = BitOf(ttv)
          /\ Received(x).sscv = BitOf(sscv)
          /\ Received(x).msptr = u.msptr % 2048
          /\ Received(x).msdel = u.msdel
          /\ Received(x).freq = n
      BY <1>5, <1>6, <1>7, <1>8, <1>9, <1>11 DEF Received
    <2>1. CASE f = "dmode"
      <3>1. u.dmode < 8 => u.dmode % 8 = u.dmode
        BY <1>2, LowBits
      <3> QED BY <1>13, <2>0, <2>1, <3>1 DEF Room
    <2>2. CASE f = "bps"
      <3>1. u.bps < 32 => u.bps % 32 = u.bps
        BY <1>2, LowBits
      <3> QED BY <1>13, <2>0, <2>2, <3>1 DEF Room
    <2>3. CASE f = "cx"
      <3>1. u.cx < 2 => u.cx % 2 = u.cx
        BY <1>2, LowBits
      <3> QED BY <1>13, <2>0, <2>3, <3>1 DEF Room
    <2>4. CASE f = "msv"
      <3>1. u.msv < 2 => BitOf(msv) = u.msv
        BY <1>2, <1>4, BitOfWord
      <3> QED BY <1>13, <2>0, <2>4, <3>1 DEF Room
    <2>5. CASE f = "ttv"
      <3>1. u.ttv < 2 => BitOf(ttv) = u.ttv
        BY <1>2, <1>4, BitOfWord
      <3> QED BY <1>13, <2>0, <2>5, <3>1 DEF Room
    <2>6. CASE f = "sscv"
      <3>1. u.sscv < 2 => BitOf(sscv) = u.sscv
        BY <1>2, <1>4, BitOfWord
      <3> QED BY <1>13, <2>0, <2>6, <3>1 DEF Room
    <2>7. CASE f = "msptr"
      <3>1. u.msptr < 2048 => u.msptr % 2048 = u.msptr
        BY <1>2, LowBits
      <3> QED BY <1>13, <2>0, <2>7, <3>1 DEF Room
    <2>8. CASE f = "msdel"
      BY <2>0, <2>8
    <2>9. CASE f = "freq"
      BY <1>10, <1>13, <2>0, <2>9 DEF Room
    <2> QED BY <2>1, <2>2, <2>3, <2>4, <2>5, <2>6, <2>7, <2>8, <2>9 DEF ShownFields
  <1> QED BY <1>12, <1>13 DEF u

\* Overriding keeps the agreement.
LEMMA OverriddenAgree ==
  ASSUME NEW o \in Overrides \cup {0}, NEW hdr \in [Fields -> Values], NEW h \in Templates,
         NEW x \in OverrideSddsHeader(o, h), Agree(hdr, h)
  PROVE  x \in Templates /\ Agree(Overridden(o, hdr), x)
  <1>1. CASE o = 0
    BY <1>1 DEF OverrideSddsHeader, Overridden
  <1>2. CASE o # 0
    <2>1. o \in Overrides
      BY <1>2
    <2>2. ASSUME NEW f \in ShownFields
          PROVE  Documented(f, Overridden(o, hdr)[f]) = UserHeader[o][f]
      BY <1>2, ShownFieldsAre DEF Overridden, Value, Documented
    <2>3. x \in Templates
      BY <2>1, OverrideTyped
    <2>4. \A f \in ShownFields : UserHeader[o][f] < Room[f] => Received(x)[f] = UserHeader[o][f]
      BY <2>1, OverrideTyped
    <2> QED BY <2>2, <2>3, <2>4, AgreeUnfolds
  <1> QED BY <1>1, <1>2

\* setStream() writes the bit-field bps of the code.
LEMMA DefaultAgree ==
  ASSUME NEW hdr \in [Fields -> Values], NEW h \in Templates, Agree(hdr, h)
  PROVE  LET hdr2 == [hdr EXCEPT !["bps"] = Value("code", 0)]
             h2   == [h EXCEPT !.bps = DefaultBps]
         IN  hdr2 \in [Fields -> Values] /\ h2 \in Templates /\ Agree(hdr2, h2)
  <1> DEFINE hdr2 == [hdr EXCEPT !["bps"] = Value("code", 0)]
             h2   == [h EXCEPT !.bps = DefaultBps]
  <1>1. hdr2 \in [Fields -> Values]
    BY DEF Values, Value
  <1>2. DefaultBps \in 0 .. 31
    BY BytesAssumption DEF DefaultBps
  <1>3. h2 \in Templates
    BY <1>2 DEF Templates
  <1>4. Received(h2).bps = DefaultBps /\ \A f \in ShownFields \ {"bps"} : Received(h2)[f] = Received(h)[f]
    BY DEF Templates, Received, ShownFields
  <1>5. hdr2["bps"] = Value("code", 0) /\ \A f \in ShownFields \ {"bps"} : hdr2[f] = hdr[f]
    BY DEF ShownFields, Fields
  <1>6. Documented("bps", Value("code", 0)) = DefaultBps
    BY BytesAssumption DEF Documented, Value, DefaultBps
  <1>7. Agree(hdr2, h2)
    <2> HIDE DEF hdr2, h2
    <2> QED BY <1>4, <1>5, <1>6, ShownFieldsAre, AgreeUnfolds DEF Agree
  <1> QED BY <1>1, <1>3, <1>7

\* setSddsHeaderFromSri() writes the complex bit and the frequency.
LEMMA SriAgree ==
  ASSUME NEW hdr \in [Fields -> Values], NEW h \in Templates, Agree(hdr, h),
         NEW i \in Sris, NEW q \in ToFreq(Frequency(i))
  PROVE  LET hdr2 == [f \in Fields |-> IF f \in FromSri THEN Value("sri", i) ELSE hdr[f]]
             h2   == [h EXCEPT !.cx = Mode[i], !.freq = q]
         IN  h2 \in Templates /\ Agree(hdr2, h2)
  <1> DEFINE hdr2 == [f \in Fields |-> IF f \in FromSri THEN Value("sri", i) ELSE hdr[f]]
             h2   == [h EXCEPT !.cx = Mode[i], !.freq = q]
             v    == Frequency(i)
  <1>1. Mode[i] \in 0 .. 1 /\ v \in Nat
    BY SriAssumption DEF Frequency
  <1>2. q \in 0 .. FreqMod - 1 /\ (v < FreqMod \div 2 => q = v)
    BY <1>1, FreqConverted
  <1>3. h2 \in Templates
    BY <1>1, <1>2 DEF Templates
  <1>4. /\ Received(h2).cx = Mode[i] /\ Received(h2).freq = q
        /\ \A f \in ShownFields \ {"cx", "freq"} : Received(h2)[f] = Received(h)[f]
    BY DEF Templates, Received, ShownFields
  <1>5. /\ hdr2["cx"] = Value("sri", i) /\ hdr2["freq"] = Value("sri", i)
        /\ \A f \in ShownFields \ {"cx", "freq"} : hdr2[f] = hdr[f]
    BY ShownFieldsAre DEF ShownFields, Fields, FromSri
  <1>6. Documented("cx", Value("sri", i)) = Mode[i] /\ Documented("freq", Value("sri", i)) = v
    BY DEF Documented, Value
  <1>7. Room["freq"] = FreqMod \div 2
    BY DEF Room
  <1>8. Agree(hdr2, h2)
    <2> HIDE DEF hdr2, h2, v
    <2>1. Documented("freq", hdr2["freq"]) < Room["freq"] => Received(h2)["freq"] = Documented("freq", hdr2["freq"])
      BY <1>2, <1>4, <1>5, <1>6, <1>7
    <2> QED BY <1>4, <1>5, <1>6, <2>1, ShownFieldsAre, AgreeUnfolds DEF Agree
  <1> QED BY <1>3, <1>8

\* sendPacket() writes the time tag flag.
LEMMA TimeAgree ==
  ASSUME NEW hdr \in [Fields -> Values], NEW h \in Templates, Agree(hdr, h), NEW on \in BOOLEAN
  PROVE  LET hdr2 == [hdr EXCEPT !["ttv"] = Value("time", IF on THEN 1 ELSE 0)]
             h2   == [h EXCEPT !.msptr = SetFlag(@, TTV, on)]
         IN  h2 \in Templates /\ Agree(hdr2, h2)
  <1> DEFINE hdr2 == [hdr EXCEPT !["ttv"] = Value("time", IF on THEN 1 ELSE 0)]
             h2   == [h EXCEPT !.msptr = SetFlag(@, TTV, on)]
  <1>1. h.msptr \in Word
    BY DEF Templates
  <1>2. PICK w \in Word :
           /\ w = SetFlag(h.msptr, TTV, on)
           /\ Flag(w, 32768) = Flag(h.msptr, 32768)
           /\ Flag(w, 16384) = BitOf(on)
           /\ Flag(w, 8192) = Flag(h.msptr, 8192)
           /\ Swapped(w) % 8192 = Swapped(h.msptr) % 8192
    BY <1>1, SetTtv
  <1>3. h2 = [h EXCEPT !.msptr = w]
    BY <1>2
  <1>4. h2 \in Templates
    BY <1>3 DEF Templates
  <1>5. /\ Received(h2).ttv = BitOf(on)
        /\ \A f \in ShownFields \ {"ttv"} : Received(h2)[f] = Received(h)[f]
    BY <1>2, <1>3 DEF Templates, Received, ShownFields
  <1>6. /\ hdr2["ttv"] = Value("time", BitOf(on))
        /\ \A f \in ShownFields \ {"ttv"} : hdr2[f] = hdr[f]
    BY DEF ShownFields, Fields, BitOf
  <1>7. Documented("ttv", Value("time", BitOf(on))) = BitOf(on)
    BY DEF Documented, Value
  <1>8. Agree(hdr2, h2)
    <2> HIDE DEF hdr2, h2
    <2> QED BY <1>5, <1>6, <1>7, ShownFieldsAre, AgreeUnfolds DEF Agree
  <1> QED BY <1>4, <1>8

-----------------------------------------------------------------------------
(* The behaviours of SDDSHeader.                                           *)

\* Each step of SDDSHeader is one of SDDSPackets by definition, so that the types of the
\* packets hold beside the values.
LEMMA HeaderStepsArePackets == HeaderSpec => Spec
  <1>1. HeaderInit => Init
    BY DEF HeaderInit
  <1>2. [HeaderNext]_<<vars, m_sdds_template>> => [Next]_vars
    BY DEF HeaderNext, Next, StartValues, NewStreamValues, ReadBlockValues, PacketValues
  <1> QED BY <1>1, <1>2, PTL DEF HeaderSpec, Spec

ValuesInv == m_sdds_template \in Templates /\ Agree(header, m_sdds_template)

LEMMA ValuesInitially == HeaderInit => ValuesInv
  <1> SUFFICES ASSUME HeaderInit PROVE ValuesInv
    OBVIOUS
  <1>1. PICK h \in Templates : m_sdds_template = InitializeSDDSHeader(h)
    BY MemoryAssumption DEF HeaderInit
  <1>2. h.msptr \in Word
    BY DEF Templates
  <1>0. PICK on \in BOOLEAN : on
    OBVIOUS
  <1>3. PICK w \in Word : w = SetFlag(h.msptr, SSCV, on) /\ Flag(w, 8192) = BitOf(on)
    BY <1>2, SetSscv
  <1> DEFINE d == CASE BytesPerSample = 1 -> 1 [] BytesPerSample = 2 -> 2 [] OTHER -> 0
  <1>4. d \in 0 .. 7 /\ d = Documented("dmode", Value("code", 0))
    BY BytesAssumption DEF Documented, Value
  <1>5. m_sdds_template = [h EXCEPT !.msptr = w, !.dmode = d]
    BY <1>1, <1>0, <1>3 DEF InitializeSDDSHeader, SetFlag
  <1> HIDE DEF d
  <1>6. m_sdds_template \in Templates
    BY <1>4, <1>5 DEF Templates
  <1>7. Received(m_sdds_template).dmode = d /\ Received(m_sdds_template).sscv = BitOf(on)
    <2>1. m_sdds_template.dmode = d /\ m_sdds_template.msptr = w
      BY <1>5 DEF Templates
    <2>2. /\ Received(m_sdds_template).dmode = m_sdds_template.dmode
          /\ Received(m_sdds_template).sscv = Flag(m_sdds_template.msptr, 8192)
      BY DEF Received
    <2>3. Received(m_sdds_template).dmode = d
      BY <2>1, <2>2
    <2>4. Received(m_sdds_template).sscv = BitOf(on)
      BY <1>3, <2>1, <2>2
    <2> QED BY <2>3, <2>4
  <1>8. Documented("sscv", Value("code", 0)) = BitOf(on)
    BY <1>0 DEF Documented, Value, BitOf
  <1>9. /\ header["dmode"] = Value("code", 0) /\ header["sscv"] = Value("code", 0)
        /\ \A f \in ShownFields \ {"dmode", "sscv"} : header[f].by = "memory"
    BY ShownFieldsAre DEF HeaderInit, Init, Constructed, Fields, ShownFields, Value
  <1>10. Agree(header, m_sdds_template)
    BY <1>4, <1>7, <1>8, <1>9, AgreeUnfolds
  <1> QED BY <1>6, <1>10 DEF ValuesInv

LEMMA ValuesInductive ==
  TypeOK /\ ValuesInv /\ [HeaderNext]_<<vars, m_sdds_template>> => ValuesInv'
  <1> SUFFICES ASSUME TypeOK, ValuesInv, [HeaderNext]_<<vars, m_sdds_template>> PROVE ValuesInv'
    OBVIOUS
  <1> DEFINE t == m_sdds_template
  <1>0. /\ header \in [Fields -> Values] /\ valid \in BOOLEAN
        /\ override_sdds_header \in Overrides \cup {0}
        /\ m_sdds_header_override \in Overrides \cup {0}
        /\ t \in Templates /\ Agree(header, t)
    BY DEF TypeOK, ValuesInv
  <1>1. ASSUME UNCHANGED <<header, m_sdds_template>> PROVE ValuesInv'
    BY <1>0, <1>1 DEF ValuesInv
  <1>2. CASE StartValues
    <2>1. CASE m_active_stream
      <3>1. header' = Overridden(override_sdds_header, header)
        BY <1>2, <2>1 DEF StartValues, Start
      <3>2. t' \in OverrideSddsHeader(override_sdds_header, t)
        BY <1>2, <2>1 DEF StartValues
      <3> QED BY <1>0, <3>1, <3>2, OverriddenAgree DEF ValuesInv
    <2>2. CASE ~m_active_stream
      BY <1>1, <1>2, <2>2 DEF StartValues, Start
    <2> QED BY <2>1, <2>2
  <1>3. CASE NewStreamValues
    <2> DEFINE hdr == IF m_sdds_header_override = 0
                      THEN [header EXCEPT !["bps"] = Value("code", 0)] ELSE header
               h   == IF m_sdds_header_override = 0 THEN [t EXCEPT !.bps = DefaultBps] ELSE t
    <2>1. hdr \in [Fields -> Values] /\ h \in Templates /\ Agree(hdr, h)
      BY <1>0, DefaultAgree
    <2>2. /\ header' = IF started THEN Overridden(m_sdds_header_override, hdr) ELSE hdr
          /\ t' \in IF started THEN OverrideSddsHeader(m_sdds_header_override, h) ELSE {h}
      BY <1>3 DEF NewStreamValues, NewStream
    <2> HIDE DEF hdr, h
    <2>3. CASE started
      <3>1. header' = Overridden(m_sdds_header_override, hdr)
        BY <2>2, <2>3
      <3>2. t' \in OverrideSddsHeader(m_sdds_header_override, h)
        BY <2>2, <2>3
      <3> QED BY <1>0, <2>1, <3>1, <3>2, OverriddenAgree DEF ValuesInv
    <2>4. CASE ~started
      BY <2>1, <2>2, <2>4 DEF ValuesInv
    <2> QED BY <2>3, <2>4
  <1>4. ASSUME NEW n \in 1 .. 2 * Payload, NEW s \in Sris, NEW v \in BOOLEAN,
               ReadBlockValues(n, s, v)
        PROVE  ValuesInv'
    <2>1. CASE (m_first_run \/ s # m_sri) /\ m_sdds_header_override = 0
      <3>1. header' = [f \in Fields |-> IF f \in FromSri THEN Value("sri", s) ELSE header[f]]
        BY <1>4, <2>1 DEF ReadBlockValues, ReadBlock, setSddsHeaderFromSri
      <3>2. PICK q \in ToFreq(Frequency(s)) : t' = [t EXCEPT !.cx = Mode[s], !.freq = q]
        BY <1>4, <2>1 DEF ReadBlockValues
      <3>3. t' \in Templates /\ Agree(header', t')
        BY <1>0, <3>1, <3>2, SriAgree
      <3> QED BY <3>3 DEF ValuesInv
    <2>2. CASE ~((m_first_run \/ s # m_sri) /\ m_sdds_header_override = 0)
      <3>1. UNCHANGED <<header, m_sdds_template>>
        BY <1>4, <2>2 DEF ReadBlockValues, ReadBlock, setSddsHeaderFromSri
      <3> QED BY <1>1, <3>1
    <2> QED BY <2>1, <2>2
  <1>5. CASE PacketValues
    <2>1. Packet
      BY <1>5 DEF PacketValues, Send, SendFails
    <2>2. CASE m_sdds_header_override = 0
      <3>1. header' = [header EXCEPT !["ttv"] = Value("time", IF valid THEN 1 ELSE 0)]
        BY <2>1, <2>2 DEF Packet
      <3>2. t' = [t EXCEPT !.msptr = SetFlag(@, TTV, valid)]
        BY <1>5, <2>2 DEF PacketValues
      <3>3. t' \in Templates /\ Agree(header', t')
        BY <1>0, <3>1, <3>2, TimeAgree
      <3> QED BY <3>3 DEF ValuesInv
    <2>3. CASE m_sdds_header_override # 0
      <3>1. UNCHANGED <<header, m_sdds_template>>
        BY <1>5, <2>1, <2>3 DEF PacketValues, Packet
      <3> QED BY <1>1, <3>1
    <2> QED BY <2>2, <2>3
  <1>6. ASSUME \/ \E o \in Overrides \cup {0} : Configure(o)
               \/ StartFails \/ Stop
               \/ \E eos \in BOOLEAN : Leave(eos),
               UNCHANGED m_sdds_template
        PROVE  ValuesInv'
    <2>1. header' = header
      BY <1>6 DEF Configure, StartFails, Stop, Leave, template
    <2> QED BY <1>1, <1>6, <2>1
  <1>7. CASE UNCHANGED <<vars, m_sdds_template>>
    BY <1>1, <1>7 DEF vars, template
  <1> QED BY <1>2, <1>3, <1>4, <1>5, <1>6, <1>7 DEF HeaderNext

\* The receiver reads in every field what the user, the SRI, the time stamp or the default
\* gave it, if the field has room for that: for all user headers, sample rates, contents
\* of the memory and orders of the calls.
THEOREM FieldsReceivedHolds == HeaderSpec => []FieldsReceived
  <1>1. ValuesInv => FieldsReceived
    BY DEF ValuesInv, Agree, FieldsReceived
  <1>2. HeaderSpec => []TypeOK
    BY HeaderStepsArePackets, PacketsTypeCorrect, PTL
  <1> QED BY <1>1, <1>2, ValuesInitially, ValuesInductive, PTL DEF HeaderSpec

=============================================================================
