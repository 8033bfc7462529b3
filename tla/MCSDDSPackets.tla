---------------------------- MODULE MCSDDSPackets ----------------------------
EXTENDS SDDSHeader

\* Real samples, and complex ones whose rate the frequency field has no room for.
McMode == [s \in Sris |-> IF s = 1 THEN 0 ELSE 1]
McRate == [s \in Sris |-> IF s = 1 THEN 3 ELSE 4]
\* Values that fill their fields, and values with bits too many.
McUserHeader ==
    [o \in Overrides |->
        IF o = 1
        THEN [dmode |-> 5, bps |-> 31, cx |-> 1, msv |-> 1, ttv |-> 0, sscv |-> 0,
              msptr |-> 1921, msdel |-> 513, freq |-> 2]
        ELSE [dmode |-> 9, bps |-> 32, cx |-> 3, msv |-> 0, ttv |-> 2, sscv |-> 256,
              msptr |-> 65535, msdel |-> 65280, freq |-> 9]]
McMemory ==
    {[dmode |-> 7, bps |-> 7, cx |-> 1, msptr |-> w, msdel |-> w, freq |-> 0] :
        w \in {0, 65535}}
=============================================================================
