------------------------------ MODULE PtpTime ------------------------------
(***************************************************************************)
(* Times in the format of the switch: the low 7 bits count the cycles of a *)
(* microsecond, 0 to 124, the 41 bits above count microseconds.  The PTP   *)
(* service (ptp.c) adds, subtracts and halves such times; the clock of the *)
(* switch (global_time_sync.v) counts in them and adds the offset that the *)
(* service computes.                                                       *)
(*                                                                         *)
(* The sizes are constants: 125 cycles, a digit of 128, 2^48 as the sign   *)
(* of a time, 2^64 as the end of a word of the program.                    *)
(***************************************************************************)
EXTENDS Integers

CONSTANTS Low, Digit, Top, Word

ASSUME TimeAssumption ==
    /\ Low \in Nat \ {0} /\ Digit \in Nat /\ Top \in Nat \ {0} /\ Word \in Nat
    /\ Low < Digit /\ Digit % 2 = 0 /\ Top % Digit = 0 /\ Word % Top = 0 /\ 2 * Top < Word

U64(x) == x % Word
Hi(t) == (t \div Digit) * Digit
Lo(t) == t % Digit

\* The cycles that a time stands for, and whether its digit is one the clock counts.
Plain(t) == (t \div Digit) * Low + Lo(t)
Legal(t) == Lo(t) < Low

-----------------------------------------------------------------------------
(* ptp.c                                                                     *)

corr_trans(a) == (a \div Low) * Digit + (a % Low)

ts_add(u1, u2) ==
    LET lo == Lo(u1) + Lo(u2)
    IN  U64(Hi(u1) + Hi(u2) + IF lo > Low - 1 THEN Digit + lo - Low ELSE lo)

\* A negative difference is its size and Top.
ts_sub(u1, u2) ==
    LET Size(a, b) ==
            IF Lo(a) >= Lo(b) THEN a - b
            ELSE ts_add(U64(Lo(a) + Low - Lo(b)), U64(Hi(a) - Digit - Hi(b)))
    IN  IF u1 >= u2 THEN Size(u1, u2) ELSE Size(u2, u1) + Top

\* ts_compute: half the difference of the two measured differences.  The half is
\* that of the number, not of the time: an odd microsecond adds half a digit.
ts_compute(t4, t3) ==
    LET Result(flag, size) == [flag |-> flag, offset |-> size \div 2]
    IN  IF t4 < Top /\ t3 < Top
        THEN IF t4 >= t3 THEN Result(0, ts_sub(t4, t3)) ELSE Result(1, ts_sub(t3, t4))
        ELSE IF t4 < Top /\ t3 > Top THEN Result(0, ts_add(t4, t3 - Top))
        ELSE IF t4 > Top /\ t3 < Top THEN Result(1, ts_add(t4 - Top, t3))
        ELSE IF U64(t4 - Top) >= U64(t3 - Top) THEN Result(1, ts_sub(t4, t3))
        ELSE Result(0, ts_sub(t3, t4))

-----------------------------------------------------------------------------
(* global_time_sync.v: one cycle of the clock                                *)

\* A clock of the microseconds h and the digit l, both cut to their registers.
Clock(h, l) == ((h * Digit) % Top) + (l % Digit)

Ticked(s) ==
    IF Lo(s) = Low - 1 THEN Clock(s \div Digit + 1, 0) ELSE Clock(s \div Digit, Lo(s) + 1)

\* A cycle in which the offset o is added or, when it has the sign, taken off.
Adjusted(s, o) ==
    LET h == s \div Digit
        oh == (o % Top) \div Digit
        ahead == Lo(s) - Lo(o)
    IN  IF o < Top
        THEN IF Lo(s) + Lo(o) >= Low - 1
             THEN Clock(h + oh + 1, Lo(s) + Lo(o) - (Low - 1))
             ELSE Clock(h + oh, Lo(s) + Lo(o) + 1)
        ELSE IF ahead >= 0
        THEN IF ahead = Low - 1 THEN Clock(h - oh + 1, 0) ELSE Clock(h - oh, ahead + 1)
        ELSE IF ahead = -1 THEN Clock(h - oh, 0) ELSE Clock(h - oh - 1, ahead + Low + 1)
=============================================================================
