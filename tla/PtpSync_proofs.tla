--------------------------- MODULE PtpSync_proofs ---------------------------
(***************************************************************************)
(* Proofs about clock synchronization, for every size of the numbers and   *)
(* every behaviour of the network: the guided sum keeps its sign right,    *)
(* an offset brings the slave's clock to the master's (SyncStep), every    *)
(* register stays within its width, and the clock is guided by one cycle   *)
(* or none unless a message was dropped (GuidesByOneCycle).                *)
(*                                                                         *)
(* SyncStep follows from TimesOK, which says what every stamp under way,   *)
(* in the slave's service, in its queue and in its register is worth as    *)
(* long as the slave's clock has only counted since the stamp was taken.   *)
(* GuidesByOneCycle follows from GuideOK, which says in what order the     *)
(* register values stand in the queue and in the handler's hands.          *)
(***************************************************************************)
EXTENDS PtpSync, SequenceTheorems, TLAPS

SyncPacket == [type : {"sync"}, t1 : Int, left : Int]
RespPacket == [type : {"resp"}, at : Int, t3 : Int]
Request == [t3 : Int, left : Int, at : Int]
Order ==
    [type : {"req"}] \cup [type : {"offset"}, value : Int, at : Int]
        \cup [type : {"period"}, value : Int]

ClocksTyped ==
    /\ now \in Int /\ ov_syned_time \in Int /\ iv_time_offset \in Int
    /\ steps \in Int

PacketsTyped ==
    /\ down \in Seq(SyncPacket \cup RespPacket)
    /\ up \in Seq(Request)
    /\ txq \in Seq(Order) /\ pending \in Seq(Order)

ServiceTyped ==
    /\ Local_ts_info \in
        [ t1 : Int, t2 : Int, rorr1 : Int, offset : Nat, offset_flag : {0, 1},
          guide_offset_flag : {0, 1}, at : Int ]
    /\ offset_seq \in Nat /\ preoffset \in Nat /\ total \in Int

\* The switch is half through an offset: that is still the head of the queue.
Parsing == half \in BOOLEAN /\ (half => txq # <<>> /\ Head(txq).type = "offset")

\* Until the third response nothing is guided.
NotYetGuided == offset_seq <= 2 => preoffset = 0 /\ total = 0

Inv == ClocksTyped /\ PacketsTyped /\ ServiceTyped /\ Parsing /\ NotYetGuided /\ GuideIsSum

-----------------------------------------------------------------------------
(* The types of the arithmetic                                               *)

LEMMA DivMod ==
    ASSUME NEW x \in Int, NEW d \in Nat \ {0}
    PROVE  /\ x \div d \in Int /\ x % d \in 0 .. d - 1
           /\ (x >= 0 => x \div d >= 0)
           /\ x = d * (x \div d) + (x % d)
<1>1. x \div d \in Int /\ x % d \in 0 .. d - 1
    OBVIOUS
<1>2. x = d * (x \div d) + (x % d)
    OBVIOUS
<1>3. ASSUME x >= 0, x \div d < 0 PROVE FALSE
    <2>1. x \div d <= -1
        BY <1>1, <1>3
    <2>2. d * (x \div d) <= -d
        BY <1>1, <2>1
    <2> QED BY <1>1, <1>2, <1>3, <2>2
<1> QED BY <1>1, <1>2, <1>3

LEMMA Sizes ==
    /\ Low \in Nat \ {0} /\ Digit \in Nat \ {0} /\ Top \in Nat \ {0} /\ Word \in Nat \ {0}
    /\ Low < Digit
BY TimeAssumption DEF TimeAssumption

LEMMA WordBig == Digit <= Top /\ 2 * Top < Word /\ Top < Word /\ Low < Word
<1>1. Top % Digit = 0 /\ 2 * Top < Word
    BY TimeAssumption DEF TimeAssumption
<1>2. Top = Digit * (Top \div Digit) + (Top % Digit) /\ Top \div Digit \in Nat
    BY Sizes, DivMod
<1>3. Top \div Digit >= 1
    BY <1>1, <1>2, Sizes
<1>4. Digit <= Top
    BY <1>1, <1>2, <1>3, Sizes
<1> QED BY <1>1, <1>4, Sizes

LEMMA DigitsTyped ==
    ASSUME NEW t \in Int
    PROVE  /\ Hi(t) \in Int /\ Lo(t) \in 0 .. Digit - 1 /\ U64(t) \in 0 .. Word - 1
           /\ corr_trans(t) \in Int /\ t = Hi(t) + Lo(t)
<1>1. t \div Digit \in Int /\ t % Digit \in 0 .. Digit - 1 /\ t = Digit * (t \div Digit) + (t % Digit)
    BY Sizes, DivMod
<1>2. t \div Low \in Int /\ t % Low \in Int /\ t % Word \in 0 .. Word - 1
    BY Sizes, DivMod
<1> QED BY <1>1, <1>2, Sizes DEF Hi, Lo, U64, corr_trans

LEMMA AddTyped ==
    ASSUME NEW u1 \in Int, NEW u2 \in Int
    PROVE  ts_add(u1, u2) \in Nat
<1> DEFINE lo == Lo(u1) + Lo(u2)
           sum == Hi(u1) + Hi(u2) + IF lo > Low - 1 THEN Digit + lo - Low ELSE lo
<1>1. sum \in Int
    BY DigitsTyped, Sizes
<1>2. U64(sum) \in 0 .. Word - 1
    BY <1>1, DigitsTyped
<1>3. ts_add(u1, u2) = U64(sum)
    BY DEF ts_add
<1> QED BY <1>2, <1>3, Sizes

LEMMA SubTyped ==
    ASSUME NEW u1 \in Int, NEW u2 \in Int
    PROVE  ts_sub(u1, u2) \in Nat
<1> DEFINE Size(a, b) ==
            IF Lo(a) >= Lo(b) THEN a - b
            ELSE ts_add(U64(Lo(a) + Low - Lo(b)), U64(Hi(a) - Digit - Hi(b)))
<1>1. ASSUME NEW a \in Int, NEW b \in Int, a >= b PROVE Size(a, b) \in Nat
    <2>1. Lo(a) + Low - Lo(b) \in Int /\ Hi(a) - Digit - Hi(b) \in Int
        BY DigitsTyped, Sizes
    <2>2. U64(Lo(a) + Low - Lo(b)) \in Int /\ U64(Hi(a) - Digit - Hi(b)) \in Int
        BY <2>1, DigitsTyped
    <2>3. ts_add(U64(Lo(a) + Low - Lo(b)), U64(Hi(a) - Digit - Hi(b))) \in Nat
        BY <2>2, AddTyped
    <2> QED BY <1>1, <2>3
<1>2. ts_sub(u1, u2) = IF u1 >= u2 THEN Size(u1, u2) ELSE Size(u2, u1) + Top
    BY DEF ts_sub
<1> HIDE DEF Size
<1> QED BY <1>1, <1>2, Sizes

\* The computed offset is a size and a flag.
LEMMA ComputeTyped ==
    ASSUME NEW t4 \in Int, NEW t3 \in Int
    PROVE  ts_compute(t4, t3) \in [flag : {0, 1}, offset : Nat]
<1>1. \A x \in Nat : x \div 2 \in Nat
    OBVIOUS
<1>2. ts_sub(t4, t3) \in Nat /\ ts_sub(t3, t4) \in Nat
    BY SubTyped
<1>3. ts_add(t4, t3 - Top) \in Nat /\ ts_add(t4 - Top, t3) \in Nat
    <2>1. t3 - Top \in Int /\ t4 - Top \in Int
        BY Sizes
    <2> QED BY <2>1, AddTyped
<1> QED BY <1>1, <1>2, <1>3 DEF ts_compute

LEMMA ClockTyped ==
    ASSUME NEW h \in Int, NEW l \in Int
    PROVE  Clock(h, l) \in Int
<1>1. h * Digit \in Int
    BY Sizes
<1>2. (h * Digit) % Top \in Int /\ l % Digit \in Int
    BY <1>1, Sizes, DivMod
<1> QED BY <1>2 DEF Clock

LEMMA CycleTyped ==
    ASSUME NEW s \in Int, NEW o \in Int
    PROVE  Ticked(s) \in Int /\ Adjusted(s, o) \in Int
<1>1. s \div Digit \in Int /\ Lo(s) \in Int /\ Lo(o) \in Int
    BY Sizes, DivMod, DigitsTyped
<1>2. (o % Top) \div Digit \in Int
    <2>1. o % Top \in Int
        BY Sizes, DivMod
    <2> QED BY <2>1, Sizes, DivMod
<1>3. Ticked(s) \in Int
    <2>1. s \div Digit + 1 \in Int /\ Lo(s) + 1 \in Int /\ 0 \in Int
        BY <1>1
    <2>2. Clock(s \div Digit + 1, 0) \in Int /\ Clock(s \div Digit, Lo(s) + 1) \in Int
        BY <1>1, <2>1, ClockTyped
    <2> QED BY <2>2 DEF Ticked
<1>4. Adjusted(s, o) \in Int
    <2> DEFINE h == s \div Digit
               oh == (o % Top) \div Digit
               ahead == Lo(s) - Lo(o)
    <2>1. h \in Int /\ oh \in Int /\ ahead \in Int
        BY <1>1, <1>2
    <2>2. Adjusted(s, o) =
            IF o < Top
            THEN IF Lo(s) + Lo(o) >= Low - 1
                 THEN Clock(h + oh + 1, Lo(s) + Lo(o) - (Low - 1))
                 ELSE Clock(h + oh, Lo(s) + Lo(o) + 1)
            ELSE IF ahead >= 0
            THEN IF ahead = Low - 1 THEN Clock(h - oh + 1, 0) ELSE Clock(h - oh, ahead + 1)
            ELSE IF ahead = -1 THEN Clock(h - oh, 0) ELSE Clock(h - oh - 1, ahead + Low + 1)
        BY DEF Adjusted
    <2> HIDE DEF h, oh, ahead
    <2>3. /\ h + oh + 1 \in Int /\ h + oh \in Int /\ h - oh + 1 \in Int /\ h - oh \in Int
          /\ h - oh - 1 \in Int /\ Lo(s) + Lo(o) - (Low - 1) \in Int /\ Lo(s) + Lo(o) + 1 \in Int
          /\ ahead + 1 \in Int /\ ahead + Low + 1 \in Int /\ 0 \in Int
        BY <2>1, <1>1, Sizes
    <2>4. /\ Clock(h + oh + 1, Lo(s) + Lo(o) - (Low - 1)) \in Int
          /\ Clock(h + oh, Lo(s) + Lo(o) + 1) \in Int
          /\ Clock(h - oh + 1, 0) \in Int /\ Clock(h - oh, ahead + 1) \in Int
          /\ Clock(h - oh, 0) \in Int /\ Clock(h - oh - 1, ahead + Low + 1) \in Int
        BY <2>3, ClockTyped, Zenon
    <2> QED BY <2>2, <2>4, Zenon
<1> QED BY <1>3, <1>4

-----------------------------------------------------------------------------
(* What the arithmetic computes                                              *)

\* A time is its microseconds and its cycles, in one way only.
LEMMA Parts ==
    ASSUME NEW h \in Int, NEW l \in 0 .. Digit - 1, NEW t \in Int, t = Digit * h + l
    PROVE  /\ t \div Digit = h /\ Lo(t) = l /\ Hi(t) = h * Digit
           /\ Plain(t) = h * Low + l /\ (Legal(t) <=> l < Low)
<1>1. t \div Digit = h /\ t % Digit = l
    BY Sizes
<1> QED BY <1>1 DEF Lo, Hi, Plain, Legal

LEMMA Split ==
    ASSUME NEW t \in Nat
    PROVE  \E h \in Nat, l \in 0 .. Digit - 1 :
            /\ t = Digit * h + l /\ t \div Digit = h /\ Lo(t) = l /\ Hi(t) = h * Digit
            /\ Plain(t) = h * Low + l /\ (Legal(t) <=> l < Low)
<1> DEFINE h == t \div Digit
           l == t % Digit
<1>1. t \in Int /\ t >= 0
    OBVIOUS
<1>2. h \in Int /\ h >= 0 /\ l \in 0 .. Digit - 1 /\ t = Digit * h + l
    BY <1>1, Sizes, DivMod
<1>3. h \in Nat
    BY <1>2
<1> HIDE DEF h, l
<1> QED BY <1>1, <1>2, <1>3, Parts

LEMMA SmallU64 == ASSUME NEW t \in 0 .. Word - 1 PROVE U64(t) = t
<1>1. t % Word = t
    BY Sizes
<1> QED BY <1>1 DEF U64

\* corr_trans is the time of a number of cycles (ptp.c:52).
THEOREM TransIsTime ==
    ASSUME NEW a \in Nat PROVE Plain(corr_trans(a)) = a /\ Legal(corr_trans(a))
<1> DEFINE h == a \div Low
           l == a % Low
<1>1. h \in Nat /\ l \in 0 .. Low - 1 /\ a = Low * h + l
    <2>1. a \in Int /\ a >= 0
        OBVIOUS
    <2>2. h \in Int /\ h >= 0 /\ l \in 0 .. Low - 1 /\ a = Low * h + l
        BY <2>1, Sizes, DivMod
    <2> QED BY <2>2
<1>2. corr_trans(a) = Digit * h + l
    BY <1>1, Sizes DEF corr_trans
<1> HIDE DEF h, l
<1>3. l \in 0 .. Digit - 1 /\ corr_trans(a) \in Int
    BY <1>1, <1>2, Sizes
<1>4. Plain(corr_trans(a)) = h * Low + l /\ (Legal(corr_trans(a)) <=> l < Low)
    BY <1>1, <1>2, <1>3, Parts
<1> QED BY <1>1, <1>4, Sizes

\* ts_add adds the cycles and carries at Low, as long as the result fits its word
\* (ptp.c:59).
THEOREM AddIsSum ==
    ASSUME NEW u1 \in Nat, NEW u2 \in Nat, Legal(u1), Legal(u2), u1 + u2 + Digit < Word
    PROVE  Plain(ts_add(u1, u2)) = Plain(u1) + Plain(u2) /\ Legal(ts_add(u1, u2))
<1>1. PICK h1 \in Nat, l1 \in 0 .. Digit - 1 :
        /\ u1 = Digit * h1 + l1 /\ Lo(u1) = l1 /\ Hi(u1) = h1 * Digit
        /\ Plain(u1) = h1 * Low + l1 /\ l1 < Low
    BY Split
<1>2. PICK h2 \in Nat, l2 \in 0 .. Digit - 1 :
        /\ u2 = Digit * h2 + l2 /\ Lo(u2) = l2 /\ Hi(u2) = h2 * Digit
        /\ Plain(u2) = h2 * Low + l2 /\ l2 < Low
    BY Split
<1> DEFINE h == IF l1 + l2 > Low - 1 THEN h1 + h2 + 1 ELSE h1 + h2
           l == IF l1 + l2 > Low - 1 THEN l1 + l2 - Low ELSE l1 + l2
           t == Digit * h + l
<1>3. h \in Nat /\ l \in 0 .. Digit - 1 /\ l < Low
    BY <1>1, <1>2, Sizes
<1>4. t \in 0 .. Word - 1
    BY <1>1, <1>2, Sizes
<1>5. ts_add(u1, u2) = t
    <2>1. Hi(u1) + Hi(u2) + (IF l1 + l2 > Low - 1 THEN Digit + l1 + l2 - Low ELSE l1 + l2) = t
        BY <1>1, <1>2, Sizes
    <2>2. ts_add(u1, u2) =
            U64(Hi(u1) + Hi(u2) + IF l1 + l2 > Low - 1 THEN Digit + (l1 + l2) - Low ELSE l1 + l2)
        BY <1>1, <1>2 DEF ts_add
    <2>3. ts_add(u1, u2) = U64(t)
        BY <2>1, <2>2, Sizes
    <2> HIDE DEF t
    <2> QED BY <1>4, <2>3, SmallU64
<1>6. Plain(t) = h * Low + l /\ Legal(t)
    <2> HIDE DEF h, l
    <2>1. t \in Int
        BY <1>3, Sizes
    <2> QED BY <1>3, <2>1, Parts
<1>7. h * Low + l = Plain(u1) + Plain(u2)
    BY <1>1, <1>2, Sizes
<1> QED BY <1>5, <1>6, <1>7

\* The difference of two times, the later one first: it borrows Low cycles.
LEMMA SizeIsDifference ==
    ASSUME NEW a \in Nat, NEW b \in Nat, Legal(a), Legal(b), a >= b, a < Word,
           NEW size,
           size = IF Lo(a) >= Lo(b) THEN a - b
                  ELSE ts_add(U64(Lo(a) + Low - Lo(b)), U64(Hi(a) - Digit - Hi(b)))
    PROVE  size \in 0 .. a /\ Plain(size) = Plain(a) - Plain(b) /\ Legal(size)
<1>1. PICK h1 \in Nat, l1 \in 0 .. Digit - 1 :
        /\ a = Digit * h1 + l1 /\ Lo(a) = l1 /\ Hi(a) = h1 * Digit
        /\ Plain(a) = h1 * Low + l1 /\ l1 < Low
    BY Split
<1>2. PICK h2 \in Nat, l2 \in 0 .. Digit - 1 :
        /\ b = Digit * h2 + l2 /\ Lo(b) = l2 /\ Hi(b) = h2 * Digit
        /\ Plain(b) = h2 * Low + l2 /\ l2 < Low
    BY Split
<1>3. CASE l1 >= l2
    <2>1. size = Digit * (h1 - h2) + (l1 - l2) /\ size \in 0 .. a
        BY <1>1, <1>2, <1>3, Sizes
    <2>2. h1 - h2 \in Int /\ l1 - l2 \in 0 .. Digit - 1 /\ l1 - l2 < Low /\ size \in Int
        BY <1>1, <1>2, <1>3, <2>1, Sizes
    <2>3. Plain(size) = (h1 - h2) * Low + (l1 - l2) /\ Legal(size)
        BY <2>1, <2>2, Parts
    <2> QED BY <1>1, <1>2, <2>1, <2>3, Sizes
<1>4. CASE l1 < l2
    <2> DEFINE x == l1 + Low - l2
               y == h1 * Digit - Digit - h2 * Digit
    <2>1. h1 >= h2 + 1
        <3>1. Digit * h1 > Digit * h2
            BY <1>1, <1>2, <1>4, Sizes
        <3> QED BY <3>1, Sizes
    <2>2. h1 - h2 - 1 \in Nat /\ y = Digit * (h1 - h2 - 1) + 0 /\ y \in Nat /\ y < Word
        BY <1>1, <2>1, Sizes
    <2>3. x \in 0 .. Digit - 1 /\ x < Low /\ x < Word /\ x = Digit * 0 + x
        <3>1. x \in 0 .. Low - 1
            BY <1>1, <1>2, <1>4, Sizes
        <3>2. Low < Word
            BY Sizes, TimeAssumption, WordBig
        <3> QED BY <3>1, <3>2, Sizes
    <2> HIDE DEF x, y
    <2>4. U64(x) = x /\ U64(y) = y
        <3>1. x \in 0 .. Word - 1 /\ y \in 0 .. Word - 1
            BY <2>2, <2>3, Sizes
        <3> QED BY <3>1, SmallU64
    <2>5. Lo(x) = x /\ Hi(x) = 0 * Digit
        BY <2>3, Parts
    <2>6. Lo(y) = 0 /\ Hi(y) = (h1 - h2 - 1) * Digit
        <3>1. 0 \in 0 .. Digit - 1
            BY Sizes
        <3> QED BY <2>2, <3>1, Parts
    <2>7. size = ts_add(x, y)
        BY <1>1, <1>2, <1>4, <2>4 DEF x, y
    <2>8. ts_add(x, y) = U64(Digit * (h1 - h2 - 1) + x)
        BY <2>2, <2>3, <2>5, <2>6, Sizes DEF ts_add
    <2>9. Digit * (h1 - h2 - 1) + x \in 0 .. a
        BY <1>1, <1>2, <1>4, <2>2, <2>3, Sizes DEF x
    <2>10. size = Digit * (h1 - h2 - 1) + x
        <3> DEFINE z == Digit * (h1 - h2 - 1) + x
        <3>1. z \in 0 .. Word - 1
            BY <2>9, Sizes
        <3> HIDE DEF z
        <3>2. U64(z) = z
            BY <3>1, SmallU64
        <3> QED BY <2>7, <2>8, <3>2 DEF z
    <2>11. Plain(size) = (h1 - h2 - 1) * Low + x /\ Legal(size)
        BY <2>2, <2>3, <2>9, <2>10, Parts
    <2>12. (h1 - h2 - 1) * Low + x = Plain(a) - Plain(b)
        BY <1>1, <1>2, Sizes DEF x
    <2> QED BY <2>9, <2>10, <2>11, <2>12
<1> QED BY <1>1, <1>2, <1>3, <1>4

\* ts_sub gives the difference in cycles, or, when it is negative, its size and the
\* sign (ptp.c:75).
THEOREM SubIsDifference ==
    ASSUME NEW u1 \in 0 .. Top - 1, NEW u2 \in 0 .. Top - 1, Legal(u1), Legal(u2)
    PROVE  IF u1 >= u2
           THEN /\ ts_sub(u1, u2) \in 0 .. Top - 1 /\ Legal(ts_sub(u1, u2))
                /\ Plain(ts_sub(u1, u2)) = Plain(u1) - Plain(u2)
           ELSE /\ ts_sub(u1, u2) - Top \in 0 .. Top - 1 /\ Legal(ts_sub(u1, u2) - Top)
                /\ Plain(ts_sub(u1, u2) - Top) = Plain(u2) - Plain(u1)
<1> DEFINE Size(a, b) ==
            IF Lo(a) >= Lo(b) THEN a - b
            ELSE ts_add(U64(Lo(a) + Low - Lo(b)), U64(Hi(a) - Digit - Hi(b)))
<1>1. u1 \in Nat /\ u2 \in Nat /\ u1 < Word /\ u2 < Word
    BY Sizes, WordBig
<1>2. ts_sub(u1, u2) = IF u1 >= u2 THEN Size(u1, u2) ELSE Size(u2, u1) + Top
    BY DEF ts_sub
<1>3. CASE u1 >= u2
    <2>1. /\ Size(u1, u2) \in 0 .. u1 /\ Plain(Size(u1, u2)) = Plain(u1) - Plain(u2)
          /\ Legal(Size(u1, u2))
        BY <1>1, <1>3, SizeIsDifference
    <2> HIDE DEF Size
    <2> QED BY <1>2, <1>3, <2>1, Sizes
<1>4. CASE u1 < u2
    <2>1. /\ Size(u2, u1) \in 0 .. u2 /\ Plain(Size(u2, u1)) = Plain(u2) - Plain(u1)
          /\ Legal(Size(u2, u1))
        BY <1>1, <1>4, SizeIsDifference
    <2> HIDE DEF Size
    <2>2. ts_sub(u1, u2) - Top = Size(u2, u1)
        BY <1>2, <1>4, <2>1, <1>1, Sizes
    <2> QED BY <1>1, <1>4, <2>1, <2>2, Sizes
<1> QED BY <1>1, <1>3, <1>4

-----------------------------------------------------------------------------
(* What the clock of the switch computes                                     *)

\* A clock value that fits the register is the time of its parts.
LEMMA ClockParts ==
    ASSUME NEW h \in Nat, NEW l \in 0 .. Digit - 1, Digit * h + Digit <= Top
    PROVE  /\ Clock(h, l) = Digit * h + l /\ Clock(h, l) \in 0 .. Top - 1
           /\ Plain(Clock(h, l)) = h * Low + l /\ (Legal(Clock(h, l)) <=> l < Low)
<1>1. Digit * h + l \in 0 .. Top - 1
    BY Sizes
<1>2. l % Digit = l
    BY Sizes
<1>3. (h * Digit) % Top = h * Digit
    <2> DEFINE x == h * Digit
    <2>1. x \in 0 .. Top - 1
        BY <1>1, Sizes
    <2> HIDE DEF x
    <2>2. x % Top = x
        BY <2>1, Sizes
    <2> QED BY <2>2 DEF x
<1>4. Clock(h, l) = Digit * h + l
    <2>1. Clock(h, l) = h * Digit + l
        BY <1>2, <1>3 DEF Clock
    <2> QED BY <2>1, Sizes
<1>5. Clock(h, l) \in Int
    BY <1>1, <1>4, Sizes
<1>6. Plain(Clock(h, l)) = h * Low + l /\ (Legal(Clock(h, l)) <=> l < Low)
    BY <1>4, <1>5, Parts
<1> QED BY <1>1, <1>4, <1>6

\* A time below Top with its digit has room for the rest of its microsecond.
LEMMA Room ==
    ASSUME NEW h \in Nat, NEW l \in Nat, Digit * h + l < Top
    PROVE  Digit * h + Digit <= Top
<1> DEFINE m == Top \div Digit
<1>1. m \in Nat /\ Top = Digit * m
    <2>1. Top % Digit = 0
        BY TimeAssumption DEF TimeAssumption
    <2>2. Top \in Int /\ Top >= 0
        BY Sizes
    <2>3. m \in Int /\ m >= 0 /\ Top = Digit * m + (Top % Digit)
        BY <2>2, Sizes, DivMod
    <2> QED BY <2>1, <2>3, Sizes
<1> HIDE DEF m
<1>2. Digit * h < Digit * m
    BY <1>1, Sizes
<1>3. h < m
    BY <1>1, <1>2, Sizes
<1>4. Digit * (h + 1) <= Digit * m
    BY <1>1, <1>3, Sizes
<1> QED BY <1>1, <1>4, Sizes

\* A cycle without a correction counts one, up to the last microsecond of the
\* register (global_time_sync.v:96).
THEOREM TickCounts ==
    ASSUME NEW s \in Nat, Legal(s), s + Digit < Top
    PROVE  Plain(Ticked(s)) = Plain(s) + 1 /\ Legal(Ticked(s))
<1>1. PICK h \in Nat, l \in 0 .. Digit - 1 :
        /\ s = Digit * h + l /\ s \div Digit = h /\ Lo(s) = l
        /\ Plain(s) = h * Low + l /\ l < Low
    BY Split
<1>2. Digit * (h + 1) + Digit <= Top /\ Digit * h + Digit <= Top
    <2>1. h + 1 \in Nat /\ Digit * (h + 1) + l < Top /\ l \in Nat
        BY <1>1, Sizes
    <2>2. Digit * (h + 1) + Digit <= Top
        BY <2>1, Room
    <2> QED BY <2>2, Sizes
<1>3. CASE l = Low - 1
    <2>1. 0 \in 0 .. Digit - 1 /\ 0 < Low /\ h + 1 \in Nat
        BY Sizes
    <2>2. Plain(Clock(h + 1, 0)) = (h + 1) * Low + 0 /\ Legal(Clock(h + 1, 0))
        BY <1>2, <2>1, ClockParts
    <2>3. Ticked(s) = Clock(h + 1, 0)
        BY <1>1, <1>3 DEF Ticked
    <2> QED BY <1>1, <1>3, <2>2, <2>3, Sizes
<1>4. CASE l # Low - 1
    <2>1. l + 1 \in 0 .. Digit - 1 /\ l + 1 < Low
        BY <1>1, <1>4, Sizes
    <2>2. Plain(Clock(h, l + 1)) = h * Low + (l + 1) /\ Legal(Clock(h, l + 1))
        BY <1>2, <2>1, ClockParts
    <2>3. Ticked(s) = Clock(h, l + 1)
        BY <1>1, <1>4 DEF Ticked
    <2> QED BY <1>1, <2>2, <2>3, Sizes
<1> QED BY <1>3, <1>4

\* A cycle with an offset adds it and counts one (global_time_sync.v:62), also when the
\* offset's digit is one the clock does not count; the clock's may be so then.
THEOREM OffsetAdded ==
    ASSUME NEW s \in Nat, NEW o \in Nat, Legal(s), s + o + Digit < Top
    PROVE  /\ Plain(Adjusted(s, o)) = Plain(s) + Plain(o) + 1
           /\ Legal(o) => Legal(Adjusted(s, o))
<1>1. PICK h \in Nat, l \in 0 .. Digit - 1 :
        /\ s = Digit * h + l /\ s \div Digit = h /\ Lo(s) = l
        /\ Plain(s) = h * Low + l /\ l < Low
    BY Split
<1>2. PICK ho \in Nat, lo \in 0 .. Digit - 1 :
        /\ o = Digit * ho + lo /\ o \div Digit = ho /\ Lo(o) = lo
        /\ Plain(o) = ho * Low + lo /\ (Legal(o) => lo < Low)
    BY ZenonT(30), Split
<1>3. o % Top = o /\ o < Top
    BY Sizes
<1>4. Adjusted(s, o) =
        IF l + lo >= Low - 1 THEN Clock(h + ho + 1, l + lo - (Low - 1))
        ELSE Clock(h + ho, l + lo + 1)
    BY <1>1, <1>2, <1>3 DEF Adjusted
<1>5. Digit * (h + ho + 1) + Digit <= Top /\ Digit * (h + ho) + Digit <= Top
    <2>1. h + ho + 1 \in Nat /\ Digit * (h + ho + 1) + (l + lo) < Top /\ l + lo \in Nat
        BY <1>1, <1>2, Sizes
    <2>2. Digit * (h + ho + 1) + Digit <= Top
        BY <2>1, Room
    <2> QED BY <2>2, Sizes
<1>6. CASE l + lo >= Low - 1
    <2> DEFINE k == l + lo - (Low - 1)
               g == h + ho + 1
    <2>1. k \in 0 .. Digit - 1 /\ (Legal(o) => k < Low) /\ g \in Nat /\ Digit * g + Digit <= Top
        BY <1>1, <1>2, <1>5, <1>6, Sizes
    <2>2. Adjusted(s, o) = Clock(g, k)
        BY <1>4, <1>6
    <2>3. g * Low + k = Plain(s) + Plain(o) + 1
        BY <1>1, <1>2, Sizes
    <2> HIDE DEF k, g
    <2> QED BY <2>1, <2>2, <2>3, ClockParts
<1>7. CASE l + lo < Low - 1
    <2> DEFINE k == l + lo + 1
               g == h + ho
    <2>1. k \in 0 .. Digit - 1 /\ (Legal(o) => k < Low) /\ g \in Nat /\ Digit * g + Digit <= Top
        BY <1>1, <1>2, <1>5, <1>7, Sizes
    <2>2. Adjusted(s, o) = Clock(g, k)
        BY <1>1, <1>2, <1>4, <1>7, Sizes
    <2>3. g * Low + k = Plain(s) + Plain(o) + 1
        BY <1>1, <1>2, Sizes
    <2> HIDE DEF k, g
    <2> QED BY <2>1, <2>2, <2>3, ClockParts
<1> QED BY <1>1, <1>2, <1>6, <1>7, Sizes

\* A cycle with an offset that has the sign takes it off and counts one, also
\* where the cycles borrow (global_time_sync.v:74).  The offset's digit may be one the
\* clock does not count, but at most Low + 1: from Low + 2 on the sum of the last branch
\* would be negative.
THEOREM OffsetTakenOff ==
    ASSUME NEW s \in Nat, NEW o \in Nat, Legal(s), Lo(o) <= Low + 1,
           Plain(o) <= Plain(s), s + Digit < Top
    PROVE  /\ Plain(Adjusted(s, Top + o)) = Plain(s) - Plain(o) + 1
           /\ Legal(Adjusted(s, Top + o))
<1>1. PICK h \in Nat, l \in 0 .. Digit - 1 :
        /\ s = Digit * h + l /\ s \div Digit = h /\ Lo(s) = l
        /\ Plain(s) = h * Low + l /\ l < Low
    BY Split
<1>2. PICK ho \in Nat, lo \in 0 .. Digit - 1 :
        /\ o = Digit * ho + lo /\ o \div Digit = ho /\ Lo(o) = lo
        /\ Plain(o) = ho * Low + lo /\ lo <= Low + 1
    BY Split
<1>3. h >= ho
    <2>1. ASSUME h < ho PROVE FALSE
        <3>1. ho * Low >= (h + 1) * Low /\ ho * Low \in Int /\ h * Low \in Int
            BY <2>1, Sizes
        <3> QED BY <1>1, <1>2, <3>1, Sizes
    <2> QED BY <2>1
<1>4. (Top + o) % Top = o /\ ~(Top + o < Top)
    <2>1. o \in 0 .. Top - 1 /\ Top + o = Top * 1 + o
        <3>1. Digit * ho <= Digit * h
            BY <1>3, Sizes
        <3>2. Digit * h + Digit <= Top
            BY <1>1, Room, Sizes
        <3> QED BY <1>2, <3>1, <3>2, Sizes
    <2> QED BY <2>1, Sizes
<1>5. Lo(Top + o) = lo
    <2> DEFINE m == Top \div Digit
    <2>1. Top % Digit = 0
        BY TimeAssumption DEF TimeAssumption
    <2>2. m \in Int /\ Top = Digit * m + (Top % Digit)
        BY Sizes, DivMod
    <2> HIDE DEF m
    <2>3. Top + o = Digit * (m + ho) + lo /\ m + ho \in Int /\ Top + o \in Int
        BY <1>2, <2>1, <2>2, Sizes
    <2> QED BY <2>3, Parts
<1>6. Adjusted(s, Top + o) =
        IF l - lo >= 0
        THEN IF l - lo = Low - 1 THEN Clock(h - ho + 1, 0) ELSE Clock(h - ho, l - lo + 1)
        ELSE IF l - lo = -1 THEN Clock(h - ho, 0) ELSE Clock(h - ho - 1, l - lo + Low + 1)
    BY <1>1, <1>2, <1>4, <1>5 DEF Adjusted
<1>7. Digit * (h + 1) + Digit <= Top
    <2>1. h + 1 \in Nat /\ Digit * (h + 1) + l < Top /\ l \in Nat
        BY <1>1, Sizes
    <2> QED BY <2>1, Room
<1>8. h >= ho /\ (l < lo => h >= ho + 1)
    <2>1. ASSUME l < lo, h = ho PROVE FALSE
        BY <1>1, <1>2, <2>1, Sizes
    <2> QED BY <1>3, <2>1
<1>9. ASSUME NEW g \in Nat, NEW k \in 0 .. Low - 1, g <= h + 1, Adjusted(s, Top + o) = Clock(g, k),
             g * Low + k = (h - ho) * Low + l - lo + 1
      PROVE  /\ Plain(Adjusted(s, Top + o)) = Plain(s) - Plain(o) + 1
             /\ Legal(Adjusted(s, Top + o))
    <2>1. Digit * g + Digit <= Top
        BY <1>7, <1>9, Sizes
    <2>2. k \in 0 .. Digit - 1 /\ k < Low
        BY <1>9, Sizes
    <2>3. Plain(Clock(g, k)) = g * Low + k /\ Legal(Clock(g, k))
        BY <1>9, <2>1, <2>2, ClockParts
    <2>4. (h - ho) * Low + l - lo + 1 = Plain(s) - Plain(o) + 1
        BY <1>1, <1>2, Sizes
    <2> QED BY <1>9, <2>3, <2>4
<1>10. CASE l - lo >= 0 /\ l - lo = Low - 1
    <2>1. h - ho + 1 \in Nat /\ 0 \in 0 .. Low - 1 /\ h - ho + 1 <= h + 1
        BY <1>8, Sizes
    <2>2. (h - ho + 1) * Low + 0 = (h - ho) * Low + l - lo + 1
        BY <1>10, Sizes
    <2> QED BY <1>6, <1>9, <1>10, <2>1, <2>2
<1>11. CASE l - lo >= 0 /\ l - lo # Low - 1
    <2>1. h - ho \in Nat /\ l - lo + 1 \in 0 .. Low - 1 /\ h - ho <= h + 1
        BY <1>1, <1>2, <1>8, <1>11, Sizes
    <2>2. (h - ho) * Low + (l - lo + 1) = (h - ho) * Low + l - lo + 1
        BY Sizes
    <2> QED BY <1>6, <1>9, <1>11, <2>1, <2>2
<1>12. CASE l - lo < 0 /\ l - lo = -1
    <2>1. h - ho \in Nat /\ 0 \in 0 .. Low - 1 /\ h - ho <= h + 1
        BY <1>8, Sizes
    <2>2. (h - ho) * Low + 0 = (h - ho) * Low + l - lo + 1
        BY <1>12, Sizes
    <2> QED BY <1>6, <1>9, <1>12, <2>1, <2>2
<1>13. CASE l - lo < 0 /\ l - lo # -1
    <2>1. h - ho - 1 \in Nat /\ l - lo + Low + 1 \in 0 .. Low - 1 /\ h - ho - 1 <= h + 1
        BY <1>1, <1>2, <1>8, <1>13, Sizes
    <2>2. (h - ho - 1) * Low + (l - lo + Low + 1) = (h - ho) * Low + l - lo + 1
        BY Sizes
    <2> QED BY <1>6, <1>9, <1>13, <2>1, <2>2
<1> QED BY <1>1, <1>2, <1>10, <1>11, <1>12, <1>13

-----------------------------------------------------------------------------
(* The steps                                                                 *)

\* A message that the queue has no room for is dropped; no other leaves its place.
LEMMA WriteTyped ==
    ASSUME Inv, NEW message \in Order, Write(message)
    PROVE  /\ txq' \in Seq(Order)
           /\ txq # <<>> => txq' # <<>> /\ Head(txq') = Head(txq)
<1>1. txq \in Seq(Order)
    BY DEF Inv, PacketsTyped
<1>2. CASE txq' = Append(txq, message)
    <2>1. /\ txq' \in Seq(Order) /\ Len(txq') = Len(txq) + 1 /\ Len(txq) \in Nat
          /\ \A i \in 1 .. Len(txq) : txq'[i] = txq[i]
        BY <1>1, <1>2, AppendProperties
    <2>2. ASSUME txq # <<>> PROVE Len(txq) >= 1 /\ Head(txq) = txq[1]
        BY <1>1, <2>2
    <2>3. txq' # <<>> /\ Head(txq') = txq'[1]
        BY <2>1
    <2> QED BY <2>1, <2>2, <2>3
<1>3. CASE txq' = txq
    BY <1>1, <1>3
<1> QED BY <1>2, <1>3 DEF Write

LEMMA InitInv == Init => Inv
<1> SUFFICES ASSUME Init PROVE Inv
    OBVIOUS
<1>1. PICK s \in Skews : ov_syned_time = corr_trans(Start + s)
    BY DEF Init
<1>2. Start + s \in Int /\ now \in Int
    BY SyncAssumption DEF SyncAssumption, Init
<1>3. ov_syned_time \in Int
    BY <1>1, <1>2, DigitsTyped
<1>4. PacketsTyped
    BY DEF Init, PacketsTyped
<1>5. ClocksTyped /\ ServiceTyped
    BY <1>2, <1>3 DEF Init, ClocksTyped, ServiceTyped
<1> QED BY <1>4, <1>5 DEF Inv, Init, Parsing, NotYetGuided, GuideIsSum

\* A measured residence time is a number.
LEMMA CorrTyped ==
    ASSUME Inv, NEW left \in Int, NEW d \in LinkDelay, NEW kept \in Nat, NEW wrapped \in {0, 1}
    PROVE  Corr(left, d, kept, wrapped) \in Int
<1>1. Timer \in Nat \ {0} /\ d \in Int /\ now \in Int
    BY SyncAssumption DEF SyncAssumption, Inv, ClocksTyped
<1>2. NetworkCount(kept, wrapped) \in Int
    BY <1>1, DivMod DEF NetworkCount
<1>3. HostCount(Stay(left, d) - kept) \in Int
    BY <1>1, DivMod DEF HostCount, Stay
<1> QED BY <1>2, <1>3 DEF Corr

LEMMA TickInv == Inv /\ Tick => Inv'
<1> SUFFICES ASSUME Inv, Tick PROVE Inv'
    OBVIOUS
<1>1. ov_syned_time' \in Int
    BY CycleTyped DEF Tick, Inv, ClocksTyped
<1>2. ClocksTyped'
    BY <1>1 DEF Tick, Inv, ClocksTyped
<1> QED BY <1>2 DEF Tick, Inv, service, writes, PacketsTyped, Parsing, ServiceTyped, NotYetGuided, GuideIsSum

LEMMA SyncMasterInv == Inv /\ sync_handler_master => Inv'
<1> SUFFICES ASSUME Inv, sync_handler_master PROVE Inv'
    OBVIOUS
<1>1. [type |-> "sync", t1 |-> corr_trans(now), left |-> now] \in SyncPacket
    BY DigitsTyped DEF Inv, ClocksTyped, SyncPacket
<1>2. PacketsTyped'
    BY <1>1, AppendProperties DEF sync_handler_master, Inv, PacketsTyped, writes
<1> QED BY <1>2 DEF sync_handler_master, Inv, switch, service, writes, ClocksTyped, Parsing, ServiceTyped,
                    NotYetGuided, GuideIsSum

LEMMA DelayReqInv ==
    ASSUME Inv, NEW d \in LinkDelay, NEW kept \in Nat, NEW wrapped \in {0, 1},
           delay_req_handler(d, kept, wrapped)
    PROVE  Inv'
<1> DEFINE req == Head(up)
           c == Corr(req.left, d, kept, wrapped)
           at == IF Counted(req.left, d, kept) THEN req.at ELSE -1
           t3 == ts_sub(corr_trans(now), ts_add(req.t3, corr_trans(c)))
<1>1. up # <<>> /\ up \in Seq(Request) /\ down \in Seq(SyncPacket \cup RespPacket)
    BY DEF delay_req_handler, Inv, PacketsTyped, writes
<1>2. req \in Request /\ Tail(up) \in Seq(Request)
    BY <1>1, HeadTailProperties
<1>3. req.t3 \in Int /\ req.left \in Int /\ req.at \in Int
    BY <1>2 DEF Request
<1>4. t3 \in Int
    <2>1. corr_trans(now) \in Int
        BY DigitsTyped DEF Inv, ClocksTyped
    <2>2. corr_trans(c) \in Int
        <3>1. c \in Int
            BY <1>3, CorrTyped
        <3> QED BY <3>1, DigitsTyped
    <2>3. ts_add(req.t3, corr_trans(c)) \in Nat
        BY <1>3, <2>2, AddTyped
    <2> QED BY <2>1, <2>3, SubTyped
<1>5. [type |-> "resp", at |-> at, t3 |-> t3] \in RespPacket
    BY <1>3, <1>4 DEF RespPacket
<1>6. down' = Append(down, [type |-> "resp", at |-> at, t3 |-> t3]) /\ up' = Tail(up)
    BY DEF delay_req_handler
<1>7. PacketsTyped'
    <2> HIDE DEF req, t3, at
    <2>1. down' \in Seq(SyncPacket \cup RespPacket)
        BY <1>1, <1>5, <1>6, AppendProperties
    <2> QED BY <1>2, <1>6, <2>1 DEF delay_req_handler, Inv, PacketsTyped, writes
<1> QED BY <1>7 DEF delay_req_handler, Inv, switch, service, writes, ClocksTyped, Parsing, ServiceTyped,
                    NotYetGuided, GuideIsSum

LEMMA LoseInv == Inv /\ (LoseDown \/ LoseUp) => Inv'
<1> SUFFICES ASSUME Inv, LoseDown \/ LoseUp PROVE Inv'
    OBVIOUS
<1>1. PacketsTyped'
    <2>1. down \in Seq(SyncPacket \cup RespPacket) /\ up \in Seq(Request)
        BY DEF Inv, PacketsTyped
    <2>2. /\ down' = down \/ (down # <<>> /\ down' = Tail(down))
          /\ up' = up \/ (up # <<>> /\ up' = Tail(up))
          /\ txq' = txq /\ pending' = pending
        BY DEF LoseDown, LoseUp, writes
    <2>3. down' \in Seq(SyncPacket \cup RespPacket)
        BY <2>1, <2>2, HeadTailProperties
    <2>4. up' \in Seq(Request)
        BY <2>1, <2>2, HeadTailProperties
    <2> QED BY <2>2, <2>3, <2>4 DEF Inv, PacketsTyped
<1>2. UNCHANGED <<now, switch, txq, service, steps>>
    BY DEF LoseDown, LoseUp, writes
<1> QED BY <1>1, <1>2 DEF Inv, switch, service, ClocksTyped, Parsing, ServiceTyped,
                    NotYetGuided, GuideIsSum

LEMMA SyncSlaveInv ==
    ASSUME Inv, NEW d \in LinkDelay, NEW kept \in Nat, NEW wrapped \in {0, 1},
           sync_handler_slave(d, kept, wrapped)
    PROVE  Inv'
<1> DEFINE p == Head(down)
           m == [type |-> "req"]
           c == Corr(p.left, d, kept, wrapped)
           at == IF Counted(p.left, d, kept) THEN steps ELSE -1
<1>1. /\ down # <<>> /\ down \in Seq(SyncPacket \cup RespPacket) /\ p.type = "sync"
      /\ UNCHANGED <<now, switch, up, pending, offset_seq, preoffset, total, steps>>
      /\ down' = Tail(down) /\ Write(m)
      /\ Local_ts_info' =
            [Local_ts_info EXCEPT !.t1 = p.t1, !.t2 = ov_syned_time, !.rorr1 = c, !.at = at]
    BY DEF sync_handler_slave, Inv, PacketsTyped
<1>2. p \in SyncPacket \cup RespPacket /\ Tail(down) \in Seq(SyncPacket \cup RespPacket)
    BY <1>1, HeadTailProperties
<1>3. p.t1 \in Int /\ p.left \in Int
    BY <1>1, <1>2 DEF SyncPacket, RespPacket
<1>4. c \in Int
    BY <1>3, CorrTyped
<1>5. at \in Int
    BY DEF Inv, ClocksTyped
<1> HIDE DEF p, c, at
<1>6. ServiceTyped'
    BY <1>1, <1>3, <1>4, <1>5 DEF Inv, ClocksTyped, ServiceTyped
<1>7. m \in Order
    BY DEF Order
<1>8. txq' \in Seq(Order) /\ Parsing'
    <2> HIDE DEF m
    <2> QED BY <1>1, <1>7, WriteTyped DEF Inv, Parsing, switch
<1>9. PacketsTyped'
    BY <1>1, <1>2, <1>8 DEF Inv, PacketsTyped
<1>10. /\ offset_seq' = offset_seq /\ preoffset' = preoffset /\ total' = total
       /\ Local_ts_info'.guide_offset_flag = Local_ts_info.guide_offset_flag
    BY <1>1 DEF Inv, ServiceTyped
<1> QED BY <1>1, <1>6, <1>8, <1>9, <1>10 DEF Inv, switch, ClocksTyped,
                    NotYetGuided, GuideIsSum

\* A response: the sum of the offsets is the new size and flag.
LEMMA GuideTyped ==
    ASSUME Inv, NEW flag \in {0, 1}, NEW offset \in Nat
    PROVE  Guide(flag, offset) \in [flag : {0, 1}, sum : Nat]
BY DEF Inv, ServiceTyped, Guide

LEMMA GuideSum ==
    ASSUME Inv, NEW flag \in {0, 1}, NEW offset \in Nat, offset_seq >= 2
    PROVE  total + (IF flag = 0 THEN offset ELSE -offset) =
            IF Guide(flag, offset).flag = 0 THEN Guide(flag, offset).sum
            ELSE -Guide(flag, offset).sum
<1>1. CASE offset_seq = 2
    BY <1>1 DEF Inv, ServiceTyped, NotYetGuided, Guide
<1>2. CASE offset_seq > 2
    BY <1>2 DEF Inv, ServiceTyped, GuideIsSum, Guide
<1> QED BY <1>1, <1>2 DEF Inv, ServiceTyped

LEMMA FrequencyTyped == ASSUME NEW sum \in Nat PROVE Frequency(sum) \in Int
<1>1. (IF sum = 0 THEN 1 ELSE sum) \in Nat \ {0}
    OBVIOUS
<1>2. PeriodCycles \in Int
    BY SyncAssumption DEF SyncAssumption
<1> QED BY <1>1, <1>2, DivMod DEF Frequency

LEMMA OrdersTyped ==
    ASSUME NEW flag \in {0, 1}, NEW value \in Int, NEW at \in Int
    PROVE  Offset(flag, value, at) \in Order /\ Period(value) \in Order
<1>1. Signed(flag, value) \in Int
    <2>1. \A x \in Int : x % (2 * Top) \in Int
        BY Sizes, DivMod
    <2> QED BY <2>1, Sizes DEF Signed
<1>2. value % PeriodReg \in Int
    BY SyncAssumption, DivMod DEF SyncAssumption
<1> QED BY <1>1, <1>2 DEF Offset, Period, Order

LEMMA DelayRespInv == Inv /\ delay_resp_handler_1 => Inv'
<1> SUFFICES ASSUME Inv, delay_resp_handler_1 PROVE Inv'
    OBVIOUS
<1> DEFINE p == Head(down)
           info == Local_ts_info
           t4 == ts_sub(info.t2, ts_add(info.t1, corr_trans(info.rorr1)))
           new == ts_compute(t4, p.t3)
           guide == Guide(new.flag, new.offset)
           at == IF p.at = info.at THEN info.at ELSE -1
           first == Now(Offset(new.flag, new.offset, at))
           Guiding == <<Offset(guide.flag, GuideOffset(new.flag, guide.sum), -1),
                        Period(Frequency(guide.sum))>>
<1>1. down # <<>> /\ down \in Seq(SyncPacket \cup RespPacket) /\ p.type = "resp"
    BY Zenon DEF delay_resp_handler_1, Inv, PacketsTyped
<1>2. p \in SyncPacket \cup RespPacket /\ Tail(down) \in Seq(SyncPacket \cup RespPacket)
    BY <1>1, HeadTailProperties
<1>3. p.t3 \in Int /\ p.at \in Int
    BY <1>1, <1>2 DEF SyncPacket, RespPacket
<1>4. info.t1 \in Int /\ info.t2 \in Int /\ info.rorr1 \in Int /\ info.at \in Int
    BY DEF Inv, ServiceTyped
<1>5. new \in [flag : {0, 1}, offset : Nat]
    <2>1. corr_trans(info.rorr1) \in Int
        BY <1>4, DigitsTyped
    <2>2. ts_add(info.t1, corr_trans(info.rorr1)) \in Nat
        BY <1>4, <2>1, AddTyped
    <2>3. t4 \in Int
        <3> DEFINE far == ts_add(info.t1, corr_trans(info.rorr1))
        <3>1. far \in Int
            BY <2>2
        <3> HIDE DEF far
        <3>2. ts_sub(info.t2, far) \in Nat
            BY <1>4, <3>1, SubTyped
        <3> QED BY <3>2 DEF far
    <2> HIDE DEF t4, p
    <2> QED BY <1>3, <2>3, ComputeTyped
<1>6. new.flag \in {0, 1} /\ new.offset \in Nat
    BY <1>5
<1>7. guide \in [flag : {0, 1}, sum : Nat]
    BY <1>6, GuideTyped
<1>8. guide.flag \in {0, 1} /\ guide.sum \in Nat
    BY <1>7
<1>9. first \in Seq(Order) /\ first \o Guiding \in Seq(Order)
    <2>1. at \in Int
        BY <1>3, <1>4
    <2>2. Offset(new.flag, new.offset, at) \in Order /\ Period(0) \in Order
        <3> HIDE DEF new, at
        <3> QED BY <1>6, <2>1, OrdersTyped
    <2>3. GuideOffset(new.flag, guide.sum) \in Int
        BY DEF GuideOffset
    <2>4. /\ Offset(guide.flag, GuideOffset(new.flag, guide.sum), -1) \in Order
          /\ Period(Frequency(guide.sum)) \in Order
        <3> HIDE DEF new, guide
        <3>1. Frequency(guide.sum) \in Int
            BY SMTT(30), <1>8, FrequencyTyped
        <3> QED BY <1>8, <2>3, <3>1, OrdersTyped
    <2> QED BY <2>2, <2>4 DEF Now
<1> HIDE DEF new, guide, at, first, Guiding, p
<1>10. /\ offset_seq' = offset_seq + 1 /\ down' = Tail(down)
       /\ UNCHANGED <<now, switch, up, txq, sent, steps, since>>
       /\ IF offset_seq < 2
          THEN /\ pending' = first
               /\ Local_ts_info' = [info EXCEPT !.offset = new.offset, !.offset_flag = new.flag]
               /\ UNCHANGED <<preoffset, total>>
          ELSE /\ pending' = first \o Guiding
               /\ Local_ts_info' = [info EXCEPT !.offset = new.offset, !.offset_flag = new.flag,
                                                !.guide_offset_flag = guide.flag]
               /\ preoffset' = guide.sum
               /\ total' = total + IF new.flag = 0 THEN new.offset ELSE -new.offset
    BY Zenon DEF delay_resp_handler_1, new, guide, at, first, Guiding, p
<1>11. pending' \in Seq(Order) /\ Parsing'
    BY <1>9, <1>10 DEF Inv, Parsing, switch
<1>12. ServiceTyped'
    <2>1. offset_seq' \in Nat
        BY <1>10 DEF Inv, ServiceTyped
    <2>2. CASE offset_seq < 2
        BY <1>6, <1>10, <2>1, <2>2 DEF Inv, ServiceTyped
    <2>3. CASE ~(offset_seq < 2)
        <3>1. total' \in Int
            BY SMTT(30), <1>6, <1>10, <2>3 DEF Inv, ServiceTyped
        <3> QED BY <1>6, <1>8, <1>10, <2>1, <2>3, <3>1 DEF Inv, ServiceTyped
    <2> QED BY <2>2, <2>3
<1>13. PacketsTyped' /\ ClocksTyped'
    BY <1>2, <1>10, <1>11 DEF Inv, PacketsTyped, ClocksTyped, switch
<1>14. NotYetGuided' /\ GuideIsSum'
    <2>1. CASE offset_seq < 2
        BY <1>10, <2>1 DEF Inv, ServiceTyped, NotYetGuided, GuideIsSum
    <2>2. CASE ~(offset_seq < 2)
        <3>1. offset_seq \in Nat /\ offset_seq >= 2
            BY <2>2 DEF Inv, ServiceTyped
        <3>2. total' = IF guide.flag = 0 THEN guide.sum ELSE -guide.sum
            BY <1>6, <1>10, <2>2, <3>1, GuideSum DEF guide
        <3>3. Local_ts_info'.guide_offset_flag = guide.flag
            BY <1>10, <2>2 DEF Inv, ServiceTyped
        <3> QED BY <1>10, <2>2, <3>1, <3>2, <3>3 DEF NotYetGuided, GuideIsSum
    <2> QED BY <2>1, <2>2
<1> QED BY <1>11, <1>12, <1>13, <1>14 DEF Inv

\* The next message of the handler goes into the queue or is dropped.
LEMMA WriteNextInv == Inv /\ WriteNext => Inv'
<1> SUFFICES ASSUME Inv, WriteNext PROVE Inv'
    OBVIOUS
<1> DEFINE m == Head(pending)
<1>1. /\ pending \in Seq(Order) /\ pending # <<>> /\ pending' = Tail(pending) /\ Write(m)
      /\ UNCHANGED <<now, switch, down, up, service, sent, steps, since>>
    BY DEF WriteNext, Inv, PacketsTyped
<1>2. m \in Order /\ pending' \in Seq(Order)
    BY <1>1, HeadTailProperties
<1> HIDE DEF m
<1>3. txq' \in Seq(Order) /\ Parsing'
    BY <1>1, <1>2, WriteTyped DEF Inv, Parsing, switch
<1> QED BY <1>1, <1>2, <1>3 DEF Inv, switch, service, ClocksTyped, PacketsTyped, ServiceTyped,
                    NotYetGuided, GuideIsSum

\* The slave's switch takes the head of the queue, or the low half of an offset there.
SwitchStep == StampRequest \/ SetOffsetLow \/ SetOffset \/ SetPeriod

LEMMA SwitchInv == Inv /\ SwitchStep => Inv'
<1> SUFFICES ASSUME Inv, SwitchStep PROVE Inv'
    OBVIOUS
<1> USE DEF SwitchStep
<1>1. CASE SetOffsetLow
    <2>1. /\ txq # <<>> /\ Head(txq).type = "offset" /\ half' = TRUE
          /\ iv_time_offset' = (iv_time_offset \div Part) * Part + (Head(txq).value % Part)
          /\ UNCHANGED <<now, ov_syned_time, down, up, writes, service, steps>>
        BY <1>1 DEF SetOffsetLow
    <2>2. Head(txq) \in Order
        BY <2>1, HeadTailProperties DEF Inv, PacketsTyped
    <2>3. Head(txq).value \in Int
        BY <2>1, <2>2 DEF Order
    <2>4. iv_time_offset' \in Int
        <3>1. Part \in Nat \ {0} /\ iv_time_offset \in Int
            BY SyncAssumption DEF SyncAssumption, Inv, ClocksTyped
        <3> DEFINE v == Head(txq).value
        <3>2. v \in Int /\ iv_time_offset' = (iv_time_offset \div Part) * Part + (v % Part)
            BY <2>1, <2>3
        <3> HIDE DEF v
        <3>3. iv_time_offset \div Part \in Int /\ v % Part \in Int
            BY <3>1, <3>2, DivMod
        <3> QED BY <3>1, <3>2, <3>3
    <2> QED BY <2>1, <2>4 DEF Inv, writes, service, ClocksTyped, PacketsTyped, Parsing,
                    ServiceTyped, NotYetGuided, GuideIsSum
<1>2. CASE ~SetOffsetLow
    <2>1. /\ txq # <<>> /\ txq \in Seq(Order) /\ txq' = Tail(txq)
          /\ half' = FALSE /\ (SetOffset => Head(txq).type = "offset")
        BY <1>2 DEF StampRequest, SetOffset, SetPeriod, Inv, PacketsTyped, Parsing, switch
    <2>2. Head(txq) \in Order /\ txq' \in Seq(Order)
        BY <2>1, HeadTailProperties
    <2>3. CASE StampRequest
        <3>1. [t3 |-> ov_syned_time, left |-> now, at |-> steps] \in Request
            BY DEF Inv, ClocksTyped, Request
        <3>2. up' \in Seq(Request)
            BY <2>3, <3>1, AppendProperties DEF StampRequest, Inv, PacketsTyped
        <3> QED BY <2>1, <2>2, <2>3, <3>2 DEF StampRequest, Inv, switch, service, ClocksTyped,
                    PacketsTyped, Parsing, ServiceTyped, NotYetGuided, GuideIsSum
    <2>4. CASE SetOffset
        <3>1. Head(txq).value \in Int
            BY <2>1, <2>2, <2>4 DEF Order
        <3> QED BY <2>1, <2>2, <2>4, <3>1 DEF SetOffset, Inv, service, ClocksTyped,
                    PacketsTyped, Parsing, ServiceTyped, NotYetGuided, GuideIsSum
    <2>5. CASE SetPeriod
        BY <2>1, <2>2, <2>5 DEF SetPeriod, Inv, service, ClocksTyped, PacketsTyped, Parsing,
                    ServiceTyped, NotYetGuided, GuideIsSum
    <2> QED BY <1>2, <2>3, <2>4, <2>5
<1> QED BY <1>1, <1>2

LEMMA NextInv == Inv /\ [Next]_vars => Inv'
<1> SUFFICES ASSUME Inv, [Next]_vars PROVE Inv'
    OBVIOUS
<1>1. CASE Next
    <2>1. \A kept \in 0 .. MaxNow : kept \in Nat
        OBVIOUS
    <2> QED BY <1>1, <2>1, TickInv, SyncMasterInv, DelayReqInv, LoseInv, SyncSlaveInv,
               DelayRespInv, WriteNextInv, SwitchInv DEF Next, SwitchStep
<1>2. CASE UNCHANGED vars
    BY <1>2 DEF vars, switch, service, writes, Inv, ClocksTyped, PacketsTyped, Parsing,
                ServiceTyped, NotYetGuided, GuideIsSum
<1> QED BY <1>1, <1>2

\* The size and the flag that the slave guides its clock by are always those of the
\* signed sum of the offsets since the third response (ptp.c:535-586), for any
\* clocks, delays, losses and overlapping exchanges.
THEOREM GuidedSum == Spec => []GuideIsSum
<1>1. Inv => GuideIsSum
    BY DEF Inv
<1> QED BY InitInv, NextInv, <1>1, PTL DEF Spec
-----------------------------------------------------------------------------
(* Synchronization: the arithmetic of signed times                           *)

\* A time with the sign: its size, and the cycles it stands for.
Mag(t)  == IF t < Top THEN t ELSE t - Top
Span(t) == IF t < Top THEN Plain(t) ELSE -Plain(t - Top)

\* Legal times are ordered as their cycles.
LEMMA PlainOrder ==
    ASSUME NEW a \in Nat, NEW b \in Nat, Legal(a), Legal(b)
    PROVE  Plain(a) \in Nat /\ Plain(b) \in Nat /\ (Plain(a) <= Plain(b) <=> a <= b)
<1>1. PICK h1 \in Nat, l1 \in 0 .. Digit - 1 :
        a = Digit * h1 + l1 /\ Plain(a) = h1 * Low + l1 /\ l1 < Low
    BY Split
<1>2. PICK h2 \in Nat, l2 \in 0 .. Digit - 1 :
        b = Digit * h2 + l2 /\ Plain(b) = h2 * Low + l2 /\ l2 < Low
    BY Split
<1>3. CASE h1 = h2
    BY <1>1, <1>2, <1>3, Sizes
<1>4. CASE h1 < h2
    <2>1. Digit * (h1 + 1) <= Digit * h2 /\ (h1 + 1) * Low <= h2 * Low
        BY <1>4, Sizes
    <2> QED BY <1>1, <1>2, <2>1, Sizes
<1>5. CASE h2 < h1
    <2>1. Digit * (h2 + 1) <= Digit * h1 /\ (h2 + 1) * Low <= h1 * Low
        BY <1>5, Sizes
    <2> QED BY <1>1, <1>2, <2>1, Sizes
<1> QED BY <1>3, <1>4, <1>5

\* More cycles, a later time.
LEMMA TransOrder ==
    ASSUME NEW a \in Nat, NEW b \in Nat, a <= b
    PROVE  corr_trans(a) \in Nat /\ corr_trans(b) \in Nat /\ corr_trans(a) <= corr_trans(b)
<1>1. ASSUME NEW c \in Nat PROVE corr_trans(c) \in Nat
    <2>1. c \in Int /\ c >= 0
        OBVIOUS
    <2>2. c \div Low \in Int /\ c \div Low >= 0 /\ c % Low \in 0 .. Low - 1
        BY <2>1, Sizes, DivMod
    <2> DEFINE h == c \div Low
               l == c % Low
    <2>3. h \in Nat /\ l \in Nat
        BY <2>2, Sizes
    <2> HIDE DEF h, l
    <2>4. h * Digit + l \in Nat
        BY <2>3, Sizes
    <2> QED BY <2>4 DEF corr_trans, h, l
<1> QED BY <1>1, TransIsTime, PlainOrder

\* The sum grows by a carry at most.
LEMMA AddBound ==
    ASSUME NEW u1 \in Nat, NEW u2 \in Nat, u1 + u2 + Digit < Word
    PROVE  ts_add(u1, u2) \in Nat /\ ts_add(u1, u2) <= u1 + u2 + Digit
<1>1. PICK h1 \in Nat, l1 \in 0 .. Digit - 1 :
        u1 = Digit * h1 + l1 /\ Lo(u1) = l1 /\ Hi(u1) = h1 * Digit
    BY Split
<1>2. PICK h2 \in Nat, l2 \in 0 .. Digit - 1 :
        u2 = Digit * h2 + l2 /\ Lo(u2) = l2 /\ Hi(u2) = h2 * Digit
    BY Split
<1> DEFINE c == IF l1 + l2 > Low - 1 THEN Digit + (l1 + l2) - Low ELSE l1 + l2
           x == Hi(u1) + Hi(u2) + c
<1>3. c \in Nat /\ c <= l1 + l2 + Digit
    BY <1>1, <1>2, Sizes
<1>4. ts_add(u1, u2) = U64(x)
    BY <1>1, <1>2 DEF ts_add
<1>5. x \in 0 .. Word - 1 /\ x <= u1 + u2 + Digit
    <2> HIDE DEF c
    <2> QED BY <1>1, <1>2, <1>3, Sizes
<1> HIDE DEF x
<1>6. U64(x) = x
    BY <1>5, SmallU64
<1> QED BY <1>4, <1>5, <1>6, Sizes

\* The sign bit is no part of the digit.
LEMMA AboveTop ==
    ASSUME NEW x \in Nat
    PROVE  /\ Legal(Top + x) <=> Legal(x)
           /\ Plain(Top) \in Int /\ Plain(Top + x) = Plain(Top) + Plain(x)
<1> DEFINE m == Top \div Digit
<1>1. m \in Int /\ Top = Digit * m
    <2>1. Top % Digit = 0
        BY TimeAssumption DEF TimeAssumption
    <2>2. m \in Int /\ Top = Digit * m + (Top % Digit)
        BY Sizes, DivMod
    <2> QED BY <2>1, <2>2, Sizes
<1> HIDE DEF m
<1>2. PICK h \in Nat, l \in 0 .. Digit - 1 :
        x = Digit * h + l /\ Plain(x) = h * Low + l /\ (Legal(x) <=> l < Low)
    BY Split
<1>3. Top + x = Digit * (m + h) + l /\ m + h \in Int /\ Top + x \in Int
    BY <1>1, <1>2, Sizes
<1>4. Plain(Top + x) = (m + h) * Low + l /\ (Legal(Top + x) <=> l < Low)
    BY <1>3, Parts
<1>5. Plain(Top) = m * Low
    <2>1. 0 \in 0 .. Digit - 1 /\ Top = Digit * m + 0 /\ Top \in Int
        BY <1>1, Sizes
    <2>2. Plain(Top) = m * Low + 0
        BY <1>1, <2>1, Parts
    <2> QED BY <1>1, <2>2, Sizes
<1> QED BY <1>1, <1>2, <1>4, <1>5, Sizes

\* A measured difference: its size is legal and below the half of the range, and
\* its sign is not that of a zero.
Difference(t) ==
    /\ t \in Nat /\ t # Top /\ Mag(t) \in Nat
    /\ 2 * Mag(t) + 2 * Digit < Top /\ Legal(Mag(t))

\* ts_sub of two times in range is their difference, with its sign.
LEMMA SubIsSpan ==
    ASSUME NEW u1 \in Nat, NEW u2 \in Nat, Legal(u1), Legal(u2),
           2 * u1 + 2 * Digit < Top, 2 * u2 + 2 * Digit < Top
    PROVE  Difference(ts_sub(u1, u2)) /\ Span(ts_sub(u1, u2)) = Plain(u1) - Plain(u2)
<1> DEFINE Size(a, b) ==
            IF Lo(a) >= Lo(b) THEN a - b
            ELSE ts_add(U64(Lo(a) + Low - Lo(b)), U64(Hi(a) - Digit - Hi(b)))
<1>1. u1 < Top /\ u2 < Top /\ u1 < Word /\ u2 < Word
    BY Sizes, WordBig
<1>2. ts_sub(u1, u2) = IF u1 >= u2 THEN Size(u1, u2) ELSE Size(u2, u1) + Top
    BY DEF ts_sub
<1>3. CASE u1 >= u2
    <2>1. /\ Size(u1, u2) \in 0 .. u1 /\ Plain(Size(u1, u2)) = Plain(u1) - Plain(u2)
          /\ Legal(Size(u1, u2))
        BY <1>1, <1>3, SizeIsDifference
    <2> HIDE DEF Size
    <2> QED BY <1>1, <1>2, <1>3, <2>1, Sizes DEF Difference, Span, Mag
<1>4. CASE u1 < u2
    <2>1. /\ Size(u2, u1) \in 0 .. u2 /\ Plain(Size(u2, u1)) = Plain(u2) - Plain(u1)
          /\ Legal(Size(u2, u1))
        BY <1>1, <1>4, SizeIsDifference
    <2> DEFINE x == Size(u2, u1)
    <2>2. x \in Nat /\ x <= u2 /\ Plain(x) = Plain(u2) - Plain(u1) /\ Legal(x)
        BY <2>1
    <2>3. ts_sub(u1, u2) = x + Top
        BY <1>2, <1>4
    <2> HIDE DEF x
    <2>4. Plain(u1) \in Nat /\ Plain(u2) \in Nat /\ Plain(u1) < Plain(u2)
        BY <1>4, PlainOrder
    <2>5. x # 0
        <3>1. 0 \in 0 .. Digit - 1 /\ 0 = Digit * 0 + 0
            BY Sizes
        <3>2. Plain(0) = 0 * Low + 0
            BY <3>1, Parts
        <3> QED BY <2>2, <2>4, <3>2, Sizes
    <2> QED BY <1>1, <2>2, <2>3, <2>4, <2>5, Sizes DEF Difference, Span, Mag
<1> QED BY <1>3, <1>4

\* ts_compute (ptp.c:113) takes the difference of two differences, in all
\* combinations of their signs, and halves its size.
LEMMA ComputeIsHalf ==
    ASSUME NEW t4, NEW t3, Difference(t4), Difference(t3)
    PROVE  \E size \in Nat, flag \in {0, 1} :
            /\ ts_compute(t4, t3) = [flag |-> flag, offset |-> size \div 2]
            /\ size < Top /\ Legal(size)
            /\ Plain(size) = IF flag = 0 THEN Span(t4) - Span(t3) ELSE Span(t3) - Span(t4)
<1> DEFINE m4 == Mag(t4)
           m3 == Mag(t3)
           Size(a, b) ==
            IF Lo(a) >= Lo(b) THEN a - b
            ELSE ts_add(U64(Lo(a) + Low - Lo(b)), U64(Hi(a) - Digit - Hi(b)))
           Result(flag, size) == [flag |-> flag, offset |-> size \div 2]
<1>1. /\ t4 \in Nat /\ t3 \in Nat /\ t4 # Top /\ t3 # Top /\ m4 \in Nat /\ m3 \in Nat
      /\ 2 * m4 + 2 * Digit < Top /\ 2 * m3 + 2 * Digit < Top /\ Legal(m4) /\ Legal(m3)
      /\ t4 = (IF t4 < Top THEN m4 ELSE Top + m4) /\ t3 = (IF t3 < Top THEN m3 ELSE Top + m3)
      /\ Span(t4) = (IF t4 < Top THEN Plain(m4) ELSE -Plain(m4))
      /\ Span(t3) = (IF t3 < Top THEN Plain(m3) ELSE -Plain(m3))
    BY Sizes DEF Difference, Mag, Span
<1> HIDE DEF m4, m3
<1>2. m4 < Top /\ m3 < Top /\ m4 + m3 + Digit < Top /\ Top < Word /\ 2 * Top < Word
    BY <1>1, Sizes, WordBig
<1>3. Plain(m4) \in Nat /\ Plain(m3) \in Nat
    BY <1>1, PlainOrder
<1>4. ASSUME NEW a \in Nat, NEW b \in Nat, Legal(a), Legal(b), a >= b, a < Word
      PROVE  /\ ts_sub(a, b) \in Nat /\ Legal(ts_sub(a, b)) /\ ts_sub(a, b) <= a
             /\ Plain(ts_sub(a, b)) = Plain(a) - Plain(b)
    <2>1. ts_sub(a, b) = Size(a, b)
        BY <1>4 DEF ts_sub
    <2>2. Size(a, b) \in 0 .. a /\ Plain(Size(a, b)) = Plain(a) - Plain(b) /\ Legal(Size(a, b))
        BY <1>4, SizeIsDifference
    <2> HIDE DEF Size
    <2> QED BY <2>1, <2>2
<1>5. /\ ts_add(m4, m3) \in Nat /\ ts_add(m4, m3) < Top /\ Legal(ts_add(m4, m3))
      /\ Plain(ts_add(m4, m3)) = Plain(m4) + Plain(m3)
    <2>1. m4 + m3 + Digit < Word
        BY <1>1, <1>2, Sizes
    <2> QED BY <1>1, <1>2, <2>1, AddBound, AddIsSum, Sizes
<1>6. CASE t4 < Top /\ t3 < Top
    <2>1. CASE m4 >= m3
        <3>1. ts_compute(t4, t3) = Result(0, ts_sub(m4, m3))
            BY <1>1, <1>6, <2>1 DEF ts_compute
        <3>2. ts_sub(m4, m3) \in Nat /\ ts_sub(m4, m3) < Top /\ Legal(ts_sub(m4, m3))
              /\ Plain(ts_sub(m4, m3)) = Span(t4) - Span(t3)
            BY <1>1, <1>2, <1>4, <1>6, <2>1, Sizes
        <3> QED BY <3>1, <3>2
    <2>2. CASE m4 < m3
        <3>1. ts_compute(t4, t3) = Result(1, ts_sub(m3, m4))
            BY <1>1, <1>6, <2>2 DEF ts_compute
        <3>2. ts_sub(m3, m4) \in Nat /\ ts_sub(m3, m4) < Top /\ Legal(ts_sub(m3, m4))
              /\ Plain(ts_sub(m3, m4)) = Span(t3) - Span(t4)
            BY <1>1, <1>2, <1>4, <1>6, <2>2, Sizes
        <3> QED BY <3>1, <3>2
    <2> QED BY <1>1, <2>1, <2>2
<1>7. CASE t4 < Top /\ t3 > Top
    <2>1. t3 - Top = m3 /\ t4 = m4
        BY <1>1, <1>7, Sizes
    <2>2. ts_compute(t4, t3) = Result(0, ts_add(m4, m3))
        BY <1>1, <1>7, <2>1, Sizes DEF ts_compute
    <2>3. Plain(ts_add(m4, m3)) = Span(t4) - Span(t3)
        BY <1>1, <1>3, <1>5, <1>7, Sizes
    <2> QED BY <1>5, <2>2, <2>3
<1>8. CASE t4 > Top /\ t3 < Top
    <2>1. t4 - Top = m4 /\ t3 = m3
        BY <1>1, <1>8, Sizes
    <2>2. ts_compute(t4, t3) = Result(1, ts_add(m4, m3))
        BY <1>1, <1>8, <2>1, Sizes DEF ts_compute
    <2>3. Plain(ts_add(m4, m3)) = Span(t3) - Span(t4)
        BY <1>1, <1>3, <1>5, <1>8, Sizes
    <2> QED BY <1>5, <2>2, <2>3
<1>9. CASE t4 > Top /\ t3 > Top
    <2>1. /\ t4 = Top + m4 /\ t3 = Top + m3 /\ t4 < Word /\ t3 < Word
          /\ Legal(t4) /\ Legal(t3)
          /\ Plain(Top) \in Int /\ Plain(t4) = Plain(Top) + Plain(m4)
          /\ Plain(t3) = Plain(Top) + Plain(m3)
        BY <1>1, <1>2, <1>9, AboveTop, Sizes
    <2>2. U64(t4 - Top) = m4 /\ U64(t3 - Top) = m3
        <3>1. t4 - Top = m4 /\ t3 - Top = m3 /\ m4 \in 0 .. Word - 1 /\ m3 \in 0 .. Word - 1
            BY <1>1, <1>2, <2>1, Sizes
        <3> QED BY <3>1, SmallU64
    <2>3. CASE t4 >= t3
        <3>1. ts_compute(t4, t3) = Result(1, ts_sub(t4, t3))
            <4>1. m4 >= m3
                BY <1>1, <2>1, <2>3, Sizes
            <4> QED BY <1>1, <1>9, <2>2, <4>1, Sizes DEF ts_compute
        <3>2. /\ ts_sub(t4, t3) \in Nat /\ Legal(ts_sub(t4, t3))
              /\ Plain(ts_sub(t4, t3)) = Plain(m4) - Plain(m3)
            BY <1>1, <1>3, <1>4, <2>1, <2>3
        <3>3. ts_sub(t4, t3) <= m4
            <4>1. Plain(ts_sub(t4, t3)) <= Plain(m4)
                BY <1>3, <3>2
            <4> QED BY <1>1, <3>2, <4>1, PlainOrder
        <3>4. ts_sub(t4, t3) < Top /\ Plain(ts_sub(t4, t3)) = Span(t3) - Span(t4)
            BY <1>1, <1>2, <1>3, <1>9, <3>2, <3>3, Sizes
        <3> QED BY <3>1, <3>2, <3>4
    <2>4. CASE t4 < t3
        <3>1. ts_compute(t4, t3) = Result(0, ts_sub(t3, t4))
            <4>1. ~(m4 >= m3)
                BY <1>1, <2>1, <2>4, Sizes
            <4> QED BY <1>1, <1>9, <2>2, <4>1, Sizes DEF ts_compute
        <3>2. /\ ts_sub(t3, t4) \in Nat /\ Legal(ts_sub(t3, t4))
              /\ Plain(ts_sub(t3, t4)) = Plain(m3) - Plain(m4)
            BY <1>1, <1>3, <1>4, <2>1, <2>4
        <3>3. ts_sub(t3, t4) <= m3
            <4>1. Plain(ts_sub(t3, t4)) <= Plain(m3)
                BY <1>3, <3>2
            <4> QED BY <1>1, <3>2, <4>1, PlainOrder
        <3>4. ts_sub(t3, t4) < Top /\ Plain(ts_sub(t3, t4)) = Span(t4) - Span(t3)
            BY <1>1, <1>2, <1>3, <1>9, <3>2, <3>3, Sizes
        <3> QED BY <3>1, <3>2, <3>4
    <2> QED BY <1>1, <2>3, <2>4
<1> QED BY <1>1, <1>6, <1>7, <1>8, <1>9, Sizes

\* Half of the number is half of the time, but for the parity of the cycles and, at
\* an odd microsecond, for what the digit holds more than it counts.  The digit of the half
\* may be one or two above those that the clock counts.
LEMMA HalfIsHalf ==
    ASSUME NEW size \in Nat, Legal(size), Digit - Low <= 3
    PROVE  /\ size \div 2 \in Nat /\ 2 * (size \div 2) <= size
           /\ Lo(size \div 2) <= Low + 1
           /\ Plain(size \div 2) \in Int
           /\ Plain(size) - 2 * Plain(size \div 2) \in -3 .. 1
<1>1. PICK h \in Nat, l \in 0 .. Digit - 1 :
        size = Digit * h + l /\ Plain(size) = h * Low + l /\ l < Low
    BY Split
<1>2. PICK d \in Nat : Digit = 2 * d
    <2>1. Digit % 2 = 0 /\ Digit \in Nat
        BY TimeAssumption DEF TimeAssumption
    <2>2. Digit \div 2 \in Nat /\ Digit = 2 * (Digit \div 2)
        BY <2>1
    <2> QED BY <2>2
<1>3. PICK k \in Nat : h = 2 * k \/ h = 2 * k + 1
    <2>1. h \div 2 \in Nat /\ (h = 2 * (h \div 2) \/ h = 2 * (h \div 2) + 1)
        OBVIOUS
    <2> QED BY <2>1
<1>4. PICK j \in Nat : l = 2 * j \/ l = 2 * j + 1
    <2>1. l \in Nat
        BY Sizes
    <2>2. l \div 2 \in Nat /\ (l = 2 * (l \div 2) \/ l = 2 * (l \div 2) + 1)
        BY <2>1
    <2> QED BY <2>2
<1>5. CASE h = 2 * k
    <2>1. size = 2 * (Digit * k + j) \/ size = 2 * (Digit * k + j) + 1
        BY <1>1, <1>4, <1>5, Sizes
    <2> DEFINE o == Digit * k + j
    <2>2. o \in Nat
        BY <1>4, Sizes
    <2> HIDE DEF o
    <2>3. size \div 2 = o
        BY <2>1, <2>2 DEF o
    <2>4. j \in 0 .. Digit - 1 /\ o = Digit * k + j /\ o \in Int
        BY <1>4, <2>2, Sizes DEF o
    <2>5. Plain(o) = k * Low + j /\ Lo(o) <= Low + 1
        <3>1. Plain(o) = k * Low + j /\ Lo(o) = j
            BY <2>4, Parts
        <3> QED BY <1>1, <1>4, <3>1, Sizes
    <2>6. h * Low = 2 * (k * Low)
        BY <1>5, Sizes
    <2>7. k * Low \in Int
        BY Sizes
    <2>8. Plain(o) \in Int /\ Plain(size) - 2 * Plain(o) \in -3 .. 1
        BY <1>1, <1>4, <2>5, <2>6, <2>7
    <2>9. 2 * o <= size
        BY <2>1, <2>2 DEF o
    <2> QED BY <2>2, <2>3, <2>5, <2>8, <2>9
<1>6. CASE h = 2 * k + 1
    <2> DEFINE o == Digit * k + (d + j)
    <2>1. size = 2 * o \/ size = 2 * o + 1
        <3>1. Digit * h = 2 * (Digit * k) + Digit
            BY <1>6, Sizes
        <3>2. Digit * k \in Int
            BY Sizes
        <3> QED BY <1>1, <1>2, <1>4, <3>1, <3>2
    <2>2. o \in Nat
        BY <1>2, <1>4, Sizes
    <2>3. d + j \in 0 .. Digit - 1
        BY <1>1, <1>2, <1>4, Sizes
    <2>4. Plain(o) = k * Low + (d + j) /\ Lo(o) <= Low + 1
        <3>1. o = Digit * k + (d + j) /\ o \in Int
            BY <2>2
        <3> HIDE DEF o
        <3>2. Plain(o) = k * Low + (d + j) /\ Lo(o) = d + j
            BY <2>3, <3>1, Parts
        <3> QED BY <1>1, <1>2, <1>4, <3>2, Sizes
    <2> HIDE DEF o
    <2>5. size \div 2 = o
        BY <2>1, <2>2
    <2>6. h * Low = 2 * (k * Low) + Low
        BY <1>6, Sizes
    <2>7. k * Low \in Int
        BY Sizes
    <2>8. Plain(o) \in Int /\ Plain(size) - 2 * Plain(o) \in -3 .. 1
        BY <1>1, <1>2, <1>4, <2>4, <2>6, <2>7, Sizes
    <2>9. 2 * o <= size
        BY <2>1, <2>2
    <2> QED BY <2>2, <2>5, <2>4, <2>8, <2>9
<1> QED BY <1>3, <1>5, <1>6

-----------------------------------------------------------------------------
(* Synchronization: what the stamps under way are worth                      *)

\* The clocks have begun to count and are below a quarter of the 48 bits.
InRange ==
    /\ now >= 3 /\ 4 * corr_trans(now) + 4 * Digit < Top
    /\ 4 * ov_syned_time + 4 * Digit < Top

\* A time on one of these clocks.
Early(t) == t \in Nat /\ 4 * t + 4 * Digit < Top

\* The slave's clock has not been stepped since a stamp was taken.
Fresh(at) == at = steps /\ Legal(ov_syned_time)

\* The offset v brings the clock to the master's, but for half the difference u of what
\* no correction field holds and the rounding.
Brings(v) ==
    \E o \in Nat, u \in Uncertainty :
        /\ 2 * o < Top /\ Lo(o) <= Low + 1 /\ -u <= now
        /\ \/ v = o /\ 2 * (Ahead + Plain(o)) - u \in -3 .. 3
           \/ v = Top + o /\ 2 * (Ahead - Plain(o)) - u \in -3 .. 3

\* A sync packet or a response on its way to the slave, a request on its way to the
\* master, a message for the slave's switch, the times of the last sync packet.
DownOK(p) ==
    /\ p.type = "sync" => p.left \in Nat /\ p.left <= now /\ p.t1 = corr_trans(p.left)
    /\ p.type = "resp" =>
        /\ p.at <= steps
        /\ Fresh(p.at) => Difference(p.t3) /\ \E d \in Uncounted : Span(p.t3) = d - Ahead

UpOK(r) ==
    /\ Early(r.t3) /\ r.left \in Nat /\ r.left <= now /\ r.at <= steps
    /\ Fresh(r.at) => Legal(r.t3) /\ Plain(r.t3) - r.left = Ahead

OrderOK(m) == m.type = "offset" => m.at <= steps /\ (Fresh(m.at) => Brings(m.value))

StampsOK(i) ==
    /\ Early(i.t1) /\ Legal(i.t1) /\ i.rorr1 \in Nat /\ Early(corr_trans(i.rorr1))
    /\ Early(i.t2) /\ i.at \in Nat \cup {-1} /\ i.at <= steps

DelayOK(i) ==
    Fresh(i.at) =>
        /\ Legal(i.t2)
        /\ \E d \in Uncounted : d <= now /\ Plain(i.t2) - Plain(i.t1) - i.rorr1 = Ahead + d

\* An exchange is under way: the times in Local_ts_info are those of a sync packet.
Elems(s) == {s[i] : i \in 1 .. Len(s)}
Asked ==
    \/ up # <<>>
    \/ \E m \in Elems(txq) : m.type = "req"
    \/ \E p \in Elems(down) : p.type = "resp"

PacketsOK ==
    /\ \A p \in Elems(down) : DownOK(p)
    /\ \A r \in Elems(up) : UpOK(r)
    /\ \A m \in Elems(txq) : OrderOK(m)
    /\ \A m \in Elems(pending) : OrderOK(m) /\ m.type # "req"

RegisterOK ==
    /\ since \in Int /\ since <= steps
    /\ i_time_offset_wr /\ Fresh(since) => Brings(iv_time_offset)

ClocksOK == now \in Nat /\ ov_syned_time \in Nat /\ steps \in Nat

TimesOK ==
    /\ ClocksOK /\ PacketsOK /\ RegisterOK
    /\ StampsOK(Local_ts_info)
    /\ Asked => DelayOK(Local_ts_info)

\* Elements of sequences.
LEMMA ElemsOfTail ==
    ASSUME NEW S, NEW s \in Seq(S), s # <<>>
    PROVE  Head(s) \in Elems(s) /\ Elems(Tail(s)) \subseteq Elems(s)
<1>1. Len(s) \in Nat /\ Len(s) >= 1 /\ Head(s) = s[1]
    OBVIOUS
<1>2. \A i \in 1 .. Len(Tail(s)) : i + 1 \in 1 .. Len(s) /\ Tail(s)[i] = s[i + 1]
    BY <1>1
<1> QED BY <1>1, <1>2 DEF Elems

LEMMA ElemsOfAppend ==
    ASSUME NEW S, NEW s \in Seq(S), NEW x \in S
    PROVE  Elems(Append(s, x)) \subseteq Elems(s) \cup {x}
<1>1. /\ Append(s, x) \in Seq(S) /\ Len(Append(s, x)) = Len(s) + 1 /\ Len(s) \in Nat
      /\ \A i \in 1 .. Len(s) : Append(s, x)[i] = s[i]
      /\ Append(s, x)[Len(s) + 1] = x
    BY AppendProperties
<1>2. \A i \in 1 .. Len(s) + 1 : i = Len(s) + 1 \/ i \in 1 .. Len(s)
    BY <1>1
<1> QED BY <1>1, <1>2 DEF Elems

LEMMA ElemsOfWrite ==
    ASSUME Inv, NEW message \in Order, Write(message)
    PROVE  Elems(txq') \subseteq Elems(txq) \cup {message}
<1>1. txq \in Seq(Order)
    BY DEF Inv, PacketsTyped
<1>2. CASE txq' = Append(txq, message)
    BY <1>1, <1>2, ElemsOfAppend
<1>3. CASE txq' = txq
    BY <1>3
<1> QED BY <1>2, <1>3 DEF Write

\* What delay_resp_handler_1 writes: an offset and a period, or two of both.
LEMMA ElemsOfPairs ==
    ASSUME NEW first \in Order, NEW a \in Order, NEW third \in Order, NEW b \in Order,
           NEW messages, messages = <<first, a>> \/ messages = <<first, a>> \o <<third, b>>
    PROVE  Elems(messages) \subseteq {first, a, third, b} /\ Len(messages) <= 4
<1>1. CASE messages = <<first, a>>
    <2>1. Len(messages) = 2 /\ messages[1] = first /\ messages[2] = a
        BY <1>1
    <2>2. \A i \in 1 .. 2 : i = 1 \/ i = 2
        OBVIOUS
    <2> QED BY <2>1, <2>2 DEF Elems
<1>2. CASE messages = <<first, a>> \o <<third, b>>
    <2>1. /\ Len(messages) = 4 /\ messages[1] = first /\ messages[2] = a
          /\ messages[3] = third /\ messages[4] = b
        BY <1>2
    <2>2. \A i \in 1 .. 4 : i = 1 \/ i = 2 \/ i = 3 \/ i = 4
        OBVIOUS
    <2> QED BY <2>1, <2>2 DEF Elems
<1> QED BY <1>1, <1>2

\* What no correction field holds is a number of cycles.
LEMMA UncountedTyped ==
    /\ \A d \in LinkDelay, wrapped \in {0, 1} : d + wrapped \in Uncounted
    /\ \A d \in Uncounted : d \in Nat
    /\ \A u \in Uncertainty : u \in Int
<1>1. \A d \in LinkDelay, wrapped \in {0, 1} : d + wrapped \in Uncounted /\ d + wrapped \in Nat
    BY SyncAssumption DEF SyncAssumption, Uncounted
<1>2. ASSUME NEW x \in Uncounted PROVE x \in Nat
    <2>1. PICK d \in LinkDelay, wrapped \in {0, 1} : x = d + wrapped
        BY DEF Uncounted
    <2> QED BY <1>1, <2>1
<1> QED BY <1>1, <1>2 DEF Uncertainty

\* Steps that leave the clocks alone change the worth of nothing.
LEMMA SameClocks ==
    ASSUME UNCHANGED <<now, ov_syned_time, steps>>
    PROVE  /\ \A p : DownOK(p)' <=> DownOK(p)
           /\ \A r : UpOK(r)' <=> UpOK(r)
           /\ \A m : OrderOK(m)' <=> OrderOK(m)
           /\ \A i : (StampsOK(i)' <=> StampsOK(i)) /\ (DelayOK(i)' <=> DelayOK(i))
           /\ \A v : Brings(v)' <=> Brings(v)
           /\ \A at : Fresh(at)' <=> Fresh(at)
           /\ Ahead' = Ahead
<1>1. Ahead' = Ahead /\ now' = now /\ steps' = steps /\ ov_syned_time' = ov_syned_time
    BY DEF Ahead
<1>2. \A at : Fresh(at)' <=> Fresh(at)
    BY <1>1 DEF Fresh
<1>3. \A v : Brings(v)' <=> Brings(v)
    BY <1>1 DEF Brings
<1>4. \A p : DownOK(p)' <=> DownOK(p)
    BY <1>1, <1>2 DEF DownOK
<1>5. \A r : UpOK(r)' <=> UpOK(r)
    BY <1>1, <1>2 DEF UpOK
<1>6. \A m : OrderOK(m)' <=> OrderOK(m)
    BY <1>1, <1>2, <1>3 DEF OrderOK
<1>7. \A i : (StampsOK(i)' <=> StampsOK(i)) /\ (DelayOK(i)' <=> DelayOK(i))
    BY <1>1, <1>2 DEF StampsOK, DelayOK
<1> QED BY <1>1, <1>2, <1>3, <1>4, <1>5, <1>6, <1>7

\* The adder's result is a register value: its microseconds are cut to a multiple of the
\* digit, and the digit fits below.
LEMMA ClockNat ==
    ASSUME NEW s \in Int, NEW o \in Int
    PROVE  Ticked(s) \in 0 .. Top - 1 /\ Adjusted(s, o) \in 0 .. Top - 1
<1>1. ASSUME NEW h \in Int, NEW l \in Int PROVE Clock(h, l) \in 0 .. Top - 1
    <2> DEFINE x == h * Digit
               r == x % Top
               m == Top \div Digit
               k == h - m * (x \div Top)
    <2>1. x \in Int /\ m \in Int /\ Top = Digit * m
        <3>1. Top % Digit = 0
            BY TimeAssumption DEF TimeAssumption
        <3>2. m \in Int /\ Top = Digit * m + (Top % Digit)
            BY Sizes, DivMod
        <3> QED BY <3>1, <3>2, Sizes
    <2>2. r \in 0 .. Top - 1 /\ x \div Top \in Int /\ x = Top * (x \div Top) + r
        <3> HIDE DEF x
        <3> QED BY <2>1, Sizes, DivMod
    <2>3. l % Digit \in 0 .. Digit - 1
        BY Sizes, DivMod
    <2>4. k \in Int /\ r = Digit * k
        <3> DEFINE q == x \div Top
        <3>1. q \in Int /\ x = Top * q + r
            BY <2>2
        <3> HIDE DEF q, r, m
        <3>2. Digit * m * q = Digit * (m * q) /\ m * q \in Int
            BY <2>1, <3>1, Sizes
        <3>3. Digit * (h - m * q) = Digit * h - Digit * (m * q)
            BY <3>2, Sizes
        <3> QED BY <2>1, <2>2, <3>1, <3>2, <3>3, Sizes DEF q
    <2> HIDE DEF k, r, x
    <2>5. k >= 0
        <3>1. ASSUME k <= -1 PROVE FALSE
            <4>1. Digit * k <= -Digit
                BY <2>4, <3>1, Sizes
            <4> QED BY <2>2, <2>4, <4>1, Sizes
        <3> QED BY <2>4, <3>1
    <2>6. k \in Nat /\ 0 \in Nat /\ Digit * k + 0 < Top
        BY <2>2, <2>4, <2>5, Sizes
    <2>7. Digit * k + Digit <= Top
        BY <2>6, Room
    <2> QED BY <2>2, <2>3, <2>4, <2>7, Sizes DEF Clock, x, r
<1>2. /\ s \div Digit \in Int /\ Lo(s) \in Int /\ Lo(o) \in Int /\ Low \in Int
      /\ (o % Top) \div Digit \in Int
    <2>1. o % Top \in Int
        BY Sizes, DivMod
    <2> QED BY <2>1, Sizes, DivMod DEF Lo
<1> DEFINE h == s \div Digit
           g == (o % Top) \div Digit
<1>3. h \in Int /\ g \in Int
    BY <1>2
<1>4. Ticked(s) = IF Lo(s) = Low - 1 THEN Clock(h + 1, 0) ELSE Clock(h, Lo(s) + 1)
    BY DEF Ticked
<1>5. \E a, b \in Int : Adjusted(s, o) = Clock(a, b)
    <2>1. Adjusted(s, o) =
            IF o < Top
            THEN IF Lo(s) + Lo(o) >= Low - 1
                 THEN Clock(h + g + 1, Lo(s) + Lo(o) - (Low - 1))
                 ELSE Clock(h + g, Lo(s) + Lo(o) + 1)
            ELSE IF Lo(s) - Lo(o) >= 0
            THEN IF Lo(s) - Lo(o) = Low - 1 THEN Clock(h - g + 1, 0)
                 ELSE Clock(h - g, Lo(s) - Lo(o) + 1)
            ELSE IF Lo(s) - Lo(o) = -1 THEN Clock(h - g, 0)
                 ELSE Clock(h - g - 1, Lo(s) - Lo(o) + Low + 1)
        BY DEF Adjusted
    <2> HIDE DEF h, g
    <2>2. /\ h + g + 1 \in Int /\ h + g \in Int /\ h - g + 1 \in Int /\ h - g \in Int
          /\ h - g - 1 \in Int /\ Lo(s) + Lo(o) - (Low - 1) \in Int /\ Lo(s) + Lo(o) + 1 \in Int
          /\ Lo(s) - Lo(o) + 1 \in Int /\ Lo(s) - Lo(o) + Low + 1 \in Int /\ 0 \in Int
        BY <1>2, <1>3
    <2> QED BY <2>1, <2>2
<1> HIDE DEF h, g
<1>6. h + 1 \in Int /\ Lo(s) + 1 \in Int /\ 0 \in Int
    BY <1>2, <1>3
<1> QED BY <1>1, <1>3, <1>4, <1>5, <1>6

\* A cycle of the clocks steps the slave's clock, so that nothing is fresh any more, or
\* moves both clocks by one.
LEMMA TickKeeps ==
    ASSUME Inv, ClocksOK, InRange, Tick
    PROVE  /\ now' = now + 1 /\ ov_syned_time' \in Nat /\ steps' \in Nat /\ steps <= steps'
           /\ \A at \in Int : at <= steps /\ Fresh(at)' =>
                Fresh(at) /\ Ahead' = Ahead
<1>1. now' = now + 1 /\ (steps' = steps \/ steps' = steps + 1)
    BY DEF Tick
<1>2. ov_syned_time' \in Nat
    <2>1. ov_syned_time \in Int /\ iv_time_offset \in Int
        BY DEF Inv, ClocksTyped
    <2>2. ov_syned_time' \in 0 .. Top - 1
        BY <2>1, ClockNat DEF Tick
    <2> QED BY <2>2, Sizes
<1>3. ASSUME NEW at \in Int, at <= steps, Fresh(at)' PROVE Fresh(at) /\ Ahead' = Ahead
    <2>1. at = steps'
        BY <1>3 DEF Fresh
    <2>2. steps' = steps /\ at = steps
        BY <1>1, <1>3, <2>1 DEF ClocksOK
    <2>3. ~Adjusting /\ Legal(ov_syned_time)
        BY <2>2 DEF Tick, ClocksOK
    <2>4. ov_syned_time' = Ticked(ov_syned_time)
        BY <2>3 DEF Tick
    <2>5. ov_syned_time \in Nat /\ ov_syned_time + Digit < Top
        BY Sizes DEF ClocksOK, InRange
    <2>6. Plain(Ticked(ov_syned_time)) = Plain(ov_syned_time) + 1
        BY <2>3, <2>5, TickCounts
    <2>7. Plain(ov_syned_time) \in Int
        BY <2>3, <2>5, PlainOrder
    <2> QED BY <1>1, <2>2, <2>3, <2>4, <2>6, <2>7 DEF Fresh, Ahead, ClocksOK
<1> QED BY <1>1, <1>2, <1>3 DEF ClocksOK

\* A cycle of the clocks.
LEMMA TickTimes == TimesOK /\ Inv /\ InRange /\ Tick => TimesOK'
<1> SUFFICES ASSUME TimesOK, Inv, InRange, Tick PROVE TimesOK'
    OBVIOUS
<1>1. /\ now' = now + 1 /\ ov_syned_time' \in Nat /\ steps' \in Nat /\ steps <= steps'
      /\ \A at \in Int : at <= steps /\ Fresh(at)' => Fresh(at) /\ Ahead' = Ahead
    BY TickKeeps DEF TimesOK
<1>2. now \in Nat /\ steps \in Nat /\ now' \in Nat
    BY <1>1 DEF TimesOK, ClocksOK
<1>3. ClocksOK'
    BY <1>1, <1>2 DEF ClocksOK
<1>4. UNCHANGED <<down, up, txq, pending, Local_ts_info, since>> /\ i_time_offset_wr' = FALSE
    BY DEF Tick, service, writes
<1>5. /\ \A p \in Elems(down) : p \in SyncPacket \cup RespPacket
      /\ \A r \in Elems(up) : r \in Request
      /\ \A m \in Elems(txq) \cup Elems(pending) : m \in Order
    BY DEF Inv, PacketsTyped, Elems
<1>6. \A v : Brings(v) /\ Ahead' = Ahead => Brings(v)'
    <2>1. \A u \in Uncertainty : u \in Int
        BY UncountedTyped
    <2> QED BY <1>1, <1>2, <2>1 DEF Brings
<1>7. \A p \in Elems(down) : DownOK(p)'
    <2> SUFFICES ASSUME NEW p \in Elems(down) PROVE DownOK(p)'
        OBVIOUS
    <2>1. DownOK(p)
        BY DEF TimesOK, PacketsOK
    <2>2. CASE p.type = "sync"
        <3>1. p.type # "resp"
            BY <2>2
        <3> QED BY <1>1, <1>2, <2>1, <2>2, <3>1 DEF DownOK
    <2>3. CASE p.type # "sync"
        <3>1. p \in RespPacket
            BY <1>5, <2>3 DEF SyncPacket
        <3>2. p.at \in Int /\ p.type = "resp"
            BY <3>1 DEF RespPacket
        <3> QED BY <1>1, <1>2, <2>1, <2>3, <3>2 DEF DownOK
    <2> QED BY <2>2, <2>3
<1>8. \A r \in Elems(up) : UpOK(r)'
    <2> SUFFICES ASSUME NEW r \in Elems(up) PROVE UpOK(r)'
        OBVIOUS
    <2>1. UpOK(r) /\ r \in Request
        BY <1>5 DEF TimesOK, PacketsOK
    <2>2. r.at \in Int
        BY <2>1 DEF Request
    <2> QED BY <1>1, <1>2, <2>1, <2>2 DEF UpOK
<1>9. \A m \in Elems(txq) \cup Elems(pending) : OrderOK(m)'
    <2> SUFFICES ASSUME NEW m \in Elems(txq) \cup Elems(pending), m.type = "offset"
                 PROVE  OrderOK(m)'
        BY DEF OrderOK
    <2>1. OrderOK(m) /\ m \in Order
        BY <1>5 DEF TimesOK, PacketsOK
    <2>2. m.at \in Int
        BY <2>1 DEF Order
    <2> QED BY <1>1, <1>2, <1>6, <2>1, <2>2 DEF OrderOK
<1>10. StampsOK(Local_ts_info)'
    <2>1. StampsOK(Local_ts_info)
        BY DEF TimesOK
    <2>2. \A i : i = Local_ts_info => StampsOK(i)'
        BY <1>1, <1>2, <2>1 DEF StampsOK
    <2> QED BY <1>4, <2>2 DEF StampsOK
<1>11. Asked' => DelayOK(Local_ts_info)'
    <2>1. \A i : StampsOK(i) /\ DelayOK(i) => DelayOK(i)'
        <3> SUFFICES ASSUME NEW i, StampsOK(i), DelayOK(i) PROVE DelayOK(i)'
            OBVIOUS
        <3>1. i.at \in Int /\ i.at <= steps
            BY DEF StampsOK
        <3>2. Fresh(i.at)' => Fresh(i.at) /\ Ahead' = Ahead
            BY <1>1, <3>1
        <3>3. \A d \in Uncounted : d <= now => d <= now'
            BY <1>1, <1>2, UncountedTyped
        <3> QED BY <3>2, <3>3 DEF DelayOK
    <2>2. Asked' <=> Asked
        BY <1>4 DEF Asked, Elems
    <2>3. \A i : i = Local_ts_info' => (DelayOK(i)' => DelayOK(Local_ts_info)')
        BY DEF DelayOK, Fresh
    <2> QED BY <1>4, <2>1, <2>2, <2>3 DEF TimesOK
<1>12. PacketsOK'
    BY <1>4, <1>7, <1>8, <1>9 DEF PacketsOK, Elems, TimesOK
<1>13. RegisterOK'
    BY <1>1, <1>2, <1>4 DEF RegisterOK, TimesOK
<1> QED BY <1>3, <1>10, <1>11, <1>12, <1>13 DEF TimesOK

\* A step that leaves the clocks alone, and whose new packets are worth what they say.
LEMMA PacketsCarry ==
    ASSUME TimesOK, UNCHANGED <<now, ov_syned_time, steps>>,
           \A p \in Elems(down') : p \in Elems(down) \/ DownOK(p),
           \A r \in Elems(up') : r \in Elems(up) \/ UpOK(r),
           \A m \in Elems(txq') : m \in Elems(txq) \/ OrderOK(m),
           \A m \in Elems(pending') : m \in Elems(pending) \/ (OrderOK(m) /\ m.type # "req")
    PROVE  ClocksOK' /\ PacketsOK'
<1>1. /\ \A p \in Elems(down') : DownOK(p)
      /\ \A r \in Elems(up') : UpOK(r)
      /\ \A m \in Elems(txq') : OrderOK(m)
      /\ \A m \in Elems(pending') : OrderOK(m) /\ m.type # "req"
    BY DEF TimesOK, PacketsOK
<1>2. /\ \A p \in Elems(down') : DownOK(p)'
      /\ \A r \in Elems(up') : UpOK(r)'
      /\ \A m \in Elems(txq') : OrderOK(m)'
      /\ \A m \in Elems(pending') : OrderOK(m)' /\ m.type # "req"
    BY <1>1, SameClocks
<1>3. PacketsOK'
    BY <1>2 DEF PacketsOK, Elems
<1> QED BY <1>3 DEF TimesOK, ClocksOK

\* The same for the times that wait in the slave.
LEMMA ServiceCarry ==
    ASSUME TimesOK, UNCHANGED <<now, ov_syned_time, steps>>,
           Local_ts_info'.t1 = Local_ts_info.t1, Local_ts_info'.t2 = Local_ts_info.t2,
           Local_ts_info'.rorr1 = Local_ts_info.rorr1, Local_ts_info'.at = Local_ts_info.at,
           Asked' => Asked
    PROVE  StampsOK(Local_ts_info)' /\ (Asked' => DelayOK(Local_ts_info)')
<1>1. StampsOK(Local_ts_info) /\ (Asked => DelayOK(Local_ts_info))
    BY DEF TimesOK
<1>2. /\ \A at : Fresh(at)' <=> Fresh(at)
      /\ Ahead' = Ahead
    BY SameClocks
<1>3. StampsOK(Local_ts_info)'
    BY <1>1 DEF StampsOK
<1>4. DelayOK(Local_ts_info) => DelayOK(Local_ts_info)'
    BY <1>2 DEF DelayOK
<1> QED BY <1>1, <1>3, <1>4

\* And for the register of the offset.
LEMMA RegisterCarry ==
    ASSUME TimesOK, UNCHANGED <<now, ov_syned_time, steps, since, i_time_offset_wr, iv_time_offset>>
    PROVE  RegisterOK'
<1>1. Brings(iv_time_offset)' <=> Brings(iv_time_offset)
    <2>1. \A v : Brings(v)' <=> Brings(v)
        BY SameClocks
    <2>2. Ahead' = Ahead
        BY SameClocks
    <2> QED BY <2>2 DEF Brings
<1>2. Fresh(since)' <=> Fresh(since)
    BY DEF Fresh
<1> QED BY <1>1, <1>2 DEF TimesOK, RegisterOK

\* In the beginning nothing is under way.
LEMMA InitTimes == Init /\ InRange => TimesOK
<1> SUFFICES ASSUME Init, InRange PROVE TimesOK
    OBVIOUS
<1>1. PICK s \in Skews : ov_syned_time = corr_trans(Start + s)
    BY DEF Init
<1>2. Start \in Nat /\ Start + s \in Nat
    BY SyncAssumption DEF SyncAssumption
<1>3. ov_syned_time \in Nat
    BY <1>1, <1>2, TransOrder
<1>4. corr_trans(0) = 0 /\ Early(0) /\ Legal(0)
    <2>1. Plain(corr_trans(0)) = 0 /\ Legal(corr_trans(0)) /\ corr_trans(0) \in Nat
        BY TransIsTime, TransOrder
    <2>2. Lo(0) = 0 /\ Plain(0) = 0 * Low + 0 /\ (Legal(0) <=> 0 < Low)
        <3>1. 0 \in 0 .. Digit - 1 /\ 0 = Digit * 0 + 0
            BY Sizes
        <3> QED BY <3>1, Parts
    <2>3. Plain(0) = 0 /\ Legal(0)
        BY <2>2, Sizes
    <2>4. corr_trans(0) <= 0
        BY <2>1, <2>3, PlainOrder
    <2>5. 4 * Digit < Top
        BY <1>3, Sizes DEF InRange
    <2> QED BY <2>1, <2>3, <2>4, <2>5, Sizes DEF Early
<1>5. Elems(down) = {} /\ Elems(up) = {} /\ Elems(txq) = {} /\ Elems(pending) = {} /\ up = <<>>
    BY DEF Init, Elems
<1>6. ClocksOK
    BY <1>2, <1>3 DEF Init, ClocksOK
<1>7. PacketsOK /\ ~Asked
    BY <1>5 DEF PacketsOK, Asked
<1>8. RegisterOK
    BY DEF Init, RegisterOK
<1>9. StampsOK(Local_ts_info)
    BY <1>4 DEF Init, StampsOK
<1> QED BY <1>6, <1>7, <1>8, <1>9 DEF TimesOK

\* A sync packet leaves with the master's time.
LEMMA SyncMasterTimes == TimesOK /\ Inv /\ sync_handler_master => TimesOK'
<1> SUFFICES ASSUME TimesOK, Inv, sync_handler_master PROVE TimesOK'
    OBVIOUS
<1> DEFINE p == [type |-> "sync", t1 |-> corr_trans(now), left |-> now]
<1>1. /\ UNCHANGED <<now, switch, up, txq, pending, service, steps, since>> /\ down' = Append(down, p)
    BY DEF sync_handler_master, writes
<1>2. p \in SyncPacket \cup RespPacket /\ down \in Seq(SyncPacket \cup RespPacket)
    BY DigitsTyped DEF Inv, ClocksTyped, PacketsTyped, SyncPacket
<1>3. DownOK(p) /\ p.type = "sync"
    BY DEF DownOK, TimesOK, ClocksOK
<1> HIDE DEF p
<1>4. Elems(down') \subseteq Elems(down) \cup {p}
    BY <1>1, <1>2, ElemsOfAppend
<1>5. ClocksOK' /\ PacketsOK'
    BY <1>1, <1>3, <1>4, PacketsCarry DEF switch
<1>6. Asked' => Asked
    BY <1>1, <1>3, <1>4 DEF Asked, Elems
<1>7. StampsOK(Local_ts_info)' /\ (Asked' => DelayOK(Local_ts_info)')
    BY <1>1, <1>6, ServiceCarry DEF switch, service
<1>8. RegisterOK'
    BY <1>1, RegisterCarry DEF switch
<1> QED BY <1>5, <1>7, <1>8 DEF TimesOK

\* A remainder is no more than the number.
LEMMA Remainder ==
    ASSUME NEW x \in Nat
    PROVE  /\ x % Timer \in 0 .. Timer - 1 /\ x % Timer <= x
           /\ (x < Timer => x % Timer = x)
           /\ (x = Timer => x % Timer = 0)
           /\ (x > 0 /\ x % Timer = 0 => Timer <= x)
<1>1. Timer \in Nat \ {0}
    BY SyncAssumption DEF SyncAssumption
<1>2. x \in Int /\ x >= 0
    OBVIOUS
<1>3. x % Timer \in 0 .. Timer - 1
    BY <1>1, <1>2, DivMod
<1>4. x < Timer => x % Timer = x
    BY <1>1
<1>5. x = Timer => x % Timer = 0
    BY <1>1
<1>6. ASSUME x > 0, x % Timer = 0 PROVE Timer <= x
    BY <1>1, <1>4, <1>6
<1> QED BY <1>1, <1>3, <1>4, <1>5, <1>6

\* What the switches count of a stay is no more than the time since the packet left; when
\* neither timer lost a period it is that time, but for the links and the cycle of a
\* timer that started again (output_control.v:379, host_output_interface.v:321).
LEMMA CorrCounts ==
    ASSUME TimesOK, NEW left \in Nat, NEW d \in LinkDelay, NEW kept \in Nat,
           NEW wrapped \in {0, 1}, Arrives(left, d, kept, wrapped)
    PROVE  /\ Corr(left, d, kept, wrapped) \in Nat /\ Corr(left, d, kept, wrapped) <= now
           /\ d + wrapped \in Uncounted /\ d + wrapped \in Nat
           /\ Counted(left, d, kept) =>
                /\ Corr(left, d, kept, wrapped) = now - left - (d + wrapped)
                /\ d + wrapped <= now
<1> DEFINE rest == Stay(left, d) - kept
<1>1. d \in Nat /\ now \in Nat /\ Timer \in Nat \ {0}
    BY SyncAssumption DEF SyncAssumption, TimesOK, ClocksOK
<1>2. rest \in Nat \ {0} /\ rest = now - left - d - kept
    BY <1>1 DEF Arrives, Stay
<1>3. Corr(left, d, kept, wrapped) = NetworkCount(kept, wrapped) + HostCount(rest)
    BY DEF Corr
<1>4. Counted(left, d, kept) <=> kept < Timer /\ rest <= Timer
    BY DEF Counted
<1> HIDE DEF rest
<1>5. NetworkCount(kept, wrapped) \in Nat /\ NetworkCount(kept, wrapped) <= kept
      /\ (kept < Timer => NetworkCount(kept, wrapped) = kept - wrapped)
      /\ (wrapped = 1 => kept > 0)
    <2>1. /\ kept % Timer \in 0 .. Timer - 1 /\ kept % Timer <= kept
          /\ (kept < Timer => kept % Timer = kept)
        BY Remainder
    <2>2. wrapped = 1 => kept % Timer > 0
        BY DEF Arrives
    <2> QED BY <1>1, <2>1, <2>2 DEF NetworkCount
<1>6. HostCount(rest) \in Nat /\ HostCount(rest) <= rest
      /\ (rest <= Timer => HostCount(rest) = rest)
    <2>1. /\ rest % Timer \in 0 .. Timer - 1 /\ rest % Timer <= rest
          /\ (rest < Timer => rest % Timer = rest)
          /\ (rest = Timer => rest % Timer = 0)
          /\ (rest > 0 /\ rest % Timer = 0 => Timer <= rest)
        BY <1>2, Remainder
    <2>2. rest <= Timer => rest < Timer \/ rest = Timer
        BY <1>1, <1>2
    <2> QED BY <1>1, <1>2, <2>1, <2>2 DEF HostCount
<1>7. d + wrapped \in Uncounted
    BY UncountedTyped
<1>8. d + wrapped <= now
    BY <1>1, <1>2, <1>5
<1> QED BY <1>1, <1>2, <1>3, <1>4, <1>5, <1>6, <1>7, <1>8

\* t4 - t3 - corr of the master: the delay, less what the slave's clock is ahead.
LEMMA ResponseIsOK ==
    ASSUME TimesOK, InRange, NEW req, UpOK(req), Fresh(req.at),
           NEW d \in LinkDelay, NEW kept \in Nat, NEW wrapped \in {0, 1},
           Arrives(req.left, d, kept, wrapped), Counted(req.left, d, kept),
           NEW t3, t3 = ts_sub(corr_trans(now),
                               ts_add(req.t3, corr_trans(Corr(req.left, d, kept, wrapped))))
    PROVE  Difference(t3) /\ \E e \in Uncounted : Span(t3) = e - Ahead
<1> DEFINE c == Corr(req.left, d, kept, wrapped)
           e == d + wrapped
           far == ts_add(req.t3, corr_trans(c))
<1>1. now \in Nat /\ req.left \in Nat /\ req.t3 \in Nat
    BY DEF TimesOK, ClocksOK, UpOK, Early
<1>2. c \in Nat /\ c <= now /\ e \in Nat /\ e \in Uncounted /\ c = now - req.left - e
    <2> DEFINE left == req.left
    <2>1. left \in Nat /\ Arrives(left, d, kept, wrapped) /\ Counted(left, d, kept)
        BY <1>1
    <2> HIDE DEF left
    <2>2. /\ Corr(left, d, kept, wrapped) \in Nat /\ Corr(left, d, kept, wrapped) <= now
          /\ e \in Uncounted /\ e \in Nat
          /\ Corr(left, d, kept, wrapped) = now - left - e
        BY ZenonT(60), <2>1, CorrCounts
    <2> QED BY <2>2 DEF left
<1> HIDE DEF c, e
<1>3. corr_trans(c) \in Nat /\ corr_trans(now) \in Nat /\ corr_trans(c) <= corr_trans(now)
    BY <1>1, <1>2, TransOrder
<1>4. /\ Plain(corr_trans(c)) = c /\ Legal(corr_trans(c))
      /\ Plain(corr_trans(now)) = now /\ Legal(corr_trans(now))
    BY <1>1, <1>2, TransIsTime
<1>5. Legal(req.t3) /\ Plain(req.t3) - req.left = Ahead /\ 4 * req.t3 + 4 * Digit < Top
    BY DEF UpOK, Early
<1>6. 4 * corr_trans(now) + 4 * Digit < Top
    BY DEF InRange
<1>7. req.t3 + corr_trans(c) + Digit < Word
    BY <1>1, <1>3, <1>5, <1>6, Sizes, WordBig
<1>8. Plain(far) = Plain(req.t3) + c /\ Legal(far)
    BY <1>1, <1>3, <1>4, <1>5, <1>7, AddIsSum
<1>9. far \in Nat /\ far <= req.t3 + corr_trans(c) + Digit
    BY <1>1, <1>3, <1>7, AddBound
<1> HIDE DEF far
<1>10. 2 * far + 2 * Digit < Top /\ 2 * corr_trans(now) + 2 * Digit < Top
    BY <1>1, <1>3, <1>5, <1>6, <1>9, Sizes
<1>11. t3 = ts_sub(corr_trans(now), far)
    BY DEF far, c
<1>12. Difference(t3) /\ Span(t3) = now - Plain(far)
    BY <1>3, <1>4, <1>8, <1>9, <1>10, <1>11, SubIsSpan
<1>13. Plain(req.t3) \in Int
    BY <1>1, <1>5, PlainOrder
<1>14. Span(t3) = e - Ahead
    BY <1>1, <1>2, <1>5, <1>8, <1>12, <1>13
<1> QED BY <1>2, <1>12, <1>14

\* The master answers: the response is worth the times of the request.
LEMMA DelayReqTimes ==
    ASSUME TimesOK, Inv, InRange, NEW d \in LinkDelay, NEW kept \in Nat, NEW wrapped \in {0, 1},
           delay_req_handler(d, kept, wrapped)
    PROVE  TimesOK'
<1> DEFINE req == Head(up)
           c == Corr(req.left, d, kept, wrapped)
           t3 == ts_sub(corr_trans(now), ts_add(req.t3, corr_trans(c)))
           at == IF Counted(req.left, d, kept) THEN req.at ELSE -1
           p == [type |-> "resp", at |-> at, t3 |-> t3]
<1>1. /\ UNCHANGED <<now, switch, txq, pending, service, steps, since>> /\ down' = Append(down, p)
      /\ up # <<>> /\ up' = Tail(up) /\ Arrives(req.left, d, kept, wrapped)
    BY DEF delay_req_handler, writes
<1>2. up \in Seq(Request) /\ down \in Seq(SyncPacket \cup RespPacket)
    BY DEF Inv, PacketsTyped
<1>3. req \in Elems(up) /\ Elems(Tail(up)) \subseteq Elems(up) /\ req \in Request
    BY <1>1, <1>2, ElemsOfTail
<1>4. UpOK(req)
    BY <1>3 DEF TimesOK, PacketsOK
<1>5. t3 \in Int
    <2>1. corr_trans(now) \in Int
        BY DigitsTyped DEF Inv, ClocksTyped
    <2>2. req.left \in Int /\ req.t3 \in Int
        BY <1>3 DEF Request
    <2>3. corr_trans(c) \in Int
        <3>1. c \in Int
            BY <2>2, CorrTyped
        <3> HIDE DEF c
        <3> QED BY <3>1, DigitsTyped
    <2>4. ts_add(req.t3, corr_trans(c)) \in Nat
        BY <2>2, <2>3, AddTyped
    <2> QED BY <2>1, <2>4, SubTyped
<1>6. Fresh(at) => Difference(t3) /\ \E e \in Uncounted : Span(t3) = e - Ahead
    <2> DEFINE r == req
               t == t3
    <2>1. ASSUME Fresh(at) PROVE Fresh(r.at) /\ Counted(r.left, d, kept)
        BY <2>1 DEF Fresh, TimesOK, ClocksOK
    <2>2. t = ts_sub(corr_trans(now), ts_add(r.t3, corr_trans(Corr(r.left, d, kept, wrapped))))
        OBVIOUS
    <2>3. Arrives(r.left, d, kept, wrapped) /\ UpOK(r)
        BY <1>1, <1>4
    <2> HIDE DEF r, t, at
    <2>4. Fresh(at) => Difference(t) /\ \E e \in Uncounted : Span(t) = e - Ahead
        BY <2>1, <2>2, <2>3, ResponseIsOK
    <2> QED BY <2>4 DEF t
<1>7. at \in Int /\ at <= steps /\ p \in SyncPacket \cup RespPacket
    <2>1. req.at \in Int /\ req.at <= steps /\ steps \in Nat
        BY <1>3, <1>4 DEF UpOK, TimesOK, ClocksOK, Request
    <2> QED BY <1>5, <2>1 DEF RespPacket
<1>8. DownOK(p)
    <2>1. p.at = at /\ p.t3 = t3 /\ p.type = "resp"
        OBVIOUS
    <2> HIDE DEF p, t3, req, at
    <2> QED BY <1>6, <1>7, <2>1 DEF DownOK
<1> HIDE DEF p, req
<1>9. Elems(down') \subseteq Elems(down) \cup {p}
    BY <1>1, <1>2, <1>7, ElemsOfAppend
<1>10. ClocksOK' /\ PacketsOK'
    BY <1>1, <1>3, <1>8, <1>9, PacketsCarry DEF switch
<1>11. Asked
    BY <1>1 DEF Asked
<1>12. StampsOK(Local_ts_info)' /\ (Asked' => DelayOK(Local_ts_info)')
    BY <1>1, <1>11, ServiceCarry DEF switch, service
<1>13. RegisterOK'
    BY <1>1, RegisterCarry DEF switch
<1> QED BY <1>10, <1>12, <1>13 DEF TimesOK

\* A lost packet.
LEMMA LoseTimes == TimesOK /\ Inv /\ (LoseDown \/ LoseUp) => TimesOK'
<1> SUFFICES ASSUME TimesOK, Inv, LoseDown \/ LoseUp PROVE TimesOK'
    OBVIOUS
<1>1. up \in Seq(Request) /\ down \in Seq(SyncPacket \cup RespPacket)
    BY DEF Inv, PacketsTyped
<1>2. /\ UNCHANGED <<now, switch, txq, pending, service, steps, since>>
      /\ Elems(down') \subseteq Elems(down) /\ Elems(up') \subseteq Elems(up)
      /\ up' # <<>> => up # <<>>
    BY <1>1, ElemsOfTail DEF LoseDown, LoseUp, writes
<1>3. ClocksOK' /\ PacketsOK'
    BY <1>2, PacketsCarry DEF switch
<1>4. Asked' => Asked
    BY <1>2 DEF Asked, Elems
<1>5. StampsOK(Local_ts_info)' /\ (Asked' => DelayOK(Local_ts_info)')
    BY <1>2, <1>4, ServiceCarry DEF switch, service
<1>6. RegisterOK'
    BY <1>2, RegisterCarry DEF switch
<1> QED BY <1>3, <1>5, <1>6 DEF TimesOK

\* A sync packet arrives: its times are those of the clock as it is now.
LEMMA SyncSlaveTimes ==
    ASSUME TimesOK, Inv, InRange, NEW d \in LinkDelay, NEW kept \in Nat, NEW wrapped \in {0, 1},
           sync_handler_slave(d, kept, wrapped)
    PROVE  TimesOK'
<1> DEFINE p == Head(down)
           c == Corr(p.left, d, kept, wrapped)
           at == IF Counted(p.left, d, kept) THEN steps ELSE -1
           i == [Local_ts_info EXCEPT !.t1 = p.t1, !.t2 = ov_syned_time, !.rorr1 = c, !.at = at]
           m == [type |-> "req"]
<1>1. /\ UNCHANGED <<now, switch, up, pending, steps, since>> /\ down' = Tail(down) /\ down # <<>>
      /\ p.type = "sync" /\ Arrives(p.left, d, kept, wrapped) /\ Local_ts_info' = i /\ Write(m)
    BY DEF sync_handler_slave
<1>2. down \in Seq(SyncPacket \cup RespPacket)
    BY DEF Inv, PacketsTyped
<1>3. p \in Elems(down) /\ Elems(Tail(down)) \subseteq Elems(down)
    BY <1>1, <1>2, ElemsOfTail
<1>4. p.left \in Nat /\ p.left <= now /\ p.t1 = corr_trans(p.left)
    BY <1>1, <1>3 DEF TimesOK, PacketsOK, DownOK
<1>5. /\ i.t1 = corr_trans(p.left) /\ i.t2 = ov_syned_time /\ i.rorr1 = c /\ i.at = at
    BY <1>4 DEF Inv, ServiceTyped
<1>6. m \in Order /\ m.type = "req"
    BY DEF Order
<1> HIDE DEF i, m, p
<1>7. Elems(txq') \subseteq Elems(txq) \cup {m}
    BY <1>1, <1>6, ElemsOfWrite
<1>8. OrderOK(m)
    BY <1>6 DEF OrderOK
<1>9. ClocksOK' /\ PacketsOK'
    BY <1>1, <1>3, <1>7, <1>8, PacketsCarry DEF switch
<1>10. now \in Nat /\ ov_syned_time \in Nat /\ steps \in Nat
    BY DEF TimesOK, ClocksOK
<1> DEFINE e == d + wrapped
<1>11. /\ c \in Nat /\ c <= now /\ e \in Uncounted /\ e \in Nat
       /\ Counted(p.left, d, kept) => c = now - p.left - e /\ e <= now
    BY <1>1, <1>4, CorrCounts
<1>12. at \in Nat \cup {-1} /\ at <= steps /\ (Fresh(at) => Counted(p.left, d, kept))
    BY <1>10 DEF Fresh
<1> HIDE DEF c, e, at
<1>13. /\ corr_trans(p.left) \in Nat /\ corr_trans(p.left) <= corr_trans(now)
       /\ corr_trans(c) \in Nat /\ corr_trans(c) <= corr_trans(now) /\ corr_trans(now) \in Nat
    BY <1>4, <1>10, <1>11, TransOrder
<1>14. Plain(corr_trans(p.left)) = p.left /\ Legal(corr_trans(p.left))
    BY <1>4, TransIsTime
<1>15. StampsOK(i)
    BY <1>5, <1>10, <1>11, <1>12, <1>13, <1>14, Sizes DEF StampsOK, Early, InRange
<1>16. DelayOK(i)
    <2> SUFFICES ASSUME Fresh(at)
                 PROVE  /\ Legal(ov_syned_time) /\ e <= now
                        /\ Plain(ov_syned_time) - Plain(corr_trans(p.left)) - c = Ahead + e
        BY <1>5, <1>11 DEF DelayOK
    <2>1. Legal(ov_syned_time)
        BY DEF Fresh
    <2>2. Plain(ov_syned_time) \in Int
        BY <1>10, <2>1, PlainOrder
    <2> QED BY <1>4, <1>10, <1>11, <1>12, <1>14, <2>1, <2>2 DEF Ahead
<1>17. \A x : x = Local_ts_info' => StampsOK(x)' /\ DelayOK(x)'
    <2>1. \A x : (StampsOK(x)' <=> StampsOK(x)) /\ (DelayOK(x)' <=> DelayOK(x))
        BY <1>1, SameClocks DEF switch
    <2>2. \A x : x = i => StampsOK(x)' /\ DelayOK(x)'
        BY <1>15, <1>16, <2>1
    <2> QED BY <1>1, <2>2
<1>18. StampsOK(Local_ts_info)' /\ DelayOK(Local_ts_info)'
    BY <1>17 DEF StampsOK, DelayOK, Fresh
<1>19. RegisterOK'
    BY <1>1, RegisterCarry DEF switch
<1> QED BY <1>9, <1>18, <1>19 DEF TimesOK

\* The offset that a response makes of fresh times.
LEMMA OffsetBrings ==
    ASSUME TimesOK, InRange, Digit - Low <= 3,
           NEW i, StampsOK(i), DelayOK(i), Fresh(i.at),
           NEW t3, Difference(t3), NEW e \in Uncounted, Span(t3) = e - Ahead,
           NEW t4, t4 = ts_sub(i.t2, ts_add(i.t1, corr_trans(i.rorr1))),
           NEW new, new = ts_compute(t4, t3)
    PROVE  Brings(Signed(new.flag, new.offset))
<1> DEFINE c == corr_trans(i.rorr1)
           far == ts_add(i.t1, c)
<1>1. /\ i.t1 \in Nat /\ 4 * i.t1 + 4 * Digit < Top /\ Legal(i.t1) /\ i.rorr1 \in Nat
      /\ c \in Nat /\ 4 * c + 4 * Digit < Top /\ i.t2 \in Nat /\ 4 * i.t2 + 4 * Digit < Top
    BY DEF StampsOK, Early
<1>2. Plain(c) = i.rorr1 /\ Legal(c)
    BY <1>1, TransIsTime
<1>3. PICK d \in Uncounted : /\ d <= now /\ Legal(i.t2)
                             /\ Plain(i.t2) - Plain(i.t1) - i.rorr1 = Ahead + d
    BY DEF DelayOK
<1> HIDE DEF c
<1>4. i.t1 + c + Digit < Word
    BY <1>1, Sizes, WordBig
<1>5. /\ Plain(far) = Plain(i.t1) + i.rorr1 /\ Legal(far)
      /\ far \in Nat /\ far <= i.t1 + c + Digit
    BY <1>1, <1>2, <1>4, AddIsSum, AddBound
<1> HIDE DEF far
<1>6. 2 * far + 2 * Digit < Top /\ 2 * i.t2 + 2 * Digit < Top
    BY <1>1, <1>5, Sizes
<1>7. t4 = ts_sub(i.t2, far)
    BY DEF far, c
<1>8. Difference(t4) /\ Span(t4) = Plain(i.t2) - Plain(far)
    BY <1>1, <1>3, <1>5, <1>6, <1>7, SubIsSpan
<1>9. Plain(i.t2) \in Int /\ Plain(i.t1) \in Int /\ Plain(far) \in Int
    BY <1>1, <1>3, <1>5, PlainOrder
<1>10. PICK size \in Nat, flag \in {0, 1} :
        /\ new = [flag |-> flag, offset |-> size \div 2] /\ size < Top /\ Legal(size)
        /\ Plain(size) = IF flag = 0 THEN Span(t4) - Span(t3) ELSE Span(t3) - Span(t4)
    BY <1>8, ComputeIsHalf
<1> DEFINE o == size \div 2
<1>11. /\ o \in Nat /\ 2 * o <= size /\ Plain(o) \in Int /\ Lo(o) <= Low + 1
       /\ Plain(size) - 2 * Plain(o) \in -3 .. 1
    BY <1>10, HalfIsHalf
<1>12. new.flag = flag /\ new.offset = o
    BY <1>10
<1> HIDE DEF o
<1>13. e \in Nat /\ d \in Nat /\ now \in Nat /\ Ahead \in Int
    <2>1. Legal(ov_syned_time) /\ ov_syned_time \in Nat /\ now \in Nat
        BY DEF Fresh, TimesOK, ClocksOK
    <2>2. Plain(ov_syned_time) \in Int
        BY <2>1, PlainOrder
    <2> QED BY <2>1, <2>2, UncountedTyped DEF Ahead
<1>14. Span(t4) = Ahead + d
    BY <1>1, <1>3, <1>5, <1>8, <1>9, <1>13
<1> DEFINE u == e - d
<1>15. u \in Uncertainty /\ u \in Int /\ -u <= now
    BY <1>3, <1>13 DEF Uncertainty
<1>16. 2 * o < Top
    BY <1>10, <1>11, Sizes
<1>17. CASE flag = 0
    <2>1. Plain(size) = 2 * Ahead - u
        BY <1>10, <1>13, <1>14, <1>17
    <2>2. 2 * (Ahead - Plain(o)) - u \in -3 .. 3
        BY <1>11, <1>13, <1>15, <2>1
    <2>3. Signed(new.flag, new.offset) = Top + o
        BY <1>11, <1>12, <1>16, <1>17, Sizes DEF Signed
    <2> HIDE DEF u
    <2> QED BY <1>11, <1>15, <1>16, <2>2, <2>3 DEF Brings
<1>18. CASE flag = 1
    <2>1. Plain(size) = u - 2 * Ahead
        BY <1>10, <1>13, <1>14, <1>18
    <2>2. 2 * (Ahead + Plain(o)) - u \in -3 .. 3
        BY <1>11, <1>13, <1>15, <2>1
    <2>3. Signed(new.flag, new.offset) = o
        BY <1>11, <1>12, <1>16, <1>18, Sizes DEF Signed
    <2> HIDE DEF u
    <2> QED BY <1>11, <1>15, <1>16, <2>2, <2>3 DEF Brings
<1> QED BY <1>17, <1>18

\* A response arrives: the offset that it orders has the stamp of the sync packet only
\* when the response has the same.
LEMMA DelayRespTimes ==
    ASSUME TimesOK, Inv, InRange, Digit - Low <= 3, delay_resp_handler_1
    PROVE  TimesOK'
<1> DEFINE p == Head(down)
           info == Local_ts_info
           t4 == ts_sub(info.t2, ts_add(info.t1, corr_trans(info.rorr1)))
           new == ts_compute(t4, p.t3)
           guide == Guide(new.flag, new.offset)
           at == IF p.at = info.at THEN info.at ELSE -1
           first == Offset(new.flag, new.offset, at)
           third == Offset(guide.flag, GuideOffset(new.flag, guide.sum), -1)
<1>1. down # <<>> /\ down \in Seq(SyncPacket \cup RespPacket) /\ p.type = "resp"
    BY Zenon DEF delay_resp_handler_1, Inv, PacketsTyped
<1>2. p \in Elems(down) /\ Elems(Tail(down)) \subseteq Elems(down)
    BY <1>1, ElemsOfTail
<1>3. DownOK(p) /\ p \in RespPacket
    <2>1. p \in SyncPacket \cup RespPacket
        BY <1>1, HeadTailProperties
    <2>2. p \in RespPacket
        BY <1>1, <2>1 DEF SyncPacket
    <2> QED BY <1>2, <2>2 DEF TimesOK, PacketsOK
<1>4. Asked
    BY <1>1, <1>2 DEF Asked
<1>5. StampsOK(info) /\ DelayOK(info)
    BY <1>4 DEF TimesOK
<1>6. p.at \in Int /\ p.t3 \in Int /\ info.at \in Nat \cup {-1} /\ info.at <= steps /\ steps \in Nat
    BY <1>3, <1>5 DEF RespPacket, StampsOK, TimesOK, ClocksOK
<1>7. new \in [flag : {0, 1}, offset : Nat]
    <2>1. info.t1 \in Int /\ info.t2 \in Int /\ info.rorr1 \in Int
        BY DEF Inv, ServiceTyped
    <2>2. corr_trans(info.rorr1) \in Int
        BY <2>1, DigitsTyped
    <2>3. ts_add(info.t1, corr_trans(info.rorr1)) \in Nat
        BY <2>1, <2>2, AddTyped
    <2>4. t4 \in Int
        <3> DEFINE far == ts_add(info.t1, corr_trans(info.rorr1))
        <3>1. far \in Int
            BY <2>3
        <3> HIDE DEF far
        <3>2. ts_sub(info.t2, far) \in Nat
            BY <2>1, <3>1, SubTyped
        <3> QED BY <3>2 DEF far
    <2> HIDE DEF t4, p
    <2> QED BY <1>6, <2>4, ComputeTyped
<1>8. at \in Int /\ at <= steps /\ (Fresh(at) => at = info.at /\ p.at = info.at)
    BY <1>6 DEF Fresh
<1>9. ASSUME Fresh(at) PROVE Brings(Signed(new.flag, new.offset))
    <2>1. Fresh(info.at) /\ Fresh(p.at)
        BY <1>8, <1>9
    <2>2. Difference(p.t3) /\ \E d \in Uncounted : Span(p.t3) = d - Ahead
        BY <1>1, <1>3, <2>1 DEF DownOK
    <2>3. PICK d \in Uncounted : Span(p.t3) = d - Ahead
        BY <2>2
    <2> DEFINE t3 == p.t3
    <2>4. Difference(t3) /\ Span(t3) = d - Ahead /\ new = ts_compute(t4, t3)
        BY <2>2, <2>3
    <2>5. t4 = ts_sub(info.t2, ts_add(info.t1, corr_trans(info.rorr1)))
        OBVIOUS
    <2> HIDE DEF t3, new, t4
    <2> QED BY <1>5, <2>1, <2>4, <2>5, OffsetBrings
<1>10. new.flag \in {0, 1} /\ new.offset \in Nat
    BY <1>7
<1>11. guide.flag \in {0, 1} /\ guide.sum \in Nat
    <2> HIDE DEF new
    <2>1. guide \in [flag : {0, 1}, sum : Nat]
        BY <1>10, GuideTyped
    <2> QED BY <2>1
<1> HIDE DEF new, guide, at
<1>12. OrderOK(first) /\ first.type = "offset" /\ first \in Order
    <2>1. first.type = "offset" /\ first.at = at /\ first.value = Signed(new.flag, new.offset)
        BY DEF Offset
    <2>2. first \in Order
        BY <1>8, <1>10, OrdersTyped
    <2> HIDE DEF first
    <2> QED BY <1>8, <1>9, <2>1, <2>2 DEF OrderOK
<1>13. OrderOK(third) /\ third.type = "offset" /\ third \in Order
    <2>1. third.type = "offset" /\ third.at = -1
        BY DEF Offset
    <2>2. GuideOffset(new.flag, guide.sum) \in Int /\ -1 \in Int
        BY DEF GuideOffset
    <2>3. third \in Order
        BY <1>11, <2>2, OrdersTyped
    <2> HIDE DEF third
    <2>4. ~Fresh(-1) /\ -1 <= steps
        BY <1>6 DEF Fresh
    <2> QED BY <2>1, <2>3, <2>4 DEF OrderOK
<1>14. ASSUME NEW x \in Int
       PROVE  OrderOK(Period(x)) /\ Period(x).type = "period" /\ Period(x) \in Order
    <2>1. Period(x) \in Order
        <3>1. 0 \in {0, 1} /\ 0 \in Int
            OBVIOUS
        <3> QED BY <3>1, OrdersTyped
    <2> QED BY <2>1 DEF Period, OrderOK
<1>15. Frequency(guide.sum) \in Int /\ 0 \in Int
    BY <1>11, FrequencyTyped
<1> DEFINE a == Period(0)
           b == Period(Frequency(guide.sum))
<1>16. /\ OrderOK(a) /\ a.type = "period" /\ a \in Order
       /\ OrderOK(b) /\ b.type = "period" /\ b \in Order
    BY SMTT(30), <1>14, <1>15
<1>17. /\ offset_seq' = offset_seq + 1 /\ down' = Tail(down)
       /\ UNCHANGED <<now, switch, up, txq, sent, steps, since>>
       /\ pending' = <<first, a>> \/ pending' = <<first, a>> \o <<third, b>>
       /\ \/ Local_ts_info' = [info EXCEPT !.offset = new.offset, !.offset_flag = new.flag]
          \/ Local_ts_info' = [info EXCEPT !.offset = new.offset, !.offset_flag = new.flag,
                                           !.guide_offset_flag = guide.flag]
    BY Zenon DEF delay_resp_handler_1, new, guide, at, Now
<1> HIDE DEF first, third, a, b, p
<1>18. \A m \in Elems(pending') : OrderOK(m) /\ m.type # "req"
    <2>1. Elems(pending') \subseteq {first, a, third, b}
        BY <1>12, <1>13, <1>16, <1>17, ElemsOfPairs
    <2> QED BY <1>12, <1>13, <1>16, <2>1
<1>19. ClocksOK' /\ PacketsOK'
    BY <1>2, <1>17, <1>18, PacketsCarry DEF switch
<1>20. /\ Local_ts_info'.t1 = Local_ts_info.t1 /\ Local_ts_info'.t2 = Local_ts_info.t2
       /\ Local_ts_info'.rorr1 = Local_ts_info.rorr1 /\ Local_ts_info'.at = Local_ts_info.at
    BY <1>17 DEF Inv, ServiceTyped
<1>21. StampsOK(Local_ts_info)' /\ (Asked' => DelayOK(Local_ts_info)')
    BY <1>4, <1>17, <1>20, ServiceCarry DEF switch
<1>22. RegisterOK'
    BY <1>17, RegisterCarry DEF switch
<1> QED BY SMTT(30), <1>19, <1>21, <1>22 DEF TimesOK

\* The next of the messages goes into the queue or is dropped.
LEMMA WriteNextTimes == TimesOK /\ Inv /\ WriteNext => TimesOK'
<1> SUFFICES ASSUME TimesOK, Inv, WriteNext PROVE TimesOK'
    OBVIOUS
<1> DEFINE m == Head(pending)
<1>1. /\ pending # <<>> /\ pending \in Seq(Order) /\ pending' = Tail(pending) /\ Write(m)
      /\ UNCHANGED <<now, switch, down, up, service, sent, steps, since>>
    BY DEF WriteNext, Inv, PacketsTyped
<1>2. m \in Order /\ m \in Elems(pending) /\ Elems(pending') \subseteq Elems(pending)
    BY <1>1, ElemsOfTail
<1> HIDE DEF m
<1>3. OrderOK(m) /\ m.type # "req"
    BY <1>2 DEF TimesOK, PacketsOK
<1>4. Elems(txq') \subseteq Elems(txq) \cup {m}
    BY <1>1, <1>2, ElemsOfWrite
<1>5. ClocksOK' /\ PacketsOK'
    BY <1>1, <1>2, <1>3, <1>4, PacketsCarry DEF switch
<1>6. Asked' => Asked
    BY <1>1, <1>3, <1>4 DEF Asked
<1>7. StampsOK(Local_ts_info)' /\ (Asked' => DelayOK(Local_ts_info)')
    BY <1>1, <1>6, ServiceCarry DEF switch, service
<1>8. RegisterOK'
    BY <1>1, RegisterCarry DEF switch
<1> QED BY <1>5, <1>7, <1>8 DEF TimesOK

\* The slave's switch takes a request, an offset or a period from the queue.
LEMMA SwitchTimes == TimesOK /\ Inv /\ InRange /\ SwitchStep => TimesOK'
<1> SUFFICES ASSUME TimesOK, Inv, InRange, SwitchStep PROVE TimesOK'
    OBVIOUS
<1>1. /\ txq # <<>> /\ txq \in Seq(Order) /\ (txq' = Tail(txq) \/ txq' = txq)
      /\ UNCHANGED <<now, ov_syned_time, steps, down, pending, service>>
      /\ SetOffset => Head(txq).type = "offset"
    <2>1. txq \in Seq(Order) /\ (half => txq # <<>> /\ Head(txq).type = "offset")
        BY DEF Inv, PacketsTyped, Parsing
    <2>2. CASE StampRequest
        BY <2>1, <2>2 DEF StampRequest, SetOffset, switch
    <2>3. CASE SetOffsetLow
        BY <2>1, <2>3 DEF SetOffsetLow, SetOffset, writes
    <2>4. CASE SetOffset
        BY <2>1, <2>4 DEF SetOffset
    <2>5. CASE SetPeriod
        BY <2>1, <2>5 DEF SetPeriod, SetOffset
    <2> QED BY <2>2, <2>3, <2>4, <2>5 DEF SwitchStep
<1>2. Head(txq) \in Elems(txq) /\ Elems(txq') \subseteq Elems(txq) /\ Head(txq) \in Order
    <2>1. txq # <<>> /\ txq \in Seq(Order) /\ (txq' = Tail(txq) \/ txq' = txq)
        BY <1>1
    <2>2. Head(txq) \in Elems(txq) /\ Elems(Tail(txq)) \subseteq Elems(txq)
        BY <2>1, ElemsOfTail
    <2>3. Head(txq) \in Order
        BY <2>1, HeadTailProperties
    <2> QED BY <2>1, <2>2, <2>3
<1>3. OrderOK(Head(txq))
    BY <1>2 DEF TimesOK, PacketsOK
<1>4. CASE StampRequest
    <2> DEFINE r == [t3 |-> ov_syned_time, left |-> now, at |-> steps]
    <2>1. /\ Head(txq).type = "req" /\ up' = Append(up, r)
          /\ UNCHANGED <<now, switch, down, service, sent, steps, since>>
        BY <1>4 DEF StampRequest
    <2>2. r \in Request /\ up \in Seq(Request)
        BY DEF Inv, ClocksTyped, PacketsTyped, Request
    <2>3. UpOK(r)
        <3>1. now \in Nat /\ ov_syned_time \in Nat /\ steps \in Nat
            BY DEF TimesOK, ClocksOK
        <3> QED BY <3>1 DEF UpOK, InRange, Early, Fresh, Ahead
    <2> HIDE DEF r
    <2>4. Elems(up') \subseteq Elems(up) \cup {r}
        BY <2>1, <2>2, ElemsOfAppend
    <2>5. ClocksOK' /\ PacketsOK'
        BY <1>1, <1>2, <2>3, <2>4, PacketsCarry
    <2>6. Asked
        BY <1>2, <2>1 DEF Asked
    <2>7. StampsOK(Local_ts_info)' /\ (Asked' => DelayOK(Local_ts_info)')
        BY <1>1, <2>6, ServiceCarry DEF service
    <2>8. RegisterOK'
        BY <2>1, RegisterCarry DEF switch
    <2> QED BY <2>5, <2>7, <2>8 DEF TimesOK
<1>5. CASE SetOffsetLow \/ SetOffset \/ SetPeriod
    <2>1. up' = up
        BY <1>5 DEF SetOffsetLow, SetOffset, SetPeriod
    <2>2. ClocksOK' /\ PacketsOK'
        BY <1>1, <1>2, <2>1, PacketsCarry
    <2>3. Asked' => Asked
        BY <1>1, <1>2, <2>1 DEF Asked, Elems
    <2>4. StampsOK(Local_ts_info)' /\ (Asked' => DelayOK(Local_ts_info)')
        BY <1>1, <2>3, ServiceCarry DEF service
    <2>5. RegisterOK'
        <3>1. CASE SetPeriod
            <4>1. UNCHANGED <<now, ov_syned_time, steps, since, i_time_offset_wr, iv_time_offset>>
                BY <3>1 DEF SetPeriod
            <4> QED BY <4>1, RegisterCarry
        <3>2. CASE SetOffset
            <4> DEFINE m == Head(txq)
            <4>1. m.type = "offset" /\ iv_time_offset' = m.value /\ since' = m.at
                BY <1>1, <3>2 DEF SetOffset
            <4>2. m.at \in Int /\ m.at <= steps /\ (Fresh(m.at) => Brings(m.value))
                BY <1>2, <1>3, <4>1 DEF OrderOK, Order
            <4> HIDE DEF m
            <4>3. /\ \A v : Brings(v)' <=> Brings(v)
                  /\ \A at : Fresh(at)' <=> Fresh(at)
                  /\ Ahead' = Ahead
                BY <1>1, SameClocks
            <4>4. Fresh(since)' => Fresh(m.at)
                BY <1>1, <4>1 DEF Fresh
            <4>5. Brings(m.value) => Brings(iv_time_offset)'
                BY <1>1, <4>1, <4>3 DEF Brings
            <4> QED BY <1>1, <4>1, <4>2, <4>4, <4>5 DEF RegisterOK
        <3>3. CASE SetOffsetLow
            <4>1. ~i_time_offset_wr' /\ since' = -1 /\ steps' = steps /\ steps \in Nat
                BY <3>3 DEF SetOffsetLow, TimesOK, ClocksOK
            <4> QED BY <4>1 DEF RegisterOK
        <3> QED BY <1>5, <3>1, <3>2, <3>3
    <2> QED BY <2>2, <2>4, <2>5 DEF TimesOK
<1> QED BY <1>4, <1>5 DEF SwitchStep

\* TimesOK is kept by every step that starts with clocks in range.
LEMMA NextTimes ==
    ASSUME TimesOK, Inv, InRange, Digit - Low <= 3, [Next]_vars
    PROVE  TimesOK'
<1>1. CASE Tick
    BY <1>1, TickTimes
<1>2. CASE sync_handler_master
    BY <1>2, SyncMasterTimes
<1>3. CASE LoseDown \/ LoseUp
    BY <1>3, LoseTimes
<1>4. ASSUME NEW d \in LinkDelay, NEW kept \in 0 .. MaxNow, NEW wrapped \in {0, 1},
             delay_req_handler(d, kept, wrapped) \/ sync_handler_slave(d, kept, wrapped)
      PROVE  TimesOK'
    <2>1. kept \in Nat
        OBVIOUS
    <2> QED BY <1>4, <2>1, DelayReqTimes, SyncSlaveTimes
<1>5. CASE delay_resp_handler_1
    BY <1>5, DelayRespTimes
<1>6. CASE WriteNext
    BY <1>6, WriteNextTimes
<1>7. CASE SwitchStep
    BY <1>7, SwitchTimes
<1>8. CASE UNCHANGED vars
    <2>1. UNCHANGED <<now, switch, down, up, txq, pending, service, sent, steps, since>>
        BY <1>8 DEF vars, writes
    <2>2. ClocksOK' /\ PacketsOK'
        BY <2>1, PacketsCarry DEF switch
    <2>3. Asked' => Asked
        BY <2>1 DEF Asked, Elems
    <2>4. StampsOK(Local_ts_info)' /\ (Asked' => DelayOK(Local_ts_info)')
        BY <2>1, <2>3, ServiceCarry DEF switch, service
    <2>5. RegisterOK'
        BY <2>1, RegisterCarry DEF switch
    <2> QED BY <2>2, <2>4, <2>5 DEF TimesOK
<1> QED BY <1>1, <1>2, <1>3, <1>4, <1>5, <1>6, <1>7, <1>8 DEF Next, SwitchStep

\* A cycle that applies an offset which brings the clock to the master's does so.
LEMMA OffsetApplied ==
    ASSUME TimesOK, Inv, InRange, Tick, i_time_offset_wr, Fresh(since)
    PROVE  \E u \in Uncertainty : 2 * Ahead' - u \in -3 .. 3
<1> DEFINE s == ov_syned_time
<1>1. /\ s \in Nat /\ now \in Nat /\ Legal(s) /\ 4 * s + 4 * Digit < Top /\ now >= 3
      /\ s + Digit < Top
    BY Sizes DEF TimesOK, ClocksOK, Fresh, InRange
<1>2. now' = now + 1 /\ ov_syned_time' = Adjusted(s, iv_time_offset)
    BY DEF Tick, Adjusting
<1>3. Plain(s) \in Nat /\ Ahead = Plain(s) - now
    BY <1>1, PlainOrder DEF Ahead
<1>4. PICK o \in Nat, u \in Uncertainty :
        /\ 2 * o < Top /\ Lo(o) <= Low + 1 /\ -u <= now
        /\ \/ iv_time_offset = o /\ 2 * (Ahead + Plain(o)) - u \in -3 .. 3
           \/ iv_time_offset = Top + o /\ 2 * (Ahead - Plain(o)) - u \in -3 .. 3
    BY DEF TimesOK, RegisterOK, Brings
<1>5. u \in Int
    BY UncountedTyped
<1>6. Plain(o) \in Nat
    <2>1. PICK h \in Nat, l \in 0 .. Digit - 1 : Plain(o) = h * Low + l
        BY Split
    <2> QED BY <2>1, Sizes
<1>7. Ahead' = Plain(ov_syned_time') - now'
    BY DEF Ahead
<1>8. CASE iv_time_offset = o /\ 2 * (Ahead + Plain(o)) - u \in -3 .. 3
    <2>1. s + o + Digit < Top
        BY <1>1, <1>4, Sizes
    <2>2. Plain(ov_syned_time') = Plain(s) + Plain(o) + 1
        BY <1>1, <1>2, <1>8, <2>1, OffsetAdded
    <2>3. Ahead' = Ahead + Plain(o)
        BY <1>1, <1>2, <1>3, <1>6, <1>7, <2>2
    <2>4. 2 * Ahead' - u \in -3 .. 3
        BY <1>8, <2>3
    <2> QED BY <2>4
<1>9. CASE iv_time_offset = Top + o /\ 2 * (Ahead - Plain(o)) - u \in -3 .. 3
    <2>1. Plain(o) <= Plain(s)
        BY <1>1, <1>3, <1>4, <1>5, <1>6, <1>9
    <2>2. Plain(ov_syned_time') = Plain(s) - Plain(o) + 1
        BY <1>1, <1>2, <1>4, <1>9, <2>1, OffsetTakenOff
    <2>3. Ahead' = Ahead - Plain(o)
        BY <1>1, <1>2, <1>3, <1>6, <1>7, <2>2
    <2>4. 2 * Ahead' - u \in -3 .. 3
        BY <1>9, <2>3
    <2> QED BY <2>4
<1> QED BY <1>4, <1>8, <1>9

\* The action of SyncStep.
Synchronized ==
    i_time_offset_wr /\ ~i_time_offset_wr' /\ since = steps /\ Legal(ov_syned_time)
    => \E u \in Uncertainty : 2 * Ahead' - u \in -3 .. 3

LEMMA StepSynchronizes ==
    ASSUME TimesOK, Inv, InRange, [Next]_vars
    PROVE  [Synchronized]_vars
<1> SUFFICES ASSUME i_time_offset_wr, ~i_time_offset_wr', since = steps, Legal(ov_syned_time)
             PROVE  \E u \in Uncertainty : 2 * Ahead' - u \in -3 .. 3
    BY SMTT(30) DEF Synchronized
<1>1. Tick
    BY Zenon DEF Next, vars, switch, sync_handler_master, LoseDown, LoseUp, delay_req_handler,
           sync_handler_slave, delay_resp_handler_1, WriteNext, StampRequest, SetOffsetLow,
           SetOffset, SetPeriod
<1> QED BY <1>1, OffsetApplied DEF Fresh

\* An offset that the slave computed from times of its clock as it now is brings the
\* clock to the master's, up to half the difference of what is in no correction field and
\* the rounding (delay_resp_handler_1 and ts_compute of ptp.c, global_time_sync.v):
\* for every timer and link, whichever packets and register values are lost and exchanges
\* overlap.  Packets that a switch kept for more than a period of its timer give no such
\* offset: what is counted of their stay is too little (output_control.v:378,
\* host_output_interface.v:321).  The clocks are in range at every step, and a digit holds
\* at most three cycles more than the clock counts (the code: 128 and 125).
THEOREM OffsetSynchronizes ==
    ASSUME Digit - Low <= 3
    PROVE  Spec /\ []InRange => SyncStep
<1>1. Init /\ InRange => Inv /\ TimesOK
    BY InitInv, InitTimes
<1>2. Inv /\ TimesOK /\ InRange /\ [Next]_vars => Inv' /\ TimesOK'
    BY NextInv, NextTimes
<1>3. Inv /\ TimesOK /\ InRange /\ [Next]_vars => [Synchronized]_vars
    BY StepSynchronizes
<1>4. SyncStep <=> [][Synchronized]_vars
    BY DEF SyncStep, Synchronized
<1> QED BY <1>1, <1>2, <1>3, <1>4, PTL DEF Spec
-----------------------------------------------------------------------------
(* The types                                                                 *)

\* ts_sub never exceeds the larger time, whatever the digits: a digit that the clock does
\* not count makes the borrowed digit negative, which wraps and carries back.
LEMMA SizeBound ==
    ASSUME NEW a \in Nat, NEW b \in Nat, a >= b, a < Word, NEW size,
           size = IF Lo(a) >= Lo(b) THEN a - b
                  ELSE ts_add(U64(Lo(a) + Low - Lo(b)), U64(Hi(a) - Digit - Hi(b)))
    PROVE  size \in 0 .. a
<1>1. PICK h1 \in Nat, l1 \in 0 .. Digit - 1 :
        a = Digit * h1 + l1 /\ Lo(a) = l1 /\ Hi(a) = h1 * Digit
    BY Split
<1>2. PICK h2 \in Nat, l2 \in 0 .. Digit - 1 :
        b = Digit * h2 + l2 /\ Lo(b) = l2 /\ Hi(b) = h2 * Digit
    BY Split
<1>3. CASE l1 >= l2
    BY <1>1, <1>2, <1>3, Sizes
<1>4. CASE l1 < l2
    <2> DEFINE x == l1 + Low - l2
               y == h1 * Digit - Digit - h2 * Digit
    <2>1. h1 >= h2 + 1
        <3>1. Digit * h1 > Digit * h2
            BY <1>1, <1>2, <1>4, Sizes
        <3> QED BY <3>1, Sizes
    <2>2. h1 - h2 - 1 \in Nat /\ y = Digit * (h1 - h2 - 1) + 0 /\ y \in Nat /\ y < Word
        BY <1>1, <2>1, Sizes
    <2>3. x \in Int /\ x < Low /\ x > Low - Digit /\ y + x = a - b - Digit + Low
        BY <1>1, <1>2, <1>4, Sizes
    <2> HIDE DEF x, y
    <2>4. U64(y) = y
        <3>1. y \in 0 .. Word - 1
            BY <2>2, Sizes
        <3> QED BY <3>1, SmallU64
    <2>5. Lo(y) = 0 /\ Hi(y) = y
        <3>1. 0 \in 0 .. Digit - 1
            BY Sizes
        <3>2. Lo(y) = 0 /\ Hi(y) = (h1 - h2 - 1) * Digit
            BY <2>2, <3>1, Parts
        <3> QED BY <2>2, <3>2, Sizes
    <2>6. size = ts_add(U64(x), y)
        BY <1>1, <1>2, <1>4, <2>4 DEF x, y
    <2>7. CASE x >= 0
        <3>1. x \in 0 .. Digit - 1 /\ x \in 0 .. Word - 1 /\ x = Digit * 0 + x
            BY <2>3, <2>7, Sizes, WordBig
        <3>2. U64(x) = x /\ Lo(x) = x /\ Hi(x) = 0 * Digit
            BY <3>1, SmallU64, Parts
        <3>3. ts_add(x, y) = U64(y + x)
            BY <2>2, <2>3, <2>5, <3>1, <3>2, Sizes DEF ts_add
        <3> DEFINE z == y + x
        <3>4. z \in 0 .. a /\ z \in 0 .. Word - 1
            BY <1>1, <1>2, <2>2, <2>3, <2>7, Sizes
        <3> HIDE DEF z
        <3>5. U64(z) = z
            BY <3>4, SmallU64
        <3> QED BY <2>6, <3>2, <3>3, <3>4, <3>5 DEF z
    <2>8. CASE x < 0
        <3>1. PICK n \in Int : Word = Digit * n
            <4> DEFINE m == Top \div Digit
                       w == Word \div Top
            <4>1. Top % Digit = 0 /\ Word % Top = 0
                BY TimeAssumption DEF TimeAssumption
            <4>2. m \in Int /\ Top = Digit * m + (Top % Digit) /\ w \in Int /\ Word = Top * w + (Word % Top)
                BY Sizes, DivMod
            <4> HIDE DEF m, w
            <4>3. Word = Digit * m * w
                BY <4>1, <4>2, Sizes
            <4>4. Digit * m * w = Digit * (m * w) /\ m * w \in Int
                BY <4>2, Sizes
            <4> QED BY <4>3, <4>4
        <3> DEFINE v == Word + x
                   e == Digit + x
        <3>2. v \in 0 .. Word - 1 /\ e \in 0 .. Digit - 1 /\ e > Low - 1
            BY <2>3, <2>8, Sizes, WordBig
        <3>3. v = Digit * (n - 1) + e /\ n - 1 \in Int
            BY <2>3, <3>1, Sizes
        <3>4. U64(x) = v
            BY <2>3, <2>8, Sizes, WordBig DEF U64
        <3> HIDE DEF v, e
        <3>5. Lo(v) = e /\ Hi(v) = (n - 1) * Digit
            <4>1. v \in Int
                BY <3>2
            <4> QED BY <3>2, <3>3, <4>1, Parts
        <3>6. ts_add(v, y) = U64((n - 1) * Digit + y + (Digit + e - Low))
            BY <2>2, <2>5, <3>2, <3>5, Sizes DEF ts_add
        <3> DEFINE z == a - b
        <3>7. (n - 1) * Digit + y + (Digit + e - Low) = Word + z
            BY <2>2, <2>3, <3>1, Sizes DEF e
        <3>8. z \in 0 .. a /\ z \in 0 .. Word - 1
            BY Sizes
        <3> HIDE DEF z
        <3>9. U64(Word + z) = z
            BY <3>8, Sizes DEF U64
        <3> QED BY <2>6, <3>4, <3>6, <3>7, <3>8, <3>9
    <2> QED BY <2>3, <2>7, <2>8
<1> QED BY <1>1, <1>2, <1>3, <1>4

\* A measured difference that may have a digit which the clock does not count: only its
\* size is known.
Small(t) == t \in Nat /\ Mag(t) \in Nat /\ 2 * Mag(t) + 2 * Digit < Top

LEMMA SubSmall ==
    ASSUME NEW u1 \in Nat, NEW u2 \in Nat, 2 * u1 + 2 * Digit < Top, 2 * u2 + 2 * Digit < Top
    PROVE  Small(ts_sub(u1, u2))
<1> DEFINE Size(a, b) ==
            IF Lo(a) >= Lo(b) THEN a - b
            ELSE ts_add(U64(Lo(a) + Low - Lo(b)), U64(Hi(a) - Digit - Hi(b)))
<1>1. u1 < Top /\ u2 < Top /\ u1 < Word /\ u2 < Word
    BY Sizes, WordBig
<1>2. ts_sub(u1, u2) = IF u1 >= u2 THEN Size(u1, u2) ELSE Size(u2, u1) + Top
    BY DEF ts_sub
<1>3. u1 >= u2 => Size(u1, u2) \in 0 .. u1
    BY <1>1, SizeBound
<1>4. u1 < u2 => Size(u2, u1) \in 0 .. u2
    BY <1>1, SizeBound
<1> HIDE DEF Size
<1>5. CASE u1 >= u2
    BY <1>1, <1>2, <1>3, <1>5, Sizes DEF Small, Mag
<1>6. CASE u1 < u2
    BY <1>1, <1>2, <1>4, <1>6, Sizes DEF Small, Mag
<1> QED BY <1>5, <1>6

\* The computed offset fits 48 bits, or is 2^48 when one of the differences is a zero with
\* the sign: ts_compute's comparisons leave that one to its last branch.
LEMMA ComputeSmall ==
    ASSUME NEW t4, NEW t3, Small(t4), Small(t3)
    PROVE  ts_compute(t4, t3).offset <= Top
<1> DEFINE Size(a, b) ==
            IF Lo(a) >= Lo(b) THEN a - b
            ELSE ts_add(U64(Lo(a) + Low - Lo(b)), U64(Hi(a) - Digit - Hi(b)))
<1>1. /\ t4 \in Nat /\ t3 \in Nat /\ t4 < 2 * Top - Digit /\ t3 < 2 * Top - Digit
      /\ t4 < Word /\ t3 < Word
    BY Sizes, WordBig DEF Small, Mag
<1>2. ASSUME NEW size \in Nat, size <= 2 * Top PROVE size \div 2 <= Top
    BY <1>2, Sizes
<1>3. ASSUME NEW a \in {t3, t4}, NEW b \in {t3, t4}, a >= b \/ b <= Top
      PROVE  ts_sub(a, b) \in Nat /\ ts_sub(a, b) <= 2 * Top
    <2>1. ts_sub(a, b) = IF a >= b THEN Size(a, b) ELSE Size(b, a) + Top
        BY DEF ts_sub
    <2>2. a >= b => Size(a, b) \in 0 .. a
        BY <1>1, SizeBound
    <2>3. a < b => Size(b, a) \in 0 .. b
        BY <1>1, SizeBound
    <2> HIDE DEF Size
    <2> QED BY <1>1, <1>3, <2>1, <2>2, <2>3, Sizes
<1>4. ASSUME NEW a \in {t3, t4}, NEW b \in {t3, t4}, a < Top, b > Top
      PROVE  ts_add(a, b - Top) \in Nat /\ ts_add(a, b - Top) <= 2 * Top
             /\ ts_add(b - Top, a) \in Nat /\ ts_add(b - Top, a) <= 2 * Top
    <2>1. b - Top \in Nat /\ a \in Nat /\ a + (b - Top) + 2 * Digit < Top
        BY <1>1, <1>4, Sizes DEF Small, Mag
    <2>2. a + (b - Top) + Digit < Word /\ (b - Top) + a + Digit < Word
        BY <2>1, Sizes, WordBig
    <2> DEFINE c == b - Top
    <2>3. c \in Nat /\ a + c + Digit < Word /\ c + a + Digit < Word /\ a + c + 2 * Digit < Top
        BY <2>1, <2>2
    <2> HIDE DEF c
    <2>4. /\ ts_add(a, c) \in Nat /\ ts_add(a, c) <= a + c + Digit
          /\ ts_add(c, a) \in Nat /\ ts_add(c, a) <= c + a + Digit
        BY <2>1, <2>3, AddBound
    <2>5. ts_add(a, c) <= 2 * Top /\ ts_add(c, a) <= 2 * Top
        BY <2>1, <2>3, <2>4, Sizes
    <2> QED BY <2>4, <2>5 DEF c
<1>5. ASSUME NEW t \in {t3, t4}
      PROVE  U64(t - Top) = IF t >= Top THEN t - Top ELSE Word + t - Top
    <2>1. CASE t >= Top
        <3>1. t - Top \in 0 .. Word - 1
            BY <1>1, <2>1, Sizes
        <3> QED BY <2>1, <3>1, SmallU64
    <2>2. CASE t < Top
        <3> DEFINE x == t - Top
        <3>1. x \in Int /\ x < 0 /\ x > -Word
            BY <1>1, <2>2, Sizes, WordBig
        <3> HIDE DEF x
        <3>2. U64(x) = Word + x
            BY <3>1, Sizes, WordBig DEF U64
        <3> QED BY <1>1, <2>2, <3>2, Sizes DEF x
    <2> QED BY <1>1, <2>1, <2>2, Sizes
<1>6. \E size \in Nat : ts_compute(t4, t3).offset = size \div 2 /\ size <= 2 * Top
    <2>1. CASE t4 < Top /\ t3 < Top
        <3>1. t4 <= Top /\ t3 <= Top
            BY <1>1, <2>1, Sizes
        <3>2. \/ ts_compute(t4, t3).offset = ts_sub(t4, t3) \div 2
              \/ ts_compute(t4, t3).offset = ts_sub(t3, t4) \div 2
            BY <2>1 DEF ts_compute
        <3> QED BY <1>3, <3>1, <3>2
    <2>2. CASE t4 < Top /\ t3 > Top
        <3>1. ts_compute(t4, t3).offset = ts_add(t4, t3 - Top) \div 2
            BY <1>1, <2>2, Sizes DEF ts_compute
        <3> QED BY <1>4, <2>2, <3>1
    <2>3. CASE t4 > Top /\ t3 < Top
        <3>1. ts_compute(t4, t3).offset = ts_add(t4 - Top, t3) \div 2
            BY <1>1, <2>3, Sizes DEF ts_compute
        <3> QED BY <1>4, <2>3, <3>1
    <2>4. CASE ~(t4 < Top /\ t3 < Top) /\ ~(t4 < Top /\ t3 > Top) /\ ~(t4 > Top /\ t3 < Top)
        <3> DEFINE larger == U64(t4 - Top) >= U64(t3 - Top)
        <3>1. (larger => t4 >= t3 \/ t3 <= Top) /\ (~larger => t3 >= t4 \/ t4 <= Top)
            BY <1>1, <1>5, <2>4, Sizes, WordBig
        <3>2. /\ larger => ts_compute(t4, t3).offset = ts_sub(t4, t3) \div 2
              /\ ~larger => ts_compute(t4, t3).offset = ts_sub(t3, t4) \div 2
            BY <2>4 DEF ts_compute
        <3> HIDE DEF larger
        <3> QED BY <1>3, <3>1, <3>2
    <2> QED BY <2>1, <2>2, <2>3, <2>4
<1> QED BY <1>2, <1>6

\* The differences that the slave and the master measure, of stamps in range.
LEMMA MeasuredSmall ==
    ASSUME NEW i, StampsOK(i)
    PROVE  Small(ts_sub(i.t2, ts_add(i.t1, corr_trans(i.rorr1))))
<1> DEFINE c == corr_trans(i.rorr1)
           far == ts_add(i.t1, c)
<1>1. /\ i.t1 \in Nat /\ 4 * i.t1 + 4 * Digit < Top /\ c \in Nat /\ 4 * c + 4 * Digit < Top
      /\ i.t2 \in Nat /\ 4 * i.t2 + 4 * Digit < Top
    BY DEF StampsOK, Early
<1> HIDE DEF c
<1>2. i.t1 + c + Digit < Word
    BY <1>1, Sizes, WordBig
<1>3. far \in Nat /\ far <= i.t1 + c + Digit
    BY <1>1, <1>2, AddBound
<1> HIDE DEF far
<1>4. 2 * far + 2 * Digit < Top /\ 2 * i.t2 + 2 * Digit < Top
    BY <1>1, <1>3, Sizes
<1>5. Small(ts_sub(i.t2, far))
    BY <1>1, <1>3, <1>4, SubSmall
<1> QED BY <1>5 DEF far, c

LEMMA ResponseSmall ==
    ASSUME TimesOK, InRange, NEW req, UpOK(req), NEW d \in LinkDelay, NEW kept \in Nat,
           NEW wrapped \in {0, 1}, Arrives(req.left, d, kept, wrapped)
    PROVE  Small(ts_sub(corr_trans(now),
                        ts_add(req.t3, corr_trans(Corr(req.left, d, kept, wrapped)))))
<1> DEFINE c == Corr(req.left, d, kept, wrapped)
           far == ts_add(req.t3, corr_trans(c))
<1>1. now \in Nat /\ req.left \in Nat /\ req.t3 \in Nat
    BY DEF TimesOK, ClocksOK, UpOK, Early
<1>2. c \in Nat /\ c <= now
    <2> DEFINE left == req.left
    <2>1. left \in Nat /\ Arrives(left, d, kept, wrapped)
        BY <1>1
    <2> HIDE DEF left
    <2>2. /\ Corr(left, d, kept, wrapped) \in Nat /\ Corr(left, d, kept, wrapped) <= now
        BY <2>1, CorrCounts
    <2> QED BY <2>2 DEF left
<1> HIDE DEF c
<1>3. corr_trans(c) \in Nat /\ corr_trans(now) \in Nat /\ corr_trans(c) <= corr_trans(now)
    BY <1>1, <1>2, TransOrder
<1>4. 4 * req.t3 + 4 * Digit < Top /\ 4 * corr_trans(now) + 4 * Digit < Top
    BY DEF UpOK, Early, InRange
<1>5. req.t3 + corr_trans(c) + Digit < Word
    BY <1>1, <1>3, <1>4, Sizes, WordBig
<1>6. far \in Nat /\ far <= req.t3 + corr_trans(c) + Digit
    BY <1>1, <1>3, <1>5, AddBound
<1> HIDE DEF far
<1>7. 2 * far + 2 * Digit < Top /\ 2 * corr_trans(now) + 2 * Digit < Top
    BY <1>1, <1>3, <1>4, <1>6, Sizes
<1>8. Small(ts_sub(corr_trans(now), far))
    BY <1>3, <1>6, <1>7, SubSmall
<1> QED BY <1>8 DEF far, c

\* The queues and the number of sync packets, and the values in registers and messages.
Capacities ==
    /\ Len(down) <= NetCap /\ Len(up) <= NetCap /\ Len(txq) <= TxCap /\ Len(pending) <= 4
    /\ sent \in 0 .. MaxSync

OrderFits(m) ==
    /\ m.type = "offset" => m.value \in 0 .. 2 * Top - 1 /\ m.at \in Nat \cup {-1}
    /\ m.type = "period" => m.value \in 0 .. PeriodReg - 1

Registers ==
    /\ iv_time_offset \in 0 .. 2 * Top - 1 /\ i_time_offset_wr \in BOOLEAN
    /\ iv_offset_period \in 0 .. PeriodReg - 1 /\ offset_counter \in 0 .. PeriodReg - 1
    /\ since \in Nat \cup {-1}

Widths ==
    /\ Registers /\ Local_ts_info.offset <= Top /\ dropped \in BOOLEAN
    /\ \A p \in Elems(down) : p.type = "resp" => Small(p.t3)
    /\ \A m \in Elems(txq) \cup Elems(pending) : OrderFits(m)

Fits == Capacities /\ Widths

LEMMA InitFits == Init => Fits
<1> SUFFICES ASSUME Init PROVE Fits
    OBVIOUS
<1>1. /\ Elems(down) = {} /\ Elems(txq) = {} /\ Elems(pending) = {}
      /\ Len(txq) = 0 /\ Len(down) = 0 /\ Len(up) = 0 /\ Len(pending) = 0
    BY DEF Init, Elems
<1>2. 0 \in 0 .. PeriodReg - 1 /\ 0 \in 0 .. 2 * Top - 1 /\ 0 <= Top /\ 0 \in 0 .. MaxSync
    BY SyncAssumption, Sizes DEF SyncAssumption
<1>3. Capacities
    BY <1>1, <1>2, SyncAssumption DEF SyncAssumption, Init, Capacities
<1>4. Registers /\ Local_ts_info.offset = 0 /\ dropped \in BOOLEAN
    BY <1>2 DEF Init, Registers
<1>5. Widths
    BY <1>1, <1>2, <1>4 DEF Widths
<1> QED BY <1>3, <1>5 DEF Fits

\* The counter of the guiding is cut to the width of its register.
LEMMA TickFits == Fits /\ Inv /\ Tick => Fits'
<1> SUFFICES ASSUME Fits, Inv, Tick PROVE Fits'
    OBVIOUS
<1>1. /\ UNCHANGED <<iv_time_offset, iv_offset_period, down, up, writes, service, sent, since>>
      /\ i_time_offset_wr' = FALSE
      /\ offset_counter' \in {0, (offset_counter + 1) % PeriodReg}
    BY DEF Tick
<1>2. PeriodReg \in Nat \ {0} /\ offset_counter + 1 \in Int
    BY SyncAssumption DEF SyncAssumption, Fits, Widths, Registers
<1>3. offset_counter' \in 0 .. PeriodReg - 1
    <2>1. (offset_counter + 1) % PeriodReg \in 0 .. PeriodReg - 1
        BY <1>2, DivMod
    <2> QED BY <1>1, <1>2, <2>1
<1> QED BY <1>1, <1>3 DEF Fits, Capacities, Widths, Registers, service, writes

\* Steps that leave the queue of the switch and its registers alone.
LEMMA NetworkFits ==
    ASSUME Fits, UNCHANGED <<switch, writes, service, since>>, Len(down') <= NetCap,
           Len(up') <= NetCap, sent' \in 0 .. MaxSync,
           \A p \in Elems(down') : p \in Elems(down) \/ (p.type = "resp" => Small(p.t3))
    PROVE  Fits'
BY DEF Fits, Capacities, Widths, Registers, switch, service, writes

LEMMA SyncMasterFits == Fits /\ Inv /\ sync_handler_master => Fits'
<1> SUFFICES ASSUME Fits, Inv, sync_handler_master PROVE Fits'
    OBVIOUS
<1> DEFINE p == [type |-> "sync", t1 |-> corr_trans(now), left |-> now]
<1>1. /\ UNCHANGED <<now, switch, up, writes, service, steps, since>> /\ down' = Append(down, p)
      /\ Len(down) < NetCap /\ sent < MaxSync /\ sent' = sent + 1
    BY DEF sync_handler_master
<1>2. p \in SyncPacket \cup RespPacket /\ down \in Seq(SyncPacket \cup RespPacket) /\ p.type = "sync"
    BY DigitsTyped DEF Inv, ClocksTyped, PacketsTyped, SyncPacket
<1> HIDE DEF p
<1>3. Elems(down') \subseteq Elems(down) \cup {p} /\ Len(down') = Len(down) + 1
    BY <1>1, <1>2, ElemsOfAppend
<1>4. Len(down') <= NetCap /\ Len(up') <= NetCap /\ sent' \in 0 .. MaxSync
    BY <1>1, <1>2, <1>3, SyncAssumption DEF SyncAssumption, Fits, Capacities
<1> QED BY <1>1, <1>2, <1>3, <1>4, NetworkFits

LEMMA DelayReqFits ==
    ASSUME Fits, TimesOK, Inv, InRange, NEW d \in LinkDelay, NEW kept \in Nat,
           NEW wrapped \in {0, 1}, delay_req_handler(d, kept, wrapped)
    PROVE  Fits'
<1> DEFINE req == Head(up)
           t3 == ts_sub(corr_trans(now),
                        ts_add(req.t3, corr_trans(Corr(req.left, d, kept, wrapped))))
           at == IF Counted(req.left, d, kept) THEN req.at ELSE -1
           p == [type |-> "resp", at |-> at, t3 |-> t3]
<1>1. /\ UNCHANGED <<now, switch, writes, service, sent, steps, since>> /\ down' = Append(down, p)
      /\ up # <<>> /\ up' = Tail(up) /\ Arrives(req.left, d, kept, wrapped) /\ Len(down) < NetCap
    BY DEF delay_req_handler
<1>2. up \in Seq(Request) /\ down \in Seq(SyncPacket \cup RespPacket)
    BY DEF Inv, PacketsTyped
<1>3. UpOK(req) /\ req \in Request
    <2>1. req \in Elems(up) /\ req \in Request
        BY <1>1, <1>2, ElemsOfTail
    <2> QED BY <2>1 DEF TimesOK, PacketsOK
<1>4. Small(t3)
    <2> DEFINE r == req
    <2> HIDE DEF r
    <2>1. Small(ts_sub(corr_trans(now),
                       ts_add(r.t3, corr_trans(Corr(r.left, d, kept, wrapped)))))
        BY <1>1, <1>3, ResponseSmall DEF r
    <2> QED BY <2>1 DEF r
<1>5. p.type = "resp" /\ p.t3 = t3 /\ p \in SyncPacket \cup RespPacket
    BY <1>3, <1>4 DEF Small, Request, RespPacket
<1> HIDE DEF p, t3, req
<1>6. Elems(down') \subseteq Elems(down) \cup {p} /\ Len(down') = Len(down) + 1
    BY <1>1, <1>2, <1>5, ElemsOfAppend
<1>7. Len(down') <= NetCap /\ Len(up') <= NetCap /\ sent' \in 0 .. MaxSync
    BY <1>1, <1>2, <1>6, SyncAssumption DEF SyncAssumption, Fits, Capacities
<1> QED BY <1>1, <1>4, <1>5, <1>6, <1>7, NetworkFits

LEMMA LoseFits == Fits /\ Inv /\ (LoseDown \/ LoseUp) => Fits'
<1> SUFFICES ASSUME Fits, Inv, LoseDown \/ LoseUp PROVE Fits'
    OBVIOUS
<1>1. up \in Seq(Request) /\ down \in Seq(SyncPacket \cup RespPacket)
    BY DEF Inv, PacketsTyped
<1>2. /\ UNCHANGED <<switch, writes, service, sent, since>>
      /\ \/ down # <<>> /\ down' = Tail(down) /\ up' = up
         \/ up # <<>> /\ up' = Tail(up) /\ down' = down
    BY DEF LoseDown, LoseUp
<1>3. Elems(down') \subseteq Elems(down)
    BY <1>1, <1>2, ElemsOfTail
<1>4. Len(down') <= NetCap /\ Len(up') <= NetCap /\ sent' \in 0 .. MaxSync
    BY <1>1, <1>2, SyncAssumption DEF SyncAssumption, Fits, Capacities
<1> QED BY <1>2, <1>3, <1>4, NetworkFits

\* A message that finds the queue full is dropped.
LEMMA WriteFits ==
    ASSUME Fits, Inv, NEW message \in Order, OrderFits(message), Write(message)
    PROVE  Len(txq') <= TxCap /\ \A m \in Elems(txq') : OrderFits(m)
<1>1. Elems(txq') \subseteq Elems(txq) \cup {message}
    BY ElemsOfWrite
<1>2. txq \in Seq(Order) /\ TxCap \in Nat /\ Len(txq) <= TxCap
    BY SyncAssumption DEF SyncAssumption, Inv, PacketsTyped, Fits, Capacities
<1>3. Len(txq') <= TxCap
    BY <1>2, AppendProperties DEF Write
<1> QED BY <1>1, <1>3 DEF Fits, Widths

\* A sync packet arrives: its times are noted and a request is queued.
LEMMA SyncSlaveFits ==
    ASSUME Fits, Inv, NEW d \in LinkDelay, NEW kept \in Nat, NEW wrapped \in {0, 1},
           sync_handler_slave(d, kept, wrapped)
    PROVE  Fits'
<1> DEFINE m == [type |-> "req"]
<1>1. /\ down # <<>> /\ down' = Tail(down) /\ Write(m)
      /\ UNCHANGED <<now, switch, up, pending, dropped, sent, steps, since>>
      /\ Local_ts_info'.offset = Local_ts_info.offset
    BY DEF sync_handler_slave, Inv, ServiceTyped
<1>2. m \in Order /\ OrderFits(m)
    BY DEF Order, OrderFits
<1>3. down \in Seq(SyncPacket \cup RespPacket)
    BY DEF Inv, PacketsTyped
<1> HIDE DEF m
<1>4. Len(txq') <= TxCap /\ \A x \in Elems(txq') : OrderFits(x)
    BY <1>1, <1>2, WriteFits
<1>5. Elems(down') \subseteq Elems(down) /\ Len(down') <= NetCap
    BY SMTT(30), <1>1, <1>3, SyncAssumption, ElemsOfTail DEF SyncAssumption, Fits, Capacities
<1> QED BY <1>1, <1>4, <1>5 DEF Fits, Capacities, Widths, Registers, switch

\* A response: the offset fits the register beside its sign.
LEMMA DelayRespFits == Fits /\ TimesOK /\ Inv /\ delay_resp_handler_1 => Fits'
<1> SUFFICES ASSUME Fits, TimesOK, Inv, delay_resp_handler_1 PROVE Fits'
    OBVIOUS
<1> DEFINE p == Head(down)
           info == Local_ts_info
           t4 == ts_sub(info.t2, ts_add(info.t1, corr_trans(info.rorr1)))
           new == ts_compute(t4, p.t3)
           guide == Guide(new.flag, new.offset)
           at == IF p.at = info.at THEN info.at ELSE -1
           first == Offset(new.flag, new.offset, at)
           third == Offset(guide.flag, GuideOffset(new.flag, guide.sum), -1)
           a == Period(0)
           b == Period(Frequency(guide.sum))
<1>1. down # <<>> /\ down \in Seq(SyncPacket \cup RespPacket) /\ p.type = "resp"
    BY Zenon DEF delay_resp_handler_1, Inv, PacketsTyped
<1>2. p \in Elems(down) /\ Elems(Tail(down)) \subseteq Elems(down) /\ Len(Tail(down)) = Len(down) - 1
    BY <1>1, ElemsOfTail
<1>3. Small(p.t3)
    BY <1>1, <1>2 DEF Fits, Widths
<1>4. Small(t4) /\ info.at \in Nat \cup {-1}
    BY MeasuredSmall DEF TimesOK, StampsOK
<1>5. new \in [flag : {0, 1}, offset : Nat] /\ new.offset <= Top
    <2> DEFINE t3 == p.t3
    <2>1. Small(t4) /\ Small(t3) /\ t4 \in Int /\ t3 \in Int /\ new = ts_compute(t4, t3)
        BY <1>3, <1>4 DEF Small
    <2> HIDE DEF t4, t3, new
    <2> QED BY <2>1, ComputeTyped, ComputeSmall
<1>6. new.flag \in {0, 1} /\ new.offset \in 0 .. Top /\ new.offset \in Nat
    BY <1>5, Sizes
<1> HIDE DEF new
<1>7. guide.flag \in {0, 1} /\ guide.sum \in Nat
    <2>1. guide \in [flag : {0, 1}, sum : Nat]
        BY <1>6, GuideTyped
    <2> QED BY <2>1
<1> HIDE DEF guide
<1>8. at \in Nat \cup {-1} /\ at \in Int
    BY <1>4
<1> HIDE DEF at
<1>9. ASSUME NEW flag \in {0, 1}, NEW value \in Nat, NEW when \in Nat \cup {-1}
      PROVE  /\ OrderFits(Offset(flag, value, when)) /\ Offset(flag, value, when) \in Order
             /\ Offset(flag, value, when).type = "offset"
    <2>1. Signed(flag, value) \in 0 .. 2 * Top - 1 /\ value \in Int /\ when \in Int
        <3> DEFINE x == IF flag = 0 THEN value + Top ELSE value
        <3>1. x \in Int /\ 2 * Top \in Nat \ {0}
            BY Sizes
        <3> HIDE DEF x
        <3>2. x % (2 * Top) \in 0 .. 2 * Top - 1
            BY <3>1, DivMod
        <3> QED BY <3>2 DEF Signed, x
    <2>2. Offset(flag, value, when) \in Order
        BY <2>1, OrdersTyped
    <2> QED BY <2>1, <2>2 DEF Offset, OrderFits
<1>10. ASSUME NEW value \in Int
       PROVE  OrderFits(Period(value)) /\ Period(value) \in Order
    <2>1. value % PeriodReg \in 0 .. PeriodReg - 1
        BY SyncAssumption, DivMod DEF SyncAssumption
    <2>2. Period(value) \in Order
        <3>1. 0 \in {0, 1} /\ 0 \in Int
            OBVIOUS
        <3> QED BY <3>1, OrdersTyped
    <2> QED BY <2>1, <2>2 DEF Period, OrderFits
<1>11. OrderFits(first) /\ first \in Order /\ first.type = "offset"
    BY <1>6, <1>8, <1>9
<1>12. OrderFits(third) /\ third \in Order /\ third.type = "offset"
    <2>1. GuideOffset(new.flag, guide.sum) \in Nat /\ -1 \in Nat \cup {-1}
        BY DEF GuideOffset
    <2> QED BY <1>7, <1>9, <2>1
<1>13. OrderFits(a) /\ a \in Order
    BY <1>10
<1>14. OrderFits(b) /\ b \in Order
    BY SMTT(30), <1>7, <1>10, FrequencyTyped
<1>15. /\ down' = Tail(down) /\ UNCHANGED <<now, switch, up, txq, dropped, sent, steps, since>>
       /\ pending' = <<first, a>> \/ pending' = <<first, a>> \o <<third, b>>
       /\ \/ Local_ts_info' = [info EXCEPT !.offset = new.offset, !.offset_flag = new.flag]
          \/ Local_ts_info' = [info EXCEPT !.offset = new.offset, !.offset_flag = new.flag,
                                           !.guide_offset_flag = guide.flag]
    BY Zenon DEF delay_resp_handler_1, new, guide, at, Now
<1> HIDE DEF first, third, a, b, p
<1>16. Local_ts_info'.offset = new.offset
    BY <1>15 DEF Inv, ServiceTyped
<1>17. Len(pending') <= 4 /\ \A m \in Elems(pending') : OrderFits(m)
    <2>1. Elems(pending') \subseteq {first, a, third, b} /\ Len(pending') <= 4
        BY <1>11, <1>12, <1>13, <1>14, <1>15, ElemsOfPairs
    <2> QED BY <1>11, <1>12, <1>13, <1>14, <2>1
<1>18. Capacities'
    BY SMTT(30), <1>1, <1>2, <1>15, <1>17, SyncAssumption DEF SyncAssumption, Fits, Capacities
<1>19. Widths'
    BY <1>2, <1>6, <1>15, <1>16, <1>17, Sizes DEF Fits, Widths, Registers, switch
<1> QED BY <1>18, <1>19 DEF Fits

\* The next of the messages goes into the queue or is dropped.
LEMMA WriteNextFits == Fits /\ Inv /\ WriteNext => Fits'
<1> SUFFICES ASSUME Fits, Inv, WriteNext PROVE Fits'
    OBVIOUS
<1> DEFINE m == Head(pending)
<1>1. /\ pending # <<>> /\ pending \in Seq(Order) /\ pending' = Tail(pending) /\ Write(m)
      /\ UNCHANGED <<now, switch, down, up, service, sent, steps, since>> /\ dropped' \in BOOLEAN
    BY DEF WriteNext, Inv, PacketsTyped, Fits, Widths
<1>2. /\ m \in Order /\ m \in Elems(pending) /\ Elems(pending') \subseteq Elems(pending)
      /\ Len(pending') <= 4
    BY <1>1, ElemsOfTail DEF Fits, Capacities
<1> HIDE DEF m
<1>3. OrderFits(m)
    BY <1>2 DEF Fits, Widths
<1>4. Len(txq') <= TxCap /\ \A x \in Elems(txq') : OrderFits(x)
    BY <1>1, <1>2, <1>3, WriteFits
<1> QED BY <1>1, <1>2, <1>4 DEF Fits, Capacities, Widths, Registers, switch, service

\* Half of an old and half of a new value is no wider than either.
LEMMA HalfWritten ==
    ASSUME NEW old \in 0 .. 2 * Top - 1, NEW new \in Int
    PROVE  (old \div Part) * Part + (new % Part) \in 0 .. 2 * Top - 1
<1> DEFINE q == old \div Part
           m == Top \div Part
           low == new % Part
<1>1. Part \in Nat \ {0} /\ Top % Part = 0 /\ old \in Int /\ old >= 0 /\ Top \in Int
    BY SyncAssumption, Sizes DEF SyncAssumption
<1>2. q \in Int /\ q >= 0 /\ Part * q <= old /\ low \in 0 .. Part - 1
    <2>1. low \in 0 .. Part - 1
        BY <1>1, DivMod
    <2>2. q \in Int /\ q >= 0 /\ old = Part * q + (old % Part) /\ old % Part \in 0 .. Part - 1
        BY <1>1, DivMod
    <2> HIDE DEF q, low
    <2> QED BY <1>1, <2>1, <2>2
<1>3. m \in Int /\ Top = Part * m
    BY <1>1, DivMod
<1> HIDE DEF q, m, low
<1>4. q < 2 * m
    <2>1. Part * q < Part * (2 * m)
        BY <1>1, <1>2, <1>3, Sizes
    <2> QED BY <1>1, <1>2, <1>3, <2>1
<1>5. Part * (q + 1) <= Part * (2 * m)
    BY <1>1, <1>2, <1>3, <1>4
<1>6. Part * q + Part <= 2 * Top /\ q * Part = Part * q /\ Part * q >= 0
    BY <1>1, <1>2, <1>3, <1>5
<1> QED BY <1>1, <1>2, <1>6, Sizes DEF q, low

\* The switch takes from the queue.
LEMMA SwitchFits == Fits /\ Inv /\ SwitchStep => Fits'
<1> SUFFICES ASSUME Fits, Inv, SwitchStep PROVE Fits'
    OBVIOUS
<1>1. txq \in Seq(Order) /\ UNCHANGED <<down, pending, dropped, service, sent>>
    BY DEF SwitchStep, StampRequest, SetOffsetLow, SetOffset, SetPeriod, Inv, PacketsTyped, writes
<1>2. ASSUME txq # <<>> PROVE OrderFits(Head(txq)) /\ Head(txq) \in Order
    BY <1>1, <1>2, ElemsOfTail DEF Fits, Widths
<1>3. ASSUME txq # <<>>, txq' = Tail(txq) \/ txq' = txq, Len(up') <= NetCap, Registers'
      PROVE  Fits'
    <2>1. Elems(txq') \subseteq Elems(txq)
        <3>1. Elems(Tail(txq)) \subseteq Elems(txq)
            BY <1>1, <1>3, ElemsOfTail
        <3> QED BY <1>3, <3>1
    <2>2. Len(txq') <= TxCap
        <3>1. Len(txq) \in Nat /\ Len(Tail(txq)) = Len(txq) - 1 /\ Len(txq) <= TxCap /\ TxCap \in Nat
            BY <1>1, <1>3, SyncAssumption DEF SyncAssumption, Fits, Capacities
        <3> QED BY <1>3, <3>1
    <2> QED BY <1>1, <1>3, <2>1, <2>2 DEF Fits, Capacities, Widths, service
<1>4. CASE StampRequest
    <2>1. /\ txq # <<>> /\ txq' = Tail(txq) /\ UNCHANGED <<switch, since>> /\ Len(up) < NetCap
          /\ up' = Append(up, [t3 |-> ov_syned_time, left |-> now, at |-> steps])
        BY <1>4 DEF StampRequest
    <2>2. Len(up') <= NetCap
        <3>1. up \in Seq(Request) /\ [t3 |-> ov_syned_time, left |-> now, at |-> steps] \in Request
            BY DEF Inv, ClocksTyped, PacketsTyped, Request
        <3> QED BY <2>1, <3>1, SyncAssumption DEF SyncAssumption
    <2>3. Registers'
        BY <2>1 DEF Fits, Widths, Registers, switch
    <2> QED BY <1>3, <2>1, <2>2, <2>3
<1>5. CASE SetOffsetLow
    <2>1. /\ txq # <<>> /\ txq' = txq /\ Head(txq).type = "offset" /\ since' = -1
          /\ iv_time_offset' = (iv_time_offset \div Part) * Part + (Head(txq).value % Part)
          /\ UNCHANGED <<up, i_time_offset_wr, iv_offset_period, offset_counter>>
        BY <1>5 DEF SetOffsetLow, writes
    <2>2. Head(txq).value \in Int
        BY <1>2, <2>1 DEF Order
    <2>3. iv_time_offset' \in 0 .. 2 * Top - 1
        BY <2>1, <2>2, HalfWritten DEF Fits, Widths, Registers
    <2>4. Registers' /\ Len(up') <= NetCap
        BY <2>1, <2>3 DEF Fits, Capacities, Widths, Registers
    <2> QED BY <1>3, <2>1, <2>4
<1>6. CASE SetOffset
    <2>1. /\ txq # <<>> /\ txq' = Tail(txq) /\ Head(txq).type = "offset" /\ since' = Head(txq).at
          /\ iv_time_offset' = Head(txq).value /\ i_time_offset_wr' = TRUE
          /\ UNCHANGED <<up, iv_offset_period, offset_counter>>
        BY <1>6 DEF SetOffset, Inv, Parsing
    <2>2. Registers' /\ Len(up') <= NetCap
        BY <1>2, <2>1 DEF Fits, Capacities, Widths, Registers, OrderFits
    <2> QED BY <1>3, <2>1, <2>2
<1>7. CASE SetPeriod
    <2>1. /\ txq # <<>> /\ txq' = Tail(txq) /\ Head(txq).type = "period"
          /\ iv_offset_period' = Head(txq).value
          /\ UNCHANGED <<up, iv_time_offset, i_time_offset_wr, offset_counter, since>>
        BY <1>7 DEF SetPeriod
    <2>2. Registers' /\ Len(up') <= NetCap
        BY <1>2, <2>1 DEF Fits, Capacities, Widths, Registers, OrderFits
    <2> QED BY <1>3, <2>1, <2>2
<1> QED BY <1>4, <1>5, <1>6, <1>7 DEF SwitchStep

LEMMA NextFits ==
    ASSUME Fits, TimesOK, Inv, InRange, [Next]_vars
    PROVE  Fits'
<1>1. ASSUME NEW d \in LinkDelay, NEW kept \in 0 .. MaxNow, NEW wrapped \in {0, 1},
             delay_req_handler(d, kept, wrapped) \/ sync_handler_slave(d, kept, wrapped)
      PROVE  Fits'
    <2>1. kept \in Nat
        OBVIOUS
    <2> QED BY <1>1, <2>1, DelayReqFits, SyncSlaveFits
<1>2. CASE UNCHANGED vars
    BY <1>2 DEF vars, switch, service, writes, Fits, Capacities, Widths, Registers
<1> QED BY <1>1, <1>2, TickFits, SyncMasterFits, LoseFits, DelayRespFits, WriteNextFits, SwitchFits
    DEF Next, SwitchStep

\* Every register, counter and queue of the slave and its switch keeps its width, and half
\* of an offset register's old value with half of its new one too (SetOffsetLow).  An
\* offset runs into its sign bit only as 2^48, the half of a difference with a negative
\* zero, though half of it may stem from stamps of a clock that was set in between
\* (delay_resp_handler_1, ts_compute).  The clocks are in range at every step, as for
\* OffsetSynchronizes.
THEOREM TypeCorrect ==
    ASSUME Digit - Low <= 3
    PROVE  Spec /\ []InRange => []TypeOK
<1>1. Init /\ InRange => Inv /\ TimesOK /\ Fits
    BY InitInv, InitTimes, InitFits
<1>2. Inv /\ TimesOK /\ Fits /\ InRange /\ [Next]_vars => Inv' /\ TimesOK' /\ Fits'
    BY NextInv, NextTimes, NextFits
<1>3. Inv /\ TimesOK /\ Fits /\ InRange => TypeOK
    <2> SUFFICES ASSUME Inv, TimesOK, Fits, InRange PROVE TypeOK
        OBVIOUS
    <2>1. now \in Nat /\ steps \in Nat /\ ov_syned_time \in 0 .. Top - 1
        BY Sizes DEF TimesOK, ClocksOK, InRange
    <2>2. /\ Local_ts_info.offset \in Nat
          /\ Local_ts_info.offset_flag \in {0, 1} /\ Local_ts_info.guide_offset_flag \in {0, 1}
          /\ offset_seq \in Nat /\ preoffset \in Nat /\ half \in BOOLEAN
        BY DEF Inv, ServiceTyped, Parsing
    <2> QED BY <2>1, <2>2, Sizes DEF Fits, Capacities, Widths, Registers, TypeOK
<1> QED BY <1>1, <1>2, <1>3, PTL DEF Spec
-----------------------------------------------------------------------------
(* Guiding by one cycle                                                      *)

\* All that the service has for the switch, written or not.
Queue == txq \o pending

\* More than one cycle, of either sign.
Whole(v) == v % Top \notin {0, 1}

\* Behind a whole offset the stop comes next; a period that guides comes behind an offset
\* of a cycle or none, or is first when `ready'.
StopBehind(s, i) ==
    s[i].type = "offset" /\ Whole(s[i].value) => i + 1 \in 1 .. Len(s) /\ s[i + 1] = Period(0)

SmallBefore(s, i, ready) ==
    s[i].type = "period" /\ s[i].value # 0 =>
        \/ i = 1 /\ ready
        \/ i - 1 \in 1 .. Len(s) /\ s[i - 1].type = "offset" /\ ~Whole(s[i - 1].value)

Follows(s, ready) ==
    \A i \in 1 .. Len(s) : StopBehind(s, i) /\ SmallBefore(s, i, ready)

\* The register with the guiding on: as GuidesByOneCycle has it.
Guided(queue, offset, period, parsing) ==
    /\ Follows(queue, ~Whole(offset))
    /\ period # 0 =>
        \/ ~Whole(offset)
        \/ parsing
        \/ queue # <<>> /\ Head(queue) = Period(0)

GuideOK == ~dropped => Guided(Queue, iv_time_offset, iv_offset_period, half)

LEMMA GuideNext ==
    ASSUME ~dropped' => Guided(txq' \o pending', iv_time_offset', iv_offset_period', half')
    PROVE  GuideOK'
BY DEF GuideOK, Queue, Guided, Follows, StopBehind, SmallBefore, Whole, Period

LEMMA QueueTyped ==
    ASSUME Inv
    PROVE  /\ Queue \in Seq(Order) /\ txq \in Seq(Order)
           /\ txq # <<>> => Queue # <<>> /\ Head(Queue) = Head(txq) /\ Tail(Queue) = Tail(txq) \o pending
<1>1. txq \in Seq(Order) /\ pending \in Seq(Order)
    BY DEF Inv, PacketsTyped
<1>2. Queue \in Seq(Order)
    BY <1>1 DEF Queue
<1>3. ASSUME txq # <<>>
      PROVE  Queue # <<>> /\ Head(Queue) = Head(txq) /\ Tail(Queue) = Tail(txq) \o pending
    <2> DEFINE one == Tail(Queue)
               two == Tail(txq) \o pending
    <2>1. Len(txq) \in Nat /\ Len(txq) >= 1 /\ Len(Queue) = Len(txq) + Len(pending) /\ Len(pending) \in Nat
        BY <1>1, <1>3 DEF Queue
    <2>2. Queue # <<>> /\ Head(Queue) = Head(txq)
        BY <1>1, <1>3, <2>1 DEF Queue
    <2>3. Tail(txq) \in Seq(Order) /\ Len(Tail(txq)) = Len(txq) - 1
        BY <1>1, <1>3, HeadTailProperties
    <2>4. one \in Seq(Order) /\ two \in Seq(Order) /\ Len(one) = Len(two)
        BY <1>1, <1>2, <2>1, <2>2, <2>3
    <2>5. \A i \in 1 .. Len(one) : one[i] = two[i]
        <3> SUFFICES ASSUME NEW i \in 1 .. Len(one) PROVE one[i] = two[i]
            OBVIOUS
        <3>1. one[i] = Queue[i + 1]
            BY <1>2, <2>2
        <3>2. i \in 1 .. Len(txq) + Len(pending) - 1
            BY <1>2, <2>1, <2>2
        <3>3. CASE i <= Len(txq) - 1
            BY <1>1, <1>3, <2>1, <2>3, <3>1, <3>2, <3>3 DEF Queue
        <3>4. CASE i > Len(txq) - 1
            BY <1>1, <1>3, <2>1, <2>3, <3>1, <3>2, <3>4 DEF Queue
        <3> QED BY <2>1, <3>2, <3>3, <3>4
    <2> HIDE DEF one, two
    <2>6. one = two
        BY <2>4, <2>5, SeqEqual
    <2> QED BY <2>2, <2>6 DEF one, two
<1> QED BY <1>1, <1>2, <1>3

\* The switch takes the head.
LEMMA TailFollows ==
    ASSUME NEW s \in Seq(Order), s # <<>>, NEW ready \in BOOLEAN, NEW next \in BOOLEAN,
           Follows(s, ready),
           Head(s).type = "offset" /\ ~Whole(Head(s).value) => next
    PROVE  Follows(Tail(s), next)
<1> DEFINE t == Tail(s)
<1>1. /\ Len(s) \in Nat /\ Len(s) >= 1 /\ Head(s) = s[1] /\ Len(t) = Len(s) - 1
      /\ \A i \in 1 .. Len(s) - 1 : t[i] = s[i + 1]
    OBVIOUS
<1> HIDE DEF t
<1> SUFFICES ASSUME NEW i \in 1 .. Len(t) PROVE StopBehind(t, i) /\ SmallBefore(t, i, next)
    BY DEF Follows, t
<1>2. i + 1 \in 1 .. Len(s) /\ t[i] = s[i + 1]
    BY <1>1
<1>3. StopBehind(s, i + 1) /\ SmallBefore(s, i + 1, ready)
    BY <1>2 DEF Follows
<1>4. StopBehind(t, i)
    <2> SUFFICES ASSUME t[i].type = "offset", Whole(t[i].value)
                 PROVE  i + 1 \in 1 .. Len(t) /\ t[i + 1] = Period(0)
        BY DEF StopBehind
    <2>1. (i + 1) + 1 \in 1 .. Len(s) /\ s[(i + 1) + 1] = Period(0)
        BY <1>2, <1>3 DEF StopBehind
    <2>2. i + 1 \in 1 .. Len(s) - 1
        BY <1>1, <2>1
    <2> QED BY <1>1, <2>1, <2>2
<1>5. SmallBefore(t, i, next)
    <2> SUFFICES ASSUME t[i].type = "period", t[i].value # 0
                 PROVE  \/ i = 1 /\ next
                        \/ i - 1 \in 1 .. Len(t) /\ t[i - 1].type = "offset" /\ ~Whole(t[i - 1].value)
        BY DEF SmallBefore
    <2>1. s[i].type = "offset" /\ ~Whole(s[i].value)
        <3>1. (i + 1) - 1 = i /\ i + 1 # 1
            BY <1>1
        <3> QED BY <1>2, <1>3, <3>1 DEF SmallBefore
    <2>2. CASE i = 1
        BY <1>1, <2>1, <2>2
    <2>3. CASE i # 1
        <3>1. i - 1 \in 1 .. Len(s) - 1 /\ (i - 1) + 1 = i
            BY <1>1, <2>3
        <3> QED BY <1>1, <2>1, <3>1
    <2> QED BY <2>2, <2>3
<1> QED BY <1>4, <1>5

\* The service adds messages that are in order among themselves.
LEMMA ConcatFollows ==
    ASSUME NEW s \in Seq(Order), NEW t \in Seq(Order), NEW ready \in BOOLEAN,
           Follows(s, ready), Follows(t, FALSE)
    PROVE  /\ Follows(s \o t, ready)
           /\ s # <<>> => s \o t # <<>> /\ Head(s \o t) = Head(s)
<1> DEFINE q == s \o t
           n == Len(s)
<1>1. /\ n \in Nat /\ Len(t) \in Nat /\ Len(q) = n + Len(t)
      /\ \A i \in 1 .. n : q[i] = s[i]
      /\ \A i \in 1 .. Len(t) : q[n + i] = t[i]
    OBVIOUS
<1>2. s # <<>> => q # <<>> /\ Head(q) = Head(s)
    BY <1>1
<1> HIDE DEF q, n
<1>3. ASSUME NEW i \in 1 .. Len(q) PROVE StopBehind(q, i) /\ SmallBefore(q, i, ready)
    <2>1. CASE i \in 1 .. n
        <3>1. StopBehind(s, i) /\ SmallBefore(s, i, ready) /\ q[i] = s[i]
            BY <1>1, <2>1 DEF Follows, n
        <3>2. StopBehind(q, i)
            <4> SUFFICES ASSUME q[i].type = "offset", Whole(q[i].value)
                         PROVE  i + 1 \in 1 .. Len(q) /\ q[i + 1] = Period(0)
                BY DEF StopBehind
            <4>1. i + 1 \in 1 .. n /\ s[i + 1] = Period(0)
                BY <3>1 DEF StopBehind, n
            <4> QED BY <1>1, <4>1
        <3>3. SmallBefore(q, i, ready)
            <4> SUFFICES ASSUME q[i].type = "period", q[i].value # 0, ~(i = 1 /\ ready)
                         PROVE  /\ i - 1 \in 1 .. Len(q) /\ q[i - 1].type = "offset"
                                /\ ~Whole(q[i - 1].value)
                BY DEF SmallBefore
            <4>1. i - 1 \in 1 .. n /\ s[i - 1].type = "offset" /\ ~Whole(s[i - 1].value)
                BY <3>1 DEF SmallBefore, n
            <4> QED BY <1>1, <4>1
        <3> QED BY <3>2, <3>3
    <2>2. CASE i \notin 1 .. n
        <3> DEFINE j == i - n
        <3>1. j \in 1 .. Len(t) /\ i = n + j
            BY <1>1, <2>2
        <3> HIDE DEF j
        <3>2. StopBehind(t, j) /\ SmallBefore(t, j, FALSE) /\ q[i] = t[j]
            BY <1>1, <3>1 DEF Follows
        <3>3. StopBehind(q, i)
            <4> SUFFICES ASSUME q[i].type = "offset", Whole(q[i].value)
                         PROVE  i + 1 \in 1 .. Len(q) /\ q[i + 1] = Period(0)
                BY DEF StopBehind
            <4>1. j + 1 \in 1 .. Len(t) /\ t[j + 1] = Period(0)
                BY <3>2 DEF StopBehind
            <4>2. n + (j + 1) = i + 1
                BY <1>1, <3>1
            <4>3. q[n + (j + 1)] = t[j + 1]
                BY <1>1, <4>1
            <4> QED BY <1>1, <3>1, <4>1, <4>2, <4>3
        <3>4. SmallBefore(q, i, ready)
            <4> SUFFICES ASSUME q[i].type = "period", q[i].value # 0
                         PROVE  /\ i - 1 \in 1 .. Len(q) /\ q[i - 1].type = "offset"
                                /\ ~Whole(q[i - 1].value)
                BY DEF SmallBefore
            <4>1. j - 1 \in 1 .. Len(t) /\ t[j - 1].type = "offset" /\ ~Whole(t[j - 1].value)
                BY <3>2 DEF SmallBefore
            <4>2. n + (j - 1) = i - 1
                BY <1>1, <3>1
            <4>3. q[n + (j - 1)] = t[j - 1]
                BY <1>1, <4>1
            <4> QED BY <1>1, <3>1, <4>1, <4>2, <4>3
        <3> QED BY <3>3, <3>4
    <2> QED BY <2>1, <2>2
<1>4. Follows(q, ready)
    BY <1>3 DEF Follows
<1> QED BY <1>2, <1>4 DEF q

\* A guiding offset has one cycle or none.
LEMMA GuideIsSmall ==
    ASSUME NEW flag \in {0, 1}, NEW g \in {0, 1}
    PROVE  ~Whole(Signed(flag, g))
<1> DEFINE x == IF flag = 0 THEN g + Top ELSE g
<1>1. Top \in Nat /\ Top >= 2
    BY Sizes, WordBig
<1>2. x \in 0 .. 2 * Top - 1 /\ (x = g \/ x = Top + g) /\ g < Top
    BY <1>1
<1> HIDE DEF x
<1>3. x % (2 * Top) = x
    <2> DEFINE d == 2 * Top
    <2>1. d \in Nat \ {0} /\ x \in 0 .. d - 1
        BY <1>1, <1>2
    <2> HIDE DEF d
    <2>2. x % d = x
        BY <2>1
    <2> QED BY <2>2 DEF d
<1>4. x % Top = g
    <2>1. x = Top * 0 + g \/ x = Top * 1 + g
        BY <1>1, <1>2
    <2> QED BY <1>1, <1>2, <2>1
<1> QED BY <1>3, <1>4 DEF Signed, Whole, x

\* The messages of a response are in order.
LEMMA RespFollows ==
    ASSUME NEW first \in Order, NEW third \in Order, NEW b \in Order,
           first.type = "offset", third.type = "offset", ~Whole(third.value), b.type = "period",
           NEW messages,
           messages = <<first, Period(0)>> \/ messages = <<first, Period(0)>> \o <<third, b>>
    PROVE  messages \in Seq(Order) /\ Follows(messages, FALSE)
<1> DEFINE a == Period(0)
<1>1. a \in Order /\ a.type = "period" /\ a.value = 0
    <2>1. 0 % PeriodReg = 0
        BY SyncAssumption DEF SyncAssumption
    <2> QED BY <2>1 DEF Period, Order
<1>2. messages = <<first, a>> \/ messages = <<first, a>> \o <<third, b>>
    OBVIOUS
<1>3. a = Period(0)
    OBVIOUS
<1> HIDE DEF a
<1>4. CASE messages = <<first, a>>
    <2>1. messages \in Seq(Order) /\ Len(messages) = 2 /\ messages[1] = first /\ messages[2] = a
        BY <1>1, <1>4
    <2>2. \A i \in 1 .. 2 : i = 1 \/ i = 2
        OBVIOUS
    <2>3. StopBehind(messages, 1) /\ SmallBefore(messages, 1, FALSE)
        BY <1>3, <2>1 DEF StopBehind, SmallBefore
    <2>4. StopBehind(messages, 2) /\ SmallBefore(messages, 2, FALSE)
        BY <1>1, <2>1 DEF StopBehind, SmallBefore
    <2> QED BY <2>1, <2>2, <2>3, <2>4 DEF Follows
<1>5. CASE messages = <<first, a>> \o <<third, b>>
    <2>1. /\ messages \in Seq(Order) /\ Len(messages) = 4 /\ messages[1] = first
          /\ messages[2] = a /\ messages[3] = third /\ messages[4] = b
        BY <1>1, <1>5
    <2>2. \A i \in 1 .. 4 : i = 1 \/ i = 2 \/ i = 3 \/ i = 4
        OBVIOUS
    <2>3. StopBehind(messages, 1) /\ SmallBefore(messages, 1, FALSE)
        BY <1>3, <2>1 DEF StopBehind, SmallBefore
    <2>4. StopBehind(messages, 2) /\ SmallBefore(messages, 2, FALSE)
        BY <1>1, <2>1 DEF StopBehind, SmallBefore
    <2>5. StopBehind(messages, 3) /\ SmallBefore(messages, 3, FALSE)
        BY <2>1 DEF StopBehind, SmallBefore
    <2>6. StopBehind(messages, 4) /\ SmallBefore(messages, 4, FALSE)
        <3>1. 4 - 1 = 3 /\ 3 \in 1 .. 4
            OBVIOUS
        <3> QED BY <2>1, <3>1 DEF StopBehind, SmallBefore
    <2> QED BY <2>1, <2>2, <2>3, <2>4, <2>5, <2>6 DEF Follows
<1> QED BY <1>2, <1>4, <1>5

\* More messages at the end change nothing in front.
LEMMA QueueGrows ==
    ASSUME GuideOK, Inv, NEW t \in Seq(Order), Follows(t, FALSE), pending = <<>>,
           txq' \o pending' = txq \o t, UNCHANGED <<switch, dropped>>
    PROVE  GuideOK'
<1>1. Queue = txq /\ txq \in Seq(Order)
    BY QueueTyped DEF Queue, Inv, PacketsTyped
<1>2. UNCHANGED <<iv_time_offset, iv_offset_period, half, dropped>>
    BY DEF switch
<1>3. ASSUME ~dropped
      PROVE  Guided(txq \o t, iv_time_offset, iv_offset_period, half)
    <2> DEFINE ready == ~Whole(iv_time_offset)
    <2>1. Guided(txq, iv_time_offset, iv_offset_period, half)
        BY <1>1, <1>3 DEF GuideOK
    <2>2. Follows(txq, ready) /\ ready \in BOOLEAN
        BY <2>1 DEF Guided, Whole
    <2> HIDE DEF ready
    <2>3. /\ Follows(txq \o t, ready)
          /\ txq # <<>> => txq \o t # <<>> /\ Head(txq \o t) = Head(txq)
        BY <1>1, <2>2, ConcatFollows
    <2> QED BY <2>1, <2>3 DEF Guided, ready
<1>4. ~dropped' => Guided(txq' \o pending', iv_time_offset', iv_offset_period', half')
    BY <1>2, <1>3
<1> QED BY <1>4, GuideNext

LEMMA SameQueue ==
    ASSUME GuideOK, dropped => dropped', ~dropped' => txq' \o pending' = Queue,
           UNCHANGED <<iv_time_offset, iv_offset_period, half>>
    PROVE  GuideOK'
<1>1. ~dropped' => Guided(txq' \o pending', iv_time_offset', iv_offset_period', half')
    BY DEF GuideOK
<1> QED BY <1>1, GuideNext

LEMMA InitGuide == Init => GuideOK
<1> SUFFICES ASSUME Init PROVE GuideOK
    OBVIOUS
<1>1. Queue = <<>> /\ iv_offset_period = 0
    BY DEF Init, Queue
<1>2. Len(Queue) = 0
    BY <1>1
<1> QED BY <1>1, <1>2 DEF GuideOK, Guided, Follows

\* A request of the slave is the only message of a sync packet.
LEMMA SyncSlaveGuide ==
    ASSUME GuideOK, Inv, NEW d \in LinkDelay, NEW kept \in Nat, NEW wrapped \in {0, 1},
           sync_handler_slave(d, kept, wrapped)
    PROVE  GuideOK'
<1> DEFINE m == [type |-> "req"]
<1>1. UNCHANGED <<switch, pending, dropped>> /\ Write(m) /\ pending = <<>>
    BY DEF sync_handler_slave
<1>2. txq \in Seq(Order) /\ m \in Order
    BY DEF Inv, PacketsTyped, Order
<1>3. m.type = "req"
    OBVIOUS
<1> HIDE DEF m
<1>4. CASE txq' = Append(txq, m)
    <2>1. <<m>> \in Seq(Order) /\ Len(<<m>>) = 1 /\ <<m>>[1] = m
        BY <1>2
    <2>2. Follows(<<m>>, FALSE)
        BY <1>3, <2>1 DEF Follows, StopBehind, SmallBefore
    <2>3. txq' \o pending' = txq \o <<m>>
        BY <1>1, <1>2, <1>4
    <2> QED BY <1>1, <2>1, <2>2, <2>3, QueueGrows
<1>5. CASE txq' = txq
    <2>1. txq' \o pending' = Queue
        BY <1>1, <1>5 DEF Queue
    <2> QED BY <1>1, <2>1, SameQueue DEF switch
<1> QED BY <1>1, <1>4, <1>5 DEF Write

\* A response: the offset, the stop, and then the guiding by a cycle or none.
LEMMA DelayRespGuide ==
    ASSUME GuideOK, Inv, delay_resp_handler_1
    PROVE  GuideOK'
<1> DEFINE p == Head(down)
           info == Local_ts_info
           t4 == ts_sub(info.t2, ts_add(info.t1, corr_trans(info.rorr1)))
           new == ts_compute(t4, p.t3)
           guide == Guide(new.flag, new.offset)
           g == GuideOffset(new.flag, guide.sum)
           at == IF p.at = info.at THEN info.at ELSE -1
           first == Offset(new.flag, new.offset, at)
           third == Offset(guide.flag, g, -1)
           b == Period(Frequency(guide.sum))
<1>1. down # <<>> /\ down \in Seq(SyncPacket \cup RespPacket) /\ p.type = "resp" /\ pending = <<>>
    BY Zenon DEF delay_resp_handler_1, Inv, PacketsTyped
<1>2. p.t3 \in Int /\ p.at \in Int
    <2>1. p \in SyncPacket \cup RespPacket
        BY <1>1, HeadTailProperties
    <2> QED BY <1>1, <2>1 DEF SyncPacket, RespPacket
<1>3. info.t1 \in Int /\ info.t2 \in Int /\ info.rorr1 \in Int /\ info.at \in Int
    BY DEF Inv, ServiceTyped
<1>4. new \in [flag : {0, 1}, offset : Nat]
    <2>1. t4 \in Int
        <3> DEFINE far == ts_add(info.t1, corr_trans(info.rorr1))
        <3>1. far \in Int
            <4>1. corr_trans(info.rorr1) \in Int
                BY <1>3, DigitsTyped
            <4>2. far \in Nat
                BY <1>3, <4>1, AddTyped
            <4> QED BY <4>2
        <3> HIDE DEF far
        <3>2. ts_sub(info.t2, far) \in Nat
            BY <1>3, <3>1, SubTyped
        <3> QED BY <3>2 DEF far
    <2> HIDE DEF t4, p
    <2> QED BY <1>2, <2>1, ComputeTyped
<1>5. new.flag \in {0, 1} /\ new.offset \in Nat /\ at \in Int
    BY <1>2, <1>3, <1>4
<1> HIDE DEF new, at
<1>6. guide \in [flag : {0, 1}, sum : Nat]
    BY <1>5, GuideTyped
<1>7. guide.flag \in {0, 1} /\ guide.sum \in Nat /\ g \in {0, 1}
    BY <1>6 DEF GuideOffset
<1> HIDE DEF guide, g
<1>8. first \in Order /\ first.type = "offset"
    BY <1>5, OrdersTyped DEF Offset
<1>9. third \in Order /\ third.type = "offset" /\ third.value = Signed(guide.flag, g)
    BY <1>7, OrdersTyped DEF Offset
<1>10. b \in Order /\ b.type = "period"
    <2>1. Frequency(guide.sum) \in Int /\ 0 \in {0, 1} /\ 0 \in Int
        BY <1>7, FrequencyTyped
    <2> QED BY <2>1, OrdersTyped DEF Period
<1>11. ~Whole(third.value)
    BY <1>7, <1>9, GuideIsSmall
<1>12. /\ UNCHANGED <<switch, txq, dropped>>
       /\ pending' = <<first, Period(0)>> \/ pending' = <<first, Period(0)>> \o <<third, b>>
    BY Zenon DEF delay_resp_handler_1, new, guide, g, at, Now
<1> HIDE DEF first, third, b
<1>13. pending' \in Seq(Order) /\ Follows(pending', FALSE)
    <2> DEFINE messages == pending'
    <2>1. messages = <<first, Period(0)>> \/ messages = <<first, Period(0)>> \o <<third, b>>
        BY <1>12
    <2> HIDE DEF messages
    <2>2. messages \in Seq(Order) /\ Follows(messages, FALSE)
        BY <1>8, <1>9, <1>10, <1>11, <2>1, RespFollows
    <2> QED BY <2>2 DEF messages
<1>14. txq' \o pending' = txq \o pending'
    BY <1>12
<1> QED BY Zenon, <1>1, <1>12, <1>13, <1>14, QueueGrows

\* A message that is not dropped only changes from one part of the queue to the other.
LEMMA WriteNextGuide ==
    ASSUME GuideOK, Inv, WriteNext
    PROVE  GuideOK'
<1> DEFINE m == Head(pending)
<1>1. /\ pending # <<>> /\ pending \in Seq(Order) /\ txq \in Seq(Order)
      /\ pending' = Tail(pending) /\ Write(m) /\ UNCHANGED switch
      /\ dropped' = (dropped \/ Len(txq) >= TxCap)
    BY DEF WriteNext, Inv, PacketsTyped
<1>2. ASSUME ~dropped' PROVE txq' \o pending' = Queue
    <2>1. txq' = Append(txq, m)
        <3>1. Len(txq) \in Nat /\ TxCap \in Nat
            BY <1>1, SyncAssumption DEF SyncAssumption
        <3>2. ~(Len(txq) >= TxCap)
            BY <1>1, <1>2
        <3>3. Len(txq) < TxCap
            BY <3>1, <3>2
        <3> QED BY <1>1, <3>3 DEF Write
    <2> DEFINE one == Append(txq, m) \o Tail(pending)
               two == txq \o pending
    <2>2. m \in Order /\ Tail(pending) \in Seq(Order) /\ Len(Tail(pending)) = Len(pending) - 1
        BY <1>1, HeadTailProperties
    <2>3. one \in Seq(Order) /\ two \in Seq(Order) /\ Len(one) = Len(two)
        BY <1>1, <2>2
    <2>4. ASSUME NEW i \in 1 .. Len(one) PROVE one[i] = two[i]
        <3>1. /\ Len(txq) \in Nat /\ Len(pending) \in Nat /\ Len(pending) >= 1
              /\ i \in 1 .. Len(txq) + Len(pending)
            BY <1>1, <2>2
        <3>2. CASE i <= Len(txq)
            BY <1>1, <2>2, <3>1, <3>2
        <3>3. CASE i = Len(txq) + 1
            BY <1>1, <2>2, <3>1, <3>3
        <3>4. CASE i > Len(txq) + 1
            BY <1>1, <2>2, <3>1, <3>4
        <3> QED BY <3>1, <3>2, <3>3, <3>4
    <2> HIDE DEF one, two
    <2>5. one = two
        BY <2>3, <2>4, SeqEqual
    <2> QED BY <1>1, <2>1, <2>5 DEF one, two, Queue
<1> QED BY <1>1, <1>2, SameQueue DEF switch

\* The switch takes the head, or the low half of an offset there.
LEMMA SwitchGuide ==
    ASSUME GuideOK, Inv, SwitchStep
    PROVE  GuideOK'
<1> DEFINE m == Head(Queue)
           ready == ~Whole(iv_time_offset)
<1>1. txq # <<>> /\ UNCHANGED <<pending, dropped>>
    BY DEF SwitchStep, StampRequest, SetOffsetLow, SetOffset, SetPeriod, writes, Inv, Parsing
<1>2. /\ Queue \in Seq(Order) /\ Queue # <<>>
      /\ m = Head(txq) /\ Tail(Queue) = Tail(txq) \o pending
    BY <1>1, QueueTyped
<1>3. m \in Order /\ m = Queue[1] /\ 1 \in 1 .. Len(Queue) /\ Len(Queue) \in Nat
    BY <1>2
<1>4. half \in BOOLEAN /\ (half => m.type = "offset")
    BY <1>2 DEF Inv, Parsing
<1> SUFFICES ASSUME ~dropped
             PROVE  Guided(txq' \o pending', iv_time_offset', iv_offset_period', half')
    BY <1>1, GuideNext
<1>5. Guided(Queue, iv_time_offset, iv_offset_period, half)
    BY DEF GuideOK
<1>6. Follows(Queue, ready) /\ StopBehind(Queue, 1) /\ SmallBefore(Queue, 1, ready)
    BY <1>3, <1>5 DEF Guided, Follows
<1>7. 1 - 1 \notin 1 .. Len(Queue)
    BY <1>3
<1>8. Period(0).type = "period" /\ Period(0).value = 0
    <2>1. 0 % PeriodReg = 0
        BY SyncAssumption DEF SyncAssumption
    <2> QED BY <2>1 DEF Period
<1>9. ASSUME NEW next \in BOOLEAN, m.type = "offset" /\ ~Whole(m.value) => next
      PROVE  Follows(Tail(Queue), next)
    <2> DEFINE s == Queue
    <2>1. s \in Seq(Order) /\ s # <<>> /\ Follows(s, ready) /\ ready \in BOOLEAN
          /\ (Head(s).type = "offset" /\ ~Whole(Head(s).value) => next)
        BY <1>2, <1>6, <1>9 DEF Whole
    <2> HIDE DEF s, ready
    <2>2. Follows(Tail(s), next)
        BY <2>1, TailFollows
    <2> QED BY <2>2 DEF s
<1> HIDE DEF m
<1>10. CASE StampRequest
    <2>1. /\ m.type = "req" /\ txq' \o pending' = Tail(Queue) /\ ~half
          /\ UNCHANGED <<iv_time_offset, iv_offset_period, half>>
        BY <1>1, <1>2, <1>4, <1>10 DEF StampRequest, switch
    <2>2. Follows(Tail(Queue), ready)
        BY <1>9, <2>1 DEF Whole
    <2>3. iv_offset_period # 0 => ready
        BY <1>5, <1>8, <2>1 DEF Guided, m
    <2> QED BY <2>1, <2>2, <2>3 DEF Guided
<1>11. CASE SetOffsetLow
    <2>1. /\ m.type = "offset" /\ txq' \o pending' = Queue /\ half'
          /\ UNCHANGED iv_offset_period
        BY <1>1, <1>2, <1>11 DEF SetOffsetLow, writes, Queue
    <2>2. ASSUME NEW next \in BOOLEAN, NEW i \in 1 .. Len(Queue)
          PROVE  StopBehind(Queue, i) /\ SmallBefore(Queue, i, next)
        <3>1. StopBehind(Queue, i) /\ SmallBefore(Queue, i, ready)
            BY <1>6 DEF Follows
        <3> QED BY <1>3, <2>1, <3>1 DEF SmallBefore
    <2>3. Follows(Queue, ~Whole(iv_time_offset'))
        BY <2>2 DEF Follows, Whole
    <2> QED BY <2>1, <2>3 DEF Guided
<1>12. CASE SetOffset
    <2>1. /\ m.type = "offset" /\ txq' \o pending' = Tail(Queue)
          /\ iv_time_offset' = m.value /\ UNCHANGED iv_offset_period
        BY <1>1, <1>2, <1>4, <1>12 DEF SetOffset
    <2>2. Follows(Tail(Queue), ~Whole(m.value))
        BY <1>9 DEF Whole
    <2>3. ASSUME Whole(m.value) PROVE Tail(Queue) # <<>> /\ Head(Tail(Queue)) = Period(0)
        <3>1. 2 \in 1 .. Len(Queue) /\ Queue[2] = Period(0)
            <4>1. Queue[1].type = "offset" /\ Whole(Queue[1].value)
                BY <1>3, <2>1, <2>3
            <4>2. 1 + 1 \in 1 .. Len(Queue) /\ Queue[1 + 1] = Period(0)
                BY <1>6, <4>1 DEF StopBehind
            <4> QED BY <4>2
        <3>2. Tail(Queue) # <<>> /\ Head(Tail(Queue)) = Queue[2]
            <4> DEFINE s == Queue
            <4>1. s \in Seq(Order) /\ Len(s) \in Nat /\ Len(s) >= 2
                BY <1>2, <3>1
            <4> HIDE DEF s
            <4>2. Len(Tail(s)) >= 1 /\ Tail(s)[1] = s[2]
                BY <4>1
            <4> DEFINE t == Tail(s)
            <4>3. t \in Seq(Order) /\ Len(t) = Len(s) - 1
                BY <4>1
            <4>4. Len(t) >= 1 /\ t[1] = s[2]
                BY <4>2
            <4> HIDE DEF t
            <4>5. t # <<>> /\ Head(t) = s[2]
                BY <4>3, <4>4
            <4> QED BY <4>5 DEF s, t
        <3> QED BY <3>1, <3>2
    <2> QED BY <2>1, <2>2, <2>3 DEF Guided
<1>13. CASE SetPeriod
    <2>1. /\ m.type = "period" /\ txq' \o pending' = Tail(Queue)
          /\ iv_offset_period' = m.value /\ UNCHANGED iv_time_offset
        BY <1>1, <1>2, <1>13 DEF SetPeriod
    <2>2. Follows(Tail(Queue), ready)
        BY <1>9, <2>1 DEF Whole
    <2>3. m.value # 0 => ready
        BY <1>3, <1>6, <1>7, <2>1 DEF SmallBefore
    <2> QED BY <2>1, <2>2, <2>3 DEF Guided
<1> QED BY <1>10, <1>11, <1>12, <1>13 DEF SwitchStep

LEMMA NextGuide == GuideOK /\ Inv /\ [Next]_vars => GuideOK'
<1> SUFFICES ASSUME GuideOK, Inv, [Next]_vars PROVE GuideOK'
    OBVIOUS
<1>1. ASSUME UNCHANGED <<iv_time_offset, iv_offset_period, half, writes>>
      PROVE  GuideOK'
    <2>1. dropped' = dropped /\ txq' \o pending' = Queue
        BY <1>1 DEF writes, Queue
    <2> QED BY <1>1, <2>1, SameQueue
<1>2. CASE \/ Tick \/ sync_handler_master \/ LoseDown \/ LoseUp \/ UNCHANGED vars
           \/ \E d \in LinkDelay, kept \in 0 .. MaxNow, wrapped \in {0, 1} :
                delay_req_handler(d, kept, wrapped)
    BY <1>1, <1>2 DEF Tick, sync_handler_master, LoseDown, LoseUp, delay_req_handler, vars, switch
<1>3. CASE \E d \in LinkDelay, kept \in 0 .. MaxNow, wrapped \in {0, 1} :
                sync_handler_slave(d, kept, wrapped)
    <2>1. \A kept \in 0 .. MaxNow : kept \in Nat
        OBVIOUS
    <2> QED BY <1>3, <2>1, SyncSlaveGuide
<1>4. CASE delay_resp_handler_1
    BY <1>4, DelayRespGuide
<1>5. CASE WriteNext
    BY <1>5, WriteNextGuide
<1>6. CASE StampRequest \/ SetOffsetLow \/ SetOffset \/ SetPeriod
    BY <1>6, SwitchGuide DEF SwitchStep
<1> QED BY <1>2, <1>3, <1>4, <1>5, <1>6 DEF Next

\* While every message of delay_resp_handler_1 found room in the queue (ptp.c:511-599),
\* the clock is guided by one cycle or none, and by a whole offset only in the gap
\* between its register's write and the stop's: for any offsets, sizes, delays, losses
\* and overlapping exchanges.
THEOREM GuidedByOneCycle == Spec => []GuidesByOneCycle
<1>1. Init => Inv /\ GuideOK
    BY InitInv, InitGuide
<1>2. Inv /\ GuideOK /\ [Next]_vars => Inv' /\ GuideOK'
    BY NextInv, NextGuide
<1>3. GuideOK => GuidesByOneCycle
    BY DEF GuideOK, Guided, GuidesByOneCycle, Queue, Whole
<1> QED BY <1>1, <1>2, <1>3, PTL DEF Spec
=============================================================================
