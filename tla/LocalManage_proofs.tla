------------------------- MODULE LocalManage_proofs -------------------------
(***************************************************************************)
(* Proofs about the start of a node, for any configuration, any order of   *)
(* the sections and any capacity of the transmit queue.                    *)
(***************************************************************************)
EXTENDS LocalManage, SequenceTheorems, WellFoundedInduction, TLAPS

\* A non-empty set of naturals has a least element: what every induction below
\* is made of.
LEMMA Smallest ==
    ASSUME NEW T, T \subseteq Nat, T # {}
    PROVE  \E n \in T : \A m \in T : n <= m
<1> DEFINE R == OpToRel(<, Nat)
<1>1. IsWellFoundedOn(R, Nat)
    BY NatLessThanWellFounded
<1>2. \A m, n \in Nat : m < n => <<m, n>> \in R
    BY DEF OpToRel
<1> HIDE DEF R
<1>3. \E n \in T : \A m \in T : <<m, n>> \notin R
    BY <1>1, WFMin
<1>4. PICK n \in T : \A m \in T : <<m, n>> \notin R
    BY <1>3
<1>5. ASSUME NEW m \in T PROVE n <= m
    <2>1. n \in Nat /\ m \in Nat
        OBVIOUS
    <2>2. ~(m < n)
        BY <2>1, <1>2, <1>4
    <2> QED BY <2>1, <2>2
<1> QED BY <1>5

LEMMA FcnSeq ==
    ASSUME NEW S, NEW n \in Nat, NEW s \in [1 .. n -> S]
    PROVE  s \in Seq(S) /\ Len(s) = n
<1>1. s \in Seq(S)
    BY SeqDef
<1> QED BY <1>1, LenProperties

\* The definition by recursion that FlattenSeq is made of has a solution.
LEMMA FlattenExists ==
    ASSUME NEW ss, NEW N \in Nat
    PROVE  \A n \in 1 .. N :
            \E f : f = [i \in 1 .. n |-> IF i = 1 THEN ss[i] ELSE f[i - 1] \o ss[i]]
<1> DEFINE Rhs(n, f) == [i \in 1 .. n |-> IF i = 1 THEN ss[i] ELSE f[i - 1] \o ss[i]]
           Solved(n) == \E f : f = Rhs(n, f)
           Bad == {n \in 1 .. N : ~Solved(n)}
<1> HIDE DEF Solved
<1>1. CASE Bad = {}
    BY <1>1 DEF Solved
<1>2. CASE Bad # {}
    <2>1. Bad \subseteq Nat
        OBVIOUS
    <2>2. PICK m \in Bad : \A k \in Bad : m <= k
        BY <1>2, <2>1, Smallest
    <2>3. m \in 1 .. N /\ ~Solved(m)
        OBVIOUS
    <2>4. CASE m = 1
        <3> DEFINE g == [i \in 1 .. m |-> ss[1]]
        <3>1. \A i \in 1 .. m : g[i] = IF i = 1 THEN ss[i] ELSE g[i - 1] \o ss[i]
            BY <2>4
        <3>2. g = [i \in 1 .. m |-> g[i]]
            OBVIOUS
        <3> HIDE DEF g
        <3>3. g = Rhs(m, g)
            BY <3>1, <3>2
        <3> QED BY <2>3, <3>3 DEF Solved
    <2>5. CASE m # 1
        <3>1. m - 1 \in 1 .. N /\ m - 1 \in Nat /\ m \in Nat /\ m > 1
            BY <2>3, <2>5
        <3>2. m - 1 \notin Bad
            BY <2>2, <3>1
        <3>3. PICK f : f = Rhs(m - 1, f)
            BY <3>1, <3>2 DEF Solved
        <3>4. \A i \in 1 .. m - 1 : f[i] = IF i = 1 THEN ss[i] ELSE f[i - 1] \o ss[i]
            BY <3>3
        <3>5. PICK last : last = f[m - 1] \o ss[m]
            OBVIOUS
        <3> DEFINE g == [i \in 1 .. m |-> IF i < m THEN f[i] ELSE last]
        <3>6. \A i \in 1 .. m - 1 : g[i] = f[i]
            BY <3>1
        <3>7. g[m] = last /\ g = [i \in 1 .. m |-> g[i]]
            BY <3>1
        <3> HIDE DEF g
        <3>8. ASSUME NEW i \in 1 .. m PROVE g[i] = IF i = 1 THEN ss[i] ELSE g[i - 1] \o ss[i]
            <4>1. CASE i = m
                <5>1. g[m - 1] = f[m - 1]
                    BY <3>1, <3>6
                <5>2. g[i] = g[i - 1] \o ss[i]
                    BY <3>5, <3>7, <4>1, <5>1
                <5>3. i # 1
                    BY <3>1, <4>1
                <5> QED BY <5>2, <5>3
            <4>2. CASE i # m
                <5>1. i \in 1 .. m - 1
                    BY <3>1, <4>2
                <5>2. i = 1 \/ i - 1 \in 1 .. m - 1
                    BY <3>1, <5>1
                <5>3. i = 1 \/ g[i - 1] = f[i - 1]
                    BY <3>6, <5>2
                <5> QED BY <3>4, <3>6, <5>1, <5>3
            <4> QED BY <4>1, <4>2
        <3>9. g = Rhs(m, g)
            BY <3>7, <3>8
        <3> QED BY <2>3, <3>9 DEF Solved
    <2> QED BY <2>4, <2>5
<1> QED BY <1>1, <1>2

\* FlattenSeq chains the sequences of a list.
LEMMA FlattenEquation ==
    ASSUME NEW S, NEW ss \in Seq(Seq(S)), Len(ss) > 0
    PROVE  \E f \in [1 .. Len(ss) -> Seq(S)] :
              /\ f[1] = ss[1]
              /\ \A i \in 2 .. Len(ss) : f[i] = f[i - 1] \o ss[i]
              /\ FlattenSeq(ss) = f[Len(ss)]
<1> DEFINE N == Len(ss)
           Rhs(f) == [i \in 1 .. N |-> IF i = 1 THEN ss[i] ELSE f[i - 1] \o ss[i]]
           F == CHOOSE f : f = Rhs(f)
<1>1. N \in Nat /\ N > 0 /\ \A i \in 1 .. N : ss[i] \in Seq(S)
    OBVIOUS
<1>2. \E f : f = Rhs(f)
    <2> DEFINE Solved(n) ==
                  \E f : f = [i \in 1 .. n |-> IF i = 1 THEN ss[i] ELSE f[i - 1] \o ss[i]]
    <2> HIDE DEF N
    <2>1. \A n \in 1 .. N : Solved(n)
        BY <1>1, FlattenExists, Zenon
    <2> HIDE DEF Solved
    <2>2. Solved(N)
        BY <1>1, <2>1
    <2> QED BY <2>2 DEF Solved
<1>3. F = Rhs(F)
    <2> HIDE DEF Rhs
    <2> QED BY <1>2
<1>4. FlattenSeq(ss) = F[N]
    BY <1>1 DEF FlattenSeq
<1> HIDE DEF F, N
<1>5. \A i \in 1 .. N : F[i] = IF i = 1 THEN ss[i] ELSE F[i - 1] \o ss[i]
    BY <1>3
<1>6. F = [i \in 1 .. N |-> F[i]]
    BY <1>3, <1>5
<1> HIDE DEF Rhs
<1>7. F[1] = ss[1]
    BY <1>1, <1>5
<1>8. ASSUME NEW i \in 2 .. N PROVE F[i] = F[i - 1] \o ss[i]
    <2>1. i \in 1 .. N /\ i # 1
        BY <1>1
    <2> QED BY <1>5, <2>1
<1>9. ASSUME NEW n \in 1 .. N PROVE F[n] \in Seq(S)
    <2> DEFINE Bad == {m \in 1 .. N : F[m] \notin Seq(S)}
    <2>1. CASE Bad = {}
        BY <2>1
    <2>2. CASE Bad # {}
        <3>1. Bad \subseteq Nat
            BY <1>1
        <3>2. PICK m \in Bad : \A k \in Bad : m <= k
            BY <2>2, <3>1, Smallest
        <3>3. CASE m = 1
            BY <1>1, <1>7, <3>2, <3>3
        <3>4. CASE m > 1
            <4>1. m - 1 \in 1 .. N /\ m \in 2 .. N /\ m - 1 \notin Bad
                BY <1>1, <3>2, <3>4
            <4>2. F[m - 1] \in Seq(S) /\ ss[m] \in Seq(S)
                BY <1>1, <4>1
            <4>3. F[m] = F[m - 1] \o ss[m]
                BY <1>8, <4>1
            <4>4. F[m] \in Seq(S)
                BY <4>2, <4>3, ConcatProperties
            <4> QED BY <4>4
        <3> QED BY <1>1, <3>2, <3>3, <3>4
    <2> QED BY <2>1, <2>2
<1>10. F \in [1 .. N -> Seq(S)]
    BY <1>6, <1>9
<1> QED BY <1>1, <1>4, <1>7, <1>8, <1>10 DEF N

\* Five sequences chained from the left are the first before the four others; the
\* sequences of S are here any set T that \o is associative in.
Closed(T) == \A x, y \in T : x \o y \in T
Associative(T) == \A x, y, z \in T : (x \o y) \o z = x \o (y \o z)
FromLeft(a, b, c, d, e) == (((a \o b) \o c) \o d) \o e
FromRight(a, b, c, d, e) == a \o (b \o (c \o (d \o e)))

LEMMA ConcatIn ==
    ASSUME NEW S, NEW T, T = Seq(S)
    PROVE  Closed(T) /\ Associative(T)
<1>1. ASSUME NEW x \in T, NEW y \in T PROVE x \o y \in T
    BY <1>1
<1>2. ASSUME NEW x \in T, NEW y \in T, NEW z \in T PROVE (x \o y) \o z = x \o (y \o z)
    <2>1. x \in Seq(S) /\ y \in Seq(S) /\ z \in Seq(S)
        OBVIOUS
    <2> QED BY <2>1
<1> QED BY <1>1, <1>2 DEF Closed, Associative

LEMMA ConcatThree ==
    ASSUME NEW T, NEW a \in T, NEW b \in T, NEW c \in T, Associative(T)
    PROVE  (a \o b) \o c = a \o (b \o c)
BY DEF Associative

LEMMA ConcatFive ==
    ASSUME NEW T, NEW a \in T, NEW b \in T, NEW c \in T, NEW d \in T, NEW e \in T,
           Closed(T), Associative(T)
    PROVE  FromLeft(a, b, c, d, e) = FromRight(a, b, c, d, e)
<1> DEFINE Cat(x, y) == x \o y
<1>1. \A x, y \in T : Cat(x, y) \in T
    BY DEF Closed
<1>2. \A x, y, z \in T : Cat(Cat(x, y), z) = Cat(x, Cat(y, z))
    BY DEF Associative
<1>3. /\ FromLeft(a, b, c, d, e) = Cat(Cat(Cat(Cat(a, b), c), d), e)
      /\ FromRight(a, b, c, d, e) = Cat(a, Cat(b, Cat(c, Cat(d, e))))
    BY Zenon DEF FromLeft, FromRight
<1> HIDE DEF Cat
<1>4. Cat(a, b) \in T /\ Cat(d, e) \in T
    BY <1>1
<1>5. Cat(Cat(a, b), c) \in T /\ Cat(c, Cat(d, e)) \in T
    BY <1>1, <1>4
<1>6. Cat(Cat(Cat(Cat(a, b), c), d), e) = Cat(Cat(Cat(a, b), c), Cat(d, e))
    BY <1>2, <1>5
<1>7. Cat(Cat(Cat(a, b), c), Cat(d, e)) = Cat(Cat(a, b), Cat(c, Cat(d, e)))
    BY <1>2, <1>4
<1>8. Cat(Cat(a, b), Cat(c, Cat(d, e))) = Cat(a, Cat(b, Cat(c, Cat(d, e))))
    BY <1>2, <1>5
<1> QED BY <1>3, <1>6, <1>7, <1>8

\* The same, with the type of the sequences out of sight.
LEMMA FlattenSteps ==
    ASSUME NEW S, NEW ss \in Seq(Seq(S)), Len(ss) > 0, NEW T, T = Seq(S)
    PROVE  /\ \A i \in 1 .. Len(ss) : ss[i] \in T
           /\ \E f :
                /\ \A i \in 1 .. Len(ss) : f[i] \in T
                /\ f[1] = ss[1]
                /\ \A i \in 2 .. Len(ss) : f[i] = f[i - 1] \o ss[i]
                /\ FlattenSeq(ss) = f[Len(ss)]
<1>1. ss \in Seq(T)
    OBVIOUS
<1>2. \A i \in 1 .. Len(ss) : ss[i] \in T
    BY <1>1, ElementOfSeq
<1> DEFINE First(f) == f[1] = ss[1]
           Then(f) == \A i \in 2 .. Len(ss) : f[i] = f[i - 1] \o ss[i]
           Total(f) == FlattenSeq(ss) = f[Len(ss)]
<1>3. PICK f \in [1 .. Len(ss) -> Seq(S)] : First(f) /\ Then(f) /\ Total(f)
    BY FlattenEquation
<1> HIDE DEF First, Then, Total
<1>4. f \in [1 .. Len(ss) -> T]
    OBVIOUS
<1>5. \A i \in 1 .. Len(ss) : f[i] \in T
    BY <1>4, Zenon
<1> QED BY <1>2, <1>3, <1>5, Zenon DEF First, Then, Total

LEMMA FlattenFive ==
    ASSUME NEW S, NEW ss \in Seq(Seq(S)), Len(ss) = 5
    PROVE  FlattenSeq(ss) = FromLeft(ss[1], ss[2], ss[3], ss[4], ss[5])
<1>1. PICK T : T = Seq(S)
    OBVIOUS
<1> DEFINE Then(f) == \A i \in 2 .. Len(ss) : f[i] = f[i - 1] \o ss[i]
           Total(f) == FlattenSeq(ss) = f[Len(ss)]
<1>2. Len(ss) > 0
    OBVIOUS
<1>3. \E f : f[1] = ss[1] /\ Then(f) /\ Total(f)
    BY <1>2, <1>1, FlattenSteps, Zenon
<1>4. PICK f : f[1] = ss[1] /\ Then(f) /\ Total(f)
    BY <1>3
<1>5. 2 - 1 = 1 /\ 3 - 1 = 2 /\ 4 - 1 = 3 /\ 5 - 1 = 4
    OBVIOUS
<1>6. 2 \in 2 .. 5 /\ 3 \in 2 .. 5 /\ 4 \in 2 .. 5 /\ 5 \in 2 .. 5
    OBVIOUS
<1>7. f[2] = f[1] \o ss[2] /\ f[3] = f[2] \o ss[3] /\ f[4] = f[3] \o ss[4] /\ f[5] = f[4] \o ss[5]
    BY <1>4, <1>5, <1>6, Zenon
<1> QED BY <1>4, <1>7, Zenon DEF FromLeft

\* The elements of a flattened list are those of its members.
LEMMA FlattenMembers ==
    ASSUME NEW S, NEW ss \in Seq(Seq(S)), Len(ss) > 0
    PROVE  /\ FlattenSeq(ss) \in Seq(S)
           /\ \A e : e \in Range(FlattenSeq(ss)) <=> \E i \in 1 .. Len(ss) : e \in Range(ss[i])
<1>1. PICK T : T = Seq(S)
    OBVIOUS
<1>2. PICK N : N = Len(ss) /\ N \in Nat /\ N > 0
    OBVIOUS
<1>3. \A i \in 1 .. N : ss[i] \in T
    BY <1>1, <1>2, FlattenSteps
<1> DEFINE Then(f) == \A i \in 2 .. N : f[i] = f[i - 1] \o ss[i]
           Typed(f) == \A i \in 1 .. N : f[i] \in T
<1>4. PICK f : Typed(f) /\ f[1] = ss[1] /\ Then(f) /\ FlattenSeq(ss) = f[N]
    BY <1>1, <1>2, FlattenSteps
<1> DEFINE Holds(m) == \A e : e \in Range(f[m]) <=> \E i \in 1 .. m : e \in Range(ss[i])
           Bad == {m \in 1 .. N : ~Holds(m)}
<1>5. Holds(1)
    <2>1. 1 .. 1 = {1}
        OBVIOUS
    <2> QED BY <1>4, <2>1, Zenon
<1>6. ASSUME NEW m \in 2 .. N, Holds(m - 1) PROVE Holds(m)
    <2>1. m - 1 \in 1 .. N /\ m \in 1 .. N /\ 1 .. m = (1 .. m - 1) \cup {m}
        BY <1>2
    <2>2. f[m - 1] \in Seq(S) /\ ss[m] \in Seq(S) /\ f[m] = f[m - 1] \o ss[m]
        BY <1>1, <1>3, <1>4, <2>1, Zenon
    <2>3. Range(f[m]) = Range(f[m - 1]) \cup Range(ss[m])
        BY <2>2, RangeConcatenation
    <2>4. \A i : i \in 1 .. m <=> (i \in 1 .. m - 1 \/ i = m)
        BY <2>1
    <2> QED BY <1>6, <2>3, <2>4, Zenon
<1> HIDE DEF Holds
<1>7. Bad = {}
    <2>1. SUFFICES ASSUME Bad # {} PROVE FALSE
        OBVIOUS
    <2>2. Bad \subseteq Nat
        BY <1>2
    <2>3. PICK m \in Bad : \A k \in Bad : m <= k
        BY <2>1, <2>2, Smallest
    <2>4. m \in 1 .. N /\ ~Holds(m)
        OBVIOUS
    <2>5. m # 1
        BY <1>5, <2>4
    <2>6. m \in 2 .. N /\ m - 1 \in 1 .. N /\ m - 1 < m
        BY <1>2, <2>4, <2>5
    <2>7. m - 1 \notin Bad
        BY <2>3, <2>6
    <2>8. Holds(m - 1)
        BY <2>6, <2>7
    <2> QED BY <1>6, <2>4, <2>6, <2>8
<1>8. N \in 1 .. N
    BY <1>2
<1>9. Holds(N)
    BY <1>7, <1>8
<1>10. f[N] \in T
    BY <1>4, <1>8
<1> QED BY <1>1, <1>2, <1>4, <1>9, <1>10, Zenon DEF Holds

\* The head and the tail of what is left of one sequence before another.
LEMMA Ahead ==
    ASSUME NEW S, NEW b \in Seq(S), NEW a \in Seq(S), NEW j \in 0 .. Len(b) - 1
    PROVE  /\ SubSeq(b, j + 1, Len(b)) \o a # <<>>
           /\ Head(SubSeq(b, j + 1, Len(b)) \o a) = b[j + 1]
           /\ Tail(SubSeq(b, j + 1, Len(b)) \o a) = SubSeq(b, j + 2, Len(b)) \o a
<1> DEFINE s == SubSeq(b, j + 1, Len(b))
           u == SubSeq(b, j + 2, Len(b))
<1>1. Len(b) \in Nat /\ j \in Int
    OBVIOUS
<1>2. s \in Seq(S) /\ Len(s) = Len(b) - j /\ \A i \in 1 .. Len(b) - j : s[i] = b[j + i]
    BY <1>1
<1>3. u \in Seq(S) /\ Len(u) = Len(b) - j - 1 /\ \A i \in 1 .. Len(b) - j - 1 : u[i] = b[j + 1 + i]
    BY <1>1
<1> HIDE DEF s, u
<1>4. s \o a \in Seq(S) /\ Len(s \o a) = Len(s) + Len(a)
        /\ \A i \in 1 .. Len(s) + Len(a) : (s \o a)[i] = IF i <= Len(s) THEN s[i] ELSE a[i - Len(s)]
    BY <1>2, ConcatProperties
<1>5. u \o a \in Seq(S) /\ Len(u \o a) = Len(u) + Len(a)
        /\ \A i \in 1 .. Len(u) + Len(a) : (u \o a)[i] = IF i <= Len(u) THEN u[i] ELSE a[i - Len(u)]
    BY <1>3, ConcatProperties
<1> DEFINE x == s \o a
           y == u \o a
<1>6. x \in Seq(S) /\ y \in Seq(S) /\ Len(a) \in Nat /\ Len(x) = Len(y) + 1
    BY <1>1, <1>2, <1>3, <1>4, <1>5
<1>7. x[1] = b[j + 1]
    BY <1>1, <1>2, <1>4, <1>6
<1>8. ASSUME NEW i \in 1 .. Len(y) PROVE y[i] = x[i + 1]
    <2>1. CASE i <= Len(u)
        <3>1. y[i] = b[j + 1 + i]
            BY <1>1, <1>3, <1>5, <1>6, <2>1
        <3>2. i + 1 \in 1 .. Len(s) /\ i + 1 \in 1 .. Len(s) + Len(a)
            BY <1>1, <1>2, <1>3, <1>6, <2>1
        <3>3. x[i + 1] = s[i + 1]
            BY <1>4, <3>2
        <3>4. s[i + 1] = b[j + (i + 1)]
            BY <1>2, <3>2
        <3> QED BY <1>1, <3>1, <3>3, <3>4
    <2>2. CASE i > Len(u)
        <3>1. y[i] = a[i - Len(u)]
            BY <1>1, <1>3, <1>5, <1>6, <2>2
        <3>2. PICK o : o = i + 1
            OBVIOUS
        <3>3. o \in 1 .. Len(s) + Len(a) /\ ~(o <= Len(s)) /\ o - Len(s) = i - Len(u)
            BY <1>1, <1>2, <1>3, <1>5, <1>6, <2>2, <3>2
        <3>4. x[o] = a[o - Len(s)]
            BY <1>4, <3>3
        <3> QED BY <3>1, <3>2, <3>3, <3>4
    <2>3. i \in Int /\ Len(u) \in Int
        BY <1>1, <1>3
    <2>4. i <= Len(u) \/ i > Len(u)
        BY <2>3
    <2> QED BY <2>1, <2>2, <2>4, Zenon
<1> HIDE DEF x, y
<1>9. x # <<>>
    BY <1>6
<1>10. Head(x) = b[j + 1]
    BY <1>6, <1>7, <1>9
<1>11. Tail(x) \in Seq(S) /\ Len(Tail(x)) = Len(y) /\ \A i \in 1 .. Len(y) : Tail(x)[i] = x[i + 1]
    BY <1>6, <1>9, HeadTailProperties
<1>12. Tail(x) = y
    BY <1>6, <1>8, <1>11, SeqEqual
<1> QED BY <1>9, <1>10, <1>12 DEF x, y, s, u

LEMMA Single ==
    ASSUME NEW S, NEW e \in S
    PROVE  <<e>> \in Seq(S) /\ Len(<<e>>) = 1 /\ <<e>>[1] = e
OBVIOUS

LEMMA Double ==
    ASSUME NEW S, NEW d \in S, NEW e \in S
    PROVE  <<d, e>> \in Seq(S) /\ Len(<<d, e>>) = 2 /\ <<d, e>>[1] = d /\ <<d, e>>[2] = e
OBVIOUS

\* The elements of three sequences in a row.
LEMMA InRow ==
    ASSUME NEW S, NEW h \in Seq(S), NEW l \in Seq(S), NEW t \in Seq(S), NEW b, b = (h \o l) \o t
    PROVE  /\ b \in Seq(S) /\ Len(b) = Len(h) + Len(l) + Len(t)
           /\ \A i \in 1 .. Len(h) : b[i] = h[i]
           /\ \A i \in 1 .. Len(l) : b[Len(h) + i] = l[i]
           /\ \A i \in 1 .. Len(t) : b[Len(h) + Len(l) + i] = t[i]
<1>1. Len(h) \in Nat /\ Len(l) \in Nat /\ Len(t) \in Nat
    OBVIOUS
<1>2. PICK m : m = h \o l
    OBVIOUS
<1>3. m \in Seq(S) /\ Len(m) = Len(h) + Len(l)
    BY <1>2, ConcatProperties
<1>4. \A i \in 1 .. Len(h) + Len(l) : m[i] = IF i <= Len(h) THEN h[i] ELSE l[i - Len(h)]
    BY <1>2, ConcatProperties
<1>5. b = m \o t
    BY <1>2
<1>6. b \in Seq(S) /\ Len(b) = Len(m) + Len(t)
    BY <1>3, <1>5, ConcatProperties
<1>7. \A i \in 1 .. Len(m) + Len(t) : b[i] = IF i <= Len(m) THEN m[i] ELSE t[i - Len(m)]
    BY <1>3, <1>5, ConcatProperties
<1>8. ASSUME NEW i \in 1 .. Len(h) PROVE b[i] = h[i]
    <2>1. i \in 1 .. Len(h) + Len(l) /\ i \in 1 .. Len(m) + Len(t) /\ i <= Len(h) /\ i <= Len(m)
        BY <1>1, <1>3
    <2>2. m[i] = h[i]
        BY <1>4, <2>1
    <2>3. b[i] = m[i]
        BY <1>7, <2>1
    <2> QED BY <2>2, <2>3
<1>9. ASSUME NEW i \in 1 .. Len(l) PROVE b[Len(h) + i] = l[i]
    <2>1. PICK o : o = Len(h) + i
        OBVIOUS
    <2>2. o \in 1 .. Len(h) + Len(l) /\ o \in 1 .. Len(m) + Len(t) /\ ~(o <= Len(h)) /\ o <= Len(m)
            /\ o - Len(h) = i
        BY <1>1, <1>3, <2>1
    <2>3. m[o] = l[o - Len(h)]
        BY <1>4, <2>2
    <2>4. b[o] = m[o]
        BY <1>7, <2>2
    <2> QED BY <2>1, <2>2, <2>3, <2>4
<1>10. ASSUME NEW i \in 1 .. Len(t) PROVE b[Len(h) + Len(l) + i] = t[i]
    <2>1. PICK o : o = Len(h) + Len(l) + i
        OBVIOUS
    <2>2. o \in 1 .. Len(m) + Len(t) /\ ~(o <= Len(m)) /\ o - Len(m) = i
        BY <1>1, <1>3, <2>1
    <2>3. b[o] = t[o - Len(m)]
        BY <1>7, <2>2
    <2> QED BY <2>1, <2>2, <2>3
<1> QED BY <1>3, <1>6, <1>8, <1>9, <1>10

-----------------------------------------------------------------------------
(* The file                                                                  *)

Value == Nat \cup Section \cup {"gate_in"} \cup ForwardEntry \cup TimeEntry
            \cup [port : Port, words : Seq(Nat)]
\* The two braces, of which the provers only need to know that they are keys of
\* their own.
Open == Line("{", 0)
Close == Line("}", 0)
IsOpen(line) == line.key = "{"
IsClose(line) == line.key = "}"
Brace == {"{", "}"}
Key == DOMAIN RegisterAddr \cup {"entry", "depth", "gate_out", "type"} \cup Brace
FileLine == [key : Key, val : Value]

LEMMA Braces ==
    /\ Open \in FileLine /\ IsOpen(Open) /\ Close \in FileLine /\ IsClose(Close) /\ ~IsOpen(Close)
    /\ \A k, v : k \in {"entry", "depth", "gate_out", "type"} => ~IsOpen(Line(k, v)) /\ ~IsClose(Line(k, v))
    /\ \A r \in DOMAIN RegisterAddr : \A v : ~IsClose(Line(r, v))
<1>1. Open \in FileLine /\ Close \in FileLine
    <2>1. "{" \in Key /\ "}" \in Key
        BY DEF Key, Brace
    <2>2. 0 \in Value
        BY DEF Value
    <2>3. \A k \in Key : Line(k, 0) \in FileLine
        BY <2>2 DEF FileLine, Line
    <2> QED BY <2>1, <2>3, Zenon DEF Open, Close
<1>2. \A k, v : Line(k, v).key = k
    BY DEF Line
<1>3. IsOpen(Open) /\ IsClose(Close) /\ ~IsOpen(Close)
    <2>1. Open.key = "{" /\ Close.key = "}"
        BY <1>2, Zenon DEF Open, Close
    <2>2. "{" # "}"
        BY Zenon
    <2> QED BY <2>1, <2>2, Zenon DEF IsOpen, IsClose
<1>4. \A k : k \in {"entry", "depth", "gate_out", "type"} => k # "{" /\ k # "}"
    BY Zenon
<1>5. \A k \in DOMAIN RegisterAddr : k # "}"
    <2>1. DOMAIN RegisterAddr =
            {"slot_length", "port_type", "qbv_or_qch", "report_type", "report_en",
             "inject_slot_period", "submit_slot_period", "report_period",
             "rc_regulation_value", "be_regulation_value", "unmap_regulation_value"}
        BY DEF RegisterAddr
    <2> QED BY <2>1, Zenon
<1> QED BY <1>1, <1>2, <1>3, <1>4, <1>5, Zenon DEF IsOpen, IsClose

LEMMA Constants == Ports \in 1 .. 9 /\ MaxDepth \in Nat /\ TxCap \in Nat \ {0} /\ Batch \in Nat \ {0, 1}
BY LoaderAssumption

\* What a configuration holds.
LEMMA Configured ==
    ASSUME NEW c \in Config
    PROVE  /\ c.given \in Seq(DOMAIN RegisterAddr) /\ c.reg \in [ToSet(c.given) -> Nat]
           /\ c.forward \in Seq(ForwardEntry)
           /\ c.inject \in Seq(TimeEntry) /\ c.submit \in Seq(TimeEntry)
           /\ c.depth \in 1 .. MaxDepth /\ c.depth % Batch \notin {0, Batch - 1}
           /\ c.gate \in [Port -> Seq(Nat)] /\ \A p \in Port : Len(c.gate[p]) = c.depth
           /\ c.order \in Seq(Section) /\ Len(c.order) = 5 /\ IsInjective(c.order)
           /\ c.unknown \in BOOLEAN
BY LoaderAssumption

LEMMA GivenRegister ==
    ASSUME NEW c \in Config, NEW i \in 1 .. Len(c.given)
    PROVE  c.given[i] \in DOMAIN RegisterAddr /\ c.reg[c.given[i]] \in Nat
<1>1. c.given \in Seq(DOMAIN RegisterAddr) /\ c.reg \in [ToSet(c.given) -> Nat]
    BY Configured
<1>2. c.given[i] \in DOMAIN RegisterAddr
    BY <1>1, ElementOfSeq
<1>3. c.given[i] \in ToSet(c.given)
    BY <1>1 DEF ToSet
<1> QED BY <1>1, <1>2, <1>3

LEMMA LinesRegister ==
    ASSUME NEW c \in Config
    PROVE  /\ Lines(c, "register") \in Seq(FileLine) /\ Len(Lines(c, "register")) = Len(c.given)
           /\ \A i \in 1 .. Len(c.given) : Lines(c, "register")[i] = Line(c.given[i], c.reg[c.given[i]])
<1> DEFINE f == [i \in 1 .. Len(c.given) |-> Line(c.given[i], c.reg[c.given[i]])]
<1>1. Lines(c, "register") = f
    BY DEF Lines
<1>2. Len(c.given) \in Nat
    BY Configured
<1>3. ASSUME NEW i \in 1 .. Len(c.given) PROVE Line(c.given[i], c.reg[c.given[i]]) \in FileLine
    BY GivenRegister DEF FileLine, Key, Value, Line
<1>4. f \in [1 .. Len(c.given) -> FileLine]
    BY <1>3
<1>5. \A i \in 1 .. Len(c.given) : f[i] = Line(c.given[i], c.reg[c.given[i]])
    OBVIOUS
<1> HIDE DEF f
<1> QED BY <1>1, <1>2, <1>4, <1>5, FcnSeq

LEMMA EntryLines ==
    ASSUME NEW E \in SUBSET Value, NEW list \in Seq(E), NEW lines,
           lines = [i \in 1 .. Len(list) |-> Line("entry", list[i])]
    PROVE  /\ lines \in Seq(FileLine) /\ Len(lines) = Len(list)
           /\ \A i \in 1 .. Len(list) : lines[i] = Line("entry", list[i])
<1>1. Len(list) \in Nat
    OBVIOUS
<1>2. \A e \in E : Line("entry", e) \in FileLine
    BY DEF FileLine, Key, Line
<1>3. \A i \in 1 .. Len(list) : list[i] \in E
    BY ElementOfSeq
<1>4. lines \in [1 .. Len(list) -> FileLine]
    BY <1>2, <1>3
<1> QED BY <1>1, <1>4, FcnSeq

LEMMA LinesForward ==
    ASSUME NEW c \in Config
    PROVE  /\ Lines(c, "forward_info") \in Seq(FileLine) /\ Len(Lines(c, "forward_info")) = Len(c.forward)
           /\ \A i \in 1 .. Len(c.forward) : Lines(c, "forward_info")[i] = Line("entry", c.forward[i])
<1>1. ForwardEntry \in SUBSET Value /\ c.forward \in Seq(ForwardEntry)
    BY Configured DEF Value
<1>2. Lines(c, "forward_info") = [i \in 1 .. Len(c.forward) |-> Line("entry", c.forward[i])]
    BY DEF Lines
<1> QED BY <1>1, <1>2, EntryLines

LEMMA LinesInject ==
    ASSUME NEW c \in Config
    PROVE  /\ Lines(c, "inject_time_table") \in Seq(FileLine)
           /\ Len(Lines(c, "inject_time_table")) = Len(c.inject)
           /\ \A i \in 1 .. Len(c.inject) : Lines(c, "inject_time_table")[i] = Line("entry", c.inject[i])
<1>1. TimeEntry \in SUBSET Value /\ c.inject \in Seq(TimeEntry)
    BY Configured DEF Value
<1>2. Lines(c, "inject_time_table") = [i \in 1 .. Len(c.inject) |-> Line("entry", c.inject[i])]
    BY DEF Lines
<1> QED BY <1>1, <1>2, EntryLines

LEMMA LinesSubmit ==
    ASSUME NEW c \in Config
    PROVE  /\ Lines(c, "submit_time_table") \in Seq(FileLine)
           /\ Len(Lines(c, "submit_time_table")) = Len(c.submit)
           /\ \A i \in 1 .. Len(c.submit) : Lines(c, "submit_time_table")[i] = Line("entry", c.submit[i])
<1>1. TimeEntry \in SUBSET Value /\ c.submit \in Seq(TimeEntry)
    BY Configured DEF Value
<1>2. Lines(c, "submit_time_table") = [i \in 1 .. Len(c.submit) |-> Line("entry", c.submit[i])]
    BY DEF Lines
<1> QED BY <1>1, <1>2, EntryLines

GateInfo(c, p) == Line("gate_out", [port |-> p, words |-> c.gate[p]])

LEMMA LinesGate ==
    ASSUME NEW c \in Config
    PROVE  /\ Lines(c, "gate_out") \in Seq(FileLine) /\ Len(Lines(c, "gate_out")) = Ports + 1
           /\ Lines(c, "gate_out")[1] = Line("depth", c.depth)
           /\ \A p \in Port : Lines(c, "gate_out")[p + 2] = GateInfo(c, p)
<1> DEFINE f == [i \in 1 .. Ports |-> Line("gate_out", [port |-> i - 1, words |-> c.gate[i - 1]])]
           h == <<Line("depth", c.depth)>>
<1>1. Lines(c, "gate_out") = h \o f
    BY DEF Lines
<1>2. Line("depth", c.depth) \in FileLine
    BY Configured, Constants DEF FileLine, Key, Value, Line
<1>3. ASSUME NEW i \in 1 .. Ports
      PROVE  Line("gate_out", [port |-> i - 1, words |-> c.gate[i - 1]]) \in FileLine
    <2>1. i - 1 \in Port
        BY Constants DEF Port
    <2>2. c.gate[i - 1] \in Seq(Nat)
        BY <2>1, Configured
    <2>3. [port |-> i - 1, words |-> c.gate[i - 1]] \in [port : Port, words : Seq(Nat)]
        BY <2>1, <2>2
    <2> DEFINE v == [port |-> i - 1, words |-> c.gate[i - 1]]
    <2>4. v \in Value
        BY <2>3 DEF Value
    <2> HIDE DEF v
    <2>5. Line("gate_out", v) \in FileLine
        BY <2>4 DEF FileLine, Key, Line
    <2> QED BY <2>5 DEF v
<1>4. f \in [1 .. Ports -> FileLine]
    BY <1>3
<1>5. \A p \in Port : p + 1 \in 1 .. Ports /\ f[p + 1] = GateInfo(c, p)
    BY Constants DEF Port, GateInfo
<1> HIDE DEF f
<1>6. f \in Seq(FileLine) /\ Len(f) = Ports
    BY <1>4, Constants, FcnSeq
<1>7. h \in Seq(FileLine) /\ Len(h) = 1 /\ h[1] = Line("depth", c.depth)
    BY <1>2
<1> HIDE DEF h
<1>8. h \o f \in Seq(FileLine) /\ Len(h \o f) = Ports + 1
        /\ \A i \in 1 .. 1 + Ports : (h \o f)[i] = IF i <= 1 THEN h[i] ELSE f[i - 1]
    BY <1>6, <1>7, Constants, ConcatProperties
<1>9. (h \o f)[1] = h[1]
    BY <1>8, Constants
<1>10. ASSUME NEW p \in Port PROVE (h \o f)[p + 2] = f[p + 1]
    <2>1. p + 2 \in 1 .. 1 + Ports /\ ~(p + 2 <= 1) /\ (p + 2) - 1 = p + 1
        BY Constants DEF Port
    <2>2. (h \o f)[p + 2] = f[(p + 2) - 1]
        BY <1>8, <2>1
    <2> QED BY <2>1, <2>2
<1> QED BY <1>1, <1>5, <1>7, <1>8, <1>9, <1>10

LEMMA LinesUnknown ==
    ASSUME NEW c
    PROVE  /\ Lines(c, "gate_in") \in Seq(FileLine) /\ Len(Lines(c, "gate_in")) = 1
           /\ Lines(c, "gate_in")[1] = Line("depth", 0)
<1>1. Lines(c, "gate_in") = <<Line("depth", 0)>>
    BY DEF Lines
<1>2. Line("depth", 0) \in FileLine
    BY DEF FileLine, Key, Value, Line
<1> QED BY <1>1, <1>2, Single

LEMMA LinesTyped ==
    ASSUME NEW c \in Config, NEW s \in Section \cup {"gate_in"}
    PROVE  Lines(c, s) \in Seq(FileLine)
<1>1. CASE s = "register"
    BY <1>1, LinesRegister
<1>2. CASE s = "forward_info"
    BY <1>2, LinesForward
<1>3. CASE s = "inject_time_table"
    BY <1>3, LinesInject
<1>4. CASE s = "submit_time_table"
    BY <1>4, LinesSubmit
<1>5. CASE s = "gate_out"
    BY <1>5, LinesGate
<1>6. CASE s = "gate_in"
    BY <1>6, LinesUnknown
<1> QED BY <1>1, <1>2, <1>3, <1>4, <1>5, <1>6 DEF Section

\* A section of the file: its brackets, its type and its lines.
LEMMA BracketedLines ==
    ASSUME NEW c \in Config, NEW s \in Section \cup {"gate_in"}, NEW b, b = Bracketed(c, s)
    PROVE  /\ b \in Seq(FileLine) /\ Len(b) = Len(Lines(c, s)) + 3
           /\ b[1] = Open /\ b[2] = Line("type", s)
           /\ \A i \in 1 .. Len(Lines(c, s)) : b[i + 2] = Lines(c, s)[i]
           /\ b[Len(Lines(c, s)) + 3] = Close
<1> DEFINE h == <<Open, Line("type", s)>>
           l == Lines(c, s)
           t == <<Close>>
<1>1. Open \in FileLine /\ Line("type", s) \in FileLine /\ Close \in FileLine
    BY Braces DEF FileLine, Key, Value, Line
<1>2. h \in Seq(FileLine) /\ Len(h) = 2 /\ h[1] = Open /\ h[2] = Line("type", s)
    BY <1>1, Double
<1>3. t \in Seq(FileLine) /\ Len(t) = 1 /\ t[1] = Close
    BY <1>1, Single
<1>4. l \in Seq(FileLine) /\ Len(l) \in Nat
    BY LinesTyped
<1>5. b = (h \o l) \o t
    BY DEF Bracketed, Open, Close
<1> HIDE DEF h, l, t
<1>6. /\ b \in Seq(FileLine) /\ Len(b) = Len(h) + Len(l) + Len(t)
      /\ \A i \in 1 .. Len(h) : b[i] = h[i]
      /\ \A i \in 1 .. Len(l) : b[Len(h) + i] = l[i]
      /\ \A i \in 1 .. Len(t) : b[Len(h) + Len(l) + i] = t[i]
    <2>1. h \in Seq(FileLine) /\ l \in Seq(FileLine) /\ t \in Seq(FileLine)
        BY <1>2, <1>3, <1>4
    <2> QED BY <1>5, <2>1, InRow
<1>7. b[1] = h[1] /\ b[2] = h[2]
    BY <1>2, <1>6
<1>8. \A i \in 1 .. Len(l) : b[i + 2] = l[i]
    BY <1>2, <1>4, <1>6
<1>9. b[Len(l) + 3] = t[1]
    <2>1. 1 \in 1 .. Len(t) /\ Len(h) + Len(l) + 1 = Len(l) + 3
        BY <1>2, <1>3, <1>4
    <2> QED BY <1>6, <2>1
<1>10. Len(b) = Len(l) + 3
    BY <1>2, <1>3, <1>4, <1>6
<1> QED BY <1>2, <1>3, <1>6, <1>7, <1>8, <1>9, <1>10 DEF l

\* The six parts of the file, the last of them empty when there is no unknown
\* section, and what is behind each of them.
Block(c, k) ==
    IF k <= 5 THEN Bracketed(c, c.order[k])
    ELSE IF c.unknown THEN Bracketed(c, "gate_in") ELSE <<>>
BehindFour(c) == Block(c, 5) \o Block(c, 6)
BehindThree(c) == Block(c, 4) \o BehindFour(c)
BehindTwo(c) == Block(c, 3) \o BehindThree(c)
BehindOne(c) == Block(c, 2) \o BehindTwo(c)
Behind(c, k) ==
    CASE k = 0 -> File(c)
      [] k = 1 -> BehindOne(c)
      [] k = 2 -> BehindTwo(c)
      [] k = 3 -> BehindThree(c)
      [] k = 4 -> BehindFour(c)
      [] k = 5 -> Block(c, 6)
      [] k = 6 -> <<>>

LEMMA Ordered ==
    ASSUME NEW c \in Config
    PROVE  /\ \A k \in 1 .. 5 : c.order[k] \in Section
           /\ \A j, k \in 1 .. 5 : c.order[j] = c.order[k] => j = k
           /\ \A s \in Section : \E k \in 1 .. 5 : c.order[k] = s
<1>1. c.order \in Seq(Section) /\ Len(c.order) = 5 /\ IsInjective(c.order)
    BY Configured
<1>2. \A k \in 1 .. 5 : c.order[k] \in Section
    BY <1>1, ElementOfSeq
<1>3. DOMAIN c.order = 1 .. 5
    BY <1>1
<1>4. \A j, k \in 1 .. 5 : c.order[j] = c.order[k] => j = k
    BY <1>1, <1>3 DEF IsInjective
<1>5. ASSUME NEW s \in Section, \A k \in 1 .. 5 : c.order[k] # s PROVE FALSE
    <2> DEFINE o(k) == c.order[k]
    <2>1. o(1) \in Section \ {s} /\ o(2) \in Section \ {s} /\ o(3) \in Section \ {s}
            /\ o(4) \in Section \ {s} /\ o(5) \in Section \ {s}
        BY <1>2, <1>5
    <2>2. o(1) # o(2) /\ o(1) # o(3) /\ o(1) # o(4) /\ o(1) # o(5) /\ o(2) # o(3)
            /\ o(2) # o(4) /\ o(2) # o(5) /\ o(3) # o(4) /\ o(3) # o(5) /\ o(4) # o(5)
        BY <1>4
    <2> HIDE DEF o
    <2> QED BY <2>1, <2>2 DEF Section
<1> QED BY <1>2, <1>4, <1>5

LEMMA BlockTyped ==
    ASSUME NEW c \in Config, NEW k \in 1 .. 6
    PROVE  /\ Block(c, k) \in Seq(FileLine) /\ Len(Block(c, k)) \in Nat
           /\ k <= 5 => Block(c, k) = Bracketed(c, c.order[k]) /\ Len(Block(c, k)) = Len(Lines(c, c.order[k])) + 3
           /\ k = 6 => \/ Len(Block(c, k)) = 0
                       \/ Len(Block(c, k)) = 4 /\ Block(c, k) = Bracketed(c, "gate_in")
<1>1. CASE k <= 5
    <2>1. c.order[k] \in Section /\ Block(c, k) = Bracketed(c, c.order[k])
        BY <1>1, Ordered DEF Block
    <2>2. Block(c, k) \in Seq(FileLine) /\ Len(Block(c, k)) = Len(Lines(c, c.order[k])) + 3
        BY <2>1, BracketedLines
    <2> QED BY <1>1, <2>1, <2>2
<1>2. CASE ~(k <= 5) /\ c.unknown
    <2>1. Block(c, k) = Bracketed(c, "gate_in")
        BY <1>2 DEF Block
    <2>2. Block(c, k) \in Seq(FileLine) /\ Len(Block(c, k)) = 4
        <3>1. "gate_in" \in Section \cup {"gate_in"}
            OBVIOUS
        <3>2. Block(c, k) \in Seq(FileLine)
            BY <2>1, <3>1, BracketedLines
        <3>3. Len(Block(c, k)) = Len(Lines(c, "gate_in")) + 3
            BY <2>1, <3>1, BracketedLines
        <3>4. Len(Lines(c, "gate_in")) = 1
            BY LinesUnknown
        <3>5. Len(Block(c, k)) = 1 + 3
            BY <3>3, <3>4, Zenon
        <3>6. 1 + 3 = 4
            OBVIOUS
        <3> QED BY <3>2, <3>5, <3>6, Zenon
    <2> QED BY <1>2, <2>1, <2>2
<1>3. CASE ~(k <= 5) /\ ~c.unknown
    <2>1. Block(c, k) = <<>>
        BY <1>3 DEF Block
    <2> QED BY <1>3, <2>1
<1> QED BY <1>1, <1>2, <1>3

LEMMA BehindTyped ==
    ASSUME NEW c \in Config
    PROVE  /\ \A k \in 1 .. 6 : Behind(c, k) \in Seq(FileLine)
           /\ \A k \in 1 .. 5 : Behind(c, k) = Block(c, k + 1) \o Behind(c, k + 1)
<1>1. PICK T : T = Seq(FileLine)
    OBVIOUS
<1>2. Block(c, 2) \in T /\ Block(c, 3) \in T /\ Block(c, 4) \in T /\ Block(c, 5) \in T /\ Block(c, 6) \in T
    BY <1>1, BlockTyped
<1>3. Closed(T)
    BY <1>1, ConcatIn
<1>4. Behind(c, 6) = <<>> /\ Behind(c, 6) \in T
    <2>1. <<>> \in T
        BY <1>1
    <2>2. Behind(c, 6) = <<>>
        BY DEF Behind
    <2> QED BY <2>1, <2>2
<1>5. Behind(c, 5) = Block(c, 6) /\ Behind(c, 5) \in T
    BY <1>2 DEF Behind
<1>6. Behind(c, 5) = Block(c, 6) \o Behind(c, 6)
    BY <1>1, <1>2, <1>4, <1>5
<1>7. /\ Behind(c, 4) = BehindFour(c) /\ Behind(c, 3) = BehindThree(c)
      /\ Behind(c, 2) = BehindTwo(c) /\ Behind(c, 1) = BehindOne(c)
    BY DEF Behind
<1>8. Behind(c, 4) = Block(c, 5) \o Behind(c, 5)
    BY <1>5, <1>7, Zenon DEF BehindFour
<1>9. Behind(c, 3) = Block(c, 4) \o Behind(c, 4)
    BY <1>7, Zenon DEF BehindThree
<1>10. Behind(c, 2) = Block(c, 3) \o Behind(c, 3)
    BY <1>7, Zenon DEF BehindTwo
<1>11. Behind(c, 1) = Block(c, 2) \o Behind(c, 2)
    BY <1>7, Zenon DEF BehindOne
<1>12. Behind(c, 4) \in T
    BY <1>2, <1>3, <1>5, <1>8 DEF Closed
<1>13. Behind(c, 3) \in T
    BY <1>2, <1>3, <1>9, <1>12 DEF Closed
<1>14. Behind(c, 2) \in T
    BY <1>2, <1>3, <1>10, <1>13 DEF Closed
<1>15. Behind(c, 1) \in T
    BY <1>2, <1>3, <1>11, <1>14 DEF Closed
<1>16. \A k \in 1 .. 6 : Behind(c, k) \in T
    <2> DEFINE H(k) == Behind(c, k) \in T
    <2>1. H(1) /\ H(2) /\ H(3) /\ H(4) /\ H(5) /\ H(6)
        BY <1>4, <1>5, <1>12, <1>13, <1>14, <1>15
    <2> HIDE DEF H
    <2>2. \A k \in 1 .. 6 : H(k)
        <3>1. \A k \in 1 .. 6 : k \in {1, 2, 3, 4, 5, 6}
            OBVIOUS
        <3> QED BY <2>1, <3>1
    <2> QED BY <2>2 DEF H
<1>17. \A k \in 1 .. 5 : Behind(c, k) = Block(c, k + 1) \o Behind(c, k + 1)
    <2> DEFINE H(k, n) == Behind(c, k) = Block(c, n) \o Behind(c, n)
    <2>1. H(1, 2) /\ H(2, 3) /\ H(3, 4) /\ H(4, 5) /\ H(5, 6)
        BY <1>6, <1>8, <1>9, <1>10, <1>11
    <2> HIDE DEF H
    <2>2. \A k \in 1 .. 5 : H(k, k + 1)
        BY <2>1
    <2> QED BY <2>2 DEF H
<1> QED BY <1>1, <1>16, <1>17

LEMMA FileLayout ==
    ASSUME NEW c \in Config
    PROVE  File(c) = Block(c, 1) \o Behind(c, 1)
<1> DEFINE ss == [i \in 1 .. Len(c.order) |-> Bracketed(c, c.order[i])]
           B(k) == Block(c, k)
<1>1. PICK T : T = Seq(FileLine)
    OBVIOUS
<1>2. Len(c.order) = 5
    BY Configured
<1>3. \A i \in 1 .. 5 : ss[i] = B(i) /\ B(i) \in Seq(FileLine)
    BY <1>2, BlockTyped DEF Block
<1>4. ss \in Seq(Seq(FileLine)) /\ Len(ss) = 5
    <2>1. ss = [i \in 1 .. 5 |-> ss[i]]
        BY <1>2
    <2> HIDE DEF ss
    <2>2. ss \in [1 .. 5 -> Seq(FileLine)]
        BY <1>3, <2>1
    <2> QED BY <2>2, FcnSeq
<1> HIDE DEF B
<1>5. B(1) \in T /\ B(2) \in T /\ B(3) \in T /\ B(4) \in T /\ B(5) \in T /\ B(6) \in T
    BY <1>1, BlockTyped DEF B
<1>6. Closed(T) /\ Associative(T)
    BY <1>1, ConcatIn
<1>7. FlattenSeq(ss) = FromLeft(B(1), B(2), B(3), B(4), B(5))
    <2> HIDE DEF ss
    <2>1. FlattenSeq(ss) = FromLeft(ss[1], ss[2], ss[3], ss[4], ss[5])
        BY <1>4, FlattenFive
    <2> QED BY <1>3, <2>1
<1>8. File(c) = FlattenSeq(ss) \o B(6)
    BY DEF File, B, Block
<1> HIDE DEF ss
<1>9. PICK p : p = ((B(1) \o B(2)) \o B(3)) \o B(4)
    OBVIOUS
<1>10. p \in T
    <2>1. B(1) \o B(2) \in T
        BY <1>5, <1>6 DEF Closed
    <2>2. (B(1) \o B(2)) \o B(3) \in T
        BY <1>5, <1>6, <2>1 DEF Closed
    <2> QED BY <1>5, <1>6, <1>9, <2>2 DEF Closed
<1>11. FlattenSeq(ss) = p \o B(5)
    BY <1>7, <1>9 DEF FromLeft
<1>12. PICK e : e = B(5) \o B(6)
    OBVIOUS
<1>13. e \in T
    BY <1>5, <1>6, <1>12 DEF Closed
<1>14. (p \o B(5)) \o B(6) = p \o e
    <2>1. B(5) \in T /\ B(6) \in T
        BY <1>5
    <2>2. (p \o B(5)) \o B(6) = p \o (B(5) \o B(6))
        BY <1>6, <1>10, <2>1, ConcatThree
    <2> QED BY <1>12, <2>2
<1>15. p \o e = FromLeft(B(1), B(2), B(3), B(4), e)
    BY <1>9 DEF FromLeft
<1>16. FromLeft(B(1), B(2), B(3), B(4), e) = FromRight(B(1), B(2), B(3), B(4), e)
    <2>1. \A v, w, x, y, z \in T : FromLeft(v, w, x, y, z) = FromRight(v, w, x, y, z)
        BY <1>6, ConcatFive
    <2> QED BY <1>5, <1>13, <2>1
<1>17. Behind(c, 1) = B(2) \o (B(3) \o (B(4) \o e))
    <2>1. Behind(c, 1) = BehindOne(c)
        BY DEF Behind
    <2>2. e = BehindFour(c)
        BY <1>12, Zenon DEF BehindFour, B
    <2> QED BY <2>1, <2>2, Zenon DEF BehindOne, BehindTwo, BehindThree, B
<1> QED BY <1>8, <1>11, <1>14, <1>15, <1>16, <1>17 DEF FromRight, B

\* What is left of the file behind the first j lines of its k-th part.
Remaining(c, k, j) == SubSeq(Block(c, k), j + 1, Len(Block(c, k))) \o Behind(c, k)

LEMMA RemainingNext ==
    ASSUME NEW c \in Config, NEW k \in 1 .. 6, NEW j \in 0 .. Len(Block(c, k)) - 1
    PROVE  /\ Remaining(c, k, j) # <<>> /\ Head(Remaining(c, k, j)) = Block(c, k)[j + 1]
           /\ Tail(Remaining(c, k, j)) = Remaining(c, k, j + 1)
<1>1. PICK b : b = Block(c, k)
    OBVIOUS
<1>2. PICK a : a = Behind(c, k)
    OBVIOUS
<1>3. b \in Seq(FileLine) /\ j \in 0 .. Len(b) - 1
    BY <1>1, BlockTyped
<1>4. a \in Seq(FileLine)
    BY <1>2, BehindTyped
<1>5. /\ SubSeq(b, j + 1, Len(b)) \o a # <<>>
      /\ Head(SubSeq(b, j + 1, Len(b)) \o a) = b[j + 1]
      /\ Tail(SubSeq(b, j + 1, Len(b)) \o a) = SubSeq(b, j + 2, Len(b)) \o a
    BY <1>3, <1>4, Ahead
<1>6. (j + 1) + 1 = j + 2
    BY <1>3
<1> QED BY <1>1, <1>2, <1>5, <1>6, Zenon DEF Remaining

LEMMA RemainingTurn ==
    ASSUME NEW c \in Config, NEW k \in 1 .. 5
    PROVE  Remaining(c, k, Len(Block(c, k))) = Remaining(c, k + 1, 0)
<1>1. Block(c, k) \in Seq(FileLine) /\ Len(Block(c, k)) \in Nat
    BY BlockTyped
<1>2. Block(c, k + 1) \in Seq(FileLine)
    BY BlockTyped
<1>3. Behind(c, k) \in Seq(FileLine) /\ Behind(c, k) = Block(c, k + 1) \o Behind(c, k + 1)
    <2>1. k \in 1 .. 6
        OBVIOUS
    <2>2. Behind(c, k) \in Seq(FileLine)
        BY <2>1, BehindTyped, Zenon
    <2>3. Behind(c, k) = Block(c, k + 1) \o Behind(c, k + 1)
        BY BehindTyped, Zenon
    <2> QED BY <2>2, <2>3
<1>4. PICK n : n = Len(Block(c, k)) /\ n \in Nat
    BY <1>1
<1>5. SubSeq(Block(c, k), n + 1, n) = <<>>
    BY <1>4, SubSeqEmpty
<1>6. <<>> \o Behind(c, k) = Behind(c, k)
    BY <1>3, ConcatEmptySeq
<1>7. SubSeq(Block(c, k + 1), 1, Len(Block(c, k + 1))) = Block(c, k + 1)
    BY <1>2, SubSeqFull
<1>8. 0 + 1 = 1
    OBVIOUS
<1> QED BY <1>3, <1>4, <1>5, <1>6, <1>7, <1>8, Zenon DEF Remaining

LEMMA RemainingEnd ==
    ASSUME NEW c \in Config
    PROVE  Remaining(c, 6, Len(Block(c, 6))) = <<>>
<1>1. Block(c, 6) \in Seq(FileLine) /\ Len(Block(c, 6)) \in Nat
    BY BlockTyped
<1>2. Behind(c, 6) = <<>>
    BY DEF Behind
<1>3. PICK n : n = Len(Block(c, 6)) /\ n \in Nat
    BY <1>1
<1>4. SubSeq(Block(c, 6), n + 1, n) = <<>>
    BY <1>3, SubSeqEmpty
<1>5. <<>> \o <<>> = <<>>
    OBVIOUS
<1> QED BY <1>2, <1>3, <1>4, <1>5, Zenon DEF Remaining

LEMMA RemainingStart ==
    ASSUME NEW c \in Config
    PROVE  File(c) = Remaining(c, 1, 0)
<1>1. Block(c, 1) \in Seq(FileLine)
    BY BlockTyped
<1>2. SubSeq(Block(c, 1), 1, Len(Block(c, 1))) = Block(c, 1)
    BY <1>1, SubSeqFull
<1>3. 0 + 1 = 1
    OBVIOUS
<1> QED BY <1>2, <1>3, FileLayout, Zenon DEF Remaining

\* The lines of a known section, by their place in its part of the file.
LEMMA LineAt ==
    ASSUME NEW c \in Config, NEW k \in 1 .. 5, NEW s, s = c.order[k], NEW j \in Nat
    PROVE  /\ s \in Section /\ Len(Lines(c, s)) \in Nat /\ Len(Block(c, k)) = Len(Lines(c, s)) + 3
           /\ j = 0 => Block(c, k)[j + 1] = Open
           /\ j = 1 => Block(c, k)[j + 1] = Line("type", s)
           /\ j \in 2 .. Len(Lines(c, s)) + 1 => Block(c, k)[j + 1] = Lines(c, s)[j - 1]
           /\ j = Len(Lines(c, s)) + 2 => Block(c, k)[j + 1] = Close
<1>1. s \in Section \cup {"gate_in"} /\ s \in Section
    BY Ordered
<1>2. PICK b : b = Block(c, k) /\ b = Bracketed(c, s)
    BY BlockTyped
<1>3. PICK l : l = Len(Lines(c, s)) /\ l \in Nat
    BY <1>1, LinesTyped
<1>4. /\ Len(b) = l + 3 /\ b[1] = Open /\ b[2] = Line("type", s)
      /\ \A i \in 1 .. l : b[i + 2] = Lines(c, s)[i]
      /\ b[l + 3] = Close
    BY <1>1, <1>2, <1>3, BracketedLines
<1>5. ASSUME j \in 2 .. l + 1 PROVE b[j + 1] = Lines(c, s)[j - 1]
    <2>1. j - 1 \in 1 .. l /\ (j - 1) + 2 = j + 1
        BY <1>3, <1>5
    <2>2. b[(j - 1) + 2] = Lines(c, s)[j - 1]
        BY <1>4, <2>1
    <2> QED BY <2>1, <2>2
<1>6. ASSUME j = l + 2 PROVE b[j + 1] = Close
    <2>1. j + 1 = l + 3
        BY <1>3, <1>6
    <2> QED BY <1>4, <2>1
<1>7. ASSUME j = 0 PROVE b[j + 1] = Open
    BY <1>4, <1>7
<1>8. ASSUME j = 1 PROVE b[j + 1] = Line("type", s)
    BY <1>4, <1>8
<1> QED BY <1>1, <1>2, <1>3, <1>4, <1>5, <1>6, <1>7, <1>8

LEMMA LineCount ==
    ASSUME NEW c \in Config, NEW k \in 1 .. 5
    PROVE  /\ c.order[k] \in Section /\ Len(Lines(c, c.order[k])) \in Nat
           /\ Len(Block(c, k)) = Len(Lines(c, c.order[k])) + 3
<1>1. PICK s : s = c.order[k]
    OBVIOUS
<1>2. s \in Section \cup {"gate_in"} /\ s \in Section
    BY <1>1, Ordered
<1>3. PICK b : b = Block(c, k) /\ b = Bracketed(c, s)
    BY <1>1, BlockTyped
<1>4. Len(Lines(c, s)) \in Nat
    BY <1>2, LinesTyped
<1>5. Len(b) = Len(Lines(c, s)) + 3
    BY <1>2, <1>3, BracketedLines
<1> QED BY <1>1, <1>2, <1>3, <1>4, <1>5

LEMMA LineAtUnknown ==
    ASSUME NEW c \in Config, NEW j \in 0 .. Len(Block(c, 6)) - 1
    PROVE  /\ Len(Block(c, 6)) = 4
           /\ j = 0 => Block(c, 6)[j + 1] = Open
           /\ j = 1 => Block(c, 6)[j + 1] = Line("type", "gate_in")
           /\ j \in {2, 3} => ~IsOpen(Block(c, 6)[j + 1])
<1>1. Len(Block(c, 6)) \in Nat
    BY BlockTyped
<1>2. Len(Block(c, 6)) = 4 /\ Block(c, 6) = Bracketed(c, "gate_in")
    BY <1>1, BlockTyped
<1>3. PICK b : b = Block(c, 6)
    OBVIOUS
<1>4. "gate_in" \in Section \cup {"gate_in"} /\ b = Bracketed(c, "gate_in")
    BY <1>2, <1>3
<1>5. PICK l : l = Len(Lines(c, "gate_in")) /\ l = 1 /\ Lines(c, "gate_in")[1] = Line("depth", 0)
    BY LinesUnknown
<1>6. /\ b[1] = Open /\ b[2] = Line("type", "gate_in")
      /\ \A i \in 1 .. l : b[i + 2] = Lines(c, "gate_in")[i]
      /\ b[l + 3] = Close
    BY <1>4, <1>5, BracketedLines
<1>7. b[3] = Line("depth", 0) /\ b[4] = Close
    BY <1>5, <1>6
<1>8. j \in 0 .. 3
    <2>1. Len(Block(c, 6)) = 4
        BY <1>2
    <2>2. j \in 0 .. 4 - 1
        BY <2>1, Zenon
    <2> QED BY <2>2
<1>9. ~IsOpen(b[3]) /\ ~IsOpen(b[4])
    BY <1>7, Braces
<1>10. j \in {2, 3} => ~IsOpen(b[j + 1])
    <2>1. CASE j = 2
        <3>1. j + 1 = 3
            BY <2>1
        <3> QED BY <1>9, <3>1
    <2>2. CASE j = 3
        <3>1. j + 1 = 4
            BY <2>2
        <3> QED BY <1>9, <3>1
    <2> QED BY <2>1, <2>2
<1>11. (j = 0 => b[j + 1] = Open) /\ (j = 1 => b[j + 1] = Line("type", "gate_in"))
    BY <1>6, <1>8
<1> QED BY <1>2, <1>3, <1>10, <1>11

-----------------------------------------------------------------------------
(* The parser                                                                *)

ChipType ==
    [ reg : [DOMAIN RegisterAddr -> Nat], forward : Seq(ForwardEntry), inject : Seq(TimeEntry),
      submit : Seq(TimeEntry), depth : 0 .. MaxDepth, gate_out : [Port -> [1 .. MaxDepth -> Nat]] ]

\* What the chip holds when the parser has seen the first n lines of a section.
RegisterRead(n) ==
    \A r \in DOMAIN RegisterAddr :
        chip.reg[r] = IF \E i \in 1 .. n : config.given[i] = r THEN config.reg[r] ELSE 0
ForwardRead(n) == chip.forward = SubSeq(config.forward, 1, n)
InjectRead(n) == chip.inject = SubSeq(config.inject, 1, n)
SubmitRead(n) == chip.submit = SubSeq(config.submit, 1, n)
GateRead(n) ==
    /\ chip.depth = IF n = 0 THEN 0 ELSE config.depth
    /\ \A p \in Port : p + 2 <= n =>
            \A i \in 1 .. config.depth : chip.gate_out[p][i] = config.gate[p][i]
ChipRead(t) ==
    /\ RegisterRead(t["register"]) /\ ForwardRead(t["forward_info"])
    /\ InjectRead(t["inject_time_table"]) /\ SubmitRead(t["submit_time_table"])
    /\ GateRead(t["gate_out"])

\* The lines seen of each section when the parser is behind the first j lines of
\* the k-th part, and its state there.
Seen(c, k, j, t) ==
    /\ t \in [Section -> Nat]
    /\ \A i \in 1 .. 5 :
        t[c.order[i]] = IF i < k THEN Len(Lines(c, c.order[i]))
                        ELSE IF i = k /\ j >= 2 THEN j - 2 ELSE 0
Flag(c, k, j) ==
    IF j = 1 THEN "new_flow" ELSE IF k <= 5 /\ j >= 2 THEN c.order[k] ELSE "no_flow"
Place(c, k, j) ==
    /\ k \in 1 .. 6 /\ j \in 0 .. Len(Block(c, k)) /\ (k <= 5 => j < Len(Block(c, k)))
    /\ rest = Remaining(c, k, j) /\ flow_flag = Flag(c, k, j)
Parsing == \E k, j, t : Place(config, k, j) /\ Seen(config, k, j, t) /\ ChipRead(t)

Loaded ==
    /\ \A r \in DOMAIN RegisterAddr :
        chip.reg[r] = IF r \in DOMAIN config.reg THEN config.reg[r] ELSE 0
    /\ chip.forward = config.forward /\ chip.inject = config.inject /\ chip.submit = config.submit
    /\ chip.depth = config.depth
    /\ \A p \in Port : \A i \in 1 .. config.depth : chip.gate_out[p][i] = config.gate[p][i]

ReadInv ==
    /\ config \in Config /\ chip \in ChipType /\ tmp_depth = chip.depth
    /\ flow_flag \in Section \cup {"no_flow", "new_flow"}
    /\ loader = "get_cfg_info_local" => Parsing
    /\ loader # "get_cfg_info_local" => Loaded

LEMMA ReadInit == Init => ReadInv
<1> SUFFICES ASSUME Init PROVE ReadInv
    OBVIOUS
<1>1. config \in Config /\ flow_flag = "no_flow" /\ tmp_depth = 0 /\ loader = "get_cfg_info_local"
    BY DEF Init
<1>2. chip = [ reg |-> [r \in DOMAIN RegisterAddr |-> 0], forward |-> <<>>, inject |-> <<>>,
               submit |-> <<>>, depth |-> 0, gate_out |-> [p \in Port |-> [i \in 1 .. MaxDepth |-> 0]] ]
    BY DEF Init
<1>3. chip \in ChipType
    <2>1. <<>> \in Seq(ForwardEntry) /\ <<>> \in Seq(TimeEntry) /\ 0 \in 0 .. MaxDepth
        BY Constants
    <2>2. [r \in DOMAIN RegisterAddr |-> 0] \in [DOMAIN RegisterAddr -> Nat]
        OBVIOUS
    <2>3. [p \in Port |-> [i \in 1 .. MaxDepth |-> 0]] \in [Port -> [1 .. MaxDepth -> Nat]]
        OBVIOUS
    <2> QED BY <1>2, <2>1, <2>2, <2>3 DEF ChipType
<1> DEFINE t == [s \in Section |-> 0]
<1>4. Place(config, 1, 0)
    <2>1. rest = File(config)
        BY DEF Init
    <2>2. rest = Remaining(config, 1, 0)
        BY <1>1, <2>1, RemainingStart
    <2>3. Len(Block(config, 1)) \in Nat /\ Len(Block(config, 1)) > 0
        <3>1. Len(Lines(config, config.order[1])) \in Nat
                /\ Len(Block(config, 1)) = Len(Lines(config, config.order[1])) + 3
            BY <1>1, LineAt
        <3> QED BY <3>1
    <2>4. Flag(config, 1, 0) = "no_flow"
        BY DEF Flag
    <2> QED BY <1>1, <2>2, <2>3, <2>4 DEF Place
<1>5. Seen(config, 1, 0, t)
    <2>1. \A i \in 1 .. 5 : config.order[i] \in Section /\ ~(i < 1)
        BY <1>1, Ordered
    <2> QED BY <2>1 DEF Seen
<1>6. t["register"] = 0 /\ t["forward_info"] = 0 /\ t["inject_time_table"] = 0
        /\ t["submit_time_table"] = 0 /\ t["gate_out"] = 0
    BY DEF Section
<1> HIDE DEF t
<1>7. RegisterRead(0)
    BY <1>2 DEF RegisterRead
<1>8. ForwardRead(0) /\ InjectRead(0) /\ SubmitRead(0)
    <2>1. \A l : SubSeq(l, 1, 0) = <<>>
        BY SubSeqEmpty
    <2> QED BY <1>2, <2>1 DEF ForwardRead, InjectRead, SubmitRead
<1>9. GateRead(0)
    BY <1>2 DEF GateRead, Port
<1>10. ChipRead(t)
    BY <1>6, <1>7, <1>8, <1>9 DEF ChipRead
<1>11. Parsing
    BY <1>4, <1>5, <1>10 DEF Parsing
<1> QED BY <1>1, <1>2, <1>3, <1>11 DEF ReadInv

\* Which calls can read the next line, by the section the parser is in.
LEMMA Readers ==
    ASSUME GetCfgInfo, rest # <<>>
    PROVE  \E f : /\ ReadIn(f)
                  /\ f = "no_flow" => Outside
                  /\ f = "new_flow" => TypeLine
                  /\ f \in Section => \/ EndSection
                                      \/ RegisterLine /\ f = "register"
                                      \/ ForwardLine /\ f = "forward_info"
                                      \/ InjectLine /\ f = "inject_time_table"
                                      \/ SubmitLine /\ f = "submit_time_table"
                                      \/ DepthLine /\ f = "gate_out"
                                      \/ GateLine /\ f = "gate_out"
                  /\ f \in Section \cup {"no_flow", "new_flow"}
<1>1. ASSUME NEW f \in Section \cup {"no_flow", "new_flow"}, ReadIn(f) PROVE f = flow_flag
    BY <1>1 DEF ReadIn
<1>2. "register" \in Section /\ "forward_info" \in Section /\ "inject_time_table" \in Section
        /\ "submit_time_table" \in Section /\ "gate_out" \in Section
    BY DEF Section
<1>3. "no_flow" \notin Section /\ "new_flow" \notin Section /\ "no_flow" # "new_flow"
    BY DEF Section
<1>4. CASE Outside
    <2>1. ReadIn("no_flow")
        BY <1>4 DEF Outside
    <2> QED BY <1>3, <1>4, <2>1, Zenon
<1>5. CASE TypeLine
    <2>1. ReadIn("new_flow")
        BY <1>5 DEF TypeLine
    <2> QED BY <1>3, <1>5, <2>1, Zenon
<1>6. CASE EndSection
    <2>1. PICK s \in Section : ReadIn(s)
        BY <1>6 DEF EndSection
    <2> QED BY <1>3, <1>6, <2>1, Zenon
<1>7. CASE RegisterLine
    <2>1. ReadIn("register")
        BY <1>7 DEF RegisterLine, InSection
    <2> QED BY <1>2, <1>3, <1>7, <2>1, Zenon
<1>8. CASE ForwardLine
    <2>1. ReadIn("forward_info")
        BY <1>8 DEF ForwardLine, InSection
    <2> QED BY <1>2, <1>3, <1>8, <2>1, Zenon
<1>9. CASE InjectLine
    <2>1. ReadIn("inject_time_table")
        BY <1>9 DEF InjectLine, InSection
    <2> QED BY <1>2, <1>3, <1>9, <2>1, Zenon
<1>10. CASE SubmitLine
    <2>1. ReadIn("submit_time_table")
        BY <1>10 DEF SubmitLine, InSection
    <2> QED BY <1>2, <1>3, <1>10, <2>1, Zenon
<1>11. CASE DepthLine
    <2>1. ReadIn("gate_out")
        BY <1>11 DEF DepthLine, InSection
    <2> QED BY <1>2, <1>3, <1>11, <2>1, Zenon
<1>12. CASE GateLine
    <2>1. ReadIn("gate_out")
        BY <1>12 DEF GateLine, InSection
    <2> QED BY <1>2, <1>3, <1>12, <2>1, Zenon
<1>13. ~EndOfFile
    BY DEF EndOfFile
<1> QED BY <1>4, <1>5, <1>6, <1>7, <1>8, <1>9, <1>10, <1>11, <1>12, <1>13 DEF GetCfgInfo

LEMMA ReadInStep ==
    ASSUME NEW f, ReadIn(f)
    PROVE  /\ loader = "get_cfg_info_local" /\ rest # <<>> /\ flow_flag = f /\ rest' = Tail(rest)
           /\ config' = config /\ loader' = loader
           /\ UNCHANGED <<txq, full, table, lost>>
BY DEF ReadIn

\* The place behind the next line.
LEMMA PlaceNext ==
    ASSUME NEW k, NEW j, config \in Config, Place(config, k, j), rest # <<>>,
           rest' = Tail(rest), config' = config
    PROVE  /\ j \in 0 .. Len(Block(config, k)) - 1 /\ ThisLine = Block(config, k)[j + 1]
           /\ Len(Block(config, k)) \in Nat
           /\ (k = 6 \/ j + 1 < Len(Block(config, k))) /\ flow_flag' = Flag(config, k, j + 1)
                => Place(config, k, j + 1)'
           /\ k <= 5 /\ j + 1 = Len(Block(config, k)) /\ flow_flag' = "no_flow"
                => Place(config, k + 1, 0)'
<1>1. k \in 1 .. 6 /\ j \in 0 .. Len(Block(config, k)) /\ (k <= 5 => j < Len(Block(config, k)))
    BY DEF Place
<1>2. rest = Remaining(config, k, j) /\ flow_flag = Flag(config, k, j)
    BY DEF Place
<1>3. PICK n : n = Len(Block(config, k)) /\ n \in Nat
    BY <1>1, BlockTyped
<1>4. j # n
    <2>1. CASE k <= 5
        BY <1>1, <1>3, <2>1
    <2>2. CASE ~(k <= 5)
        <3>1. k = 6
            BY <1>1, <2>2
        <3>2. Remaining(config, 6, Len(Block(config, 6))) = <<>>
            BY RemainingEnd
        <3> QED BY <1>2, <1>3, <3>1, <3>2
    <2> QED BY <2>1, <2>2
<1>5. j \in 0 .. n - 1 /\ j + 1 \in 0 .. n /\ j + 1 \in Nat
    BY <1>1, <1>3, <1>4
<1>6. Head(rest) = Block(config, k)[j + 1] /\ Tail(rest) = Remaining(config, k, j + 1)
    BY <1>1, <1>2, <1>3, <1>5, RemainingNext
<1>7. ASSUME k = 6 \/ j + 1 < Len(Block(config, k)), flow_flag' = Flag(config, k, j + 1)
      PROVE  Place(config, k, j + 1)'
    <2>1. k <= 5 => j + 1 < n
        BY <1>1, <1>3, <1>7
    <2> QED BY <1>1, <1>3, <1>5, <1>6, <1>7, <2>1 DEF Place
<1>8. ASSUME k <= 5, j + 1 = Len(Block(config, k)), flow_flag' = "no_flow"
      PROVE  Place(config, k + 1, 0)'
    <2>1. k \in 1 .. 5 /\ k + 1 \in 1 .. 6
        BY <1>1, <1>8
    <2>2. Remaining(config, k, j + 1) = Remaining(config, k + 1, 0)
        BY <1>8, <2>1, RemainingTurn
    <2>3. Flag(config, k + 1, 0) = "no_flow"
        BY DEF Flag
    <2>4. Len(Block(config, k + 1)) \in Nat /\ (k + 1 <= 5 => 0 < Len(Block(config, k + 1)))
        <3>1. Len(Block(config, k + 1)) \in Nat
            BY <2>1, BlockTyped
        <3>2. CASE k + 1 <= 5
            <4>1. k + 1 \in 1 .. 5
                BY <2>1, <3>2
            <4>2. PICK s : s = config.order[k + 1]
                OBVIOUS
            <4>3. Len(Lines(config, s)) \in Nat /\ Len(Block(config, k + 1)) = Len(Lines(config, s)) + 3
                BY <4>1, <4>2, LineAt
            <4> QED BY <3>1, <4>3
        <3> QED BY <3>1, <3>2
    <2>5. 0 \in 0 .. Len(Block(config, k + 1))
        BY <2>4
    <2> QED BY <1>6, <1>8, <2>1, <2>2, <2>3, <2>4, <2>5 DEF Place
<1> QED BY <1>3, <1>5, <1>6, <1>7, <1>8 DEF ThisLine

LEMMA NotClose ==
    ASSUME NEW c \in Config, NEW s \in Section, NEW i \in 1 .. Len(Lines(c, s))
    PROVE  ~IsClose(Lines(c, s)[i])
<1>1. \A k, v : k \in {"entry", "depth", "gate_out", "type"} => ~IsClose(Line(k, v))
    BY Braces
<1>2. CASE s = "register"
    <2>1. i \in 1 .. Len(c.given) /\ Lines(c, s)[i] = Line(c.given[i], c.reg[c.given[i]])
        BY <1>2, LinesRegister
    <2>2. c.given[i] \in DOMAIN RegisterAddr
        BY <2>1, GivenRegister
    <2> QED BY <2>1, <2>2, Braces
<1>3. CASE s = "forward_info"
    <2>1. Lines(c, s)[i] = Line("entry", c.forward[i])
        BY <1>3, LinesForward
    <2> QED BY <1>1, <2>1
<1>4. CASE s = "inject_time_table"
    <2>1. Lines(c, s)[i] = Line("entry", c.inject[i])
        BY <1>4, LinesInject
    <2> QED BY <1>1, <2>1
<1>5. CASE s = "submit_time_table"
    <2>1. Lines(c, s)[i] = Line("entry", c.submit[i])
        BY <1>5, LinesSubmit
    <2> QED BY <1>1, <2>1
<1>6. CASE s = "gate_out"
    <2>1. i \in 1 .. Ports + 1
        BY <1>6, LinesGate
    <2>2. CASE i = 1
        <3>1. Lines(c, s)[i] = Line("depth", c.depth)
            BY <1>6, <2>2, LinesGate
        <3> QED BY <1>1, <3>1
    <2>3. CASE i # 1
        <3>1. i - 2 \in Port /\ (i - 2) + 2 = i
            BY <2>1, <2>3, Constants DEF Port
        <3>2. Lines(c, s)[(i - 2) + 2] = GateInfo(c, i - 2)
            BY <1>6, <3>1, LinesGate
        <3> QED BY <1>1, <3>1, <3>2 DEF GateInfo
    <2> QED BY <2>2, <2>3
<1> QED BY <1>2, <1>3, <1>4, <1>5, <1>6 DEF Section

\* Where the parser is, by its flag.
LEMMA FlagPlace ==
    ASSUME config \in Config, NEW k, NEW j, Place(config, k, j)
    PROVE  /\ flow_flag = "no_flow" => j = 0 \/ (k = 6 /\ j >= 2)
           /\ flow_flag = "new_flow" => j = 1
           /\ flow_flag \in Section => k \in 1 .. 5 /\ j >= 2 /\ config.order[k] = flow_flag
<1>1. k \in 1 .. 6 /\ j \in Nat /\ flow_flag = Flag(config, k, j)
    <2>1. k \in 1 .. 6 /\ j \in 0 .. Len(Block(config, k)) /\ flow_flag = Flag(config, k, j)
        BY DEF Place
    <2>2. Len(Block(config, k)) \in Nat
        BY <2>1, BlockTyped
    <2> QED BY <2>1, <2>2
<1>2. \A i \in 1 .. 5 : config.order[i] \in Section
    BY Ordered
<1>3. "no_flow" \notin Section /\ "new_flow" \notin Section
    BY DEF Section
<1>4. CASE j = 1
    <2>1. flow_flag = "new_flow"
        BY <1>1, <1>4 DEF Flag
    <2> QED BY <1>3, <1>4, <2>1
<1>5. CASE j # 1 /\ k <= 5 /\ j >= 2
    <2>1. flow_flag = config.order[k] /\ k \in 1 .. 5
        BY <1>1, <1>5 DEF Flag
    <2>2. flow_flag \in Section
        BY <1>2, <2>1
    <2> QED BY <1>3, <1>5, <2>1, <2>2
<1>6. CASE j # 1 /\ ~(k <= 5 /\ j >= 2)
    <2>1. flow_flag = "no_flow"
        BY <1>1, <1>6 DEF Flag
    <2>2. j = 0 \/ (k = 6 /\ j >= 2)
        BY <1>1, <1>6
    <2> QED BY <1>3, <2>1, <2>2
<1> QED BY <1>4, <1>5, <1>6

LEMMA SeenNext ==
    ASSUME NEW c \in Config, NEW k \in 1 .. 6, NEW j \in Nat, NEW t, Seen(c, k, j, t)
    PROVE  /\ k = 6 \/ j <= 1 => Seen(c, k, j + 1, t)
           /\ k <= 5 /\ j >= 2 /\ j + 1 = Len(Block(c, k)) => Seen(c, k + 1, 0, t)
           /\ k <= 5 /\ j >= 2 => /\ t[c.order[k]] = j - 2
                                  /\ Seen(c, k, j + 1, [t EXCEPT ![c.order[k]] = j - 1])
<1> DEFINE o(i) == c.order[i]
           L(i) == Len(Lines(c, c.order[i]))
<1>1. t \in [Section -> Nat]
    BY DEF Seen
<1>2. \A i \in 1 .. 5 : t[o(i)] = IF i < k THEN L(i) ELSE IF i = k /\ j >= 2 THEN j - 2 ELSE 0
    BY DEF Seen
<1>3. \A i \in 1 .. 5 : o(i) \in Section
    BY Ordered
<1>4. \A h, i \in 1 .. 5 : o(h) = o(i) => h = i
    BY Ordered
<1>5. ASSUME k <= 5 PROVE Len(Block(c, k)) = L(k) + 3 /\ L(k) \in Nat
    <2>1. k \in 1 .. 5
        BY <1>5
    <2> QED BY <2>1, LineCount
<1> DEFINE At(n, m, u, i) == u[o(i)] = IF i < n THEN L(i) ELSE IF i = n /\ m >= 2 THEN m - 2 ELSE 0
<1>6. ASSUME NEW n, NEW m, NEW u, u \in [Section -> Nat], \A i \in 1 .. 5 : At(n, m, u, i)
      PROVE  Seen(c, n, m, u)
    BY <1>6 DEF Seen
<1> HIDE DEF o, L
<1>7. ASSUME k = 6 \/ j <= 1 PROVE Seen(c, k, j + 1, t)
    <2>1. \A i \in 1 .. 5 : At(k, j + 1, t, i)
        BY <1>2, <1>7
    <2> QED BY <1>1, <1>6, <2>1
<1>8. ASSUME k <= 5, j >= 2, j + 1 = Len(Block(c, k)) PROVE Seen(c, k + 1, 0, t)
    <2>1. j - 2 = L(k)
        BY <1>5, <1>8
    <2>2. \A i \in 1 .. 5 : At(k + 1, 0, t, i)
        BY <1>2, <1>8, <2>1
    <2> QED BY <1>1, <1>6, <2>2
<1>9. ASSUME k <= 5, j >= 2
      PROVE  t[c.order[k]] = j - 2 /\ Seen(c, k, j + 1, [t EXCEPT ![c.order[k]] = j - 1])
    <2> DEFINE u == [t EXCEPT ![o(k)] = j - 1]
    <2>1. k \in 1 .. 5 /\ j - 1 \in Nat /\ o(k) \in Section
        BY <1>3, <1>9
    <2>2. u \in [Section -> Nat] /\ u[o(k)] = j - 1 /\ \A s \in Section : s # o(k) => u[s] = t[s]
        BY <1>1, <2>1
    <2> HIDE DEF u
    <2>3. ASSUME NEW i \in 1 .. 5 PROVE At(k, j + 1, u, i)
        <3>1. CASE i = k
            BY <1>9, <2>2, <3>1
        <3>2. CASE i # k
            <4>1. u[o(i)] = t[o(i)]
                BY <1>3, <1>4, <2>1, <2>2, <3>2
            <4> QED BY <1>2, <3>2, <4>1
        <3> QED BY <3>1, <3>2
    <2>4. Seen(c, k, j + 1, u)
        BY <1>6, <2>2, <2>3
    <2>5. t[o(k)] = j - 2
        BY <1>2, <1>9, <2>1
    <2> QED BY <2>4, <2>5 DEF u, o
<1> QED BY <1>7, <1>8, <1>9

\* A line between the brackets of a section is the next one of that section.
LEMMA LinePlace ==
    ASSUME config \in Config, NEW k, NEW j, NEW t, NEW s \in Section,
           Place(config, k, j), Seen(config, k, j, t), InSection(s)
    PROVE  \E n \in 1 .. Len(Lines(config, s)) :
            /\ t[s] = n - 1 /\ ThisLine = Lines(config, s)[n]
            /\ Place(config, k, j + 1)' /\ Seen(config, k, j + 1, [t EXCEPT ![s] = n])'
<1>1. ReadIn(s) /\ flow_flag' = flow_flag
    BY DEF InSection
<1>2. ~IsClose(ThisLine)
    BY DEF InSection, IsClose
<1>3. flow_flag = s /\ rest # <<>> /\ rest' = Tail(rest) /\ config' = config
    BY <1>1, ReadInStep
<1>4. k \in 1 .. 5 /\ j >= 2 /\ config.order[k] = s
    BY <1>3, FlagPlace
<1>5. /\ j \in 0 .. Len(Block(config, k)) - 1 /\ ThisLine = Block(config, k)[j + 1]
      /\ Len(Block(config, k)) \in Nat
      /\ j + 1 < Len(Block(config, k)) /\ flow_flag' = Flag(config, k, j + 1) => Place(config, k, j + 1)'
    BY <1>3, PlaceNext
<1>6. PICK l : l = Len(Lines(config, s)) /\ l \in Nat /\ Len(Block(config, k)) = l + 3
    BY <1>4, LineCount
<1>7. j \in 2 .. l + 2 /\ j \in Nat
    <2>1. j \in 0 .. (l + 3) - 1
        BY <1>5, <1>6, Zenon
    <2> QED BY <1>4, <1>6, <2>1
<1>8. j # l + 2
    <2>1. j = Len(Lines(config, s)) + 2 => Block(config, k)[j + 1] = Close
        BY <1>4, <1>7, LineAt
    <2>2. IsClose(Close)
        BY Braces
    <2> QED BY <1>2, <1>5, <1>6, <2>1, <2>2
<1>9. j \in 2 .. l + 1 /\ j - 1 \in 1 .. l /\ j + 1 < l + 3
    BY <1>6, <1>7, <1>8
<1>10. ThisLine = Lines(config, s)[j - 1]
    <2>1. j \in 2 .. Len(Lines(config, s)) + 1 => Block(config, k)[j + 1] = Lines(config, s)[j - 1]
        BY <1>4, <1>7, LineAt
    <2> QED BY <1>5, <1>6, <1>9, <2>1
<1>11. flow_flag' = Flag(config, k, j + 1)
    <2>1. Flag(config, k, j + 1) = config.order[k]
        BY <1>4, <1>7 DEF Flag
    <2> QED BY <1>1, <1>3, <1>4, <2>1
<1>12. Place(config, k, j + 1)'
    BY <1>5, <1>6, <1>9, <1>11
<1>13. t[s] = j - 2 /\ Seen(config, k, j + 1, [t EXCEPT ![s] = j - 1])
    <2>1. k \in 1 .. 6 /\ k <= 5
        BY <1>4
    <2>2. /\ t[config.order[k]] = j - 2
          /\ Seen(config, k, j + 1, [t EXCEPT ![config.order[k]] = j - 1])
        BY <1>4, <1>7, <2>1, SeenNext
    <2> QED BY <1>4, <2>2
<1>14. Seen(config, k, j + 1, [t EXCEPT ![s] = j - 1])'
    BY <1>3, <1>13 DEF Seen
<1>15. t[s] = (j - 1) - 1
    BY <1>7, <1>13
<1> QED BY <1>6, <1>9, <1>10, <1>12, <1>14, <1>15

LEMMA OutsideFlag ==
    ASSUME Outside
    PROVE  flow_flag' = (IF IsOpen(ThisLine) THEN "new_flow" ELSE "no_flow") /\ chip' = chip
BY Zenon DEF Outside, IsOpen

LEMMA EndSectionFlag ==
    ASSUME EndSection
    PROVE  IsClose(ThisLine) /\ flow_flag' = "no_flow" /\ chip' = chip
BY Zenon DEF EndSection, IsClose

LEMMA TypeLineFlag ==
    ASSUME TypeLine
    PROVE  /\ chip' = chip
           /\ flow_flag' = IF ThisLine.key = "type" /\ ThisLine.val \in Section THEN ThisLine.val ELSE "no_flow"
BY DEF TypeLine

LEMMA ChipReadSame ==
    ASSUME NEW t, ChipRead(t), chip' = chip, config' = config
    PROVE  ChipRead(t)'
BY DEF ChipRead, RegisterRead, ForwardRead, InjectRead, SubmitRead, GateRead

LEMMA OutsidePlace ==
    ASSUME config \in Config, NEW k, NEW j, NEW t, Place(config, k, j), Seen(config, k, j, t),
           Outside, ReadIn("no_flow")
    PROVE  Place(config, k, j + 1)' /\ Seen(config, k, j + 1, t)'
<1>1. flow_flag = "no_flow" /\ rest # <<>> /\ rest' = Tail(rest) /\ config' = config
    BY ReadInStep
<1>2. flow_flag' = (IF IsOpen(ThisLine) THEN "new_flow" ELSE "no_flow")
    BY OutsideFlag
<1>3. j = 0 \/ (k = 6 /\ j >= 2)
    BY <1>1, FlagPlace
<1>4. k \in 1 .. 6
    BY DEF Place
<1>5. /\ j \in 0 .. Len(Block(config, k)) - 1 /\ ThisLine = Block(config, k)[j + 1]
      /\ Len(Block(config, k)) \in Nat
      /\ (k = 6 \/ j + 1 < Len(Block(config, k))) /\ flow_flag' = Flag(config, k, j + 1)
            => Place(config, k, j + 1)'
    BY <1>1, PlaceNext
<1>6. j \in Nat
    BY <1>5
<1>7. Seen(config, k, j + 1, t)
    <2>1. k = 6 \/ j <= 1
        BY <1>3
    <2> QED BY <1>4, <1>6, <2>1, SeenNext
<1>8. CASE j = 0
    <2>1. ThisLine = Open
        <3>1. CASE k <= 5
            <4>1. k \in 1 .. 5
                BY <1>4, <3>1
            <4>2. PICK s : s = config.order[k]
                OBVIOUS
            <4>3. Block(config, k)[j + 1] = Open
                BY <1>6, <1>8, <4>1, <4>2, LineAt
            <4> QED BY <1>5, <4>3
        <3>2. CASE ~(k <= 5)
            <4>1. k = 6
                BY <1>4, <3>2
            <4> QED BY <1>5, <1>8, <4>1, LineAtUnknown
        <3> QED BY <3>1, <3>2
    <2>2. flow_flag' = "new_flow"
        BY <1>2, <2>1, Braces
    <2>3. Flag(config, k, j + 1) = "new_flow"
        BY <1>8 DEF Flag
    <2>4. k = 6 \/ j + 1 < Len(Block(config, k))
        <3>1. CASE k <= 5
            <4>1. k \in 1 .. 5
                BY <1>4, <3>1
            <4>2. PICK l : l = Len(Lines(config, config.order[k])) /\ l \in Nat
                            /\ Len(Block(config, k)) = l + 3
                BY <4>1, LineCount
            <4>3. j + 1 < l + 3
                BY <1>8, <4>2
            <4> QED BY <4>2, <4>3
        <3>2. CASE ~(k <= 5)
            BY <1>4, <3>2
        <3> QED BY <3>1, <3>2
    <2>5. Place(config, k, j + 1)'
        BY <1>5, <2>2, <2>3, <2>4
    <2> QED BY <1>1, <1>7, <2>5 DEF Seen
<1>9. CASE j # 0
    <2>1. k = 6 /\ j >= 2
        BY <1>3, <1>9
    <2>2. j \in {2, 3}
        <3>1. j \in 0 .. Len(Block(config, 6)) - 1
            BY <1>5, <2>1
        <3>2. Len(Block(config, 6)) = 4
            BY <3>1, LineAtUnknown
        <3>3. j \in 0 .. 4 - 1
            BY <3>1, <3>2, Zenon
        <3> QED BY <2>1, <3>3
    <2>3. ~IsOpen(ThisLine)
        BY <1>5, <2>1, <2>2, LineAtUnknown
    <2>4. flow_flag' = Flag(config, k, j + 1)
        BY <1>2, <2>1, <2>2, <2>3 DEF Flag
    <2>5. Place(config, k, j + 1)'
        BY <1>5, <2>1, <2>4
    <2> QED BY <1>1, <1>7, <2>5 DEF Seen
<1> QED BY <1>8, <1>9

LEMMA TypePlace ==
    ASSUME config \in Config, NEW k, NEW j, NEW t, Place(config, k, j), Seen(config, k, j, t),
           TypeLine, ReadIn("new_flow")
    PROVE  Place(config, k, j + 1)' /\ Seen(config, k, j + 1, t)'
<1>1. flow_flag = "new_flow" /\ rest # <<>> /\ rest' = Tail(rest) /\ config' = config
    BY ReadInStep
<1>2. flow_flag' = IF ThisLine.key = "type" /\ ThisLine.val \in Section THEN ThisLine.val ELSE "no_flow"
    BY TypeLineFlag
<1>3. j = 1
    BY <1>1, FlagPlace
<1>4. k \in 1 .. 6
    BY DEF Place
<1>5. /\ j \in 0 .. Len(Block(config, k)) - 1 /\ ThisLine = Block(config, k)[j + 1]
      /\ (k = 6 \/ j + 1 < Len(Block(config, k))) /\ flow_flag' = Flag(config, k, j + 1)
            => Place(config, k, j + 1)'
    BY <1>1, PlaceNext
<1>6. Seen(config, k, j + 1, t)
    <2>1. j \in Nat /\ j <= 1
        BY <1>3
    <2> QED BY <1>4, <2>1, SeenNext
<1>7. CASE k <= 5
    <2>1. k \in 1 .. 5 /\ j \in Nat
        BY <1>3, <1>4, <1>7
    <2>2. PICK s : s = config.order[k]
        OBVIOUS
    <2>3. j = 1 => Block(config, k)[j + 1] = Line("type", s)
        BY <2>1, <2>2, LineAt
    <2>4. Block(config, k)[j + 1] = Line("type", s)
        BY <1>3, <2>3, Zenon
    <2>5. s \in Section /\ Block(config, k)[j + 1] = Line("type", s)
        BY <2>1, <2>2, <2>4, LineCount
    <2>6. ThisLine = Line("type", s)
        BY <1>5, <2>5, Zenon
    <2>7. ThisLine.key = "type" /\ ThisLine.val = s
        BY <2>6 DEF Line
    <2>8. flow_flag' = s
        BY <1>2, <2>5, <2>7
    <2>9. Flag(config, k, j + 1) = s
        BY <1>3, <1>7, <2>2 DEF Flag
    <2>10. PICK l : l = Len(Lines(config, config.order[k])) /\ l \in Nat /\ Len(Block(config, k)) = l + 3
        BY <2>1, LineCount
    <2>11. j + 1 < l + 3
        BY <1>3, <2>10
    <2> QED BY <1>1, <1>5, <1>6, <2>8, <2>9, <2>10, <2>11 DEF Seen
<1>8. CASE ~(k <= 5)
    <2>1. k = 6
        BY <1>4, <1>8
    <2>2. ThisLine = Line("type", "gate_in")
        BY <1>3, <1>5, <2>1, LineAtUnknown
    <2>3. flow_flag' = "no_flow"
        BY <1>2, <2>2 DEF Line, Section
    <2>4. Flag(config, k, j + 1) = "no_flow"
        BY <1>3, <2>1 DEF Flag
    <2> QED BY <1>1, <1>5, <1>6, <2>1, <2>3, <2>4 DEF Seen
<1> QED BY <1>7, <1>8

LEMMA EndPlace ==
    ASSUME config \in Config, NEW k, NEW j, NEW t, Place(config, k, j), Seen(config, k, j, t),
           NEW s \in Section, ReadIn(s), EndSection
    PROVE  Place(config, k + 1, 0)' /\ Seen(config, k + 1, 0, t)'
<1>1. flow_flag = s /\ rest # <<>> /\ rest' = Tail(rest) /\ config' = config
    BY ReadInStep
<1>2. IsClose(ThisLine) /\ flow_flag' = "no_flow"
    BY EndSectionFlag
<1>3. k \in 1 .. 5 /\ j >= 2 /\ config.order[k] = s
    BY <1>1, FlagPlace
<1>4. /\ j \in 0 .. Len(Block(config, k)) - 1 /\ ThisLine = Block(config, k)[j + 1]
      /\ j + 1 = Len(Block(config, k)) /\ flow_flag' = "no_flow" /\ k <= 5 => Place(config, k + 1, 0)'
    BY <1>1, PlaceNext
<1>5. PICK l : l = Len(Lines(config, s)) /\ l \in Nat /\ Len(Block(config, k)) = l + 3
    BY <1>3, LineCount
<1>6. j \in 2 .. l + 2 /\ j \in Nat
    <2>1. j \in 0 .. (l + 3) - 1
        BY <1>4, <1>5, Zenon
    <2> QED BY <1>3, <1>5, <2>1
<1>7. ASSUME j \in 2 .. l + 1 PROVE FALSE
    <2>1. j \in 2 .. Len(Lines(config, s)) + 1 => Block(config, k)[j + 1] = Lines(config, s)[j - 1]
        BY <1>3, <1>6, LineAt
    <2>2. j - 1 \in 1 .. Len(Lines(config, s))
        BY <1>5, <1>7
    <2>3. ~IsClose(Lines(config, s)[j - 1])
        BY <2>2, NotClose
    <2> QED BY <1>2, <1>4, <1>5, <1>7, <2>1, <2>3
<1>8. j + 1 = l + 3
    BY <1>5, <1>6, <1>7
<1>9. Seen(config, k + 1, 0, t)
    <2>1. k \in 1 .. 6 /\ k <= 5
        BY <1>3
    <2> QED BY <1>3, <1>5, <1>6, <1>8, <2>1, SeenNext
<1>10. Place(config, k + 1, 0)'
    BY <1>2, <1>3, <1>4, <1>5, <1>8
<1> QED BY <1>1, <1>9, <1>10 DEF Seen

\* The count of one section does not touch the others.
LEMMA Recount ==
    ASSUME NEW t \in [Section -> Nat], NEW s \in Section, NEW n \in Nat
    PROVE  /\ [t EXCEPT ![s] = n] \in [Section -> Nat] /\ [t EXCEPT ![s] = n][s] = n
           /\ \A r \in Section : r # s => [t EXCEPT ![s] = n][r] = t[r]
OBVIOUS

LEMMA Sections ==
    /\ "register" \in Section /\ "forward_info" \in Section /\ "inject_time_table" \in Section
    /\ "submit_time_table" \in Section /\ "gate_out" \in Section
BY DEF Section

LEMMA OneMore ==
    ASSUME NEW S, NEW list \in Seq(S), NEW n \in 1 .. Len(list)
    PROVE  Append(SubSeq(list, 1, n - 1), list[n]) = SubSeq(list, 1, n)
<1>1. PICK a : a = SubSeq(list, 1, n - 1)
    OBVIOUS
<1>2. PICK b : b = SubSeq(list, 1, n)
    OBVIOUS
<1>3. a \in Seq(S) /\ Len(a) = n - 1 /\ \A i \in 1 .. n - 1 : a[i] = list[i]
    BY <1>1
<1>4. b \in Seq(S) /\ Len(b) = n /\ \A i \in 1 .. n : b[i] = list[i]
    BY <1>2
<1>5. list[n] \in S
    OBVIOUS
<1>6. Append(a, list[n]) = b
    <2>1. PICK d : d = Append(a, list[n])
        OBVIOUS
    <2>2. d \in Seq(S) /\ Len(d) = n /\ (\A i \in 1 .. n - 1 : d[i] = a[i]) /\ d[n] = list[n]
        BY <1>3, <1>5, <2>1
    <2>3. \A i \in 1 .. n : d[i] = b[i]
        BY <1>3, <1>4, <2>2
    <2> QED BY <1>4, <2>1, <2>2, <2>3, SeqEqual
<1> QED BY <1>1, <1>2, <1>6, Zenon

\* A part of the chip that a line leaves alone.
LEMMA Unchanged ==
    ASSUME config' = config, NEW n
    PROVE  /\ chip'.reg = chip.reg /\ RegisterRead(n) => RegisterRead(n)'
           /\ chip'.forward = chip.forward /\ ForwardRead(n) => ForwardRead(n)'
           /\ chip'.inject = chip.inject /\ InjectRead(n) => InjectRead(n)'
           /\ chip'.submit = chip.submit /\ SubmitRead(n) => SubmitRead(n)'
           /\ chip'.depth = chip.depth /\ chip'.gate_out = chip.gate_out /\ GateRead(n) => GateRead(n)'
<1>1. chip'.reg = chip.reg /\ RegisterRead(n) => RegisterRead(n)'
    BY DEF RegisterRead
<1>2. chip'.forward = chip.forward /\ ForwardRead(n) => ForwardRead(n)'
    BY DEF ForwardRead
<1>3. chip'.inject = chip.inject /\ InjectRead(n) => InjectRead(n)'
    BY DEF InjectRead
<1>4. chip'.submit = chip.submit /\ SubmitRead(n) => SubmitRead(n)'
    BY DEF SubmitRead
<1>5. chip'.depth = chip.depth /\ chip'.gate_out = chip.gate_out /\ GateRead(n) => GateRead(n)'
    BY DEF GateRead
<1> QED BY <1>1, <1>2, <1>3, <1>4, <1>5

LEMMA RegisterStep ==
    ASSUME config \in Config, chip \in ChipType, config' = config, NEW t, NEW s, s = "register",
           t \in [Section -> Nat], NEW n \in 1 .. Len(Lines(config, s)), t[s] = n - 1,
           ThisLine = Lines(config, s)[n], ChipRead(t), RegisterLine
    PROVE  (chip \in ChipType)' /\ chip'.depth = chip.depth /\ ChipRead([t EXCEPT ![s] = n])'
<1>1. n \in 1 .. Len(config.given) /\ ThisLine = Line(config.given[n], config.reg[config.given[n]])
    BY LinesRegister
<1>2. PICK r : r = config.given[n]
    OBVIOUS
<1>3. r \in DOMAIN RegisterAddr /\ config.reg[r] \in Nat
    BY <1>1, <1>2, GivenRegister
<1>4. ThisLine.key = r /\ ThisLine.val = config.reg[r]
    BY <1>1, <1>2 DEF Line
<1>5. chip' = [chip EXCEPT !.reg[r] = config.reg[r]]
    BY <1>3, <1>4 DEF RegisterLine
<1>6. chip'.reg = [chip.reg EXCEPT ![r] = config.reg[r]] /\ chip'.forward = chip.forward
        /\ chip'.inject = chip.inject /\ chip'.submit = chip.submit /\ chip'.depth = chip.depth
        /\ chip'.gate_out = chip.gate_out /\ (chip \in ChipType)'
    BY <1>3, <1>5 DEF ChipType
<1>7. PICK u : u = [t EXCEPT ![s] = n]
    OBVIOUS
<1>8. u["register"] = n /\ u["forward_info"] = t["forward_info"] /\ u["gate_out"] = t["gate_out"]
        /\ u["inject_time_table"] = t["inject_time_table"]
        /\ u["submit_time_table"] = t["submit_time_table"]
    BY <1>7, Sections, Recount
<1>9. RegisterRead(n)'
    <2>1. chip.reg \in [DOMAIN RegisterAddr -> Nat]
        BY DEF ChipType
    <2>2. RegisterRead(n - 1)
        BY DEF ChipRead
    <2> SUFFICES ASSUME NEW x \in DOMAIN RegisterAddr
                 PROVE  chip'.reg[x] = IF \E i \in 1 .. n : config.given[i] = x THEN config.reg[x] ELSE 0
        BY DEF RegisterRead
    <2>3. n \in Nat /\ n > 0
        BY <1>1
    <2>4. CASE x = r
        <3>1. n \in 1 .. n
            BY <2>3
        <3> QED BY <1>2, <1>3, <1>6, <2>1, <2>4, <3>1
    <2>5. CASE x # r
        <3>1. (\E i \in 1 .. n : config.given[i] = x) <=> (\E i \in 1 .. n - 1 : config.given[i] = x)
            BY <1>2, <2>3, <2>5
        <3> QED BY <1>6, <2>1, <2>2, <2>5, <3>1 DEF RegisterRead
    <2> QED BY <2>4, <2>5
<1>10. ForwardRead(t["forward_info"])' /\ InjectRead(t["inject_time_table"])'
        /\ SubmitRead(t["submit_time_table"])' /\ GateRead(t["gate_out"])'
    <2>1. ForwardRead(t["forward_info"])'
        BY <1>6, Unchanged DEF ChipRead
    <2>2. InjectRead(t["inject_time_table"])'
        BY <1>6, Unchanged DEF ChipRead
    <2>3. SubmitRead(t["submit_time_table"])'
        BY <1>6, Unchanged DEF ChipRead
    <2>4. GateRead(t["gate_out"])'
        BY <1>6, Unchanged DEF ChipRead
    <2> QED BY <2>1, <2>2, <2>3, <2>4
<1>11. ChipRead(u)'
    BY <1>8, <1>9, <1>10 DEF ChipRead
<1> QED BY <1>6, <1>7, <1>11

LEMMA ForwardStep ==
    ASSUME config \in Config, chip \in ChipType, config' = config, NEW t, NEW s, s = "forward_info",
           t \in [Section -> Nat], NEW n \in 1 .. Len(Lines(config, s)), t[s] = n - 1,
           ThisLine = Lines(config, s)[n], ChipRead(t), ForwardLine
    PROVE  (chip \in ChipType)' /\ chip'.depth = chip.depth /\ ChipRead([t EXCEPT ![s] = n])'
<1>1. n \in 1 .. Len(config.forward) /\ ThisLine = Line("entry", config.forward[n])
    BY LinesForward
<1>2. config.forward \in Seq(ForwardEntry)
    BY Configured
<1>3. config.forward[n] \in ForwardEntry
    BY <1>1, <1>2
<1>4. ThisLine.val = config.forward[n]
    BY <1>1 DEF Line
<1>5. chip' = [chip EXCEPT !.forward = Append(chip.forward, config.forward[n])]
    BY <1>4 DEF ForwardLine
<1>6. PICK x : x = Append(chip.forward, config.forward[n])
    OBVIOUS
<1>7. x \in Seq(ForwardEntry)
    <2>1. chip.forward \in Seq(ForwardEntry)
        BY DEF ChipType
    <2> QED BY <1>3, <1>6, <2>1, AppendProperties
<1>8. chip' = [chip EXCEPT !.forward = x]
    BY <1>5, <1>6
<1>9. chip'.reg = chip.reg /\ chip'.forward = Append(chip.forward, config.forward[n])
        /\ chip'.inject = chip.inject /\ chip'.submit = chip.submit /\ chip'.depth = chip.depth
        /\ chip'.gate_out = chip.gate_out /\ (chip \in ChipType)'
    <2>1. chip'.forward = x
        BY <1>8 DEF ChipType
    <2>2. chip'.reg = chip.reg /\ chip'.inject = chip.inject /\ chip'.submit = chip.submit
            /\ chip'.depth = chip.depth /\ chip'.gate_out = chip.gate_out
        BY <1>8 DEF ChipType
    <2>3. (chip \in ChipType)'
        BY <1>7, <1>8 DEF ChipType
    <2> QED BY <1>6, <2>1, <2>2, <2>3
<1>10. PICK u : u = [t EXCEPT ![s] = n]
    OBVIOUS
<1>11. u["forward_info"] = n /\ u["register"] = t["register"] /\ u["gate_out"] = t["gate_out"]
        /\ u["inject_time_table"] = t["inject_time_table"]
        /\ u["submit_time_table"] = t["submit_time_table"]
    BY <1>10, Sections, Recount
<1>12. ForwardRead(n)'
    <2>1. chip.forward = SubSeq(config.forward, 1, n - 1)
        BY DEF ChipRead, ForwardRead
    <2>2. Append(SubSeq(config.forward, 1, n - 1), config.forward[n]) = SubSeq(config.forward, 1, n)
        BY <1>1, <1>2, OneMore
    <2> QED BY <1>9, <2>1, <2>2 DEF ForwardRead
<1>13. RegisterRead(t["register"])' /\ InjectRead(t["inject_time_table"])'
        /\ SubmitRead(t["submit_time_table"])' /\ GateRead(t["gate_out"])'
    <2>1. RegisterRead(t["register"])'
        BY <1>9, Unchanged DEF ChipRead
    <2>2. InjectRead(t["inject_time_table"])'
        BY <1>9, Unchanged DEF ChipRead
    <2>3. SubmitRead(t["submit_time_table"])'
        BY <1>9, Unchanged DEF ChipRead
    <2>4. GateRead(t["gate_out"])'
        BY <1>9, Unchanged DEF ChipRead
    <2> QED BY <2>1, <2>2, <2>3, <2>4
<1>14. ChipRead(u)'
    BY <1>11, <1>12, <1>13 DEF ChipRead
<1> QED BY <1>9, <1>10, <1>14

LEMMA InjectStep ==
    ASSUME config \in Config, chip \in ChipType, config' = config, NEW t, NEW s, s = "inject_time_table",
           t \in [Section -> Nat], NEW n \in 1 .. Len(Lines(config, s)), t[s] = n - 1,
           ThisLine = Lines(config, s)[n], ChipRead(t), InjectLine
    PROVE  (chip \in ChipType)' /\ chip'.depth = chip.depth /\ ChipRead([t EXCEPT ![s] = n])'
<1>1. n \in 1 .. Len(config.inject) /\ ThisLine = Line("entry", config.inject[n])
    BY LinesInject
<1>2. config.inject \in Seq(TimeEntry)
    BY Configured
<1>3. config.inject[n] \in TimeEntry
    BY <1>1, <1>2
<1>4. ThisLine.val = config.inject[n]
    BY <1>1 DEF Line
<1>5. chip' = [chip EXCEPT !.inject = Append(chip.inject, config.inject[n])]
    BY <1>4 DEF InjectLine
<1>6. PICK x : x = Append(chip.inject, config.inject[n])
    OBVIOUS
<1>7. x \in Seq(TimeEntry)
    <2>1. chip.inject \in Seq(TimeEntry)
        BY DEF ChipType
    <2> QED BY <1>3, <1>6, <2>1, AppendProperties
<1>8. chip' = [chip EXCEPT !.inject = x]
    BY <1>5, <1>6
<1>9. chip'.reg = chip.reg /\ chip'.inject = Append(chip.inject, config.inject[n])
        /\ chip'.forward = chip.forward /\ chip'.submit = chip.submit /\ chip'.depth = chip.depth
        /\ chip'.gate_out = chip.gate_out /\ (chip \in ChipType)'
    <2>1. chip'.inject = x
        BY <1>8 DEF ChipType
    <2>2. chip'.reg = chip.reg /\ chip'.forward = chip.forward /\ chip'.submit = chip.submit
            /\ chip'.depth = chip.depth /\ chip'.gate_out = chip.gate_out
        BY <1>8 DEF ChipType
    <2>3. (chip \in ChipType)'
        BY <1>7, <1>8 DEF ChipType
    <2> QED BY <1>6, <2>1, <2>2, <2>3
<1>10. PICK u : u = [t EXCEPT ![s] = n]
    OBVIOUS
<1>11. u["inject_time_table"] = n /\ u["register"] = t["register"] /\ u["gate_out"] = t["gate_out"]
        /\ u["forward_info"] = t["forward_info"]
        /\ u["submit_time_table"] = t["submit_time_table"]
    BY <1>10, Sections, Recount
<1>12. InjectRead(n)'
    <2>1. chip.inject = SubSeq(config.inject, 1, n - 1)
        BY DEF ChipRead, InjectRead
    <2>2. Append(SubSeq(config.inject, 1, n - 1), config.inject[n]) = SubSeq(config.inject, 1, n)
        BY <1>1, <1>2, OneMore
    <2> QED BY <1>9, <2>1, <2>2 DEF InjectRead
<1>13. RegisterRead(t["register"])' /\ ForwardRead(t["forward_info"])'
        /\ SubmitRead(t["submit_time_table"])' /\ GateRead(t["gate_out"])'
    <2>1. RegisterRead(t["register"])'
        BY <1>9, Unchanged DEF ChipRead
    <2>2. ForwardRead(t["forward_info"])'
        BY <1>9, Unchanged DEF ChipRead
    <2>3. SubmitRead(t["submit_time_table"])'
        BY <1>9, Unchanged DEF ChipRead
    <2>4. GateRead(t["gate_out"])'
        BY <1>9, Unchanged DEF ChipRead
    <2> QED BY <2>1, <2>2, <2>3, <2>4
<1>14. ChipRead(u)'
    BY <1>11, <1>12, <1>13 DEF ChipRead
<1> QED BY <1>9, <1>10, <1>14

LEMMA SubmitStep ==
    ASSUME config \in Config, chip \in ChipType, config' = config, NEW t, NEW s, s = "submit_time_table",
           t \in [Section -> Nat], NEW n \in 1 .. Len(Lines(config, s)), t[s] = n - 1,
           ThisLine = Lines(config, s)[n], ChipRead(t), SubmitLine
    PROVE  (chip \in ChipType)' /\ chip'.depth = chip.depth /\ ChipRead([t EXCEPT ![s] = n])'
<1>1. n \in 1 .. Len(config.submit) /\ ThisLine = Line("entry", config.submit[n])
    BY LinesSubmit
<1>2. config.submit \in Seq(TimeEntry)
    BY Configured
<1>3. config.submit[n] \in TimeEntry
    BY <1>1, <1>2
<1>4. ThisLine.val = config.submit[n]
    BY <1>1 DEF Line
<1>5. chip' = [chip EXCEPT !.submit = Append(chip.submit, config.submit[n])]
    BY <1>4 DEF SubmitLine
<1>6. PICK x : x = Append(chip.submit, config.submit[n])
    OBVIOUS
<1>7. x \in Seq(TimeEntry)
    <2>1. chip.submit \in Seq(TimeEntry)
        BY DEF ChipType
    <2> QED BY <1>3, <1>6, <2>1, AppendProperties
<1>8. chip' = [chip EXCEPT !.submit = x]
    BY <1>5, <1>6
<1>9. chip'.reg = chip.reg /\ chip'.submit = Append(chip.submit, config.submit[n])
        /\ chip'.forward = chip.forward /\ chip'.inject = chip.inject /\ chip'.depth = chip.depth
        /\ chip'.gate_out = chip.gate_out /\ (chip \in ChipType)'
    <2>1. chip'.submit = x
        BY <1>8 DEF ChipType
    <2>2. chip'.reg = chip.reg /\ chip'.forward = chip.forward /\ chip'.inject = chip.inject
            /\ chip'.depth = chip.depth /\ chip'.gate_out = chip.gate_out
        BY <1>8 DEF ChipType
    <2>3. (chip \in ChipType)'
        BY <1>7, <1>8 DEF ChipType
    <2> QED BY <1>6, <2>1, <2>2, <2>3
<1>10. PICK u : u = [t EXCEPT ![s] = n]
    OBVIOUS
<1>11. u["submit_time_table"] = n /\ u["register"] = t["register"] /\ u["gate_out"] = t["gate_out"]
        /\ u["inject_time_table"] = t["inject_time_table"]
        /\ u["forward_info"] = t["forward_info"]
    BY <1>10, Sections, Recount
<1>12. SubmitRead(n)'
    <2>1. chip.submit = SubSeq(config.submit, 1, n - 1)
        BY DEF ChipRead, SubmitRead
    <2>2. Append(SubSeq(config.submit, 1, n - 1), config.submit[n]) = SubSeq(config.submit, 1, n)
        BY <1>1, <1>2, OneMore
    <2> QED BY <1>9, <2>1, <2>2 DEF SubmitRead
<1>13. RegisterRead(t["register"])' /\ InjectRead(t["inject_time_table"])'
        /\ ForwardRead(t["forward_info"])' /\ GateRead(t["gate_out"])'
    <2>1. RegisterRead(t["register"])'
        BY <1>9, Unchanged DEF ChipRead
    <2>2. InjectRead(t["inject_time_table"])'
        BY <1>9, Unchanged DEF ChipRead
    <2>3. ForwardRead(t["forward_info"])'
        BY <1>9, Unchanged DEF ChipRead
    <2>4. GateRead(t["gate_out"])'
        BY <1>9, Unchanged DEF ChipRead
    <2> QED BY <2>1, <2>2, <2>3, <2>4
<1>14. ChipRead(u)'
    BY <1>11, <1>12, <1>13 DEF ChipRead
<1> QED BY <1>9, <1>10, <1>14

\* The first line of the gate section is the depth, the line behind it that of port 0.
LEMMA DepthStep ==
    ASSUME config \in Config, chip \in ChipType, config' = config, NEW t, NEW s, s = "gate_out",
           t \in [Section -> Nat], NEW n \in 1 .. Len(Lines(config, s)), t[s] = n - 1,
           ThisLine = Lines(config, s)[n], ChipRead(t), DepthLine
    PROVE  (chip \in ChipType)' /\ tmp_depth' = chip'.depth /\ ChipRead([t EXCEPT ![s] = n])'
<1>1. n \in 1 .. Ports + 1
    BY LinesGate
<1>2. n = 1
    <2> SUFFICES ASSUME n # 1 PROVE FALSE
        OBVIOUS
    <2>1. PICK p : p = n - 2
        OBVIOUS
    <2>2. p \in Port /\ p + 2 = n
        BY <1>1, <2>1, Constants DEF Port
    <2>3. ThisLine = GateInfo(config, p)
        BY <2>2, LinesGate
    <2>4. ThisLine.key = "gate_out"
        BY <2>3 DEF GateInfo, Line
    <2> QED BY <2>4 DEF DepthLine
<1>3. ThisLine = Line("depth", config.depth)
    BY <1>2, LinesGate
<1>4. ThisLine.val = config.depth /\ config.depth \in 0 .. MaxDepth
    <2>1. ThisLine.val = config.depth
        BY <1>3 DEF Line
    <2> QED BY <2>1, Configured, Constants
<1>5. chip' = [chip EXCEPT !.depth = config.depth] /\ tmp_depth' = config.depth
    BY <1>4 DEF DepthLine
<1>6. chip'.reg = chip.reg /\ chip'.forward = chip.forward /\ chip'.inject = chip.inject
        /\ chip'.submit = chip.submit /\ chip'.depth = config.depth
    BY <1>5 DEF ChipType
<1>7. (chip \in ChipType)'
    BY <1>4, <1>5 DEF ChipType
<1>8. PICK u : u = [t EXCEPT ![s] = n]
    OBVIOUS
<1>9. u["gate_out"] = n /\ u["register"] = t["register"] /\ u["forward_info"] = t["forward_info"]
        /\ u["inject_time_table"] = t["inject_time_table"]
        /\ u["submit_time_table"] = t["submit_time_table"]
    BY <1>8, Sections, Recount
<1>10. RegisterRead(t["register"])' /\ ForwardRead(t["forward_info"])'
        /\ InjectRead(t["inject_time_table"])' /\ SubmitRead(t["submit_time_table"])'
    <2>1. RegisterRead(t["register"])'
        BY <1>6, Unchanged DEF ChipRead
    <2>2. ForwardRead(t["forward_info"])'
        BY <1>6, Unchanged DEF ChipRead
    <2>3. InjectRead(t["inject_time_table"])'
        BY <1>6, Unchanged DEF ChipRead
    <2>4. SubmitRead(t["submit_time_table"])'
        BY <1>6, Unchanged DEF ChipRead
    <2> QED BY <2>1, <2>2, <2>3, <2>4
<1>11. GateRead(n)'
    <2>1. n # 0 /\ \A p \in Port : ~(p + 2 <= n)
        BY <1>2 DEF Port
    <2> QED BY <1>6, <2>1 DEF GateRead
<1>12. ChipRead(u)'
    BY <1>9, <1>10, <1>11 DEF ChipRead
<1> QED BY <1>5, <1>6, <1>7, <1>8, <1>12

LEMMA GateStep ==
    ASSUME config \in Config, chip \in ChipType, config' = config, tmp_depth = chip.depth,
           NEW t, NEW s, s = "gate_out", t \in [Section -> Nat],
           NEW n \in 1 .. Len(Lines(config, s)), t[s] = n - 1,
           ThisLine = Lines(config, s)[n], ChipRead(t), GateLine
    PROVE  (chip \in ChipType)' /\ chip'.depth = chip.depth /\ ChipRead([t EXCEPT ![s] = n])'
<1>1. n \in 1 .. Ports + 1
    BY LinesGate
<1>2. n # 1
    <2>1. Line("depth", config.depth).key = "depth"
        BY DEF Line
    <2>2. ThisLine.key = "gate_out"
        BY DEF GateLine
    <2>3. n = 1 => ThisLine = Line("depth", config.depth)
        BY LinesGate
    <2> QED BY <2>1, <2>2, <2>3
<1>3. PICK p : p = n - 2
    OBVIOUS
<1>4. p \in Port /\ p + 2 = n
    BY <1>1, <1>2, <1>3, Constants DEF Port
<1>5. ThisLine.val.port = p /\ ThisLine.val.words = config.gate[p]
    <2>1. ThisLine = GateInfo(config, p)
        BY <1>4, LinesGate
    <2> QED BY <2>1 DEF GateInfo, Line
<1>6. GateRead(n - 1) /\ tmp_depth = config.depth
    <2>1. GateRead(n - 1)
        BY DEF ChipRead
    <2>2. n - 1 # 0
        BY <1>1, <1>2
    <2> QED BY <2>1, <2>2 DEF GateRead
<1>7. config.depth \in 1 .. MaxDepth /\ config.gate[p] \in Seq(Nat) /\ Len(config.gate[p]) = config.depth
    BY <1>4, Configured
<1>8. PICK w : w = [i \in 1 .. MaxDepth |-> IF i <= config.depth THEN config.gate[p][i]
                                            ELSE chip.gate_out[p][i]]
    OBVIOUS
<1>9. w \in [1 .. MaxDepth -> Nat]
    <2>1. chip.gate_out[p] \in [1 .. MaxDepth -> Nat]
        BY <1>4 DEF ChipType
    <2>2. \A i \in 1 .. MaxDepth : i <= config.depth => config.gate[p][i] \in Nat
        BY <1>7
    <2> QED BY <1>8, <2>1, <2>2
<1>10. chip' = [chip EXCEPT !.gate_out[p] = w]
    BY <1>5, <1>6, <1>8, Zenon DEF GateLine
<1>11. chip'.reg = chip.reg /\ chip'.forward = chip.forward /\ chip'.inject = chip.inject
        /\ chip'.submit = chip.submit /\ chip'.depth = chip.depth
        /\ chip'.gate_out = [chip.gate_out EXCEPT ![p] = w]
    BY <1>10 DEF ChipType
<1>12. (chip \in ChipType)'
    BY <1>9, <1>10 DEF ChipType
<1>13. PICK u : u = [t EXCEPT ![s] = n]
    OBVIOUS
<1>14. u["gate_out"] = n /\ u["register"] = t["register"] /\ u["forward_info"] = t["forward_info"]
        /\ u["inject_time_table"] = t["inject_time_table"]
        /\ u["submit_time_table"] = t["submit_time_table"]
    BY <1>13, Sections, Recount
<1>15. RegisterRead(t["register"])' /\ ForwardRead(t["forward_info"])'
        /\ InjectRead(t["inject_time_table"])' /\ SubmitRead(t["submit_time_table"])'
    <2>1. RegisterRead(t["register"])'
        BY <1>11, Unchanged DEF ChipRead
    <2>2. ForwardRead(t["forward_info"])'
        BY <1>11, Unchanged DEF ChipRead
    <2>3. InjectRead(t["inject_time_table"])'
        BY <1>11, Unchanged DEF ChipRead
    <2>4. SubmitRead(t["submit_time_table"])'
        BY <1>11, Unchanged DEF ChipRead
    <2> QED BY <2>1, <2>2, <2>3, <2>4
<1>16. GateRead(n)'
    <2>1. chip'.depth = config.depth /\ n # 0
        BY <1>1, <1>2, <1>6, <1>11 DEF GateRead
    <2>2. chip.gate_out \in [Port -> [1 .. MaxDepth -> Nat]]
        BY DEF ChipType
    <2>3. ASSUME NEW q \in Port, q + 2 <= n, NEW i \in 1 .. config.depth
          PROVE  chip'.gate_out[q][i] = config.gate[q][i]
        <3>1. CASE q = p
            <4>1. chip'.gate_out[q] = w
                BY <1>11, <2>2, <3>1
            <4>2. i \in 1 .. MaxDepth /\ i <= config.depth
                BY <1>7, Constants
            <4> QED BY <1>8, <3>1, <4>1, <4>2
        <3>2. CASE q # p
            <4>1. chip'.gate_out[q] = chip.gate_out[q]
                BY <1>11, <2>2, <3>2
            <4>2. q + 2 <= n - 1
                BY <1>1, <1>4, <2>3, <3>2 DEF Port
            <4> QED BY <1>6, <2>3, <4>1, <4>2 DEF GateRead
        <3> QED BY <3>1, <3>2
    <2> QED BY <2>1, <2>3 DEF GateRead
<1>17. ChipRead(u)'
    BY <1>14, <1>15, <1>16 DEF ChipRead
<1> QED BY <1>11, <1>12, <1>13, <1>17

\* At the end of the file every section is read.
LEMMA AllSeen ==
    ASSUME config \in Config, NEW k, NEW j, NEW t, Place(config, k, j), Seen(config, k, j, t),
           rest = <<>>
    PROVE  \A s \in Section : t[s] = Len(Lines(config, s))
<1>1. k \in 1 .. 6 /\ j \in 0 .. Len(Block(config, k)) /\ (k <= 5 => j < Len(Block(config, k)))
        /\ rest = Remaining(config, k, j)
    BY DEF Place
<1>2. Len(Block(config, k)) \in Nat
    BY <1>1, BlockTyped
<1>3. ~(j < Len(Block(config, k)))
    <2> SUFFICES ASSUME j < Len(Block(config, k)) PROVE FALSE
        OBVIOUS
    <2>1. j \in 0 .. Len(Block(config, k)) - 1
        BY <1>1, <1>2
    <2>2. Remaining(config, k, j) # <<>>
        BY <1>1, <2>1, RemainingNext
    <2> QED BY <1>1, <2>2
<1>4. k = 6
    BY <1>1, <1>3
<1>5. \A i \in 1 .. 5 : t[config.order[i]] = Len(Lines(config, config.order[i]))
    BY <1>4 DEF Seen
<1>6. \A s \in Section : \E i \in 1 .. 5 : config.order[i] = s
    BY Ordered
<1> QED BY <1>5, <1>6

LEMMA ReadAll ==
    ASSUME config \in Config, NEW t, ChipRead(t), \A s \in Section : t[s] = Len(Lines(config, s))
    PROVE  Loaded
<1>1. RegisterRead(Len(config.given))
    <2>1. t["register"] = Len(config.given)
        BY LinesRegister, Sections
    <2> QED BY <2>1 DEF ChipRead
<1>2. \A r \in DOMAIN RegisterAddr :
        chip.reg[r] = IF r \in DOMAIN config.reg THEN config.reg[r] ELSE 0
    <2> SUFFICES ASSUME NEW r \in DOMAIN RegisterAddr
                 PROVE  (\E i \in 1 .. Len(config.given) : config.given[i] = r) <=> r \in DOMAIN config.reg
        BY <1>1 DEF RegisterRead
    <2>1. config.given \in Seq(DOMAIN RegisterAddr) /\ DOMAIN config.reg = ToSet(config.given)
        BY Configured
    <2>2. DOMAIN config.given = 1 .. Len(config.given)
        BY <2>1
    <2> QED BY <2>1, <2>2, Zenon DEF ToSet
<1>3. chip.forward = config.forward
    <2>1. t["forward_info"] = Len(config.forward) /\ config.forward \in Seq(ForwardEntry)
        BY LinesForward, Sections, Configured
    <2>2. chip.forward = SubSeq(config.forward, 1, Len(config.forward))
        BY <2>1 DEF ChipRead, ForwardRead
    <2> QED BY <2>1, <2>2, SubSeqFull
<1>4. chip.inject = config.inject
    <2>1. t["inject_time_table"] = Len(config.inject) /\ config.inject \in Seq(TimeEntry)
        BY LinesInject, Sections, Configured
    <2>2. chip.inject = SubSeq(config.inject, 1, Len(config.inject))
        BY <2>1 DEF ChipRead, InjectRead
    <2> QED BY <2>1, <2>2, SubSeqFull
<1>5. chip.submit = config.submit
    <2>1. t["submit_time_table"] = Len(config.submit) /\ config.submit \in Seq(TimeEntry)
        BY LinesSubmit, Sections, Configured
    <2>2. chip.submit = SubSeq(config.submit, 1, Len(config.submit))
        BY <2>1 DEF ChipRead, SubmitRead
    <2> QED BY <2>1, <2>2, SubSeqFull
<1>6. GateRead(Ports + 1)
    <2>1. t["gate_out"] = Ports + 1
        BY LinesGate, Sections
    <2> QED BY <2>1 DEF ChipRead
<1>7. chip.depth = config.depth
    <2>1. Ports + 1 # 0
        BY Constants
    <2> QED BY <1>6, <2>1 DEF GateRead
<1>8. \A p \in Port : \A i \in 1 .. config.depth : chip.gate_out[p][i] = config.gate[p][i]
    <2>1. \A p \in Port : p + 2 <= Ports + 1
        BY Constants DEF Port
    <2> QED BY <1>6, <2>1 DEF GateRead
<1> QED BY <1>2, <1>3, <1>4, <1>5, <1>7, <1>8 DEF Loaded

\* What a line does to the parser and to the chip.
LEMMA LineStep ==
    ASSUME config \in Config, chip \in ChipType, tmp_depth = chip.depth, Parsing,
           GetCfgInfo, rest # <<>>
    PROVE  (chip \in ChipType)' /\ tmp_depth' = chip'.depth /\ Parsing'
<1>1. PICK k, j, t : Place(config, k, j) /\ Seen(config, k, j, t) /\ ChipRead(t)
    BY DEF Parsing
<1>2. PICK f : /\ ReadIn(f)
               /\ f = "no_flow" => Outside
               /\ f = "new_flow" => TypeLine
               /\ f \in Section => \/ EndSection
                                   \/ RegisterLine /\ f = "register"
                                   \/ ForwardLine /\ f = "forward_info"
                                   \/ InjectLine /\ f = "inject_time_table"
                                   \/ SubmitLine /\ f = "submit_time_table"
                                   \/ DepthLine /\ f = "gate_out"
                                   \/ GateLine /\ f = "gate_out"
               /\ f \in Section \cup {"no_flow", "new_flow"}
    BY Readers, Zenon
<1>3. config' = config
    BY <1>2, ReadInStep
<1>4. t \in [Section -> Nat]
    BY <1>1 DEF Seen
<1>5. ASSUME NEW m, NEW i, NEW u, Place(config, m, i)', Seen(config, m, i, u)', ChipRead(u)'
      PROVE  Parsing'
    BY <1>5 DEF Parsing
<1>6. ASSUME chip' = chip PROVE (chip \in ChipType)' /\ ChipRead(t)'
    <2>1. (chip \in ChipType)'
        BY <1>6 DEF ChipType
    <2> QED BY <1>1, <1>3, <1>6, <2>1, ChipReadSame
<1>7. CASE f = "no_flow"
    <2>1. Outside /\ ReadIn("no_flow")
        BY <1>2, <1>7
    <2>2. chip' = chip /\ tmp_depth' = tmp_depth
        BY <2>1, Zenon DEF Outside
    <2>3. Place(config, k, j + 1)' /\ Seen(config, k, j + 1, t)'
        BY <1>1, <2>1, OutsidePlace
    <2> QED BY <1>5, <1>6, <2>2, <2>3
<1>8. CASE f = "new_flow"
    <2>1. TypeLine /\ ReadIn("new_flow")
        BY <1>2, <1>8
    <2>2. chip' = chip /\ tmp_depth' = tmp_depth
        BY <2>1 DEF TypeLine
    <2>3. Place(config, k, j + 1)' /\ Seen(config, k, j + 1, t)'
        BY <1>1, <2>1, TypePlace
    <2> QED BY <1>5, <1>6, <2>2, <2>3
<1>9. CASE f \in Section /\ EndSection
    <2>1. chip' = chip /\ tmp_depth' = tmp_depth
        BY <1>9, Zenon DEF EndSection
    <2>2. Place(config, k + 1, 0)' /\ Seen(config, k + 1, 0, t)'
        BY <1>1, <1>2, <1>9, EndPlace
    <2> QED BY <1>5, <1>6, <2>1, <2>2
<1>10. ASSUME f \in Section, InSection(f)
       PROVE  \E n \in 1 .. Len(Lines(config, f)) :
                /\ t[f] = n - 1 /\ ThisLine = Lines(config, f)[n]
                /\ Place(config, k, j + 1)' /\ Seen(config, k, j + 1, [t EXCEPT ![f] = n])'
    BY <1>1, <1>10, LinePlace
<1>11. CASE RegisterLine /\ f = "register"
    <2>1. InSection(f) /\ f \in Section /\ tmp_depth' = tmp_depth
        BY <1>11, Sections DEF RegisterLine
    <2>2. PICK n \in 1 .. Len(Lines(config, f)) :
                /\ t[f] = n - 1 /\ ThisLine = Lines(config, f)[n]
                /\ Place(config, k, j + 1)' /\ Seen(config, k, j + 1, [t EXCEPT ![f] = n])'
        BY <1>10, <2>1
    <2>3. (chip \in ChipType)' /\ chip'.depth = chip.depth /\ ChipRead([t EXCEPT ![f] = n])'
        BY <1>1, <1>3, <1>4, <1>11, <2>2, RegisterStep
    <2> QED BY <1>5, <2>1, <2>2, <2>3
<1>12. CASE ForwardLine /\ f = "forward_info"
    <2>1. InSection(f) /\ f \in Section /\ tmp_depth' = tmp_depth
        BY <1>12, Sections DEF ForwardLine
    <2>2. PICK n \in 1 .. Len(Lines(config, f)) :
                /\ t[f] = n - 1 /\ ThisLine = Lines(config, f)[n]
                /\ Place(config, k, j + 1)' /\ Seen(config, k, j + 1, [t EXCEPT ![f] = n])'
        BY <1>10, <2>1
    <2>3. (chip \in ChipType)' /\ chip'.depth = chip.depth /\ ChipRead([t EXCEPT ![f] = n])'
        BY <1>1, <1>3, <1>4, <1>12, <2>2, ForwardStep
    <2> QED BY <1>5, <2>1, <2>2, <2>3
<1>13. CASE InjectLine /\ f = "inject_time_table"
    <2>1. InSection(f) /\ f \in Section /\ tmp_depth' = tmp_depth
        BY <1>13, Sections DEF InjectLine
    <2>2. PICK n \in 1 .. Len(Lines(config, f)) :
                /\ t[f] = n - 1 /\ ThisLine = Lines(config, f)[n]
                /\ Place(config, k, j + 1)' /\ Seen(config, k, j + 1, [t EXCEPT ![f] = n])'
        BY <1>10, <2>1
    <2>3. (chip \in ChipType)' /\ chip'.depth = chip.depth /\ ChipRead([t EXCEPT ![f] = n])'
        BY <1>1, <1>3, <1>4, <1>13, <2>2, InjectStep
    <2> QED BY <1>5, <2>1, <2>2, <2>3
<1>14. CASE SubmitLine /\ f = "submit_time_table"
    <2>1. InSection(f) /\ f \in Section /\ tmp_depth' = tmp_depth
        BY <1>14, Sections DEF SubmitLine
    <2>2. PICK n \in 1 .. Len(Lines(config, f)) :
                /\ t[f] = n - 1 /\ ThisLine = Lines(config, f)[n]
                /\ Place(config, k, j + 1)' /\ Seen(config, k, j + 1, [t EXCEPT ![f] = n])'
        BY <1>10, <2>1
    <2>3. (chip \in ChipType)' /\ chip'.depth = chip.depth /\ ChipRead([t EXCEPT ![f] = n])'
        BY <1>1, <1>3, <1>4, <1>14, <2>2, SubmitStep
    <2> QED BY <1>5, <2>1, <2>2, <2>3
<1>15. CASE DepthLine /\ f = "gate_out"
    <2>1. InSection(f) /\ f \in Section
        BY <1>15, Sections DEF DepthLine
    <2>2. PICK n \in 1 .. Len(Lines(config, f)) :
                /\ t[f] = n - 1 /\ ThisLine = Lines(config, f)[n]
                /\ Place(config, k, j + 1)' /\ Seen(config, k, j + 1, [t EXCEPT ![f] = n])'
        BY <1>10, <2>1
    <2>3. (chip \in ChipType)' /\ tmp_depth' = chip'.depth /\ ChipRead([t EXCEPT ![f] = n])'
        BY <1>1, <1>3, <1>4, <1>15, <2>2, DepthStep
    <2> QED BY <1>5, <2>2, <2>3
<1>16. CASE GateLine /\ f = "gate_out"
    <2>1. InSection(f) /\ f \in Section /\ tmp_depth' = tmp_depth
        BY <1>16, Sections DEF GateLine
    <2>2. PICK n \in 1 .. Len(Lines(config, f)) :
                /\ t[f] = n - 1 /\ ThisLine = Lines(config, f)[n]
                /\ Place(config, k, j + 1)' /\ Seen(config, k, j + 1, [t EXCEPT ![f] = n])'
        BY <1>10, <2>1
    <2>3. (chip \in ChipType)' /\ chip'.depth = chip.depth /\ ChipRead([t EXCEPT ![f] = n])'
        BY <1>1, <1>3, <1>4, <1>16, <2>2, GateStep
    <2> QED BY <1>5, <2>1, <2>2, <2>3
<1> QED BY <1>2, <1>7, <1>8, <1>9, <1>11, <1>12, <1>13, <1>14, <1>15, <1>16

\* What is not a line of the file leaves what was read alone.
LEMMA ReadOver ==
    ASSUME ReadInv, config' = config, chip' = chip, tmp_depth' = tmp_depth, flow_flag' = flow_flag,
           loader' # "get_cfg_info_local", loader # "get_cfg_info_local" \/ rest = <<>>
    PROVE  ReadInv'
<1>1. /\ config \in Config /\ chip \in ChipType /\ tmp_depth = chip.depth
      /\ flow_flag \in Section \cup {"no_flow", "new_flow"}
    BY DEF ReadInv
<1>2. Loaded
    <2>1. CASE loader # "get_cfg_info_local"
        BY <2>1 DEF ReadInv
    <2>2. CASE loader = "get_cfg_info_local"
        <3>1. PICK k, j, t : Place(config, k, j) /\ Seen(config, k, j, t) /\ ChipRead(t)
            BY <2>2 DEF ReadInv, Parsing
        <3>2. \A s \in Section : t[s] = Len(Lines(config, s))
            BY <1>1, <2>2, <3>1, AllSeen
        <3> QED BY <1>1, <3>1, <3>2, ReadAll
    <2> QED BY <2>1, <2>2
<1>3. Loaded'
    BY <1>2 DEF Loaded
<1>4. (chip \in ChipType)'
    BY <1>1 DEF ChipType
<1> QED BY <1>1, <1>3, <1>4 DEF ReadInv

LEMMA ReadStays ==
    ASSUME ReadInv, UNCHANGED vars
    PROVE  ReadInv'
<1>1. /\ config' = config /\ rest' = rest /\ flow_flag' = flow_flag /\ tmp_depth' = tmp_depth
      /\ chip' = chip /\ loader' = loader
    BY DEF vars
<1>2. CASE loader # "get_cfg_info_local"
    BY <1>1, <1>2, ReadOver
<1>3. CASE loader = "get_cfg_info_local"
    <2>1. PICK k, j, t : Place(config, k, j) /\ Seen(config, k, j, t) /\ ChipRead(t)
        BY <1>3 DEF ReadInv, Parsing
    <2>2. Place(config, k, j)' /\ Seen(config, k, j, t)'
        BY <1>1, <2>1 DEF Place, Seen
    <2>3. ChipRead(t)'
        BY <1>1, <2>1, ChipReadSame
    <2>4. Parsing'
        BY <2>2, <2>3 DEF Parsing
    <2>5. /\ config \in Config /\ chip \in ChipType /\ tmp_depth = chip.depth
          /\ flow_flag \in Section \cup {"no_flow", "new_flow"}
        BY DEF ReadInv
    <2>6. (chip \in ChipType)'
        BY <1>1, <2>5 DEF ChipType
    <2> QED BY <1>1, <1>3, <2>4, <2>5, <2>6 DEF ReadInv
<1> QED BY <1>2, <1>3

\* The flag of the parser has its type.
LEMMA FlagStep ==
    ASSUME GetCfgInfo, flow_flag \in Section \cup {"no_flow", "new_flow"}
    PROVE  flow_flag' \in Section \cup {"no_flow", "new_flow"} /\ (rest # <<>> => loader' = loader)
<1>1. CASE rest = <<>>
    <2>1. ASSUME NEW f, ReadIn(f) PROVE FALSE
        BY <1>1, <2>1 DEF ReadIn
    <2>2. EndOfFile
        BY <2>1, Zenon DEF GetCfgInfo, Outside, TypeLine, EndSection, RegisterLine, ForwardLine,
            InjectLine, SubmitLine, DepthLine, GateLine, InSection
    <2> QED BY <1>1, <2>2 DEF EndOfFile
<1>2. CASE rest # <<>>
    <2>1. PICK f : /\ ReadIn(f)
                   /\ f = "no_flow" => Outside
                   /\ f = "new_flow" => TypeLine
                   /\ f \in Section => \/ EndSection
                                       \/ RegisterLine /\ f = "register"
                                       \/ ForwardLine /\ f = "forward_info"
                                       \/ InjectLine /\ f = "inject_time_table"
                                       \/ SubmitLine /\ f = "submit_time_table"
                                       \/ DepthLine /\ f = "gate_out"
                                       \/ GateLine /\ f = "gate_out"
                   /\ f \in Section \cup {"no_flow", "new_flow"}
        BY <1>2, Readers, Zenon
    <2>2. loader' = loader
        BY <2>1, ReadInStep
    <2>3. Outside => flow_flag' \in {"no_flow", "new_flow"}
        BY OutsideFlag
    <2>4. TypeLine => flow_flag' \in Section \cup {"no_flow"}
        BY TypeLineFlag
    <2>5. EndSection => flow_flag' = "no_flow"
        BY EndSectionFlag
    <2>6. ASSUME NEW s, InSection(s) PROVE flow_flag' = flow_flag
        BY <2>6, Zenon DEF InSection
    <2>7. RegisterLine \/ ForwardLine \/ InjectLine \/ SubmitLine \/ DepthLine \/ GateLine
            => flow_flag' = flow_flag
        BY <2>6, Zenon DEF RegisterLine, ForwardLine, InjectLine, SubmitLine, DepthLine, GateLine
    <2> QED BY <2>1, <2>2, <2>3, <2>4, <2>5, <2>7
<1> QED BY <1>1, <1>2

LEMMA CallStep ==
    ASSUME NEW this, NEW following, NEW messages, Call(this, following, messages)
    PROVE  /\ loader = this /\ loader' = following
           /\ UNCHANGED <<config, rest, flow_flag, tmp_depth, chip, table, lost>>
BY DEF Call, Write

LEMMA ReadStep ==
    ASSUME ReadInv, [Next]_vars
    PROVE  ReadInv'
<1>1. /\ config \in Config /\ chip \in ChipType /\ tmp_depth = chip.depth
      /\ flow_flag \in Section \cup {"no_flow", "new_flow"}
    BY DEF ReadInv
<1>2. CASE GetCfgInfo /\ rest # <<>>
    <2>1. loader = "get_cfg_info_local" /\ config' = config
        <3>1. PICK f : ReadIn(f)
            BY <1>2, Readers, Zenon
        <3> QED BY <3>1, ReadInStep
    <2>2. loader' = loader /\ flow_flag' \in Section \cup {"no_flow", "new_flow"}
        BY <1>1, <1>2, FlagStep
    <2>3. Parsing
        BY <2>1 DEF ReadInv
    <2>4. (chip \in ChipType)' /\ tmp_depth' = chip'.depth /\ Parsing'
        BY <1>1, <1>2, <2>3, LineStep
    <2> QED BY <1>1, <2>1, <2>2, <2>4 DEF ReadInv
<1>3. CASE GetCfgInfo /\ rest = <<>>
    <2>1. ASSUME NEW f, ReadIn(f) PROVE FALSE
        BY <1>3, <2>1 DEF ReadIn
    <2>2. EndOfFile
        BY <1>3, <2>1, Zenon DEF GetCfgInfo, Outside, TypeLine, EndSection, RegisterLine, ForwardLine,
            InjectLine, SubmitLine, DepthLine, GateLine, InSection
    <2>3. /\ config' = config /\ chip' = chip /\ tmp_depth' = tmp_depth /\ flow_flag' = flow_flag
          /\ loader' # "get_cfg_info_local"
        BY <2>2 DEF EndOfFile
    <2> QED BY <1>3, <2>3, ReadOver
<1>4. ASSUME NEW this, NEW following, NEW messages, Call(this, following, messages),
             this # "get_cfg_info_local", following # "get_cfg_info_local"
      PROVE  ReadInv'
    BY <1>4, CallStep, ReadOver
<1>5. CASE BuildForward
    BY <1>4, <1>5 DEF BuildForward
<1>6. CASE BuildGate
    BY <1>4, <1>6 DEF BuildGate
<1>7. CASE BuildRegister
    BY <1>4, <1>7 DEF BuildRegister
<1>8. CASE BuildInject
    BY <1>4, <1>8 DEF BuildInject
<1>9. CASE BuildSubmit
    BY <1>4, <1>9 DEF BuildSubmit
<1>10. CASE SendCfgFinish
    BY <1>4, <1>10 DEF SendCfgFinish
<1>11. CASE NmacParse
    BY <1>11, ReadOver DEF NmacParse
<1>12. CASE UNCHANGED vars
    BY <1>12, ReadStays
<1> QED BY <1>2, <1>3, <1>5, <1>6, <1>7, <1>8, <1>9, <1>10, <1>11, <1>12 DEF Next, Loader

-----------------------------------------------------------------------------
(* The messages                                                              *)

Message == [addr : Nat \X Nat, count : Nat, words : Seq(Nat)]

\* A word that the file gives the address; in the forward table it may be that of an
\* entry before the last one of its id.
Right(c, a, w) ==
    \/ a = CfgFinish /\ w \in {1, 3}
    \/ a[1] = ForwardPage
        /\ \E i \in 1 .. Len(c.forward) : c.forward[i].id = a[2] /\ w = c.forward[i].outport
    \/ a[1] = InjectPage /\ a[2] < Len(c.inject) /\ SlotEntry(w) = c.inject[a[2] + 1]
    \/ a[1] = SubmitPage /\ a[2] < Len(c.submit) /\ SlotEntry(w) = c.submit[a[2] + 1]
    \/ \E r \in DOMAIN RegisterAddr :
            a = <<RegisterPage, RegisterAddr[r]>>
                /\ w = IF r \in DOMAIN c.reg THEN c.reg[r] ELSE 0
    \/ \E p \in Port : a[1] = GatePage(p) /\ a[2] < c.depth /\ w = c.gate[p][a[2] + 1]

Good(c, m) ==
    /\ m \in Message /\ m.count = Len(m.words) /\ m.count \in 1 .. Batch
    /\ \A k \in 1 .. m.count : Right(c, <<m.addr[1], m.addr[2] + k - 1>>, m.words[k])

\* The messages of a call: each is right and on one of the pages, together they
\* write all the addresses.
Sends(c, messages, pages, addresses) ==
    /\ messages \in Seq(Message)
    /\ \A i \in 1 .. Len(messages) : Good(c, messages[i]) /\ messages[i].addr[1] \in pages
    /\ \A a \in addresses : \E i \in 1 .. Len(messages) : a \in Written(messages[i])

WordsRight(c, page, offset, words) ==
    \A k \in 1 .. Len(words) : Right(c, <<page, offset + k - 1>>, words[k])

Covers(m, page, offset, n) ==
    \A i \in Nat : offset <= i /\ i < offset + n => <<page, i>> \in Written(m)

LEMMA NmacGood ==
    ASSUME NEW c, NEW page \in Nat, NEW offset \in Nat, NEW words \in Seq(Nat),
           Len(words) \in 1 .. Batch, WordsRight(c, page, offset, words),
           NEW m, m = Nmac(page, offset, Len(words), words)
    PROVE  /\ Good(c, m) /\ m.addr[1] = page
           /\ Covers(m, page, offset, Len(words))
<1>1. m.addr = <<page, offset>> /\ m.count = Len(words) /\ m.words = words
    BY DEF Nmac
<1>2. m.addr[1] = page /\ m.addr[2] = offset
    BY <1>1
<1>3. m \in Message
    BY DEF Nmac, Message
<1> DEFINE R(a, w) == Right(c, a, w)
<1>4. \A k \in 1 .. m.count : R(<<m.addr[1], m.addr[2] + k - 1>>, m.words[k])
    <2> HIDE DEF R
    <2>1. \A k \in 1 .. Len(words) : R(<<page, offset + k - 1>>, words[k])
        BY DEF R, WordsRight
    <2> QED BY <1>1, <1>2, <2>1
<1>5. Good(c, m)
    BY <1>1, <1>3, <1>4 DEF Good
<1>6. ASSUME NEW i \in Nat, offset <= i, i < offset + Len(words) PROVE <<page, i>> \in Written(m)
    <2>1. PICK k : k = i - offset
        OBVIOUS
    <2>2. k \in 0 .. Len(words) - 1 /\ offset + k = i
        BY <1>6, <2>1
    <2> QED BY <1>1, <1>2, <2>2 DEF Written
<1> QED BY <1>2, <1>5, <1>6 DEF Covers

LEMMA MinTwo ==
    ASSUME NEW a \in Int, NEW b \in Int
    PROVE  Min({a, b}) = IF a <= b THEN a ELSE b
<1>1. \E x \in {a, b} : \A y \in {a, b} : x <= y
    OBVIOUS
<1>2. Min({a, b}) \in {a, b} /\ \A y \in {a, b} : Min({a, b}) <= y
    BY <1>1 DEF Min
<1> QED BY <1>2

LEMMA Within ==
    ASSUME NEW S, NEW list \in Seq(S), NEW o \in Nat, NEW e \in 1 .. Len(list), o < e
    PROVE  /\ SubSeq(list, o + 1, e) \in Seq(S) /\ Len(SubSeq(list, o + 1, e)) = e - o
           /\ \A i \in 1 .. e - o : SubSeq(list, o + 1, e)[i] = list[o + i]
<1>1. Len(list) \in Nat
    OBVIOUS
<1>2. SubSeq(list, o + 1, e) \in Seq(S) /\ Len(SubSeq(list, o + 1, e)) = e - o
    BY <1>1
<1> QED BY <1>1, <1>2

LEMMA PartLength ==
    ASSUME NEW b \in Nat \ {0}, NEW n \in Nat, NEW o \in Nat, o < n, NEW e,
           e = IF o + b <= n THEN o + b ELSE n
    PROVE  /\ e \in 1 .. n /\ o < e /\ e - o \in 1 .. b
           /\ e - o = IF o + b <= n THEN b ELSE n - o
OBVIOUS

\* The k-th part of a list.
LEMMA PartWords ==
    ASSUME NEW words \in Seq(Nat), NEW k \in Nat, NEW o, o = k * Batch, o < Len(words),
           NEW p, p = Part(words, k)
    PROVE  /\ p \in Seq(Nat) /\ Len(p) \in 1 .. Batch
           /\ Len(p) = IF o + Batch <= Len(words) THEN Batch ELSE Len(words) - o
           /\ \A i \in 1 .. Len(p) : o + i \in 1 .. Len(words) /\ p[i] = words[o + i]
<1>1. Batch \in Nat \ {0}
    BY Constants
<1>2. o \in Nat /\ (k + 1) * Batch = o + Batch /\ Len(words) \in Nat
    BY <1>1
<1>3. PICK e : e = Min({o + Batch, Len(words)})
    OBVIOUS
<1>4. e = IF o + Batch <= Len(words) THEN o + Batch ELSE Len(words)
    BY <1>1, <1>2, <1>3, MinTwo
<1>5. p = SubSeq(words, o + 1, e)
    BY <1>2, <1>3 DEF Part
<1>6. e \in 1 .. Len(words) /\ o < e
    BY <1>1, <1>2, <1>4, PartLength
<1>7. p \in Seq(Nat) /\ Len(p) = e - o /\ \A i \in 1 .. e - o : p[i] = words[o + i]
    <2>1. SubSeq(words, o + 1, e) \in Seq(Nat) /\ Len(SubSeq(words, o + 1, e)) = e - o
            /\ \A i \in 1 .. e - o : SubSeq(words, o + 1, e)[i] = words[o + i]
        BY <1>2, <1>6, Within
    <2> QED BY <1>5, <2>1, Zenon
<1>8. e - o \in 1 .. Batch /\ e - o = IF o + Batch <= Len(words) THEN Batch ELSE Len(words) - o
    BY <1>1, <1>2, <1>4, PartLength
<1>9. \A i \in 1 .. e - o : o + i \in 1 .. Len(words)
    BY <1>2, <1>6
<1>10. Len(p) = e - o
    BY <1>7
<1>11. \A i \in 1 .. Len(p) : o + i \in 1 .. Len(words) /\ p[i] = words[o + i]
    BY <1>7, <1>9, <1>10, Zenon
<1> QED BY <1>7, <1>8, <1>10, <1>11, Zenon

LEMMA DivMod ==
    ASSUME NEW x \in Nat, NEW d \in Nat \ {0}
    PROVE  /\ x \div d \in Nat /\ x % d \in 0 .. d - 1
           /\ x = (x \div d) * d + (x % d)
<1>1. x \div d \in Int /\ x % d \in 0 .. d - 1
    OBVIOUS
<1>2. x = d * (x \div d) + (x % d)
    OBVIOUS
<1>3. ASSUME x \div d < 0 PROVE FALSE
    <2>1. x \div d <= -1
        BY <1>1, <1>3
    <2>2. d * (x \div d) <= -d
        BY <1>1, <2>1
    <2> QED BY <1>1, <1>2, <1>3, <2>2
<1> QED BY <1>1, <1>2, <1>3

LEMMA Multiples ==
    ASSUME NEW a \in Int, NEW b \in Int, NEW d \in Nat
    PROVE  /\ a * d \in Int /\ (a + 1) * d = a * d + d
           /\ a <= b => a * d <= b * d
           /\ a < b => a * d + d <= b * d
<1>1. a * d \in Int /\ (a + 1) * d = a * d + d
    OBVIOUS
<1>2. ASSUME NEW x \in Int, x <= b PROVE x * d <= b * d
    <2>1. PICK n : n = b - x
        OBVIOUS
    <2>2. n \in Nat
        BY <1>2, <2>1
    <2>3. n * d >= 0
        BY <2>2
    <2>4. n * d = b * d - x * d
        BY <2>1
    <2> QED BY <2>3, <2>4
<1>3. a < b => a + 1 <= b
    OBVIOUS
<1> QED BY <1>1, <1>2, <1>3

\* There are as many parts of n words as it takes, and none too many.
LEMMA SlotTotal ==
    ASSUME NEW n \in Nat, NEW B, B = Batch, NEW q, q = SlotMessageCount(n)
    PROVE  q \in Nat /\ \E r \in 0 .. B - 1 : n + B - 1 = q * B + r
<1>1. B \in Nat \ {0}
    BY Constants
<1>2. PICK x : x = n + B - 1
    OBVIOUS
<1>3. x \in Nat /\ q = x \div B
    BY <1>1, <1>2 DEF SlotMessageCount
<1>4. q \in Nat /\ x % B \in 0 .. B - 1 /\ x = q * B + (x % B)
    BY <1>1, <1>3, DivMod
<1> QED BY <1>2, <1>4, Zenon

LEMMA SlotOffset ==
    ASSUME NEW n \in Nat, NEW k \in 1 .. SlotMessageCount(n), NEW o, o = (k - 1) * Batch
    PROVE  o \in Nat /\ o < n
<1>1. PICK B : B = Batch /\ B \in Nat \ {0}
    BY Constants
<1>2. PICK q : q = SlotMessageCount(n)
    OBVIOUS
<1>3. q \in Nat /\ \E r \in 0 .. B - 1 : n + B - 1 = q * B + r
    BY <1>1, <1>2, SlotTotal
<1>4. PICK j : j = k - 1
    OBVIOUS
<1>5. j \in Nat /\ j < q
    BY <1>2, <1>3, <1>4
<1>6. j * B \in Int /\ j * B + B <= q * B /\ 0 * B <= j * B
    BY <1>1, <1>3, <1>5, Multiples
<1>7. o = j * B
    BY <1>1, <1>4
<1>8. PICK x, y : x = j * B /\ y = q * B
    OBVIOUS
<1>9. y \in Int
    BY <1>1, <1>3, <1>8
<1> QED BY <1>1, <1>3, <1>6, <1>7, <1>8, <1>9

LEMMA SlotPart ==
    ASSUME NEW n \in Nat, NEW i \in 0 .. n - 1
    PROVE  \E k \in 1 .. SlotMessageCount(n) :
            (k - 1) * Batch <= i /\ i < (k - 1) * Batch + Batch
<1>1. PICK B : B = Batch /\ B \in Nat \ {0}
    BY Constants
<1>2. PICK q : q = SlotMessageCount(n)
    OBVIOUS
<1>3. q \in Nat /\ \E r \in 0 .. B - 1 : n + B - 1 = q * B + r
    BY <1>1, <1>2, SlotTotal
<1>4. i \in Nat /\ i < n
    OBVIOUS
<1>5. PICK x : x = i \div B
    OBVIOUS
<1>6. PICK s : s = i % B
    OBVIOUS
<1>7. x \in Nat /\ s \in 0 .. B - 1 /\ i = x * B + s
    BY <1>1, <1>4, <1>5, <1>6, DivMod
<1>8. PICK y : y = x * B
    OBVIOUS
<1>9. PICK z : z = q * B
    OBVIOUS
<1>10. y \in Int /\ 0 * B <= y
    BY <1>1, <1>7, <1>8, Multiples
<1>11. x < q
    <2>1. SUFFICES ASSUME q <= x PROVE FALSE
        BY <1>3, <1>7
    <2>2. z <= y /\ z \in Int
        BY <1>1, <1>3, <1>7, <1>8, <1>9, <2>1, Multiples
    <2>3. PICK r \in 0 .. B - 1 : n + B - 1 = z + r
        BY <1>3, <1>9
    <2>4. i = y + s
        BY <1>7, <1>8
    <2> QED BY <1>1, <1>4, <1>7, <1>10, <2>2, <2>3, <2>4
<1>12. y <= i /\ i < y + B
    <2>1. i = y + s
        BY <1>7, <1>8
    <2> QED BY <1>1, <1>7, <1>10, <2>1
<1>13. PICK k : k = x + 1
    OBVIOUS
<1>14. k \in 1 .. q /\ k - 1 = x
    BY <1>3, <1>7, <1>11, <1>13
<1> QED BY <1>1, <1>2, <1>8, <1>12, <1>14, Zenon

LEMMA SlotWordEntry ==
    ASSUME NEW e \in TimeEntry
    PROVE  SlotWord(e) \in Nat /\ SlotEntry(SlotWord(e)) = e
<1>1. PICK v, s, a : v = e.valid /\ s = e.slot /\ a = e.addr
    OBVIOUS
<1>2. v \in {0, 1} /\ s \in 0 .. 1023 /\ a \in 0 .. 31 /\ e = [valid |-> v, slot |-> s, addr |-> a]
    BY <1>1 DEF TimeEntry
<1>3. SlotWord(e) = v * 32768 + s * 32 + a
    BY <1>1 DEF SlotWord
<1>4. PICK w : w = v * 32768 + s * 32 + a
    OBVIOUS
<1>5. w \in Nat /\ w \div 32768 = v /\ (w \div 32) % 1024 = s /\ w % 32 = a
    <2>1. CASE v = 0
        <3>1. w = s * 32 + a
            BY <1>2, <1>4, <2>1
        <3>2. w \div 32 = s /\ w % 32 = a
            BY <1>2, <3>1
        <3> QED BY <1>2, <2>1, <3>1, <3>2
    <2>2. CASE v = 1
        <3>1. w = 32768 + s * 32 + a
            BY <1>2, <1>4, <2>2
        <3>2. w \div 32 = 1024 + s /\ w % 32 = a
            BY <1>2, <3>1
        <3> QED BY <1>2, <2>2, <3>1, <3>2
    <2> QED BY <1>2, <2>1, <2>2
<1> QED BY <1>2, <1>3, <1>4, <1>5 DEF SlotEntry

\* The messages of a list of slots.
SlotsRight(c, page, entries) ==
    \A k \in 1 .. Len(entries), w \in Nat : SlotEntry(w) = entries[k] => Right(c, <<page, k - 1>>, w)

LEMMA SlotSends ==
    ASSUME NEW c, NEW page \in Nat, NEW entries \in Seq(TimeEntry), SlotsRight(c, page, entries)
    PROVE  Sends(c, SlotMessages(page, entries), {page},
                 {<<page, i>> : i \in 0 .. Len(entries) - 1})
<1>1. PICK n : n = Len(entries) /\ n \in Nat
    OBVIOUS
<1> DEFINE words == [i \in 1 .. n |-> SlotWord(entries[i])]
<1>2. \A i \in 1 .. n : entries[i] \in TimeEntry
    BY <1>1
<1>3. \A i \in 1 .. n : words[i] \in Nat /\ SlotEntry(words[i]) = entries[i]
    BY <1>2, SlotWordEntry
<1>4. words \in [1 .. n -> Nat]
    <2>1. words = [i \in 1 .. n |-> words[i]]
        OBVIOUS
    <2> HIDE DEF words
    <2> QED BY <1>3, <2>1
<1> DEFINE q == SlotMessageCount(n)
           messages == [k \in 1 .. q |-> Nmac(page, (k - 1) * Batch, Len(Part(words, k - 1)), Part(words, k - 1))]
<1>5. SlotMessages(page, entries) = messages
    BY <1>1 DEF SlotMessages
<1> HIDE DEF words
<1>6. words \in Seq(Nat) /\ Len(words) = n
    BY <1>1, <1>4, FcnSeq
<1>7. q \in Nat
    BY <1>1, SlotTotal
<1>8. \A k \in 1 .. q : messages[k] = Nmac(page, (k - 1) * Batch, Len(Part(words, k - 1)), Part(words, k - 1))
    OBVIOUS
<1>9. messages = [k \in 1 .. q |-> messages[k]]
    OBVIOUS
<1> HIDE DEF messages, q
<1>10. ASSUME NEW k \in 1 .. q, NEW o, o = (k - 1) * Batch
       PROVE  /\ Good(c, messages[k]) /\ messages[k].addr[1] = page
              /\ \A i \in 0 .. n - 1 : o <= i /\ i < o + Batch => <<page, i>> \in Written(messages[k])
    <2>1. PICK p : p = Part(words, k - 1)
        OBVIOUS
    <2>2. o \in Nat /\ o < n
        BY <1>1, <1>10, SlotOffset, Zenon DEF q
    <2>3. k - 1 \in Nat
        BY <1>7
    <2>4. /\ p \in Seq(Nat) /\ Len(p) \in 1 .. Batch
          /\ Len(p) = IF o + Batch <= n THEN Batch ELSE n - o
          /\ \A i \in 1 .. Len(p) : o + i \in 1 .. n /\ p[i] = words[o + i]
        BY <1>6, <1>10, <2>1, <2>2, <2>3, PartWords, SMTT(30)
    <2>5. ASSUME NEW i \in 1 .. Len(p) PROVE Right(c, <<page, o + i - 1>>, p[i])
        <3>1. PICK j : j = o + i
            OBVIOUS
        <3>2. j \in 1 .. n /\ p[i] = words[j]
            BY <2>4, <3>1
        <3>3. SlotEntry(words[j]) = entries[j] /\ words[j] \in Nat
            BY <1>3, <3>2
        <3>4. PICK w : w = words[j]
            OBVIOUS
        <3>5. Right(c, <<page, j - 1>>, w)
            BY <1>1, <3>2, <3>3, <3>4, Zenon DEF SlotsRight
        <3>6. p[i] = w /\ o + i - 1 = j - 1
            BY <2>2, <3>1, <3>2, <3>4
        <3> QED BY <3>5, <3>6, Zenon
    <2>6. PICK m : m = messages[k] /\ m = Nmac(page, o, Len(p), p)
        BY <1>8, <1>10, <2>1
    <2>7. /\ Good(c, m) /\ m.addr[1] = page
          /\ \A i \in Nat : o <= i /\ i < o + Len(p) => <<page, i>> \in Written(m)
        <3>1. WordsRight(c, page, o, p)
            BY <2>5, Zenon DEF WordsRight
        <3>2. o \in Nat
            BY <2>2
        <3>3. p \in Seq(Nat)
            BY <2>4
        <3>4. Len(p) \in 1 .. Batch
            BY <2>4
        <3>5. m = Nmac(page, o, Len(p), p)
            BY <2>6
        <3>6. Good(c, m) /\ m.addr[1] = page /\ Covers(m, page, o, Len(p))
            BY <3>1, <3>2, <3>3, <3>4, <3>5, NmacGood
        <3> QED BY <3>6 DEF Covers
    <2>8. ASSUME NEW i \in 0 .. n - 1, o <= i, i < o + Batch PROVE i < o + Len(p)
        BY <1>1, <2>2, <2>4, <2>8
    <2> QED BY <2>6, <2>7, <2>8
<1>11. messages \in Seq(Message) /\ Len(messages) = q
    <2>1. \A k \in 1 .. q : messages[k] \in Message
        BY <1>10 DEF Good
    <2>2. messages \in [1 .. q -> Message]
        BY <1>9, <2>1, Zenon
    <2> QED BY <1>7, <2>2, FcnSeq
<1>12. ASSUME NEW i \in 0 .. n - 1 PROVE \E k \in 1 .. q : <<page, i>> \in Written(messages[k])
    <2>1. PICK k \in 1 .. q : (k - 1) * Batch <= i /\ i < (k - 1) * Batch + Batch
        BY <1>1, SlotPart DEF q
    <2>2. PICK o : o = (k - 1) * Batch
        OBVIOUS
    <2> QED BY <1>10, <2>1, <2>2, Zenon
<1>13. \A a \in {<<page, i>> : i \in 0 .. n - 1} : \E k \in 1 .. q : a \in Written(messages[k])
    BY <1>12
<1> QED BY <1>1, <1>5, <1>10, <1>11, <1>13 DEF Sends

LEMMA RegisterPlaces ==
    /\ RegisterOrder \in Seq(DOMAIN RegisterAddr) /\ Len(RegisterOrder) = 11
    /\ \A r \in DOMAIN RegisterAddr : \E i \in 1 .. 11 : RegisterOrder[i] = r
    /\ \A r \in DOMAIN RegisterAddr : RegisterAddr[r] \in Nat /\ RegisterAddr[r] # 3
<1> DEFINE o(i) == RegisterOrder[i]
<1>1. Len(RegisterOrder) = 11
    BY DEF RegisterOrder
<1>2. /\ o(1) = "port_type" /\ o(2) = "qbv_or_qch" /\ o(3) = "slot_length"
      /\ o(4) = "inject_slot_period" /\ o(5) = "submit_slot_period" /\ o(6) = "report_type"
      /\ o(7) = "report_en" /\ o(8) = "report_period" /\ o(9) = "rc_regulation_value"
      /\ o(10) = "be_regulation_value" /\ o(11) = "unmap_regulation_value"
    BY DEF RegisterOrder
<1>3. DOMAIN RegisterAddr =
        {"slot_length", "port_type", "qbv_or_qch", "report_type", "report_en",
         "inject_slot_period", "submit_slot_period", "report_period",
         "rc_regulation_value", "be_regulation_value", "unmap_regulation_value"}
    BY DEF RegisterAddr
<1>4. RegisterOrder \in Seq(DOMAIN RegisterAddr)
    BY <1>3 DEF RegisterOrder
<1> HIDE DEF o
<1>5. \A r \in DOMAIN RegisterAddr : \E i \in 1 .. 11 : o(i) = r
    BY <1>2, <1>3
<1>6. \A r \in DOMAIN RegisterAddr : RegisterAddr[r] \in Nat /\ RegisterAddr[r] # 3
    BY DEF RegisterAddr
<1> QED BY <1>1, <1>4, <1>5, <1>6 DEF o

\* A message of a single word.
LEMMA OneWord ==
    ASSUME NEW c, NEW offset \in Nat, NEW w \in Nat, Right(c, <<RegisterPage, offset>>, w),
           NEW m, m = Nmac(RegisterPage, offset, 1, <<w>>)
    PROVE  /\ Good(c, m) /\ m.addr[1] = RegisterPage
           /\ Written(m) = {<<RegisterPage, offset>>} /\ m.words = <<w>>
<1>1. PICK words : words = <<w>>
    OBVIOUS
<1>2. words \in Seq(Nat) /\ Len(words) = 1 /\ words[1] = w
    BY <1>1
<1>3. WordsRight(c, RegisterPage, offset, words)
    <2>1. ASSUME NEW k \in 1 .. Len(words) PROVE k = 1
        BY <1>2, <2>1
    <2>2. offset + 1 - 1 = offset
        OBVIOUS
    <2> QED BY <1>2, <2>1, <2>2, Zenon DEF WordsRight
<1>4. 1 \in 1 .. Batch /\ RegisterPage \in Nat
    BY Constants DEF RegisterPage
<1>5. Good(c, m) /\ m.addr[1] = RegisterPage
    <2>1. m = Nmac(RegisterPage, offset, Len(words), words)
        BY <1>1, <1>2, Zenon
    <2>2. words \in Seq(Nat) /\ Len(words) \in 1 .. Batch
        BY <1>2, <1>4
    <2> QED BY <1>3, <1>4, <2>1, <2>2, NmacGood
<1>6. Written(m) = {<<RegisterPage, offset>>}
    <2>1. m.addr = <<RegisterPage, offset>> /\ m.count = 1
        BY DEF Nmac
    <2>2. 0 .. m.count - 1 = {0} /\ m.addr[1] = RegisterPage /\ m.addr[2] + 0 = offset
        BY <2>1
    <2> QED BY <2>2 DEF Written
<1> QED BY <1>5, <1>6 DEF Nmac

LEMMA RegisterSends ==
    ASSUME config \in Config, chip \in ChipType, Loaded
    PROVE  /\ Sends(config, RegisterMessages, {RegisterPage},
                    {<<RegisterPage, RegisterAddr[r]>> : r \in DOMAIN RegisterAddr})
           /\ \A i \in 1 .. Len(RegisterMessages) : CfgFinish \notin Written(RegisterMessages[i])
<1>1. PICK messages : messages = RegisterMessages
    OBVIOUS
<1>2. DOMAIN messages = 1 .. 11
    BY <1>1, RegisterPlaces DEF RegisterMessages
<1>3. ASSUME NEW i \in 1 .. 11
      PROVE  /\ Good(config, messages[i]) /\ messages[i].addr[1] = RegisterPage
             /\ Written(messages[i]) = {<<RegisterPage, RegisterAddr[RegisterOrder[i]]>>}
    <2>1. PICK r : r = RegisterOrder[i]
        OBVIOUS
    <2>2. r \in DOMAIN RegisterAddr
        BY <2>1, RegisterPlaces, ElementOfSeq
    <2>3. PICK w : w = chip.reg[r]
        OBVIOUS
    <2>4. w \in Nat
        BY <2>2, <2>3 DEF ChipType
    <2>5. w = IF r \in DOMAIN config.reg THEN config.reg[r] ELSE 0
        BY <2>2, <2>3 DEF Loaded
    <2>6. PICK a : a = <<RegisterPage, RegisterAddr[r]>>
        OBVIOUS
    <2>7. Right(config, a, w)
        <3>1. \E x \in DOMAIN RegisterAddr :
                    a = <<RegisterPage, RegisterAddr[x]>>
                        /\ w = IF x \in DOMAIN config.reg THEN config.reg[x] ELSE 0
            BY <2>2, <2>5, <2>6, Zenon
        <3> QED BY <3>1 DEF Right
    <2>8. PICK m : m = messages[i]
        OBVIOUS
    <2>9. m = Nmac(RegisterPage, RegisterAddr[r], 1, <<w>>)
        BY <1>1, <2>1, <2>3, <2>8, RegisterPlaces DEF RegisterMessages
    <2>10. RegisterAddr[r] \in Nat
        BY <2>2, RegisterPlaces
    <2>11. /\ Good(config, m) /\ m.addr[1] = RegisterPage
           /\ Written(m) = {<<RegisterPage, RegisterAddr[r]>>}
        BY <2>4, <2>6, <2>7, <2>9, <2>10, OneWord
    <2> QED BY <2>1, <2>8, <2>11
<1>4. messages \in Seq(Message) /\ Len(messages) = 11
    <2>1. \A i \in 1 .. 11 : messages[i] \in Message
        BY <1>3 DEF Good
    <2>2. messages = [i \in 1 .. 11 |-> messages[i]]
        BY <1>1, RegisterPlaces DEF RegisterMessages
    <2>3. messages \in [1 .. 11 -> Message]
        BY <2>1, <2>2, Zenon
    <2> QED BY <2>3, FcnSeq
<1>5. ASSUME NEW r \in DOMAIN RegisterAddr
      PROVE  \E i \in 1 .. 11 : <<RegisterPage, RegisterAddr[r]>> \in Written(messages[i])
    <2>1. PICK i \in 1 .. 11 : RegisterOrder[i] = r
        BY RegisterPlaces
    <2>2. Written(messages[i]) = {<<RegisterPage, RegisterAddr[r]>>}
        BY <1>3, <2>1
    <2> QED BY <2>2
<1>6. ASSUME NEW i \in 1 .. 11 PROVE CfgFinish \notin Written(messages[i])
    <2>1. RegisterAddr[RegisterOrder[i]] # 3
        BY RegisterPlaces, ElementOfSeq
    <2>2. CfgFinish # <<RegisterPage, RegisterAddr[RegisterOrder[i]]>>
        BY <2>1 DEF CfgFinish
    <2> QED BY <1>3, <2>2
<1> QED BY <1>1, <1>3, <1>4, <1>5, <1>6 DEF Sends

LEMMA FinishSends ==
    ASSUME NEW c, NEW m, m = Nmac(RegisterPage, 3, 1, << 3 >>)
    PROVE  Sends(c, <<m>>, {RegisterPage}, {CfgFinish}) /\ m.words = << 3 >> /\ Written(m) = {CfgFinish}
<1>1. Right(c, <<RegisterPage, 3>>, 3)
    BY DEF Right, CfgFinish
<1>2. 3 \in Nat
    OBVIOUS
<1>3. /\ Good(c, m) /\ m.addr[1] = RegisterPage
      /\ Written(m) = {<<RegisterPage, 3>>} /\ m.words = << 3 >>
    BY <1>1, <1>2, OneWord
<1>4. m \in Message
    BY <1>3 DEF Good
<1>5. <<m>> \in Seq(Message) /\ Len(<<m>>) = 1 /\ <<m>>[1] = m
    BY <1>4, Single
<1> QED BY <1>3, <1>5 DEF Sends, CfgFinish

\* The parts of a gate list: the last one is not empty and not full.
LEMMA GateParts ==
    ASSUME NEW d \in Nat, d % Batch \notin {0, Batch - 1}, NEW B, B = Batch, NEW q, q = d \div B
    PROVE  /\ q \in Nat /\ GateTail(d) = 1
           /\ \E r \in 1 .. B - 2 : r = d % B /\ d = q * B + r
<1>1. B \in Nat \ {0}
    BY Constants
<1>2. PICK r : r = d % B
    OBVIOUS
<1>3. q \in Nat /\ r \in 0 .. B - 1 /\ d = q * B + r
    BY <1>1, <1>2, DivMod
<1>4. r \in 1 .. B - 2
    BY <1>1, <1>2, <1>3
<1>5. PICK e, x, s : e = d + 1 /\ x = e \div B /\ s = e % B
    OBVIOUS
<1>6. e \in Nat
    BY <1>5
<1>7. x \in Nat /\ s \in 0 .. B - 1 /\ e = x * B + s
    BY <1>1, <1>5, <1>6, DivMod
<1>8. PICK y, z : y = q * B /\ z = x * B
    OBVIOUS
<1>9. y \in Int /\ z \in Int
    BY <1>1, <1>3, <1>7, <1>8, Multiples
<1>10. e = y + r + 1 /\ e = z + s
    BY <1>3, <1>5, <1>7, <1>8
<1>11. s # 0
    <2>1. CASE x <= q
        <3>1. z <= y
            BY <1>1, <1>3, <1>7, <1>8, <2>1, Multiples
        <3> QED BY <1>4, <1>9, <1>10, <3>1
    <2>2. CASE q < x
        <3>1. y + B <= z
            BY <1>1, <1>3, <1>7, <1>8, <2>2, Multiples
        <3> QED BY <1>1, <1>4, <1>7, <1>9, <1>10, <3>1
    <2> QED BY <1>3, <1>7, <2>1, <2>2
<1>12. GateTail(d) = 1
    BY <1>5, <1>11 DEF GateTail
<1> QED BY <1>2, <1>3, <1>4, <1>12

LEMMA GatePart ==
    ASSUME NEW d \in Nat, d % Batch \notin {0, Batch - 1}, NEW q, q = d \div Batch,
           NEW k \in 1 .. q + 1, NEW o, o = (k - 1) * Batch
    PROVE  /\ o \in Nat /\ o < d
           /\ (IF k <= q THEN Batch ELSE d % Batch) = IF o + Batch <= d THEN Batch ELSE d - o
<1>1. PICK B : B = Batch /\ B \in Nat \ {0}
    BY Constants
<1>2. PICK r : r = d % B
    OBVIOUS
<1>3. q \in Nat /\ r \in 1 .. B - 2 /\ d = q * B + r
    BY <1>1, <1>2, GateParts
<1>4. PICK j : j = k - 1
    OBVIOUS
<1>5. j \in Nat /\ j <= q
    BY <1>3, <1>4
<1>6. PICK y, z : y = q * B /\ z = j * B
    OBVIOUS
<1>7. y \in Int /\ z \in Int /\ 0 * B <= z /\ z <= y
    BY <1>1, <1>3, <1>5, <1>6, Multiples
<1>8. r \in 1 .. B - 2
    BY <1>3
<1>9. y \in Nat /\ z \in Nat /\ z <= y
    <2>1. 0 * B = 0
        BY <1>1
    <2> QED BY <1>7, <2>1
<1>10. o = z
    BY <1>1, <1>4, <1>6
<1>11. d = y + r
    BY <1>3, <1>6
<1>12. o \in Nat /\ o < d
    BY <1>8, <1>9, <1>10, <1>11
<1>13. CASE k <= q
    <2>1. z + B <= y
        <3>1. j < q
            BY <1>3, <1>4, <1>13
        <3> QED BY <1>1, <1>3, <1>5, <1>6, <3>1, Multiples
    <2>2. z + B <= d
        BY <1>1, <1>8, <1>9, <1>11, <2>1
    <2> QED BY <1>1, <1>10, <1>12, <1>13, <2>2
<1>14. CASE ~(k <= q)
    <2>1. j = q
        BY <1>3, <1>4, <1>5, <1>14
    <2>2. z = y
        BY <1>6, <2>1
    <2>3. ~(z + B <= d) /\ d - z = r
        BY <1>1, <1>8, <1>9, <1>11, <2>2
    <2> QED BY <1>1, <1>2, <1>10, <1>12, <1>14, <2>3
<1> QED BY <1>13, <1>14

LEMMA GateOf ==
    ASSUME NEW d \in Nat, d % Batch \notin {0, Batch - 1}, NEW B, B = Batch, NEW q, q = d \div B,
           NEW i \in 0 .. d - 1
    PROVE  \E k \in 1 .. q + 1 : (k - 1) * Batch <= i /\ i < (k - 1) * Batch + Batch
<1>1. B \in Nat \ {0}
    BY Constants
<1>2. PICK r : r = d % B
    OBVIOUS
<1>3. q \in Nat /\ r \in 1 .. B - 2 /\ d = q * B + r
    BY <1>2, GateParts
<1>4. i \in Nat /\ i < d
    OBVIOUS
<1>5. PICK x, s : x = i \div B /\ s = i % B
    OBVIOUS
<1>6. x \in Nat /\ s \in 0 .. B - 1 /\ i = x * B + s
    BY <1>1, <1>4, <1>5, DivMod
<1>7. PICK y, z : y = q * B /\ z = x * B
    OBVIOUS
<1>8. y \in Int /\ z \in Int /\ 0 * B <= z
    BY <1>1, <1>3, <1>6, <1>7, Multiples
<1>9. d = y + r /\ i = z + s
    BY <1>3, <1>6, <1>7
<1>10. r \in 1 .. B - 2 /\ s \in 0 .. B - 1
    BY <1>3, <1>6
<1>11. y \in Nat /\ z \in Nat
    BY <1>1, <1>3, <1>6, <1>7
<1>12. x <= q
    <2>1. SUFFICES ASSUME q < x PROVE FALSE
        BY <1>3, <1>6
    <2>2. y + B <= z
        BY <1>1, <1>3, <1>6, <1>7, <2>1, Multiples
    <2> QED BY <1>1, <1>4, <1>9, <1>10, <1>11, <2>2
<1>13. z <= i /\ i < z + B
    BY <1>1, <1>9, <1>10, <1>11
<1>14. PICK k : k = x + 1
    OBVIOUS
<1>15. k \in 1 .. q + 1 /\ k - 1 = x
    BY <1>3, <1>6, <1>12, <1>14
<1> QED BY <1>7, <1>13, <1>15, Zenon

LEMMA GateSends ==
    ASSUME config \in Config, chip \in ChipType, Loaded, NEW p \in Port
    PROVE  Sends(config, GateMessages(p), {GatePage(p)},
                 {<<GatePage(p), i>> : i \in 0 .. config.depth - 1})
<1>1. PICK d : d = config.depth
    OBVIOUS
<1>2. d \in Nat /\ d \in 1 .. MaxDepth /\ d % Batch \notin {0, Batch - 1} /\ chip.depth = d
    BY <1>1, Configured, Constants DEF Loaded
<1>3. PICK words : words = SubSeq(chip.gate_out[p], 1, chip.depth)
    OBVIOUS
<1>4. words \in Seq(Nat) /\ Len(words) = d /\ \A i \in 1 .. d : words[i] = config.gate[p][i]
    <2>1. chip.gate_out[p] \in [1 .. MaxDepth -> Nat]
        BY DEF ChipType
    <2>2. chip.gate_out[p] \in Seq(Nat) /\ Len(chip.gate_out[p]) = MaxDepth
        BY <2>1, Constants, FcnSeq
    <2>3. words \in Seq(Nat) /\ Len(words) = d /\ \A i \in 1 .. d : words[i] = chip.gate_out[p][i]
        BY <1>2, <1>3, <2>2
    <2>4. \A i \in 1 .. d : chip.gate_out[p][i] = config.gate[p][i]
        BY <1>1 DEF Loaded
    <2> QED BY <2>3, <2>4
<1>5. PICK q : q = d \div Batch
    OBVIOUS
<1>6. q \in Nat /\ GateTail(d) = 1
    BY <1>2, <1>5, GateParts
<1>7. PICK page : page = GatePage(p) /\ page \in Nat
    BY DEF GatePage, Port
<1>8. PICK messages : messages = GateMessages(p)
    OBVIOUS
<1>9. messages = [k \in 1 .. q + 1 |->
                    Nmac(page, (k - 1) * Batch, IF k <= q THEN Batch ELSE d % Batch, Part(words, k - 1))]
    BY <1>2, <1>3, <1>5, <1>6, <1>7, <1>8 DEF GateMessages
<1>10. ASSUME NEW k \in 1 .. q + 1, NEW o, o = (k - 1) * Batch
       PROVE  /\ Good(config, messages[k]) /\ messages[k].addr[1] = page
              /\ \A i \in 0 .. d - 1 : o <= i /\ i < o + Batch => <<page, i>> \in Written(messages[k])
    <2>1. PICK x : x = Part(words, k - 1)
        OBVIOUS
    <2>2. /\ o \in Nat /\ o < d
          /\ (IF k <= q THEN Batch ELSE d % Batch) = IF o + Batch <= d THEN Batch ELSE d - o
        BY <1>2, <1>5, <1>10, GatePart
    <2>3. o \in Nat
        BY <2>2
    <2>4. k - 1 \in Nat
        BY <1>6
    <2>5. /\ x \in Seq(Nat) /\ Len(x) \in 1 .. Batch
          /\ Len(x) = IF o + Batch <= d THEN Batch ELSE d - o
          /\ \A i \in 1 .. Len(x) : o + i \in 1 .. d /\ x[i] = words[o + i]
        <3>1. words \in Seq(Nat) /\ Len(words) = d
            BY <1>4
        <3>2. o < Len(words)
            BY <2>2, <3>1
        <3>3. /\ x \in Seq(Nat) /\ Len(x) \in 1 .. Batch
              /\ Len(x) = IF o + Batch <= Len(words) THEN Batch ELSE Len(words) - o
              /\ \A i \in 1 .. Len(x) : o + i \in 1 .. Len(words) /\ x[i] = words[o + i]
            BY <1>10, <2>1, <2>4, <3>1, <3>2, PartWords
        <3> QED BY <3>1, <3>3, Zenon
    <2>6. ASSUME NEW i \in 1 .. Len(x) PROVE Right(config, <<page, o + i - 1>>, x[i])
        <3>1. PICK j : j = o + i
            OBVIOUS
        <3>2. j \in 1 .. d /\ x[i] = words[j]
            BY <2>5, <3>1
        <3>3. PICK a : a = <<page, j - 1>>
            OBVIOUS
        <3>4. a[1] = GatePage(p) /\ a[2] < config.depth /\ words[j] = config.gate[p][a[2] + 1]
            <4>1. a[1] = page /\ a[2] = j - 1
                BY <3>3
            <4>2. j - 1 < d /\ (j - 1) + 1 = j
                BY <1>2, <3>2
            <4> QED BY <1>1, <1>4, <1>7, <3>2, <4>1, <4>2, Zenon
        <3>5. Right(config, a, words[j])
            BY <3>4, Zenon DEF Right
        <3>6. o + i - 1 = j - 1
            BY <2>3, <3>1
        <3> QED BY <3>2, <3>3, <3>5, <3>6, Zenon
    <2>7. PICK m : m = messages[k]
        OBVIOUS
    <2>8. m = Nmac(page, o, Len(x), x)
        <3>1. m = Nmac(page, o, IF k <= q THEN Batch ELSE d % Batch, x)
            BY <1>9, <1>10, <2>1, <2>7
        <3> QED BY <2>2, <2>5, <3>1, Zenon
    <2>9. WordsRight(config, page, o, x)
        BY <2>6, Zenon DEF WordsRight
    <2>10. o \in Nat
        BY <2>2
    <2>11. x \in Seq(Nat)
        BY <2>5
    <2>12. Len(x) \in 1 .. Batch
        BY <2>5
    <2>13. Good(config, m) /\ m.addr[1] = page /\ Covers(m, page, o, Len(x))
        BY <1>7, <2>8, <2>9, <2>10, <2>11, <2>12, NmacGood
    <2>14. ASSUME NEW i \in 0 .. d - 1, o <= i, i < o + Batch PROVE i < o + Len(x)
        BY <1>2, <2>2, <2>5, <2>14
    <2> QED BY <2>7, <2>13, <2>14 DEF Covers
<1>11. messages \in Seq(Message) /\ Len(messages) = q + 1
    <2>1. \A k \in 1 .. q + 1 : messages[k] \in Message
        BY <1>10 DEF Good
    <2>2. messages = [k \in 1 .. q + 1 |-> messages[k]]
        BY <1>9
    <2>3. messages \in [1 .. q + 1 -> Message]
        BY <2>1, <2>2, Zenon
    <2> QED BY <1>6, <2>3, FcnSeq
<1>12. ASSUME NEW i \in 0 .. d - 1 PROVE \E k \in 1 .. q + 1 : <<page, i>> \in Written(messages[k])
    <2>1. PICK k \in 1 .. q + 1 : (k - 1) * Batch <= i /\ i < (k - 1) * Batch + Batch
        BY <1>2, <1>5, GateOf
    <2>2. PICK o : o = (k - 1) * Batch
        OBVIOUS
    <2> QED BY <1>10, <2>1, <2>2, Zenon
<1>13. \A a \in {<<page, i>> : i \in 0 .. d - 1} : \E k \in 1 .. q + 1 : a \in Written(messages[k])
    BY <1>12
<1> QED BY <1>1, <1>7, <1>8, <1>10, <1>11, <1>13 DEF Sends

\* The gate lists of all the ports.
AllGateMessages == FlattenSeq([i \in 1 .. Ports |-> GateMessages(i - 1)])

LEMMA ElementsAt ==
    ASSUME NEW S, NEW s \in Seq(S)
    PROVE  \A e : e \in Range(s) <=> \E i \in 1 .. Len(s) : s[i] = e
<1>1. DOMAIN s = 1 .. Len(s)
    OBVIOUS
<1> QED BY <1>1 DEF Range

LEMMA GatesSend ==
    ASSUME config \in Config, chip \in ChipType, Loaded
    PROVE  Sends(config, AllGateMessages, {GatePage(p) : p \in Port},
                 {<<GatePage(p), i>> : p \in Port, i \in 0 .. config.depth - 1})
<1> DEFINE A(p) == {<<GatePage(p), i>> : i \in 0 .. config.depth - 1}
           ss == [i \in 1 .. Ports |-> GateMessages(i - 1)]
<1>1. PICK T : T = Seq(Message)
    OBVIOUS
<1>2. ASSUME NEW p \in Port
      PROVE  /\ GateMessages(p) \in Seq(Message)
             /\ \A e \in Range(GateMessages(p)) : Good(config, e) /\ e.addr[1] = GatePage(p)
             /\ \A a \in A(p) : \E e \in Range(GateMessages(p)) : a \in Written(e)
    <2>1. PICK list : list = GateMessages(p)
        OBVIOUS
    <2>2. /\ list \in Seq(Message)
          /\ \A i \in 1 .. Len(list) : Good(config, list[i]) /\ list[i].addr[1] \in {GatePage(p)}
          /\ \A a \in A(p) : \E i \in 1 .. Len(list) : a \in Written(list[i])
        BY <2>1, GateSends DEF Sends
    <2>3. \A e : e \in Range(list) <=> \E i \in 1 .. Len(list) : list[i] = e
        BY <2>2, ElementsAt
    <2>4. \A e \in Range(list) : Good(config, e) /\ e.addr[1] = GatePage(p)
        BY <2>2, <2>3
    <2>5. \A a \in A(p) : \E e \in Range(list) : a \in Written(e)
        BY <2>2, <2>3, Zenon
    <2> QED BY <2>1, <2>2, <2>4, <2>5
<1> HIDE DEF A
<1>3. ss \in [1 .. Ports -> T]
    <2>1. \A i \in 1 .. Ports : i - 1 \in Port
        BY Constants DEF Port
    <2> QED BY <1>1, <1>2, <2>1, Zenon
<1>4. \A p \in Port : p + 1 \in 1 .. Ports /\ ss[p + 1] = GateMessages(p)
    <2>1. \A p \in Port : p + 1 \in 1 .. Ports /\ (p + 1) - 1 = p
        BY Constants DEF Port
    <2> QED BY <2>1
<1>5. \A i \in 1 .. Ports : i - 1 \in Port /\ ss[i] = GateMessages(i - 1)
    BY Constants DEF Port
<1>6. PICK messages : messages = AllGateMessages
    OBVIOUS
<1>7. messages = FlattenSeq(ss)
    BY <1>6 DEF AllGateMessages
<1> HIDE DEF ss
<1>8. ss \in Seq(T) /\ Len(ss) = Ports /\ Len(ss) > 0
    <2>1. ss \in Seq(T) /\ Len(ss) = Ports
        BY <1>3, Constants, FcnSeq
    <2> QED BY <2>1, Constants
<1>9. /\ messages \in Seq(Message)
      /\ \A e : e \in Range(messages) <=> \E i \in 1 .. Ports : e \in Range(ss[i])
    BY <1>1, <1>7, <1>8, FlattenMembers
<1>10. \A e : e \in Range(messages) <=> \E i \in 1 .. Len(messages) : messages[i] = e
    BY <1>9, ElementsAt
<1>11. ASSUME NEW i \in 1 .. Len(messages)
       PROVE  Good(config, messages[i]) /\ messages[i].addr[1] \in {GatePage(p) : p \in Port}
    <2>1. messages[i] \in Range(messages)
        BY <1>10, Zenon
    <2>2. PICK j \in 1 .. Ports : messages[i] \in Range(ss[j])
        BY <1>9, <2>1, Zenon
    <2>3. j - 1 \in Port /\ messages[i] \in Range(GateMessages(j - 1))
        BY <1>5, <2>2
    <2>4. Good(config, messages[i]) /\ messages[i].addr[1] = GatePage(j - 1)
        BY <1>2, <2>3, Zenon
    <2> QED BY <2>3, <2>4
<1>12. ASSUME NEW p \in Port, NEW a \in A(p) PROVE \E i \in 1 .. Len(messages) : a \in Written(messages[i])
    <2>1. PICK e \in Range(GateMessages(p)) : a \in Written(e)
        BY <1>2
    <2>2. e \in Range(ss[p + 1]) /\ p + 1 \in 1 .. Ports
        BY <1>4
    <2>3. e \in Range(messages)
        BY <1>9, <2>2, Zenon
    <2> QED BY <1>10, <2>1, <2>3, Zenon
<1>13. \A a \in {<<GatePage(p), i>> : p \in Port, i \in 0 .. config.depth - 1} :
            \E i \in 1 .. Len(messages) : a \in Written(messages[i])
    <2>1. ASSUME NEW a \in {<<GatePage(p), i>> : p \in Port, i \in 0 .. config.depth - 1}
          PROVE  \E p \in Port : a \in A(p)
        BY DEF A
    <2> QED BY <1>12, <2>1
<1> QED BY <1>6, <1>9, <1>11, <1>13 DEF Sends

-----------------------------------------------------------------------------
(* The runs of the forward table                                             *)

LEMMA Greatest ==
    ASSUME NEW b \in Nat, NEW T, T \subseteq 1 .. b, T # {}
    PROVE  Max(T) \in T /\ \A n \in T : n <= Max(T)
<1> DEFINE U == {b - n : n \in T}
<1>1. U \subseteq Nat /\ U # {}
    <2>1. ASSUME NEW n \in T PROVE b - n \in Nat
        <3>1. n \in 1 .. b
            OBVIOUS
        <3> QED BY <3>1
    <2>2. PICK n \in T : TRUE
        OBVIOUS
    <2> QED BY <2>1, <2>2
<1>2. PICK m \in U : \A k \in U : m <= k
    BY <1>1, Smallest
<1>3. PICK n \in T : m = b - n
    BY <1>2
<1>4. ASSUME NEW x \in T PROVE x <= n
    <2>1. b - x \in U
        OBVIOUS
    <2>2. m <= b - x
        BY <1>2, <2>1
    <2> QED BY <1>3, <2>2
<1>5. \E x \in T : \A y \in T : x >= y
    BY <1>3, <1>4
<1>6. Max(T) \in T /\ \A y \in T : Max(T) >= y
    BY <1>5 DEF Max
<1> QED BY <1>6

LEMMA RunLength ==
    ASSUME NEW f \in Seq(ForwardEntry), chip.forward = f, NEW i \in 1 .. Len(f)
    PROVE  /\ Run(i) \in 1 .. Batch /\ i + Run(i) <= Len(f) + 1
           /\ \A k \in 1 .. Run(i) - 1 : f[i + k].id = f[i].id + k
<1>1. PICK n : n = Len(f) /\ n \in Nat
    OBVIOUS
<1>2. Batch \in Nat \ {0}
    BY Constants
<1>3. PICK b : b = Min({Batch, Len(f) - i + 1})
    OBVIOUS
<1>4. b = (IF Batch <= n - i + 1 THEN Batch ELSE n - i + 1) /\ b \in Nat
    BY <1>1, <1>2, <1>3, MinTwo
<1>5. PICK T : T = {x \in 1 .. b : \A k \in 1 .. x - 1 : f[i + k].id = f[i].id + k}
    OBVIOUS
<1>6. T \subseteq 1 .. b
    BY <1>5
<1>7. 1 \in T
    <2>1. 1 \in 1 .. b
        BY <1>1, <1>2, <1>4
    <2> QED BY <1>5, <2>1
<1>8. Run(i) = Max(T)
    BY <1>3, <1>5, Zenon DEF Run
<1>9. Run(i) \in T
    BY <1>4, <1>6, <1>7, <1>8, Greatest
<1>10. Run(i) \in 1 .. b /\ \A k \in 1 .. Run(i) - 1 : f[i + k].id = f[i].id + k
    BY <1>5, <1>9
<1> QED BY <1>1, <1>2, <1>4, <1>10

\* The runs of n entries, and the recursion over them.
Fits(n, R) == \A i \in 1 .. n : R[i] > 0 /\ i + R[i] <= n + 1
RunsOf(F, n, R, M) == [i \in 1 .. n + 1 |-> IF i > n THEN <<>> ELSE <<M[i]>> \o F[i + R[i]]]

\* The recursion over the runs has a solution.
LEMMA RunsExist ==
    ASSUME NEW n \in Nat, NEW R \in [1 .. n -> Nat], NEW M, Fits(n, R)
    PROVE  \E F : F = RunsOf(F, n, R, M)
<1> SUFFICES ASSUME \A i \in 1 .. n : R[i] > 0 /\ i + R[i] <= n + 1
             PROVE  \E F : F = RunsOf(F, n, R, M)
    BY DEF Fits
<1> DEFINE Step(F, i) == IF i > n THEN <<>> ELSE <<M[i]>> \o F[i + R[i]]
           Function(F) == F = [i \in 1 .. n + 1 |-> F[i]]
           Solved(j) == \E F : Function(F) /\ \A i \in n + 1 - j .. n + 1 : F[i] = Step(F, i)
           Bad == {j \in 0 .. n : ~Solved(j)}
<1>1. Solved(0)
    <2> DEFINE F == [i \in 1 .. n + 1 |-> <<>>]
    <2>1. Function(F)
        OBVIOUS
    <2>2. ASSUME NEW i \in n + 1 - 0 .. n + 1 PROVE F[i] = Step(F, i)
        <3>1. i = n + 1 /\ i > n /\ i \in 1 .. n + 1
            OBVIOUS
        <3> QED BY <3>1
    <2> QED BY <2>1, <2>2
<1>2. ASSUME NEW j \in 1 .. n, Solved(j - 1) PROVE Solved(j)
    <2> HIDE DEF Function
    <2>1. PICK F : Function(F) /\ \A i \in n + 1 - (j - 1) .. n + 1 : F[i] = Step(F, i)
        BY <1>2
    <2>2. PICK m : m = n + 1 - j
        OBVIOUS
    <2>3. m \in 1 .. n /\ n + 1 - (j - 1) = m + 1
        BY <2>2
    <2>4. PICK first : first = <<M[m]>> \o F[m + R[m]]
        OBVIOUS
    <2> DEFINE G == [i \in 1 .. n + 1 |-> IF i = m THEN first ELSE F[i]]
    <2>5. G[m] = first /\ (\A i \in 1 .. n + 1 : i # m => G[i] = F[i]) /\ Function(G)
        BY <2>3 DEF Function
    <2> HIDE DEF G
    <2>6. ASSUME NEW i \in m .. n + 1 PROVE G[i] = Step(G, i)
        <3>1. i \in 1 .. n + 1
            BY <2>3
        <3>2. i <= n => i + R[i] \in m + 1 .. n + 1
            <4>1. ASSUME i <= n PROVE R[i] > 0 /\ i + R[i] <= n + 1 /\ R[i] \in Nat
                BY <3>1, <4>1
            <4> QED BY <2>3, <4>1
        <3>3. i <= n => G[i + R[i]] = F[i + R[i]]
            BY <2>3, <2>5, <3>2
        <3>4. CASE i = m
            <4>1. ~(i > n) /\ i <= n
                BY <2>3, <3>4
            <4>2. Step(G, i) = <<M[i]>> \o G[i + R[i]]
                BY <4>1
            <4>3. Step(G, i) = first
                BY <2>4, <3>3, <3>4, <4>1, <4>2, Zenon
            <4> QED BY <2>5, <3>4, <4>3
        <3>5. CASE i # m
            <4>1. i \in m + 1 .. n + 1
                BY <2>3, <3>5
            <4>2. F[i] = Step(F, i)
                BY <2>1, <2>3, <4>1
            <4>3. G[i] = F[i]
                BY <2>5, <3>1, <3>5
            <4>4. i > n \/ i <= n
                BY <2>3
            <4> QED BY <3>3, <4>2, <4>3, <4>4
        <3> QED BY <3>4, <3>5
    <2> QED BY <2>2, <2>5, <2>6
<1> HIDE DEF Solved
<1>3. Bad = {}
    <2>1. SUFFICES ASSUME Bad # {} PROVE FALSE
        OBVIOUS
    <2>2. Bad \subseteq Nat
        OBVIOUS
    <2>3. PICK j \in Bad : \A k \in Bad : j <= k
        BY <2>1, <2>2, Smallest
    <2>4. j \in 1 .. n
        BY <1>1, <2>3
    <2>5. j - 1 \notin Bad /\ j - 1 \in 0 .. n
        BY <2>3, <2>4
    <2> QED BY <1>2, <2>3, <2>4, <2>5
<1>4. Solved(n)
    <2>1. n \in 0 .. n
        OBVIOUS
    <2> QED BY <1>3, <2>1
<1>5. PICK F : Function(F) /\ \A i \in n + 1 - n .. n + 1 : F[i] = Step(F, i)
    BY <1>4 DEF Solved
<1>6. n + 1 - n = 1
    OBVIOUS
<1>7. F = [i \in 1 .. n + 1 |-> F[i]] /\ \A i \in 1 .. n + 1 : F[i] = Step(F, i)
    BY <1>5, <1>6
<1> HIDE DEF Function
<1>8. F = RunsOf(F, n, R, M)
    BY <1>7 DEF RunsOf
<1> QED BY <1>8

LEMMA Before ==
    ASSUME NEW S, NEW m \in S, NEW s \in Seq(S), NEW l, l = <<m>> \o s
    PROVE  /\ l \in Seq(S) /\ Len(l) = Len(s) + 1 /\ l[1] = m
           /\ \A q \in 1 .. Len(s) : l[q + 1] = s[q]
           /\ \A q \in 2 .. Len(s) + 1 : l[q] = s[q - 1] /\ q - 1 \in 1 .. Len(s)
<1>1. PICK h : h = <<m>>
    OBVIOUS
<1>2. h \in Seq(S) /\ Len(h) = 1 /\ h[1] = m
    BY <1>1
<1>3. Len(s) \in Nat
    OBVIOUS
<1>4. l \in Seq(S) /\ Len(l) = 1 + Len(s)
        /\ \A i \in 1 .. 1 + Len(s) : l[i] = IF i <= 1 THEN h[i] ELSE s[i - 1]
    BY <1>1, <1>2, ConcatProperties
<1>5. l[1] = m
    BY <1>2, <1>3, <1>4
<1>6. ASSUME NEW q \in 2 .. Len(s) + 1 PROVE l[q] = s[q - 1] /\ q - 1 \in 1 .. Len(s)
    BY <1>3, <1>4
<1>7. ASSUME NEW q \in 1 .. Len(s) PROVE l[q + 1] = s[q]
    <2>1. PICK o : o = q + 1
        OBVIOUS
    <2>2. o \in 2 .. Len(s) + 1 /\ o - 1 = q
        BY <1>3, <2>1
    <2> QED BY <1>6, <2>1, <2>2
<1> QED BY <1>3, <1>4, <1>5, <1>6, <1>7

\* Every message of the list is that of a run; an entry is in the run of one of
\* them, and those behind it belong to runs that begin behind the entry.
InRuns(l, n, R, M) ==
    /\ \A q \in 1 .. Len(l) : \E x \in 1 .. n : l[q] = M[x]
    /\ \A e \in 1 .. n : \E q \in 1 .. Len(l) : \E x \in 1 .. e :
        /\ l[q] = M[x] /\ e < x + R[x]
        /\ \A r \in q + 1 .. Len(l) : \E y \in e + 1 .. n : l[r] = M[y]

\* Every entry is in a run whose message comes before those of all entries behind it.
LEMMA RunsOrdered ==
    ASSUME NEW S, NEW n \in Nat, NEW R \in [1 .. n -> Nat], NEW M \in [1 .. n -> S],
           Fits(n, R), NEW F, F = RunsOf(F, n, R, M)
    PROVE  F[1] \in Seq(S) /\ InRuns(F[1], n, R, M)
<1> SUFFICES ASSUME \A i \in 1 .. n : R[i] > 0 /\ i + R[i] <= n + 1
             PROVE  F[1] \in Seq(S) /\ InRuns(F[1], n, R, M)
    BY DEF Fits
<1> DEFINE Past(l, q, e) == \A r \in q + 1 .. Len(l) : \E y \in e + 1 .. n : l[r] = M[y]
           In(l, i, e) == \E q \in 1 .. Len(l) : \E x \in i .. e :
                            l[q] = M[x] /\ e < x + R[x] /\ Past(l, q, e)
           Fine(l, i) == /\ l \in Seq(S)
                         /\ \A q \in 1 .. Len(l) : \E x \in i .. n : l[q] = M[x]
                         /\ \A e \in i .. n : In(l, i, e)
           Bad == {j \in 0 .. n : ~Fine(F[n + 1 - j], n + 1 - j)}
<1>1. \A i \in 1 .. n + 1 : F[i] = IF i > n THEN <<>> ELSE <<M[i]>> \o F[i + R[i]]
    <2>1. PICK g : g = RunsOf(F, n, R, M)
        OBVIOUS
    <2>2. \A i \in 1 .. n + 1 : g[i] = IF i > n THEN <<>> ELSE <<M[i]>> \o F[i + R[i]]
        BY <2>1 DEF RunsOf
    <2>3. F = g
        BY <2>1, Zenon
    <2> QED BY <2>2, <2>3
<1> HIDE DEF Past, In
<1>2. Fine(F[n + 1 - 0], n + 1 - 0)
    <2>1. n + 1 - 0 = n + 1 /\ n + 1 > n /\ n + 1 \in 1 .. n + 1
        OBVIOUS
    <2>2. F[n + 1] = <<>>
        BY <1>1, <2>1
    <2>3. Fine(<<>>, n + 1)
        <3>1. <<>> \in Seq(S) /\ 1 .. Len(<<>>) = {} /\ n + 1 .. n = {}
            OBVIOUS
        <3> QED BY <3>1
    <2> QED BY <2>1, <2>2, <2>3, Zenon
<1> HIDE DEF Fine
<1>3. ASSUME NEW i \in 1 .. n, NEW s, s = i + R[i], Fine(F[s], s) PROVE Fine(F[i], i)
    <2>1. R[i] \in Nat /\ R[i] > 0 /\ s <= n + 1
        BY <1>3
    <2>2. s \in i + 1 .. n + 1 /\ s \in Nat
        BY <1>3, <2>1
    <2>3. PICK l, t : l = F[i] /\ t = F[s]
        OBVIOUS
    <2>4. l = <<M[i]>> \o t
        <3>1. i \in 1 .. n + 1 /\ ~(i > n)
            OBVIOUS
        <3> QED BY <1>1, <1>3, <2>3, <3>1
    <2>5. t \in Seq(S) /\ M[i] \in S /\ Len(t) \in Nat
        <3>1. t \in Seq(S)
            BY <1>3, <2>3 DEF Fine
        <3> QED BY <3>1
    <2>6. /\ l \in Seq(S) /\ Len(l) = Len(t) + 1 /\ l[1] = M[i]
          /\ \A q \in 1 .. Len(t) : l[q + 1] = t[q]
          /\ \A q \in 2 .. Len(t) + 1 : l[q] = t[q - 1] /\ q - 1 \in 1 .. Len(t)
        BY <2>4, <2>5, Before
    <2>7. \A q \in 1 .. Len(t) : \E x \in s .. n : t[q] = M[x]
        BY <1>3, <2>3 DEF Fine
    <2>8. \A e \in s .. n : In(t, s, e)
        BY <1>3, <2>3 DEF Fine
    <2>9. ASSUME NEW q \in 2 .. Len(l) PROVE \E x \in s .. n : l[q] = M[x]
        <3>1. q \in 2 .. Len(t) + 1
            BY <2>5, <2>6
        <3> QED BY <2>6, <2>7, <3>1
    <2>10. ASSUME NEW q \in 1 .. Len(l) PROVE \E x \in i .. n : l[q] = M[x]
        <3>1. CASE q = 1
            BY <2>6, <3>1
        <3>2. CASE q # 1
            <4>1. q \in 2 .. Len(l)
                BY <2>5, <2>6, <3>2
            <4>2. PICK x \in s .. n : l[q] = M[x]
                BY <2>9, <4>1
            <4>3. x \in i .. n
                BY <2>2
            <4> QED BY <4>2, <4>3
        <3> QED BY <3>1, <3>2
    <2>11. ASSUME NEW e \in i .. n, e < s PROVE In(l, i, e)
        <3>1. 1 \in 1 .. Len(l) /\ i \in i .. e
            BY <2>5, <2>6
        <3>2. e < i + R[i]
            BY <1>3, <2>11
        <3>3. ASSUME NEW r \in 1 + 1 .. Len(l) PROVE \E y \in e + 1 .. n : l[r] = M[y]
            <4>1. r \in 2 .. Len(l)
                OBVIOUS
            <4>2. PICK y \in s .. n : l[r] = M[y]
                BY <2>9, <4>1
            <4>3. y \in e + 1 .. n
                BY <2>2, <2>11
            <4> QED BY <4>2, <4>3
        <3>4. Past(l, 1, e)
            BY <3>3 DEF Past
        <3> QED BY <2>6, <3>1, <3>2, <3>4 DEF In
    <2>12. ASSUME NEW e \in i .. n, s <= e PROVE In(l, i, e)
        <3>1. e \in s .. n
            BY <2>2, <2>12
        <3>2. PICK q \in 1 .. Len(t) : \E x \in s .. e : t[q] = M[x] /\ e < x + R[x] /\ Past(t, q, e)
            BY <2>8, <3>1 DEF In
        <3>3. PICK x \in s .. e : t[q] = M[x] /\ e < x + R[x] /\ Past(t, q, e)
            BY <3>2
        <3>4. PICK o : o = q + 1
            OBVIOUS
        <3>5. o \in 1 .. Len(l) /\ l[o] = M[x] /\ x \in i .. e
            BY <2>2, <2>5, <2>6, <3>3, <3>4
        <3>6. ASSUME NEW r \in o + 1 .. Len(l) PROVE \E y \in e + 1 .. n : l[r] = M[y]
            <4>1. r \in 2 .. Len(t) + 1 /\ r - 1 \in q + 1 .. Len(t)
                BY <2>5, <2>6, <3>4
            <4>2. l[r] = t[r - 1]
                BY <2>6, <4>1
            <4>3. \E y \in e + 1 .. n : t[r - 1] = M[y]
                BY <3>3, <4>1 DEF Past
            <4> QED BY <4>2, <4>3
        <3>7. Past(l, o, e)
            BY <3>6 DEF Past
        <3> QED BY <3>3, <3>5, <3>7 DEF In
    <2>13. ASSUME NEW e \in i .. n PROVE In(l, i, e)
        <3>1. e < s \/ s <= e
            BY <2>2
        <3> QED BY <2>11, <2>12, <3>1
    <2>14. Fine(l, i)
        BY <2>6, <2>10, <2>13 DEF Fine
    <2> QED BY <2>3, <2>14
<1>4. Bad = {}
    <2>1. SUFFICES ASSUME Bad # {} PROVE FALSE
        OBVIOUS
    <2>2. Bad \subseteq Nat
        OBVIOUS
    <2>3. PICK j \in Bad : \A k \in Bad : j <= k
        BY <2>1, <2>2, Smallest
    <2>4. j \in 1 .. n
        BY <1>2, <2>3
    <2>5. PICK i : i = n + 1 - j
        OBVIOUS
    <2>6. i \in 1 .. n
        BY <2>4, <2>5
    <2>7. PICK s : s = i + R[i]
        OBVIOUS
    <2>8. s \in i + 1 .. n + 1
        <3>1. R[i] \in Nat /\ R[i] > 0 /\ i + R[i] <= n + 1
            BY <2>6, Zenon
        <3> QED BY <2>6, <2>7, <3>1
    <2>9. PICK k : k = n + 1 - s
        OBVIOUS
    <2>10. k \in 0 .. n /\ k < j /\ n + 1 - k = s
        BY <2>4, <2>5, <2>6, <2>8, <2>9
    <2>11. k \notin Bad
        BY <2>3, <2>4, <2>10
    <2>12. Fine(F[s], s)
        BY <2>10, <2>11
    <2> QED BY <1>3, <2>3, <2>5, <2>6, <2>7, <2>12
<1>5. Fine(F[1], 1)
    <2>1. n \in 0 .. n /\ n + 1 - n = 1
        OBVIOUS
    <2> QED BY <1>4, <2>1
<1> QED BY <1>5 DEF Fine, In, Past, InRuns

\* The message of the run that begins with the i-th entry.
RunMessage(i) ==
    Nmac(ForwardPage, chip.forward[i].id, Run(i), [k \in 1 .. Run(i) |-> chip.forward[i + k - 1].outport])

Writes(m, a, w) == a \in Written(m) /\ m.words[a[2] - m.addr[2] + 1] = w

LEMMA RunGood ==
    ASSUME config \in Config, NEW f \in Seq(ForwardEntry), chip.forward = f, config.forward = f,
           NEW i \in 1 .. Len(f), NEW m, m = RunMessage(i)
    PROVE  /\ Good(config, m) /\ m.addr[1] = ForwardPage
           /\ \A a \in Written(m) : \E e \in i .. i + Run(i) - 1 :
                e \in 1 .. Len(f) /\ a = <<ForwardPage, f[e].id>>
           /\ \A e \in i .. i + Run(i) - 1 :
                e \in 1 .. Len(f) /\ Writes(m, <<ForwardPage, f[e].id>>, f[e].outport)
<1>1. PICK n : n = Len(f) /\ n \in Nat
    OBVIOUS
<1>2. PICK x : x = Run(i)
    OBVIOUS
<1>3. x \in 1 .. Batch /\ x \in Nat /\ i + x <= n + 1 /\ \A k \in 1 .. x - 1 : f[i + k].id = f[i].id + k
    <2>1. Run(i) \in 1 .. Batch /\ i + Run(i) <= Len(f) + 1
            /\ \A k \in 1 .. Run(i) - 1 : f[i + k].id = f[i].id + k
        BY RunLength
    <2> QED BY <1>1, <1>2, <2>1, Constants
<1>4. \A e \in 1 .. n : f[e].id \in Nat /\ f[e].outport \in Nat
    <2>1. \A e \in 1 .. n : f[e] \in ForwardEntry
        BY <1>1
    <2> QED BY <2>1 DEF ForwardEntry
<1>5. PICK d : d = f[i].id /\ d \in Nat
    BY <1>1, <1>4
<1>6. ASSUME NEW e \in i .. i + x - 1 PROVE e \in 1 .. n /\ f[e].id = d + (e - i)
    <2>1. e \in 1 .. n
        BY <1>1, <1>3
    <2>2. CASE e = i
        BY <1>5, <2>1, <2>2
    <2>3. CASE e # i
        <3>1. PICK k : k = e - i
            OBVIOUS
        <3>2. k \in 1 .. x - 1 /\ i + k = e
            BY <1>1, <1>3, <2>3, <3>1
        <3>3. f[i + k].id = f[i].id + k
            BY <1>3, <3>2
        <3> QED BY <1>5, <2>1, <3>1, <3>2, <3>3
    <2> QED BY <2>2, <2>3
<1>7. PICK words : words = [k \in 1 .. x |-> f[i + k - 1].outport]
    OBVIOUS
<1>8. \A k \in 1 .. x : i + k - 1 \in i .. i + x - 1 /\ i + k - 1 \in 1 .. n
    BY <1>1, <1>3
<1>9. words \in Seq(Nat) /\ Len(words) = x
    <2>1. words \in [1 .. x -> Nat]
        BY <1>4, <1>7, <1>8
    <2> QED BY <1>3, <2>1, FcnSeq
<1>10. m = Nmac(ForwardPage, d, Len(words), words)
    <2>1. m = Nmac(ForwardPage, d, x, words)
        BY <1>2, <1>5, <1>7 DEF RunMessage
    <2> QED BY <1>9, <2>1, Zenon
<1>11. WordsRight(config, ForwardPage, d, words)
    <2> SUFFICES ASSUME NEW k \in 1 .. x PROVE Right(config, <<ForwardPage, d + k - 1>>, words[k])
        BY <1>9 DEF WordsRight
    <2>1. PICK e : e = i + k - 1
        OBVIOUS
    <2>2. e \in i .. i + x - 1 /\ words[k] = f[e].outport
        BY <1>7, <1>8, <2>1
    <2>3. e \in 1 .. n /\ f[e].id = d + (e - i)
        BY <1>6, <2>2
    <2>4. d + (e - i) = d + k - 1
        BY <1>5, <2>1
    <2>5. PICK a : a = <<ForwardPage, d + k - 1>>
        OBVIOUS
    <2>6. a[1] = ForwardPage /\ a[2] = d + k - 1
        BY <2>5
    <2>7. \E j \in 1 .. Len(config.forward) :
                config.forward[j].id = a[2] /\ words[k] = config.forward[j].outport
        BY <1>1, <2>2, <2>3, <2>4, <2>6, Zenon
    <2>8. Right(config, a, words[k])
        BY <2>6, <2>7, Zenon DEF Right
    <2> QED BY <2>5, <2>8
<1>12. Good(config, m) /\ m.addr[1] = ForwardPage
    <2>1. ForwardPage \in Nat
        BY DEF ForwardPage
    <2>2. Len(words) \in 1 .. Batch
        BY <1>3, <1>9
    <2> QED BY <1>5, <1>9, <1>10, <1>11, <2>1, <2>2, NmacGood
<1>13. m.addr[1] = ForwardPage /\ m.addr[2] = d /\ m.count = x /\ m.words = words
    BY <1>9, <1>10 DEF Nmac
<1>14. Written(m) = {<<ForwardPage, d + k>> : k \in 0 .. x - 1}
    BY <1>13 DEF Written
<1>15. ASSUME NEW a \in Written(m)
       PROVE  \E e \in i .. i + x - 1 : e \in 1 .. n /\ a = <<ForwardPage, f[e].id>>
    <2>1. PICK k \in 0 .. x - 1 : a = <<ForwardPage, d + k>>
        BY <1>14
    <2>2. PICK e : e = i + k
        OBVIOUS
    <2>3. e \in i .. i + x - 1 /\ e - i = k
        BY <1>1, <1>3, <2>2
    <2> QED BY <1>6, <2>1, <2>3
<1>16. ASSUME NEW e \in i .. i + x - 1
       PROVE  e \in 1 .. n /\ Writes(m, <<ForwardPage, f[e].id>>, f[e].outport)
    <2>1. e \in 1 .. n /\ f[e].id = d + (e - i)
        BY <1>6
    <2>2. PICK k : k = e - i
        OBVIOUS
    <2>3. k \in 0 .. x - 1 /\ k + 1 \in 1 .. x /\ i + (k + 1) - 1 = e
        BY <1>1, <1>3, <2>2
    <2>4. PICK a : a = <<ForwardPage, d + k>>
        OBVIOUS
    <2>5. a \in Written(m) /\ a[2] = d + k
        BY <1>14, <2>3, <2>4
    <2>6. a[2] - m.addr[2] + 1 = k + 1
        BY <1>5, <1>13, <2>3, <2>5
    <2>7. words[k + 1] = f[e].outport
        BY <1>7, <2>3
    <2>8. Writes(m, a, f[e].outport)
        BY <1>13, <2>5, <2>6, <2>7 DEF Writes
    <2> QED BY <2>1, <2>2, <2>4, <2>8
<1> QED BY <1>1, <1>2, <1>12, <1>15, <1>16

\* The last message of a list that writes an address writes this word.
LastWrites(messages, a, w) ==
    \E q \in 1 .. Len(messages) :
        /\ Writes(messages[q], a, w)
        /\ \A r \in q + 1 .. Len(messages) : a \notin Written(messages[r])
LastOf(list, e) == \A j \in e + 1 .. Len(list) : list[j].id # list[e].id

\* The runs that begin at the entries, and their messages.
RunTable(n, R, M) ==
    /\ n = Len(chip.forward)
    /\ R = [i \in 1 .. n |-> Run(i)] /\ M = [i \in 1 .. n |-> RunMessage(i)]

LEMMA ForwardRuns ==
    ASSUME chip.forward \in Seq(ForwardEntry), NEW n, NEW R, NEW M, RunTable(n, R, M)
    PROVE  /\ R \in [1 .. n -> Nat] /\ Fits(n, R)
           /\ \E F : ForwardMessages = F[1] /\ F = RunsOf(F, n, R, M)
<1> DEFINE Rhs(F) ==
        [i \in 1 .. Len(chip.forward) + 1 |->
            IF i > Len(chip.forward) THEN <<>>
            ELSE <<Nmac(ForwardPage, chip.forward[i].id, Run(i),
                        [k \in 1 .. Run(i) |-> chip.forward[i + k - 1].outport])>> \o F[i + Run(i)]]
           From == CHOOSE F : F = Rhs(F)
<1>1. ForwardMessages = From[1]
    BY Zenon DEF ForwardMessages
<1>2. n \in Nat
    BY DEF RunTable
<1>3. \A i \in 1 .. n : R[i] = Run(i) /\ M[i] = RunMessage(i)
    BY DEF RunTable
<1>4. \A i \in 1 .. n : Run(i) \in Nat /\ Run(i) > 0 /\ i + Run(i) <= n + 1
    <2>1. PICK f : f = chip.forward
        OBVIOUS
    <2>2. f \in Seq(ForwardEntry) /\ chip.forward = f /\ n = Len(f)
        BY <2>1 DEF RunTable
    <2> QED BY <1>2, <2>2, RunLength, Constants
<1>5. R \in [1 .. n -> Nat]
    BY <1>4 DEF RunTable
<1>6. Fits(n, R)
    BY <1>3, <1>4 DEF Fits
<1>7. \E F : F = RunsOf(F, n, R, M)
    BY <1>2, <1>5, <1>6, RunsExist, Zenon
<1>8. ASSUME NEW F PROVE Rhs(F) = RunsOf(F, n, R, M)
    <2>1. Len(chip.forward) = n
        BY DEF RunTable
    <2>2. ASSUME NEW i \in 1 .. n + 1, ~(i > n) PROVE R[i] = Run(i) /\ M[i] = RunMessage(i)
        <3>1. i \in 1 .. n
            BY <1>2, <2>2
        <3> QED BY <1>3, <3>1
    <2> QED BY <2>1, <2>2 DEF RunMessage, RunsOf
<1> HIDE DEF Rhs
<1>9. From = Rhs(From)
    BY <1>7, <1>8, Zenon
<1> HIDE DEF From
<1>10. From = RunsOf(From, n, R, M)
    BY <1>8, <1>9, Zenon
<1> QED BY <1>1, <1>5, <1>6, <1>10, Zenon

LEMMA ForwardSends ==
    ASSUME config \in Config, chip \in ChipType, Loaded
    PROVE  /\ Sends(config, ForwardMessages, {ForwardPage},
                    {<<ForwardPage, config.forward[i].id>> : i \in 1 .. Len(config.forward)})
           /\ \A e \in 1 .. Len(config.forward) : LastOf(config.forward, e) =>
                LastWrites(ForwardMessages, <<ForwardPage, config.forward[e].id>>, config.forward[e].outport)
<1>1. PICK f : f = config.forward
    OBVIOUS
<1>2. f \in Seq(ForwardEntry) /\ chip.forward = f
    BY <1>1, Configured DEF Loaded
<1>3. PICK n : n = Len(f) /\ n \in Nat
    BY <1>2
<1>4. PICK R : R = [i \in 1 .. n |-> Run(i)]
    OBVIOUS
<1>5. PICK M : M = [i \in 1 .. n |-> RunMessage(i)]
    OBVIOUS
<1>6. R \in [1 .. n -> Nat] /\ Fits(n, R) /\ \E F : ForwardMessages = F[1] /\ F = RunsOf(F, n, R, M)
    <2>1. RunTable(n, R, M) /\ chip.forward \in Seq(ForwardEntry)
        BY <1>2, <1>3, <1>4, <1>5 DEF RunTable
    <2> QED BY <2>1, ForwardRuns, Zenon
<1>7. PICK messages : messages = ForwardMessages
    OBVIOUS
<1>8. \A i \in 1 .. n : R[i] = Run(i) /\ M[i] = RunMessage(i)
    BY <1>4, <1>5
<1>9. ASSUME NEW i \in 1 .. n
      PROVE  /\ Good(config, M[i]) /\ M[i].addr[1] = ForwardPage /\ M[i] \in Message
             /\ \A a \in Written(M[i]) : \E e \in i .. i + R[i] - 1 :
                    e \in 1 .. n /\ a = <<ForwardPage, f[e].id>>
             /\ \A e \in i .. i + R[i] - 1 :
                    e \in 1 .. n /\ Writes(M[i], <<ForwardPage, f[e].id>>, f[e].outport)
    <2>1. PICK m : m = M[i] /\ m = RunMessage(i)
        BY <1>8
    <2>2. R[i] = Run(i)
        BY <1>8
    <2>3. /\ Good(config, m) /\ m.addr[1] = ForwardPage
          /\ \A a \in Written(m) : \E e \in i .. i + Run(i) - 1 :
                e \in 1 .. Len(f) /\ a = <<ForwardPage, f[e].id>>
          /\ \A e \in i .. i + Run(i) - 1 :
                e \in 1 .. Len(f) /\ Writes(m, <<ForwardPage, f[e].id>>, f[e].outport)
        BY <1>1, <1>2, <1>3, <2>1, RunGood
    <2>4. m \in Message
        BY <2>3 DEF Good
    <2> QED BY <1>3, <2>1, <2>2, <2>3, <2>4
<1>10. \A i \in 1 .. n : R[i] \in Nat
    BY <1>6
<1>11. M \in [1 .. n -> Message]
    <2>1. M = [i \in 1 .. n |-> M[i]]
        BY <1>5, <1>8
    <2>2. \A i \in 1 .. n : M[i] \in Message
        BY <1>9
    <2> QED BY <2>1, <2>2, Zenon
<1>12. messages \in Seq(Message) /\ InRuns(messages, n, R, M)
    <2>1. PICK F : ForwardMessages = F[1] /\ F = RunsOf(F, n, R, M)
        BY <1>6, Zenon
    <2>2. F[1] \in Seq(Message) /\ InRuns(F[1], n, R, M)
        BY <1>3, <1>6, <1>11, <2>1, RunsOrdered, Zenon
    <2> QED BY <1>7, <2>1, <2>2, Zenon
<1>13. ASSUME NEW q \in 1 .. Len(messages)
       PROVE  Good(config, messages[q]) /\ messages[q].addr[1] \in {ForwardPage}
    <2>1. PICK x \in 1 .. n : messages[q] = M[x]
        BY <1>12 DEF InRuns
    <2> QED BY <1>9, <2>1
<1>14. ASSUME NEW e \in 1 .. n
       PROVE  \E q \in 1 .. Len(messages) :
                /\ Writes(messages[q], <<ForwardPage, f[e].id>>, f[e].outport)
                /\ \A r \in q + 1 .. Len(messages) : \E y \in e + 1 .. n : messages[r] = M[y]
    <2>1. PICK q \in 1 .. Len(messages) : \E x \in 1 .. e :
            /\ messages[q] = M[x] /\ e < x + R[x]
            /\ \A r \in q + 1 .. Len(messages) : \E y \in e + 1 .. n : messages[r] = M[y]
        BY <1>12 DEF InRuns
    <2>2. PICK x \in 1 .. e :
            /\ messages[q] = M[x] /\ e < x + R[x]
            /\ \A r \in q + 1 .. Len(messages) : \E y \in e + 1 .. n : messages[r] = M[y]
        BY <2>1
    <2>3. x \in 1 .. n /\ e \in x .. x + R[x] - 1
        <3>1. x \in 1 .. n
            BY <1>3
        <3>2. R[x] \in Nat
            BY <1>10, <3>1
        <3> QED BY <2>2, <3>1, <3>2
    <2>4. Writes(M[x], <<ForwardPage, f[e].id>>, f[e].outport)
        BY <1>9, <2>3
    <2>5. Writes(messages[q], <<ForwardPage, f[e].id>>, f[e].outport)
        BY <2>2, <2>4
    <2> QED BY <2>2, <2>5
<1>15. ASSUME NEW e \in 1 .. n
       PROVE  \E q \in 1 .. Len(messages) : <<ForwardPage, f[e].id>> \in Written(messages[q])
    BY <1>14 DEF Writes
<1>16. ASSUME NEW e \in 1 .. n, LastOf(f, e)
       PROVE  LastWrites(messages, <<ForwardPage, f[e].id>>, f[e].outport)
    <2>1. PICK q \in 1 .. Len(messages) :
            /\ Writes(messages[q], <<ForwardPage, f[e].id>>, f[e].outport)
            /\ \A r \in q + 1 .. Len(messages) : \E y \in e + 1 .. n : messages[r] = M[y]
        BY <1>14
    <2>2. ASSUME NEW r \in q + 1 .. Len(messages), <<ForwardPage, f[e].id>> \in Written(messages[r])
          PROVE  FALSE
        <3>1. PICK y \in e + 1 .. n : messages[r] = M[y]
            BY <2>1
        <3>2. y \in 1 .. n /\ y \in Nat
            BY <1>3
        <3>3. R[y] \in Nat
            BY <1>10, <3>2
        <3>4. PICK j \in y .. y + R[y] - 1 : j \in 1 .. n /\ <<ForwardPage, f[e].id>> = <<ForwardPage, f[j].id>>
            BY <1>9, <2>2, <3>1, <3>2, Zenon
        <3>5. f[j].id = f[e].id
            BY <3>4
        <3>6. j \in e + 1 .. n
            BY <3>2, <3>3, <3>4
        <3> QED BY <1>3, <1>16, <3>5, <3>6 DEF LastOf
    <2> QED BY <2>1, <2>2, Zenon DEF LastWrites
<1>17. \A a \in {<<ForwardPage, f[i].id>> : i \in 1 .. n} :
            \E q \in 1 .. Len(messages) : a \in Written(messages[q])
    BY <1>15
<1>18. Sends(config, messages, {ForwardPage}, {<<ForwardPage, f[i].id>> : i \in 1 .. n})
    BY <1>12, <1>13, <1>17, Zenon DEF Sends
<1> QED BY <1>1, <1>3, <1>7, <1>16, <1>18

-----------------------------------------------------------------------------
(* The transmit queue and the tables of the switch                           *)

\* A queue is another one and behind it the first of some messages.
Queued(old, messages, new) ==
    /\ Len(old) <= Len(new)
    /\ \A i \in 1 .. Len(old) : new[i] = old[i]
    /\ \A i \in Len(old) + 1 .. Len(new) :
        i - Len(old) \in 1 .. Len(messages) /\ new[i] = messages[i - Len(old)]

\* The room for n messages behind m of them.
Room(n, m, cap) == Min({n, cap - m})

LEMMA RoomFor ==
    ASSUME NEW n \in Nat, NEW m \in Nat, NEW cap \in Nat, m <= cap
    PROVE  /\ Room(n, m, cap) \in 0 .. n /\ m + Room(n, m, cap) <= cap
           /\ Room(n, m, cap) < n => m + Room(n, m, cap) = cap
<1>1. n \in Int /\ cap - m \in Int
    OBVIOUS
<1>2. Room(n, m, cap) = (IF n <= cap - m THEN n ELSE cap - m)
    BY <1>1, MinTwo DEF Room
<1> QED BY <1>2

LEMMA Joined ==
    ASSUME NEW S, NEW old \in Seq(S), NEW more \in Seq(S), NEW room \in 0 .. Len(more)
    PROVE  \E new : /\ new = old \o SubSeq(more, 1, room)
                    /\ new \in Seq(S) /\ Len(new) = Len(old) + room
                    /\ Queued(old, more, new)
<1>1. PICK m : m = Len(old)
    OBVIOUS
<1>2. PICK n : n = Len(more)
    OBVIOUS
<1>3. m \in Nat /\ n \in Nat /\ room \in 0 .. n
    BY <1>1, <1>2
<1>4. PICK part : part = SubSeq(more, 1, room)
    OBVIOUS
<1>5. part \in Seq(S) /\ Len(part) = room /\ \A i \in 1 .. room : part[i] = more[i]
    <2>1. CASE room = 0
        <3>1. part = <<>>
            BY <1>4, <2>1
        <3> QED BY <2>1, <3>1
    <2>2. CASE room # 0
        <3>1. room \in 1 .. Len(more) /\ 0 \in Nat /\ 0 < room
            BY <1>2, <1>3, <2>2
        <3>2. /\ SubSeq(more, 0 + 1, room) \in Seq(S) /\ Len(SubSeq(more, 0 + 1, room)) = room - 0
              /\ \A i \in 1 .. room - 0 : SubSeq(more, 0 + 1, room)[i] = more[0 + i]
            BY <3>1, Within
        <3>3. room - 0 = room /\ 0 + 1 = 1 /\ \A i \in 1 .. room : 0 + i = i
            BY <3>1
        <3> QED BY <1>4, <3>2, <3>3
    <2> QED BY <2>1, <2>2
<1>6. PICK new : new = old \o part
    OBVIOUS
<1>7. /\ new \in Seq(S) /\ Len(new) = m + room
      /\ \A i \in 1 .. m + room : new[i] = IF i <= m THEN old[i] ELSE part[i - m]
    BY <1>1, <1>5, <1>6, ConcatProperties
<1>8. Queued(old, more, new)
    <2>1. m <= Len(new)
        BY <1>3, <1>7
    <2>2. \A i \in 1 .. m : new[i] = old[i]
        BY <1>3, <1>7
    <2>3. ASSUME NEW i \in m + 1 .. Len(new) PROVE i - m \in 1 .. n /\ new[i] = more[i - m]
        <3>1. i \in 1 .. m + room /\ ~(i <= m) /\ i - m \in 1 .. room /\ i - m \in 1 .. n
            BY <1>3, <1>7
        <3> QED BY <1>5, <1>7, <3>1
    <2> QED BY <1>1, <1>2, <2>1, <2>2, <2>3, Zenon DEF Queued
<1> QED BY <1>1, <1>4, <1>6, <1>7, <1>8, Zenon

\* What the messages do to a queue that is not over its capacity.
LEMMA WriteStep ==
    ASSUME txq \in Seq(Message), Len(txq) <= TxCap, full \in BOOLEAN,
           NEW messages \in Seq(Message), Write(messages)
    PROVE  /\ txq' \in Seq(Message) /\ Len(txq') <= TxCap /\ full' \in BOOLEAN
           /\ Queued(txq, messages, txq')
           /\ ~full' => ~full /\ Len(txq') = Len(txq) + Len(messages)
           /\ full' => full \/ (Len(txq') = TxCap /\ Len(txq') < Len(txq) + Len(messages))
<1>1. PICK room : room = Room(Len(messages), Len(txq), TxCap)
    OBVIOUS
<1>2. txq' = txq \o SubSeq(messages, 1, room) /\ full' = (full \/ room < Len(messages))
    BY <1>1, Zenon DEF Write, Room
<1>3. TxCap \in Nat /\ Len(messages) \in Nat /\ Len(txq) \in Nat
    BY Constants
<1>4. /\ room \in 0 .. Len(messages) /\ Len(txq) + room <= TxCap
      /\ room < Len(messages) => Len(txq) + room = TxCap
    BY <1>1, <1>3, RoomFor, Zenon
<1>5. PICK new : /\ new = txq \o SubSeq(messages, 1, room)
                 /\ new \in Seq(Message) /\ Len(new) = Len(txq) + room
                 /\ Queued(txq, messages, new)
    BY <1>4, Joined, Zenon
<1>6. txq' = new
    BY <1>2, <1>5, Zenon
<1>7. Len(new) <= TxCap /\ (room < Len(messages) => Len(new) = TxCap)
    BY <1>4, <1>5, Zenon
<1>8. ~full' => ~full /\ Len(new) = Len(txq) + Len(messages)
    <2>1. ~(room < Len(messages)) => room = Len(messages)
        BY <1>3, <1>4
    <2> QED BY <1>2, <1>5, <2>1, Zenon
<1>9. full' => full \/ (Len(new) = TxCap /\ Len(new) < Len(txq) + Len(messages))
    <2>1. room < Len(messages) => Len(txq) + room < Len(txq) + Len(messages)
        BY <1>3, <1>4
    <2> QED BY <1>2, <1>5, <1>7, <2>1, Zenon
<1>10. full' \in BOOLEAN
    BY <1>2
<1> QED BY <1>5, <1>6, <1>7, <1>8, <1>9, <1>10, Zenon

\* A message of the new queue is one of the old queue or one that was added.
LEMMA QueuedFrom ==
    ASSUME NEW old \in Seq(Message), NEW messages \in Seq(Message), NEW new \in Seq(Message),
           Queued(old, messages, new)
    PROVE  /\ \A i \in 1 .. Len(new) : \/ i \in 1 .. Len(old) /\ new[i] = old[i]
                                       \/ \E j \in 1 .. Len(messages) : new[i] = messages[j]
           /\ \A i \in 1 .. Len(old) : i \in 1 .. Len(new) /\ new[i] = old[i]
           /\ Len(new) = Len(old) + Len(messages) =>
                \A j \in 1 .. Len(messages) : Len(old) + j \in 1 .. Len(new) /\ new[Len(old) + j] = messages[j]
<1>1. PICK m : m = Len(old)
    OBVIOUS
<1>2. PICK n : n = Len(messages)
    OBVIOUS
<1>3. PICK l : l = Len(new)
    OBVIOUS
<1>4. m = Len(old) /\ n = Len(messages) /\ l = Len(new) /\ m \in Nat /\ n \in Nat /\ l \in Nat
    BY <1>1, <1>2, <1>3
<1>5. /\ m <= l /\ \A i \in 1 .. m : new[i] = old[i]
      /\ \A i \in m + 1 .. l : i - m \in 1 .. n /\ new[i] = messages[i - m]
    BY <1>4, Zenon DEF Queued
<1>6. ASSUME NEW i \in 1 .. l
      PROVE  (i \in 1 .. m /\ new[i] = old[i]) \/ \E j \in 1 .. n : new[i] = messages[j]
    <2>1. CASE i <= m
        <3>1. i \in 1 .. m
            BY <2>1, <1>4
        <3> QED BY <1>5, <3>1
    <2>2. CASE ~(i <= m)
        <3>1. i \in m + 1 .. l
            BY <2>2, <1>4
        <3> QED BY <1>5, <3>1, Zenon
    <2> QED BY <2>1, <2>2
<1>7. \A i \in 1 .. m : i \in 1 .. l /\ new[i] = old[i]
    BY <1>4, <1>5
<1>8. ASSUME l = m + n, NEW j \in 1 .. n PROVE m + j \in 1 .. l /\ new[m + j] = messages[j]
    <2>1. PICK i : i = m + j
        OBVIOUS
    <2>2. i \in m + 1 .. l /\ i \in 1 .. l /\ i - m = j
        BY <1>4, <1>8, <2>1
    <2> QED BY <1>5, <2>1, <2>2
<1> QED BY <1>4, <1>6, <1>7, <1>8, Zenon

\* The loader behind each call.
AfterSubmit == {"send_cfg_finish_pkt", "pause"}
AfterInject == AfterSubmit \cup {"build_submit_info_ge"}
AfterRegister == AfterInject \cup {"build_inject_info_ge"}
AfterGate == AfterRegister \cup {"build_register_info_ge"}
AfterForward == AfterGate \cup {"build_gate_info_ge"}

\* The addresses of each section, and those of the calls made so far.
ForwardPlaces(c) == {<<ForwardPage, c.forward[i].id>> : i \in 1 .. Len(c.forward)}
GatePlaces(c) == {<<GatePage(p), k>> : p \in Port, k \in 0 .. c.depth - 1}
RegisterWords == {<<RegisterPage, RegisterAddr[r]>> : r \in DOMAIN RegisterAddr}
SlotPlaces(page, entries) == {<<page, k>> : k \in 0 .. Len(entries) - 1}
Sent(c, l) ==
    {a \in ForwardPlaces(c) : l \in AfterForward} \cup {a \in GatePlaces(c) : l \in AfterGate}
    \cup {a \in RegisterWords : l \in AfterRegister}
    \cup {a \in SlotPlaces(InjectPage, c.inject) : l \in AfterInject}
    \cup {a \in SlotPlaces(SubmitPage, c.submit) : l \in AfterSubmit}

\* The switch is shut, and none of the first n messages opens it.
StillShut(n) == table[CfgFinish] = 1 /\ \A i \in 1 .. n : CfgFinish \notin Written(txq[i])

\* In the end the address holds the word: the last message for it brings the word, or
\* the table has it and no message is for it.
Holds(a, w) ==
    \/ LastWrites(txq, a, w)
    \/ a \in DOMAIN table /\ table[a] = w /\ \A i \in 1 .. Len(txq) : a \notin Written(txq[i])

QueueTyped == txq \in Seq(Message) /\ Len(txq) <= TxCap /\ full \in BOOLEAN /\ lost = FALSE
QueueRight == \A i \in 1 .. Len(txq) : Good(config, txq[i])
TableRight ==
    /\ DOMAIN table \subseteq Nat \X Nat /\ CfgFinish \in DOMAIN table
    /\ \A a \in DOMAIN table : Right(config, a, table[a])
FullQueue == (full /\ loader # "pause") => Len(txq) = TxCap
Shut == (loader # "pause" \/ full) => StillShut(Len(txq))
FinishLast == (loader = "pause" /\ ~full) => (txq = <<>> \/ StillShut(Len(txq) - 1))
Complete ==
    ~full => \A a \in Sent(config, loader) :
                a \in DOMAIN table \/ \E i \in 1 .. Len(txq) : a \in Written(txq[i])
ForwardHeld ==
    (~full /\ loader \in AfterForward) =>
        \A e \in 1 .. Len(config.forward) : LastOf(config.forward, e) =>
            Holds(<<ForwardPage, config.forward[e].id>>, config.forward[e].outport)

QueueInv ==
    /\ QueueTyped /\ QueueRight /\ TableRight /\ FullQueue /\ Shut /\ FinishLast
    /\ Complete /\ ForwardHeld

LEMMA QueueInit == Init => QueueInv
<1> SUFFICES ASSUME Init PROVE QueueInv
    OBVIOUS
<1>1. /\ txq = <<>> /\ full = FALSE /\ lost = FALSE /\ loader = "get_cfg_info_local"
      /\ table = [a \in {CfgFinish} |-> 1]
    BY Zenon DEF Init
<1>2. DOMAIN table = {CfgFinish} /\ table[CfgFinish] = 1
    BY <1>1
<1>3. txq \in Seq(Message) /\ Len(txq) = 0 /\ 1 .. Len(txq) = {}
    BY <1>1
<1>4. QueueTyped /\ QueueRight
    <2>1. TxCap \in Nat
        BY Constants
    <2>2. Len(txq) <= TxCap
        BY <1>3, <2>1
    <2>3. QueueRight
        BY <1>3 DEF QueueRight
    <2> QED BY <1>1, <1>3, <2>2, <2>3 DEF QueueTyped
<1>5. TableRight
    <2>1. CfgFinish \in Nat \X Nat
        BY DEF CfgFinish, RegisterPage
    <2>2. Right(config, CfgFinish, 1)
        BY DEF Right
    <2> QED BY <1>2, <2>1, <2>2 DEF TableRight
<1>6. FullQueue /\ FinishLast
    BY <1>1 DEF FullQueue, FinishLast
<1>7. Shut
    BY <1>2, <1>3 DEF Shut, StillShut
<1>8. Complete /\ ForwardHeld
    <2>1. loader \notin AfterForward
        BY <1>1 DEF AfterForward, AfterGate, AfterRegister, AfterInject, AfterSubmit
    <2>2. Sent(config, loader) = {}
        BY <2>1 DEF Sent, AfterForward, AfterGate, AfterRegister, AfterInject, AfterSubmit
    <2> QED BY <2>1, <2>2 DEF Complete, ForwardHeld
<1> QED BY <1>4, <1>5, <1>6, <1>7, <1>8 DEF QueueInv

\* A call: its messages, on their pages, and the addresses they write.
LEMMA CallTyped ==
    ASSUME QueueInv, NEW this, NEW following, NEW messages, NEW pages, NEW addresses,
           Call(this, following, messages), Sends(config, messages, pages, addresses)
    PROVE  /\ QueueTyped'
           /\ txq \in Seq(Message) /\ messages \in Seq(Message)
           /\ Queued(txq, messages, txq')
           /\ ~full' => ~full /\ Len(txq') = Len(txq) + Len(messages)
           /\ full' => full \/ (Len(txq') = TxCap /\ Len(txq') < Len(txq) + Len(messages))
<1>1. txq \in Seq(Message) /\ Len(txq) <= TxCap /\ full \in BOOLEAN /\ lost = FALSE
    BY DEF QueueInv, QueueTyped
<1>2. messages \in Seq(Message)
    BY Zenon DEF Sends
<1>3. Write(messages) /\ lost' = lost
    BY Zenon DEF Call, Write
<1>4. /\ txq' \in Seq(Message) /\ Len(txq') <= TxCap /\ full' \in BOOLEAN
      /\ Queued(txq, messages, txq')
      /\ ~full' => ~full /\ Len(txq') = Len(txq) + Len(messages)
      /\ full' => full \/ (Len(txq') = TxCap /\ Len(txq') < Len(txq) + Len(messages))
    BY <1>1, <1>2, <1>3, WriteStep, Zenon
<1>5. QueueTyped'
    BY <1>1, <1>3, <1>4, Zenon DEF QueueTyped
<1> QED BY <1>1, <1>2, <1>4, <1>5, Zenon

\* The messages of a call leave the queue right.
LEMMA CallRight ==
    ASSUME QueueInv, NEW this, NEW following, NEW messages, NEW pages, NEW addresses,
           Call(this, following, messages), Sends(config, messages, pages, addresses)
    PROVE  QueueRight' /\ TableRight'
<1>1. PICK new : new = txq'
    OBVIOUS
<1>2. txq \in Seq(Message) /\ messages \in Seq(Message) /\ new \in Seq(Message) /\ Queued(txq, messages, new)
    BY <1>1, CallTyped DEF QueueTyped
<1>3. config' = config /\ table' = table
    BY Zenon DEF Call, Write
<1>4. \A i \in 1 .. Len(new) : \/ i \in 1 .. Len(txq) /\ new[i] = txq[i]
                               \/ \E j \in 1 .. Len(messages) : new[i] = messages[j]
    BY <1>2, QueuedFrom, Zenon
<1>5. \A i \in 1 .. Len(txq) : Good(config, txq[i])
    BY Zenon DEF QueueInv, QueueRight
<1>6. \A j \in 1 .. Len(messages) : Good(config, messages[j])
    BY Zenon DEF Sends
<1>7. \A i \in 1 .. Len(new) : Good(config, new[i])
    BY <1>4, <1>5, <1>6, Zenon
<1>8. QueueRight'
    BY <1>1, <1>3, <1>7, Zenon DEF QueueRight
<1>9. TableRight'
    BY <1>3, Zenon DEF QueueInv, TableRight
<1> QED BY <1>8, <1>9

\* No call but the last one opens the switch, and that one only behind all others.
LEMMA CallShut ==
    ASSUME QueueInv, NEW this, NEW following, NEW messages, NEW pages, NEW addresses,
           Call(this, following, messages), Sends(config, messages, pages, addresses),
           this # "pause",
           \/ following # "pause" /\ \A j \in 1 .. Len(messages) : CfgFinish \notin Written(messages[j])
           \/ following = "pause" /\ Len(messages) = 1
    PROVE  FullQueue' /\ Shut' /\ FinishLast'
<1>1. PICK new : new = txq'
    OBVIOUS
<1>2. /\ txq \in Seq(Message) /\ messages \in Seq(Message) /\ new \in Seq(Message)
      /\ Queued(txq, messages, new) /\ Len(new) <= TxCap
      /\ ~full' => ~full /\ Len(new) = Len(txq) + Len(messages)
      /\ full' => full \/ (Len(new) = TxCap /\ Len(new) < Len(txq) + Len(messages))
      /\ full' \in BOOLEAN /\ full \in BOOLEAN
    BY <1>1, CallTyped DEF QueueTyped, QueueInv
<1>3. loader = this /\ loader' = following /\ table' = table
    BY Zenon DEF Call, Write
<1>4. StillShut(Len(txq)) /\ (full => Len(txq) = TxCap)
    BY <1>3 DEF QueueInv, Shut, FullQueue
<1>5. Len(txq) <= Len(new)
    BY <1>2, Zenon DEF Queued
<1>6. Len(txq) \in Nat /\ Len(new) \in Nat /\ TxCap \in Nat /\ Len(messages) \in Nat
    BY <1>2, Constants
<1>7. full' => Len(new) = TxCap
    BY <1>2, <1>4, <1>5, <1>6
<1>8. FullQueue'
    BY <1>1, <1>7 DEF FullQueue
<1>9. \A i \in 1 .. Len(txq) : i \in 1 .. Len(new) /\ new[i] = txq[i]
    BY <1>2, QueuedFrom, Zenon
<1>10. \A i \in 1 .. Len(txq) : CfgFinish \notin Written(new[i])
    BY <1>4, <1>9, Zenon DEF StillShut
<1>11. table'[CfgFinish] = 1
    BY <1>3, <1>4 DEF StillShut
<1>12. CASE following # "pause" /\ \A j \in 1 .. Len(messages) : CfgFinish \notin Written(messages[j])
    <2>1. \A i \in 1 .. Len(new) : \/ i \in 1 .. Len(txq) /\ new[i] = txq[i]
                                   \/ \E j \in 1 .. Len(messages) : new[i] = messages[j]
        BY <1>2, QueuedFrom, Zenon
    <2>2. \A i \in 1 .. Len(new) : CfgFinish \notin Written(new[i])
        BY <1>10, <1>12, <2>1, Zenon
    <2>3. Shut'
        BY <1>1, <1>11, <2>2, Zenon DEF Shut, StillShut
    <2>4. FinishLast'
        BY <1>3, <1>12 DEF FinishLast
    <2> QED BY <1>8, <2>3, <2>4
<1>13. CASE following = "pause" /\ Len(messages) = 1
    <2>1. CASE full'
        <3>1. Len(new) = Len(txq)
            BY <1>2, <1>4, <1>5, <1>6, <1>13, <2>1
        <3>2. Shut'
            BY <1>1, <1>10, <1>11, <3>1 DEF Shut, StillShut
        <3>3. FinishLast'
            BY <2>1 DEF FinishLast
        <3> QED BY <1>8, <3>2, <3>3
    <2>2. CASE ~full'
        <3>1. Len(new) - 1 = Len(txq)
            BY <1>2, <1>6, <1>13, <2>2
        <3>2. FinishLast'
            BY <1>1, <1>10, <1>11, <3>1 DEF FinishLast, StillShut
        <3>3. Shut'
            BY <1>3, <1>13, <2>2 DEF Shut
        <3> QED BY <1>8, <3>2, <3>3
    <2> QED BY <2>1, <2>2
<1> QED BY <1>12, <1>13

\* Behind a call whose messages all fit its addresses are in the queue as well.
LEMMA CallComplete ==
    ASSUME QueueInv, NEW this, NEW following, NEW messages, NEW pages, NEW addresses,
           Call(this, following, messages), Sends(config, messages, pages, addresses),
           Sent(config, following) \subseteq Sent(config, this) \cup addresses
    PROVE  Complete'
<1>1. PICK new : new = txq'
    OBVIOUS
<1>2. /\ txq \in Seq(Message) /\ messages \in Seq(Message) /\ new \in Seq(Message)
      /\ Queued(txq, messages, new)
      /\ ~full' => ~full /\ Len(new) = Len(txq) + Len(messages)
    BY <1>1, CallTyped DEF QueueTyped
<1>3. loader = this /\ loader' = following /\ table' = table /\ config' = config
    BY Zenon DEF Call, Write
<1>4. /\ \A i \in 1 .. Len(txq) : i \in 1 .. Len(new) /\ new[i] = txq[i]
      /\ Len(new) = Len(txq) + Len(messages) =>
            \A j \in 1 .. Len(messages) : Len(txq) + j \in 1 .. Len(new) /\ new[Len(txq) + j] = messages[j]
    BY <1>2, QueuedFrom, Zenon
<1>5. \A a \in addresses : \E j \in 1 .. Len(messages) : a \in Written(messages[j])
    BY Zenon DEF Sends
<1>6. ~full => \A a \in Sent(config, this) :
                a \in DOMAIN table \/ \E i \in 1 .. Len(txq) : a \in Written(txq[i])
    BY <1>3, Zenon DEF QueueInv, Complete
<1>7. ASSUME ~full', NEW a \in Sent(config, following)
      PROVE  a \in DOMAIN table \/ \E i \in 1 .. Len(new) : a \in Written(new[i])
    <2>1. CASE a \in addresses
        <3>1. PICK j \in 1 .. Len(messages) : a \in Written(messages[j])
            BY <1>5, <2>1
        <3>2. Len(txq) + j \in 1 .. Len(new) /\ new[Len(txq) + j] = messages[j]
            BY <1>2, <1>4, <1>7
        <3> QED BY <3>1, <3>2
    <2>2. CASE a \in Sent(config, this)
        BY <1>2, <1>4, <1>6, <1>7, <2>2, Zenon
    <2> QED BY <1>7, <2>1, <2>2
<1> QED BY <1>1, <1>3, <1>7 DEF Complete

\* What holds of an address stays when messages for other addresses are added.
LEMMA HeldStays ==
    ASSUME NEW new \in Seq(Message), NEW messages \in Seq(Message), txq \in Seq(Message),
           Queued(txq, messages, new), NEW a, NEW w, Holds(a, w),
           \A j \in 1 .. Len(messages) : a \notin Written(messages[j])
    PROVE  \/ LastWrites(new, a, w)
           \/ a \in DOMAIN table /\ table[a] = w /\ \A i \in 1 .. Len(new) : a \notin Written(new[i])
<1>1. /\ \A i \in 1 .. Len(new) : \/ i \in 1 .. Len(txq) /\ new[i] = txq[i]
                                  \/ \E j \in 1 .. Len(messages) : new[i] = messages[j]
      /\ \A i \in 1 .. Len(txq) : i \in 1 .. Len(new) /\ new[i] = txq[i]
    BY QueuedFrom, Zenon
<1>2. CASE LastWrites(txq, a, w)
    <2>1. PICK q \in 1 .. Len(txq) :
            /\ Writes(txq[q], a, w)
            /\ \A r \in q + 1 .. Len(txq) : a \notin Written(txq[r])
        BY <1>2, Zenon DEF LastWrites
    <2>2. q \in 1 .. Len(new) /\ Writes(new[q], a, w)
        BY <1>1, <2>1, Zenon
    <2>3. ASSUME NEW r \in q + 1 .. Len(new) PROVE a \notin Written(new[r])
        <3>1. r \in 1 .. Len(new) /\ (r \in 1 .. Len(txq) => r \in q + 1 .. Len(txq))
            OBVIOUS
        <3>2. CASE r \in 1 .. Len(txq) /\ new[r] = txq[r]
            BY <2>1, <3>1, <3>2, Zenon
        <3>3. CASE \E j \in 1 .. Len(messages) : new[r] = messages[j]
            BY <3>3, Zenon
        <3> QED BY <1>1, <3>1, <3>2, <3>3, Zenon
    <2> QED BY <2>2, <2>3, Zenon DEF LastWrites
<1>3. CASE a \in DOMAIN table /\ table[a] = w /\ \A i \in 1 .. Len(txq) : a \notin Written(txq[i])
    BY <1>1, <1>3, Zenon
<1> QED BY <1>2, <1>3, Zenon DEF Holds

\* What the added messages write last is written last.
LEMMA HeldAdded ==
    ASSUME NEW new \in Seq(Message), NEW messages \in Seq(Message), txq \in Seq(Message),
           Queued(txq, messages, new), Len(new) = Len(txq) + Len(messages),
           NEW a, NEW w, LastWrites(messages, a, w)
    PROVE  LastWrites(new, a, w)
<1>1. PICK j \in 1 .. Len(messages) :
        /\ Writes(messages[j], a, w)
        /\ \A r \in j + 1 .. Len(messages) : a \notin Written(messages[r])
    BY Zenon DEF LastWrites
<1>2. PICK m : m = Len(txq)
    OBVIOUS
<1>3. m \in Nat /\ Len(messages) \in Nat
    BY <1>2
<1>4. PICK q : q = m + j
    OBVIOUS
<1>5. q \in 1 .. Len(new) /\ new[q] = messages[j]
    BY <1>2, <1>4, QueuedFrom, Zenon
<1>6. ASSUME NEW r \in q + 1 .. Len(new) PROVE a \notin Written(new[r])
    <2>1. PICK k : k = r - m
        OBVIOUS
    <2>2. k \in j + 1 .. Len(messages) /\ k \in 1 .. Len(messages) /\ r = m + k
        BY <1>2, <1>3, <1>4, <2>1
    <2>3. new[r] = messages[k]
        BY <1>2, <2>2, QueuedFrom, Zenon
    <2> QED BY <1>1, <2>2, <2>3, Zenon
<1> QED BY <1>1, <1>5, <1>6, Zenon DEF LastWrites

\* The messages of a page write no address of another one.
LEMMA OtherPage ==
    ASSUME NEW c, NEW messages, NEW pages, NEW addresses, Sends(c, messages, pages, addresses),
           NEW a, a[1] \notin pages
    PROVE  \A j \in 1 .. Len(messages) : a \notin Written(messages[j])
<1> SUFFICES ASSUME NEW j \in 1 .. Len(messages), a \in Written(messages[j]) PROVE FALSE
    OBVIOUS
<1>1. messages[j].addr[1] \in pages
    BY Zenon DEF Sends
<1>2. PICK m : m = messages[j]
    OBVIOUS
<1>3. PICK k \in 0 .. m.count - 1 : a = <<m.addr[1], m.addr[2] + k>>
    BY <1>2 DEF Written
<1>4. a[1] = m.addr[1]
    BY <1>3
<1> QED BY <1>1, <1>2, <1>4, Zenon

LEMMA CallHeld ==
    ASSUME QueueInv, NEW this, NEW following, NEW messages, NEW pages, NEW addresses,
           Call(this, following, messages), Sends(config, messages, pages, addresses),
           \/ /\ this \in AfterForward /\ ForwardPage \notin pages
           \/ \A e \in 1 .. Len(config.forward) : LastOf(config.forward, e) =>
                LastWrites(messages, <<ForwardPage, config.forward[e].id>>, config.forward[e].outport)
    PROVE  ForwardHeld'
<1>1. PICK new : new = txq'
    OBVIOUS
<1>2. /\ txq \in Seq(Message) /\ messages \in Seq(Message) /\ new \in Seq(Message)
      /\ Queued(txq, messages, new)
      /\ ~full' => ~full /\ Len(new) = Len(txq) + Len(messages)
    BY <1>1, CallTyped DEF QueueTyped
<1>3. loader = this /\ loader' = following /\ table' = table /\ config' = config
    BY Zenon DEF Call, Write
<1> DEFINE Kept(a, w) ==
            \/ LastWrites(new, a, w)
            \/ a \in DOMAIN table /\ table[a] = w /\ \A i \in 1 .. Len(new) : a \notin Written(new[i])
<1>4. ASSUME NEW a, NEW w, ~full', a[1] = ForwardPage,
             (this \in AfterForward /\ ForwardPage \notin pages /\ Holds(a, w)) \/ LastWrites(messages, a, w)
      PROVE  Kept(a, w)
    <2>1. CASE ForwardPage \notin pages /\ Holds(a, w)
        <3>1. a[1] \notin pages
            BY <1>4, <2>1, Zenon
        <3>2. \A j \in 1 .. Len(messages) : a \notin Written(messages[j])
            BY <3>1, OtherPage, Zenon
        <3> QED BY <1>2, <2>1, <3>2, HeldStays, Zenon
    <2>2. CASE LastWrites(messages, a, w)
        BY <1>2, <1>4, <2>2, HeldAdded, Zenon
    <2> QED BY <1>4, <2>1, <2>2, Zenon
<1>5. ASSUME NEW a, NEW w, Kept(a, w) PROVE Holds(a, w)'
    BY <1>1, <1>3, <1>5, Zenon DEF Holds
<1> HIDE DEF Kept
<1>6. ASSUME ~full', NEW e \in 1 .. Len(config'.forward), LastOf(config'.forward, e)
      PROVE  Holds(<<ForwardPage, config.forward[e].id>>, config.forward[e].outport)'
    <2>1. e \in 1 .. Len(config.forward) /\ LastOf(config.forward, e) /\ ~full
        BY <1>2, <1>3, <1>6, Zenon
    <2>2. PICK a : a = <<ForwardPage, config.forward[e].id>>
        OBVIOUS
    <2>3. PICK w : w = config.forward[e].outport
        OBVIOUS
    <2>4. a[1] = ForwardPage
        BY <2>2
    <2>5. this \in AfterForward => Holds(a, w)
        BY <1>3, <2>1, <2>2, <2>3, Zenon DEF QueueInv, ForwardHeld
    <2>6. \/ this \in AfterForward /\ ForwardPage \notin pages
          \/ LastWrites(messages, a, w)
        BY <2>1, <2>2, <2>3, Zenon
    <2>7. Kept(a, w)
        BY <1>4, <1>6, <2>4, <2>5, <2>6, Zenon
    <2>8. Holds(a, w)'
        BY <1>5, <2>7, Zenon
    <2> QED BY <1>3, <2>2, <2>3, <2>8, Zenon
<1> QED BY <1>3, <1>6, Zenon DEF ForwardHeld

\* A call whose messages are right, are for no address of the forward table unless
\* they end as it should, and open the switch only when it is the last one.
LEMMA CallKeeps ==
    ASSUME QueueInv, NEW this, NEW following, NEW messages, NEW pages, NEW addresses,
           Call(this, following, messages), Sends(config, messages, pages, addresses),
           this # "pause",
           \/ following # "pause" /\ \A j \in 1 .. Len(messages) : CfgFinish \notin Written(messages[j])
           \/ following = "pause" /\ Len(messages) = 1,
           Sent(config, following) \subseteq Sent(config, this) \cup addresses,
           \/ /\ this \in AfterForward /\ ForwardPage \notin pages
           \/ \A e \in 1 .. Len(config.forward) : LastOf(config.forward, e) =>
                LastWrites(messages, <<ForwardPage, config.forward[e].id>>, config.forward[e].outport)
    PROVE  QueueInv'
<1>1. QueueTyped'
    BY CallTyped, Zenon
<1>2. QueueRight' /\ TableRight'
    BY CallRight, Zenon
<1>3. FullQueue' /\ Shut' /\ FinishLast'
    BY CallShut, Zenon
<1>4. Complete'
    BY CallComplete, Zenon
<1>5. ForwardHeld'
    BY CallHeld, Zenon
<1> QED BY <1>1, <1>2, <1>3, <1>4, <1>5, Zenon DEF QueueInv

\* What each call adds to the addresses.
LEMMA SentNext ==
    ASSUME NEW c
    PROVE  /\ Sent(c, "build_forward_info_ge") = {} /\ Sent(c, "get_cfg_info_local") = {}
           /\ Sent(c, "build_gate_info_ge") \subseteq ForwardPlaces(c)
           /\ Sent(c, "build_register_info_ge") \subseteq Sent(c, "build_gate_info_ge") \cup GatePlaces(c)
           /\ Sent(c, "build_inject_info_ge") \subseteq Sent(c, "build_register_info_ge") \cup RegisterWords
           /\ Sent(c, "build_submit_info_ge") \subseteq
                Sent(c, "build_inject_info_ge") \cup SlotPlaces(InjectPage, c.inject)
           /\ Sent(c, "send_cfg_finish_pkt") \subseteq
                Sent(c, "build_submit_info_ge") \cup SlotPlaces(SubmitPage, c.submit)
           /\ Sent(c, "pause") = Sent(c, "send_cfg_finish_pkt")
<1>1. \A l : /\ l \in AfterForward <=> l \in AfterGate \/ l = "build_gate_info_ge"
             /\ l \in AfterGate <=> l \in AfterRegister \/ l = "build_register_info_ge"
             /\ l \in AfterRegister <=> l \in AfterInject \/ l = "build_inject_info_ge"
             /\ l \in AfterInject <=> l \in AfterSubmit \/ l = "build_submit_info_ge"
             /\ l \in AfterSubmit <=> l = "send_cfg_finish_pkt" \/ l = "pause"
    BY DEF AfterForward, AfterGate, AfterRegister, AfterInject, AfterSubmit
<1>2. "build_forward_info_ge" \notin AfterForward /\ "get_cfg_info_local" \notin AfterForward
    BY <1>1
<1>3. \A l : l \notin AfterForward => Sent(c, l) = {}
    BY <1>1 DEF Sent
<1>4. \A l, a : a \in Sent(c, l) <=>
            \/ a \in ForwardPlaces(c) /\ l \in AfterForward
            \/ a \in GatePlaces(c) /\ l \in AfterGate
            \/ a \in RegisterWords /\ l \in AfterRegister
            \/ a \in SlotPlaces(InjectPage, c.inject) /\ l \in AfterInject
            \/ a \in SlotPlaces(SubmitPage, c.submit) /\ l \in AfterSubmit
    BY Zenon DEF Sent
<1>5. /\ "build_gate_info_ge" \in AfterForward /\ "build_gate_info_ge" \notin AfterGate
      /\ "build_gate_info_ge" \notin AfterRegister /\ "build_gate_info_ge" \notin AfterInject
      /\ "build_gate_info_ge" \notin AfterSubmit
    BY <1>1
<1>6. /\ "build_register_info_ge" \in AfterForward /\ "build_register_info_ge" \in AfterGate
      /\ "build_register_info_ge" \notin AfterRegister /\ "build_register_info_ge" \notin AfterInject
      /\ "build_register_info_ge" \notin AfterSubmit
    BY <1>1
<1>7. /\ "build_inject_info_ge" \in AfterForward /\ "build_inject_info_ge" \in AfterGate
      /\ "build_inject_info_ge" \in AfterRegister /\ "build_inject_info_ge" \notin AfterInject
      /\ "build_inject_info_ge" \notin AfterSubmit
    BY <1>1
<1>8. /\ "build_submit_info_ge" \in AfterForward /\ "build_submit_info_ge" \in AfterGate
      /\ "build_submit_info_ge" \in AfterRegister /\ "build_submit_info_ge" \in AfterInject
      /\ "build_submit_info_ge" \notin AfterSubmit
    BY <1>1
<1>9. ASSUME NEW l \in AfterSubmit
      PROVE  l \in AfterForward /\ l \in AfterGate /\ l \in AfterRegister /\ l \in AfterInject
    BY <1>1
<1>10. "send_cfg_finish_pkt" \in AfterSubmit /\ "pause" \in AfterSubmit
    BY <1>1
<1>11. Sent(c, "build_gate_info_ge") \subseteq ForwardPlaces(c)
    BY <1>4, <1>5, Zenon
<1>12. Sent(c, "build_register_info_ge") \subseteq Sent(c, "build_gate_info_ge") \cup GatePlaces(c)
    BY <1>4, <1>5, <1>6, Zenon
<1>13. Sent(c, "build_inject_info_ge") \subseteq Sent(c, "build_register_info_ge") \cup RegisterWords
    BY <1>4, <1>6, <1>7, Zenon
<1>14. Sent(c, "build_submit_info_ge") \subseteq
                Sent(c, "build_inject_info_ge") \cup SlotPlaces(InjectPage, c.inject)
    BY <1>4, <1>7, <1>8, Zenon
<1>15. Sent(c, "send_cfg_finish_pkt") \subseteq
                Sent(c, "build_submit_info_ge") \cup SlotPlaces(SubmitPage, c.submit)
    BY <1>4, <1>8, <1>9, <1>10, Zenon
<1>16. Sent(c, "pause") = Sent(c, "send_cfg_finish_pkt")
    <2>1. \A a : a \in Sent(c, "pause") <=> a \in Sent(c, "send_cfg_finish_pkt")
        <3>1. ASSUME NEW l \in AfterSubmit, NEW a
              PROVE  a \in Sent(c, l) <=>
                        a \in ForwardPlaces(c) \cup GatePlaces(c) \cup RegisterWords
                            \cup SlotPlaces(InjectPage, c.inject) \cup SlotPlaces(SubmitPage, c.submit)
            BY <1>4, <1>9, <3>1
        <3> QED BY <1>10, <3>1, Zenon
    <2> QED BY <2>1
<1> QED BY <1>2, <1>3, <1>11, <1>12, <1>13, <1>14, <1>15, <1>16, Zenon

\* The lists of slots are right on their pages.
LEMMA SlotPages ==
    ASSUME NEW c \in Config
    PROVE  SlotsRight(c, InjectPage, c.inject) /\ SlotsRight(c, SubmitPage, c.submit)
<1>1. c.inject \in Seq(TimeEntry) /\ c.submit \in Seq(TimeEntry)
    BY Configured
<1>2. ASSUME NEW k \in 1 .. Len(c.inject), NEW w \in Nat, SlotEntry(w) = c.inject[k]
      PROVE  Right(c, <<InjectPage, k - 1>>, w)
    <2>1. PICK a : a = <<InjectPage, k - 1>>
        OBVIOUS
    <2>2. a[1] = InjectPage /\ a[2] = k - 1
        BY <2>1
    <2>3. a[2] < Len(c.inject) /\ a[2] + 1 = k
        BY <1>1, <2>2
    <2>4. Right(c, a, w)
        BY <1>2, <2>2, <2>3, Zenon DEF Right
    <2> QED BY <2>1, <2>4
<1>3. ASSUME NEW k \in 1 .. Len(c.submit), NEW w \in Nat, SlotEntry(w) = c.submit[k]
      PROVE  Right(c, <<SubmitPage, k - 1>>, w)
    <2>1. PICK a : a = <<SubmitPage, k - 1>>
        OBVIOUS
    <2>2. a[1] = SubmitPage /\ a[2] = k - 1
        BY <2>1
    <2>3. a[2] < Len(c.submit) /\ a[2] + 1 = k
        BY <1>1, <2>2
    <2>4. Right(c, a, w)
        BY <1>3, <2>2, <2>3, Zenon DEF Right
    <2> QED BY <2>1, <2>4
<1> QED BY <1>2, <1>3 DEF SlotsRight

\* The pages differ, so that no other page than that of the registers opens the switch.
LEMMA Pages ==
    /\ ForwardPage = 12 /\ InjectPage = 1 /\ SubmitPage = 2 /\ RegisterPage = 0
    /\ CfgFinish[1] = 0
    /\ ForwardPage \notin {GatePage(p) : p \in Port} /\ 0 \notin {GatePage(p) : p \in Port}
<1>1. ASSUME NEW p \in Port PROVE GatePage(p) \in 3 .. 11
    BY Constants DEF Port, GatePage
<1> QED BY <1>1 DEF ForwardPage, InjectPage, SubmitPage, RegisterPage, CfgFinish

LEMMA BuildKeeps ==
    ASSUME QueueInv, config \in Config, chip \in ChipType, Loaded,
           \/ BuildForward \/ BuildGate \/ BuildRegister \/ BuildInject \/ BuildSubmit \/ SendCfgFinish
    PROVE  QueueInv'
<1>1. /\ "build_gate_info_ge" \in AfterForward /\ "build_register_info_ge" \in AfterForward
      /\ "build_inject_info_ge" \in AfterForward /\ "build_submit_info_ge" \in AfterForward
      /\ "send_cfg_finish_pkt" \in AfterForward
    BY DEF AfterForward, AfterGate, AfterRegister, AfterInject, AfterSubmit
<1>2. config.inject \in Seq(TimeEntry) /\ config.submit \in Seq(TimeEntry)
      /\ chip.inject = config.inject /\ chip.submit = config.submit
    BY Configured DEF Loaded
<1>3. CASE BuildForward
    <2>1. Sends(config, ForwardMessages, {ForwardPage}, ForwardPlaces(config))
        BY ForwardSends, Zenon DEF ForwardPlaces
    <2>2. \A e \in 1 .. Len(config.forward) : LastOf(config.forward, e) =>
            LastWrites(ForwardMessages, <<ForwardPage, config.forward[e].id>>, config.forward[e].outport)
        BY ForwardSends, Zenon
    <2>3. \A j \in 1 .. Len(ForwardMessages) : CfgFinish \notin Written(ForwardMessages[j])
        <3>1. CfgFinish[1] \notin {ForwardPage}
            BY Pages
        <3> QED BY <2>1, <3>1, OtherPage, Zenon
    <2>4. Call("build_forward_info_ge", "build_gate_info_ge", ForwardMessages)
        BY <1>3, Zenon DEF BuildForward
    <2>5. Sent(config, "build_gate_info_ge") \subseteq
            Sent(config, "build_forward_info_ge") \cup ForwardPlaces(config)
        BY SentNext
    <2>6. "build_forward_info_ge" # "pause" /\ "build_gate_info_ge" # "pause"
        OBVIOUS
    <2> QED BY <2>1, <2>2, <2>3, <2>4, <2>5, <2>6, CallKeeps, Zenon
<1>4. CASE BuildGate
    <2>1. Sends(config, AllGateMessages, {GatePage(p) : p \in Port}, GatePlaces(config))
        BY GatesSend DEF GatePlaces
    <2>2. ForwardPage \notin {GatePage(p) : p \in Port}
        BY Pages
    <2>3. \A j \in 1 .. Len(AllGateMessages) : CfgFinish \notin Written(AllGateMessages[j])
        <3>1. CfgFinish[1] \notin {GatePage(p) : p \in Port}
            BY Pages
        <3> QED BY <2>1, <3>1, OtherPage, Zenon
    <2>4. Call("build_gate_info_ge", "build_register_info_ge", AllGateMessages)
        BY <1>4, Zenon DEF BuildGate, AllGateMessages
    <2>5. Sent(config, "build_register_info_ge") \subseteq
            Sent(config, "build_gate_info_ge") \cup GatePlaces(config)
        BY SentNext
    <2>6. "build_gate_info_ge" # "pause" /\ "build_register_info_ge" # "pause"
        OBVIOUS
    <2> QED BY <1>1, <2>1, <2>2, <2>3, <2>4, <2>5, <2>6, CallKeeps, Zenon
<1>5. CASE BuildRegister
    <2>1. Sends(config, RegisterMessages, {RegisterPage}, RegisterWords)
        BY RegisterSends, Zenon DEF RegisterWords
    <2>2. ForwardPage \notin {RegisterPage}
        BY Pages
    <2>3. \A j \in 1 .. Len(RegisterMessages) : CfgFinish \notin Written(RegisterMessages[j])
        BY RegisterSends, Zenon
    <2>4. Call("build_register_info_ge", "build_inject_info_ge", RegisterMessages)
        BY <1>5, Zenon DEF BuildRegister
    <2>5. Sent(config, "build_inject_info_ge") \subseteq
            Sent(config, "build_register_info_ge") \cup RegisterWords
        BY SentNext
    <2>6. "build_register_info_ge" # "pause" /\ "build_inject_info_ge" # "pause"
        OBVIOUS
    <2> QED BY <1>1, <2>1, <2>2, <2>3, <2>4, <2>5, <2>6, CallKeeps, Zenon
<1>6. ASSUME NEW page \in Nat, page # ForwardPage, page # 0, NEW entries \in Seq(TimeEntry),
             SlotsRight(config, page, entries),
             NEW this, NEW following, this \in AfterForward, this # "pause", following # "pause",
             Call(this, following, SlotMessages(page, entries)),
             Sent(config, following) \subseteq Sent(config, this) \cup SlotPlaces(page, entries)
      PROVE  QueueInv'
    <2>1. Sends(config, SlotMessages(page, entries), {page}, SlotPlaces(page, entries))
        BY <1>6, SlotSends, Zenon DEF SlotPlaces
    <2>2. ForwardPage \notin {page} /\ CfgFinish[1] \notin {page}
        BY <1>6, Pages
    <2>3. \A j \in 1 .. Len(SlotMessages(page, entries)) : CfgFinish \notin Written(SlotMessages(page, entries)[j])
        BY <2>1, <2>2, OtherPage, Zenon
    <2> QED BY <1>6, <2>1, <2>2, <2>3, CallKeeps, Zenon
<1>7. CASE BuildInject
    <2>1. InjectPage \in Nat /\ InjectPage # ForwardPage /\ InjectPage # 0
        BY Pages
    <2>2. Call("build_inject_info_ge", "build_submit_info_ge", SlotMessages(InjectPage, config.inject))
        BY <1>2, <1>7, Zenon DEF BuildInject
    <2>3. Sent(config, "build_submit_info_ge") \subseteq
                Sent(config, "build_inject_info_ge") \cup SlotPlaces(InjectPage, config.inject)
        BY SentNext, Zenon
    <2>4. SlotsRight(config, InjectPage, config.inject)
        BY SlotPages, Zenon
    <2>5. "build_inject_info_ge" # "pause" /\ "build_submit_info_ge" # "pause"
        OBVIOUS
    <2> QED BY <1>1, <1>2, <1>6, <2>1, <2>2, <2>3, <2>4, <2>5, Zenon
<1>8. CASE BuildSubmit
    <2>1. SubmitPage \in Nat /\ SubmitPage # ForwardPage /\ SubmitPage # 0
        BY Pages
    <2>2. Call("build_submit_info_ge", "send_cfg_finish_pkt", SlotMessages(SubmitPage, config.submit))
        BY <1>2, <1>8, Zenon DEF BuildSubmit
    <2>3. Sent(config, "send_cfg_finish_pkt") \subseteq
                Sent(config, "build_submit_info_ge") \cup SlotPlaces(SubmitPage, config.submit)
        BY SentNext, Zenon
    <2>4. SlotsRight(config, SubmitPage, config.submit)
        BY SlotPages, Zenon
    <2>5. "build_submit_info_ge" # "pause" /\ "send_cfg_finish_pkt" # "pause"
        OBVIOUS
    <2> QED BY <1>1, <1>2, <1>6, <2>1, <2>2, <2>3, <2>4, <2>5, Zenon
<1>9. CASE SendCfgFinish
    <2>1. PICK m : m = Nmac(RegisterPage, 3, 1, << 3 >>)
        OBVIOUS
    <2>2. Sends(config, <<m>>, {RegisterPage}, {CfgFinish})
        BY <2>1, FinishSends, Zenon
    <2>3. ForwardPage \notin {RegisterPage}
        BY Pages
    <2>4. Len(<<m>>) = 1
        OBVIOUS
    <2>5. Call("send_cfg_finish_pkt", "pause", <<m>>)
        BY <1>9, <2>1, Zenon DEF SendCfgFinish
    <2>6. Sent(config, "pause") \subseteq Sent(config, "send_cfg_finish_pkt") \cup {CfgFinish}
        BY SentNext
    <2>7. "send_cfg_finish_pkt" # "pause"
        OBVIOUS
    <2> QED BY <1>1, <2>2, <2>3, <2>4, <2>5, <2>6, <2>7, CallKeeps, Zenon
<1> QED BY <1>3, <1>4, <1>5, <1>7, <1>8, <1>9

\* The first message of a queue and those behind it.
Split(list, first, behind) ==
    /\ Len(list) = Len(behind) + 1 /\ first = list[1]
    /\ \A i \in 1 .. Len(behind) : i + 1 \in 2 .. Len(list) /\ behind[i] = list[i + 1]
    /\ \A i \in 2 .. Len(list) : i - 1 \in 1 .. Len(behind) /\ behind[i - 1] = list[i]

LEMMA SplitHead ==
    ASSUME NEW S, NEW list \in Seq(S), list # <<>>
    PROVE  Tail(list) \in Seq(S) /\ Split(list, Head(list), Tail(list))
<1>1. PICK t : t = Tail(list)
    OBVIOUS
<1>2. Len(list) \in Nat /\ Len(list) >= 1
    BY EmptySeq
<1>3. t \in Seq(S) /\ Len(t) = Len(list) - 1 /\ \A i \in 1 .. Len(t) : t[i] = list[i + 1]
    BY <1>1, HeadTailProperties
<1>4. Head(list) = list[1]
    BY <1>2
<1>5. Len(list) = Len(t) + 1 /\ Len(t) \in Nat
    BY <1>2, <1>3
<1>6. \A i \in 1 .. Len(t) : i + 1 \in 2 .. Len(list) /\ t[i] = list[i + 1]
    BY <1>3, <1>5
<1>7. ASSUME NEW i \in 2 .. Len(list) PROVE i - 1 \in 1 .. Len(t) /\ t[i - 1] = list[i]
    <2>1. PICK k : k = i - 1
        OBVIOUS
    <2>2. k \in 1 .. Len(t) /\ k + 1 = i
        BY <1>5, <2>1
    <2> QED BY <1>3, <2>1, <2>2
<1> QED BY <1>1, <1>3, <1>4, <1>5, <1>6, <1>7, Zenon DEF Split

\* What the parser of the switch does with a message.
Stored(m, new) ==
    /\ DOMAIN new = Written(m) \cup DOMAIN table
    /\ \A a \in Written(m) : new[a] = m.words[a[2] - m.addr[2] + 1]
    /\ \A a \in DOMAIN table : a \notin Written(m) => new[a] = table[a]

LEMMA ParseStep ==
    ASSUME QueueInv, NmacParse
    PROVE  /\ loader = "pause" /\ loader' = loader /\ full' = full /\ config' = config
           /\ \E m : /\ Split(txq, m, txq') /\ Good(config, m) /\ Stored(m, table')
                     /\ txq \in Seq(Message) /\ QueueTyped'
<1>1. /\ txq \in Seq(Message) /\ Len(txq) <= TxCap /\ full \in BOOLEAN /\ lost = FALSE
      /\ \A i \in 1 .. Len(txq) : Good(config, txq[i])
    BY Zenon DEF QueueInv, QueueTyped, QueueRight
<1>2. PICK m : m = Head(txq)
    OBVIOUS
<1>3. /\ loader = "pause" /\ loader' = loader /\ full' = full /\ config' = config
      /\ txq # <<>> /\ txq' = Tail(txq)
    BY Zenon DEF NmacParse
<1>4. txq' \in Seq(Message) /\ Split(txq, m, txq')
    BY <1>1, <1>2, <1>3, SplitHead, Zenon
<1>5. Len(txq) \in Nat /\ Len(txq') \in Nat /\ Len(txq) = Len(txq') + 1 /\ m = txq[1]
    BY <1>1, <1>4 DEF Split
<1>6. 1 \in 1 .. Len(txq)
    BY <1>5
<1>7. Good(config, m)
    BY <1>1, <1>5, <1>6, Zenon
<1>8. lost' = FALSE
    <2>1. m.count \in 1 .. Len(m.words)
        <3>1. m.count = Len(m.words) /\ m.count \in 1 .. Batch /\ Batch \in Nat
            BY <1>7, Constants DEF Good
        <3> QED BY <3>1
    <2>2. lost' = (lost \/ m.count \notin 1 .. Len(m.words))
        BY <1>2, Zenon DEF NmacParse
    <2> QED BY <1>1, <2>1, <2>2
<1>9. table' = [a \in Written(m) \cup DOMAIN table |->
                    IF a \in Written(m) THEN m.words[a[2] - m.addr[2] + 1] ELSE table[a]]
    BY <1>2, <1>8, Zenon DEF NmacParse
<1>10. Stored(m, table')
    <2>1. PICK new : new = table'
        OBVIOUS
    <2>2. new = [a \in Written(m) \cup DOMAIN table |->
                    IF a \in Written(m) THEN m.words[a[2] - m.addr[2] + 1] ELSE table[a]]
        BY <1>9, <2>1
    <2>3. Stored(m, new)
        BY <2>2, Zenon DEF Stored
    <2> QED BY <2>1, <2>3, Zenon
<1>11. QueueTyped'
    <2>1. TxCap \in Nat
        BY Constants
    <2>2. Len(txq') <= TxCap
        BY <1>1, <1>5, <2>1
    <2> QED BY <1>1, <1>3, <1>4, <1>8, <2>2, Zenon DEF QueueTyped
<1> QED BY <1>1, <1>3, <1>4, <1>7, <1>10, <1>11, Zenon

\* The words of a right message are right in the table.
LEMMA GoodStored ==
    ASSUME NEW c, NEW m, Good(c, m), NEW new, Stored(m, new), NEW a \in Written(m)
    PROVE  a \in Nat \X Nat /\ Right(c, a, new[a])
<1>1. m.addr \in Nat \X Nat /\ m.count \in Nat
    BY DEF Good, Message
<1>2. PICK p, o : p = m.addr[1] /\ o = m.addr[2] /\ p \in Nat /\ o \in Nat
    BY <1>1
<1>3. PICK k \in 0 .. m.count - 1 : a = <<p, o + k>>
    BY <1>2 DEF Written
<1>4. PICK j : j = k + 1
    OBVIOUS
<1>5. j \in 1 .. m.count /\ o + j - 1 = o + k
    BY <1>1, <1>2, <1>4
<1>6. Right(c, <<m.addr[1], m.addr[2] + j - 1>>, m.words[j])
    BY <1>5, Zenon DEF Good
<1>7. Right(c, a, m.words[j])
    BY <1>2, <1>3, <1>5, <1>6
<1>8. a[2] - m.addr[2] + 1 = j
    BY <1>2, <1>3, <1>4
<1>9. new[a] = m.words[a[2] - m.addr[2] + 1]
    BY Zenon DEF Stored
<1>10. new[a] = m.words[j]
    BY <1>8, <1>9
<1>11. a \in Nat \X Nat
    BY <1>2, <1>3
<1> QED BY <1>7, <1>10, <1>11

LEMMA ParseHeld ==
    ASSUME txq \in Seq(Message), NEW m, NEW behind \in Seq(Message), Split(txq, m, behind),
           NEW new, Stored(m, new), NEW a, NEW w, Holds(a, w)
    PROVE  \/ LastWrites(behind, a, w)
           \/ a \in DOMAIN new /\ new[a] = w /\ \A i \in 1 .. Len(behind) : a \notin Written(behind[i])
<1>1. /\ Len(txq) = Len(behind) + 1 /\ m = txq[1]
      /\ \A i \in 1 .. Len(behind) : i + 1 \in 2 .. Len(txq) /\ behind[i] = txq[i + 1]
      /\ \A i \in 2 .. Len(txq) : i - 1 \in 1 .. Len(behind) /\ behind[i - 1] = txq[i]
    BY Zenon DEF Split
<1>2. Len(txq) \in Nat /\ Len(behind) \in Nat
    OBVIOUS
<1>3. /\ DOMAIN new = Written(m) \cup DOMAIN table
      /\ \A b \in Written(m) : new[b] = m.words[b[2] - m.addr[2] + 1]
      /\ \A b \in DOMAIN table : b \notin Written(m) => new[b] = table[b]
    BY Zenon DEF Stored
<1>4. CASE LastWrites(txq, a, w)
    <2>1. PICK q \in 1 .. Len(txq) :
            /\ Writes(txq[q], a, w)
            /\ \A r \in q + 1 .. Len(txq) : a \notin Written(txq[r])
        BY <1>4, Zenon DEF LastWrites
    <2>2. CASE q = 1
        <3>1. Writes(m, a, w)
            BY <1>1, <2>1, <2>2
        <3>2. a \in DOMAIN new /\ new[a] = w
            BY <1>3, <3>1, Zenon DEF Writes
        <3>3. ASSUME NEW i \in 1 .. Len(behind) PROVE a \notin Written(behind[i])
            <4>1. i + 1 \in q + 1 .. Len(txq)
                BY <1>1, <1>2, <2>2
            <4> QED BY <1>1, <2>1, <4>1, Zenon
        <3> QED BY <3>2, <3>3
    <2>3. CASE q # 1
        <3>1. q \in 2 .. Len(txq)
            BY <1>2, <2>3
        <3>2. PICK k : k = q - 1
            OBVIOUS
        <3>3. k \in 1 .. Len(behind) /\ behind[k] = txq[q]
            BY <1>1, <3>1, <3>2
        <3>4. ASSUME NEW r \in k + 1 .. Len(behind) PROVE a \notin Written(behind[r])
            <4>1. r \in 1 .. Len(behind) /\ r + 1 \in q + 1 .. Len(txq)
                BY <1>1, <1>2, <3>1, <3>2
            <4> QED BY <1>1, <2>1, <4>1, Zenon
        <3>5. Writes(behind[k], a, w)
            BY <2>1, <3>3
        <3> QED BY <3>3, <3>4, <3>5, Zenon DEF LastWrites
    <2> QED BY <2>2, <2>3
<1>5. CASE a \in DOMAIN table /\ table[a] = w /\ \A i \in 1 .. Len(txq) : a \notin Written(txq[i])
    <2>1. 1 \in 1 .. Len(txq)
        BY <1>1, <1>2
    <2>2. a \notin Written(m)
        BY <1>1, <1>5, <2>1, Zenon
    <2>3. a \in DOMAIN new /\ new[a] = w
        BY <1>3, <1>5, <2>2, Zenon
    <2>4. ASSUME NEW i \in 1 .. Len(behind) PROVE a \notin Written(behind[i])
        <3>1. i + 1 \in 1 .. Len(txq) /\ behind[i] = txq[i + 1]
            BY <1>1
        <3> QED BY <1>5, <3>1, Zenon
    <2> QED BY <2>3, <2>4
<1> QED BY <1>4, <1>5, Zenon DEF Holds

\* As long as the messages that are left do not open the switch, it stays shut.
LEMMA ParseShut ==
    ASSUME txq \in Seq(Message), NEW m, NEW behind \in Seq(Message), Split(txq, m, behind),
           NEW new, Stored(m, new), CfgFinish \in DOMAIN table,
           NEW n \in 1 .. Len(txq), StillShut(n)
    PROVE  new[CfgFinish] = 1 /\ \A i \in 1 .. n - 1 : CfgFinish \notin Written(behind[i])
<1>1. /\ Len(txq) = Len(behind) + 1 /\ m = txq[1]
      /\ \A i \in 1 .. Len(behind) : i + 1 \in 2 .. Len(txq) /\ behind[i] = txq[i + 1]
    BY Zenon DEF Split
<1>2. Len(txq) \in Nat /\ Len(behind) \in Nat
    OBVIOUS
<1>3. n \in Nat /\ n >= 1 /\ n <= Len(txq)
    BY <1>2
<1>4. table[CfgFinish] = 1 /\ \A i \in 1 .. n : CfgFinish \notin Written(txq[i])
    BY Zenon DEF StillShut
<1>5. CfgFinish \notin Written(m)
    <2>1. 1 \in 1 .. n
        BY <1>3
    <2> QED BY <1>1, <1>4, <2>1, Zenon
<1>6. new[CfgFinish] = 1
    BY <1>4, <1>5, Zenon DEF Stored
<1>7. ASSUME NEW i \in 1 .. n - 1 PROVE CfgFinish \notin Written(behind[i])
    <2>1. i \in 1 .. Len(behind) /\ i + 1 \in 1 .. n
        BY <1>1, <1>2, <1>3
    <2> QED BY <1>1, <1>4, <2>1, Zenon
<1> QED BY <1>6, <1>7

LEMMA ParseKeeps ==
    ASSUME QueueInv, NmacParse
    PROVE  QueueInv'
<1>1. /\ loader = "pause" /\ loader' = loader /\ full' = full /\ config' = config
      /\ \E m : /\ Split(txq, m, txq') /\ Good(config, m) /\ Stored(m, table')
                /\ txq \in Seq(Message) /\ QueueTyped'
    BY ParseStep, Zenon
<1>2. PICK m : /\ Split(txq, m, txq') /\ Good(config, m) /\ Stored(m, table')
               /\ txq \in Seq(Message) /\ QueueTyped'
    BY <1>1, Zenon
<1>3. PICK behind : behind = txq'
    OBVIOUS
<1>4. PICK new : new = table'
    OBVIOUS
<1>5. Split(txq, m, behind) /\ Stored(m, new) /\ behind \in Seq(Message)
    BY <1>2, <1>3, <1>4, Zenon DEF QueueTyped
<1>6. /\ Len(txq) = Len(behind) + 1 /\ m = txq[1]
      /\ \A i \in 1 .. Len(behind) : i + 1 \in 2 .. Len(txq) /\ behind[i] = txq[i + 1]
      /\ \A i \in 2 .. Len(txq) : i - 1 \in 1 .. Len(behind) /\ behind[i - 1] = txq[i]
    BY <1>5, Zenon DEF Split
<1>7. Len(txq) \in Nat /\ Len(behind) \in Nat
    BY <1>2, <1>5
<1>8. /\ DOMAIN table \subseteq Nat \X Nat /\ CfgFinish \in DOMAIN table
      /\ \A a \in DOMAIN table : Right(config, a, table[a])
      /\ \A i \in 1 .. Len(txq) : Good(config, txq[i])
    BY Zenon DEF QueueInv, TableRight, QueueRight
<1>9. QueueRight'
    <2>1. \A i \in 1 .. Len(behind) : i + 1 \in 1 .. Len(txq)
        BY <1>6, <1>7
    <2>2. \A i \in 1 .. Len(behind) : Good(config, behind[i])
        BY <1>6, <1>8, <2>1, Zenon
    <2> QED BY <1>1, <1>3, <2>2, Zenon DEF QueueRight
<1>10. TableRight'
    <2>1. DOMAIN new = Written(m) \cup DOMAIN table
          /\ \A a \in DOMAIN table : a \notin Written(m) => new[a] = table[a]
        BY <1>5, Zenon DEF Stored
    <2>2. \A a \in Written(m) : a \in Nat \X Nat /\ Right(config, a, new[a])
        BY <1>2, <1>5, GoodStored, Zenon
    <2>3. ASSUME NEW a \in DOMAIN new PROVE a \in Nat \X Nat /\ Right(config, a, new[a])
        <3>1. CASE a \in Written(m)
            BY <2>2, <3>1, Zenon
        <3>2. CASE a \notin Written(m)
            <4>1. a \in DOMAIN table /\ new[a] = table[a]
                BY <2>1, <3>2
            <4> QED BY <1>8, <4>1
        <3> QED BY <3>1, <3>2
    <2>4. CfgFinish \in DOMAIN new
        BY <1>8, <2>1
    <2> QED BY <1>1, <1>4, <2>3, <2>4, Zenon DEF TableRight
<1>11. FullQueue'
    BY <1>1 DEF FullQueue
<1>12. Shut'
    <2> SUFFICES ASSUME full PROVE new[CfgFinish] = 1 /\ \A i \in 1 .. Len(behind) : CfgFinish \notin Written(behind[i])
        BY <1>1, <1>3, <1>4, Zenon DEF Shut, StillShut
    <2>1. StillShut(Len(txq))
        BY Zenon DEF QueueInv, Shut
    <2>2. PICK n : n = Len(txq)
        OBVIOUS
    <2>3. n \in 1 .. Len(txq) /\ n - 1 = Len(behind)
        BY <1>6, <1>7, <2>2
    <2>4. StillShut(n)
        BY <2>1, <2>2
    <2>5. CfgFinish \in DOMAIN table /\ txq \in Seq(Message)
        BY <1>2, <1>8, Zenon
    <2>6. new[CfgFinish] = 1 /\ \A i \in 1 .. n - 1 : CfgFinish \notin Written(behind[i])
        BY <1>5, <2>3, <2>4, <2>5, ParseShut
    <2> QED BY <2>3, <2>6
<1>13. FinishLast'
    <2> SUFFICES ASSUME ~full, behind # <<>>
                 PROVE  new[CfgFinish] = 1 /\ \A i \in 1 .. Len(behind) - 1 : CfgFinish \notin Written(behind[i])
        BY <1>1, <1>3, <1>4, Zenon DEF FinishLast, StillShut
    <2>1. txq # <<>>
        BY Zenon DEF NmacParse
    <2>2. StillShut(Len(txq) - 1)
        BY <1>1, <2>1, Zenon DEF QueueInv, FinishLast
    <2>3. PICK n : n = Len(txq) - 1
        OBVIOUS
    <2>4. n = Len(behind)
        BY <1>6, <1>7, <2>3
    <2>5. n \in 1 .. Len(txq)
        <3>1. Len(behind) >= 1
            BY <1>5, <1>7, EmptySeq
        <3> QED BY <1>6, <1>7, <2>4, <3>1
    <2>6. StillShut(n)
        BY <2>2, <2>3
    <2>7. CfgFinish \in DOMAIN table /\ txq \in Seq(Message)
        BY <1>2, <1>8, Zenon
    <2>8. new[CfgFinish] = 1 /\ \A i \in 1 .. n - 1 : CfgFinish \notin Written(behind[i])
        BY <1>5, <2>5, <2>6, <2>7, ParseShut
    <2> QED BY <2>4, <2>8
<1>14. Complete'
    <2> SUFFICES ASSUME ~full, NEW a \in Sent(config, loader)
                 PROVE  a \in DOMAIN new \/ \E i \in 1 .. Len(behind) : a \in Written(behind[i])
        BY <1>1, <1>3, <1>4, Zenon DEF Complete
    <2>1. DOMAIN new = Written(m) \cup DOMAIN table
        BY <1>5, Zenon DEF Stored
    <2>2. a \in DOMAIN table \/ \E i \in 1 .. Len(txq) : a \in Written(txq[i])
        BY Zenon DEF QueueInv, Complete
    <2>3. ASSUME NEW i \in 1 .. Len(txq), a \in Written(txq[i])
          PROVE  a \in Written(m) \/ \E k \in 1 .. Len(behind) : a \in Written(behind[k])
        <3>1. CASE i = 1
            BY <1>6, <2>3, <3>1
        <3>2. CASE i # 1
            <4>1. i \in 2 .. Len(txq)
                BY <1>7, <3>2
            <4>2. i - 1 \in 1 .. Len(behind) /\ behind[i - 1] = txq[i]
                BY <1>6, <4>1
            <4> QED BY <2>3, <4>2
        <3> QED BY <3>1, <3>2
    <2> QED BY <2>1, <2>2, <2>3
<1>15. ForwardHeld'
    <2>1. ASSUME NEW a, NEW w, Holds(a, w) PROVE Holds(a, w)'
        <3>1. \/ LastWrites(behind, a, w)
              \/ a \in DOMAIN new /\ new[a] = w /\ \A i \in 1 .. Len(behind) : a \notin Written(behind[i])
            BY <1>2, <1>5, <2>1, ParseHeld, Zenon
        <3> QED BY <1>3, <1>4, <3>1, Zenon DEF Holds
    <2>2. ASSUME ~full, loader \in AfterForward,
                 NEW e \in 1 .. Len(config.forward), LastOf(config.forward, e)
          PROVE  Holds(<<ForwardPage, config.forward[e].id>>, config.forward[e].outport)'
        <3>1. PICK a, w : a = <<ForwardPage, config.forward[e].id>> /\ w = config.forward[e].outport
            OBVIOUS
        <3>2. Holds(a, w)
            BY <2>2, <3>1, Zenon DEF QueueInv, ForwardHeld
        <3>3. Holds(a, w)'
            BY <2>1, <3>2, Zenon
        <3> QED BY <1>1, <3>1, <3>3, Zenon
    <2> QED BY <1>1, <2>2, Zenon DEF ForwardHeld
<1> QED BY <1>2, <1>9, <1>10, <1>11, <1>12, <1>13, <1>14, <1>15, Zenon DEF QueueInv

\* The parser of the file does not touch the queue.
LEMMA QueueStays ==
    ASSUME QueueInv, UNCHANGED <<config, loader, txq, full, table, lost>>
    PROVE  QueueInv'
<1>1. /\ config' = config /\ loader' = loader /\ txq' = txq /\ full' = full
      /\ table' = table /\ lost' = lost
    OBVIOUS
<1>2. QueueTyped' /\ QueueRight' /\ TableRight'
    BY <1>1, Zenon DEF QueueInv, QueueTyped, QueueRight, TableRight
<1>3. FullQueue' /\ Shut' /\ FinishLast'
    <2>1. FullQueue /\ Shut /\ FinishLast
        BY DEF QueueInv
    <2>2. FullQueue'
        BY <1>1, <2>1 DEF FullQueue
    <2>3. Shut'
        BY <1>1, <2>1 DEF Shut, StillShut
    <2>4. FinishLast'
        BY <1>1, <2>1 DEF FinishLast, StillShut
    <2> QED BY <2>2, <2>3, <2>4
<1>4. Complete'
    <2>1. Complete
        BY DEF QueueInv
    <2> QED BY <1>1, <2>1 DEF Complete
<1>5. ForwardHeld'
    <2>1. ForwardHeld
        BY DEF QueueInv
    <2> QED BY <1>1, <2>1 DEF ForwardHeld, Holds
<1> QED BY <1>2, <1>3, <1>4, <1>5, Zenon DEF QueueInv

LEMMA EndOfFileKeeps ==
    ASSUME QueueInv, EndOfFile
    PROVE  QueueInv'
<1>1. /\ config' = config /\ txq' = txq /\ full' = full /\ table' = table /\ lost' = lost
      /\ loader = "get_cfg_info_local" /\ loader' = "build_forward_info_ge"
    BY DEF EndOfFile
<1>2. loader # "pause" /\ loader' # "pause"
    BY <1>1
<1>3. loader' \notin AfterForward
    BY <1>1 DEF AfterForward, AfterGate, AfterRegister, AfterInject, AfterSubmit
<1>4. QueueTyped' /\ QueueRight' /\ TableRight'
    BY <1>1, Zenon DEF QueueInv, QueueTyped, QueueRight, TableRight
<1>5. FullQueue' /\ Shut' /\ FinishLast'
    BY <1>1, <1>2, Zenon DEF QueueInv, FullQueue, Shut, FinishLast, StillShut
<1>6. Complete' /\ ForwardHeld'
    <2>1. Sent(config', loader') = {}
        BY <1>1, SentNext
    <2> QED BY <1>3, <2>1 DEF Complete, ForwardHeld
<1> QED BY <1>4, <1>5, <1>6, Zenon DEF QueueInv

LocalManageInv == ReadInv /\ QueueInv

LEMMA LocalManageStep ==
    ASSUME LocalManageInv, [Next]_vars
    PROVE  LocalManageInv'
<1>1. ReadInv /\ QueueInv
    BY DEF LocalManageInv
<1>2. ReadInv'
    BY <1>1, ReadStep
<1>3. CASE GetCfgInfo /\ rest # <<>>
    <2>1. PICK f : ReadIn(f)
        BY <1>3, Readers, Zenon
    <2>2. UNCHANGED <<config, loader, txq, full, table, lost>>
        BY <2>1 DEF ReadIn
    <2> QED BY <1>1, <1>2, <2>2, QueueStays, Zenon DEF LocalManageInv
<1>4. CASE GetCfgInfo /\ rest = <<>>
    <2>1. ASSUME NEW f, ReadIn(f) PROVE FALSE
        BY <1>4, <2>1 DEF ReadIn
    <2>2. EndOfFile
        BY <1>4, <2>1, Zenon DEF GetCfgInfo, Outside, TypeLine, EndSection, RegisterLine, ForwardLine,
            InjectLine, SubmitLine, DepthLine, GateLine, InSection
    <2> QED BY <1>1, <1>2, <2>2, EndOfFileKeeps, Zenon DEF LocalManageInv
<1>5. CASE \/ BuildForward \/ BuildGate \/ BuildRegister \/ BuildInject \/ BuildSubmit \/ SendCfgFinish
    <2>1. ASSUME NEW this, NEW following, NEW messages, Call(this, following, messages)
          PROVE  loader = this
        BY <2>1, CallStep, Zenon
    <2>2. loader # "get_cfg_info_local"
        <3>1. \/ loader = "build_forward_info_ge" \/ loader = "build_gate_info_ge"
              \/ loader = "build_register_info_ge" \/ loader = "build_inject_info_ge"
              \/ loader = "build_submit_info_ge" \/ loader = "send_cfg_finish_pkt"
            BY <1>5, <2>1, Zenon DEF BuildForward, BuildGate, BuildRegister, BuildInject, BuildSubmit,
                SendCfgFinish
        <3> QED BY <3>1
    <2>3. config \in Config /\ chip \in ChipType /\ Loaded
        BY <1>1, <2>2, Zenon DEF ReadInv
    <2> QED BY <1>1, <1>2, <1>5, <2>3, BuildKeeps, Zenon DEF LocalManageInv
<1>6. CASE NmacParse
    BY <1>1, <1>2, <1>6, ParseKeeps, Zenon DEF LocalManageInv
<1>7. CASE UNCHANGED vars
    <2>1. UNCHANGED <<config, loader, txq, full, table, lost>>
        BY <1>7 DEF vars
    <2> QED BY <1>1, <1>2, <2>1, QueueStays, Zenon DEF LocalManageInv
<1> QED BY <1>3, <1>4, <1>5, <1>6, <1>7, Zenon DEF Next, Loader

THEOREM LocalManageInvariant == Spec => []LocalManageInv
<1>1. Init => LocalManageInv
    BY ReadInit, QueueInit DEF LocalManageInv
<1>2. LocalManageInv /\ [Next]_vars => LocalManageInv'
    BY LocalManageStep
<1> QED BY <1>1, <1>2, PTL DEF Spec

\* The types of the loader's state, and that no message is longer than its buffer
\* nor the transmit queue than its capacity.
THEOREM TypeCorrect == Spec => []TypeOK
<1>1. ASSUME LocalManageInv PROVE TypeOK
    <2>1. flow_flag \in Section \cup {"no_flow", "new_flow"} /\ tmp_depth = chip.depth /\ chip \in ChipType
        BY <1>1 DEF LocalManageInv, ReadInv
    <2>2. chip.depth \in 0 .. MaxDepth
        BY <2>1 DEF ChipType
    <2>3. Len(txq) <= TxCap /\ full \in BOOLEAN /\ lost \in BOOLEAN
        BY <1>1 DEF LocalManageInv, QueueInv, QueueTyped
    <2>4. \A i \in 1 .. Len(txq) : Good(config, txq[i])
        BY <1>1, Zenon DEF LocalManageInv, QueueInv, QueueRight
    <2>5. ASSUME NEW i \in 1 .. Len(txq) PROVE Len(txq[i].words) <= Batch /\ txq[i].count \in 0 .. Batch
        <3>1. txq[i].count = Len(txq[i].words) /\ txq[i].count \in 1 .. Batch
            BY <2>4, Zenon DEF Good
        <3> QED BY <3>1, Constants
    <2> QED BY <2>1, <2>2, <2>3, <2>5 DEF TypeOK
<1> QED BY <1>1, LocalManageInvariant, PTL

\* When the switch is open, nothing is left to send and nothing was dropped.
LEMMA OpenedEnds ==
    ASSUME QueueInv, Opened
    PROVE  txq = <<>> /\ ~full /\ loader = "pause"
<1>1. table[CfgFinish] # 1
    BY DEF Opened
<1>2. loader = "pause" /\ ~full
    BY <1>1, Zenon DEF QueueInv, Shut, StillShut
<1>3. txq = <<>>
    BY <1>1, <1>2, Zenon DEF QueueInv, FinishLast, StillShut
<1> QED BY <1>2, <1>3

\* A word that is right is the one that is meant, for an open switch because the last
\* entry of an id is held in the end.
LEMMA RightMeant ==
    ASSUME QueueInv, config \in Config, NEW a \in DOMAIN table
    PROVE  Meant(a, table[a])
<1>1. Right(config, a, table[a]) /\ a \in Nat \X Nat
    BY DEF QueueInv, TableRight
<1>2. CASE /\ a[1] = ForwardPage
           /\ \E i \in 1 .. Len(config.forward) :
                config.forward[i].id = a[2] /\ table[a] = config.forward[i].outport
    <2>1. PICK of : of = {i \in 1 .. Len(config.forward) : config.forward[i].id = a[2]}
        OBVIOUS
    <2>2. PICK i \in 1 .. Len(config.forward) :
            config.forward[i].id = a[2] /\ table[a] = config.forward[i].outport
        BY <1>2
    <2>3. i \in of
        BY <2>1, <2>2
    <2>4. \E j \in of : table[a] = config.forward[j].outport /\ (Opened => j = Max(of))
        <3>1. CASE ~Opened
            BY <2>2, <2>3, <3>1
        <3>2. CASE Opened
            <4>1. txq = <<>> /\ ~full /\ loader = "pause"
                BY <3>2, OpenedEnds
            <4>2. Len(config.forward) \in Nat
                BY Configured
            <4>3. of \subseteq 1 .. Len(config.forward) /\ of # {}
                BY <2>1, <2>3
            <4>4. PICK e : e = Max(of)
                OBVIOUS
            <4>5. e \in of /\ \A n \in of : n <= e
                BY <4>2, <4>3, <4>4, Greatest, Zenon
            <4>6. e \in 1 .. Len(config.forward) /\ config.forward[e].id = a[2]
                BY <2>1, <4>5
            <4>7. LastOf(config.forward, e)
                <5>1. ASSUME NEW j \in e + 1 .. Len(config.forward), config.forward[j].id = config.forward[e].id
                      PROVE  FALSE
                    <6>1. j \in 1 .. Len(config.forward) /\ ~(j <= e)
                        BY <4>2, <4>6
                    <6>2. j \in of
                        BY <2>1, <4>6, <5>1, <6>1
                    <6> QED BY <4>5, <6>1, <6>2
                <5> QED BY <5>1, Zenon DEF LastOf
            <4>8. Holds(<<ForwardPage, config.forward[e].id>>, config.forward[e].outport)
                <5>1. loader \in AfterForward
                    BY <4>1 DEF AfterForward, AfterGate, AfterRegister, AfterInject, AfterSubmit
                <5> QED BY <4>1, <4>6, <4>7, <5>1, Zenon DEF QueueInv, ForwardHeld
            <4>9. <<ForwardPage, config.forward[e].id>> = a
                BY <1>1, <1>2, <4>6
            <4>10. PICK w : w = config.forward[e].outport
                OBVIOUS
            <4>11. Holds(a, w)
                BY <4>8, <4>9, <4>10
            <4>12. ~LastWrites(txq, a, w)
                <5>1. 1 .. Len(txq) = {}
                    BY <4>1
                <5> QED BY <5>1 DEF LastWrites
            <4>13. table[a] = w
                BY <4>11, <4>12, Zenon DEF Holds
            <4> QED BY <4>4, <4>5, <4>10, <4>13
        <3> QED BY <3>1, <3>2
    <2>5. ForwardMeant(a[2], table[a])
        BY <2>1, <2>4, Zenon DEF ForwardMeant
    <2> QED BY <1>2, <2>5, Zenon DEF Meant
<1>3. CASE ~(/\ a[1] = ForwardPage
             /\ \E i \in 1 .. Len(config.forward) :
                config.forward[i].id = a[2] /\ table[a] = config.forward[i].outport)
    BY <1>1, <1>3, Zenon DEF Right, Meant
<1> QED BY <1>2, <1>3

\* Whatever the file says and whatever of it fits in the transmit queue, every word
\* of the switch is one that the file gives its address, and when the ports open
\* the words of all addresses are there, for each id that of its last entry.
THEOREM OpensAsConfigured == Spec => []OpensConfigured
<1>1. ASSUME LocalManageInv PROVE OpensConfigured
    <2>1. QueueInv /\ config \in Config
        BY <1>1 DEF LocalManageInv, ReadInv
    <2>2. \A a \in DOMAIN table : Meant(a, table[a])
        BY <2>1, RightMeant
    <2>3. ASSUME Opened PROVE Addresses \subseteq DOMAIN table
        <3>1. txq = <<>> /\ ~full /\ loader = "pause"
            BY <2>1, <2>3, OpenedEnds
        <3>2. 1 .. Len(txq) = {}
            BY <3>1
        <3>3. \A a \in Sent(config, "pause") : a \in DOMAIN table
            BY <2>1, <3>1, <3>2 DEF QueueInv, Complete
        <3>4. /\ "pause" \in AfterForward /\ "pause" \in AfterGate /\ "pause" \in AfterRegister
              /\ "pause" \in AfterInject /\ "pause" \in AfterSubmit
            BY DEF AfterForward, AfterGate, AfterRegister, AfterInject, AfterSubmit
        <3>5. Addresses \subseteq Sent(config, "pause")
            BY <3>4 DEF Addresses, Sent, ForwardPlaces, GatePlaces, RegisterWords, SlotPlaces
        <3> QED BY <3>3, <3>5
    <2> QED BY <2>2, <2>3 DEF OpensConfigured
<1> QED BY <1>1, LocalManageInvariant, PTL

-----------------------------------------------------------------------------
(* The safety half of Opens: where the messages end                           *)

\* While nothing was dropped, the message that opens the switch is the last one of
\* the queue, until the parser has taken it.
OpensSwitch(m) == CfgFinish \in Written(m) /\ m.words[CfgFinish[2] - m.addr[2] + 1] = 3
EndQueued ==
    (loader = "pause" /\ ~full) => IF txq = <<>> THEN Opened ELSE OpensSwitch(txq[Len(txq)])

\* The messages are through: the ports are open, unless the queue was once too short.
OpenAtTheEnd == (loader = "pause" /\ txq = <<>>) => (Opened <=> ~full)

LEMMA FinishQueued ==
    ASSUME QueueInv, SendCfgFinish
    PROVE  EndQueued'
<1>1. PICK m : m = Nmac(RegisterPage, 3, 1, << 3 >>)
    OBVIOUS
<1>2. Sends(config, <<m>>, {RegisterPage}, {CfgFinish}) /\ m.words = << 3 >> /\ Written(m) = {CfgFinish}
    BY <1>1, FinishSends
<1>3. Call("send_cfg_finish_pkt", "pause", <<m>>)
    BY <1>1, Zenon DEF SendCfgFinish
<1>4. PICK new, added : new = txq' /\ added = <<m>>
    OBVIOUS
<1>5. /\ txq \in Seq(Message) /\ added \in Seq(Message) /\ new \in Seq(Message)
      /\ Queued(txq, added, new) /\ (~full' => Len(new) = Len(txq) + Len(added))
    BY <1>2, <1>3, <1>4, CallTyped, Zenon DEF QueueTyped
<1>6. Len(added) = 1 /\ added[1] = m /\ Len(txq) \in Nat
    BY <1>4, <1>5
<1>7. ASSUME ~full' PROVE new # <<>> /\ new[Len(new)] = m
    <2>1. Len(new) = Len(txq) + 1
        BY <1>5, <1>6, <1>7
    <2>2. Len(txq) + 1 \in 1 .. Len(new) /\ new[Len(txq) + 1] = added[1]
        <3>1. 1 \in 1 .. Len(added)
            BY <1>6
        <3>2. Len(new) = Len(txq) + Len(added)
            BY <1>5, <1>7
        <3>3. Len(new) = Len(txq) + Len(added) =>
                \A j \in 1 .. Len(added) : Len(txq) + j \in 1 .. Len(new) /\ new[Len(txq) + j] = added[j]
            BY <1>5, QueuedFrom, Zenon
        <3> QED BY <3>1, <3>2, <3>3, Zenon
    <2> QED BY <1>5, <1>6, <2>1, <2>2
<1>8. OpensSwitch(m)
    <2>1. m.addr[2] = 3 /\ CfgFinish[2] = 3
        BY <1>1 DEF Nmac, CfgFinish
    <2> QED BY <1>2, <2>1 DEF OpensSwitch
<1> QED BY <1>4, <1>7, <1>8 DEF EndQueued

\* The parser takes the first message; behind the last one the table holds its word.
LEMMA ParsedEnd ==
    ASSUME QueueInv, EndQueued, NmacParse
    PROVE  EndQueued'
<1>1. PICK new, tab : new = txq' /\ tab = table'
    OBVIOUS
<1>2. /\ loader = "pause" /\ full' = full /\ txq # <<>>
      /\ txq \in Seq(Message) /\ new \in Seq(Message)
    <2>1. txq # <<>>
        BY Zenon DEF NmacParse
    <2>2. QueueTyped' /\ loader = "pause" /\ full' = full /\ txq \in Seq(Message)
        BY ParseStep, Zenon
    <2> QED BY <1>1, <2>1, <2>2, Zenon DEF QueueTyped
<1>3. PICK m : Split(txq, m, new) /\ Stored(m, tab)
    BY <1>1, ParseStep, Zenon
<1>4. ASSUME ~full PROVE IF new = <<>> THEN tab[CfgFinish] = 3 ELSE OpensSwitch(new[Len(new)])
    <2>1. OpensSwitch(txq[Len(txq)])
        BY <1>2, <1>4 DEF EndQueued
    <2>2. Len(txq) \in Nat /\ Len(new) \in Nat /\ Len(txq) = Len(new) + 1
        BY <1>2, <1>3 DEF Split
    <2>3. CASE new = <<>>
        <3>1. m = txq[Len(txq)]
            BY <1>3, <2>2, <2>3 DEF Split
        <3>2. OpensSwitch(m)
            BY <2>1, <3>1
        <3> QED BY <1>3, <2>3, <3>2, Zenon DEF OpensSwitch, Stored
    <2>4. CASE new # <<>>
        <3>1. Len(new) \in 1 .. Len(new)
            BY <1>2, <2>2, <2>4, EmptySeq
        <3>2. new[Len(new)] = txq[Len(new) + 1]
            BY <1>3, <3>1, Zenon DEF Split
        <3> QED BY <2>1, <2>2, <2>4, <3>2
    <2> QED BY <2>3, <2>4
<1> QED BY <1>1, <1>2, <1>4 DEF EndQueued, Opened

LEMMA EndStays ==
    ASSUME EndQueued, UNCHANGED <<loader, txq, full, table>>
    PROVE  EndQueued'
BY DEF EndQueued, Opened

LEMMA EndStep ==
    ASSUME LocalManageInv, EndQueued, [Next]_vars
    PROVE  EndQueued'
<1>1. QueueInv
    BY DEF LocalManageInv
<1>2. CASE GetCfgInfo
    <2>1. ASSUME NEW f, ReadIn(f) PROVE EndQueued'
        <3>1. UNCHANGED <<loader, txq, full, table>>
            BY <2>1 DEF ReadIn
        <3> QED BY <3>1, EndStays
    <2>2. CASE EndOfFile
        BY <2>2 DEF EndOfFile, EndQueued
    <2> QED BY <1>2, <2>1, <2>2, Zenon DEF GetCfgInfo, Outside, TypeLine, EndSection, RegisterLine,
            ForwardLine, InjectLine, SubmitLine, DepthLine, GateLine, InSection
<1>3. CASE BuildForward \/ BuildGate \/ BuildRegister \/ BuildInject \/ BuildSubmit
    <2>1. ASSUME NEW this, NEW following, NEW messages, Call(this, following, messages)
          PROVE  loader' = following
        BY <2>1, Zenon DEF Call
    <2>2. \/ loader' = "build_gate_info_ge" \/ loader' = "build_register_info_ge"
          \/ loader' = "build_inject_info_ge" \/ loader' = "build_submit_info_ge"
          \/ loader' = "send_cfg_finish_pkt"
        BY <1>3, <2>1, Zenon DEF BuildForward, BuildGate, BuildRegister, BuildInject, BuildSubmit
    <2> QED BY <2>2 DEF EndQueued
<1>4. CASE SendCfgFinish
    BY <1>1, <1>4, FinishQueued
<1>5. CASE NmacParse
    BY <1>1, <1>5, ParsedEnd
<1>6. CASE UNCHANGED vars
    BY <1>6, EndStays DEF vars
<1> QED BY <1>2, <1>3, <1>4, <1>5, <1>6, Zenon DEF Next, Loader

\* The parser of the switch never reads on past its packet: no message has a count
\* of zero or one that its words do not cover, for every file of LoaderAssumption.
THEOREM ParserStaysInStep == Spec => [](~lost)
<1>1. LocalManageInv => ~lost
    BY DEF LocalManageInv, QueueInv, QueueTyped
<1> QED BY <1>1, LocalManageInvariant, PTL

\* When the messages are through, the ports are open unless one of them found the
\* transmit queue full; and then they are shut.  That they get through is left to TLC.
THEOREM OpensUnlessFull == Spec => []OpenAtTheEnd
<1>1. Init => EndQueued
    BY DEF Init, EndQueued
<1>2. LocalManageInv /\ EndQueued /\ [Next]_vars => EndQueued'
    BY EndStep
<1>3. Spec => []EndQueued
    BY <1>1, <1>2, LocalManageInvariant, PTL DEF Spec
<1>4. ASSUME LocalManageInv, EndQueued PROVE OpenAtTheEnd
    <2>1. QueueInv
        BY <1>4 DEF LocalManageInv
    <2>2. Opened => ~full
        BY <2>1, OpenedEnds
    <2> QED BY <1>4, <2>2 DEF OpenAtTheEnd, EndQueued
<1> QED BY <1>3, <1>4, LocalManageInvariant, PTL
=============================================================================
