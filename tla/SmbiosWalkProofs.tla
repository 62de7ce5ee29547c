-------------------------- MODULE SmbiosWalkProofs --------------------------
(***************************************************************************)
(* Proofs about the two walks over the SMBIOS table, for tables of any     *)
(* length and any content.                                                 *)
(***************************************************************************)
EXTENDS SmbiosWalk, FiniteSetTheorems, SequenceTheorems, WellFoundedInduction, TLAPS

(***************************************************************************)
(* Sets of numbers.                                                        *)
(***************************************************************************)
\* The natural numbers are well founded; this is what induction becomes here.
LEMMA LeastNatural ==
    ASSUME NEW T, T \subseteq Nat, T # {}
    PROVE  \E x \in T : \A y \in T : x <= y
<1>1. \E x \in T : \A y \in T : <<y, x>> \notin OpToRel(<, Nat)
    BY WFMin, NatLessThanWellFounded, Zenon
<1>2. PICK x \in T : \A y \in T : <<y, x>> \notin OpToRel(<, Nat)
    BY <1>1
<1>3. \A y \in T : ~(y < x)
    BY <1>2 DEF OpToRel
<1> QED BY <1>3

\* Min of the community modules is the least member of a set of places.
LEMMA MinIsLeast ==
    ASSUME NEW T, T \subseteq Nat, T # {}
    PROVE  Min(T) \in T /\ \A y \in T : Min(T) <= y
BY LeastNatural, Zenon DEF Min

-----------------------------------------------------------------------------
(***************************************************************************)
(* Reading the table.                                                      *)
(***************************************************************************)
LEMMA ByteRange ==
    ASSUME table \in Tables, NEW o \in Nat
    PROVE  Byte(o) \in 0..255
<1>1. table.bytes \in Seq(0..255)
    BY SmbiosAssumption
<1>2. CASE o < Len(table.bytes)
    <2>1. o + 1 \in 1..Len(table.bytes)
        BY <1>1, <1>2
    <2>2. table.bytes[o + 1] \in 0..255
        BY <1>1, <2>1, ElementOfSeq, Zenon
    <2> QED BY <1>2, <2>2, Zenon DEF Byte
<1>3. CASE ~(o < Len(table.bytes))
    BY <1>3 DEF Byte
<1> QED BY <1>2, <1>3

\* strnlen: up to the first NUL, or to the end of the table.
LEMMA StringEndFirst ==
    ASSUME end \in Nat, NEW p \in Nat
    PROVE  /\ StringEnd(p) \in Nat
           /\ \/ StringEnd(p) = end
              \/ StringEnd(p) \in p..(end - 1) /\ Byte(StringEnd(p)) = 0
           /\ \A q \in p..(StringEnd(p) - 1) : Byte(q) # 0
<1> DEFINE nulls == {q \in p..(end - 1) : Byte(q) = 0}
<1>1. CASE nulls = {}
    <2>1. StringEnd(p) = end
        BY <1>1, Zenon DEF StringEnd
    <2> QED BY <1>1, <2>1
<1>2. CASE nulls # {}
    <2>1. StringEnd(p) = Min(nulls)
        BY <1>2, Zenon DEF StringEnd
    <2>2. nulls \subseteq Nat
        OBVIOUS
    <2>3. Min(nulls) \in nulls /\ \A y \in nulls : Min(nulls) <= y
        BY <1>2, <2>2, MinIsLeast
    <2>4. Min(nulls) \in p..(end - 1) /\ Byte(Min(nulls)) = 0
        BY <2>3
    <2>5. ASSUME NEW q \in p..(Min(nulls) - 1) PROVE Byte(q) # 0
        <3>1. q \in p..(end - 1) /\ q < Min(nulls)
            BY <2>4
        <3> QED BY <2>3, <2>4, <3>1
    <2> QED BY <2>1, <2>4, <2>5
<1> QED BY <1>1, <1>2

\* Where a walk over these bytes with this limit goes from a structure, and
\* where it stops.  The operators from here on take the bytes as an argument:
\* they say the same before and after a step.
ByteOf(bytes, o) == IF o < Len(bytes) THEN bytes[o + 1] ELSE 0

Following(bytes, s, limit) ==
    LET p     == s + ByteOf(bytes, s + 1)
        nulls == {q \in p..(limit - 2) : ByteOf(bytes, q) = 0 /\ ByteOf(bytes, q + 1) = 0}
    IN  IF nulls # {} THEN Min(nulls) + 2
        ELSE IF p + 1 = limit /\ ByteOf(bytes, p - 1) = 0 /\ ByteOf(bytes, (p - 1) + 1) = 0
        THEN limit ELSE NULL

StopsAt(bytes, s, limit) ==
    \/ ~(s + 4 <= limit)
    \/ ByteOf(bytes, s + 1) < 4 \/ s + ByteOf(bytes, s + 1) > limit
    \/ ByteOf(bytes, s) = EndOfTable

\* Both functions compute the same successor, which lies further on and
\* inside the table, and they stop at the same places.
LEMMA SameSuccessor ==
    /\ smbios_next_structure(cur, Hlen) = Following(table.bytes, cur, end)
    /\ next_structure(cur, Hlen) = Following(table.bytes, cur, end)
BY Zenon DEF smbios_next_structure, next_structure, Following, Hlen, Byte, ByteOf, DoubleNul

\* StopsAt is the condition on which either loop ends at cur.
LEMMA SameStop ==
    StopsAt(table.bytes, cur, end) <=> ~HasHeader \/ MalformedHeader \/ Type = EndOfTable
BY Zenon DEF StopsAt, HasHeader, MalformedHeader, Type, Hlen, Byte, ByteOf

\* The next structure lies beyond this one and inside the table.
LEMMA SuccessorInside ==
    ASSUME table \in Tables, NEW s \in Nat, NEW limit \in Nat,
           Following(table.bytes, s, limit) # NULL
    PROVE  /\ Following(table.bytes, s, limit) \in Nat
           /\ s < Following(table.bytes, s, limit)
           /\ Following(table.bytes, s, limit) <= limit
<1> DEFINE n     == Following(table.bytes, s, limit)
           p     == s + Byte(s + 1)
           nulls == {q \in p..(limit - 2) : DoubleNul(q)}
<1>1. p \in Nat /\ p >= s
    BY ByteRange
<1>2. n = IF nulls # {} THEN Min(nulls) + 2
          ELSE IF p + 1 = limit /\ DoubleNul(p - 1) THEN limit
          ELSE NULL
    BY Zenon DEF Following, Byte, ByteOf, DoubleNul
<1> HIDE DEF n
<1>3. CASE nulls # {}
    <2>1. nulls \subseteq Nat
        BY <1>1
    <2>2. Min(nulls) \in nulls
        BY <1>3, <2>1, MinIsLeast
    <2>3. Min(nulls) \in p..(limit - 2)
        BY <2>2
    <2>4. n = Min(nulls) + 2
        BY <1>2, <1>3, Zenon
    <2> HIDE DEF nulls, p
    <2>5. n \in Nat /\ s < n /\ n <= limit
        BY <1>1, <2>3, <2>4
    <2> QED BY <2>5 DEF n
<1>4. CASE nulls = {}
    <2>1. p + 1 = limit /\ n = limit
        BY <1>2, <1>4, Zenon DEF n
    <2> HIDE DEF nulls, p
    <2>2. n \in Nat /\ s < n /\ n <= limit
        BY <1>1, <2>1
    <2> QED BY <2>2 DEF n
<1> QED BY <1>3, <1>4

-----------------------------------------------------------------------------
(***************************************************************************)
(* Strings.                                                                *)
(***************************************************************************)
\* What the loop of smbios_get_string does with the place it has got to.
PassOver(p) == IF p # NULL /\ Passable(p) THEN StringEnd(p) + 1 ELSE NULL

\* The recursive definition of StringStarts has a solution, so it can be
\* unfolded: a shortest list of starts that did not exist could be had from
\* the one before it.
LEMMA StringStartsUnfold ==
    ASSUME NEW area
    PROVE  StringStarts(area) =
              [k \in 1..255 |-> IF k = 1 THEN area ELSE PassOver(StringStarts(area)[k - 1])]
<1> DEFINE Solves(f, n) ==
               f = [k \in 1..n |-> IF k = 1 THEN area ELSE PassOver(f[k - 1])]
           unsolved == {n \in Nat : ~\E f : Solves(f, n)}
<1>1. unsolved = {}
    <2>1. SUFFICES ASSUME unsolved # {} PROVE FALSE
        OBVIOUS
    <2>2. PICK n \in unsolved : \A m \in unsolved : n <= m
        <3>1. unsolved \subseteq Nat
            OBVIOUS
        <3> QED BY <2>1, <3>1, LeastNatural, Zenon
    <2>3. n # 0
        <3>1. Solves([k \in 1..0 |-> 0], 0)
            OBVIOUS
        <3> QED BY <3>1
    <2>4. n \in Nat /\ n - 1 \in Nat /\ n - 1 \notin unsolved
        <3>1. n \in Nat
            BY Zenon
        <3>2. n - 1 \in Nat /\ ~(n <= n - 1)
            BY <2>3, <3>1
        <3> QED BY <2>2, <3>1, <3>2, Zenon
    <2>5. PICK f : Solves(f, n - 1)
        BY <2>4
    <2> DEFINE g == [k \in 1..n |-> IF k = n THEN (IF n = 1 THEN area ELSE PassOver(f[n - 1]))
                                    ELSE f[k]]
    <2>6. ASSUME NEW k \in 1..n
          PROVE  g[k] = IF k = 1 THEN area ELSE PassOver(g[k - 1])
        <3>1. CASE k = n
            <4>1. CASE n = 1
                BY <3>1, <4>1
            <4>2. CASE n # 1
                <5>1. n - 1 \in 1..n /\ n - 1 # n
                    BY <2>4, <4>2
                <5>2. g[n - 1] = f[n - 1]
                    BY <5>1
                <5> QED BY <3>1, <4>2, <5>2
            <4> QED BY <4>1, <4>2
        <3>2. CASE k # n
            <4>1. k \in 1..(n - 1)
                BY <2>4, <3>2
            <4>2. g[k] = f[k] /\ f[k] = IF k = 1 THEN area ELSE PassOver(f[k - 1])
                BY <2>5, <3>2, <4>1
            <4>3. k # 1 => k - 1 \in 1..n /\ k - 1 # n
                BY <2>4, <4>1
            <4>4. k # 1 => g[k - 1] = f[k - 1]
                BY <4>3
            <4> QED BY <4>2, <4>4
        <3> QED BY <3>1, <3>2
    <2>7. Solves(g, n)
        <3> DEFINE h == [k \in 1..n |-> IF k = 1 THEN area ELSE PassOver(g[k - 1])]
        <3>1. \A k \in 1..n : g[k] = h[k]
            BY <2>6
        <3>2. g = h
            BY <3>1
        <3> QED BY <3>2, Zenon
    <2>8. \E h : Solves(h, n)
        BY <2>7, Zenon
    <2> QED BY <2>2, <2>8, Zenon
<1>2. \E f : Solves(f, 255)
    BY <1>1
<1>3. StringStarts(area) = CHOOSE f : Solves(f, 255)
    BY Zenon DEF StringStarts, PassOver
<1>4. Solves(StringStarts(area), 255)
    BY <1>2, <1>3, Zenon
<1> QED BY <1>4

Nuls(a, b) == {q \in a..(b - 1) : Byte(q) = 0}

\* The place where string number k may start: after k - 1 NULs, the last of
\* them just before it, and after no empty string.
GoodStart(area, k, p) ==
    /\ p \in Nat /\ area <= p
    /\ p = area \/ Byte(p - 1) = 0
    /\ Cardinality(Nuls(area, p)) = k - 1
    /\ \A q \in area..(p - 2) : ~DoubleNul(q)

\* No double NUL before the end of a string that starts at such a place and
\* is not empty.
LEMMA NoDoubleNulBefore ==
    ASSUME end \in Nat, NEW area \in Nat, NEW k, NEW p \in Nat, GoodStart(area, k, p),
           StringEnd(p) > p
    PROVE  \A q \in area..(StringEnd(p) - 1) : ~DoubleNul(q)
<1>1. StringEnd(p) \in Nat /\ \A q \in p..(StringEnd(p) - 1) : Byte(q) # 0
    BY StringEndFirst
<1> SUFFICES ASSUME NEW q \in area..(StringEnd(p) - 1) PROVE ~DoubleNul(q)
    OBVIOUS
<1>2. CASE q <= p - 2
    <2>1. q \in area..(p - 2)
        BY <1>2
    <2> QED BY <2>1 DEF GoodStart
<1>3. CASE q = p - 1
    <2>1. q + 1 \in p..(StringEnd(p) - 1)
        BY <1>1, <1>3
    <2> QED BY <1>1, <2>1 DEF DoubleNul
<1>4. CASE q >= p
    <2>1. q \in p..(StringEnd(p) - 1)
        BY <1>1, <1>4
    <2> QED BY <1>1, <2>1 DEF DoubleNul
<1> QED BY <1>1, <1>2, <1>3, <1>4

\* Passing over a string counts its NUL.
LEMMA PassOverCounts ==
    ASSUME end \in Nat, NEW area \in Nat, NEW k \in Nat, NEW p, GoodStart(area, k, p),
           Passable(p)
    PROVE  GoodStart(area, k + 1, StringEnd(p) + 1)
<1> DEFINE e == StringEnd(p)
<1>0. p \in Nat /\ area <= p
    BY DEF GoodStart
<1>1. /\ e \in Nat /\ e < end /\ e > p
      /\ \A q \in p..(e - 1) : Byte(q) # 0
    BY <1>0, StringEndFirst DEF Passable
<1>2. Byte(e) = 0
    BY <1>0, <1>1, StringEndFirst
<1>3. \A q \in area..(e - 1) : ~DoubleNul(q)
    BY <1>0, <1>1, NoDoubleNulBefore
<1> HIDE DEF e
<1>4. Nuls(area, e + 1) = Nuls(area, p) \cup {e}
    <2>1. ASSUME NEW q \in area..e, Byte(q) = 0, q # e PROVE q \in area..(p - 1)
        BY <1>0, <1>1, <2>1
    <2>2. (e + 1) - 1 = e /\ e \in area..e
        BY <1>0, <1>1
    <2>3. \A q \in area..(p - 1) : q \in area..e
        BY <1>0, <1>1
    <2> QED BY <1>2, <2>1, <2>2, <2>3 DEF Nuls
<1>5. e \notin Nuls(area, p)
    BY <1>0, <1>1 DEF Nuls
<1>6. IsFiniteSet(Nuls(area, p))
    <2>1. IsFiniteSet(area..(p - 1))
        BY <1>0, FS_Interval
    <2> QED BY <2>1, FS_Subset DEF Nuls
<1>7. Cardinality(Nuls(area, e + 1)) = Cardinality(Nuls(area, p)) + 1
    BY <1>4, <1>5, <1>6, FS_AddElement
<1>8. Cardinality(Nuls(area, p)) = k - 1
    BY DEF GoodStart
<1>9. Cardinality(Nuls(area, e + 1)) = (k + 1) - 1
    BY <1>7, <1>8
<1>10. e + 1 \in Nat /\ area <= e + 1 /\ (e + 1) - 1 = e /\ (e + 1) - 2 = e - 1
    BY <1>0, <1>1
<1>11. Byte((e + 1) - 1) = 0
    BY <1>2, <1>10, Zenon
<1>12. \A q \in area..((e + 1) - 2) : ~DoubleNul(q)
    BY <1>3, <1>10
<1>13. GoodStart(area, k + 1, e + 1)
    BY <1>9, <1>10, <1>11, <1>12, Zenon DEF GoodStart
<1> QED BY <1>13 DEF e

\* The formatted area is followed by string number 1.
LEMMA FirstStart ==
    ASSUME NEW area \in Nat
    PROVE  GoodStart(area, 1, area)
<1>1. area..(area - 1) = {} /\ area..(area - 2) = {}
    OBVIOUS
<1>2. Nuls(area, area) = {}
    BY <1>1 DEF Nuls
<1>3. Cardinality(Nuls(area, area)) = 1 - 1
    BY <1>2, FS_EmptySet
<1> QED BY <1>1, <1>3 DEF GoodStart

\* By induction, every start the loop gets to is the start of the string with
\* that number.
LEMMA StartsAreGood ==
    ASSUME end \in Nat, NEW area \in Nat, NEW k \in 1..255,
           StringStarts(area)[k] # NULL
    PROVE  GoodStart(area, k, StringStarts(area)[k])
<1> DEFINE from == StringStarts(area)
           bad  == {j \in 1..255 : from[j] # NULL /\ ~GoodStart(area, j, from[j])}
<1>1. \A j \in 1..255 : from[j] = IF j = 1 THEN area ELSE PassOver(from[j - 1])
    BY StringStartsUnfold
<1> HIDE DEF from
<1>2. ASSUME bad # {} PROVE FALSE
    <2>1. bad \subseteq Nat
        OBVIOUS
    <2>2. PICK j \in bad : \A i \in bad : j <= i
        BY <1>2, <2>1, LeastNatural, Zenon
    <2>3. j \in 1..255 /\ from[j] # NULL /\ ~GoodStart(area, j, from[j])
        BY <2>2
    <2>4. CASE j = 1
        BY <1>1, <2>3, <2>4, FirstStart
    <2>5. CASE j # 1
        <3>1. j - 1 \in 1..255 /\ j - 1 \in Nat /\ (j - 1) + 1 = j /\ ~(j <= j - 1)
            BY <2>3, <2>5
        <3>2. from[j] = PassOver(from[j - 1])
            BY <1>1, <2>3, <2>5, Zenon
        <3>3. /\ from[j - 1] # NULL /\ Passable(from[j - 1])
              /\ from[j] = StringEnd(from[j - 1]) + 1
            BY <2>3, <3>2, Zenon DEF PassOver
        <3>4. GoodStart(area, j - 1, from[j - 1])
            BY <2>2, <3>1, <3>3, Zenon
        <3>5. GoodStart(area, (j - 1) + 1, from[j])
            BY <3>1, <3>3, <3>4, PassOverCounts
        <3> QED BY <2>3, <3>1, <3>5, Zenon
    <2> QED BY <2>4, <2>5
<1>3. from[k] # NULL
    BY DEF from
<1>4. GoodStart(area, k, from[k])
    BY <1>2, <1>3, Zenon
<1> QED BY <1>4 DEF from

\* What StringsAreOwn asks of the string alone.
OwnString(bytes, s) ==
    LET area == s.struct + ByteOf(bytes, s.struct + 1) IN
    /\ area <= s.from /\ s.from < s.to
    /\ Cardinality({q \in area..(s.from - 1) : ByteOf(bytes, q) = 0}) = s.index - 1
    /\ \A q \in s.from..(s.to - 1) : ByteOf(bytes, q) # 0

StringType == [struct : Int, index : Nat, from : Nat, to : Nat]

\* A string that is copied is the one its number asks for, fits the field
\* and ends before the next structure.
LEMMA CopiedString ==
    ASSUME end \in Nat, table \in Tables, NEW s \in Nat, NEW index \in 0..255,
           NEW t, t = copy_string_field(s, Byte(s + 1), index), t # NoString
    PROVE  /\ t \in StringType /\ t.struct = s /\ OwnString(table.bytes, t)
           /\ t.to - t.from < SMBIOS_STR_MAX
           /\ Following(table.bytes, s, end) # NULL => t.to < Following(table.bytes, s, end)
<1> DEFINE area == s + Byte(s + 1)
           p    == smbios_get_string(s, Byte(s + 1), index)
           e    == StringEnd(p)
           len  == Min({e - p, SMBIOS_STR_MAX - 1})
<1>0. area \in Nat /\ area >= s
    BY ByteRange
<1>1. p # NULL /\ t = [struct |-> s, index |-> index, from |-> p, to |-> p + len]
    BY Zenon DEF copy_string_field
<1>2. /\ index # 0 /\ StringStarts(area)[index] # NULL
      /\ p = StringStarts(area)[index] /\ Passable(p)
    BY <1>1, Zenon DEF smbios_get_string
<1>3. index \in 1..255 /\ index \in Nat
    BY <1>2
<1> HIDE DEF p
<1>4. GoodStart(area, index, p)
    BY <1>0, <1>2, <1>3, StartsAreGood
<1>5. p \in Nat /\ area <= p /\ Cardinality(Nuls(area, p)) = index - 1
    BY <1>4 DEF GoodStart
<1>6. /\ e \in Nat /\ e < end /\ e > p
      /\ \A q \in p..(e - 1) : Byte(q) # 0
    BY <1>2, <1>5, StringEndFirst DEF Passable
<1>7. \A q \in area..(e - 1) : ~DoubleNul(q)
    BY <1>0, <1>4, <1>5, <1>6, NoDoubleNulBefore
<1> HIDE DEF e
<1>8. len \in Nat /\ 0 < len /\ len <= e - p /\ len <= SMBIOS_STR_MAX - 1
    <2>1. e - p \in Nat /\ SMBIOS_STR_MAX - 1 \in Nat /\ e - p > 0 /\ SMBIOS_STR_MAX - 1 > 0
        BY <1>5, <1>6, SmbiosAssumption
    <2>2. {e - p, SMBIOS_STR_MAX - 1} \subseteq Nat /\ {e - p, SMBIOS_STR_MAX - 1} # {}
        BY <2>1
    <2>3. /\ len \in {e - p, SMBIOS_STR_MAX - 1}
          /\ \A y \in {e - p, SMBIOS_STR_MAX - 1} : len <= y
        BY <2>2, MinIsLeast
    <2> HIDE DEF len
    <2> QED BY <2>1, <2>3
<1> HIDE DEF len
<1>9. t.struct = s /\ t.index = index /\ t.from = p /\ t.to = p + len
    BY <1>1
<1>10. t \in StringType
    BY <1>1, <1>3, <1>5, <1>8 DEF StringType
<1>11. OwnString(table.bytes, t)
    <2>1. p < p + len /\ \A q \in p..((p + len) - 1) : q \in p..(e - 1)
        BY <1>5, <1>6, <1>8
    <2>2. \A q \in p..((p + len) - 1) : Byte(q) # 0
        BY <1>6, <2>1
    <2> QED BY <1>5, <1>9, <2>1, <2>2, Zenon DEF OwnString, Nuls, Byte, ByteOf
<1>12. t.to - t.from < SMBIOS_STR_MAX
    BY <1>5, <1>8, <1>9, SmbiosAssumption
<1>13. ASSUME Following(table.bytes, s, end) # NULL PROVE t.to < Following(table.bytes, s, end)
    <2> DEFINE nulls == {q \in area..(end - 2) : DoubleNul(q)}
    <2>1. Following(table.bytes, s, end) =
              IF nulls # {} THEN Min(nulls) + 2
              ELSE IF area + 1 = end /\ DoubleNul(area - 1) THEN end
              ELSE NULL
        BY Zenon DEF Following, Byte, ByteOf, DoubleNul
    <2>2. t.to <= e /\ t.to \in Nat
        BY <1>5, <1>6, <1>8, <1>9
    <2>3. CASE nulls # {}
        <3>1. nulls \subseteq Nat
            BY <1>0
        <3>2. Min(nulls) \in nulls
            BY <2>3, <3>1, MinIsLeast
        <3>3. Min(nulls) \in area..(end - 2) /\ DoubleNul(Min(nulls))
            BY <3>2
        <3>4. Min(nulls) \notin area..(e - 1)
            BY <1>7, <3>3, Zenon
        <3>5. Following(table.bytes, s, end) = Min(nulls) + 2
            BY <2>1, <2>3, Zenon
        <3> HIDE DEF nulls, area
        <3> QED BY <1>0, <1>6, <2>2, <3>3, <3>4, <3>5
    <2>4. CASE nulls = {}
        <3>1. Following(table.bytes, s, end) = end
            BY <1>13, <2>1, <2>4, Zenon
        <3> QED BY <1>6, <2>2, <3>1
    <2> QED BY <2>3, <2>4
<1> QED BY <1>9, <1>10, <1>11, <1>12, <1>13

-----------------------------------------------------------------------------
(***************************************************************************)
(* The chain of structures.                                                *)
(***************************************************************************)
\* The structures smbios_collect has seen when it is at place c.
Prefix(bytes, seen, c, limit) ==
    /\ seen = {} => c = 0
    /\ seen # {} => 0 \in seen
    /\ \A v \in seen :
          /\ v \in Nat /\ v <= c /\ ~StopsAt(bytes, v, limit)
          /\ v < c => /\ Following(bytes, v, limit) \in seen \cup {c}
                      /\ Following(bytes, v, limit) # NULL

\* A place at which the walk stops, beyond all structures.
Final(bytes, seen, c, limit) == StopsAt(bytes, c, limit) /\ \A w \in seen : w <= c

\* The structures it has seen when it has finished.
Complete(bytes, seen, limit) ==
    /\ seen = {} => StopsAt(bytes, 0, limit)
    /\ seen # {} => 0 \in seen
    /\ \A v \in seen :
          /\ v \in Nat /\ ~StopsAt(bytes, v, limit)
          /\ \/ Following(bytes, v, limit) \in seen \cup {NULL}
             \/ Final(bytes, seen, Following(bytes, v, limit), limit)
    /\ \A v, w \in seen : v < w => Following(bytes, v, limit) # NULL

\* Where memory_info_collect can be in such a chain.
Along(bytes, seen, c, limit) == c \in seen \/ Final(bytes, seen, c, limit)

\* The first walk parses the structure it is at ...
LEMMA PrefixExtend ==
    ASSUME NEW b, NEW seen, NEW c \in Nat, NEW limit, Prefix(b, seen, c, limit),
           ~StopsAt(b, c, limit)
    PROVE  Prefix(b, seen \cup {c}, c, limit)
BY DEF Prefix

\* ... and moves on to the next one, which it has not seen yet.
LEMMA PrefixMove ==
    ASSUME NEW b, NEW seen, NEW c \in Nat, NEW limit, Prefix(b, seen, c, limit),
           c \in seen, NEW n \in Nat, n = Following(b, c, limit), c < n
    PROVE  Prefix(b, seen, n, limit) /\ n \notin seen
<1>1. n # NULL
    BY DEF NULL
<1>2. \A v \in seen : v \in Nat /\ v <= c /\ v < n
    BY DEF Prefix
<1>3. \A v \in seen : v = c \/ v < c
    BY <1>2
<1> QED BY <1>1, <1>2, <1>3 DEF Prefix

\* When it stops at a place, it has seen the whole chain;
LEMMA PrefixStops ==
    ASSUME NEW b, NEW seen, NEW c \in Nat, NEW limit, Prefix(b, seen, c, limit),
           StopsAt(b, c, limit)
    PROVE  Complete(b, seen, limit)
<1>1. c \notin seen
    BY DEF Prefix
<1>2. \A v \in seen : v \in Nat /\ v < c /\ v <= c
    BY <1>1 DEF Prefix
<1>3. Final(b, seen, c, limit)
    BY <1>2 DEF Final
<1> QED BY <1>1, <1>2, <1>3 DEF Prefix, Complete

\* so it has when there is no next structure.
LEMMA PrefixEnds ==
    ASSUME NEW b, NEW seen, NEW c \in Nat, NEW limit, Prefix(b, seen, c, limit),
           c \in seen, Following(b, c, limit) = NULL
    PROVE  Complete(b, seen, limit)
<1>1. \A v \in seen : v \in Nat /\ v <= c /\ (v = c \/ v < c)
    BY DEF Prefix
<1>2. \A v, w \in seen : v < w => v < c
    BY <1>1
<1> QED BY <1>1, <1>2 DEF Prefix, Complete

\* The second walk starts on the chain the first one has seen ...
LEMMA AlongStart ==
    ASSUME NEW b, NEW seen, NEW limit, Complete(b, seen, limit)
    PROVE  Along(b, seen, 0, limit)
BY DEF Complete, Along, Final

\* ... and stays on it.
LEMMA AlongMove ==
    ASSUME NEW b, NEW seen, NEW c, NEW limit, Complete(b, seen, limit), c \in seen,
           Following(b, c, limit) # NULL
    PROVE  Along(b, seen, Following(b, c, limit), limit)
BY DEF Complete, Along

\* Wherever the second walk stops, there is no structure left.
LEMMA AlongStops ==
    ASSUME NEW b, NEW seen, NEW c \in Nat, NEW limit, Complete(b, seen, limit),
           Along(b, seen, c, limit),
           StopsAt(b, c, limit) \/ Following(b, c, limit) = NULL
    PROVE  \A v \in seen : v <= c
<1>1. CASE Final(b, seen, c, limit)
    BY <1>1 DEF Final
<1>2. CASE c \in seen
    <2>1. Following(b, c, limit) = NULL
        BY <1>2 DEF Complete
    <2>2. \A v \in seen : ~(c < v) /\ v \in Nat
        BY <1>2, <2>1 DEF Complete
    <2> QED BY <2>2
<1> QED BY <1>1, <1>2 DEF Along

-----------------------------------------------------------------------------
(***************************************************************************)
(* The inductive invariant.                                                *)
(***************************************************************************)
InWalk == {"walk", "advance", "free"}
Fresh  == {"status", "probe", "alloc", "fetch", "size", "unavailable"}

Places ==
    /\ walker \in Walkers \cup {"done"}
    /\ pc \in Fresh \cup InWalk \cup {"done"}
    /\ walker = "done" <=> pc = "done"
    /\ result \in [Walkers -> {"none", "true", "false"}]

\* The block exists from its allocation to the end of the walk.
Heap ==
    /\ badFree = FALSE
    /\ raw \in BOOLEAN
    /\ raw <=> pc \in {"fetch", "size"} \cup InWalk

Limit(t, size) ==
    IF t.length > size - HeaderSize THEN size - HeaderSize ELSE t.length

\* The limit of a walk, and what was read up to it.
Limits ==
    /\ table \in Tables /\ needed \in Nat /\ rawSize \in Nat
    /\ cur \in Nat /\ end \in Nat /\ readTo \in Nat /\ readTo <= end
    /\ pc \in {"alloc", "fetch"} => needed > 0
    /\ pc \in {"status", "probe", "alloc", "fetch"} => rawSize = 0
    /\ pc \in Fresh => cur = 0 /\ end = 0
    /\ pc = "unavailable" => rawSize < HeaderSize
    /\ pc \in InWalk => rawSize >= HeaderSize /\ end = Limit(table, rawSize)
    /\ end + HeaderSize <= Later(rawSize, HeaderSize)
    /\ pc = "advance" => ~StopsAt(table.bytes, cur, end)

\* The first walk.
Visited ==
    /\ walker = "smbios" =>
          IF pc \in InWalk THEN Prefix(table.bytes, visited, cur, end)
          ELSE visited = {}
    /\ walker = "smbios" /\ pc = "walk" => cur \notin visited
    /\ walker = "smbios" /\ pc = "advance" => cur \in visited
    /\ walker = "smbios" /\ pc = "free" => Complete(table.bytes, visited, end)
    /\ walker # "smbios" =>
          /\ smbiosSize \in Nat
          /\ smbiosSize >= HeaderSize =>
                Complete(table.bytes, visited, Limit(table, smbiosSize))

\* The second walk.
Regions ==
    /\ mem \in [available : BOOLEAN, regions : Seq(Nat)]
    /\ Len(mem.regions) <= MEMORY_MAX_REGIONS
    /\ walker = "smbios" \/ pc \in Fresh => mem.regions = <<>>
    /\ walker = "memory" /\ pc \in InWalk /\ rawSize = smbiosSize =>
          /\ Along(table.bytes, visited, cur, end)
          /\ \A k \in DOMAIN mem.regions : mem.regions[k] \in visited
          /\ pc = "free" /\ Len(mem.regions) < MEMORY_MAX_REGIONS =>
                \A v \in visited : v <= cur

InfoType(kind) ==
    [available : BOOLEAN, at : Int, strings : [StringFields[kind] -> StringType]]
DeviceType ==
    [at : Nat, populated : BOOLEAN, strings : [StringFields["memory_device"] -> StringType]]

OutType ==
    [bios : InfoType("bios"), system : InfoType("system"),
     baseboard : InfoType("baseboard"), chassis : InfoType("chassis"),
     memory_devices : Seq(DeviceType), structures_parsed : Nat,
     structures_malformed_skipped : Nat, available : BOOLEAN]

Out == out \in OutType /\ Len(out.memory_devices) <= SMBIOS_MAX_MEMORY_DEVICES

\* The strings in the report; those of a structure end before the next one.
OwnStrings ==
    \A s \in Reported \ {NoString} :
       /\ OwnString(table.bytes, s) /\ s.to - s.from < SMBIOS_STR_MAX
       /\ s \in StringType /\ s.struct \in visited
       /\ \A v \in visited : v > s.struct => s.to < v
       /\ walker = "smbios" /\ pc = "walk" => s.to < cur
       /\ walker = "smbios" /\ pc = "advance" =>
             IF s.struct = cur
             THEN Following(table.bytes, cur, end) # NULL =>
                     s.to < Following(table.bytes, cur, end)
             ELSE s.to < cur

SmbiosInv == Places /\ Heap /\ Limits /\ Visited /\ Regions /\ Out /\ OwnStrings

-----------------------------------------------------------------------------
(***************************************************************************)
(* Places, block and limits.                                               *)
(***************************************************************************)
LEMMA PlacesStep ==
    ASSUME Places, Heap, [Next]_vars
    PROVE  Places' /\ Heap'
<1> USE DEF Places, Heap, Goto, FreeRaw, InWalk, Fresh, Walkers, fetchVars, outVars
<1>1. CASE Probe
    BY <1>1 DEF Probe
<1>2. CASE Alloc
    <2>1. /\ pc = "alloc" /\ UNCHANGED <<walker, result, badFree>>
          /\ \/ raw' = TRUE /\ pc' = "fetch"
             \/ UNCHANGED raw /\ pc' = "unavailable"
        BY <1>2, Zenon DEF Alloc
    <2>2. raw = FALSE
        BY <2>1
    <2>3. \/ raw' = TRUE /\ pc' = "fetch"
          \/ raw' = FALSE /\ pc' = "unavailable"
        BY <2>1, <2>2, Zenon
    <2> QED BY <2>1, <2>3
<1>3. CASE Fetch
    <2>1. /\ pc = "fetch" /\ UNCHANGED <<walker, result>>
          /\ \/ raw' = FALSE /\ badFree' = (badFree \/ ~raw) /\ pc' = "unavailable"
             \/ pc' = "size" /\ UNCHANGED <<raw, badFree>>
        BY <1>3, Zenon DEF Fetch
    <2> QED BY <2>1
<1>4. CASE CheckSize
    <2>1. /\ pc = "size" /\ UNCHANGED <<walker, result>>
          /\ \/ raw' = FALSE /\ badFree' = (badFree \/ ~raw) /\ pc' = "unavailable"
             \/ pc' = "walk" /\ UNCHANGED <<raw, badFree>>
        BY <1>4, Zenon DEF CheckSize
    <2> QED BY <2>1
<1>5. CASE WalkStructure
    <2>1. /\ pc = "walk" /\ pc' \in {"free", "advance"}
          /\ UNCHANGED <<walker, result, raw, badFree>>
        BY <1>5, Zenon DEF WalkStructure
    <2> QED BY <2>1
<1>6. CASE AdvanceSmbios
    <2>1. /\ pc = "advance" /\ pc' \in {"free", "walk"}
          /\ UNCHANGED <<walker, result, raw, badFree>>
        BY <1>6, Zenon DEF AdvanceSmbios
    <2> QED BY <2>1
<1>7. CASE SmbiosReturns
    <2>1. /\ pc \in {"free", "unavailable"} /\ walker' = "memory" /\ pc' = "status"
          /\ \/ pc = "free" /\ raw' = FALSE /\ badFree' = (badFree \/ ~raw)
             \/ pc # "free" /\ UNCHANGED <<raw, badFree>>
          /\ result' = [result EXCEPT !["smbios"] = IF pc = "free" THEN "true" ELSE "false"]
        BY <1>7, Zenon DEF SmbiosReturns
    <2>2. result' \in [Walkers -> {"none", "true", "false"}]
        BY <2>1
    <2>3. raw = TRUE \/ pc # "free"
        BY <2>1
    <2>4. badFree' = FALSE /\ raw' = FALSE
        BY <2>1, <2>3
    <2> QED BY <2>1, <2>2, <2>4
<1>8. CASE MemoryStatus
    BY <1>8 DEF MemoryStatus
<1>9. CASE WalkRegion
    <2>1. /\ pc = "walk" /\ pc' \in {"free", "advance"}
          /\ UNCHANGED <<walker, result, raw, badFree>>
        BY <1>9, Zenon DEF WalkRegion
    <2> QED BY <2>1
<1>10. CASE AdvanceMemory
    <2>1. /\ pc = "advance" /\ pc' \in {"free", "walk"}
          /\ UNCHANGED <<walker, result, raw, badFree>>
        BY <1>10, Zenon DEF AdvanceMemory
    <2> QED BY <2>1
<1>11. CASE MemoryReturns
    <2>1. /\ pc \in {"free", "unavailable"} /\ walker' = "done" /\ pc' = "done"
          /\ \/ pc = "free" /\ raw' = FALSE /\ badFree' = (badFree \/ ~raw)
             \/ pc # "free" /\ UNCHANGED <<raw, badFree>>
          /\ \E r \in {"true", "false"} : result' = [result EXCEPT !["memory"] = r]
        BY <1>11, Zenon DEF MemoryReturns
    <2>2. result' \in [Walkers -> {"none", "true", "false"}]
        BY <2>1
    <2>3. raw = TRUE \/ pc # "free"
        BY <2>1
    <2>4. badFree' = FALSE /\ raw' = FALSE
        BY <2>1, <2>3
    <2> QED BY <2>1, <2>2, <2>4
<1>12. CASE UNCHANGED vars
    BY <1>12 DEF vars
<1> QED BY <1>1, <1>2, <1>3, <1>4, <1>5, <1>6, <1>7, <1>8, <1>9, <1>10, <1>11, <1>12
        DEF Next

\* One step of the first walk: it stops at cur, or parses a structure there.
LEMMA WalkStep ==
    ASSUME WalkStructure
    PROVE  /\ walker = "smbios" /\ pc = "walk"
           /\ UNCHANGED <<walker, table, needed, rawSize, cur, end, mem, smbiosSize>>
           /\ \/ /\ pc' = "free" /\ StopsAt(table.bytes, cur, end) /\ UNCHANGED visited
                 /\ \/ UNCHANGED readTo
                    \/ HasHeader /\ readTo' = Later(readTo, cur + 2)
              \/ /\ pc' = "advance" /\ ~StopsAt(table.bytes, cur, end)
                 /\ visited' = visited \cup {cur}
                 /\ \/ readTo' = Later(readTo, cur + 2)
                    \/ readTo' = Later(readTo, cur + Hlen)
                    \/ readTo' = Later(readTo, end)
BY SameStop, Zenon DEF WalkStructure, Goto, ReadUpTo, fetchVars

\* One step of the second walk, in the same form.
LEMMA RegionStep ==
    ASSUME WalkRegion
    PROVE  /\ walker = "memory" /\ pc = "walk"
           /\ UNCHANGED <<walker, table, needed, rawSize, cur, end, out, visited, smbiosSize>>
           /\ \/ /\ pc' = "free" /\ UNCHANGED mem
                 /\ \/ StopsAt(table.bytes, cur, end)
                    \/ Len(mem.regions) >= MEMORY_MAX_REGIONS
                 /\ \/ UNCHANGED readTo
                    \/ HasHeader /\ readTo' = Later(readTo, cur + 2)
              \/ /\ pc' = "advance" /\ ~StopsAt(table.bytes, cur, end)
                 /\ ~(Len(mem.regions) >= MEMORY_MAX_REGIONS)
                 /\ \/ UNCHANGED mem
                    \/ mem' = [mem EXCEPT !.regions = Append(@, cur)]
                 /\ readTo' = Later(readTo, cur + Hlen)
BY SameStop, Zenon DEF WalkRegion, Goto, ReadUpTo, fetchVars, history

\* The rest of the loop is the same in both.
LEMMA AdvanceStep ==
    ASSUME AdvanceSmbios \/ AdvanceMemory, Limits
    PROVE  /\ pc = "advance"
           /\ UNCHANGED <<walker, table, needed, rawSize, end, mem, visited, smbiosSize>>
           /\ \/ /\ Following(table.bytes, cur, end) = NULL
                 /\ pc' = "free" /\ UNCHANGED cur /\ readTo' = Later(readTo, end)
              \/ /\ cur' = Following(table.bytes, cur, end) /\ cur' # NULL
                 /\ cur' \in Nat /\ cur < cur' /\ cur' <= end
                 /\ pc' = "walk" /\ readTo' = Later(readTo, cur')
<1> DEFINE n == Following(table.bytes, cur, end)
<1>1. smbios_next_structure(cur, Hlen) = n /\ next_structure(cur, Hlen) = n
    BY SameSuccessor
<1>2. n # NULL => n \in Nat /\ cur < n /\ n <= end
    BY SuccessorInside DEF Limits
<1> HIDE DEF n
<1>3. n # NULL => ~(n <= cur)
    BY <1>2 DEF Limits
<1>4. /\ pc = "advance"
      /\ UNCHANGED <<walker, table, needed, rawSize, end, mem, visited, smbiosSize>>
      /\ IF n = NULL \/ n <= cur
         THEN pc' = "free" /\ UNCHANGED cur /\ readTo' = Later(readTo, end)
         ELSE pc' = "walk" /\ cur' = n /\ readTo' = Later(readTo, n)
    BY <1>1, Zenon DEF AdvanceSmbios, AdvanceMemory, Goto, ReadUpTo, fetchVars, outVars, history
<1> QED BY <1>2, <1>3, <1>4, Zenon DEF n

\* A structure that is not malformed lies inside the table.
LEMMA InsideStructure ==
    ASSUME Limits
    PROVE  /\ Hlen \in 0..255
           /\ HasHeader => cur + 2 <= end
           /\ ~StopsAt(table.bytes, cur, end) => cur + 2 <= end /\ cur + Hlen <= end
<1>1. Hlen \in 0..255
    BY ByteRange DEF Limits, Hlen
<1>2. ~StopsAt(table.bytes, cur, end) => HasHeader /\ ~(cur + Hlen > end)
    BY SameStop, Zenon DEF MalformedHeader
<1> QED BY <1>1, <1>2 DEF Limits, HasHeader

\* No step moves a walk or what it reads past the end it computed from the
\* size delivered.
LEMMA LimitsStep ==
    ASSUME Places, Limits, [Next]_vars
    PROVE  Limits'
<1> USE DEF HeaderSize
<1>0. Len(table.bytes) \in Nat /\ table.length \in Nat
    BY SmbiosAssumption DEF Limits
<1>a. ASSUME NEW r \in Nat, r <= end, readTo' = Later(readTo, r)
      PROVE  readTo' \in Nat /\ readTo' <= end
    BY <1>a DEF Later, Limits
<1>1. CASE Probe
    <2>1. /\ pc = "probe" /\ UNCHANGED <<table, rawSize, cur, end, readTo>>
          /\ needed' \in {0, HeaderSize - 1, HeaderSize + Len(table.bytes)}
          /\ pc' = IF needed' = 0 THEN "unavailable" ELSE "alloc"
        BY <1>1, Zenon DEF Probe, Goto, walkVars
    <2>2. needed' \in Nat
        BY <1>0, <2>1
    <2> QED BY <2>1, <2>2 DEF Limits, Fresh, InWalk
<1>2. CASE Alloc
    <2>1. /\ pc = "alloc" /\ pc' \in {"fetch", "unavailable"}
          /\ UNCHANGED <<table, needed, rawSize, cur, end, readTo>>
        BY <1>2, Zenon DEF Alloc, Goto, walkVars
    <2> QED BY <2>1 DEF Limits, Fresh, InWalk
<1>3. CASE Fetch
    <2>1. /\ pc = "fetch" /\ UNCHANGED <<table, needed, cur, end, readTo>>
          /\ \E written \in {0, needed - 1, needed, needed + 1} :
                IF written = 0 \/ written > needed
                THEN pc' = "unavailable" /\ UNCHANGED rawSize
                ELSE rawSize' = written /\ pc' = "size"
        BY <1>3, Zenon DEF Fetch, Goto, walkVars
    <2>2. CASE pc' = "unavailable" /\ UNCHANGED rawSize
        BY <2>1, <2>2 DEF Limits, Fresh, InWalk
    <2>3. CASE pc' = "size" /\ rawSize' \in {needed - 1, needed, needed + 1}
        <3>1. rawSize' \in Nat /\ end = 0
            BY <2>1, <2>3 DEF Limits, Fresh
        <3>2. 0 + HeaderSize <= Later(rawSize', HeaderSize)
            BY <3>1 DEF Later
        <3> QED BY <2>1, <2>3, <3>1, <3>2 DEF Limits, Fresh, InWalk
    <2> QED BY <2>1, <2>2, <2>3
<1>4. CASE CheckSize
    <2>1. /\ pc = "size" /\ UNCHANGED <<table, needed, rawSize, readTo>>
          /\ IF rawSize < HeaderSize
             THEN pc' = "unavailable" /\ UNCHANGED <<cur, end>>
             ELSE pc' = "walk" /\ cur' = 0 /\ end' = TableLength
        BY <1>4, Zenon DEF CheckSize, Goto
    <2>2. CASE rawSize < HeaderSize
        BY <2>1, <2>2 DEF Limits, Fresh, InWalk
    <2>3. CASE ~(rawSize < HeaderSize)
        <3>1. end' = Limit(table, rawSize)
            BY <2>1, <2>3 DEF TableLength, Limit
        <3>2. end' \in Nat /\ end' + HeaderSize <= Later(rawSize, HeaderSize)
            BY <1>0, <2>3, <3>1 DEF Limits, Limit, Later
        <3>3. rawSize >= HeaderSize /\ readTo' = 0 /\ readTo' <= end'
            BY <2>1, <2>3, <3>2 DEF Limits, Fresh
        <3> QED BY <2>1, <2>3, <3>1, <3>2, <3>3 DEF Limits, Fresh, InWalk
    <2> QED BY <2>2, <2>3
<1>5. CASE WalkStructure
    <2>1. /\ pc = "walk" /\ UNCHANGED <<table, needed, rawSize, cur, end>>
          /\ \/ pc' = "free" /\ UNCHANGED readTo
             \/ pc' = "free" /\ HasHeader /\ readTo' = Later(readTo, cur + 2)
             \/ /\ pc' = "advance" /\ ~StopsAt(table.bytes, cur, end)
                /\ \/ readTo' = Later(readTo, cur + 2)
                   \/ readTo' = Later(readTo, cur + Hlen)
                   \/ readTo' = Later(readTo, end)
        BY <1>5, WalkStep, Zenon
    <2>2. readTo' \in Nat /\ readTo' <= end
        BY <1>a, <2>1, InsideStructure DEF Limits
    <2> QED BY <2>1, <2>2 DEF Limits, Fresh, InWalk
<1>6. CASE WalkRegion
    <2>1. /\ pc = "walk" /\ UNCHANGED <<table, needed, rawSize, cur, end>>
          /\ \/ pc' = "free" /\ UNCHANGED readTo
             \/ pc' = "free" /\ HasHeader /\ readTo' = Later(readTo, cur + 2)
             \/ /\ pc' = "advance" /\ ~StopsAt(table.bytes, cur, end)
                /\ readTo' = Later(readTo, cur + Hlen)
        BY <1>6, RegionStep, Zenon
    <2>2. readTo' \in Nat /\ readTo' <= end
        BY <1>a, <2>1, InsideStructure DEF Limits
    <2> QED BY <2>1, <2>2 DEF Limits, Fresh, InWalk
<1>7. CASE AdvanceSmbios \/ AdvanceMemory
    <2>1. /\ pc = "advance" /\ UNCHANGED <<table, needed, rawSize, end>>
          /\ \/ pc' = "free" /\ UNCHANGED cur /\ readTo' = Later(readTo, end)
             \/ cur' \in Nat /\ cur' <= end /\ pc' = "walk" /\ readTo' = Later(readTo, cur')
        BY <1>7, AdvanceStep, Zenon
    <2>2. readTo' \in Nat /\ readTo' <= end /\ cur' \in Nat
        BY <1>a, <2>1 DEF Limits
    <2> QED BY <2>1, <2>2 DEF Limits, Fresh, InWalk
<1>8. CASE SmbiosReturns
    <2>1. /\ pc' = "status" /\ rawSize' = 0 /\ cur' = 0 /\ end' = 0 /\ readTo' = 0
          /\ UNCHANGED <<table, needed>>
        BY <1>8, Zenon DEF SmbiosReturns, Goto
    <2> QED BY <2>1 DEF Limits, Fresh, InWalk, Later
<1>9. CASE MemoryStatus
    <2>1. /\ pc = "status" /\ pc' = "probe"
          /\ UNCHANGED <<table, needed, rawSize, cur, end, readTo>>
        BY <1>9, Zenon DEF MemoryStatus, Goto, fetchVars, walkVars
    <2> QED BY <2>1 DEF Limits, Fresh, InWalk
<1>10. CASE MemoryReturns
    <2>1. pc' = "done" /\ UNCHANGED <<table, needed, rawSize, cur, end, readTo>>
        BY <1>10, Zenon DEF MemoryReturns, Goto, walkVars
    <2> QED BY <2>1 DEF Limits, Fresh, InWalk
<1>11. CASE UNCHANGED vars
    BY <1>11 DEF vars, Limits
<1> QED BY <1>1, <1>2, <1>3, <1>4, <1>5, <1>6, <1>7, <1>8, <1>9, <1>10, <1>11 DEF Next

-----------------------------------------------------------------------------
(***************************************************************************)
(* The two walks.                                                          *)
(***************************************************************************)
\* Steps before and after a walk.
Elsewhere == Probe \/ Alloc \/ Fetch \/ MemoryStatus \/ MemoryReturns

\* They leave table, report and history alone.
LEMMA ElsewhereStep ==
    ASSUME Elsewhere
    PROVE  /\ UNCHANGED <<table, out, visited, smbiosSize>>
           /\ \/ pc \in Fresh /\ pc' \in Fresh /\ UNCHANGED <<walker, mem>>
              \/ /\ walker = "memory" /\ pc = "status" /\ pc' = "probe" /\ UNCHANGED walker
                 /\ \E ok \in BOOLEAN : mem' = [mem EXCEPT !.available = ok]
              \/ /\ walker = "memory" /\ walker' = "done" /\ pc' = "done" /\ UNCHANGED mem
BY DEF Elsewhere, Probe, Alloc, Fetch, MemoryStatus, MemoryReturns, Goto, fetchVars, outVars,
       history, Fresh

\* The size check starts a walk at 0 or ends it.
LEMMA CheckSizeStep ==
    ASSUME CheckSize
    PROVE  /\ UNCHANGED <<walker, table, rawSize, out, mem, visited, smbiosSize>>
           /\ pc = "size"
           /\ \/ pc' = "unavailable"
              \/ pc' = "walk" /\ cur' = 0
BY Zenon DEF CheckSize, Goto, outVars, history

\* The end of smbios_collect keeps what it has seen and the size it was given.
LEMMA SmbiosReturnsStep ==
    ASSUME SmbiosReturns
    PROVE  /\ walker = "smbios" /\ walker' = "memory" /\ pc' = "status"
           /\ pc \in {"free", "unavailable"}
           /\ smbiosSize' = rawSize /\ UNCHANGED <<table, mem, visited>>
           /\ \/ UNCHANGED out
              \/ out' = [out EXCEPT !.available = out.structures_parsed > 0]
BY Zenon DEF SmbiosReturns, Goto

\* The first walk goes along the chain, and has seen all of it at its end.
LEMMA VisitedStep ==
    ASSUME Places, Limits, Visited, [Next]_vars
    PROVE  Visited'
<1> DEFINE b == table.bytes
<1>1. CASE Elsewhere
    <2>1. /\ UNCHANGED <<table, visited, smbiosSize>>
          /\ \/ pc \in Fresh /\ pc' \in Fresh /\ UNCHANGED walker
             \/ walker = "memory" /\ walker' # "smbios"
        BY <1>1, ElsewhereStep
    <2> QED BY <2>1 DEF Visited, Fresh, InWalk
<1>2. CASE CheckSize
    <2>1. /\ UNCHANGED <<walker, table, visited, smbiosSize>> /\ pc = "size"
          /\ \/ pc' = "unavailable"
             \/ pc' = "walk" /\ cur' = 0
        BY <1>2, CheckSizeStep
    <2>2. Prefix(b, {}, 0, end')
        BY DEF Prefix
    <2> QED BY <2>1, <2>2 DEF Visited, InWalk
<1>3. CASE WalkStructure
    <2>1. /\ walker = "smbios" /\ pc = "walk" /\ UNCHANGED <<walker, table, cur, end>>
          /\ \/ pc' = "free" /\ StopsAt(b, cur, end) /\ UNCHANGED visited
             \/ /\ pc' = "advance" /\ ~StopsAt(b, cur, end)
                /\ visited' = visited \cup {cur}
        BY <1>3, WalkStep, Zenon
    <2>2. Prefix(b, visited, cur, end) /\ cur \in Nat
        BY <2>1 DEF Visited, InWalk, Limits
    <2>3. CASE pc' = "free"
        <3>1. Complete(b, visited, end)
            BY <2>1, <2>2, <2>3, PrefixStops
        <3> QED BY <2>1, <2>2, <2>3, <3>1 DEF Visited, InWalk
    <2>4. CASE pc' = "advance"
        <3>1. Prefix(b, visited', cur, end)
            BY <2>1, <2>2, <2>4, PrefixExtend
        <3> QED BY <2>1, <2>4, <3>1 DEF Visited, InWalk
    <2> QED BY <2>1, <2>3, <2>4
<1>4. CASE AdvanceSmbios
    <2>1. /\ walker = "smbios" /\ pc = "advance" /\ UNCHANGED <<walker, table, end, visited>>
          /\ \/ Following(b, cur, end) = NULL /\ pc' = "free" /\ UNCHANGED cur
             \/ /\ cur' = Following(b, cur, end) /\ cur' \in Nat /\ cur < cur' /\ pc' = "walk"
        BY <1>4, AdvanceStep, Zenon DEF AdvanceSmbios
    <2>2. Prefix(b, visited, cur, end) /\ cur \in Nat /\ cur \in visited
        BY <2>1 DEF Visited, InWalk, Limits
    <2>3. CASE pc' = "free"
        <3>1. Complete(b, visited, end)
            BY <2>1, <2>2, <2>3, PrefixEnds
        <3> QED BY <2>1, <2>2, <2>3, <3>1 DEF Visited, InWalk
    <2>4. CASE pc' = "walk"
        <3>1. Prefix(b, visited, cur', end) /\ cur' \notin visited
            BY <2>1, <2>2, <2>4, PrefixMove
        <3> QED BY <2>1, <2>4, <3>1 DEF Visited, InWalk
    <2> QED BY <2>1, <2>3, <2>4
<1>5. CASE SmbiosReturns
    <2>1. /\ walker = "smbios" /\ walker' = "memory" /\ pc' = "status"
          /\ pc \in {"free", "unavailable"}
          /\ smbiosSize' = rawSize /\ UNCHANGED <<table, visited>>
        BY <1>5, SmbiosReturnsStep
    <2>2. rawSize \in Nat
        BY DEF Limits
    <2>3. CASE pc = "free"
        <3>1. Complete(b, visited, end) /\ end = Limit(table, rawSize)
            BY <2>1, <2>3 DEF Visited, Limits, InWalk
        <3> QED BY <2>1, <2>2, <3>1 DEF Visited
    <2>4. CASE pc = "unavailable"
        <3>1. ~(rawSize >= HeaderSize)
            BY <2>2, <2>4 DEF Limits, HeaderSize
        <3> QED BY <2>1, <2>2, <3>1 DEF Visited
    <2> QED BY <2>1, <2>3, <2>4
<1>6. CASE WalkRegion \/ AdvanceMemory
    <2>1. walker = "memory" /\ UNCHANGED <<walker, table, visited, smbiosSize>>
        BY <1>6, Zenon DEF WalkRegion, AdvanceMemory, fetchVars, history
    <2> QED BY <2>1 DEF Visited
<1>7. CASE UNCHANGED vars
    BY <1>7 DEF vars, Visited
<1> QED BY <1>1, <1>2, <1>3, <1>4, <1>5, <1>6, <1>7 DEF Next, Elsewhere

\* The second walk goes along the same chain if it was given the same bytes.
LEMMA RegionsStep ==
    ASSUME Places, Limits, Visited, Regions, [Next]_vars
    PROVE  Regions'
<1> DEFINE b == table.bytes
<1>1. CASE Elsewhere
    <2>1. \/ pc \in Fresh /\ pc' \in Fresh /\ UNCHANGED <<walker, mem>>
          \/ /\ walker = "memory" /\ pc = "status" /\ pc' = "probe" /\ UNCHANGED walker
             /\ \E ok \in BOOLEAN : mem' = [mem EXCEPT !.available = ok]
          \/ /\ walker = "memory" /\ walker' = "done" /\ pc' = "done" /\ UNCHANGED mem
        BY <1>1, ElsewhereStep, Zenon
    <2>2. CASE UNCHANGED mem
        BY <2>1, <2>2 DEF Regions, Fresh, InWalk
    <2>3. CASE /\ walker = "memory" /\ pc = "status" /\ pc' = "probe" /\ UNCHANGED walker
               /\ \E ok \in BOOLEAN : mem' = [mem EXCEPT !.available = ok]
        <3>1. mem' \in [available : BOOLEAN, regions : Seq(Nat)] /\ mem'.regions = mem.regions
            BY <2>3 DEF Regions
        <3>2. mem.regions = <<>>
            BY <2>3 DEF Regions, Fresh
        <3> QED BY <2>3, <3>1, <3>2 DEF Regions, InWalk
    <2> QED BY <2>1, <2>2, <2>3
<1>2. CASE CheckSize
    <2>1. /\ UNCHANGED <<walker, table, rawSize, mem, visited, smbiosSize>>
          /\ pc = "size"
          /\ \/ pc' = "unavailable"
             \/ pc' = "walk" /\ cur' = 0
        BY <1>2, CheckSizeStep
    <2>2. mem.regions = <<>>
        BY <2>1 DEF Regions, Fresh
    <2>3. ASSUME walker = "memory", pc' = "walk", rawSize = smbiosSize
          PROVE  Along(b, visited, cur', end')
        <3>1. Limits'
            BY LimitsStep
        <3>2. rawSize >= HeaderSize /\ end' = Limit(table, rawSize)
            BY <2>1, <2>3, <3>1 DEF Limits, InWalk
        <3>3. Complete(b, visited, end')
            BY <2>3, <3>2 DEF Visited
        <3> QED BY <2>1, <2>3, <3>3, AlongStart
    <2> QED BY <2>1, <2>2, <2>3 DEF Regions, InWalk, Fresh
<1>3. CASE WalkStructure
    <2>1. walker = "smbios" /\ pc = "walk" /\ UNCHANGED <<walker, mem>>
        BY <1>3, WalkStep
    <2> QED BY <2>1 DEF Regions
<1>4. CASE AdvanceSmbios
    <2>1. walker = "smbios" /\ UNCHANGED <<walker, mem>>
        BY <1>4 DEF AdvanceSmbios
    <2> QED BY <2>1 DEF Regions
<1>5. CASE SmbiosReturns
    <2>1. walker = "smbios" /\ walker' = "memory" /\ pc' = "status" /\ UNCHANGED mem
        BY <1>5, SmbiosReturnsStep
    <2> QED BY <2>1 DEF Regions, InWalk
<1>a. ASSUME walker = "memory", pc \in InWalk, rawSize = smbiosSize
      PROVE  Complete(b, visited, end)
    BY <1>a DEF Visited, Limits
<1>6. CASE WalkRegion
    <2>1. /\ walker = "memory" /\ pc = "walk"
          /\ UNCHANGED <<walker, table, rawSize, cur, end, visited, smbiosSize>>
          /\ \/ /\ pc' = "free" /\ UNCHANGED mem
                /\ \/ StopsAt(b, cur, end)
                   \/ Len(mem.regions) >= MEMORY_MAX_REGIONS
             \/ /\ pc' = "advance" /\ ~StopsAt(b, cur, end)
                /\ ~(Len(mem.regions) >= MEMORY_MAX_REGIONS)
                /\ \/ UNCHANGED mem
                   \/ mem' = [mem EXCEPT !.regions = Append(@, cur)]
        BY <1>6, RegionStep, Zenon
    <2>2. /\ mem \in [available : BOOLEAN, regions : Seq(Nat)]
          /\ Len(mem.regions) <= MEMORY_MAX_REGIONS /\ cur \in Nat
        BY DEF Regions, Limits
    <2>3. ASSUME rawSize = smbiosSize
          PROVE  /\ Along(b, visited, cur, end) /\ Complete(b, visited, end)
                 /\ \A k \in DOMAIN mem.regions : mem.regions[k] \in visited
        BY <1>a, <2>1, <2>3 DEF Regions, InWalk
    <2>4. CASE pc' = "free"
        <3>1. ASSUME rawSize = smbiosSize, Len(mem.regions) < MEMORY_MAX_REGIONS
              PROVE  \A v \in visited : v <= cur
            <4>1. StopsAt(b, cur, end)
                BY <2>1, <2>2, <2>4, <3>1, SmbiosAssumption
            <4> QED BY <2>2, <2>3, <3>1, <4>1, AlongStops
        <3> QED BY <2>1, <2>2, <2>3, <2>4, <3>1 DEF Regions, InWalk, Fresh
    <2>5. CASE pc' = "advance" /\ UNCHANGED mem
        BY <2>1, <2>2, <2>3, <2>5 DEF Regions, InWalk, Fresh
    <2>6. CASE /\ pc' = "advance" /\ ~StopsAt(b, cur, end)
               /\ ~(Len(mem.regions) >= MEMORY_MAX_REGIONS)
               /\ mem' = [mem EXCEPT !.regions = Append(@, cur)]
        <3>1. mem.regions \in Seq(Nat) /\ Append(mem.regions, cur) \in Seq(Nat)
            BY <2>2
        <3>2. mem' \in [available : BOOLEAN, regions : Seq(Nat)]
              /\ mem'.regions = Append(mem.regions, cur)
            BY <2>2, <2>6, <3>1
        <3>3. Len(mem'.regions) <= MEMORY_MAX_REGIONS
            BY <2>6, <3>1, <3>2, SmbiosAssumption
        <3>4. ASSUME rawSize = smbiosSize, NEW k \in DOMAIN mem'.regions
              PROVE  mem'.regions[k] \in visited
            <4>1. cur \in visited
                BY <2>3, <2>6, <3>4 DEF Along, Final
            <4> QED BY <2>3, <3>1, <3>2, <3>4, <4>1
        <3> QED BY <2>1, <2>3, <2>6, <3>2, <3>3, <3>4 DEF Regions, InWalk, Fresh
    <2> QED BY <2>1, <2>4, <2>5, <2>6
<1>7. CASE AdvanceMemory
    <2>1. /\ walker = "memory" /\ pc = "advance"
          /\ UNCHANGED <<walker, table, rawSize, end, mem, visited, smbiosSize>>
          /\ \/ Following(b, cur, end) = NULL /\ pc' = "free" /\ UNCHANGED cur
             \/ cur' = Following(b, cur, end) /\ cur' # NULL /\ pc' = "walk"
        BY <1>7, AdvanceStep, Zenon DEF AdvanceMemory
    <2>2. ASSUME rawSize = smbiosSize
          PROVE  /\ Along(b, visited, cur, end) /\ Complete(b, visited, end)
                 /\ cur \in visited /\ cur \in Nat
        <3>1. Along(b, visited, cur, end) /\ Complete(b, visited, end)
            BY <1>a, <2>1, <2>2 DEF Regions, InWalk
        <3>2. ~StopsAt(b, cur, end) /\ cur \in Nat
            BY <2>1 DEF Limits
        <3> QED BY <3>1, <3>2 DEF Along, Final
    <2>3. CASE pc' = "free"
        <3>1. Following(b, cur, end) = NULL /\ UNCHANGED cur
            BY <2>1, <2>3
        <3>2. ASSUME rawSize = smbiosSize PROVE \A v \in visited : v <= cur
            BY <2>2, <3>1, <3>2, AlongStops
        <3> QED BY <2>1, <2>2, <2>3, <3>1, <3>2 DEF Regions, InWalk, Fresh
    <2>4. CASE pc' = "walk"
        <3>1. cur' = Following(b, cur, end) /\ Following(b, cur, end) # NULL
            BY <2>1, <2>4
        <3>2. ASSUME rawSize = smbiosSize PROVE Along(b, visited, cur', end)
            BY <2>2, <3>1, <3>2, AlongMove
        <3> QED BY <2>1, <2>4, <3>2 DEF Regions, InWalk, Fresh
    <2> QED BY <2>1, <2>3, <2>4
<1>8. CASE UNCHANGED vars
    BY <1>8 DEF vars, Regions
<1> QED BY <1>1, <1>2, <1>3, <1>4, <1>5, <1>6, <1>7, <1>8 DEF Next, Elsewhere

-----------------------------------------------------------------------------
(***************************************************************************)
(* The report.                                                             *)
(***************************************************************************)
Kinds == {"bios", "system", "baseboard", "chassis"}

\* The string fields are offsets into the structure.
LEMMA FieldsAreNumbers ==
    ASSUME NEW kind \in Kinds \cup {"memory_device"}
    PROVE  StringFields[kind] \subseteq Nat
BY DEF StringFields, Kinds

InSingle(o, s) ==
    \E kind \in Kinds : \E f \in StringFields[kind] : s = o[kind].strings[f]
InDevice(o, s) ==
    \E d \in DOMAIN o.memory_devices :
       \E f \in StringFields["memory_device"] : s = o.memory_devices[d].strings[f]

\* A reported string is one of the four single records or of a memory device.
LEMMA ReportedMembers ==
    ASSUME NEW s
    PROVE  /\ s \in Reported <=> InSingle(out, s) \/ InDevice(out, s)
           /\ s \in Reported' <=> InSingle(out', s) \/ InDevice(out', s)
<1>1. {SingleTypes[k] : k \in 1..4} = Kinds
    BY DEF SingleTypes, Kinds
<1> DEFINE names       == {SingleTypes[k] : k \in 1..4}
           Single(o, K) == UNION {{o[kind].strings[f] : f \in StringFields[kind]} : kind \in K}
           Device(o)    == UNION {{o.memory_devices[d].strings[f] :
                                     f \in StringFields["memory_device"]} :
                                     d \in DOMAIN o.memory_devices}
<1>2. Reported = Single(out, names) \cup Device(out)
    BY Zenon DEF Reported
<1>3. Reported' = Single(out', names) \cup Device(out')
    BY Zenon DEF Reported
<1>4. \A o : s \in Single(o, Kinds) <=> InSingle(o, s)
    BY DEF InSingle
<1>5. \A o : s \in Device(o) <=> InDevice(o, s)
    BY DEF InDevice
<1>6. names = Kinds
    BY <1>1
<1> HIDE DEF Single, Device, names
<1> QED BY <1>2, <1>3, <1>4, <1>5, <1>6, Zenon

\* A string of the structure at cur.
Copied(s) == \E index \in 0..255 : s = copy_string_field(cur, Byte(cur + 1), index)

\* It belongs to that structure and ends before the next one.
LEMMA CopiedFacts ==
    ASSUME Limits, NEW s, Copied(s), s # NoString
    PROVE  /\ s \in StringType /\ s.struct = cur /\ OwnString(table.bytes, s)
           /\ s.to - s.from < SMBIOS_STR_MAX
           /\ Following(table.bytes, cur, end) # NULL =>
                 s.to < Following(table.bytes, cur, end)
<1>1. PICK index \in 0..255 : s = copy_string_field(cur, Byte(cur + 1), index)
    BY DEF Copied
<1>2. end \in Nat /\ table \in Tables /\ cur \in Nat
    BY DEF Limits
<1> QED BY <1>1, <1>2, CopiedString

\* The fields parse_* sets are copied now or keep what they had.
LEMMA NewStrings ==
    ASSUME Limits, NEW kind \in Kinds \cup {"memory_device"},
           NEW old \in [StringFields[kind] -> StringType]
    PROVE  /\ Strings(kind, old) \in [StringFields[kind] -> StringType]
           /\ \A f \in StringFields[kind] :
                 Strings(kind, old)[f] = old[f] \/ Copied(Strings(kind, old)[f])
<1> DEFINE new == Strings(kind, old)
<1>1. NoString \in StringType
    BY DEF NoString, StringType
<1>2. ASSUME NEW s, Copied(s) PROVE s \in StringType
    BY <1>1, <1>2, CopiedFacts
<1>3. ASSUME NEW f \in StringFields[kind]
      PROVE  Copied(copy_string_field(cur, Hlen, Byte(cur + f)))
    <2>1. cur + f \in Nat
        BY FieldsAreNumbers DEF Limits
    <2>2. Byte(cur + f) \in 0..255
        BY <2>1, ByteRange DEF Limits
    <2> QED BY <2>2, Zenon DEF Copied, Hlen
<1>4. new = [f \in StringFields[kind] |->
                IF Hlen > f THEN copy_string_field(cur, Hlen, Byte(cur + f)) ELSE old[f]]
    BY DEF Strings
<1>5. \A f \in StringFields[kind] : new[f] = old[f] \/ Copied(new[f])
    BY <1>3, <1>4
<1>6. \A f \in StringFields[kind] : new[f] \in StringType
    BY <1>2, <1>5
<1> QED BY <1>4, <1>5, <1>6

\* parse_bios and so on change one record.
LEMMA SingleUpdated ==
    ASSUME Out, NEW kind \in Kinds, NEW info \in InfoType(kind), NEW n \in Nat,
           out' = [out EXCEPT ![kind] = info, !.structures_parsed = n]
    PROVE  /\ out' \in OutType /\ out'[kind] = info /\ out'.memory_devices = out.memory_devices
           /\ \A other \in Kinds \ {kind} : out'[other] = out[other]
<1> USE DEF Out, OutType, Kinds
<1> HIDE DEF InfoType
<1>1. CASE kind = "bios"
    BY <1>1
<1>2. CASE kind = "system"
    BY <1>2
<1>3. CASE kind = "baseboard"
    BY <1>3
<1>4. CASE kind = "chassis"
    BY <1>4
<1> QED BY <1>1, <1>2, <1>3, <1>4

\* Every step keeps the types of the report; a string in it afterwards was
\* there before, is empty or has just been copied from the structure at cur.
OutKept ==
    /\ Out'
    /\ \A s \in Reported' : \/ s \in Reported \cup {NoString}
                            \/ walker = "smbios" /\ pc' = "advance" /\ Copied(s)

\* A step that changes no record leaves all strings as they were.
LEMMA StringsKept ==
    ASSUME Out', \A kind \in Kinds : out'[kind] = out[kind],
           out'.memory_devices = out.memory_devices
    PROVE  OutKept
<1> QED BY ReportedMembers, Zenon DEF OutKept, InSingle, InDevice

\* parse_bios, parse_system, parse_baseboard and parse_chassis add only strings
\* of the structure at cur.
LEMMA ParseSingleKeeps ==
    ASSUME Limits, Out, NEW kind \in Kinds, ParseSingle(kind),
           walker = "smbios", pc' = "advance"
    PROVE  OutKept
<1> DEFINE strings == Strings(kind, out[kind].strings)
           info    == [available |-> TRUE, at |-> cur, strings |-> strings]
           n       == out.structures_parsed + 1
<1>1. out[kind] \in InfoType(kind) /\ n \in Nat /\ cur \in Int
    BY DEF Out, OutType, Kinds, Limits
<1>2. out[kind].strings \in [StringFields[kind] -> StringType]
    BY <1>1 DEF InfoType
<1>3. /\ strings \in [StringFields[kind] -> StringType]
      /\ \A f \in StringFields[kind] : strings[f] = out[kind].strings[f] \/ Copied(strings[f])
    BY <1>2, NewStrings
<1> HIDE DEF strings
<1>4. info \in InfoType(kind) /\ info.strings = strings
    BY <1>1, <1>3 DEF InfoType
<1>5. out' = [out EXCEPT ![kind] = info, !.structures_parsed = n]
    BY DEF ParseSingle, strings, Kinds
<1> HIDE DEF info, n
<1>6. /\ out' \in OutType /\ out'[kind] = info
      /\ out'.memory_devices = out.memory_devices
      /\ \A other \in Kinds \ {kind} : out'[other] = out[other]
    BY <1>1, <1>4, <1>5, SingleUpdated, Zenon
<1>7. Out'
    BY <1>6 DEF Out
<1>8. ASSUME NEW s \in Reported' PROVE s \in Reported \/ Copied(s)
    <2>1. CASE InDevice(out', s)
        BY <1>6, <2>1, ReportedMembers, Zenon DEF InDevice
    <2>2. CASE \E k \in Kinds \ {kind} : \E f \in StringFields[k] : s = out'[k].strings[f]
        BY <1>6, <2>2, ReportedMembers, Zenon DEF InSingle
    <2>3. CASE \E f \in StringFields[kind] : s = out'[kind].strings[f]
        BY <1>3, <1>4, <1>6, <2>3, ReportedMembers, Zenon DEF InSingle
    <2> QED BY ReportedMembers, <2>1, <2>2, <2>3, Zenon DEF InSingle
<1> QED BY <1>7, <1>8, Zenon DEF OutKept

\* So does parse_memory_device, which appends only while there is room.
LEMMA ParseMemoryDeviceKeeps ==
    ASSUME Limits, Out, ParseMemoryDevice, walker = "smbios", pc' = "advance"
    PROVE  OutKept
<1> DEFINE none    == NoInfo("memory_device").strings
           strings == Strings("memory_device", none)
           device  == [at |-> cur, populated |-> Hlen > 13 /\ ~DoubleNul(cur + 12),
                       strings |-> strings]
           list    == IF RoomForDevice THEN Append(out.memory_devices, device)
                      ELSE out.memory_devices
           n       == out.structures_parsed + 1
<1>1. none = [f \in StringFields["memory_device"] |-> NoString] /\ NoString \in StringType
    BY DEF NoInfo, NoString, StringType
<1>2. none \in [StringFields["memory_device"] -> StringType]
    BY <1>1
<1>3. /\ strings \in [StringFields["memory_device"] -> StringType]
      /\ \A f \in StringFields["memory_device"] :
            strings[f] = NoString \/ Copied(strings[f])
    <2>1. /\ strings \in [StringFields["memory_device"] -> StringType]
          /\ \A f \in StringFields["memory_device"] :
                strings[f] = none[f] \/ Copied(strings[f])
        BY <1>2, NewStrings
    <2> HIDE DEF strings, none
    <2>2. \A f \in StringFields["memory_device"] : none[f] = NoString
        BY <1>1
    <2> QED BY <2>1, <2>2, Zenon
<1> HIDE DEF strings
<1>4. device \in DeviceType /\ device.strings = strings
    <2>1. (Hlen > 13 /\ ~DoubleNul(cur + 12)) \in BOOLEAN
        OBVIOUS
    <2>2. cur \in Nat
        BY DEF Limits
    <2> QED BY <1>3, <2>1, <2>2 DEF DeviceType
<1>5. out' = [out EXCEPT !.memory_devices = list, !.structures_parsed = n]
    BY DEF ParseMemoryDevice, strings
<1> HIDE DEF device
<1>6. n \in Nat /\ out.memory_devices \in Seq(DeviceType)
      /\ Len(out.memory_devices) <= SMBIOS_MAX_MEMORY_DEVICES
    BY DEF Out, OutType
<1>7. /\ list \in Seq(DeviceType) /\ Len(list) <= SMBIOS_MAX_MEMORY_DEVICES
      /\ \A d \in DOMAIN list :
            (d \in DOMAIN out.memory_devices /\ list[d] = out.memory_devices[d])
               \/ list[d] = device
    <2>1. CASE RoomForDevice
        <3>1. list = Append(out.memory_devices, device)
            BY <2>1
        <3>2. Len(out.memory_devices) < SMBIOS_MAX_MEMORY_DEVICES
            BY <2>1 DEF RoomForDevice
        <3> HIDE DEF list
        <3> QED BY <1>4, <1>6, <3>1, <3>2, SmbiosAssumption
    <2>2. CASE ~RoomForDevice
        BY <1>6, <2>2
    <2> QED BY <2>1, <2>2
<1> HIDE DEF list, n
<1>8. out' \in OutType /\ out'.memory_devices = list
      /\ \A kind \in Kinds : out'[kind] = out[kind]
    <2> HIDE DEF InfoType, DeviceType
    <2> QED BY <1>5, <1>6, <1>7 DEF Out, OutType, Kinds
<1>9. Out'
    BY <1>7, <1>8 DEF Out
<1>10. ASSUME NEW s \in Reported' PROVE s \in Reported \cup {NoString} \/ Copied(s)
    <2>1. CASE InSingle(out', s)
        BY <1>8, <2>1, ReportedMembers, Zenon DEF InSingle
    <2>2. CASE InDevice(out', s)
        <3>1. PICK d \in DOMAIN list, f \in StringFields["memory_device"] :
                 s = list[d].strings[f]
            BY <1>8, <2>2, Zenon DEF InDevice
        <3>2. CASE d \in DOMAIN out.memory_devices /\ list[d] = out.memory_devices[d]
            BY <3>1, <3>2, ReportedMembers, Zenon DEF InDevice
        <3>3. CASE list[d] = device
            BY <1>3, <1>4, <3>1, <3>3, Zenon
        <3> QED BY <1>7, <3>1, <3>2, <3>3, Zenon
    <2> QED BY ReportedMembers, <2>1, <2>2, Zenon
<1> QED BY <1>9, <1>10, Zenon DEF OutKept

\* The counters are not part of any string.
LEMMA CounterKeeps ==
    ASSUME Out, NEW n \in Nat, NEW ok \in BOOLEAN,
           \/ out' = [out EXCEPT !.structures_parsed = n]
           \/ out' = [out EXCEPT !.structures_malformed_skipped = n]
           \/ out' = [out EXCEPT !.available = ok]
           \/ UNCHANGED out
    PROVE  OutKept
<1>1. /\ out' \in OutType /\ out'.memory_devices = out.memory_devices
      /\ \A kind \in Kinds : out'[kind] = out[kind]
    <2> HIDE DEF InfoType, DeviceType
    <2>1. CASE out' = [out EXCEPT !.structures_parsed = n]
        BY <2>1 DEF Out, OutType, Kinds
    <2>2. CASE out' = [out EXCEPT !.structures_malformed_skipped = n]
        BY <2>2 DEF Out, OutType, Kinds
    <2>3. CASE out' = [out EXCEPT !.available = ok]
        BY <2>3 DEF Out, OutType, Kinds
    <2>4. CASE UNCHANGED out
        BY <2>4 DEF Out
    <2> QED BY <2>1, <2>2, <2>3, <2>4
<1>2. Out'
    BY <1>1 DEF Out
<1> QED BY <1>1, <1>2, StringsKept

\* No other step touches a string of the report.
LEMMA OutStep ==
    ASSUME Limits, Out, [Next]_vars
    PROVE  OutKept
<1>0. out.structures_parsed + 1 \in Nat /\ out.structures_malformed_skipped + 1 \in Nat
    <2> HIDE DEF InfoType, DeviceType
    <2> QED BY DEF Out, OutType
<1>1. CASE WalkStructure
    <2>1. \/ UNCHANGED out
          \/ out' = [out EXCEPT !.structures_malformed_skipped = @ + 1]
          \/ out' = [out EXCEPT !.structures_parsed = @ + 1]
          \/ walker = "smbios" /\ pc' = "advance" /\ ParseMemoryDevice
          \/ /\ walker = "smbios" /\ pc' = "advance"
             /\ Type \in 0..3 /\ ParseSingle(SingleTypes[Type + 1])
        BY <1>1, Zenon DEF WalkStructure, Goto
    <2>2. Type \in 0..3 => SingleTypes[Type + 1] \in Kinds
        BY DEF SingleTypes, Kinds
    <2>3. CASE walker = "smbios" /\ pc' = "advance" /\ ParseMemoryDevice
        BY <2>3, ParseMemoryDeviceKeeps
    <2>4. CASE /\ walker = "smbios" /\ pc' = "advance"
               /\ Type \in 0..3 /\ ParseSingle(SingleTypes[Type + 1])
        BY <2>2, <2>4, ParseSingleKeeps, Zenon
    <2>5. CASE out' = [out EXCEPT !.structures_malformed_skipped = @ + 1]
        BY <1>0, <2>5, CounterKeeps
    <2>6. CASE out' = [out EXCEPT !.structures_parsed = @ + 1]
        BY <1>0, <2>6, CounterKeeps
    <2>7. CASE UNCHANGED out
        BY <1>0, <2>7, CounterKeeps
    <2> QED BY <2>1, <2>3, <2>4, <2>5, <2>6, <2>7, Zenon
<1>2. CASE AdvanceSmbios
    <2>1. \/ UNCHANGED out
          \/ out' = [out EXCEPT !.structures_malformed_skipped = @ + 1]
        BY <1>2, Zenon DEF AdvanceSmbios
    <2> QED BY <1>0, <2>1, CounterKeeps
<1>3. CASE SmbiosReturns
    <2>1. \/ UNCHANGED out
          \/ out' = [out EXCEPT !.available = out.structures_parsed > 0]
        BY <1>3, SmbiosReturnsStep
    <2>2. (out.structures_parsed > 0) \in BOOLEAN
        OBVIOUS
    <2> QED BY <1>0, <2>1, <2>2, CounterKeeps, Zenon
<1>4. CASE Elsewhere \/ CheckSize \/ WalkRegion \/ AdvanceMemory \/ UNCHANGED vars
    <2>1. UNCHANGED out
        BY <1>4, ElsewhereStep, CheckSizeStep, RegionStep
        DEF AdvanceMemory, outVars, vars
    <2> QED BY <1>0, <2>1, CounterKeeps
<1> QED BY <1>1, <1>2, <1>3, <1>4 DEF Next, Elsewhere

\* What happens to the strings reported so far in a step.
LEMMA OldString ==
    ASSUME Places, Limits, Visited, OwnStrings, Next,
           NEW s \in Reported \ {NoString}
    PROVE  /\ UNCHANGED table /\ s.struct \in visited'
           /\ \A v \in visited' : v > s.struct => s.to < v
           /\ walker' = "smbios" /\ pc' = "walk" => s.to < cur'
           /\ walker' = "smbios" /\ pc' = "advance" =>
                 s.struct # cur' /\ s.to < cur'
<1>1. /\ s \in StringType /\ s.struct \in visited
      /\ \A v \in visited : v > s.struct => s.to < v
      /\ walker = "smbios" /\ pc = "walk" => s.to < cur
      /\ walker = "smbios" /\ pc = "advance" =>
             IF s.struct = cur
             THEN Following(table.bytes, cur, end) # NULL =>
                     s.to < Following(table.bytes, cur, end)
             ELSE s.to < cur
    BY DEF OwnStrings
<1>2. CASE Elsewhere
    <2>1. /\ UNCHANGED <<table, visited>>
          /\ walker' = "smbios" => pc' \notin {"walk", "advance"}
        BY <1>2, ElsewhereStep DEF Fresh
    <2> QED BY <1>1, <2>1
<1>3. CASE CheckSize
    <2>1. UNCHANGED <<table, visited, walker>> /\ pc = "size" /\ pc' \in {"walk", "unavailable"}
        BY <1>3, CheckSizeStep
    <2>2. walker = "smbios" => visited = {}
        BY <2>1 DEF Visited, InWalk
    <2> QED BY <1>1, <2>1, <2>2
<1>4. CASE WalkStructure
    <2>1. /\ walker = "smbios" /\ pc = "walk" /\ UNCHANGED <<table, cur, end>>
          /\ \/ pc' = "free" /\ UNCHANGED visited
             \/ pc' = "advance" /\ visited' = visited \cup {cur}
        BY <1>4, WalkStep, Zenon
    <2>2. cur \notin visited
        BY <2>1 DEF Visited
    <2> QED BY <1>1, <2>1, <2>2
<1>5. CASE AdvanceSmbios
    <2>1. /\ walker = "smbios" /\ pc = "advance" /\ UNCHANGED <<table, visited>>
          /\ \/ pc' = "free"
             \/ /\ cur' = Following(table.bytes, cur, end) /\ cur' # NULL
                /\ cur' \in Nat /\ cur < cur' /\ pc' = "walk"
        BY <1>5, AdvanceStep, Zenon DEF AdvanceSmbios
    <2>2. s.to \in Nat /\ cur \in Nat
        BY <1>1 DEF StringType, Limits
    <2>3. pc' = "walk" => s.to < cur'
        BY <1>1, <2>1, <2>2
    <2> QED BY <1>1, <2>1, <2>3
<1>6. CASE SmbiosReturns
    BY <1>1, <1>6, SmbiosReturnsStep
<1>7. CASE WalkRegion \/ AdvanceMemory
    <2>1. walker = "memory" /\ UNCHANGED <<walker, table, visited>>
        BY <1>7, Zenon DEF WalkRegion, AdvanceMemory, fetchVars, history
    <2> QED BY <1>1, <2>1
<1> QED BY <1>2, <1>3, <1>4, <1>5, <1>6, <1>7 DEF Next, Elsewhere

\* A string just copied is one of the structure the first walk is at.
LEMMA NewString ==
    ASSUME Places, Limits, Limits', Visited, Visited', Next, walker = "smbios",
           pc' = "advance", NEW s, Copied(s), s # NoString
    PROVE  /\ UNCHANGED <<table, cur, end>> /\ s.struct = cur /\ s.struct \in visited'
           /\ \A v \in visited' : ~(v > s.struct)
           /\ walker' = "smbios"
<1>1. WalkStructure
    <2>1. ~Elsewhere
        BY ElsewhereStep DEF Fresh
    <2>2. ~CheckSize
        BY CheckSizeStep
    <2>3. ~SmbiosReturns
        BY SmbiosReturnsStep
    <2>4. ~(AdvanceSmbios \/ AdvanceMemory)
        BY AdvanceStep
    <2>5. ~WalkRegion
        BY RegionStep
    <2> QED BY <2>1, <2>2, <2>3, <2>4, <2>5, Zenon DEF Next, Elsewhere
<1>2. UNCHANGED <<walker, table, cur, end>> /\ cur \in visited'
    BY <1>1, WalkStep
<1>3. s.struct = cur /\ cur \in Nat
    BY CopiedFacts DEF Limits
<1>4. Prefix(table'.bytes, visited', cur', end')
    BY <1>2 DEF Visited, InWalk
<1>5. \A v \in visited' : v \in Nat /\ v <= cur'
    BY <1>4, Zenon DEF Prefix
<1>6. \A v \in visited' : ~(v > cur)
    BY <1>2, <1>3, <1>5
<1> QED BY <1>2, <1>3, <1>6

\* Strings stay those of their own structure.
LEMMA OwnStringsStep ==
    ASSUME Places, Limits, Limits', Visited, Visited', Out, OwnStrings, [Next]_vars
    PROVE  OwnStrings'
<1>1. CASE UNCHANGED vars
    <2>1. UNCHANGED <<table, visited, walker, pc, cur, end, out>>
        BY <1>1 DEF vars
    <2>2. Reported' = Reported
        BY <2>1 DEF Reported
    <2> QED BY <2>1, <2>2 DEF OwnStrings
<1>2. CASE Next
    <2> SUFFICES ASSUME NEW s \in Reported' \ {NoString}
                 PROVE  /\ OwnString(table.bytes, s)' /\ s.to - s.from < SMBIOS_STR_MAX
                        /\ s \in StringType /\ s.struct \in visited'
                        /\ \A v \in visited' : v > s.struct => s.to < v
                        /\ walker' = "smbios" /\ pc' = "walk" => s.to < cur'
                        /\ walker' = "smbios" /\ pc' = "advance" =>
                              IF s.struct = cur'
                              THEN Following(table'.bytes, cur', end') # NULL =>
                                      s.to < Following(table'.bytes, cur', end')
                              ELSE s.to < cur'
        BY Zenon DEF OwnStrings
    <2>1. CASE s \in Reported
        <3>1. /\ UNCHANGED table /\ s.struct \in visited'
              /\ \A v \in visited' : v > s.struct => s.to < v
              /\ walker' = "smbios" /\ pc' = "walk" => s.to < cur'
              /\ walker' = "smbios" /\ pc' = "advance" => s.struct # cur' /\ s.to < cur'
            BY <1>2, <2>1, OldString, Zenon
        <3>2. /\ OwnString(table.bytes, s) /\ s.to - s.from < SMBIOS_STR_MAX
              /\ s \in StringType
            BY <2>1, Zenon DEF OwnStrings
        <3> QED BY <3>1, <3>2, Zenon
    <2>2. CASE walker = "smbios" /\ pc' = "advance" /\ Copied(s)
        <3>1. /\ UNCHANGED <<table, cur, end>> /\ s.struct = cur /\ s.struct \in visited'
              /\ \A v \in visited' : ~(v > s.struct)
            BY <1>2, <2>2, NewString, Zenon
        <3>2. /\ s \in StringType /\ OwnString(table.bytes, s)
              /\ s.to - s.from < SMBIOS_STR_MAX
              /\ Following(table.bytes, cur, end) # NULL =>
                    s.to < Following(table.bytes, cur, end)
            BY <2>2, CopiedFacts, Zenon
        <3> QED BY <2>2, <3>1, <3>2, Zenon
    <2>3. OutKept
        BY <1>2, OutStep
    <2> QED BY <2>1, <2>2, <2>3, Zenon DEF OutKept
<1> QED BY <1>1, <1>2

\* The invariant holds at the start ...
LEMMA SmbiosStart == Init => SmbiosInv
<1> SUFFICES ASSUME Init PROVE SmbiosInv
    OBVIOUS
<1>0. Len(table.bytes) \in Nat /\ table \in Tables
    BY SmbiosAssumption DEF Init
<1>1. Places /\ Heap
    BY DEF Init, Places, Heap, Fresh, InWalk, Walkers
<1>2. Limits
    BY <1>0 DEF Init, Limits, Fresh, InWalk, HeaderSize, Later
<1>3. Visited
    BY DEF Init, Visited, InWalk
<1>4. Regions
    BY SmbiosAssumption DEF Init, Regions, EmptyMem, Fresh, InWalk
<1>5. NoString \in StringType
    BY DEF NoString, StringType
<1>6. ASSUME NEW kind \in Kinds
      PROVE  /\ NoInfo(kind) \in InfoType(kind) /\ out[kind] = NoInfo(kind)
             /\ \A f \in StringFields[kind] : NoInfo(kind).strings[f] = NoString
    <2> DEFINE strings == [f \in StringFields[kind] |-> NoString]
    <2>1. /\ strings \in [StringFields[kind] -> StringType]
          /\ \A f \in StringFields[kind] : strings[f] = NoString
        BY <1>5
    <2>2. NoInfo(kind) = [available |-> FALSE, at |-> -1, strings |-> strings]
        BY DEF NoInfo
    <2> HIDE DEF strings
    <2>3. NoInfo(kind) \in InfoType(kind) /\ NoInfo(kind).strings = strings
        BY <2>1, <2>2 DEF InfoType
    <2>4. out[kind] = NoInfo(kind)
        BY DEF Init, EmptyOut, Kinds
    <2> QED BY <2>1, <2>3, <2>4, Zenon
<1>7. out.memory_devices = <<>>
    BY DEF Init, EmptyOut
<1>8. Out
    <2>1. out = [bios |-> NoInfo("bios"), system |-> NoInfo("system"),
                 baseboard |-> NoInfo("baseboard"), chassis |-> NoInfo("chassis"),
                 memory_devices |-> <<>>, structures_parsed |-> 0,
                 structures_malformed_skipped |-> 0, available |-> FALSE]
        BY Zenon DEF Init, EmptyOut
    <2>2. /\ NoInfo("bios") \in InfoType("bios") /\ NoInfo("system") \in InfoType("system")
          /\ NoInfo("baseboard") \in InfoType("baseboard")
          /\ NoInfo("chassis") \in InfoType("chassis")
        BY <1>6, Zenon DEF Kinds
    <2>3. out \in OutType
        BY <2>1, <2>2 DEF OutType
    <2> QED BY <1>7, <2>3, SmbiosAssumption DEF Out
<1>9. ASSUME NEW s \in Reported PROVE s = NoString
    <2>1. ~InDevice(out, s)
        BY <1>7 DEF InDevice
    <2>2. PICK kind \in Kinds : \E f \in StringFields[kind] : s = out[kind].strings[f]
        BY <2>1, ReportedMembers, Zenon DEF InSingle
    <2> QED BY <1>6, <2>2, Zenon
<1>10. OwnStrings
    BY <1>9, Zenon DEF OwnStrings
<1> QED BY <1>1, <1>2, <1>3, <1>4, <1>8, <1>10 DEF SmbiosInv

\* ... and after every step.
LEMMA SmbiosStep == SmbiosInv /\ [Next]_vars => SmbiosInv'
<1> SUFFICES ASSUME SmbiosInv, [Next]_vars PROVE SmbiosInv'
    OBVIOUS
<1> USE DEF SmbiosInv
<1>1. Places' /\ Heap'
    BY PlacesStep
<1>2. Limits'
    BY LimitsStep
<1>3. Visited' /\ Regions'
    BY VisitedStep, RegionsStep
<1>4. Out'
    BY OutStep DEF OutKept
<1>5. OwnStrings'
    BY <1>2, <1>3, OwnStringsStep
<1> QED BY <1>1, <1>2, <1>3, <1>4, <1>5

-----------------------------------------------------------------------------
(***************************************************************************)
(* Theorems.                                                               *)
(***************************************************************************)
\* The invariant holds for every table a firmware can deliver.
LEMMA SmbiosInvariant == Spec => []SmbiosInv
BY SmbiosStart, SmbiosStep, PTL DEF Spec

\* The arrays memory_devices[] and regions[] and the string fields are never
\* written past their end, whatever the table says.
THEOREM SmbiosTypeCorrect == Spec => []TypeOK
<1>1. SmbiosInv => TypeOK
    <2> SUFFICES ASSUME SmbiosInv PROVE TypeOK
        OBVIOUS
    <2>1. ASSUME NEW s \in Reported PROVE s.to - s.from < SMBIOS_STR_MAX
        <3>1. CASE s = NoString
            BY <3>1, SmbiosAssumption DEF NoString
        <3>2. CASE s # NoString
            BY <3>2, Zenon DEF SmbiosInv, OwnStrings
        <3> QED BY <3>1, <3>2
    <2>2. badFree \in BOOLEAN /\ raw \in BOOLEAN
        BY Zenon DEF SmbiosInv, Heap
    <2>3. /\ walker \in Walkers \cup {"done"}
          /\ pc \in {"probe", "alloc", "fetch", "size", "walk", "advance", "free",
                     "unavailable", "status", "done"}
          /\ result \in [Walkers -> {"none", "true", "false"}]
        BY DEF SmbiosInv, Places, Fresh, InWalk
    <2>4. /\ needed \in Nat /\ rawSize \in Nat
          /\ cur \in Nat /\ end \in Nat /\ readTo \in Nat
          /\ Len(out.memory_devices) <= SMBIOS_MAX_MEMORY_DEVICES
          /\ Len(mem.regions) <= MEMORY_MAX_REGIONS
        BY Zenon DEF SmbiosInv, Limits, Out, Regions
    <2> QED BY <2>1, <2>2, <2>3, <2>4, Zenon DEF TypeOK
<1> QED BY <1>1, SmbiosInvariant, PTL

\* Neither walk reads outside the delivered bytes or after the block is freed.
THEOREM WalksStayInside == Spec => []NoOverread
<1>1. SmbiosInv => NoOverread
    BY DEF SmbiosInv, Limits, Heap, InWalk, NoOverread
<1> QED BY <1>1, SmbiosInvariant, PTL

\* The block of the table is freed once on every way out of both functions.
THEOREM TableFreedOnce == Spec => []HeapBalanced
<1>1. SmbiosInv => HeapBalanced
    BY DEF SmbiosInv, Heap, InWalk, HeapBalanced
<1> QED BY <1>1, SmbiosInvariant, PTL

\* A reported string is the one its structure numbers, taken from that
\* structure's own string table, for every table of bytes.
THEOREM StringsBelong == Spec => []StringsAreOwn
<1>1. SmbiosInv => StringsAreOwn
    <2> SUFFICES ASSUME SmbiosInv, NEW s \in Reported \ {NoString}
                 PROVE  LET area == s.struct + Byte(s.struct + 1) IN
                        /\ area <= s.from /\ s.from < s.to
                        /\ Cardinality({q \in area..(s.from - 1) : Byte(q) = 0}) = s.index - 1
                        /\ \A q \in s.from..(s.to - 1) : Byte(q) # 0
                        /\ \A v \in visited : v > s.struct => s.to < v
        BY Zenon DEF StringsAreOwn
    <2>1. /\ OwnString(table.bytes, s)
          /\ \A v \in visited : v > s.struct => s.to < v
        BY Zenon DEF SmbiosInv, OwnStrings
    <2> QED BY <2>1, Zenon DEF OwnString, Byte, ByteOf
<1> QED BY <1>1, SmbiosInvariant, PTL

\* The two copies of the walk see the same structures of the same bytes.
THEOREM WalksSeeTheSame == Spec => []WalksAgree
<1>1. SmbiosInv => WalksAgree
    <2> SUFFICES ASSUME SmbiosInv, walker = "memory", rawSize = smbiosSize
                 PROVE  /\ pc = "advance" => cur \in visited
                        /\ \A k \in DOMAIN mem.regions : mem.regions[k] \in visited
                        /\ pc = "free" /\ Len(mem.regions) < MEMORY_MAX_REGIONS =>
                              \A v \in visited : v <= cur
        BY Zenon DEF WalksAgree
    <2>1. CASE pc \in InWalk
        <3>1. /\ Along(table.bytes, visited, cur, end)
              /\ \A k \in DOMAIN mem.regions : mem.regions[k] \in visited
              /\ pc = "free" /\ Len(mem.regions) < MEMORY_MAX_REGIONS =>
                    \A v \in visited : v <= cur
            BY <2>1, Zenon DEF SmbiosInv, Regions
        <3>2. pc = "advance" => ~StopsAt(table.bytes, cur, end)
            BY Zenon DEF SmbiosInv, Limits
        <3> QED BY <3>1, <3>2, Zenon DEF Along, Final
    <2>2. CASE pc \notin InWalk
        <3>1. pc \in Fresh
            BY <2>2 DEF SmbiosInv, Places
        <3>2. mem.regions = <<>>
            BY <3>1, Zenon DEF SmbiosInv, Regions
        <3> QED BY <2>2, <3>2 DEF InWalk
    <2> QED BY <2>1, <2>2
<1> QED BY <1>1, SmbiosInvariant, PTL
=============================================================================
