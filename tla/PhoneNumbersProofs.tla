------------------------- MODULE PhoneNumbersProofs -------------------------
(***************************************************************************)
(* What NormalizePhone and the backfill of migration 000007 compute, for   *)
(* every text.                                                             *)
(*                                                                         *)
(* The only recursion is in Stripped.  It is reasoned about with the least *)
(* number for which a claim would fail.                                    *)
(***************************************************************************)
EXTENDS PhoneNumbers, WellFoundedInduction, SequenceTheorems, TLAPS

\* A set of natural numbers that is not empty has a least element.
LEMMA LeastElement ==
    ASSUME NEW B, B \subseteq Nat, B # {}
    PROVE  \E m \in B : \A k \in B : m <= k
<1>1. PICK m \in B : \A k \in B : <<k, m>> \notin OpToRel(<, Nat)
    BY WFMin, NatLessThanWellFounded, Zenon
<1>2. \A k \in B : ~(k < m)
    BY <1>1, Zenon DEF OpToRel
<1> QED
    BY <1>2

-----------------------------------------------------------------------------
(* Stripped.                                                                *)

\* A text without separators.
Clean == Seq(Symbol \ {"-"})

\* f satisfies the recursive equation of Stripped for the first n characters of t.
Keeps(f, t, n) ==
    f = [i \in 0 .. n |->
           IF i = 0 THEN <<>>
           ELSE IF t[i] = "-" THEN f[i - 1] ELSE Append(f[i - 1], t[i])]

\* The equation has a solution, up to any length.
LEMMA KeepsExists ==
    ASSUME NEW t, NEW n \in Nat
    PROVE  \E f : Keeps(f, t, n)
<1> DEFINE B == {k \in Nat : ~ \E f : Keeps(f, t, k)}
<1>1. ASSUME B # {} PROVE FALSE
  <2>1. PICK m \in B : \A k \in B : m <= k
    BY <1>1, LeastElement
  <2>2. CASE m = 0
    <3> DEFINE f == [i \in 0 .. 0 |-> <<>>]
    <3>1. Keeps(f, t, m)
      BY <2>2 DEF Keeps
    <3> QED
      BY <2>1, <3>1
  <2>3. CASE m # 0
    <3>1. m - 1 \in Nat /\ m - 1 \notin B
      BY <2>1, <2>3
    <3>2. PICK f : Keeps(f, t, m - 1)
      BY <3>1
    <3> DEFINE last == IF t[m] = "-" THEN f[m - 1] ELSE Append(f[m - 1], t[m])
               g == [i \in 0 .. m |-> IF i = m THEN last ELSE f[i]]
    <3>3. \A i \in 0 .. m - 1 :
            f[i] = IF i = 0 THEN <<>>
                   ELSE IF t[i] = "-" THEN f[i - 1] ELSE Append(f[i - 1], t[i])
      BY <3>2, Zenon DEF Keeps
    <3>4. \A i \in 0 .. m :
            g[i] = IF i = 0 THEN <<>>
                   ELSE IF t[i] = "-" THEN g[i - 1] ELSE Append(g[i - 1], t[i])
      <4> SUFFICES ASSUME NEW i \in 0 .. m
                   PROVE  g[i] = IF i = 0 THEN <<>>
                                 ELSE IF t[i] = "-" THEN g[i - 1] ELSE Append(g[i - 1], t[i])
        OBVIOUS
      <4>1. i # 0 => g[i - 1] = f[i - 1]
        BY <2>3
      <4>2. CASE i = m
        BY <2>3, <4>1, <4>2
      <4>3. CASE i # m
        <5>1. i \in 0 .. m - 1 /\ g[i] = f[i]
          BY <4>3
        <5> QED
          BY <3>3, <4>1, <5>1
      <4> QED
        BY <4>2, <4>3
    <3>5. Keeps(g, t, m)
      BY <3>4, Zenon DEF Keeps
    <3> QED
      BY <2>1, <3>5
  <2> QED
    BY <2>2, <2>3
<1> QED
    BY <1>1

\* What Stripped keeps of each beginning of a text.
LEMMA StrippedKept ==
    ASSUME NEW t, Len(t) \in Nat
    PROVE  \E f : /\ Stripped(t) = f[Len(t)]
                  /\ f[0] = <<>>
                  /\ \A i \in 1 .. Len(t) :
                       f[i] = IF t[i] = "-" THEN f[i - 1] ELSE Append(f[i - 1], t[i])
<1> DEFINE f == CHOOSE f : Keeps(f, t, Len(t))
<1>1. Stripped(t) = f[Len(t)]
    BY DEF Stripped, Keeps
<1>2. Keeps(f, t, Len(t))
    BY KeepsExists
<1> HIDE DEF f
<1>3. \A i \in 0 .. Len(t) :
        f[i] = IF i = 0 THEN <<>>
               ELSE IF t[i] = "-" THEN f[i - 1] ELSE Append(f[i - 1], t[i])
    BY <1>2, Zenon DEF Keeps
<1>4. f[0] = <<>>
    BY <1>3
<1>5. \A i \in 1 .. Len(t) :
        f[i] = IF t[i] = "-" THEN f[i - 1] ELSE Append(f[i - 1], t[i])
    BY <1>3
<1> QED
    BY <1>1, <1>4, <1>5

\* Stripped leaves no separator, and what it leaves is a text.
LEMMA StrippedClean ==
    ASSUME NEW t \in Text
    PROVE  Stripped(t) \in Clean
<1>1. Len(t) \in Nat /\ \A i \in 1 .. Len(t) : t[i] \in Symbol
    BY LenProperties, ElementOfSeq DEF Text
<1>2. PICK f : /\ Stripped(t) = f[Len(t)]
               /\ f[0] = <<>>
               /\ \A i \in 1 .. Len(t) :
                    f[i] = IF t[i] = "-" THEN f[i - 1] ELSE Append(f[i - 1], t[i])
    BY <1>1, StrippedKept, Zenon
<1> DEFINE B == {k \in 0 .. Len(t) : f[k] \notin Clean}
<1>3. ASSUME B # {} PROVE FALSE
  <2>1. PICK m \in B : \A k \in B : m <= k
    <3>1. B \subseteq Nat
      BY <1>1
    <3> QED
      BY <1>3, <3>1, LeastElement, Zenon
  <2>2. m # 0
    BY <1>2, EmptySeq DEF Clean
  <2>3. m \in 1 .. Len(t) /\ m - 1 \in 0 .. Len(t) /\ m - 1 \notin B
    BY <1>1, <2>1, <2>2
  <2>4. f[m - 1] \in Clean
    BY <2>3
  <2>5. CASE t[m] = "-"
    BY <1>2, <2>1, <2>3, <2>4, <2>5
  <2>6. CASE t[m] # "-"
    <3>1. t[m] \in Symbol \ {"-"}
      BY <1>1, <2>3, <2>6
    <3>2. Append(f[m - 1], t[m]) \in Clean
      BY <2>4, <3>1, AppendProperties DEF Clean
    <3> QED
      BY <1>2, <2>1, <2>3, <2>6, <3>2
  <2> QED
    BY <2>5, <2>6
<1> QED
    BY <1>1, <1>2, <1>3

\* A text without separators is taken as it is.
LEMMA StrippedSame ==
    ASSUME NEW t \in Clean
    PROVE  Stripped(t) = t
<1>1. Len(t) \in Nat /\ \A i \in 1 .. Len(t) : t[i] \in Symbol /\ t[i] # "-"
    BY LenProperties, ElementOfSeq DEF Clean
<1>2. PICK f : /\ Stripped(t) = f[Len(t)]
               /\ f[0] = <<>>
               /\ \A i \in 1 .. Len(t) :
                    f[i] = IF t[i] = "-" THEN f[i - 1] ELSE Append(f[i - 1], t[i])
    BY <1>1, StrippedKept, Zenon
<1> DEFINE Same(k) == f[k] \in Clean /\ Len(f[k]) = k /\ \A i \in 1 .. k : f[k][i] = t[i]
           B == {k \in 0 .. Len(t) : ~Same(k)}
<1>3. ASSUME B # {} PROVE FALSE
  <2>1. PICK m \in B : \A k \in B : m <= k
    <3>1. B \subseteq Nat
      BY <1>1
    <3> QED
      BY <1>3, <3>1, LeastElement, Zenon
  <2>2. m # 0
    <3>1. Same(0)
      BY <1>2, EmptySeq DEF Clean
    <3> QED
      BY <3>1
  <2>3. m \in 1 .. Len(t) /\ m - 1 \in 0 .. Len(t) /\ m - 1 \notin B
    BY <1>1, <2>1, <2>2
  <2>4. Same(m - 1)
    BY <2>3
  <2>5. f[m] = Append(f[m - 1], t[m]) /\ t[m] \in Symbol \ {"-"}
    BY <1>1, <1>2, <2>3
  <2>6. f[m] \in Clean /\ Len(f[m]) = m
        /\ (\A i \in 1 .. m - 1 : f[m][i] = f[m - 1][i]) /\ f[m][m] = t[m]
    BY <2>3, <2>4, <2>5, AppendProperties DEF Clean
  <2>7. Same(m)
    BY <2>3, <2>4, <2>6
  <2> QED
    BY <2>1, <2>7
<1>4. Same(Len(t))
    BY <1>1, <1>3
<1> QED
    BY <1>1, <1>2, <1>4, SeqEqual DEF Clean

\* Stripping leaves nothing of nothing.
LEMMA StrippedEmpty == Stripped(<<>>) = <<>>
BY StrippedSame, EmptySeq DEF Clean

-----------------------------------------------------------------------------
(* Beginnings and rests.                                                    *)

\* A beginning is compared character by character.
LEMMA StartsAt ==
    ASSUME NEW p \in Text, NEW s \in Text
    PROVE  Starts(p, s) <=> Len(p) <= Len(s) /\ \A i \in 1 .. Len(p) : s[i] = p[i]
<1>1. Len(p) \in Nat /\ Len(s) \in Nat
    BY LenProperties DEF Text
<1>2. SubSeq(p, 1, Len(p)) = p
    BY SubSeqFull DEF Text
<1>3. ASSUME Len(p) <= Len(s)
      PROVE  SubSeq(s, 1, Len(p)) = p <=> \A i \in 1 .. Len(p) : s[i] = p[i]
  <2>1. \A i \in 1 .. Len(p) : s[i] \in Symbol
    BY <1>1, <1>3, ElementOfSeq DEF Text
  <2>2. /\ SubSeq(s, 1, Len(p)) \in Seq(Symbol)
        /\ Len(SubSeq(s, 1, Len(p))) = Len(p)
        /\ \A i \in 1 .. Len(p) : SubSeq(s, 1, Len(p))[i] = s[i]
    BY <1>1, <2>1, SubSeqProperties
  <2> QED
    BY <2>2, SeqEqual DEF Text
<1> QED
    BY <1>1, <1>2, <1>3 DEF Starts, IsPrefix

\* The beginnings that the rules ask for.
LEMMA Beginnings ==
    ASSUME NEW s \in Text
    PROVE  /\ \A a \in Symbol : Starts(<<a>>, s) <=> Len(s) >= 1 /\ s[1] = a
           /\ \A a, b \in Symbol :
                Starts(<<a, b>>, s) <=> Len(s) >= 2 /\ s[1] = a /\ s[2] = b
           /\ \A a, b, c \in Symbol :
                Starts(<<a, b, c>>, s) <=>
                  Len(s) >= 3 /\ s[1] = a /\ s[2] = b /\ s[3] = c
           /\ \A a, b, c, d \in Symbol :
                Starts(<<a, b, c, d>>, s) <=>
                  Len(s) >= 4 /\ s[1] = a /\ s[2] = b /\ s[3] = c /\ s[4] = d
<1>0. Len(s) \in Nat
    BY LenProperties DEF Text
<1>1. ASSUME NEW a \in Symbol
      PROVE  Starts(<<a>>, s) <=> Len(s) >= 1 /\ s[1] = a
  <2> DEFINE p == <<a>>
  <2>1. p \in Text /\ Len(p) = 1 /\ p[1] = a
    BY DEF Text
  <2> HIDE DEF p
  <2>2. Starts(p, s) <=> Len(p) <= Len(s) /\ \A i \in 1 .. Len(p) : s[i] = p[i]
    BY <2>1, StartsAt
  <2>3. Starts(p, s) <=> Len(s) >= 1 /\ s[1] = a
    BY <1>0, <2>1, <2>2
  <2> QED
    BY <2>3 DEF p
<1>2. ASSUME NEW a \in Symbol, NEW b \in Symbol
      PROVE  Starts(<<a, b>>, s) <=> Len(s) >= 2 /\ s[1] = a /\ s[2] = b
  <2> DEFINE p == <<a, b>>
  <2>1. p \in Text /\ Len(p) = 2 /\ p[1] = a /\ p[2] = b
    BY DEF Text
  <2> HIDE DEF p
  <2>2. Starts(p, s) <=> Len(p) <= Len(s) /\ \A i \in 1 .. Len(p) : s[i] = p[i]
    BY <2>1, StartsAt
  <2>3. Starts(p, s) <=> Len(s) >= 2 /\ s[1] = a /\ s[2] = b
    BY <1>0, <2>1, <2>2
  <2> QED
    BY <2>3 DEF p
<1>3. ASSUME NEW a \in Symbol, NEW b \in Symbol, NEW c \in Symbol
      PROVE  Starts(<<a, b, c>>, s) <=>
               Len(s) >= 3 /\ s[1] = a /\ s[2] = b /\ s[3] = c
  <2> DEFINE p == <<a, b, c>>
  <2>1. p \in Text /\ Len(p) = 3 /\ p[1] = a /\ p[2] = b /\ p[3] = c
    BY DEF Text
  <2> HIDE DEF p
  <2>2. Starts(p, s) <=> Len(p) <= Len(s) /\ \A i \in 1 .. Len(p) : s[i] = p[i]
    BY <2>1, StartsAt
  <2>3. Starts(p, s) <=> Len(s) >= 3 /\ s[1] = a /\ s[2] = b /\ s[3] = c
    BY <1>0, <2>1, <2>2
  <2> QED
    BY <2>3 DEF p
<1>4. ASSUME NEW a \in Symbol, NEW b \in Symbol, NEW c \in Symbol, NEW d \in Symbol
      PROVE  Starts(<<a, b, c, d>>, s) <=>
               Len(s) >= 4 /\ s[1] = a /\ s[2] = b /\ s[3] = c /\ s[4] = d
  <2> DEFINE p == <<a, b, c, d>>
  <2>1. p \in Text /\ Len(p) = 4 /\ p[1] = a /\ p[2] = b /\ p[3] = c /\ p[4] = d
    BY DEF Text
  <2> HIDE DEF p
  <2>2. Starts(p, s) <=> Len(p) <= Len(s) /\ \A i \in 1 .. Len(p) : s[i] = p[i]
    BY <2>1, StartsAt
  <2>3. Starts(p, s) <=> Len(s) >= 4 /\ s[1] = a /\ s[2] = b /\ s[3] = c /\ s[4] = d
    BY <1>0, <2>1, <2>2
  <2> QED
    BY <2>3 DEF p
<1> QED
    BY <1>1, <1>2, <1>3, <1>4

\* What is left of a text after its first n characters.
LEMMA RestProperties ==
    ASSUME NEW s \in Text, NEW n \in 0 .. Len(s)
    PROVE  /\ Rest(s, n) \in Text
           /\ Len(Rest(s, n)) = Len(s) - n
           /\ \A i \in 1 .. Len(s) - n : Rest(s, n)[i] = s[n + i]
<1>1. Len(s) \in Nat /\ \A i \in n + 1 .. Len(s) : s[i] \in Symbol
    BY LenProperties, ElementOfSeq DEF Text
<1>2. /\ SubSeq(s, n + 1, Len(s)) \in Seq(Symbol)
      /\ Len(SubSeq(s, n + 1, Len(s))) = IF n + 1 <= Len(s) THEN Len(s) - (n + 1) + 1 ELSE 0
      /\ \A i \in 1 .. Len(s) - (n + 1) + 1 : SubSeq(s, n + 1, Len(s))[i] = s[n + 1 + i - 1]
    BY <1>1, SubSeqProperties
<1> QED
    BY <1>1, <1>2 DEF Rest, Text

\* Putting a country code before a text moves every character.
LEMMA PlusBefore ==
    ASSUME NEW s \in Text
    PROVE  /\ <<"+">> \o s \in Text
           /\ Len(<<"+">> \o s) = Len(s) + 1
           /\ (<<"+">> \o s)[1] = "+"
           /\ \A i \in 1 .. Len(s) : (<<"+">> \o s)[i + 1] = s[i]
<1> DEFINE p == <<"+">>
<1>1. p \in Seq(Symbol) /\ Len(p) = 1 /\ p[1] = "+"
    BY DEF Symbol
<1>2. Len(s) \in Nat
    BY LenProperties DEF Text
<1> HIDE DEF p
<1>3. /\ p \o s \in Seq(Symbol)
      /\ Len(p \o s) = Len(p) + Len(s)
      /\ \A i \in 1 .. Len(p) + Len(s) : (p \o s)[i] = IF i <= Len(p) THEN p[i] ELSE s[i - Len(p)]
    BY <1>1, ConcatProperties DEF Text
<1>4. /\ p \o s \in Text
      /\ Len(p \o s) = Len(s) + 1
      /\ (p \o s)[1] = "+"
      /\ \A i \in 1 .. Len(s) : (p \o s)[i + 1] = s[i]
    BY <1>1, <1>2, <1>3 DEF Text
<1> QED
    BY <1>4 DEF p

\* The same with the code of Indonesia ...
LEMMA CodeBefore ==
    ASSUME NEW s \in Text
    PROVE  /\ <<"6", "2">> \o s \in Text
           /\ Len(<<"6", "2">> \o s) = Len(s) + 2
           /\ (<<"6", "2">> \o s)[1] = "6" /\ (<<"6", "2">> \o s)[2] = "2"
           /\ \A i \in 1 .. Len(s) : (<<"6", "2">> \o s)[i + 2] = s[i]
<1> DEFINE p == <<"6", "2">>
<1>1. p \in Seq(Symbol) /\ Len(p) = 2 /\ p[1] = "6" /\ p[2] = "2"
    BY DEF Symbol, Digit
<1>2. Len(s) \in Nat
    BY LenProperties DEF Text
<1> HIDE DEF p
<1>3. /\ p \o s \in Seq(Symbol)
      /\ Len(p \o s) = Len(p) + Len(s)
      /\ \A i \in 1 .. Len(p) + Len(s) : (p \o s)[i] = IF i <= Len(p) THEN p[i] ELSE s[i - Len(p)]
    BY <1>1, ConcatProperties DEF Text
<1>4. /\ p \o s \in Text
      /\ Len(p \o s) = Len(s) + 2
      /\ (p \o s)[1] = "6" /\ (p \o s)[2] = "2"
      /\ \A i \in 1 .. Len(s) : (p \o s)[i + 2] = s[i]
    BY <1>1, <1>2, <1>3 DEF Text
<1> QED
    BY <1>4 DEF p

\* ... which is the same in two steps or in one.
LEMMA PlusCodeBefore ==
    ASSUME NEW s \in Text
    PROVE  /\ <<"+", "6", "2">> \o s = <<"+">> \o (<<"6", "2">> \o s)
           /\ <<"+", "6", "2">> \o s \in Text
           /\ Len(<<"+", "6", "2">> \o s) = Len(s) + 3
           /\ LET u == <<"+", "6", "2">> \o s
              IN u[1] = "+" /\ u[2] = "6" /\ u[3] = "2"
           /\ \A i \in 1 .. Len(s) : (<<"+", "6", "2">> \o s)[i + 3] = s[i]
<1> DEFINE p == <<"+", "6", "2">>
           u == <<"+">> \o (<<"6", "2">> \o s)
<1>1. p \in Seq(Symbol) /\ Len(p) = 3 /\ p[1] = "+" /\ p[2] = "6" /\ p[3] = "2"
    BY DEF Symbol, Digit
<1>2. Len(s) \in Nat
    BY LenProperties DEF Text
<1> HIDE DEF p
<1>3. /\ p \o s \in Seq(Symbol)
      /\ Len(p \o s) = Len(p) + Len(s)
      /\ \A i \in 1 .. Len(p) + Len(s) : (p \o s)[i] = IF i <= Len(p) THEN p[i] ELSE s[i - Len(p)]
    BY <1>1, ConcatProperties DEF Text
<1>4. /\ p \o s \in Text
      /\ Len(p \o s) = Len(s) + 3
      /\ (p \o s)[1] = "+" /\ (p \o s)[2] = "6" /\ (p \o s)[3] = "2"
      /\ \A i \in 1 .. Len(s) : (p \o s)[i + 3] = s[i]
    BY <1>1, <1>2, <1>3 DEF Text
<1>5. /\ u \in Text
      /\ Len(u) = Len(s) + 3
      /\ u[1] = "+" /\ u[2] = "6" /\ u[3] = "2"
      /\ \A i \in 1 .. Len(s) : u[i + 3] = s[i]
  <2> DEFINE v == <<"6", "2">> \o s
  <2>1. /\ v \in Text /\ Len(v) = Len(s) + 2 /\ v[1] = "6" /\ v[2] = "2"
        /\ \A i \in 1 .. Len(s) : v[i + 2] = s[i]
    BY CodeBefore
  <2> HIDE DEF v
  <2> DEFINE w == <<"+">> \o v
  <2>2. w \in Text /\ Len(w) = Len(v) + 1 /\ w[1] = "+" /\ \A i \in 1 .. Len(v) : w[i + 1] = v[i]
    BY <2>1, PlusBefore
  <2> HIDE DEF w
  <2>3. w[2] = "6" /\ w[3] = "2"
    BY <1>2, <2>1, <2>2
  <2>4. \A i \in 1 .. Len(s) : w[i + 3] = s[i]
    <3> SUFFICES ASSUME NEW i \in 1 .. Len(s) PROVE w[i + 3] = s[i]
      OBVIOUS
    <3>1. i + 2 \in 1 .. Len(v) /\ w[(i + 2) + 1] = v[i + 2]
      BY <1>2, <2>1, <2>2
    <3> QED
      BY <1>2, <2>1, <3>1
  <2>5. Len(w) = Len(s) + 3
    BY <1>2, <2>1, <2>2
  <2> QED
    BY <2>2, <2>3, <2>4, <2>5 DEF v, w
<1> HIDE DEF u
<1>6. \A i \in 1 .. Len(p \o s) : (p \o s)[i] = u[i]
  <2> SUFFICES ASSUME NEW i \in 1 .. Len(p \o s) PROVE (p \o s)[i] = u[i]
    OBVIOUS
  <2>1. CASE i > 3
    <3>1. i - 3 \in 1 .. Len(s) /\ (i - 3) + 3 = i
      BY <1>2, <1>4, <2>1
    <3>2. (p \o s)[(i - 3) + 3] = s[i - 3] /\ u[(i - 3) + 3] = s[i - 3]
      BY <1>4, <1>5, <3>1
    <3> QED
      BY <3>1, <3>2
  <2>2. CASE i \in 1 .. 3
    BY <1>4, <1>5, <2>2
  <2> QED
    BY <1>2, <1>4, <2>1, <2>2
<1>7. p \o s = u
    BY <1>4, <1>5, <1>6, SeqEqual DEF Text
<1> QED
    BY <1>4, <1>7 DEF p, u

-----------------------------------------------------------------------------
(* NormalizePhone.                                                          *)

\* The spellings NormalizePhone looks at, and the number it makes of one.
Dialled(s) ==
    /\ \E p \in {<<"+">>, <<"0">>, <<"6", "2">>} : Starts(p, s)
    /\ ~Starts(<<"0", "0">>, s)

International(s) ==
    <<"+">> \o WithoutTrunk(IF Starts(<<"0">>, s) THEN <<"6", "2">> \o Rest(s, 1)
                            ELSE IF Starts(<<"+">>, s) THEN Rest(s, 1) ELSE s)

\* NormalizePhone in these terms.
LEMMA Normalized ==
    ASSUME NEW t
    PROVE  NormalizePhone(t) =
             IF Stripped(t) = <<>> THEN Accepted(<<>>)
             ELSE IF Dialled(Stripped(t)) /\ OnPlan(International(Stripped(t)))
                    THEN Accepted(International(Stripped(t)))
                    ELSE Refused
BY DEF NormalizePhone, Dialled, International

\* The symbols of the rules.
LEMMA Symbols == {"+", "0", "1", "2", "6", "-"} \subseteq Symbol
BY DEF Symbol, Digit

\* A plus in front of the rest of a text that starts with it.
LEMMA PlusBack ==
    ASSUME NEW s \in Text, Starts(<<"+">>, s)
    PROVE  Rest(s, 1) \in Text /\ <<"+">> \o Rest(s, 1) = s
<1>1. Len(s) \in Nat /\ Len(s) >= 1 /\ s[1] = "+"
    BY Symbols, Beginnings, LenProperties DEF Text
<1> DEFINE r == Rest(s, 1)
<1>2. r \in Text /\ Len(r) = Len(s) - 1 /\ \A i \in 1 .. Len(s) - 1 : r[i] = s[1 + i]
    BY <1>1, RestProperties
<1> HIDE DEF r
<1> DEFINE u == <<"+">> \o r
<1>3. u \in Text /\ Len(u) = Len(r) + 1 /\ u[1] = "+" /\ \A i \in 1 .. Len(r) : u[i + 1] = r[i]
    BY <1>2, PlusBefore
<1> HIDE DEF u
<1>4. \A i \in 1 .. Len(u) : u[i] = s[i]
  <2> SUFFICES ASSUME NEW i \in 1 .. Len(u) PROVE u[i] = s[i]
    OBVIOUS
  <2>1. CASE i = 1
    BY <1>1, <1>3, <2>1
  <2>2. CASE i > 1
    <3>1. i - 1 \in 1 .. Len(r) /\ (i - 1) + 1 = i /\ 1 + (i - 1) = i
      BY <1>1, <1>2, <1>3, <2>2
    <3>2. u[(i - 1) + 1] = r[i - 1] /\ r[i - 1] = s[1 + (i - 1)]
      BY <1>2, <1>3, <3>1
    <3> QED
      BY <3>1, <3>2
  <2> QED
    BY <1>1, <1>2, <1>3, <2>1, <2>2
<1>5. u = s
    BY <1>1, <1>2, <1>3, <1>4, SeqEqual DEF Text
<1> QED
    BY <1>2, <1>5 DEF u, r

\* Rests of rests.
LEMMA RestRest ==
    ASSUME NEW s \in Text, NEW n \in Nat, NEW k \in Nat, n + k <= Len(s)
    PROVE  Rest(Rest(s, n), k) = Rest(s, n + k)
<1>0. Len(s) \in Nat
    BY LenProperties DEF Text
<1>a. n \in 0 .. Len(s) /\ n + k \in 0 .. Len(s)
    BY <1>0
<1> DEFINE r == Rest(s, n)
           q == Rest(s, n + k)
<1>1. r \in Text /\ Len(r) = Len(s) - n /\ \A i \in 1 .. Len(s) - n : r[i] = s[n + i]
    BY <1>a, RestProperties
<1>2. q \in Text /\ Len(q) = Len(s) - (n + k)
      /\ \A i \in 1 .. Len(s) - (n + k) : q[i] = s[(n + k) + i]
    BY <1>a, RestProperties, Zenon
<1> HIDE DEF r, q
<1> DEFINE u == Rest(r, k)
<1>3. u \in Text /\ Len(u) = Len(r) - k /\ \A i \in 1 .. Len(r) - k : u[i] = r[k + i]
    BY <1>0, <1>1, RestProperties
<1> HIDE DEF u
<1>4. Len(u) = Len(q) /\ \A i \in 1 .. Len(u) : u[i] = q[i]
  <2>1. Len(u) = Len(q)
    BY <1>0, <1>1, <1>2, <1>3
  <2>2. ASSUME NEW i \in 1 .. Len(u) PROVE u[i] = q[i]
    <3>1. u[i] = r[k + i] /\ k + i \in 1 .. Len(s) - n
      BY <1>0, <1>1, <1>3, <2>2
    <3>2. r[k + i] = s[n + (k + i)] /\ n + (k + i) = (n + k) + i
      BY <1>0, <1>1, <3>1, <2>2
    <3> QED
      BY <1>0, <1>1, <1>2, <1>3, <3>1, <3>2
  <2> QED
    BY <2>1, <2>2
<1>5. u = q
    BY <1>2, <1>3, <1>4, SeqEqual DEF Text
<1> QED
    BY <1>5 DEF u, r, q

\* What starts with a plus stays, but for a trunk 0.
LEMMA InternationalOfPlus ==
    ASSUME NEW s \in Text, Starts(<<"+">>, s)
    PROVE  /\ International(s) = TrunkReplaced(s)
           /\ TrunkReplaced(s) \in Text
           /\ Starts(<<"+">>, TrunkReplaced(s))
<1> DEFINE r == Rest(s, 1)
<1>1. r \in Text /\ <<"+">> \o r = s
    BY PlusBack
<1>2. Len(s) \in Nat /\ Len(s) >= 1 /\ s[1] = "+"
    BY Symbols, Beginnings, LenProperties DEF Text
<1>3. Len(r) = Len(s) - 1 /\ \A i \in 1 .. Len(s) - 1 : r[i] = s[1 + i]
    BY <1>2, RestProperties
<1>4. ~Starts(<<"0">>, s) /\ ~Starts(<<"6", "2", "0">>, s)
    BY <1>2, Symbols, Beginnings
<1>5. International(s) = <<"+">> \o WithoutTrunk(r)
    BY <1>4 DEF International
<1>6. Starts(<<"6", "2", "0">>, r) <=> Starts(<<"+", "6", "2", "0">>, s)
  <2>1. Starts(<<"6", "2", "0">>, r) <=>
          Len(r) >= 3 /\ r[1] = "6" /\ r[2] = "2" /\ r[3] = "0"
    BY <1>1, Symbols, Beginnings
  <2>2. Starts(<<"+", "6", "2", "0">>, s) <=>
          Len(s) >= 4 /\ s[1] = "+" /\ s[2] = "6" /\ s[3] = "2" /\ s[4] = "0"
    BY Symbols, Beginnings
  <2> HIDE DEF r
  <2>3. Len(s) >= 4 => r[1] = s[2] /\ r[2] = s[3] /\ r[3] = s[4]
    BY <1>2, <1>3
  <2> QED
    BY <1>2, <1>3, <2>1, <2>2, <2>3
<1>7. CASE Starts(<<"+", "6", "2", "0">>, s)
  <2>1. WithoutTrunk(r) = <<"6", "2">> \o Rest(r, 3)
    BY <1>6, <1>7 DEF WithoutTrunk
  <2>2. Len(s) >= 4
    BY <1>7, Symbols, Beginnings
  <2>3. Rest(r, 3) = Rest(s, 4) /\ Rest(s, 4) \in Text
    <3>1. Rest(Rest(s, 1), 3) = Rest(s, 1 + 3)
      BY <1>2, <2>2, RestRest
    <3>2. Rest(s, 4) \in Text
      BY <1>2, <2>2, RestProperties
    <3> QED
      BY <3>1, <3>2
  <2>4. TrunkReplaced(s) = <<"+", "6", "2">> \o Rest(s, 4)
    BY <1>7 DEF TrunkReplaced
  <2>5. /\ <<"+", "6", "2">> \o Rest(s, 4) = <<"+">> \o (<<"6", "2">> \o Rest(s, 4))
        /\ <<"+", "6", "2">> \o Rest(s, 4) \in Text
        /\ <<"6", "2">> \o Rest(s, 4) \in Text
    BY <2>3, PlusCodeBefore, CodeBefore
  <2>6. International(s) = TrunkReplaced(s) /\ TrunkReplaced(s) \in Text
    BY <1>5, <2>1, <2>3, <2>4, <2>5
  <2>7. Starts(<<"+">>, <<"+", "6", "2">> \o Rest(s, 4))
    <3> DEFINE u == <<"+", "6", "2">> \o Rest(s, 4)
    <3>1. u \in Text /\ Len(u) = Len(Rest(s, 4)) + 3 /\ u[1] = "+"
      BY <2>3, PlusCodeBefore
    <3>2. Len(Rest(s, 4)) \in Nat
      BY <2>3, LenProperties DEF Text
    <3> HIDE DEF u
    <3>3. Starts(<<"+">>, u)
      BY <3>1, <3>2, Symbols, Beginnings
    <3> QED
      BY <3>3 DEF u
  <2> QED
    BY <2>4, <2>6, <2>7
<1>8. CASE ~Starts(<<"+", "6", "2", "0">>, s)
    BY <1>1, <1>4, <1>5, <1>6, <1>8 DEF WithoutTrunk, TrunkReplaced
<1> QED
    BY <1>7, <1>8

\* A leading 0 is the trunk prefix of Indonesia.
LEMMA InternationalOfZero ==
    ASSUME NEW s \in Text, Starts(<<"0">>, s), ~Starts(<<"0", "0">>, s)
    PROVE  /\ International(s) = <<"+", "6", "2">> \o Rest(s, 1)
           /\ International(s) \in Text
           /\ Starts(<<"+", "6", "2">>, International(s))
<1>1. Len(s) \in Nat /\ Len(s) >= 1 /\ s[1] = "0" /\ (Len(s) >= 2 => s[2] # "0")
    BY Symbols, Beginnings, LenProperties DEF Text
<1> DEFINE r == Rest(s, 1)
<1>2. r \in Text /\ Len(r) = Len(s) - 1 /\ \A i \in 1 .. Len(s) - 1 : r[i] = s[1 + i]
    BY <1>1, RestProperties
<1> HIDE DEF r
<1> DEFINE d == <<"6", "2">> \o r
<1>3. d \in Text /\ Len(d) = Len(r) + 2 /\ \A i \in 1 .. Len(r) : d[i + 2] = r[i]
    BY <1>2, CodeBefore
<1> HIDE DEF d
<1>4. ~Starts(<<"6", "2", "0">>, d)
  <2>1. Starts(<<"6", "2", "0">>, d) => Len(d) >= 3 /\ d[3] = "0"
    BY <1>3, Symbols, Beginnings
  <2>2. Len(d) >= 3 => d[1 + 2] = r[1] /\ r[1] = s[1 + 1]
    BY <1>1, <1>2, <1>3
  <2> QED
    BY <1>1, <1>2, <1>3, <2>1, <2>2
<1>5. International(s) = <<"+">> \o d
    BY <1>4 DEF International, WithoutTrunk, d, r
<1> DEFINE u == <<"+", "6", "2">> \o r
<1>6. <<"+">> \o d = u /\ u \in Text /\ Len(u) = Len(r) + 3
      /\ u[1] = "+" /\ u[2] = "6" /\ u[3] = "2"
    BY <1>2, PlusCodeBefore DEF d
<1> HIDE DEF u
<1>7. Starts(<<"+", "6", "2">>, u)
    BY <1>1, <1>2, <1>6, Symbols, Beginnings
<1> QED
    BY <1>5, <1>6, <1>7 DEF u, r

\* What starts with the code of Indonesia needs a plus, and no trunk 0.
LEMMA InternationalOfCode ==
    ASSUME NEW s \in Text, Starts(<<"6", "2">>, s)
    PROVE  /\ International(s) = <<"+">> \o TrunkReplaced(s)
           /\ TrunkReplaced(s) \in Text
           /\ Starts(<<"6", "2">>, TrunkReplaced(s))
           /\ International(s) \in Text
           /\ Starts(<<"+", "6", "2">>, International(s))
<1>1. Len(s) \in Nat /\ Len(s) >= 2 /\ s[1] = "6" /\ s[2] = "2"
    BY Symbols, Beginnings, LenProperties DEF Text
<1>2. ~Starts(<<"0">>, s) /\ ~Starts(<<"+">>, s) /\ ~Starts(<<"+", "6", "2", "0">>, s)
    BY <1>1, Symbols, Beginnings
<1>3. WithoutTrunk(s) = TrunkReplaced(s) /\ International(s) = <<"+">> \o WithoutTrunk(s)
    BY <1>2 DEF International, WithoutTrunk, TrunkReplaced
<1> DEFINE w == TrunkReplaced(s)
<1>4. w \in Text /\ Len(w) >= 2 /\ w[1] = "6" /\ w[2] = "2"
  <2>1. CASE Starts(<<"6", "2", "0">>, s)
    <3>1. w = <<"6", "2">> \o Rest(s, 3)
      BY <1>2, <2>1 DEF TrunkReplaced
    <3>2. Len(s) >= 3
      BY <2>1, Symbols, Beginnings
    <3>3. Rest(s, 3) \in Text /\ Len(Rest(s, 3)) \in Nat
      BY <1>1, <3>2, RestProperties
    <3> DEFINE v == <<"6", "2">> \o Rest(s, 3)
    <3>4. v \in Text /\ Len(v) = Len(Rest(s, 3)) + 2 /\ v[1] = "6" /\ v[2] = "2"
      BY <3>3, CodeBefore
    <3> HIDE DEF v
    <3>5. v \in Text /\ Len(v) >= 2 /\ v[1] = "6" /\ v[2] = "2"
      BY <3>3, <3>4
    <3> QED
      BY <3>1, <3>5 DEF v
  <2>2. CASE ~Starts(<<"6", "2", "0">>, s)
    BY <1>1, <1>2, <2>2 DEF TrunkReplaced
  <2> QED
    BY <2>1, <2>2
<1> HIDE DEF w
<1> DEFINE u == <<"+">> \o w
<1>5. Len(w) \in Nat
    BY <1>4, LenProperties DEF Text
<1>6. u \in Text /\ Len(u) = Len(w) + 1 /\ u[1] = "+" /\ \A i \in 1 .. Len(w) : u[i + 1] = w[i]
    BY <1>4, PlusBefore
<1> HIDE DEF u
<1>7. u[2] = "6" /\ u[3] = "2"
  <2>1. u[1 + 1] = w[1] /\ u[2 + 1] = w[2]
    BY <1>4, <1>5, <1>6
  <2> QED
    BY <1>4, <2>1
<1>8. Starts(<<"+", "6", "2">>, u) /\ Starts(<<"6", "2">>, w)
    BY <1>4, <1>5, <1>6, <1>7, Symbols, Beginnings
<1> QED
    BY <1>3, <1>4, <1>6, <1>8 DEF u, w

\* Whatever is dialled, a text comes out.
LEMMA InternationalText ==
    ASSUME NEW s \in Text, Dialled(s)
    PROVE  International(s) \in Text
BY InternationalOfPlus, InternationalOfZero, InternationalOfCode DEF Dialled

-----------------------------------------------------------------------------
(* Numbers on a plan.                                                       *)

\* A number on a plan is a plus, digits and, in Indonesia, no trunk 0.
LEMMA OnPlanShape ==
    ASSUME NEW e \in Text, OnPlan(e)
    PROVE  /\ Len(e) \in Nat /\ Len(e) >= 9
           /\ e[1] = "+"
           /\ \A i \in 2 .. Len(e) : e[i] \in Digit
           /\ ~Starts(<<"+", "6", "2", "0">>, e)
<1>1. Len(e) \in Nat
    BY LenProperties DEF Text
<1>2. Starts(<<"+">>, e) /\ AllDigits(Tail(e)) /\ Len(e) >= 9
  <2>1. CASE Starts(<<"+", "6", "2">>, e)
    <3>0. Len(e) \in 11 .. 15
      BY <2>1, Zenon DEF OnPlan, MatchesID
    <3>1. AllDigits(Tail(e))
      BY <2>1, Zenon DEF OnPlan, MatchesID
    <3>2. e[1] = "+" /\ Len(e) >= 3
      BY <2>1, Symbols, Beginnings
    <3>3. Starts(<<"+">>, e)
      BY <1>1, <3>2, Symbols, Beginnings
    <3>4. Len(e) >= 9
      <4>1. \A k \in 11 .. 15 : k >= 9
        OBVIOUS
      <4> QED
        BY <3>0, <4>1, Zenon
    <3> QED
      BY <3>1, <3>3, <3>4
  <2>2. CASE ~Starts(<<"+", "6", "2">>, e)
    <3>0. Len(e) \in 9 .. 16
      BY <2>2, Zenon DEF OnPlan, MatchesGeneric
    <3>1. Starts(<<"+">>, e) /\ AllDigits(Tail(e))
      BY <2>2, Zenon DEF OnPlan, MatchesGeneric
    <3>2. Len(e) >= 9
      <4>1. \A k \in 9 .. 16 : k >= 9
        OBVIOUS
      <4> QED
        BY <3>0, <4>1, Zenon
    <3> QED
      BY <3>1, <3>2
  <2> QED
    BY <2>1, <2>2
<1>3. e[1] = "+"
    BY <1>2, Symbols, Beginnings
<1>4. ASSUME NEW i \in 2 .. Len(e) PROVE e[i] \in Digit
  <2>1. e # <<>>
    BY <1>1, <1>2, EmptySeq
  <2>2. /\ Tail(e) \in Seq(Symbol) /\ Len(Tail(e)) = Len(e) - 1
        /\ \A j \in 1 .. Len(Tail(e)) : Tail(e)[j] = e[j + 1]
    BY <2>1, HeadTailProperties DEF Text
  <2>3. i - 1 \in 1 .. Len(Tail(e)) /\ (i - 1) + 1 = i
    BY <1>1, <1>4, <2>2
  <2>4. DOMAIN Tail(e) = 1 .. Len(Tail(e))
    BY <2>2, LenProperties
  <2>5. Tail(e)[i - 1] \in Range(Tail(e))
    BY <2>3, <2>4 DEF Range
  <2> QED
    BY <1>2, <2>2, <2>3, <2>5 DEF AllDigits
<1>5. ~Starts(<<"+", "6", "2", "0">>, e)
  <2>1. SUFFICES ASSUME Starts(<<"+", "6", "2", "0">>, e) PROVE FALSE
    OBVIOUS
  <2>2. Len(e) >= 4 /\ e[1] = "+" /\ e[2] = "6" /\ e[3] = "2" /\ e[4] = "0"
    BY <2>1, Symbols, Beginnings
  <2>3. Starts(<<"+", "6", "2">>, e)
    BY <1>1, <2>2, Symbols, Beginnings
  <2> QED
    BY <2>2, <2>3 DEF OnPlan, MatchesID
<1> QED
    BY <1>1, <1>2, <1>3, <1>4, <1>5

\* What NormalizePhone makes of a text is no number, one way or the other, or a
\* number that matches the pattern of its country (types/parse.go).
THEOREM NumbersAreCanonical ==
    ASSUME NEW t \in Text
    PROVE  LET n == NormalizePhone(t)
           IN /\ n.number \in Text
              /\ n \in {Refused, Accepted(n.number)}
              /\ n.number # <<>> => OnPlan(n.number)
<1>1. Stripped(t) \in Text
    BY StrippedClean, SeqMonotonic DEF Clean, Text
<1>2. <<>> \in Text
    BY EmptySeq DEF Text
<1>3. CASE Stripped(t) = <<>>
  <2>1. NormalizePhone(t) = Accepted(<<>>)
    BY <1>3, Normalized
  <2> QED
    BY <1>2, <2>1 DEF Accepted
<1>4. CASE Stripped(t) # <<>> /\ Dialled(Stripped(t)) /\ OnPlan(International(Stripped(t)))
  <2>1. NormalizePhone(t) = Accepted(International(Stripped(t)))
    BY <1>4, Normalized
  <2>2. International(Stripped(t)) \in Text
    BY <1>1, <1>4, InternationalText
  <2> QED
    BY <1>4, <2>1, <2>2 DEF Accepted
<1>5. CASE Stripped(t) # <<>> /\ ~(Dialled(Stripped(t)) /\ OnPlan(International(Stripped(t))))
  <2>1. NormalizePhone(t) = Refused
    BY <1>5, Normalized
  <2> QED
    BY <1>2, <2>1 DEF Refused
<1> QED
    BY <1>3, <1>4, <1>5

\* A number on a plan is dialled as it is, and has nothing to strip.
LEMMA PlanDialled ==
    ASSUME NEW e \in Text, OnPlan(e)
    PROVE  e # <<>> /\ Stripped(e) = e /\ Dialled(e) /\ International(e) = e
<1>1. /\ Len(e) \in Nat /\ Len(e) >= 9
      /\ e[1] = "+"
      /\ \A i \in 2 .. Len(e) : e[i] \in Digit
      /\ ~Starts(<<"+", "6", "2", "0">>, e)
    BY OnPlanShape
<1>2. Stripped(e) = e
  <2>1. \A i \in 1 .. Len(e) : e[i] \in Symbol \ {"-"}
    BY <1>1, Symbols, ElementOfSeq DEF Text, Digit
  <2>2. e \in Clean
    BY <2>1, <1>1, LenProperties DEF Text, Clean
  <2> QED
    BY <2>2, StrippedSame
<1>3. e # <<>>
    BY <1>1, EmptySeq
<1>4. Starts(<<"+">>, e) /\ ~Starts(<<"0", "0">>, e) /\ ~Starts(<<"6", "2", "0">>, e)
    BY <1>1, Symbols, Beginnings
<1>5. Dialled(e)
    BY <1>4 DEF Dialled
<1>6. TrunkReplaced(e) = e
    BY <1>1, <1>4, Zenon DEF TrunkReplaced
<1>7. International(e) = e
    BY <1>4, <1>6, InternationalOfPlus
<1> QED
    BY <1>2, <1>3, <1>5, <1>7

\* A number that matches the pattern of its country is read as itself: to
\* normalize twice is to normalize once (types/parse.go).
THEOREM NumbersAreFixed ==
    ASSUME NEW e \in Text, OnPlan(e)
    PROVE  NormalizePhone(e) = Accepted(e)
BY PlanDialled, Normalized

-----------------------------------------------------------------------------
(* The backfill.                                                            *)

\* What matches the pattern of Indonesia starts with its code.
LEMMA MatchesStarts ==
    ASSUME NEW s
    PROVE  /\ MatchesID(s) => Starts(<<"+", "6", "2">>, s)
           /\ MatchesGeneric(s) => Starts(<<"+">>, s)
           /\ Starts(<<"+", "6", "2">>, s) => (OnPlan(s) <=> MatchesID(s))
           /\ ~Starts(<<"+", "6", "2">>, s) => (OnPlan(s) <=> MatchesGeneric(s))
BY Zenon DEF MatchesID, MatchesGeneric, OnPlan

\* The two spellings of the rule agree on every text: the backfill stores what
\* NormalizePhone makes of it, and leaves as typed exactly what NormalizePhone
\* refuses or ignores ("keep them in sync, or the app and the backfill will
\* disagree", types/parse.go).
THEOREM BackfillIsNormalizePhone ==
    ASSUME NEW t \in Text
    PROVE  LET n == NormalizePhone(t).number
           IN Backfilled(t) = IF n = <<>> THEN t ELSE n
<1> DEFINE s == Stripped(t)
           w == TrunkReplaced(s)
           e == International(s)
           n == NormalizePhone(t).number
           code == <<"+", "6", "2">> \o Rest(w, 1)
<1>1. s \in Text
    BY StrippedClean, SeqMonotonic DEF Clean, Text
<1>2. Backfilled(t) =
        IF MatchesID(w) THEN w
        ELSE IF Starts(<<"+", "6", "2">>, w) THEN t
        ELSE IF MatchesGeneric(w) THEN w
        ELSE IF Starts(<<"6", "2">>, w) /\ MatchesID(<<"+">> \o w) THEN <<"+">> \o w
        ELSE IF Starts(<<"0">>, w) /\ MatchesID(code) THEN code
        ELSE t
    BY DEF Backfilled
<1>3. n = IF s # <<>> /\ Dialled(s) /\ OnPlan(e) THEN e ELSE <<>>
    BY Normalized DEF Accepted, Refused
<1>4. ASSUME OnPlan(e), Dialled(s) PROVE e # <<>>
  <2>1. e \in Text
    BY <1>1, <1>4, InternationalText
  <2> HIDE DEF e
  <2>2. Len(e) >= 9
    BY <1>4, <2>1, OnPlanShape
  <2> QED
    BY <2>2, EmptySeq
<1> HIDE DEF s, w, e, n, code
<1>5. CASE Starts(<<"+">>, s)
  <2>1. e = w /\ w \in Text /\ Starts(<<"+">>, w)
    BY <1>1, <1>5, InternationalOfPlus DEF e, w
  <2>2. s # <<>> /\ Dialled(s)
    BY <1>1, <1>5, Symbols, Beginnings, EmptySeq DEF Dialled
  <2>3. ~Starts(<<"6", "2">>, w) /\ ~Starts(<<"0">>, w)
    BY <2>1, Symbols, Beginnings
  <2>4. n = IF OnPlan(w) THEN w ELSE <<>>
    BY <1>3, <2>1, <2>2
  <2>5. Backfilled(t) = IF OnPlan(w) THEN w ELSE t
    BY <1>2, <2>3, MatchesStarts, Zenon
  <2> QED
    BY <1>4, <2>1, <2>2, <2>4, <2>5 DEF n
<1>6. CASE Starts(<<"0">>, s)
  <2>1. Len(s) \in Nat /\ Len(s) >= 1 /\ s[1] = "0"
    BY <1>1, <1>6, Symbols, Beginnings, LenProperties DEF Text
  <2>2. /\ ~Starts(<<"+">>, s) /\ ~Starts(<<"+", "6", "2">>, s) /\ ~Starts(<<"6", "2">>, s)
        /\ ~Starts(<<"+", "6", "2", "0">>, s) /\ ~Starts(<<"6", "2", "0">>, s)
    BY <1>1, <2>1, Symbols, Beginnings
  <2>3. w = s
    BY <2>2 DEF w, TrunkReplaced
  <2>4. Backfilled(t) = IF MatchesID(code) THEN code ELSE t
    BY <1>2, <1>6, <2>2, <2>3, MatchesStarts, Zenon
  <2>5. CASE Starts(<<"0", "0">>, s)
    <3>1. n = <<>>
      BY <1>3, <2>5 DEF Dialled
    <3>2. code[4] = "0"
      <4>1. Len(s) >= 2 /\ s[2] = "0"
        BY <1>1, <2>5, Symbols, Beginnings
      <4> DEFINE r == Rest(s, 1)
      <4>2. r \in Text /\ Len(r) = Len(s) - 1 /\ \A i \in 1 .. Len(s) - 1 : r[i] = s[1 + i]
        BY <1>1, <2>1, RestProperties
      <4> DEFINE u == <<"+", "6", "2">> \o r
      <4>3. \A i \in 1 .. Len(r) : u[i + 3] = r[i]
        BY <4>2, PlusCodeBefore
      <4>4. code = u
        BY <2>3 DEF code, r
      <4> HIDE DEF r, u
      <4>5. u[1 + 3] = r[1] /\ r[1] = s[1 + 1]
        BY <2>1, <4>1, <4>2, <4>3
      <4> QED
        BY <4>1, <4>4, <4>5
    <3>3. ~MatchesID(code)
      BY <3>2, Zenon DEF MatchesID
    <3> QED
      BY <2>4, <3>1, <3>3 DEF n
  <2>6. CASE ~Starts(<<"0", "0">>, s)
    <3>1. e = code /\ Starts(<<"+", "6", "2">>, e)
      BY <1>1, <1>6, <2>3, <2>6, InternationalOfZero DEF e, code
    <3>2. s # <<>> /\ Dialled(s)
      BY <1>6, <2>1, <2>6, EmptySeq DEF Dialled
    <3>3. n = IF MatchesID(code) THEN code ELSE <<>>
      BY <1>3, <3>1, <3>2, MatchesStarts, Zenon
    <3>4. MatchesID(code) => code # <<>>
      BY <1>4, <3>1, <3>2, MatchesStarts, Zenon
    <3> QED
      BY <2>4, <3>3, <3>4 DEF n
  <2> QED
    BY <2>5, <2>6
<1>7. CASE Starts(<<"6", "2">>, s)
  <2>1. /\ e = <<"+">> \o w /\ w \in Text /\ Starts(<<"6", "2">>, w)
        /\ Starts(<<"+", "6", "2">>, e)
    BY <1>1, <1>7, InternationalOfCode DEF e, w
  <2>2. Len(s) >= 2 /\ s[1] = "6" /\ Len(w) >= 2 /\ w[1] = "6"
    BY <1>1, <1>7, <2>1, Symbols, Beginnings
  <2>3. /\ ~Starts(<<"+">>, w) /\ ~Starts(<<"+", "6", "2">>, w) /\ ~Starts(<<"0">>, w)
        /\ ~Starts(<<"0", "0">>, s)
    BY <1>1, <2>1, <2>2, Symbols, Beginnings
  <2>4. s # <<>> /\ Dialled(s)
    BY <1>7, <2>2, <2>3, EmptySeq DEF Dialled
  <2>5. Backfilled(t) = IF MatchesID(e) THEN e ELSE t
    BY <1>2, <2>1, <2>3, MatchesStarts, Zenon
  <2>6. n = IF MatchesID(e) THEN e ELSE <<>>
    BY <1>3, <2>1, <2>4, MatchesStarts, Zenon
  <2>7. MatchesID(e) => e # <<>>
    BY <1>4, <2>1, <2>4, MatchesStarts, Zenon
  <2> QED
    BY <2>5, <2>6, <2>7 DEF n
<1>8. CASE ~Starts(<<"+">>, s) /\ ~Starts(<<"0">>, s) /\ ~Starts(<<"6", "2">>, s)
  <2>1. n = <<>>
    BY <1>3, <1>8 DEF Dialled
  <2>2. ~Starts(<<"+", "6", "2">>, s) /\ ~Starts(<<"+", "6", "2", "0">>, s)
        /\ ~Starts(<<"6", "2", "0">>, s)
    <3>1. Len(s) \in Nat
      BY <1>1, LenProperties DEF Text
    <3>2. Len(s) >= 2 => ~(s[1] = "6" /\ s[2] = "2")
      BY <1>1, <1>8, Symbols, Beginnings
    <3>3. Len(s) >= 1 => s[1] # "+"
      BY <1>1, <1>8, Symbols, Beginnings
    <3> QED
      BY <1>1, <3>1, <3>2, <3>3, Symbols, Beginnings
  <2>3. w = s
    BY <2>2 DEF w, TrunkReplaced
  <2>4. Backfilled(t) = t
    BY <1>2, <1>8, <2>2, <2>3, MatchesStarts, Zenon
  <2> QED
    BY <2>1, <2>4 DEF n
<1> QED
    BY <1>5, <1>6, <1>7, <1>8

-----------------------------------------------------------------------------
(* What is stored.                                                          *)

\* A stored text that is read as no number or as itself.
Settled(p) == NormalizePhone(p) \in {Refused, Accepted(<<>>), Accepted(p)}

\* Whatever text it came from, what the handlers store and what the backfill
\* leaves is never read as another number (auth/database.go and register.go
\* store what NormalizePhone returns, migration 000007 what its CASE yields).
THEOREM StoredNumbersSettle ==
    ASSUME NEW t \in Text
    PROVE  /\ Settled(NormalizePhone(t).number)
           /\ Settled(Backfilled(t)) /\ Backfilled(t) \in Text
<1> DEFINE n == NormalizePhone(t)
<1>1. n.number \in Text /\ n \in {Refused, Accepted(n.number)}
      /\ (n.number # <<>> => OnPlan(n.number))
    BY NumbersAreCanonical
<1>2. Backfilled(t) = IF n.number = <<>> THEN t ELSE n.number
    BY BackfillIsNormalizePhone
<1> HIDE DEF n
<1>3. CASE n.number = <<>>
  <2>1. NormalizePhone(<<>>) = Accepted(<<>>)
    BY Normalized, StrippedEmpty
  <2>2. n \in {Refused, Accepted(<<>>)}
    BY <1>1, <1>3
  <2> QED
    BY <1>2, <1>3, <2>1, <2>2 DEF Settled, n
<1>4. CASE n.number # <<>>
  <2>1. NormalizePhone(n.number) = Accepted(n.number)
    BY <1>1, <1>4, NumbersAreFixed
  <2> QED
    BY <1>1, <1>2, <1>4, <2>1 DEF Settled, n
<1> QED
    BY <1>3, <1>4

\* Nothing is accepted, and is no number.
LEMMA EmptyAccepted == NormalizePhone(<<>>) = Accepted(<<>>) /\ Settled(<<>>)
BY Normalized, StrippedEmpty DEF Settled

-----------------------------------------------------------------------------
(* The rule, declaratively.                                                 *)

\* The spellings of a number: an Indonesian one can be dialled with or without
\* the code, and the trunk 0 may have been left in.
Spellings(e) ==
    IF Starts(<<"+", "6", "2">>, e)
      THEN {p \o Rest(e, 3) : p \in {<<"+", "6", "2">>, <<"+", "6", "2", "0">>,
                                     <<"6", "2">>, <<"6", "2", "0">>, <<"0">>}}
      ELSE {e}

\* What a beginning is put before.
LEMMA Joined ==
    ASSUME NEW p \in Text, NEW x \in Text
    PROVE  /\ p \o x \in Text
           /\ Len(p \o x) = Len(p) + Len(x)
           /\ \A i \in 1 .. Len(p) : (p \o x)[i] = p[i]
           /\ \A i \in 1 .. Len(x) : (p \o x)[Len(p) + i] = x[i]
<1>1. Len(p) \in Nat /\ Len(x) \in Nat
    BY LenProperties DEF Text
<1> DEFINE u == p \o x
<1>2. /\ u \in Text
      /\ Len(u) = Len(p) + Len(x)
      /\ \A i \in 1 .. Len(p) + Len(x) : u[i] = IF i <= Len(p) THEN p[i] ELSE x[i - Len(p)]
    BY ConcatProperties DEF Text
<1> HIDE DEF u
<1>3. \A i \in 1 .. Len(p) : u[i] = p[i]
    BY <1>1, <1>2
<1>4. ASSUME NEW i \in 1 .. Len(x) PROVE u[Len(p) + i] = x[i]
  <2>1. Len(p) + i \in 1 .. Len(p) + Len(x) /\ ~(Len(p) + i <= Len(p))
        /\ (Len(p) + i) - Len(p) = i
    BY <1>1
  <2> QED
    BY <1>2, <2>1
<1> QED
    BY <1>2, <1>3, <1>4 DEF u

\* A text is its beginning and its rest, and nothing else is.
LEMMA SplitAt ==
    ASSUME NEW p \in Text, NEW x \in Text, NEW s \in Text
    PROVE  /\ Starts(p, p \o x) /\ Rest(p \o x, Len(p)) = x
           /\ Starts(p, s) => s = p \o Rest(s, Len(p)) /\ Rest(s, Len(p)) \in Text
<1>1. Len(p) \in Nat /\ Len(x) \in Nat /\ Len(s) \in Nat
    BY LenProperties DEF Text
<1>2. Starts(p, p \o x) /\ Rest(p \o x, Len(p)) = x
  <2> DEFINE u == p \o x
  <2>1. /\ u \in Text /\ Len(u) = Len(p) + Len(x)
        /\ \A i \in 1 .. Len(p) : u[i] = p[i]
        /\ \A i \in 1 .. Len(x) : u[Len(p) + i] = x[i]
    BY Joined
  <2> HIDE DEF u
  <2>2. Starts(p, u)
    BY <1>1, <2>1, StartsAt
  <2> DEFINE r == Rest(u, Len(p))
  <2>3. Len(p) \in 0 .. Len(u)
    BY <1>1, <2>1
  <2>4. r \in Text /\ Len(r) = Len(u) - Len(p)
        /\ \A i \in 1 .. Len(u) - Len(p) : r[i] = u[Len(p) + i]
    BY <2>1, <2>3, RestProperties, Zenon
  <2> HIDE DEF r
  <2>5. Len(r) = Len(x) /\ Len(u) - Len(p) = Len(x)
    BY <1>1, <2>1, <2>4
  <2>6. \A i \in 1 .. Len(r) : r[i] = x[i]
    BY <2>1, <2>4, <2>5
  <2>7. r = x
    BY <2>4, <2>5, <2>6, SeqEqual DEF Text
  <2> QED
    BY <2>2, <2>7 DEF u, r
<1>3. ASSUME Starts(p, s)
      PROVE  s = p \o Rest(s, Len(p)) /\ Rest(s, Len(p)) \in Text
  <2>1. Len(p) <= Len(s) /\ \A i \in 1 .. Len(p) : s[i] = p[i]
    BY <1>3, StartsAt
  <2>2. Len(p) \in 0 .. Len(s)
    BY <1>1, <2>1
  <2> DEFINE r == Rest(s, Len(p))
             u == p \o r
  <2>3. r \in Text /\ Len(r) = Len(s) - Len(p)
        /\ \A i \in 1 .. Len(s) - Len(p) : r[i] = s[Len(p) + i]
    BY <2>2, RestProperties, Zenon
  <2> HIDE DEF r
  <2>4. /\ u \in Text /\ Len(u) = Len(p) + Len(r)
        /\ \A i \in 1 .. Len(p) : u[i] = p[i]
        /\ \A i \in 1 .. Len(r) : u[Len(p) + i] = r[i]
    BY <2>3, Joined
  <2> HIDE DEF u
  <2>5. Len(u) = Len(s)
    BY <1>1, <2>3, <2>4
  <2>6. ASSUME NEW i \in 1 .. Len(s) PROVE s[i] = u[i]
    <3>1. CASE i \in 1 .. Len(p)
      BY <2>1, <2>4, <3>1
    <3>2. CASE i \notin 1 .. Len(p)
      <4>1. i - Len(p) \in 1 .. Len(r) /\ Len(p) + (i - Len(p)) = i
        BY <1>1, <2>3, <3>2
      <4>2. u[Len(p) + (i - Len(p))] = r[i - Len(p)]
            /\ r[i - Len(p)] = s[Len(p) + (i - Len(p))]
        BY <2>3, <2>4, <4>1
      <4> QED
        BY <4>1, <4>2
    <3> QED
      BY <3>1, <3>2
  <2>7. s = u
    BY <2>4, <2>5, <2>6, SeqEqual DEF Text
  <2> QED
    BY <2>3, <2>7 DEF u, r
<1> QED
    BY <1>2, <1>3

\* The beginnings as texts.
LEMMA Codes ==
    /\ <<"+">> \in Text /\ Len(<<"+">>) = 1
    /\ <<"0">> \in Text /\ Len(<<"0">>) = 1
    /\ <<"6", "2">> \in Text /\ Len(<<"6", "2">>) = 2
    /\ <<"6", "2", "0">> \in Text /\ Len(<<"6", "2", "0">>) = 3
    /\ <<"+", "6", "2">> \in Text /\ Len(<<"+", "6", "2">>) = 3
    /\ <<"+", "6", "2", "0">> \in Text /\ Len(<<"+", "6", "2", "0">>) = 4
BY Symbols DEF Text

\* What a number is made of is one of its spellings.
LEMMA DialledIsSpelling ==
    ASSUME NEW s \in Text, Dialled(s)
    PROVE  s \in Spellings(International(s))
<1> DEFINE e == International(s)
<1>1. e \in Text
    BY InternationalText
<1>2. ASSUME NEW x \in Text, e = <<"+", "6", "2">> \o x,
             NEW p \in {<<"+", "6", "2">>, <<"+", "6", "2", "0">>,
                        <<"6", "2">>, <<"6", "2", "0">>, <<"0">>}, s = p \o x
      PROVE  s \in Spellings(e)
  <2> DEFINE q == <<"+", "6", "2">>
  <2>q. q \in Text /\ Len(q) = 3
    BY Codes
  <2> HIDE DEF q
  <2>s. Starts(q, q \o x) /\ Rest(q \o x, Len(q)) = x
    BY <2>q, SplitAt
  <2> HIDE DEF e
  <2>1. Starts(<<"+", "6", "2">>, e) /\ Rest(e, 3) = x
    BY <1>2, <2>q, <2>s DEF q
  <2> QED
    BY <1>2, <2>1 DEF Spellings
<1> HIDE DEF e
<1>3. CASE Starts(<<"+">>, s)
  <2>1. e = TrunkReplaced(s)
    BY <1>3, InternationalOfPlus DEF e
  <2>2. CASE Starts(<<"+", "6", "2", "0">>, s)
    <3> DEFINE x == Rest(s, 4)
    <3>1. s = <<"+", "6", "2", "0">> \o x /\ x \in Text
      BY <2>2, Codes, SplitAt
    <3>2. e = <<"+", "6", "2">> \o x
      BY <2>1, <2>2 DEF TrunkReplaced
    <3> HIDE DEF x
    <3> QED
      BY <1>2, <3>1, <3>2 DEF e
  <2>3. CASE ~Starts(<<"+", "6", "2", "0">>, s)
    <3>1. s[1] = "+"
      BY <1>3, Symbols, Beginnings
    <3>2. ~Starts(<<"6", "2", "0">>, s)
      BY <3>1, Symbols, Beginnings
    <3>3. e = s
      BY <2>1, <2>3, <3>2 DEF TrunkReplaced
    <3>4. CASE Starts(<<"+", "6", "2">>, s)
      <4> DEFINE x == Rest(s, 3)
      <4>1. s = <<"+", "6", "2">> \o x /\ x \in Text
        BY <3>4, Codes, SplitAt
      <4> HIDE DEF x
      <4> QED
        BY <1>2, <3>3, <4>1 DEF e
    <3>5. CASE ~Starts(<<"+", "6", "2">>, s)
      BY <3>3, <3>5 DEF Spellings, e
    <3> QED
      BY <3>4, <3>5
  <2> QED
    BY <2>2, <2>3
<1>4. CASE Starts(<<"0">>, s)
  <2> DEFINE x == Rest(s, 1)
  <2>1. e = <<"+", "6", "2">> \o x
    BY <1>4, InternationalOfZero DEF e, Dialled
  <2>2. s = <<"0">> \o x /\ x \in Text
    BY <1>4, Codes, SplitAt
  <2> HIDE DEF x
  <2> QED
    BY <1>2, <2>1, <2>2 DEF e
<1>5. CASE Starts(<<"6", "2">>, s)
  <2>1. e = <<"+">> \o TrunkReplaced(s)
    BY <1>5, InternationalOfCode DEF e
  <2>2. Len(s) >= 2 /\ s[1] = "6"
    BY <1>5, Symbols, Beginnings
  <2>3. ~Starts(<<"+", "6", "2", "0">>, s)
    BY <2>2, Symbols, Beginnings
  <2>4. CASE Starts(<<"6", "2", "0">>, s)
    <3> DEFINE x == Rest(s, 3)
    <3>1. s = <<"6", "2", "0">> \o x /\ x \in Text
      BY <2>4, Codes, SplitAt
    <3>2. e = <<"+">> \o (<<"6", "2">> \o x)
      BY <2>1, <2>3, <2>4 DEF TrunkReplaced
    <3> HIDE DEF x
    <3>3. e = <<"+", "6", "2">> \o x
      BY <3>1, <3>2, PlusCodeBefore
    <3> QED
      BY <1>2, <3>1, <3>3 DEF e
  <2>5. CASE ~Starts(<<"6", "2", "0">>, s)
    <3> DEFINE x == Rest(s, 2)
    <3>1. s = <<"6", "2">> \o x /\ x \in Text
      BY <1>5, Codes, SplitAt
    <3>2. e = <<"+">> \o s
      BY <2>1, <2>3, <2>5 DEF TrunkReplaced
    <3> HIDE DEF x
    <3>3. e = <<"+", "6", "2">> \o x
      BY <3>1, <3>2, PlusCodeBefore
    <3> QED
      BY <1>2, <3>1, <3>3 DEF e
  <2> QED
    BY <2>4, <2>5
<1> QED
    BY <1>3, <1>4, <1>5 DEF Dialled, e

\* Every spelling of a number on a plan is dialled as that number.
LEMMA SpellingIsDialled ==
    ASSUME NEW e \in Text, OnPlan(e), NEW s \in Spellings(e)
    PROVE  s \in Text /\ s # <<>> /\ Dialled(s) /\ International(s) = e
<1>1. CASE ~Starts(<<"+", "6", "2">>, e)
  <2>1. s = e
    BY <1>1 DEF Spellings
  <2> QED
    BY <2>1, PlanDialled
<1>2. CASE Starts(<<"+", "6", "2">>, e)
  <2> DEFINE x == Rest(e, 3)
  <2>1. x \in Text /\ e = <<"+", "6", "2">> \o x
    BY <1>2, Codes, SplitAt
  <2>2. Len(x) \in Nat /\ Len(x) >= 1 /\ x[1] # "0"
    <3>1. e[4] # "0"
      BY <1>2, Zenon DEF OnPlan, MatchesID
    <3>2. Len(e) \in Nat /\ Len(e) >= 9
      BY OnPlanShape
    <3>3. Len(x) = Len(e) - 3 /\ \A i \in 1 .. Len(e) - 3 : x[i] = e[3 + i]
      <4>1. 3 \in 0 .. Len(e)
        BY <3>2
      <4> QED
        BY <4>1, RestProperties, Zenon
    <3> HIDE DEF x
    <3>4. x[1] = e[3 + 1]
      BY <3>2, <3>3
    <3> QED
      BY <3>1, <3>2, <3>3, <3>4
  <2> HIDE DEF x
  <2>3. PICK p \in {<<"+", "6", "2">>, <<"+", "6", "2", "0">>,
                    <<"6", "2">>, <<"6", "2", "0">>, <<"0">>} : s = p \o x
    BY <1>2 DEF Spellings, x
  <2>4. CASE p = <<"+", "6", "2">>
    BY <2>1, <2>3, <2>4, PlanDialled
  <2>5. CASE p = <<"+", "6", "2", "0">>
    <3>1. /\ s \in Text /\ Len(s) = 4 + Len(x)
          /\ \A i \in 1 .. 4 : s[i] = <<"+", "6", "2", "0">>[i]
          /\ Starts(<<"+", "6", "2", "0">>, s) /\ Rest(s, 4) = x
      <4> DEFINE q == <<"+", "6", "2", "0">>
      <4>1. q \in Text /\ Len(q) = 4
        BY Codes
      <4> HIDE DEF q
      <4>2. /\ q \o x \in Text /\ Len(q \o x) = Len(q) + Len(x)
            /\ \A i \in 1 .. Len(q) : (q \o x)[i] = q[i]
            /\ Starts(q, q \o x) /\ Rest(q \o x, Len(q)) = x
        BY <2>1, <4>1, Joined, SplitAt
      <4>3. s = q \o x
        BY <2>3, <2>5 DEF q
      <4>4. /\ s \in Text /\ Len(s) = 4 + Len(x)
            /\ \A i \in 1 .. 4 : s[i] = q[i]
            /\ Starts(q, s) /\ Rest(s, 4) = x
        BY <4>1, <4>2, <4>3
      <4> QED
        BY <4>4 DEF q
    <3>2. s[1] = "+" /\ Len(s) >= 1
      BY <2>2, <3>1
    <3>3. Starts(<<"+">>, s) /\ ~Starts(<<"0", "0">>, s)
      BY <3>1, <3>2, Symbols, Beginnings
    <3>4. TrunkReplaced(s) = <<"+", "6", "2">> \o x
      BY <3>1 DEF TrunkReplaced
    <3>5. International(s) = e
      BY <2>1, <3>1, <3>3, <3>4, InternationalOfPlus
    <3> QED
      BY <3>1, <3>2, <3>3, <3>5, EmptySeq DEF Dialled
  <2>6. CASE p = <<"6", "2">>
    <3>1. /\ s \in Text /\ Len(s) = Len(x) + 2 /\ s[1] = "6" /\ s[2] = "2"
          /\ \A i \in 1 .. Len(x) : s[i + 2] = x[i]
      BY <2>1, <2>3, <2>6, CodeBefore
    <3>2. s[3] = x[1]
      <4>1. s[1 + 2] = x[1]
        BY <2>2, <3>1
      <4> QED
        BY <4>1
    <3>3. /\ Starts(<<"6", "2">>, s) /\ ~Starts(<<"0", "0">>, s)
          /\ ~Starts(<<"6", "2", "0">>, s) /\ ~Starts(<<"+", "6", "2", "0">>, s)
      BY <2>2, <3>1, <3>2, Symbols, Beginnings
    <3>4. TrunkReplaced(s) = s
      BY <3>3 DEF TrunkReplaced
    <3>5. International(s) = <<"+">> \o (<<"6", "2">> \o x)
      BY <2>3, <2>6, <3>1, <3>3, <3>4, InternationalOfCode
    <3>6. International(s) = e
      BY <2>1, <3>5, PlusCodeBefore
    <3> QED
      BY <2>2, <3>1, <3>3, <3>6, EmptySeq DEF Dialled
  <2>7. CASE p = <<"6", "2", "0">>
    <3>1. /\ s \in Text /\ Len(s) = 3 + Len(x)
          /\ \A i \in 1 .. 3 : s[i] = <<"6", "2", "0">>[i]
          /\ Starts(<<"6", "2", "0">>, s) /\ Rest(s, 3) = x
      <4> DEFINE q == <<"6", "2", "0">>
      <4>1. q \in Text /\ Len(q) = 3
        BY Codes
      <4> HIDE DEF q
      <4>2. /\ q \o x \in Text /\ Len(q \o x) = Len(q) + Len(x)
            /\ \A i \in 1 .. Len(q) : (q \o x)[i] = q[i]
            /\ Starts(q, q \o x) /\ Rest(q \o x, Len(q)) = x
        BY <2>1, <4>1, Joined, SplitAt
      <4>3. s = q \o x
        BY <2>3, <2>7 DEF q
      <4>4. /\ s \in Text /\ Len(s) = 3 + Len(x)
            /\ \A i \in 1 .. 3 : s[i] = q[i]
            /\ Starts(q, s) /\ Rest(s, 3) = x
        BY <4>1, <4>2, <4>3
      <4> QED
        BY <4>4 DEF q
    <3>2. s[1] = "6" /\ s[2] = "2" /\ Len(s) >= 2
      BY <2>2, <3>1
    <3>3. /\ Starts(<<"6", "2">>, s) /\ ~Starts(<<"0", "0">>, s)
          /\ ~Starts(<<"+", "6", "2", "0">>, s)
      BY <3>1, <3>2, Symbols, Beginnings
    <3>4. TrunkReplaced(s) = <<"6", "2">> \o x
      BY <3>1, <3>3 DEF TrunkReplaced
    <3>5. International(s) = <<"+">> \o (<<"6", "2">> \o x)
      BY <3>1, <3>3, <3>4, InternationalOfCode
    <3>6. International(s) = e
      BY <2>1, <3>5, PlusCodeBefore
    <3> QED
      BY <3>1, <3>2, <3>3, <3>6, EmptySeq DEF Dialled
  <2>8. CASE p = <<"0">>
    <3>1. /\ s \in Text /\ Len(s) = 1 + Len(x) /\ s[1] = "0" /\ s[2] = x[1]
          /\ Starts(<<"0">>, s) /\ Rest(s, 1) = x
      <4> DEFINE q == <<"0">>
      <4>1. q \in Text /\ Len(q) = 1 /\ q[1] = "0"
        BY Codes
      <4> HIDE DEF q
      <4>2. /\ q \o x \in Text /\ Len(q \o x) = Len(q) + Len(x)
            /\ \A i \in 1 .. Len(q) : (q \o x)[i] = q[i]
            /\ \A i \in 1 .. Len(x) : (q \o x)[Len(q) + i] = x[i]
            /\ Starts(q, q \o x) /\ Rest(q \o x, Len(q)) = x
        BY <2>1, <4>1, Joined, SplitAt
      <4>3. s = q \o x
        BY <2>3, <2>8 DEF q
      <4>4. s[1 + 1] = x[1]
        BY <2>2, <4>1, <4>2, <4>3
      <4>5. /\ s \in Text /\ Len(s) = 1 + Len(x) /\ s[1] = "0"
            /\ Starts(q, s) /\ Rest(s, 1) = x
        BY <4>1, <4>2, <4>3
      <4> QED
        BY <4>4, <4>5 DEF q
    <3>2. ~Starts(<<"0", "0">>, s)
      BY <2>2, <3>1, Symbols, Beginnings
    <3>3. International(s) = e
      BY <2>1, <3>1, <3>2, InternationalOfZero
    <3> QED
      BY <2>2, <3>1, <3>2, <3>3, EmptySeq DEF Dialled
  <2> QED
    BY <2>3, <2>4, <2>5, <2>6, <2>7, <2>8
<1> QED
    BY <1>1, <1>2

\* What NormalizePhone accepts, stated without saying how: a text is read as a
\* number if and only if the number fits its plan and what the text leaves
\* without separators is one of the number's spellings ("All three spellings of
\* a Kabanjahe landline must converge", parse_test.go; "a different (mobile)
\* number that belongs to someone else", parse.go).
THEOREM SpellingsConverge ==
    ASSUME NEW t \in Text, NEW e \in Text, e # <<>>
    PROVE  NormalizePhone(t) = Accepted(e) <=> OnPlan(e) /\ Stripped(t) \in Spellings(e)
<1>1. Stripped(t) \in Text
    BY StrippedClean, SeqMonotonic DEF Clean, Text
<1>2. ASSUME NormalizePhone(t) = Accepted(e)
      PROVE  OnPlan(e) /\ Stripped(t) \in Spellings(e)
  <2>1. Dialled(Stripped(t)) /\ OnPlan(International(Stripped(t)))
        /\ e = International(Stripped(t))
    BY <1>2, Normalized DEF Accepted, Refused
  <2> QED
    BY <1>1, <2>1, DialledIsSpelling
<1>3. ASSUME OnPlan(e), Stripped(t) \in Spellings(e)
      PROVE  NormalizePhone(t) = Accepted(e)
  <2>1. Stripped(t) # <<>> /\ Dialled(Stripped(t)) /\ International(Stripped(t)) = e
    BY <1>3, SpellingIsDialled
  <2> QED
    BY <1>3, <2>1, Normalized
<1> QED
    BY <1>2, <1>3
=============================================================================
