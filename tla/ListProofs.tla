------------------------------ MODULE ListProofs ------------------------------
(***************************************************************************)
(* Facts about the lists and dictionaries of Lists.  The library states    *)
(* induction for operators; here it is derived for sets, from the library's *)
(* theorem that < is well founded on Nat.                                  *)
(***************************************************************************)
EXTENDS Lists, SequenceTheorems, WellFoundedInduction, TLAPS

-----------------------------------------------------------------------------
(* Induction.                                                               *)

LEMMA Least ==
  ASSUME NEW T \in SUBSET Nat, T # {}
  PROVE  \E n \in T : \A m \in T : n <= m
<1> DEFINE R == OpToRel(<, Nat)
<1>1. IsWellFoundedOn(R, Nat)
  BY NatLessThanWellFounded
<1>2. \A n, m \in Nat : m < n => <<m, n>> \in R
  BY Zenon DEF OpToRel
<1> HIDE DEF R
<1>3. PICK n \in T : \A m \in T : ~(<<m, n>> \in R)
  <2>1. \E n \in T : \A m \in T : ~(<<m, n>> \in R)
    BY <1>1, WFMin
  <2> QED  BY <2>1, Zenon
<1>4. \A m \in T : ~(m < n)
  BY <1>2, <1>3, Zenon
<1> QED  BY <1>4

LEMMA Induction ==
  ASSUME NEW T, 0 \in T, \A n \in T : n \in Nat => n + 1 \in T
  PROVE  Nat \subseteq T
<1>1. ASSUME Nat \ T # {} PROVE FALSE
  <2>1. PICK n \in Nat \ T : \A m \in Nat \ T : n <= m
    BY <1>1, Least
  <2>2. n # 0 /\ n - 1 \in Nat /\ n - 1 \in T
    BY <2>1
  <2>3. (n - 1) + 1 \in T
    BY <2>2
  <2> QED  BY <2>1, <2>3
<1> QED  BY <1>1

LEMMA ListInduction ==
  ASSUME NEW A, NEW T, <<>> \in T,
         \A seq \in T : seq \in Seq(A) => \A x \in A : Append(seq, x) \in T
  PROVE  Seq(A) \subseteq T
<1> DEFINE N == {n \in Nat : \A seq \in Seq(A) : Len(seq) = n => seq \in T}
<1>1. 0 \in N
  BY EmptySeq
<1>2. ASSUME NEW n \in N PROVE n + 1 \in N
  <2>1. ASSUME NEW seq \in Seq(A), Len(seq) = n + 1 PROVE seq \in T
    <3>1. seq # <<>>
      BY <1>2, <2>1, EmptySeq
    <3>2. PICK s \in Seq(A), x \in A : seq = Append(s, x)
      BY <3>1, SequenceEmptyOrAppend
    <3>3. Len(s) = n
      BY <1>2, <2>1, <3>2, AppendProperties, LenProperties
    <3> QED  BY <1>2, <3>2, <3>3
  <2> QED  BY <1>2, <2>1
<1>3. Nat \subseteq N
  BY <1>1, <1>2, Induction
<1> QED  BY <1>3, LenProperties

\* A loop through 1..N whose body keeps a value in S, and the values it runs through.
Closed(N, S, base, step) ==
  base \in S /\ \A n \in 1..N : \A x \in S : step[n][x] \in S

Loop(f, N, base, step) ==
  f[0] = base /\ \A n \in 1..N : f[n] = step[n][f[n - 1]]

LEMMA Recursion ==
  ASSUME NEW N \in Nat, NEW S, NEW base, NEW step, Closed(N, S, base, step)
  PROVE  \E f \in [0..N -> S] : Loop(f, N, base, step)
<1> USE DEF Closed
<1> DEFINE Upto(m, f) == f[0] = base /\ \A n \in 1..m : f[n] = step[n][f[n - 1]]
<1> DEFINE T == {m \in Nat : m <= N => \E f \in [0..m -> S] : Upto(m, f)}
<1>1. 0 \in T
  <2> DEFINE f == [i \in 0..0 |-> base]
  <2>1. f \in [0..0 -> S] /\ Upto(0, f)
    OBVIOUS
  <2> QED  BY <2>1
<1>2. ASSUME NEW m \in T PROVE m + 1 \in T
  <2>1. ASSUME m + 1 <= N PROVE \E f \in [0..(m + 1) -> S] : Upto(m + 1, f)
    <3>1. PICK f \in [0..m -> S] : Upto(m, f)
      BY <1>2, <2>1
    <3> DEFINE g == [i \in 0..(m + 1) |-> IF i = m + 1 THEN step[m + 1][f[m]] ELSE f[i]]
    <3>2. m \in Nat /\ m + 1 \in 1..N /\ m \in 0..m
      BY <1>2, <2>1
    <3>3. step[m + 1][f[m]] \in S
      BY <3>1, <3>2
    <3>4. g \in [0..(m + 1) -> S]
      BY <3>1, <3>2, <3>3
    <3>5. g[0] = base
      BY <3>1, <3>2
    <3>6. ASSUME NEW n \in 1..(m + 1) PROVE g[n] = step[n][g[n - 1]]
      <4>1. CASE n = m + 1
        BY <3>2, <4>1
      <4>2. CASE n # m + 1
        <5>1. n \in 1..m /\ n - 1 \in 0..m /\ n - 1 # m + 1 /\ n \in 0..(m + 1) /\ n - 1 \in 0..(m + 1)
          BY <3>2, <3>6, <4>2
        <5>2. g[n] = f[n] /\ g[n - 1] = f[n - 1]
          BY <4>2, <5>1
        <5> HIDE DEF g
        <5> QED  BY <3>1, <5>1, <5>2
      <4> QED  BY <4>1, <4>2
    <3> HIDE DEF g
    <3> QED  BY <3>4, <3>5, <3>6
  <2> QED  BY <1>2, <2>1
<1>3. N \in T
  <2> HIDE DEF T
  <2>1. \A n \in T : n \in Nat => n + 1 \in T
    BY <1>2
  <2> QED  BY <1>1, <2>1, Induction
<1> QED  BY <1>3 DEF Loop

-----------------------------------------------------------------------------
(* Kept.                                                                    *)

KeptStep(kept, seq, S) ==
  [n \in 0..Len(seq) |->
     IF n = 0 THEN <<>>
     ELSE IF seq[n] \in S THEN Append(kept[n - 1], seq[n]) ELSE kept[n - 1]]

\* The prefixes of the list that is kept.
KeptSoFar(f, seq, S) ==
  /\ f[0] = <<>>
  /\ \A n \in 1..Len(seq) :
       f[n] = IF seq[n] \in S THEN Append(f[n - 1], seq[n]) ELSE f[n - 1]

LEMMA KeptPrefixes ==
  ASSUME NEW A, NEW seq \in Seq(A), NEW S
  PROVE  \E f \in [0..Len(seq) -> Seq(A)] : KeptSoFar(f, seq, S) /\ Kept(seq, S) = f[Len(seq)]
<1> DEFINE N == Len(seq)
           step == [n \in 1..N |-> [x \in Seq(A) |-> IF seq[n] \in S THEN Append(x, seq[n]) ELSE x]]
           kept == CHOOSE g : g = KeptStep(g, seq, S)
<1>1. N \in Nat /\ <<>> \in Seq(A) /\ \A n \in 1..N : seq[n] \in A
  BY EmptySeq, LenProperties
<1>2. \A n \in 1..N : \A x \in Seq(A) : step[n][x] \in Seq(A)
  BY <1>1, AppendProperties
<1>3. PICK f \in [0..N -> Seq(A)] : f[0] = <<>> /\ \A n \in 1..N : f[n] = step[n][f[n - 1]]
  <2>1. Closed(N, Seq(A), <<>>, step)
    BY <1>1, <1>2 DEF Closed
  <2> HIDE DEF step, N
  <2>2. \E f \in [0..N -> Seq(A)] : Loop(f, N, <<>>, step)
    BY <1>1, <2>1, Recursion
  <2> QED  BY <2>2 DEF Loop
<1>4. KeptSoFar(f, seq, S)
  <2>1. ASSUME NEW n \in 1..N PROVE n - 1 \in 0..N
    BY <1>1
  <2> QED  BY <1>3, <2>1 DEF KeptSoFar
<1>5. f = KeptStep(f, seq, S)
  <2> DEFINE g == KeptStep(f, seq, S)
  <2>1. DOMAIN g = 0..N
    BY DEF KeptStep
  <2>2. ASSUME NEW n \in 0..N PROVE f[n] = g[n]
    <3>1. n = 0 \/ n \in 1..N
      BY <1>1
    <3> QED  BY <1>4, <3>1 DEF KeptSoFar, KeptStep
  <2>3. g = [n \in 0..N |-> g[n]]
    BY DEF KeptStep
  <2> HIDE DEF g
  <2>4. f = g
    BY <1>3, <2>1, <2>2, <2>3
  <2> QED  BY <2>4 DEF g
<1>6. kept = KeptStep(kept, seq, S)
  BY <1>5
<1>7. Kept(seq, S) = kept[N]
  BY DEF Kept, KeptStep
<1> HIDE DEF kept
<1>8. KeptSoFar(kept, seq, S)
  <2>1. ASSUME NEW n \in 0..N PROVE kept[n] = KeptStep(kept, seq, S)[n]
    BY <1>6
  <2>2. 0 \in 0..N /\ \A n \in 1..N : n \in 0..N /\ n # 0
    BY <1>1
  <2> QED  BY <2>1, <2>2 DEF KeptSoFar, KeptStep
<1>9. \A n \in 0..N : kept[n] = f[n]
  <2> DEFINE T == {n \in Nat : n <= N => kept[n] = f[n]}
  <2>1. 0 \in T
    BY <1>4, <1>8 DEF KeptSoFar
  <2>2. ASSUME NEW n \in T, n \in Nat PROVE n + 1 \in T
    <3>1. ASSUME n + 1 <= N PROVE kept[n + 1] = f[n + 1]
      <4>1. n + 1 \in 1..N /\ (n + 1) - 1 = n /\ kept[n] = f[n]
        BY <1>1, <2>2, <3>1
      <4> QED  BY <1>4, <1>8, <4>1 DEF KeptSoFar
    <3> QED  BY <2>2, <3>1
  <2>3. Nat \subseteq T
    <3> HIDE DEF T
    <3> QED  BY <2>1, <2>2, Induction
  <2> QED  BY <1>1, <2>3
<1>10. N \in 0..N
  BY <1>1
<1> QED  BY <1>3, <1>4, <1>7, <1>9, <1>10

\* Two lists with a common beginning keep the same of it.
SameUpto(s, t, n) ==
  /\ n \in Nat /\ Len(s) \in Nat /\ Len(t) \in Nat /\ n <= Len(s) /\ n <= Len(t)
  /\ \A i \in 1..n : s[i] = t[i]

LEMMA PrefixesAgree ==
  ASSUME NEW s, NEW t, NEW f, NEW g, NEW S, NEW n,
         KeptSoFar(f, s, S), KeptSoFar(g, t, S), SameUpto(s, t, n)
  PROVE  f[n] = g[n]
<1> USE DEF SameUpto
<1> DEFINE T == {m \in Nat : m <= n => f[m] = g[m]}
<1>1. 0 \in T
  BY DEF KeptSoFar
<1>2. ASSUME NEW m \in T, m \in Nat PROVE m + 1 \in T
  <2>1. ASSUME m + 1 <= n PROVE f[m + 1] = g[m + 1]
    <3>1. m + 1 \in 1..Len(s) /\ m + 1 \in 1..Len(t) /\ (m + 1) - 1 = m /\ f[m] = g[m]
          /\ m + 1 \in 1..n
      BY <1>2, <2>1
    <3> QED  BY <3>1 DEF KeptSoFar
  <2> QED  BY <1>2, <2>1
<1>3. Nat \subseteq T
  <2> HIDE DEF T
  <2> QED  BY <1>1, <1>2, Induction
<1> QED  BY <1>3

LEMMA KeptNothing ==
  ASSUME NEW S
  PROVE  Kept(<<>>, S) = <<>>
<1>1. PICK f \in [0..Len(<<>>) -> Seq({})] : KeptSoFar(f, <<>>, S) /\ Kept(<<>>, S) = f[Len(<<>>)]
  BY EmptySeq, KeptPrefixes
<1> QED  BY <1>1, EmptySeq DEF KeptSoFar

LEMMA KeptAppend ==
  ASSUME NEW A, NEW seq \in Seq(A), NEW x \in A, NEW S
  PROVE  Kept(Append(seq, x), S) = IF x \in S THEN Append(Kept(seq, S), x) ELSE Kept(seq, S)
<1> DEFINE long == Append(seq, x)
<1>1. /\ long \in Seq(A) /\ Len(long) = Len(seq) + 1 /\ long[Len(seq) + 1] = x
      /\ \A i \in 1..Len(seq) : long[i] = seq[i]
      /\ Len(seq) \in Nat
  BY AppendProperties, LenProperties
<1> HIDE DEF long
<1>2. PICK f \in [0..Len(seq) -> Seq(A)] : KeptSoFar(f, seq, S) /\ Kept(seq, S) = f[Len(seq)]
  BY KeptPrefixes
<1>3. PICK g \in [0..Len(long) -> Seq(A)] : KeptSoFar(g, long, S) /\ Kept(long, S) = g[Len(long)]
  BY <1>1, KeptPrefixes
<1>4. f[Len(seq)] = g[Len(seq)]
  <2>1. SameUpto(seq, long, Len(seq))
    BY <1>1 DEF SameUpto
  <2> QED  BY <1>2, <1>3, <2>1, PrefixesAgree
<1>5. Len(long) \in 1..Len(long) /\ Len(long) - 1 = Len(seq)
  BY <1>1
<1> QED  BY <1>1, <1>2, <1>3, <1>4, <1>5 DEF KeptSoFar, long

-----------------------------------------------------------------------------
(* Elements, and lists without repetition.                                  *)

Distinct(seq) == \A i, j \in DOMAIN seq : seq[i] = seq[j] => i = j

LEMMA ElementsOfList ==
  ASSUME NEW A, NEW seq \in Seq(A)
  PROVE  Elements(seq) \subseteq A
BY ElementOfSeq, LenProperties DEF Elements

LEMMA ElementsEmpty == Elements(<<>>) = {} /\ Distinct(<<>>)
BY EmptySeq DEF Elements, Distinct

LEMMA ElementsAppend ==
  ASSUME NEW A, NEW seq \in Seq(A), NEW x \in A
  PROVE  /\ Elements(Append(seq, x)) = Elements(seq) \cup {x}
         /\ Distinct(Append(seq, x)) <=> Distinct(seq) /\ x \notin Elements(seq)
<1> DEFINE long == Append(seq, x)
<1>1. /\ DOMAIN long = 1..(Len(seq) + 1) /\ long[Len(seq) + 1] = x
      /\ \A i \in 1..Len(seq) : long[i] = seq[i]
      /\ Len(seq) \in Nat /\ DOMAIN seq = 1..Len(seq)
  BY AppendProperties, LenProperties
<1>2. DOMAIN long = DOMAIN seq \cup {Len(seq) + 1} /\ Len(seq) + 1 \notin DOMAIN seq
  BY <1>1
<1> HIDE DEF long
<1>3. Elements(long) = Elements(seq) \cup {x}
  BY <1>1, <1>2 DEF Elements
<1>4. Distinct(long) => Distinct(seq) /\ x \notin Elements(seq)
  BY <1>1, <1>2 DEF Elements, Distinct
<1>5. Distinct(seq) /\ x \notin Elements(seq) => Distinct(long)
  BY <1>1, <1>2 DEF Elements, Distinct
<1> QED  BY <1>3, <1>4, <1>5 DEF long

\* A list comprehension returns the elements it asks for, in order.
LEMMA KeptList ==
  ASSUME NEW A, NEW seq \in Seq(A), NEW S
  PROVE  /\ Kept(seq, S) \in Seq(A)
         /\ Elements(Kept(seq, S)) = Elements(seq) \cap S
         /\ Len(Kept(seq, S)) <= Len(seq)
         /\ Distinct(seq) => Distinct(Kept(seq, S))
<1> DEFINE Good(s) == /\ Kept(s, S) \in Seq(A)
                      /\ Elements(Kept(s, S)) = Elements(s) \cap S
                      /\ Len(Kept(s, S)) <= Len(s)
                      /\ Distinct(s) => Distinct(Kept(s, S))
           T == {s \in Seq(A) : Good(s)}
<1>1. <<>> \in T
  <2>1. <<>> \in Seq(A) /\ Kept(<<>>, S) = <<>> /\ Len(<<>>) <= Len(<<>>)
    BY KeptNothing, EmptySeq
  <2>2. Elements(<<>>) = Elements(<<>>) \cap S /\ Distinct(<<>>)
    BY ElementsEmpty
  <2> QED  BY <2>1, <2>2
<1>2. ASSUME NEW s \in T, NEW x \in A PROVE Append(s, x) \in T
  <2>1. Kept(Append(s, x), S) = IF x \in S THEN Append(Kept(s, S), x) ELSE Kept(s, S)
    BY <1>2, KeptAppend
  <2>2. /\ Append(s, x) \in Seq(A) /\ Len(Append(s, x)) = Len(s) + 1
        /\ Elements(Append(s, x)) = Elements(s) \cup {x}
        /\ Distinct(Append(s, x)) <=> Distinct(s) /\ x \notin Elements(s)
    BY <1>2, AppendProperties, ElementsAppend
  <2>3. CASE x \in S
    <3> DEFINE k == Kept(s, S)
    <3>0. k \in Seq(A)
      BY <1>2
    <3>1. /\ Append(k, x) \in Seq(A) /\ Len(Append(k, x)) = Len(k) + 1
          /\ Elements(Append(k, x)) = Elements(k) \cup {x}
          /\ Distinct(Append(k, x)) <=> Distinct(k) /\ x \notin Elements(k)
      <4> HIDE DEF k
      <4> QED  BY <3>0, AppendProperties, ElementsAppend
    <3>2. Len(s) \in Nat /\ Len(k) \in Nat /\ Len(k) <= Len(s)
      BY <1>2, LenProperties
    <3>3. /\ Kept(Append(s, x), S) = Append(k, x)
          /\ Elements(k) = Elements(s) \cap S /\ (Distinct(s) => Distinct(k))
      BY <1>2, <2>1, <2>3
    <3> HIDE DEF k
    <3>4. Elements(Append(k, x)) = Elements(Append(s, x)) \cap S
      BY <2>2, <2>3, <3>1, <3>3
    <3>5. Distinct(Append(s, x)) => Distinct(Append(k, x))
      BY <2>2, <3>1, <3>3
    <3>6. Len(Append(k, x)) <= Len(Append(s, x))
      BY <2>2, <3>1, <3>2
    <3> QED  BY <2>2, <3>1, <3>3, <3>4, <3>5, <3>6
  <2>4. CASE x \notin S
    <3>1. Len(s) \in Nat /\ Len(Kept(s, S)) \in Nat
      BY <1>2, LenProperties
    <3> QED  BY <1>2, <2>1, <2>2, <2>4, <3>1
  <2> QED  BY <2>3, <2>4
<1>3. Seq(A) \subseteq T
  <2> HIDE DEF T
  <2> QED  BY <1>1, <1>2, ListInduction
<1> QED  BY <1>3

\* Only what the list holds matters.
LEMMA KeptSame ==
  ASSUME NEW A, NEW seq \in Seq(A), NEW S, NEW R, Elements(seq) \cap S = Elements(seq) \cap R
  PROVE  Kept(seq, S) = Kept(seq, R)
<1> DEFINE T == {s \in Seq(A) : Elements(s) \cap S = Elements(s) \cap R => Kept(s, S) = Kept(s, R)}
<1>1. <<>> \in T
  BY KeptNothing, EmptySeq
<1>2. ASSUME NEW s \in T, NEW x \in A PROVE Append(s, x) \in T
  <2>1. /\ Append(s, x) \in Seq(A)
        /\ Elements(Append(s, x)) = Elements(s) \cup {x}
    BY <1>2, AppendProperties, ElementsAppend
  <2>2. /\ Kept(Append(s, x), S) = IF x \in S THEN Append(Kept(s, S), x) ELSE Kept(s, S)
        /\ Kept(Append(s, x), R) = IF x \in R THEN Append(Kept(s, R), x) ELSE Kept(s, R)
    BY <1>2, KeptAppend
  <2>3. ASSUME Elements(Append(s, x)) \cap S = Elements(Append(s, x)) \cap R
        PROVE  Kept(s, S) = Kept(s, R) /\ (x \in S <=> x \in R)
    <3>1. Elements(s) \cap S = Elements(s) \cap R
      BY <2>1, <2>3
    <3>2. x \in S <=> x \in R
      BY <2>1, <2>3
    <3> QED  BY <1>2, <3>1, <3>2
  <2> QED  BY <2>1, <2>2, <2>3
<1>3. Seq(A) \subseteq T
  <2> HIDE DEF T
  <2> QED  BY <1>1, <1>2, ListInduction
<1> QED  BY <1>3

LEMMA KeptAll ==
  ASSUME NEW A, NEW seq \in Seq(A), NEW S, Elements(seq) \subseteq S
  PROVE  Kept(seq, S) = seq
<1> DEFINE T == {s \in Seq(A) : Elements(s) \subseteq S => Kept(s, S) = s}
<1>1. <<>> \in T
  BY KeptNothing, EmptySeq
<1>2. ASSUME NEW s \in T, NEW x \in A PROVE Append(s, x) \in T
  BY <1>2, AppendProperties, ElementsAppend, KeptAppend
<1>3. Seq(A) \subseteq T
  <2> HIDE DEF T
  <2> QED  BY <1>1, <1>2, ListInduction
<1> QED  BY <1>3

-----------------------------------------------------------------------------
(* Dictionaries of lists.                                                   *)

Dicts(K, V) == UNION {[D -> Seq(V)] : D \in SUBSET K}

\* g is f with v added to the list of k.
FilesOne(g, f, k, v) ==
  /\ DOMAIN g = DOMAIN f \cup {k}
  /\ Listed(g, k) = Append(Listed(f, k), v)
  /\ \A x : x # k => Listed(g, x) = Listed(f, x)

LEMMA FiledLists ==
  ASSUME NEW K, NEW V, NEW f \in Dicts(K, V), NEW k \in K, NEW v \in V
  PROVE  Filed(f, k, v) \in Dicts(K, V) /\ FilesOne(Filed(f, k, v), f, k, v)
<1>1. DOMAIN f \subseteq K /\ \A x \in DOMAIN f : f[x] \in Seq(V)
  BY DEF Dicts
<1> DEFINE new == IF k \in DOMAIN f THEN Append(f[k], v) ELSE <<v>>
           g == Put(f, k, new)
<1>2. <<v>> = Append(<<>>, v) /\ <<v>> \in Seq(V)
  BY EmptySeq, AppendProperties
<1>3. new = Append(Listed(f, k), v) /\ new \in Seq(V)
  BY <1>1, <1>2, AppendProperties DEF Listed
<1>4. Filed(f, k, v) = g
  BY DEF Filed
<1> HIDE DEF new
<1>5. /\ g = [x \in DOMAIN g |-> g[x]] /\ DOMAIN g = DOMAIN f \cup {k}
      /\ g[k] = new /\ \A x \in DOMAIN f \ {k} : g[x] = f[x]
  BY DEF Put
<1> HIDE DEF g
<1>6. g \in Dicts(K, V)
  <2>1. \A x \in DOMAIN g : g[x] \in Seq(V)
    BY <1>1, <1>3, <1>5
  <2>2. g \in [DOMAIN g -> Seq(V)] /\ DOMAIN g \in SUBSET K
    BY <1>1, <1>5, <2>1
  <2> QED  BY <2>2 DEF Dicts
<1>7. Listed(g, k) = Append(Listed(f, k), v)
  BY <1>3, <1>5 DEF Listed
<1>8. ASSUME NEW x, x # k PROVE Listed(g, x) = Listed(f, x)
  BY <1>5, <1>8 DEF Listed
<1> QED  BY <1>4, <1>5, <1>6, <1>7, <1>8 DEF FilesOne

GroupedStep(filed, seq, key, value) ==
  [n \in 0..Len(seq) |->
     IF n = 0 THEN EmptyDict ELSE Filed(filed[n - 1], key[seq[n]], value[seq[n]])]

Groups(f, seq, key, value) ==
  /\ f[0] = EmptyDict
  /\ \A n \in 1..Len(seq) : f[n] = Filed(f[n - 1], key[seq[n]], value[seq[n]])

LEMMA GroupsAgree ==
  ASSUME NEW s, NEW t, NEW f, NEW g, NEW key, NEW value, NEW n,
         Groups(f, s, key, value), Groups(g, t, key, value), SameUpto(s, t, n)
  PROVE  f[n] = g[n]
<1> USE DEF SameUpto
<1> DEFINE T == {m \in Nat : m <= n => f[m] = g[m]}
<1>1. 0 \in T
  BY DEF Groups
<1>2. ASSUME NEW m \in T, m \in Nat PROVE m + 1 \in T
  <2>1. ASSUME m + 1 <= n PROVE f[m + 1] = g[m + 1]
    <3>1. m + 1 \in 1..Len(s) /\ m + 1 \in 1..Len(t) /\ (m + 1) - 1 = m /\ f[m] = g[m]
          /\ m + 1 \in 1..n
      BY <1>2, <2>1
    <3> QED  BY <3>1 DEF Groups
  <2> QED  BY <1>2, <2>1
<1>3. Nat \subseteq T
  <2> HIDE DEF T
  <2> QED  BY <1>1, <1>2, Induction
<1> QED  BY <1>3

Keyed(A, K, V, key, value) == \A x \in A : key[x] \in K /\ value[x] \in V

LEMMA GroupedGroups ==
  ASSUME NEW A, NEW K, NEW V, NEW key, NEW value, Keyed(A, K, V, key, value), NEW seq \in Seq(A)
  PROVE  \E f \in [0..Len(seq) -> Dicts(K, V)] :
           Groups(f, seq, key, value) /\ Grouped(seq, key, value) = f[Len(seq)]
<1> DEFINE N == Len(seq)
           step == [n \in 1..N |-> [f \in Dicts(K, V) |-> Filed(f, key[seq[n]], value[seq[n]])]]
           filed == CHOOSE g : g = GroupedStep(g, seq, key, value)
<1>1. N \in Nat /\ \A n \in 1..N : seq[n] \in A /\ key[seq[n]] \in K /\ value[seq[n]] \in V
  <2>1. N \in Nat /\ \A n \in 1..N : seq[n] \in A
    BY LenProperties
  <2> QED  BY <2>1 DEF Keyed
<1>2. EmptyDict \in Dicts(K, V)
  <2>1. EmptyDict \in [{} -> Seq(V)] /\ {} \in SUBSET K
    BY DEF EmptyDict
  <2> QED  BY <2>1 DEF Dicts
<1>3. ASSUME NEW n \in 1..N, NEW x \in Dicts(K, V) PROVE step[n][x] \in Dicts(K, V)
  <2>1. Filed(x, key[seq[n]], value[seq[n]]) \in Dicts(K, V)
    BY <1>1, FiledLists
  <2> QED  BY <2>1
<1>4. PICK f \in [0..N -> Dicts(K, V)] : f[0] = EmptyDict /\ \A n \in 1..N : f[n] = step[n][f[n - 1]]
  <2>1. Closed(N, Dicts(K, V), EmptyDict, step)
    <3> HIDE DEF step
    <3> QED  BY <1>2, <1>3 DEF Closed
  <2> HIDE DEF step, N
  <2>2. \E f \in [0..N -> Dicts(K, V)] : Loop(f, N, EmptyDict, step)
    BY <1>1, <2>1, Recursion
  <2> QED  BY <2>2 DEF Loop
<1>5. Groups(f, seq, key, value)
  <2>1. ASSUME NEW n \in 1..N PROVE f[n] = Filed(f[n - 1], key[seq[n]], value[seq[n]])
    <3>1. n - 1 \in 0..N
      BY <1>1
    <3>2. f[n - 1] \in Dicts(K, V)
      BY <1>4, <3>1
    <3> QED  BY <1>4, <3>2
  <2> QED  BY <1>4, <2>1 DEF Groups
<1>6. f = GroupedStep(f, seq, key, value)
  <2> DEFINE g == GroupedStep(f, seq, key, value)
  <2>1. DOMAIN g = 0..N
    BY DEF GroupedStep
  <2>2. ASSUME NEW n \in 0..N PROVE f[n] = g[n]
    <3>1. n = 0 \/ n \in 1..N
      BY <1>1
    <3> QED  BY <1>5, <3>1 DEF Groups, GroupedStep
  <2>3. g = [n \in 0..N |-> g[n]]
    BY DEF GroupedStep
  <2> HIDE DEF g
  <2>4. f = g
    BY <1>4, <2>1, <2>2, <2>3
  <2> QED  BY <2>4 DEF g
<1>7. filed = GroupedStep(filed, seq, key, value)
  BY <1>6
<1>8. Grouped(seq, key, value) = filed[N]
  BY DEF Grouped, GroupedStep
<1> HIDE DEF filed
<1>9. Groups(filed, seq, key, value)
  <2>1. ASSUME NEW n \in 0..N PROVE filed[n] = GroupedStep(filed, seq, key, value)[n]
    BY <1>7
  <2>2. 0 \in 0..N /\ \A n \in 1..N : n \in 0..N /\ n # 0
    BY <1>1
  <2> QED  BY <2>1, <2>2 DEF Groups, GroupedStep
<1>10. SameUpto(seq, seq, N)
  BY <1>1 DEF SameUpto
<1>11. filed[N] = f[N]
  <2> HIDE DEF N
  <2> QED  BY <1>5, <1>9, <1>10, GroupsAgree
<1> QED  BY <1>4, <1>5, <1>8, <1>11

LEMMA GroupedAppend ==
  ASSUME NEW A, NEW K, NEW V, NEW key, NEW value, Keyed(A, K, V, key, value),
         NEW seq \in Seq(A), NEW x \in A
  PROVE  /\ Grouped(seq, key, value) \in Dicts(K, V)
         /\ Grouped(Append(seq, x), key, value) = Filed(Grouped(seq, key, value), key[x], value[x])
<1> DEFINE long == Append(seq, x)
<1>1. /\ long \in Seq(A) /\ Len(long) = Len(seq) + 1 /\ long[Len(seq) + 1] = x
      /\ \A i \in 1..Len(seq) : long[i] = seq[i]
      /\ Len(seq) \in Nat
  BY AppendProperties, LenProperties
<1> HIDE DEF long
<1>2. PICK f \in [0..Len(seq) -> Dicts(K, V)] :
        Groups(f, seq, key, value) /\ Grouped(seq, key, value) = f[Len(seq)]
  BY GroupedGroups
<1>3. PICK g \in [0..Len(long) -> Dicts(K, V)] :
        Groups(g, long, key, value) /\ Grouped(long, key, value) = g[Len(long)]
  BY <1>1, GroupedGroups
<1>4. f[Len(seq)] = g[Len(seq)]
  <2>1. SameUpto(seq, long, Len(seq))
    BY <1>1 DEF SameUpto
  <2> QED  BY <1>2, <1>3, <2>1, GroupsAgree
<1>5. Len(long) \in 1..Len(long) /\ Len(long) - 1 = Len(seq) /\ Len(seq) \in 0..Len(seq)
  BY <1>1
<1> QED  BY <1>1, <1>2, <1>3, <1>4, <1>5 DEF Groups, long

LEMMA GroupedNothing ==
  ASSUME NEW key, NEW value
  PROVE  Grouped(<<>>, key, value) = EmptyDict
<1>1. Len(<<>>) = 0
  BY EmptySeq
<1> DEFINE only == [n \in 0..0 |-> EmptyDict]
           filed == CHOOSE g : g = GroupedStep(g, <<>>, key, value)
<1>2. only = GroupedStep(only, <<>>, key, value)
  BY <1>1 DEF GroupedStep
<1>3. filed = GroupedStep(filed, <<>>, key, value)
  BY <1>2
<1>4. Grouped(<<>>, key, value) = filed[Len(<<>>)]
  BY DEF Grouped, GroupedStep
<1> HIDE DEF filed
<1>5. filed[0] = EmptyDict
  <2>1. GroupedStep(filed, <<>>, key, value)[0] = EmptyDict
    BY <1>1 DEF GroupedStep
  <2> QED  BY <1>3, <2>1
<1> QED  BY <1>1, <1>4, <1>5

\* g has the value of every x of the list under its key, in order, and nothing else.
FiledBy(g, A, seq, key, value) ==
  /\ DOMAIN g = {key[x] : x \in Elements(seq)}
  /\ \A k : LET own == Kept(seq, {x \in A : key[x] = k})
           IN  Listed(g, k) = [i \in DOMAIN own |-> value[own[i]]]

LEMMA GroupedLists ==
  ASSUME NEW A, NEW K, NEW V, NEW key, NEW value, Keyed(A, K, V, key, value), NEW seq \in Seq(A)
  PROVE  /\ Grouped(seq, key, value) \in Dicts(K, V)
         /\ FiledBy(Grouped(seq, key, value), A, seq, key, value)
<1> DEFINE G(s) == Grouped(s, key, value)
           Own(s, k) == Kept(s, {x \in A : key[x] = k})
           Mapped(s) == [i \in DOMAIN s |-> value[s[i]]]
           Good(s) == /\ G(s) \in Dicts(K, V)
                      /\ DOMAIN G(s) = {key[x] : x \in Elements(s)}
                      /\ \A k : Listed(G(s), k) = Mapped(Own(s, k))
           T == {s \in Seq(A) : Good(s)}
<1>1. <<>> \in T
  <2>1. G(<<>>) = EmptyDict
    BY GroupedNothing
  <2>2. EmptyDict \in [{} -> Seq(V)] /\ {} \in SUBSET K /\ DOMAIN EmptyDict = {}
    BY DEF EmptyDict
  <2>3. EmptyDict \in Dicts(K, V)
    BY <2>2 DEF Dicts
  <2>4. {key[x] : x \in Elements(<<>>)} = {}
    BY ElementsEmpty
  <2>5. ASSUME NEW k PROVE Listed(EmptyDict, k) = Mapped(Own(<<>>, k))
    <3>1. Own(<<>>, k) = <<>>
      BY KeptNothing
    <3>2. Mapped(<<>>) = <<>>
      BY EmptySeq
    <3> QED  BY <2>2, <3>1, <3>2 DEF Listed
  <2> QED  BY <2>1, <2>2, <2>3, <2>4, <2>5, EmptySeq
<1>2. ASSUME NEW s \in T, NEW x \in A PROVE Append(s, x) \in T
  <2>0. s \in Seq(A) /\ Append(s, x) \in Seq(A) /\ key[x] \in K /\ value[x] \in V
    BY AppendProperties DEF Keyed
  <2>1. G(s) \in Dicts(K, V) /\ G(Append(s, x)) = Filed(G(s), key[x], value[x])
    BY <2>0, GroupedAppend
  <2>2. /\ G(Append(s, x)) \in Dicts(K, V)
        /\ DOMAIN G(Append(s, x)) = DOMAIN G(s) \cup {key[x]}
        /\ Listed(G(Append(s, x)), key[x]) = Append(Listed(G(s), key[x]), value[x])
        /\ \A k : k # key[x] => Listed(G(Append(s, x)), k) = Listed(G(s), k)
    <3>1. FilesOne(Filed(G(s), key[x], value[x]), G(s), key[x], value[x])
      BY <2>0, <2>1, FiledLists
    <3>2. Filed(G(s), key[x], value[x]) \in Dicts(K, V)
      BY <2>0, <2>1, FiledLists
    <3> QED  BY <2>1, <3>1, <3>2 DEF FilesOne
  <2>3. Elements(Append(s, x)) = Elements(s) \cup {x}
    BY <2>0, ElementsAppend
  <2>4. ASSUME NEW k PROVE Listed(G(Append(s, x)), k) = Mapped(Own(Append(s, x), k))
    <3>1. Own(Append(s, x), k) = IF key[x] = k THEN Append(Own(s, k), x) ELSE Own(s, k)
      BY <2>0, KeptAppend
    <3>2. Own(s, k) \in Seq(A)
      BY <2>0, KeptList
    <3>3. Listed(G(s), k) = Mapped(Own(s, k))
      BY <1>2
    <3>4. CASE key[x] = k
      <4> DEFINE own == Own(s, k)
      <4>1. Mapped(Append(own, x)) = Append(Mapped(own), value[x])
        <5> HIDE DEF own
        <5>0. own \in Seq(A)
          BY <3>2 DEF own
        <5>1. /\ DOMAIN own = 1..Len(own) /\ Len(own) \in Nat
              /\ \A i \in 1..Len(own) : own[i] \in A
          BY <5>0, LenProperties
        <5>2. /\ Append(own, x) \in Seq(A) /\ DOMAIN Append(own, x) = 1..(Len(own) + 1)
              /\ \A i \in 1..Len(own) : Append(own, x)[i] = own[i]
              /\ Append(own, x)[Len(own) + 1] = x
          BY <5>0, AppendProperties
        <5>3. Mapped(own) \in Seq(V) /\ Len(Mapped(own)) = Len(own)
          BY <5>1 DEF Keyed
        <5> QED  BY <5>1, <5>2, <5>3, <2>0
      <4> QED  BY <2>2, <3>1, <3>3, <3>4, <4>1
    <3>5. CASE key[x] # k
      BY <2>2, <3>1, <3>3, <3>5
    <3> QED  BY <3>4, <3>5
  <2>5. DOMAIN G(Append(s, x)) = {key[y] : y \in Elements(Append(s, x))}
    BY <1>2, <2>2, <2>3
  <2> QED  BY <2>0, <2>2, <2>4, <2>5
<1>3. Seq(A) \subseteq T
  <2> HIDE DEF T
  <2> QED  BY <1>1, <1>2, ListInduction
<1> QED  BY <1>3 DEF FiledBy

\* Only the keys and values of what the list holds matter.
LEMMA GroupedSame ==
  ASSUME NEW A, NEW K, NEW V, NEW key, NEW value, NEW key2, NEW value2,
         Keyed(A, K, V, key, value), Keyed(A, K, V, key2, value2),
         \A x \in A : key[x] = key2[x] /\ value[x] = value2[x], NEW seq \in Seq(A)
  PROVE  Grouped(seq, key, value) = Grouped(seq, key2, value2)
<1> DEFINE T == {s \in Seq(A) : Grouped(s, key, value) = Grouped(s, key2, value2)}
<1>1. <<>> \in T
  BY GroupedNothing, EmptySeq
<1>2. ASSUME NEW s \in T, NEW x \in A PROVE Append(s, x) \in T
  <2>0. s \in Seq(A) /\ Append(s, x) \in Seq(A)
    BY AppendProperties
  <2>1. Grouped(Append(s, x), key, value) = Filed(Grouped(s, key, value), key[x], value[x])
    BY <2>0, GroupedAppend
  <2>2. Grouped(Append(s, x), key2, value2) = Filed(Grouped(s, key2, value2), key2[x], value2[x])
    BY <2>0, GroupedAppend
  <2> QED  BY <2>0, <2>1, <2>2
<1>3. Seq(A) \subseteq T
  <2> HIDE DEF T
  <2> QED  BY <1>1, <1>2, ListInduction
<1> QED  BY <1>3

\* A key that is popped is gone, and the others keep their order.
LEMMA DroppedList ==
  ASSUME NEW A, NEW seq \in Seq(A), NEW x
  PROVE  /\ Dropped(seq, x) \in Seq(A)
         /\ Elements(Dropped(seq, x)) = Elements(seq) \ {x}
         /\ Distinct(seq) => Distinct(Dropped(seq, x))
<1>1. /\ Kept(seq, Elements(seq) \ {x}) \in Seq(A)
      /\ Elements(Kept(seq, Elements(seq) \ {x})) = Elements(seq) \cap (Elements(seq) \ {x})
      /\ Distinct(seq) => Distinct(Kept(seq, Elements(seq) \ {x}))
  BY KeptList
<1> QED  BY <1>1 DEF Dropped

\* Two dictionaries of lists that list the same are the same.
LEMMA SameLists ==
  ASSUME NEW K, NEW V, NEW W, NEW f \in Dicts(K, V), NEW g \in Dicts(K, W),
         DOMAIN f = DOMAIN g, \A k \in K : Listed(f, k) = Listed(g, k)
  PROVE  f = g
<1>1. DOMAIN f \subseteq K /\ f = [k \in DOMAIN f |-> f[k]] /\ g = [k \in DOMAIN g |-> g[k]]
  BY DEF Dicts
<1>2. \A k \in DOMAIN f : f[k] = g[k]
  BY <1>1 DEF Listed
<1> QED  BY <1>1, <1>2
=============================================================================
