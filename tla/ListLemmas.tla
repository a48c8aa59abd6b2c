------------------------------- MODULE ListLemmas -------------------------------
(***************************************************************************)
(* Lemmas about the lists that loops of the fetchers and of the Action     *)
(* Cache store work off: the elements of what is left of a list, and how   *)
(* often a value occurs in one.                                            *)
(***************************************************************************)
EXTENDS Naturals, Sequences, FiniteSets, FiniteSetTheorems, TLAPS

\* A loop takes the first of a list.
LEMMA TakeFirst ==
  ASSUME NEW S, NEW s \in Seq(S), s # << >>
  PROVE  /\ Head(s) \in S /\ Tail(s) \in Seq(S)
         /\ Len(s) > 1 => Tail(s) # << >>
         /\ {s[i] : i \in 1 .. Len(s)}
              \subseteq {Head(s)} \cup {Tail(s)[i] : i \in 1 .. Len(Tail(s))}
         /\ ~ Len(s) > 1 => {s[i] : i \in 1 .. Len(s)} = {Head(s)}
<1>1. /\ Len(s) \in Nat \ {0} /\ Head(s) = s[1] /\ s[1] \in S
      /\ Tail(s) \in Seq(S) /\ Len(Tail(s)) = Len(s) - 1
  OBVIOUS
<1>2. \A i \in 1 .. Len(s) - 1 : Tail(s)[i] = s[i + 1]
  OBVIOUS
<1>3. Len(s) > 1 => Tail(s) # << >>
  <2>1. Len(s) > 1 => Len(Tail(s)) # 0
    BY <1>1
  <2>2. Len(<< >>) = 0
    OBVIOUS
  <2>3. QED
    BY <2>1, <2>2
<1>4. ASSUME NEW i \in 1 .. Len(s)
      PROVE  s[i] \in {Head(s)} \cup {Tail(s)[j] : j \in 1 .. Len(Tail(s))}
  <2>1. CASE i = 1
    BY <1>1, <2>1
  <2>2. CASE i # 1
    <3>1. i - 1 \in 1 .. Len(Tail(s)) /\ Tail(s)[i - 1] = s[i]
      BY <1>1, <1>2, <2>2
    <3>2. QED
      BY <3>1
  <2>3. QED
    BY <2>1, <2>2
<1>5. ~ Len(s) > 1 => {s[i] : i \in 1 .. Len(s)} = {Head(s)}
  <2>1. ~ Len(s) > 1 => 1 .. Len(s) = {1}
    BY <1>1
  <2>2. QED
    BY <1>1, <2>1
<1>6. QED
  BY <1>1, <1>3, <1>4, <1>5

-----------------------------------------------------------------------------
(* How often a value occurs                                                *)

\* Where value d is in list s, and how often it is there.
At(s, d) == {i \in DOMAIN s : s[i] = d}

Count(s, d) == Cardinality(At(s, d))

\* The places of a list are finitely many.
LEMMA CountType ==
  ASSUME NEW S, NEW s \in Seq(S), NEW d
  PROVE  IsFiniteSet(At(s, d)) /\ Count(s, d) \in Nat
<1>1. DOMAIN s = 1 .. Len(s) /\ Len(s) \in Nat
  OBVIOUS
<1>2. IsFiniteSet(1 .. Len(s))
  BY <1>1, FS_Interval
<1>3. At(s, d) \in SUBSET (1 .. Len(s))
  BY <1>1 DEF At
<1>4. IsFiniteSet(At(s, d))
  BY <1>2, <1>3, FS_Subset
<1>5. QED
  BY <1>4, FS_CardinalityType DEF Count

\* There is nothing in the empty list.
LEMMA CountEmpty ==
  ASSUME NEW d
  PROVE  Count(<< >>, d) = 0
<1>1. At(<< >>, d) = {}
  BY DEF At
<1>2. QED
  BY <1>1, FS_EmptySet DEF Count

\* A one-to-one correspondence with a finite set.
LEMMA SameSize ==
  ASSUME NEW S, IsFiniteSet(S), NEW T, NEW f \in [S -> T],
         \A x, y \in S : f[x] = f[y] => x = y,
         \A t \in T : \E x \in S : f[x] = t
  PROVE  IsFiniteSet(T) /\ Cardinality(T) = Cardinality(S)
<1>1. f \in Bijection(S, T)
  BY DEF Bijection, Injection, Surjection, IsInjective
<1>2. ExistsBijection(S, T)
  BY <1>1 DEF ExistsBijection
<1>3. QED
  BY <1>2, FS_Bijection

\* The union of two finite sets that have nothing in common.
LEMMA DisjointUnion ==
  ASSUME NEW S, IsFiniteSet(S), NEW T, IsFiniteSet(T), S \cap T = {}
  PROVE  /\ IsFiniteSet(S \cup T)
         /\ Cardinality(S \cup T) = Cardinality(S) + Cardinality(T)
<1>1. Cardinality(S \cap T) = 0
  BY FS_EmptySet
<1>2. Cardinality(S) \in Nat /\ Cardinality(T) \in Nat
  BY FS_CardinalityType
<1>3. /\ IsFiniteSet(S \cup T)
      /\ Cardinality(S \cup T) = Cardinality(S) + Cardinality(T) - Cardinality(S \cap T)
  BY FS_Union
<1>4. QED
  BY <1>1, <1>2, <1>3

\* Lists that are put together.
LEMMA CountConcat ==
  ASSUME NEW S, NEW s \in Seq(S), NEW t \in Seq(S), NEW d
  PROVE  Count(s \o t, d) = Count(s, d) + Count(t, d)
<1> DEFINE n == Len(s)
           shifted == {i \in DOMAIN (s \o t) : i > n /\ (s \o t)[i] = d}
           f == [i \in At(t, d) |-> i + n]
<1>1. /\ n \in Nat /\ Len(t) \in Nat /\ DOMAIN s = 1 .. n /\ DOMAIN t = 1 .. Len(t)
      /\ s \o t \in Seq(S) /\ Len(s \o t) = n + Len(t) /\ DOMAIN (s \o t) = 1 .. n + Len(t)
  OBVIOUS
<1>2. /\ \A i \in 1 .. n : (s \o t)[i] = s[i]
      /\ \A i \in 1 .. Len(t) : (s \o t)[i + n] = t[i]
  OBVIOUS
<1>3. At(s \o t, d) = At(s, d) \cup shifted
  BY <1>1, <1>2 DEF At
<1>4. At(s, d) \cap shifted = {}
  BY <1>1 DEF At
<1>5. f \in [At(t, d) -> shifted]
  <2>1. ASSUME NEW i \in At(t, d) PROVE i + n \in shifted
    BY <1>1, <1>2 DEF At
  <2>2. QED
    BY <2>1
<1>6. \A x, y \in At(t, d) : f[x] = f[y] => x = y
  BY <1>1 DEF At
<1>7. ASSUME NEW j \in shifted PROVE \E x \in At(t, d) : f[x] = j
  <2>1. j - n \in 1 .. Len(t) /\ (j - n) + n = j
    BY <1>1
  <2>2. j - n \in At(t, d)
    BY <1>1, <1>2, <2>1 DEF At
  <2>3. QED
    BY <2>1, <2>2
<1>8. IsFiniteSet(At(s, d)) /\ IsFiniteSet(At(t, d))
  BY CountType
<1> HIDE DEF f, shifted
<1>9. IsFiniteSet(shifted) /\ Cardinality(shifted) = Cardinality(At(t, d))
  BY <1>5, <1>6, <1>7, <1>8, SameSize
<1>10. QED
  BY <1>3, <1>4, <1>8, <1>9, DisjointUnion DEF Count

\* A list of one element.
LEMMA CountOne ==
  ASSUME NEW e, NEW d
  PROVE  Count(<<e>>, d) = IF e = d THEN 1 ELSE 0
<1>1. At(<<e>>, d) = IF e = d THEN {1} ELSE {}
  BY DEF At
<1>2. QED
  BY <1>1, FS_EmptySet, FS_Singleton DEF Count

\* One more element, and one element less.
LEMMA CountAppend ==
  ASSUME NEW S, NEW s \in Seq(S), NEW e \in S, NEW d
  PROVE  Count(Append(s, e), d) = Count(s, d) + (IF e = d THEN 1 ELSE 0)
<1>1. Append(s, e) = s \o <<e>> /\ <<e>> \in Seq(S)
  OBVIOUS
<1>2. Count(s \o <<e>>, d) = Count(s, d) + Count(<<e>>, d)
  BY <1>1, CountConcat
<1>3. QED
  BY <1>1, <1>2, CountOne

\* What is left of a list without its first.
LEMMA CountTail ==
  ASSUME NEW S, NEW s \in Seq(S), s # << >>, NEW d
  PROVE  Count(s, d) = (IF Head(s) = d THEN 1 ELSE 0) + Count(Tail(s), d)
<1>1. s = <<Head(s)>> \o Tail(s) /\ <<Head(s)>> \in Seq(S) /\ Tail(s) \in Seq(S)
  OBVIOUS
<1> DEFINE e == Head(s)
           t == Tail(s)
<1> HIDE DEF e, t
<1>2. <<e>> \in Seq(S) /\ t \in Seq(S) /\ s = <<e>> \o t
  BY <1>1 DEF e, t
<1>3. Count(<<e>> \o t, d) = Count(<<e>>, d) + Count(t, d)
  BY <1>2, CountConcat
<1>4. QED
  BY <1>2, <1>3, CountOne DEF e, t

\* The places of value d in the lists F[s[1]], F[s[2]], ...
Places(F, s, d) == UNION {{i} \X {j \in DOMAIN F[s[i]] : F[s[i]][j] = d} : i \in DOMAIN s}

\* There are none without a list ...
LEMMA PlacesOfNone ==
  ASSUME NEW F, NEW d
  PROVE  IsFiniteSet(Places(F, << >>, d)) /\ Cardinality(Places(F, << >>, d)) = 0
<1>1. Places(F, << >>, d) = {}
  BY DEF Places
<1>2. QED
  BY <1>1, FS_EmptySet

\* ... and one more list adds its own.
LEMMA PlacesAppend ==
  ASSUME NEW D, NEW E, NEW F \in [D -> Seq(E)], NEW s \in Seq(D), NEW e \in D, NEW d,
         IsFiniteSet(Places(F, s, d))
  PROVE  /\ IsFiniteSet(Places(F, Append(s, e), d))
         /\ Cardinality(Places(F, Append(s, e), d)) = Cardinality(Places(F, s, d)) + Count(F[e], d)
<1> DEFINE n == Len(s) + 1
           r == Append(s, e)
           added == {n} \X At(F[e], d)
           f == [j \in At(F[e], d) |-> <<n, j>>]
           Of(q, i) == {i} \X {j \in DOMAIN F[q[i]] : F[q[i]][j] = d}
<1>1. /\ DOMAIN s = 1 .. Len(s) /\ Len(s) \in Nat
      /\ DOMAIN r = 1 .. n /\ r[n] = e /\ \A i \in 1 .. Len(s) : r[i] = s[i]
  OBVIOUS
<1> HIDE DEF r
<1>2. DOMAIN r = DOMAIN s \cup {n} /\ n \notin DOMAIN s
  BY <1>1
<1>3. Of(r, n) = added /\ \A i \in DOMAIN s : Of(r, i) = Of(s, i)
  BY <1>1 DEF At
<1>4. Places(F, r, d) = UNION {Of(r, i) : i \in DOMAIN r} /\ Places(F, s, d) = UNION {Of(s, i) : i \in DOMAIN s}
  BY DEF Places
<1>5. Places(F, s, d) \cap added = {}
  BY <1>2 DEF Places
<1> HIDE DEF Of
<1>6. Places(F, r, d) = Places(F, s, d) \cup added
  <2>1. UNION {Of(r, i) : i \in DOMAIN r} = (UNION {Of(r, i) : i \in DOMAIN s}) \cup Of(r, n)
    BY <1>2
  <2>2. {Of(r, i) : i \in DOMAIN s} = {Of(s, i) : i \in DOMAIN s}
    BY <1>3
  <2>3. QED
    BY <1>3, <1>4, <2>1, <2>2
<1>7. IsFiniteSet(At(F[e], d))
  BY CountType
<1>8. IsFiniteSet(added) /\ Cardinality(added) = Cardinality(At(F[e], d))
  <2>1. f \in [At(F[e], d) -> added]
    OBVIOUS
  <2>2. \A x, y \in At(F[e], d) : f[x] = f[y] => x = y
    OBVIOUS
  <2>3. \A t \in added : \E x \in At(F[e], d) : f[x] = t
    OBVIOUS
  <2> HIDE DEF f, added
  <2>4. QED
    BY <1>7, <2>1, <2>2, <2>3, SameSize, SMTT(30)
<1> HIDE DEF added
<1>9. /\ IsFiniteSet(Places(F, r, d))
      /\ Cardinality(Places(F, r, d)) = Cardinality(Places(F, s, d)) + Cardinality(added)
  BY <1>5, <1>6, <1>8, DisjointUnion
<1>10. QED
  BY <1>8, <1>9 DEF Count, r
===============================================================================
