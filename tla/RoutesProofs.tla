---------------------------- MODULE RoutesProofs ----------------------------
(***************************************************************************)
(* Proofs about Routes, for applications of any size: any directories, any *)
(* names and mount path, any number of method files and meta files.        *)
(***************************************************************************)
EXTENDS Routes, FunctionTheorems, FiniteSetTheorems, SequenceTheorems,
        WellFoundedInduction, TLAPS

-----------------------------------------------------------------------------
(* Numbers, finite sets and sequences.                                     *)

(* A set of numbers that is not empty has a least element, so Min is one   *)
(* of its elements.                                                        *)
LEMMA MinElement ==
    ASSUME NEW T \in SUBSET Nat, T # {}
    PROVE  Min(T) \in T /\ \A y \in T : Min(T) <= y
<1>1. IsWellFoundedOn(OpToRel(<, Nat), Nat)
  BY NatLessThanWellFounded
<1>2. PICK x \in T : \A y \in T : ~(<<y, x>> \in OpToRel(<, Nat))
  BY <1>1, WFMin
<1>3. \A y \in T : ~(y < x)
  BY <1>2 DEF OpToRel
<1>4. \A y \in T : x <= y
  BY <1>3
<1> QED BY <1>4 DEF Min

(* A set of numbers up to n has a greatest one.                            *)
LEMMA MaxElement ==
    ASSUME NEW n \in Nat, NEW T \in SUBSET (1..n), T # {}
    PROVE  Max(T) \in T
<1> DEFINE U == {n - x : x \in T}
<1>1. U \in SUBSET Nat /\ U # {}
  <2>1. ASSUME NEW x \in T PROVE n - x \in Nat
    OBVIOUS
  <2> QED BY <2>1
<1>2. Min(U) \in U
  <2> HIDE DEF U
  <2> QED BY <1>1, MinElement
<1>3. \A u \in U : Min(U) <= u
  <2> HIDE DEF U
  <2> QED BY <1>1, MinElement
<1>4. PICK x \in T : Min(U) = n - x
  BY <1>2
<1>5. \A y \in T : x >= y
  BY <1>3, <1>4
<1> QED BY <1>5 DEF Max

(* The least and the greatest element of a singleton.                      *)
LEMMA SingletonMinMax ==
    ASSUME NEW n \in Nat
    PROVE  Min({n}) = n /\ Max({n}) = n
BY DEF Min, Max

(* Any two elements of a finite set of at most one element are equal.      *)
LEMMA AtMostOne ==
    ASSUME NEW S, IsFiniteSet(S), Cardinality(S) <= 1,
           NEW x \in S, NEW y \in S
    PROVE  x = y
<1>1. SUFFICES ASSUME x # y PROVE FALSE
  OBVIOUS
<1>2. {x, y} \subseteq S
  OBVIOUS
<1>3. Cardinality({x, y}) <= Cardinality(S)
  BY <1>2, FS_Subset
<1>4. Cardinality({x, y}) = 2
  BY <1>1, FS_CardinalityType, FS_EmptySet, FS_AddElement, FS_Singleton
<1>5. Cardinality(S) \in Nat
  BY FS_CardinalityType
<1> QED BY <1>3, <1>4, <1>5

(* A finite set that a relation R orders strictly has an element that none *)
(* is above.                                                               *)
LEMMA TopElement ==
    ASSUME NEW S, IsFiniteSet(S), S # {}, NEW R,
           \A x \in S : <<x, x>> \notin R,
           \A x, y, z \in S : <<x, y>> \in R /\ <<y, z>> \in R => <<x, z>> \in R
    PROVE  \E x \in S : \A y \in S : <<y, x>> \notin R
<1> DEFINE Above(x) == {y \in S : <<y, x>> \in R}
           counts == {Cardinality(Above(x)) : x \in S}
<1>1. ASSUME NEW x \in S
      PROVE  IsFiniteSet(Above(x)) /\ Cardinality(Above(x)) \in Nat
  <2>1. Above(x) \in SUBSET S
    OBVIOUS
  <2>2. IsFiniteSet(Above(x))
    BY <2>1, FS_Subset
  <2> QED BY <2>2, FS_CardinalityType
<1> HIDE DEF Above
<1>2. counts \in SUBSET Nat /\ counts # {}
  BY <1>1
<1>3. Min(counts) \in counts /\ \A c \in counts : Min(counts) <= c
  <2> HIDE DEF counts
  <2> QED BY <1>2, MinElement
<1>4. PICK x \in S : Min(counts) = Cardinality(Above(x))
  BY <1>3
<1>5. ASSUME NEW y \in S, <<y, x>> \in R
      PROVE  FALSE
  <2>1. Above(y) \in SUBSET (Above(x) \ {y}) /\ y \in Above(x)
    BY <1>5 DEF Above
  <2>2. /\ IsFiniteSet(Above(x) \ {y})
        /\ Cardinality(Above(x) \ {y}) = Cardinality(Above(x)) - 1
    BY <1>1, <2>1, FS_RemoveElement
  <2>3. Cardinality(Above(y)) <= Cardinality(Above(x)) - 1
    BY <2>1, <2>2, FS_Subset
  <2>4. Cardinality(Above(x)) <= Cardinality(Above(y))
    BY <1>3, <1>4
  <2> QED BY <1>1, <2>3, <2>4
<1> QED BY <1>5

(* The elements of a sequence over a set are finitely many.                *)
LEMMA ElementsFinite ==
    ASSUME NEW S, NEW n \in Nat, NEW s \in SeqOf(S, n)
    PROVE  IsFiniteSet(ToSet(s)) /\ ToSet(s) \subseteq S
<1>1. PICK m \in 0..n : s \in [1..m -> S]
  BY DEF SeqOf
<1>2. 1 \in Int /\ m \in Int
  OBVIOUS
<1>3. ToSet(s) \subseteq S
  BY <1>1 DEF ToSet
<1>4. IsFiniteSet(1..m)
  BY <1>2, FS_Interval
<1>5. s \in Surjection(1..m, ToSet(s))
  BY <1>1 DEF ToSet, Surjection
<1> QED BY <1>3, <1>4, <1>5, FS_Surjection

(* A set as a sequence: every element is there.                            *)
LEMMA SetToSeqsElements ==
    ASSUME NEW S, IsFiniteSet(S), NEW list \in SetToSeqs(S)
    PROVE  /\ Cardinality(S) \in Nat
           /\ list \in Seq(S) /\ Len(list) = Cardinality(S)
           /\ ToSet(list) = S
<1>1. Cardinality(S) \in Nat
  BY FS_CardinalityType
<1> DEFINE D == 1..Cardinality(S)
<1>2. list \in [D -> S] /\ \A i, j \in D : i # j => list[i] # list[j]
  BY DEF SetToSeqs
<1>3. list \in Seq(S) /\ Len(list) = Cardinality(S) /\ DOMAIN list = D
  BY <1>1, <1>2
<1>4. list \in Injection(D, S)
  BY <1>2 DEF Injection, IsInjective
<1>5. IsFiniteSet(D) /\ Cardinality(D) = Cardinality(S)
  BY <1>1, FS_Interval
<1>6. list \in Surjection(D, S)
  BY <1>4, <1>5, FS_Injection
<1>7. ToSet(list) = S
  BY <1>3, <1>6 DEF ToSet, Surjection
<1> QED BY <1>1, <1>3, <1>7

(* A prefix, element by element.                                           *)
LEMMA PrefixElements ==
    ASSUME NEW S, NEW s \in Seq(S), NEW t \in Seq(S)
    PROVE  IsPrefix(s, t) <=>
              Len(s) <= Len(t) /\ \A i \in 1..Len(s) : s[i] = t[i]
<1>1. ASSUME Len(s) <= Len(t)
      PROVE  SubSeq(s, 1, Len(s)) = SubSeq(t, 1, Len(s)) <=>
                \A i \in 1..Len(s) : s[i] = t[i]
  <2> DEFINE a == SubSeq(s, 1, Len(s))
             b == SubSeq(t, 1, Len(s))
  <2>1. a \in Seq(S) /\ Len(a) = Len(s) /\ \A i \in 1..Len(s) : a[i] = s[i]
    OBVIOUS
  <2>2. b \in Seq(S) /\ Len(b) = Len(s) /\ \A i \in 1..Len(s) : b[i] = t[i]
    BY <1>1
  <2> HIDE DEF a, b
  <2>3. a = b <=> \A i \in 1..Len(s) : a[i] = b[i]
    BY <2>1, <2>2
  <2> QED BY <2>1, <2>2, <2>3 DEF a, b
<1> QED BY <1>1 DEF IsPrefix

(* One sequence behind another.                                            *)
LEMMA ConcatElements ==
    ASSUME NEW S, NEW s \in Seq(S), NEW t \in Seq(S)
    PROVE  /\ s \o t \in Seq(S) /\ Len(s \o t) = Len(s) + Len(t)
           /\ \A i \in 1..Len(s) : (s \o t)[i] = s[i]
           /\ \A i \in 1..Len(t) : (s \o t)[Len(s) + i] = t[i]
           /\ \A i \in (Len(s) + 1)..(Len(s) + Len(t)) :
                 i - Len(s) \in 1..Len(t) /\ (s \o t)[i] = t[i - Len(s)]
OBVIOUS

(* What a sequence keeps when it is put behind another.                    *)
LEMMA PrefixOfConcat ==
    ASSUME NEW S, NEW s \in Seq(S), NEW t \in Seq(S), NEW u \in Seq(S)
    PROVE  /\ IsPrefix(s, s \o t)
           /\ IsPrefix(s \o t, s \o u) => IsPrefix(t, u)
<1>1. IsPrefix(s, s \o t)
  <2>1. s \o t \in Seq(S) /\ Len(s) <= Len(s \o t)
    OBVIOUS
  <2>2. \A i \in 1..Len(s) : s[i] = (s \o t)[i]
    OBVIOUS
  <2> QED BY <2>1, <2>2, PrefixElements
<1>2. ASSUME IsPrefix(s \o t, s \o u)
      PROVE  IsPrefix(t, u)
  <2>1. s \o t \in Seq(S) /\ s \o u \in Seq(S)
    OBVIOUS
  <2>2. /\ Len(s \o t) <= Len(s \o u)
        /\ \A i \in 1..Len(s \o t) : (s \o t)[i] = (s \o u)[i]
    <3> DEFINE a == s \o t
               b == s \o u
    <3>1. a \in Seq(S) /\ b \in Seq(S) /\ IsPrefix(a, b)
      BY <1>2, <2>1
    <3> HIDE DEF a, b
    <3>2. Len(a) <= Len(b) /\ \A i \in 1..Len(a) : a[i] = b[i]
      BY <3>1, PrefixElements
    <3> QED BY <3>2 DEF a, b
  <2>3. Len(t) <= Len(u)
    BY <2>2
  <2>4. ASSUME NEW i \in 1..Len(t)
        PROVE  t[i] = u[i]
    <3>1. Len(s) + i \in 1..Len(s \o t)
      OBVIOUS
    <3>2. (s \o t)[Len(s) + i] = t[i]
      OBVIOUS
    <3>3. (s \o u)[Len(s) + i] = u[i]
      BY <2>3
    <3> QED BY <2>2, <3>1, <3>2, <3>3
  <2> QED BY <2>3, <2>4, PrefixElements
<1> QED BY <1>1, <1>2

(* What comes first in a prefix comes first in the whole.                  *)
LEMMA PrefixTransitive ==
    ASSUME NEW S, NEW s \in Seq(S), NEW t \in Seq(S), NEW u \in Seq(S),
           IsPrefix(s, t), IsPrefix(t, u)
    PROVE  IsPrefix(s, u)
<1>1. Len(s) <= Len(t) /\ \A i \in 1..Len(s) : s[i] = t[i]
  BY PrefixElements
<1>2. Len(t) <= Len(u) /\ \A i \in 1..Len(t) : t[i] = u[i]
  BY PrefixElements
<1>3. Len(s) <= Len(u) /\ \A i \in 1..Len(s) : s[i] = u[i]
  BY <1>1, <1>2
<1> QED BY <1>3, PrefixElements

-----------------------------------------------------------------------------
(* The order of the meta files.                                            *)

(* What StartsWith says of a directory that is not the root: its segments, *)
(* the last of which may begin a longer name.                              *)
LEMMA StartsWithElements ==
    ASSUME NEW S, NEW path \in Seq(S), NEW d \in Seq(S), d # <<>>
    PROVE  StartsWith(path, d) <=>
              /\ Len(d) <= Len(path)
              /\ \A i \in 1..(Len(d) - 1) : d[i] = path[i]
              /\ \/ path[Len(d)] = d[Len(d)]
                 \/ <<d[Len(d)], path[Len(d)]>> \in NamePrefixes
<1>1. Len(d) \in Nat /\ Len(d) >= 1
  OBVIOUS
<1>2. Front(d) \in Seq(S) /\ Len(Front(d)) = Len(d) - 1
      /\ \A i \in 1..(Len(d) - 1) : Front(d)[i] = d[i]
  <2> DEFINE n == Len(d) - 1
  <2>1. n \in Nat /\ n <= Len(d)
    BY <1>1
  <2> HIDE DEF n
  <2>2. /\ SubSeq(d, 1, n) \in Seq(S) /\ Len(SubSeq(d, 1, n)) = n
        /\ \A i \in 1..n : SubSeq(d, 1, n)[i] = d[i]
    BY <2>1
  <2> QED BY <2>2 DEF Front, n
<1>3. ASSUME Len(d) <= Len(path)
      PROVE  IsPrefix(Front(d), path) <=>
                \A i \in 1..(Len(d) - 1) : d[i] = path[i]
  BY <1>1, <1>2, <1>3, PrefixElements
<1> QED BY <1>3 DEF StartsWith, Last

(* A directory that a path lies in, or lies beside the method of, is one   *)
(* the path starts with.                                                   *)
LEMMA PrefixStartsWith ==
    ASSUME NEW S, NEW d \in Seq(S), NEW m \in Seq(S), NEW name \in S,
           IsPrefix(m, d)
    PROVE  StartsWith(Append(d, name), m)
<1>1. CASE m = <<>>
  BY <1>1 DEF StartsWith
<1>2. CASE m # <<>>
  <2>1. Len(m) <= Len(d) /\ \A i \in 1..Len(m) : m[i] = d[i]
    BY PrefixElements
  <2>2. /\ Append(d, name) \in Seq(S)
        /\ Len(Append(d, name)) = Len(d) + 1
        /\ \A i \in 1..Len(d) : Append(d, name)[i] = d[i]
    OBVIOUS
  <2>3. Len(m) \in 1..Len(m)
    BY <1>2
  <2> DEFINE path == Append(d, name)
  <2>4. /\ path \in Seq(S) /\ Len(m) <= Len(path)
        /\ \A i \in 1..Len(m) : path[i] = m[i]
    BY <2>1, <2>2
  <2> HIDE DEF path
  <2>5. \A i \in 1..(Len(m) - 1) : m[i] = path[i]
    BY <2>4
  <2>6. path[Len(m)] = m[Len(m)]
    BY <2>3, <2>4
  <2>7. StartsWith(path, m)
    BY <1>2, <2>4, <2>5, <2>6, StartsWithElements
  <2> QED BY <2>7 DEF path
<1> QED BY <1>1, <1>2

(* Meta files of directories over some set of names.                       *)
MetaOver(S) == [dir : Seq(S), nth : {"first", "second"}]

(* Shorter is a strict order of the meta files that apply to one path, and *)
(* a total one.                                                            *)
LEMMA ShorterOrder ==
    ASSUME NEW S, NEW path \in Seq(S),
           NEW a \in MetaOver(S), NEW b \in MetaOver(S), NEW c \in MetaOver(S),
           StartsWith(path, a.dir), StartsWith(path, b.dir)
    PROVE  /\ ~Shorter(a, a)
           /\ Shorter(a, b) /\ Shorter(b, c) => Shorter(a, c)
           /\ a = b \/ Shorter(a, b) \/ Shorter(b, a)
           /\ Shorter(a, b) => Len(a.dir) <= Len(b.dir) /\ a # b
<1> DEFINE x == a.dir
           y == b.dir
           z == c.dir
           Begins(s, t) == /\ s # t /\ Len(s) = Len(t)
                           /\ <<Last(s), Last(t)>> \in NamePrefixes
<1>1. /\ x \in Seq(S) /\ y \in Seq(S) /\ z \in Seq(S)
      /\ Len(x) \in Nat /\ Len(y) \in Nat /\ Len(z) \in Nat
  BY DEF MetaOver
<1>2. /\ a.nth \in {"first", "second"} /\ b.nth \in {"first", "second"}
      /\ a = b <=> x = y /\ a.nth = b.nth
  BY DEF MetaOver
<1>3. /\ ~Begins(x, x)
      /\ Begins(x, y) /\ Begins(y, z) => Begins(x, z)
  <2>1. ASSUME Begins(x, y), Begins(y, z) PROVE Begins(x, z)
    <3>1. <<Last(x), Last(z)>> \in NamePrefixes
      BY <2>1, NamePrefixesAssumption
    <3>2. Last(x) # Last(z)
      <4>1. \A p \in NamePrefixes : p[1] # p[2]
        BY NamePrefixesAssumption
      <4> QED BY <3>1, <4>1
    <3> QED BY <2>1, <3>1, <3>2
  <2> QED BY <2>1
<1>4. x = y \/ Len(x) # Len(y) \/ Begins(x, y) \/ Begins(y, x)
  <2> SUFFICES ASSUME x # y, Len(x) = Len(y)
               PROVE  Begins(x, y) \/ Begins(y, x)
    OBVIOUS
  <2>1. StartsWith(path, x) /\ StartsWith(path, y)
    OBVIOUS
  <2> HIDE DEF x, y
  <2>2. Len(x) # 0
    <3>1. Len(x) = 0 => x = <<>> /\ y = <<>>
      BY <1>1, EmptySeq
    <3> QED BY <3>1
  <2> DEFINE n == Len(x)
  <2>3. x # <<>> /\ y # <<>>
    BY <1>1, <2>2
  <2>4. /\ \A i \in 1..(n - 1) : x[i] = path[i]
        /\ path[n] = x[n] \/ <<x[n], path[n]>> \in NamePrefixes
    BY <1>1, <2>1, <2>3, StartsWithElements
  <2>5. /\ \A i \in 1..(n - 1) : y[i] = path[i]
        /\ path[n] = y[n] \/ <<y[n], path[n]>> \in NamePrefixes
    BY <1>1, <2>1, <2>3, StartsWithElements
  <2>6. x[n] # y[n]
    <3>1. ASSUME x[n] = y[n], NEW i \in 1..n PROVE x[i] = y[i]
      <4>1. i = n \/ i \in 1..(n - 1)
        BY <1>1
      <4> QED BY <2>4, <2>5, <3>1, <4>1
    <3> QED BY <1>1, <3>1
  <2>7. <<x[n], y[n]>> \in NamePrefixes \/ <<y[n], x[n]>> \in NamePrefixes
    <3>1. CASE path[n] = x[n]
      BY <2>5, <2>6, <3>1
    <3>2. CASE path[n] = y[n]
      BY <2>4, <2>6, <3>2
    <3>3. CASE /\ <<x[n], path[n]>> \in NamePrefixes
               /\ <<y[n], path[n]>> \in NamePrefixes
      BY <2>6, <3>3, NamePrefixesAssumption
    <3> QED BY <2>4, <2>5, <3>1, <3>2, <3>3
  <2> QED BY <2>7 DEF Last
<1>5. ASSUME NEW p, NEW q
      PROVE  Shorter(p, q) <=>
                \/ Len(p.dir) < Len(q.dir)
                \/ Begins(p.dir, q.dir)
                \/ p.dir = q.dir /\ p.nth = "first" /\ q.nth = "second"
  BY DEF Shorter
<1>6. "first" # "second"
  OBVIOUS
<1>7. /\ Begins(x, y) => Len(x) = Len(y)
      /\ Begins(y, z) => Len(y) = Len(z) /\ y # z
  OBVIOUS
<1> HIDE DEF Begins
<1>8. ~Shorter(a, a)
  BY <1>1, <1>3, <1>5, <1>6
<1>9. Shorter(a, b) /\ Shorter(b, c) => Shorter(a, c)
  <2> SUFFICES ASSUME Shorter(a, b), Shorter(b, c) PROVE Shorter(a, c)
    OBVIOUS
  <2>1. Len(x) < Len(y) \/ Begins(x, y) \/ (x = y /\ b.nth = "second")
    BY <1>5
  <2>2. Len(y) < Len(z) \/ Begins(y, z) \/ (y = z /\ b.nth = "first")
    BY <1>5
  <2>3. Len(x) < Len(z) \/ Begins(x, z)
    <3> HIDE DEF x, y, z
    <3> QED BY <1>1, <1>3, <1>6, <1>7, <2>1, <2>2
  <2> QED BY <1>5, <2>3
<1>10. a = b \/ Shorter(a, b) \/ Shorter(b, a)
  <2>1. Len(x) < Len(y) \/ Len(y) < Len(x) \/ Len(x) = Len(y)
    BY <1>1
  <2>2. \/ a.nth = b.nth \/ (a.nth = "first" /\ b.nth = "second")
        \/ (b.nth = "first" /\ a.nth = "second")
    BY <1>2
  <2> QED BY <1>2, <1>4, <1>5, <2>1, <2>2
<1>11. Shorter(a, b) => Len(x) <= Len(y) /\ a # b
  BY <1>1, <1>5, <1>7, <1>8
<1> QED BY <1>8, <1>9, <1>10, <1>11

(* The meta files that apply to one path can be listed in order: the place *)
(* of each is the number of those that are shorter.                        *)
LEMMA SortedListing ==
    ASSUME NEW A, NEW path \in Seq(A), NEW S \in SUBSET MetaOver(A),
           IsFiniteSet(S), \A m \in S : StartsWith(path, m.dir)
    PROVE  \E list \in SetToSeqs(S) :
              \A i, j \in DOMAIN list : i < j => Shorter(list[i], list[j])
<1> DEFINE n == Cardinality(S)
           Below(m) == {x \in S : Shorter(x, m)}
           rank == [m \in S |-> Cardinality(Below(m)) + 1]
<1>1. n \in Nat
  BY FS_CardinalityType
<1>2. ASSUME NEW a \in S, NEW b \in S
      PROVE  /\ ~Shorter(a, a)
             /\ \A c \in S : Shorter(a, b) /\ Shorter(b, c) => Shorter(a, c)
             /\ a = b \/ Shorter(a, b) \/ Shorter(b, a)
  <2>1. a \in MetaOver(A) /\ b \in MetaOver(A) /\ S \subseteq MetaOver(A)
    OBVIOUS
  <2> QED BY <2>1, ShorterOrder
<1>3. ASSUME NEW a \in S
      PROVE  /\ IsFiniteSet(Below(a)) /\ Cardinality(Below(a)) \in Nat
             /\ rank[a] \in 1..n
  <2>1. Below(a) \in SUBSET (S \ {a})
    BY <1>2
  <2>2. IsFiniteSet(S \ {a}) /\ Cardinality(S \ {a}) = n - 1
    BY FS_RemoveElement
  <2>3. IsFiniteSet(Below(a)) /\ Cardinality(Below(a)) <= n - 1
    BY <2>1, <2>2, FS_Subset
  <2>4. Cardinality(Below(a)) \in Nat
    BY <2>3, FS_CardinalityType
  <2> HIDE DEF n, Below
  <2> QED BY <1>1, <2>3, <2>4
<1>4. ASSUME NEW a \in S, NEW b \in S, Shorter(a, b)
      PROVE  rank[a] < rank[b]
  <2>1. Below(a) \in SUBSET (Below(b) \ {a}) /\ a \in Below(b)
    BY <1>2, <1>4
  <2>2. IsFiniteSet(Below(b) \ {a})
        /\ Cardinality(Below(b) \ {a}) = Cardinality(Below(b)) - 1
    BY <1>3, <2>1, FS_RemoveElement
  <2>3. Cardinality(Below(a)) <= Cardinality(Below(b)) - 1
    BY <2>1, <2>2, FS_Subset
  <2>4. Cardinality(Below(a)) \in Nat /\ Cardinality(Below(b)) \in Nat
    BY <1>3
  <2> HIDE DEF Below
  <2> QED BY <2>3, <2>4
<1>5. rank \in [S -> 1..n]
  <2>1. rank = [m \in S |-> rank[m]]
    OBVIOUS
  <2> HIDE DEF rank, n
  <2> QED BY <1>3, <2>1
<1> HIDE DEF rank
<1>6. \A a, b \in S : rank[a] = rank[b] => a = b
  <2> SUFFICES ASSUME NEW a \in S, NEW b \in S, rank[a] = rank[b], a # b
               PROVE  FALSE
    OBVIOUS
  <2>1. rank[a] \in 1..n /\ rank[b] \in 1..n
    BY <1>5
  <2>2. rank[a] < rank[b] \/ rank[b] < rank[a]
    BY <1>2, <1>4
  <2> HIDE DEF n
  <2> QED BY <1>1, <2>1, <2>2
<1>7. \A i \in 1..n : \E m \in S : rank[m] = i
  <2>1. rank \in Injection(S, 1..n)
    BY <1>5, <1>6 DEF Injection, IsInjective
  <2>2. IsFiniteSet(1..n) /\ Cardinality(1..n) = n
    <3>1. 1 \in Int /\ n \in Int
      BY <1>1
    <3> HIDE DEF n
    <3>2. /\ IsFiniteSet(1..n)
          /\ Cardinality(1..n) = IF 1 > n THEN 0 ELSE n - 1 + 1
      BY <3>1, FS_Interval
    <3> QED BY <1>1, <3>2
  <2>3. rank \in Surjection(S, 1..n)
    BY <2>1, <2>2, FS_Injection
  <2> QED BY <2>3 DEF Surjection
<1> DEFINE list == [i \in 1..n |-> CHOOSE m \in S : rank[m] = i]
<1>8. /\ DOMAIN list = 1..n
      /\ \A i \in 1..n : list[i] \in S /\ rank[list[i]] = i
  BY <1>7
<1>9. list \in SetToSeqs(S)
  <2>1. list \in [1..n -> S]
    BY <1>8
  <2>2. \A i, j \in 1..n : i # j => list[i] # list[j]
    BY <1>8
  <2> HIDE DEF list
  <2> QED BY <2>1, <2>2 DEF SetToSeqs
<1>10. ASSUME NEW i \in DOMAIN list, NEW j \in DOMAIN list, i < j
       PROVE  Shorter(list[i], list[j])
  <2>1. i \in 1..n /\ j \in 1..n
    BY <1>8
  <2>2. /\ list[i] \in S /\ list[j] \in S
        /\ rank[list[i]] = i /\ rank[list[j]] = j
    BY <1>8, <2>1
  <2> HIDE DEF list
  <2>3. CASE Shorter(list[j], list[i])
    <3>1. j < i
      BY <1>4, <2>2, <2>3
    <3> HIDE DEF n
    <3> QED BY <1>1, <1>10, <2>1, <3>1
  <2>4. list[i] # list[j]
    <3> HIDE DEF n
    <3> QED BY <1>1, <1>10, <2>1, <2>2
  <2> QED BY <1>2, <2>2, <2>3, <2>4
<1> QED BY <1>9, <1>10

(* Strings, and the elements of a chain.  That a literal is a string the   *)
(* provers do not know.                                                    *)
Literal == {"", "app", "meta", "module", "socket", "js", "ts", "ws",
            ":clientId", "GET", "POST", "PUT", "first", "second"}

Name == STRING \cup Literal

Element == [kind : Name, dir : Seq(Name), method : Name, ext : Name]

LEMMA LiteralName ==
    /\ "" \in Name /\ Empty \in Name /\ "app" \in Name /\ "meta" \in Name /\ "module" \in Name
    /\ "socket" \in Name /\ "js" \in Name /\ "ts" \in Name /\ "ws" \in Name
    /\ ":clientId" \in Name
    /\ "GET" \in Name /\ "POST" \in Name /\ "PUT" \in Name
    /\ "first" \in Name /\ "second" \in Name
BY DEF Name, Literal, Empty

App == Own("app", <<>>, "", "")

MetaName == MetaOver(Name)

LEMMA OwnElement ==
    /\ App \in Element /\ App.kind = "app"
    /\ \A m \in MetaName :
          MetaOwn(m) \in Element /\ MetaOwn(m).kind = "meta" /\ MetaOwn(m).dir = m.dir
    /\ \A m, n \in MetaName : MetaOwn(m) = MetaOwn(n) => m = n
    /\ \A kind, method, ext \in Name : \A d \in Seq(Name) :
          Own(kind, d, method, ext) \in Element
<1>1. <<>> \in Seq(Name)
  OBVIOUS
<1>2. App \in Element /\ App.kind = "app"
  BY <1>1, LiteralName, Zenon DEF App, Own, Element
<1>3. ASSUME NEW m \in MetaName
      PROVE  /\ MetaOwn(m) \in Element /\ MetaOwn(m).kind = "meta"
             /\ MetaOwn(m).dir = m.dir /\ MetaOwn(m).ext = m.nth
  <2>1. m.dir \in Seq(Name) /\ m.nth \in {"first", "second"}
    BY DEF MetaName, MetaOver
  <2>2. m.nth \in Name
    BY <2>1, LiteralName, Zenon
  <2> QED BY <2>1, <2>2, LiteralName, Zenon DEF MetaOwn, Own, Element
<1>5. ASSUME NEW m \in MetaName, NEW n \in MetaName, MetaOwn(m) = MetaOwn(n)
      PROVE  m = n
  <2>1. m.dir = n.dir /\ m.nth = n.nth
    BY <1>3, <1>5
  <2> QED BY <2>1 DEF MetaName, MetaOver
<1>4. \A kind, method, ext \in Name : \A d \in Seq(Name) :
          Own(kind, d, method, ext) \in Element
  BY DEF Own, Element
<1> QED BY <1>2, <1>3, <1>4, <1>5

(* The first n elements of a chain are the application's middleware, then  *)
(* that of meta files, each once and none before one with a shorter path,  *)
(* among them those of ms in the directories that d lies in.               *)
Begins(chain, n, d, ms) ==
    /\ chain \in Seq(Element) /\ n \in 1..Len(chain)
    /\ chain[1].kind = "app"
    /\ \A i \in 2..n : chain[i].kind = "meta"
    /\ \A i, j \in 2..n : i < j =>
          Len(chain[i].dir) <= Len(chain[j].dir) /\ chain[i] # chain[j]
    /\ \A m \in ms : IsPrefix(m.dir, d) => \E i \in 1..n : chain[i] = MetaOwn(m)

LEMMA BeforeBegins ==
    ASSUME NEW dir \in Seq(Name), NEW method \in Name,
           metas \subseteq MetaName, IsFiniteSet(metas)
    PROVE  LET b == Before(dir, method) IN Begins(b, Len(b), dir, metas)
<1> DEFINE path == Append(dir, method)
           found == {m \in metas : StartsWith(path, m.dir)}
           list == SelectMetaPaths(dir, method)
<1>1. path \in Seq(Name)
  OBVIOUS
<1>2. found \in SUBSET MetaName /\ IsFiniteSet(found)
  BY FS_Subset
<1>3. \A m \in found : StartsWith(path, m.dir)
  OBVIOUS
<1>4. /\ list \in SetToSeqs(found)
      /\ \A i, j \in DOMAIN list : i < j => Shorter(list[i], list[j])
  <2>1. list = CHOOSE l \in SetToSeqs(found) :
                  \A i, j \in DOMAIN l : i < j => Shorter(l[i], l[j])
    BY DEF SelectMetaPaths
  <2>2. \E l \in SetToSeqs(found) :
            \A i, j \in DOMAIN l : i < j => Shorter(l[i], l[j])
    <3> HIDE DEF path, found
    <3> QED BY <1>1, <1>2, <1>3, SortedListing DEF MetaName
  <2> HIDE DEF list, found
  <2> QED BY <2>1, <2>2
<1> HIDE DEF list
<1>5. list \in Seq(found) /\ ToSet(list) = found
  <2> HIDE DEF found
  <2> QED BY <1>2, <1>4, SetToSeqsElements
<1> DEFINE app == <<App>>
           tail == [i \in DOMAIN list |-> MetaOwn(list[i])]
<1>6. app \in Seq(Element) /\ Len(app) = 1 /\ app[1].kind = "app"
  BY OwnElement
<1>7. /\ list \in Seq(MetaName) /\ Len(list) \in Nat
      /\ DOMAIN list = 1..Len(list)
      /\ \A i \in 1..Len(list) : list[i] \in found
  <2> HIDE DEF found
  <2> QED BY <1>2, <1>5
<1>8. \A i \in 1..Len(list) :
         /\ MetaOwn(list[i]) \in Element /\ MetaOwn(list[i]).kind = "meta"
         /\ MetaOwn(list[i]).dir = list[i].dir
  BY <1>7, OwnElement
<1>9. tail \in Seq(Element) /\ Len(tail) = Len(list)
      /\ \A i \in 1..Len(list) : tail[i] = MetaOwn(list[i])
  <2> HIDE DEF found
  <2> QED BY <1>7, <1>8
<1>10. Before(dir, method) = app \o tail
  BY DEF Before, list, App
<1> HIDE DEF app, tail
<1> DEFINE b == app \o tail
<1>11. /\ b \in Seq(Element) /\ Len(b) = 1 + Len(list)
       /\ b[1] = app[1]
       /\ \A i \in 2..Len(b) : i - 1 \in 1..Len(list) /\ b[i] = tail[i - 1]
  <2>1. app \in Seq(Element) /\ tail \in Seq(Element)
    BY <1>6, <1>9
  <2>2. /\ b \in Seq(Element) /\ Len(b) = Len(app) + Len(tail)
        /\ \A i \in 1..Len(app) : b[i] = app[i]
        /\ \A i \in (Len(app) + 1)..(Len(app) + Len(tail)) :
              i - Len(app) \in 1..Len(tail) /\ b[i] = tail[i - Len(app)]
    BY <2>1, ConcatElements
  <2> HIDE DEF b
  <2>3. Len(app) = 1 /\ Len(tail) = Len(list) /\ Len(list) \in Nat
    BY <1>6, <1>7, <1>9
  <2>4. b[1] = app[1] /\ Len(b) = 1 + Len(list)
    <3>1. 1 \in 1..Len(app)
      BY <2>3
    <3> QED BY <2>2, <2>3, <3>1
  <2>5. ASSUME NEW i \in 2..Len(b)
        PROVE  i - 1 \in 1..Len(list) /\ b[i] = tail[i - 1]
    <3>1. i \in (Len(app) + 1)..(Len(app) + Len(tail))
      BY <2>3, <2>4
    <3> QED BY <2>2, <2>3, <3>1
  <2> QED BY <2>2, <2>4, <2>5
<1> HIDE DEF b
<1>12. \A i \in 2..Len(b) :
          /\ b[i] = MetaOwn(list[i - 1])
          /\ b[i].kind = "meta" /\ b[i].dir = list[i - 1].dir
  BY <1>8, <1>9, <1>11
<1>13. ASSUME NEW i \in 2..Len(b), NEW j \in 2..Len(b), i < j
       PROVE  Len(b[i].dir) <= Len(b[j].dir) /\ b[i] # b[j]
  <2> DEFINE x == list[i - 1]
             y == list[j - 1]
  <2>1. i - 1 \in DOMAIN list /\ j - 1 \in DOMAIN list /\ i - 1 < j - 1
    BY <1>7, <1>11, <1>13
  <2>2. Shorter(x, y)
    BY <1>4, <2>1
  <2>3. x \in MetaName /\ y \in MetaName
        /\ StartsWith(path, x.dir) /\ StartsWith(path, y.dir)
    BY <1>2, <1>7, <2>1
  <2>4. /\ b[i].dir = x.dir /\ b[j].dir = y.dir
        /\ b[i] = MetaOwn(x) /\ b[j] = MetaOwn(y)
    BY <1>12
  <2> HIDE DEF x, y, path
  <2>5. Len(x.dir) <= Len(y.dir) /\ x # y
    BY <1>1, <2>2, <2>3, ShorterOrder DEF MetaName
  <2> QED BY <2>3, <2>4, <2>5, OwnElement
<1>14. ASSUME NEW m \in metas, IsPrefix(m.dir, dir)
       PROVE  \E i \in 1..Len(b) : b[i] = MetaOwn(m)
  <2>1. StartsWith(path, m.dir)
    <3>1. m.dir \in Seq(Name)
      BY DEF MetaName, MetaOver
    <3> QED BY <1>14, <3>1, PrefixStartsWith
  <2>2. m \in ToSet(list)
    BY <1>5, <2>1
  <2>3. PICK k \in 1..Len(list) : list[k] = m
    BY <1>7, <2>2 DEF ToSet
  <2>4. k + 1 \in 2..Len(b) /\ b[k + 1] = tail[k]
    BY <1>7, <1>11
  <2> QED BY <1>9, <2>3, <2>4
<1>15. b = Before(dir, method) /\ Len(b) \in 1..Len(b) /\ b[1].kind = "app"
  BY <1>6, <1>7, <1>10, <1>11 DEF b
<1> HIDE DEF path, found
<1>16. Begins(b, Len(b), dir, metas)
  BY <1>11, <1>12, <1>13, <1>14, <1>15 DEF Begins
<1> QED BY <1>15, <1>16

(* An element more at the end leaves the beginning as it is.               *)
LEMMA BeginsAppend ==
    ASSUME NEW chain, NEW n, NEW d, NEW x \in Element, NEW ms,
           Begins(chain, n, d, ms)
    PROVE  /\ Begins(Append(chain, x), n, d, ms)
           /\ Len(Append(chain, x)) = Len(chain) + 1
           /\ \A i \in 1..Len(chain) : Append(chain, x)[i] = chain[i]
           /\ Append(chain, x)[Len(chain) + 1] = x
<1>1. chain \in Seq(Element) /\ n \in 1..Len(chain) /\ Len(chain) \in Nat
  BY DEF Begins
<1> DEFINE c == Append(chain, x)
<1>2. /\ c \in Seq(Element) /\ Len(c) = Len(chain) + 1
      /\ \A i \in 1..Len(chain) : c[i] = chain[i]
      /\ c[Len(chain) + 1] = x
  BY <1>1
<1> HIDE DEF c
<1>3. n \in 1..Len(c) /\ \A i \in 1..n : c[i] = chain[i]
  BY <1>1, <1>2
<1>4. Begins(c, n, d, ms)
  BY <1>1, <1>2, <1>3 DEF Begins
<1> QED BY <1>2, <1>4 DEF c

-----------------------------------------------------------------------------
(* The inductive invariant.                                                *)

Socket(k) == Own("socket", Endpoints[k].dir, Endpoints[k].method, "")

Route == [method : Name, path : Seq(Name), chain : Seq(Element)]

(* Behind the beginning of a chain comes the module's own middleware, or   *)
(* the handler of one of the merged socket endpoints, of this method and   *)
(* path, or the former and then the latter.                                *)
Ends(route, n, done) ==
    LET c == route.chain IN
    \/ Len(c) = n + 1 /\ c[n + 1].kind = "module"
    \/ \E k \in 1..done :
          /\ SameRoute(route, Endpoints[k]) /\ c[Len(c)] = Socket(k)
          /\ \/ Len(c) = n + 1
             \/ Len(c) = n + 2 /\ c[n + 1].kind = "module"

NoEmpty(path) == \A i \in 1..Len(path) : path[i] # Empty

(* A route comes from a module or an endpoint in a directory, and its path *)
(* leads there or to a directory above, if a dot cut it.                   *)
RouteOK(route, done, ms) ==
    \E d, p \in Seq(Name) : \E n \in Nat :
        /\ route.path = MountPath \o p /\ IsPrefix(p, d) /\ NoEmpty(d)
        /\ Begins(route.chain, n, d, ms)
        /\ Ends(route, n, done)

FilesInv ==
    /\ files \subseteq File
    /\ metas \subseteq MetaFile /\ IsFiniteSet(metas)
    /\ listing \in Seq(File) /\ ToSet(listing) = files

PhaseInv ==
    /\ phase \in {"reading", "refused", "merging", "serving"}
    /\ merged \in 0..3
    /\ phase \in {"reading", "refused"} => merged = 0 /\ routes = <<>>
    /\ phase = "merging" => merged < 3
    /\ phase = "serving" => merged = 3

RouteInv ==
    /\ routes \in Seq(Route)
    /\ \A i \in DOMAIN routes :
          /\ routes[i].method \in Method \cup ToSet(Stem)
          /\ RouteOK(routes[i], merged, metas)

(* Each merged endpoint is the end of one chain and in no other.           *)
MergedInv ==
    \A k \in 1..merged : \E i \in DOMAIN routes :
        /\ SameRoute(routes[i], Endpoints[k])
        /\ Last(routes[i].chain) = Socket(k)
        /\ \A j \in DOMAIN routes : Socket(k) \in ToSet(routes[j].chain) => j = i

RoutesInv == FilesInv /\ PhaseInv /\ RouteInv /\ MergedInv

LEMMA NamesOf ==
    /\ Dir \subseteq Seq(Name) /\ MountPath \in Seq(Name)
    /\ Method \subseteq Name
    /\ \A x \in DOMAIN Stem : Stem[x] \in Name
    /\ MetaFile \subseteq MetaName
    /\ NoEmpty(MountPath) /\ \A d \in Dir : NoEmpty(d)
<1>1. STRING \subseteq Name
  BY DEF Name
<1>2. Seq(STRING) \subseteq Seq(Name)
  <2> DEFINE T == STRING
  <2>1. T \subseteq Name
    BY <1>1
  <2> HIDE DEF T
  <2>2. Seq(T) \subseteq Seq(Name)
    BY <2>1
  <2> QED BY <2>2 DEF T
<1>3. Dir \subseteq Seq(Name)
  BY <1>2, DirAssumption
<1>4. MetaFile \subseteq MetaName
  BY <1>3 DEF MetaFile, MetaName, MetaOver
<1>5. ASSUME NEW d \in Dir \cup {MountPath}
      PROVE  NoEmpty(d)
  <2>1. d \in Seq(Name)
    BY <1>2, <1>3, DirAssumption
  <2>2. Empty \notin ToSet(d)
    BY DirAssumption, Zenon
  <2>3. DOMAIN d = 1..Len(d)
    BY <2>1
  <2> QED BY <2>2, <2>3 DEF NoEmpty, ToSet
<1> QED BY <1>1, <1>2, <1>3, <1>4, <1>5, DirAssumption, MethodAssumption

(* The three endpoints differ in their methods.                            *)
LEMMA EndpointFacts ==
    /\ Len(Endpoints) = 3
    /\ \A k \in 1..3 :
          /\ Endpoints[k].method \in Method /\ Endpoints[k].dir \in Seq(Name)
          /\ NoEmpty(Endpoints[k].dir)
          /\ Socket(k) \in Element /\ Socket(k).kind = "socket"
          /\ Socket(k).method = Endpoints[k].method
    /\ \A k, l \in 1..3 : Endpoints[k].method = Endpoints[l].method => k = l
<1>1. Len(Endpoints) = 3
  BY DEF Endpoints
<1>2. /\ Endpoints[1].method = "GET" /\ Endpoints[1].dir = <<"ws">>
      /\ Endpoints[2].method = "POST" /\ Endpoints[2].dir = <<"ws">>
      /\ Endpoints[3].method = "PUT" /\ Endpoints[3].dir = <<"ws", ":clientId">>
  BY DEF Endpoints
<1>3. <<"ws">> \in Seq(Name) /\ <<"ws", ":clientId">> \in Seq(Name)
  <2>1. \A x, y \in Name : <<x>> \in Seq(Name) /\ <<x, y>> \in Seq(Name)
    OBVIOUS
  <2> QED BY <2>1, LiteralName
<1>4. ASSUME NEW k \in 1..3
      PROVE  Endpoints[k].method \in Method /\ Endpoints[k].dir \in Seq(Name)
  <2>1. k = 1 \/ k = 2 \/ k = 3
    OBVIOUS
  <2> QED BY <1>2, <1>3, <2>1, MethodAssumption, Zenon
<1>5. ASSUME NEW k \in 1..3
      PROVE  /\ Socket(k) \in Element /\ Socket(k).kind = "socket"
             /\ Socket(k).method = Endpoints[k].method
  <2>1. Endpoints[k].method \in Name
    BY <1>4, NamesOf
  <2> QED BY <1>4, <2>1, LiteralName, Zenon DEF Socket, Own, Element
<1>6. ASSUME NEW k \in 1..3, NEW l \in 1..3,
             Endpoints[k].method = Endpoints[l].method
      PROVE  k = l
  <2>1. (k = 1 \/ k = 2 \/ k = 3) /\ (l = 1 \/ l = 2 \/ l = 3)
    OBVIOUS
  <2> QED BY <1>2, <1>6, <2>1
<1>7. ASSUME NEW k \in 1..3
      PROVE  NoEmpty(Endpoints[k].dir)
  <2>1. ASSUME NEW x \in Name, NEW y \in Name, x # Empty, y # Empty
        PROVE  NoEmpty(<<x>>) /\ NoEmpty(<<x, y>>)
    <3>1. Len(<<x>>) = 1 /\ <<x>>[1] = x
      OBVIOUS
    <3>2. Len(<<x, y>>) = 2 /\ <<x, y>>[1] = x /\ <<x, y>>[2] = y
      OBVIOUS
    <3>3. 1..1 = {1} /\ 1..2 = {1, 2}
      OBVIOUS
    <3> QED BY <2>1, <3>1, <3>2, <3>3, Zenon DEF NoEmpty
  <2>2. "ws" # Empty /\ ":clientId" # Empty
    BY DEF Empty
  <2>3. NoEmpty(<<"ws">>) /\ NoEmpty(<<"ws", ":clientId">>)
    BY <2>1, <2>2, LiteralName
  <2>4. k = 1 \/ k = 2 \/ k = 3
    OBVIOUS
  <2> QED BY <1>2, <2>3, <2>4, Zenon
<1> QED BY <1>1, <1>4, <1>5, <1>6, <1>7

(* The route of a method file: a dot in the name of a directory cuts its   *)
(* path there.                                                             *)
LEMMA ModuleRouteOK ==
    ASSUME FilesInv, NEW f \in File
    PROVE  /\ ModuleRoute(f) \in Route /\ RouteOK(ModuleRoute(f), 0, metas)
           /\ ModuleRoute(f).method \in Method \cup ToSet(Stem)
<1> DEFINE dot == FirstDot(f.dir)
           b == Before(f.dir, f.method)
           own == Own("module", f.dir, f.method, f.ext)
           p == IF dot = 0 THEN f.dir ELSE SubSeq(f.dir, 1, dot - 1)
           method == IF dot = 0 THEN f.method ELSE Stem[f.dir[dot]]
<1>1. /\ f.dir \in Dir /\ f.method \in Method
      /\ f.dir \in Seq(Name) /\ f.method \in Name /\ f.ext \in Name
      /\ NoEmpty(f.dir)
  <2>1. f.dir \in Dir /\ f.method \in Method /\ f.ext \in {"js", "ts"}
    BY DEF File
  <2>2. f.ext \in Name
    BY <2>1, LiteralName, Zenon
  <2> QED BY <2>1, <2>2, NamesOf
<1>2. own \in Element /\ own.kind = "module"
  BY <1>1, OwnElement, LiteralName, Zenon DEF Own
<1>3. Begins(b, Len(b), f.dir, metas)
  <2>1. metas \subseteq MetaName /\ IsFiniteSet(metas)
    BY NamesOf DEF FilesInv
  <2> QED BY <1>1, <2>1, BeforeBegins
<1>4. dot # 0 => dot \in 1..Len(f.dir) /\ f.dir[dot] \in DOMAIN Stem
  <2> DEFINE I == {i \in 1..Len(f.dir) : f.dir[i] \in DOMAIN Stem}
  <2>1. dot = IF I # {} THEN Min(I) ELSE 0
    BY DEF FirstDot, SelectInSeq
  <2>2. I \in SUBSET Nat
    OBVIOUS
  <2>3. I # {} => Min(I) \in I
    BY <2>2, MinElement
  <2> HIDE DEF dot
  <2>4. CASE I = {}
    BY <2>1, <2>4
  <2>5. CASE I # {}
    BY <2>1, <2>3, <2>5
  <2> QED BY <2>4, <2>5
<1> HIDE DEF dot, b, own
<1>5. p \in Seq(Name) /\ IsPrefix(p, f.dir)
  <2>1. CASE dot = 0
    <3>1. IsPrefix(f.dir, f.dir)
      BY <1>1, PrefixElements
    <3> QED BY <1>1, <2>1, <3>1
  <2>2. CASE dot # 0
    <3> DEFINE n == dot - 1
    <3>1. n \in Nat /\ n <= Len(f.dir)
      BY <1>1, <1>4, <2>2
    <3> HIDE DEF n
    <3>2. /\ SubSeq(f.dir, 1, n) \in Seq(Name) /\ Len(SubSeq(f.dir, 1, n)) = n
          /\ \A i \in 1..n : SubSeq(f.dir, 1, n)[i] = f.dir[i]
      BY <1>1, <3>1
    <3>3. IsPrefix(SubSeq(f.dir, 1, n), f.dir)
      BY <1>1, <3>1, <3>2, PrefixElements
    <3> QED BY <2>2, <3>2, <3>3 DEF n
  <2> QED BY <2>1, <2>2
<1>6. method \in Name /\ method \in Method \cup ToSet(Stem)
  BY <1>1, <1>4, NamesOf DEF ToSet
<1> HIDE DEF p, method
<1> DEFINE r == [method |-> method, path |-> MountPath \o p,
                 chain |-> Append(b, own)]
<1>7. ModuleRoute(f) = r
  BY DEF ModuleRoute, dot, b, own, p, method
<1>8. r.method = method /\ r.path = MountPath \o p /\ r.chain = Append(b, own)
  OBVIOUS
<1>9. /\ Begins(r.chain, Len(b), f.dir, metas)
      /\ Len(r.chain) = Len(b) + 1 /\ r.chain[Len(b) + 1] = own
      /\ r.chain \in Seq(Element) /\ Len(b) \in Nat
  BY <1>2, <1>3, <1>8, BeginsAppend DEF Begins
<1>10. r \in Route
  <2>1. MountPath \o p \in Seq(Name)
    BY <1>5, NamesOf
  <2> QED BY <1>6, <1>8, <1>9, <2>1 DEF Route
<1> HIDE DEF r
<1>11. Ends(r, Len(b), 0)
  BY <1>2, <1>9 DEF Ends
<1>12. RouteOK(r, 0, metas)
  BY <1>1, <1>5, <1>8, <1>9, <1>11 DEF RouteOK
<1> QED BY <1>6, <1>7, <1>8, <1>10, <1>12

(* The route that is built for a socket endpoint.                          *)
LEMMA EndpointRouteOK ==
    ASSUME FilesInv, NEW k \in 1..3, NEW done \in 1..3, k <= done
    PROVE  LET r == EndpointRoute(Endpoints[k]) IN
           /\ r \in Route /\ RouteOK(r, done, metas)
           /\ r.method \in Method /\ SameRoute(r, Endpoints[k])
           /\ Last(r.chain) = Socket(k)
<1> DEFINE e == Endpoints[k]
           b == Before(e.dir, e.method)
<1>1. /\ e.dir \in Seq(Name) /\ NoEmpty(e.dir)
      /\ e.method \in Method /\ e.method \in Name
  BY EndpointFacts, NamesOf
<1>2. Begins(b, Len(b), e.dir, metas)
  <2>1. metas \subseteq MetaName /\ IsFiniteSet(metas)
    BY NamesOf DEF FilesInv
  <2> HIDE DEF e
  <2> QED BY <1>1, <2>1, BeforeBegins
<1> DEFINE r == [method |-> e.method, path |-> MountPath \o e.dir,
                 chain |-> Append(b, Socket(k))]
<1>3. EndpointRoute(Endpoints[k]) = r
  BY DEF EndpointRoute, Socket
<1> HIDE DEF b, e
<1>4. /\ r.method = e.method /\ r.path = MountPath \o e.dir
      /\ r.chain = Append(b, Socket(k))
  OBVIOUS
<1>5. Socket(k) \in Element
  BY EndpointFacts
<1>6. /\ Begins(r.chain, Len(b), e.dir, metas)
      /\ Len(r.chain) = Len(b) + 1 /\ r.chain[Len(b) + 1] = Socket(k)
      /\ r.chain \in Seq(Element) /\ Len(b) \in Nat
  BY <1>2, <1>4, <1>5, BeginsAppend DEF Begins
<1>7. r \in Route
  <2>1. MountPath \o e.dir \in Seq(Name)
    BY <1>1, NamesOf
  <2> QED BY <1>1, <1>4, <1>6, <2>1 DEF Route
<1> HIDE DEF r
<1>8. SameRoute(r, Endpoints[k])
  BY <1>4 DEF SameRoute, e
<1>9. Last(r.chain) = Socket(k)
  BY <1>6 DEF Last
<1>10. Ends(r, Len(b), done)
  BY <1>6, <1>8 DEF Ends
<1>11. IsPrefix(e.dir, e.dir)
  BY <1>1, PrefixElements
<1>12. RouteOK(r, done, metas)
  BY <1>1, <1>4, <1>6, <1>10, <1>11 DEF RouteOK
<1> QED BY <1>1, <1>3, <1>4, <1>7, <1>8, <1>9, <1>12

(* A route stays right when another endpoint is merged.                    *)
LEMMA RouteStaysOK ==
    ASSUME NEW r, NEW done \in 0..2, NEW ms, RouteOK(r, done, ms)
    PROVE  RouteOK(r, done + 1, ms)
<1>1. PICK d \in Seq(Name), p \in Seq(Name), n \in Nat :
          /\ r.path = MountPath \o p /\ IsPrefix(p, d) /\ NoEmpty(d)
          /\ Begins(r.chain, n, d, ms) /\ Ends(r, n, done)
  BY DEF RouteOK
<1>2. 1..done \subseteq 1..(done + 1)
  OBVIOUS
<1>3. Ends(r, n, done + 1)
  BY <1>1, <1>2 DEF Ends
<1> QED BY <1>1, <1>3 DEF RouteOK

(* The endpoint whose handler a chain holds is merged, has the method and  *)
(* path of the route, and its handler comes last.                          *)
LEMMA SocketInChain ==
    ASSUME NEW r \in Route, NEW done \in 0..3, NEW ms, RouteOK(r, done, ms),
           NEW k \in 1..3, Socket(k) \in ToSet(r.chain)
    PROVE  /\ k <= done /\ SameRoute(r, Endpoints[k])
           /\ Last(r.chain) = Socket(k)
<1> DEFINE c == r.chain
<1>1. PICK d \in Seq(Name), p \in Seq(Name), n \in Nat :
          Begins(c, n, d, ms) /\ Ends(r, n, done)
  BY DEF RouteOK
<1>2. PICK i \in 1..Len(c) : c[i] = Socket(k)
  BY <1>1 DEF ToSet, Begins
<1>3. c[i].kind = "socket"
  BY <1>2, EndpointFacts
<1>4. /\ n \in 1..Len(c) /\ Len(c) \in Nat
      /\ \A j \in 1..n : c[j].kind # "socket"
  <2>1. n \in 1..Len(c) /\ Len(c) \in Nat
    BY <1>1 DEF Begins
  <2>2. ASSUME NEW j \in 1..n
        PROVE  c[j].kind = "app" \/ c[j].kind = "meta"
    <3>1. j = 1 \/ j \in 2..n
      BY <2>1
    <3> QED BY <1>1, <3>1 DEF Begins
  <2>3. "app" # "socket" /\ "meta" # "socket"
    OBVIOUS
  <2> QED BY <2>1, <2>2, <2>3
<1>5. i > n
  BY <1>3, <1>4
<1>6. "module" # "socket"
  OBVIOUS
<1>7. PICK l \in 1..done :
          /\ SameRoute(r, Endpoints[l]) /\ c[Len(c)] = Socket(l)
          /\ \/ Len(c) = n + 1
             \/ Len(c) = n + 2 /\ c[n + 1].kind = "module"
  <2>1. ~(Len(c) = n + 1 /\ c[n + 1].kind = "module")
    BY <1>3, <1>4, <1>5, <1>6
  <2> QED BY <1>1, <2>1 DEF Ends
<1>8. i = Len(c)
  BY <1>3, <1>4, <1>5, <1>6, <1>7
<1>9. l \in 1..3
  OBVIOUS
<1>10. Endpoints[l].method = Endpoints[k].method
  BY <1>2, <1>7, <1>8, <1>9, EndpointFacts
<1>11. l = k
  BY <1>9, <1>10, EndpointFacts
<1> QED BY <1>7, <1>11 DEF Last

LEMMA OneEndpoint ==
    ASSUME NEW r, NEW k \in 1..3, NEW l \in 1..3,
           SameRoute(r, Endpoints[k]), SameRoute(r, Endpoints[l])
    PROVE  k = l
BY EndpointFacts DEF SameRoute

(* A module's route that takes an endpoint's handler behind its own.       *)
LEMMA PushedRouteOK ==
    ASSUME NEW r \in Route, NEW done \in 0..2, NEW ms, RouteOK(r, done, ms),
           SameRoute(r, Endpoints[done + 1])
    PROVE  LET q == [r EXCEPT !.chain = Append(@, Socket(done + 1))] IN
           /\ q \in Route /\ RouteOK(q, done + 1, ms)
           /\ q.method = r.method /\ SameRoute(q, Endpoints[done + 1])
           /\ Last(q.chain) = Socket(done + 1)
<1> DEFINE k == done + 1
           c == r.chain
           x == Append(c, Socket(k))
           q == [r EXCEPT !.chain = Append(@, Socket(k))]
<1>1. k \in 1..3 /\ Socket(k) \in Element
  BY EndpointFacts
<1>2. PICK d \in Seq(Name), p \in Seq(Name), n \in Nat :
          /\ r.path = MountPath \o p /\ IsPrefix(p, d) /\ NoEmpty(d)
          /\ Begins(c, n, d, ms) /\ Ends(r, n, done)
  BY DEF RouteOK
<1>3. Len(c) = n + 1 /\ c[n + 1].kind = "module"
  <2>1. ASSUME NEW l \in 1..done
        PROVE  ~SameRoute(r, Endpoints[l])
    <3>1. l \in 1..3 /\ l # k
      OBVIOUS
    <3> QED BY <1>1, <3>1, OneEndpoint
  <2> QED BY <1>2, <2>1 DEF Ends
<1>4. /\ Begins(x, n, d, ms) /\ Len(x) = n + 2
      /\ x[n + 1] = c[n + 1] /\ x[n + 2] = Socket(k)
  BY <1>1, <1>2, <1>3, BeginsAppend
<1>5. x \in Seq(Element)
  BY <1>4 DEF Begins
<1> HIDE DEF x
<1>6. q.method = r.method /\ q.path = r.path /\ q.chain = x /\ q \in Route
  <2>1. q = [r EXCEPT !.chain = x]
    BY DEF x
  <2> HIDE DEF q
  <2> QED BY <1>5, <2>1 DEF Route
<1> HIDE DEF q
<1>7. SameRoute(q, Endpoints[k]) /\ Last(q.chain) = Socket(k)
  BY <1>4, <1>6 DEF SameRoute, Last
<1>8. Ends(q, n, k)
  BY <1>3, <1>4, <1>6, <1>7 DEF Ends
<1>9. RouteOK(q, k, ms)
  BY <1>2, <1>4, <1>6, <1>8 DEF RouteOK
<1> QED BY <1>6, <1>7, <1>9 DEF q

(* What the turn for endpoint k leaves.                                    *)
Merged(rs, k) ==
    /\ rs \in Seq(Route)
    /\ \A i \in DOMAIN rs :
          rs[i].method \in Method \cup ToSet(Stem) /\ RouteOK(rs[i], k, metas)
    /\ \A l \in 1..k : \E i \in DOMAIN rs :
          /\ SameRoute(rs[i], Endpoints[l])
          /\ Last(rs[i].chain) = Socket(l)
          /\ \A j \in DOMAIN rs : Socket(l) \in ToSet(rs[j].chain) => j = i

(* One route takes the handler of endpoint k, and the others are as they   *)
(* were.                                                                   *)
LEMMA OneRouteMerged ==
    ASSUME RoutesInv, merged \in 0..2,
           NEW rs \in Seq(Route), NEW t \in DOMAIN rs,
           DOMAIN routes \cup {t} = DOMAIN rs,
           \A i \in DOMAIN rs : i # t => i \in DOMAIN routes /\ rs[i] = routes[i],
           t \in DOMAIN routes => SameRoute(routes[t], Endpoints[merged + 1]),
           rs[t].method \in Method \cup ToSet(Stem),
           RouteOK(rs[t], merged + 1, metas),
           SameRoute(rs[t], Endpoints[merged + 1]),
           Last(rs[t].chain) = Socket(merged + 1)
    PROVE  Merged(rs, merged + 1)
<1> DEFINE k == merged + 1
<1>1. k \in 1..3
  OBVIOUS
<1>2. ASSUME NEW i \in DOMAIN rs
      PROVE  /\ rs[i].method \in Method \cup ToSet(Stem)
             /\ RouteOK(rs[i], k, metas)
  <2>1. CASE i = t
    BY <2>1
  <2>2. CASE i # t
    <3>1. /\ routes[i].method \in Method \cup ToSet(Stem)
          /\ RouteOK(routes[i], merged, metas) /\ rs[i] = routes[i]
      BY <2>2 DEF RoutesInv, RouteInv
    <3> QED BY <3>1, RouteStaysOK
  <2> QED BY <2>1, <2>2
<1>3. ASSUME NEW l \in 1..3, NEW j \in DOMAIN rs,
             Socket(l) \in ToSet(rs[j].chain)
      PROVE  IF j = t THEN l = k
             ELSE j \in DOMAIN routes /\ l # k
                    /\ Socket(l) \in ToSet(routes[j].chain)
  <2>1. CASE j = t
    <3>1. rs[t] \in Route /\ k \in 0..3
      BY <1>1
    <3> HIDE DEF k
    <3>2. SameRoute(rs[t], Endpoints[l])
      BY <1>2, <1>3, <2>1, <3>1, SocketInChain
    <3> QED BY <1>1, <2>1, <3>2, OneEndpoint DEF k
  <2>2. CASE j # t
    <3>1. j \in DOMAIN routes /\ rs[j] = routes[j]
      BY <2>2
    <3>2. routes[j] \in Route /\ RouteOK(routes[j], merged, metas)
      BY <3>1 DEF RoutesInv, RouteInv
    <3>3. merged \in 0..3
      OBVIOUS
    <3>4. l <= merged
      BY <1>3, <3>1, <3>2, <3>3, SocketInChain
    <3> QED BY <1>3, <2>2, <3>1, <3>4
  <2> QED BY <2>1, <2>2
<1>4. ASSUME NEW l \in 1..k
      PROVE  \E i \in DOMAIN rs :
                /\ SameRoute(rs[i], Endpoints[l])
                /\ Last(rs[i].chain) = Socket(l)
                /\ \A j \in DOMAIN rs : Socket(l) \in ToSet(rs[j].chain) => j = i
  <2>1. l \in 1..3
    BY <1>1
  <2>2. CASE l = k
    <3>1. \A j \in DOMAIN rs : Socket(l) \in ToSet(rs[j].chain) => j = t
      BY <1>3, <2>1, <2>2
    <3> QED BY <2>2, <3>1
  <2>3. CASE l # k
    <3>1. l \in 1..merged
      BY <2>3
    <3>2. PICK i \in DOMAIN routes :
              /\ SameRoute(routes[i], Endpoints[l])
              /\ Last(routes[i].chain) = Socket(l)
              /\ \A j \in DOMAIN routes :
                    Socket(l) \in ToSet(routes[j].chain) => j = i
      BY <3>1 DEF RoutesInv, MergedInv
    <3>3. i # t
      BY <1>1, <2>1, <2>3, <3>2, OneEndpoint
    <3>4. i \in DOMAIN rs /\ rs[i] = routes[i]
      BY <3>3
    <3>5. \A j \in DOMAIN rs : Socket(l) \in ToSet(rs[j].chain) => j = i
      BY <1>3, <2>1, <2>3, <3>2
    <3> QED BY <3>2, <3>4, <3>5
  <2> QED BY <2>2, <2>3
<1> QED BY <1>2, <1>4 DEF Merged

LEMMA MergeRouteMerged ==
    ASSUME RoutesInv, merged \in 0..2
    PROVE  Merged(MergeRoute(Endpoints[merged + 1]), merged + 1)
<1> DEFINE k == merged + 1
           e == Endpoints[k]
           target == SelectInSeq(routes, LAMBDA r : SameRoute(r, e))
           I == {i \in 1..Len(routes) : SameRoute(routes[i], e)}
           rs == MergeRoute(e)
<1>1. k \in 1..3
  OBVIOUS
<1>2. /\ routes \in Seq(Route) /\ DOMAIN routes = 1..Len(routes)
      /\ Len(routes) \in Nat
  BY DEF RoutesInv, RouteInv
<1>3. target = IF I # {} THEN Min(I) ELSE 0
  BY DEF SelectInSeq
<1>4. I # {} => Min(I) \in I
  <2>1. I \in SUBSET Nat
    BY <1>2
  <2> QED BY <2>1, MinElement
<1>5. rs = IF target = 0
           THEN Append(routes, EndpointRoute(e))
           ELSE [routes EXCEPT ![target].chain =
                    Append(@, Own("socket", e.dir, e.method, ""))]
  BY DEF MergeRoute
<1> HIDE DEF target, rs
<1>6. CASE I = {}
  <2> DEFINE t == Len(routes) + 1
             new == EndpointRoute(e)
  <2>1. rs = Append(routes, new)
    BY <1>3, <1>5, <1>6
  <2>2. /\ new \in Route /\ RouteOK(new, k, metas)
        /\ new.method \in Method /\ SameRoute(new, e)
        /\ Last(new.chain) = Socket(k)
    BY <1>1, EndpointRouteOK DEF RoutesInv
  <2> HIDE DEF new, e
  <2>3. /\ rs \in Seq(Route) /\ DOMAIN rs = 1..t /\ rs[t] = new
        /\ \A i \in 1..Len(routes) : rs[i] = routes[i]
    BY <1>2, <2>1, <2>2
  <2>4. /\ t \in DOMAIN rs /\ t \notin DOMAIN routes
        /\ DOMAIN routes \cup {t} = DOMAIN rs
        /\ \A i \in DOMAIN rs : i # t => i \in DOMAIN routes /\ rs[i] = routes[i]
    BY <1>2, <2>3
  <2> HIDE DEF t
  <2>5. Merged(rs, merged + 1)
    BY <2>2, <2>3, <2>4, OneRouteMerged DEF e
  <2> QED BY <2>5 DEF rs, e
<1>7. CASE I # {}
  <2> DEFINE q == [routes[target] EXCEPT !.chain = Append(@, Socket(k))]
  <2>1. target \in DOMAIN routes /\ SameRoute(routes[target], e)
    BY <1>2, <1>3, <1>4, <1>7
  <2>2. target # 0
    BY <1>2, <2>1
  <2>3. rs = [routes EXCEPT ![target] = q]
    BY <1>5, <2>2 DEF Socket
  <2>4. routes[target] \in Route /\ RouteOK(routes[target], merged, metas)
        /\ routes[target].method \in Method \cup ToSet(Stem)
    BY <1>2, <2>1 DEF RoutesInv, RouteInv
  <2>5. /\ q \in Route /\ RouteOK(q, k, metas)
        /\ q.method = routes[target].method /\ SameRoute(q, e)
        /\ Last(q.chain) = Socket(k)
    BY <2>1, <2>4, PushedRouteOK
  <2> HIDE DEF q, e
  <2>6. /\ rs \in Seq(Route) /\ DOMAIN rs = DOMAIN routes /\ rs[target] = q
        /\ \A i \in DOMAIN routes : i # target => rs[i] = routes[i]
    BY <1>2, <2>1, <2>3, <2>5
  <2>7. /\ target \in DOMAIN rs
        /\ DOMAIN routes \cup {target} = DOMAIN rs
        /\ \A i \in DOMAIN rs : i # target => i \in DOMAIN routes /\ rs[i] = routes[i]
    BY <2>1, <2>6
  <2>8. Merged(rs, merged + 1)
    BY <2>1, <2>4, <2>5, <2>6, <2>7, OneRouteMerged DEF e
  <2> QED BY <2>8 DEF rs, e
<1> QED BY <1>6, <1>7

LEMMA RoutesInvInit ==
    Init => RoutesInv
<1> SUFFICES ASSUME Init PROVE RoutesInv
  OBVIOUS
<1>1. PICK fs \in SeqOf(File, MaxFiles) : files = ToSet(fs)
  BY DEF Init
<1>2. PICK ms \in SeqOf(MetaFile, MaxMetas) : metas = ToSet(ms)
  BY DEF Init
<1>3. IsFiniteSet(files) /\ files \subseteq File
  BY <1>1, ElementsFinite, BoundAssumption
<1>4. IsFiniteSet(metas) /\ metas \subseteq MetaFile
  BY <1>2, ElementsFinite, BoundAssumption
<1>5. listing \in SetToSeqs(files)
  BY DEF Init
<1>6. listing \in Seq(files) /\ ToSet(listing) = files
  BY <1>3, <1>5, SetToSeqsElements
<1>7. FilesInv
  BY <1>3, <1>4, <1>6 DEF FilesInv
<1>8. merged = 0 /\ routes = <<>> /\ phase = "reading"
  BY DEF Init
<1>9. PhaseInv
  <2>1. 0 \in 0..3
    OBVIOUS
  <2>2. "reading" # "merging" /\ "reading" # "serving"
    OBVIOUS
  <2> QED BY <1>8, <2>1, <2>2, Zenon DEF PhaseInv
<1>10. RouteInv /\ MergedInv
  BY <1>8 DEF RouteInv, MergedInv
<1> QED BY <1>7, <1>9, <1>10 DEF RoutesInv

LEMMA RoutesInvNext ==
    RoutesInv /\ [Next]_vars => RoutesInv'
<1> SUFFICES ASSUME RoutesInv, [Next]_vars PROVE RoutesInv'
  OBVIOUS
<1>1. ASSUME Refuse PROVE RoutesInv'
  <2>1. /\ files' = files /\ metas' = metas /\ listing' = listing
        /\ merged' = merged /\ routes' = routes
        /\ phase = "reading" /\ phase' = "refused"
    BY <1>1 DEF Refuse
  <2>2. FilesInv'
    BY <2>1 DEF RoutesInv, FilesInv
  <2>3. PhaseInv'
    BY <2>1 DEF RoutesInv, PhaseInv
  <2>4. RouteInv' /\ MergedInv'
    BY <2>1 DEF RoutesInv, RouteInv, MergedInv
  <2> QED BY <2>2, <2>3, <2>4 DEF RoutesInv
<1>2. ASSUME BuildNormalRoutes PROVE RoutesInv'
  <2>1. /\ files' = files /\ metas' = metas /\ listing' = listing
        /\ merged' = merged
        /\ phase = "reading" /\ phase' = "merging"
        /\ routes' = [i \in DOMAIN listing |-> ModuleRoute(listing[i])]
    BY <1>2 DEF BuildNormalRoutes
  <2>2. FilesInv /\ merged = 0
    BY <2>1 DEF RoutesInv, PhaseInv
  <2>3. FilesInv'
    BY <2>1, <2>2 DEF FilesInv
  <2>4. PhaseInv'
    BY <2>1, <2>2 DEF PhaseInv
  <2>5. listing \in Seq(File)
    BY <2>2 DEF FilesInv
  <2>6. ASSUME NEW i \in DOMAIN listing
        PROVE  /\ ModuleRoute(listing[i]) \in Route
               /\ RouteOK(ModuleRoute(listing[i]), 0, metas)
               /\ ModuleRoute(listing[i]).method \in Method \cup ToSet(Stem)
    BY <2>2, <2>5, ModuleRouteOK
  <2>7. RouteInv'
    <3>1. routes' \in Seq(Route) /\ DOMAIN routes' = DOMAIN listing
          /\ \A i \in DOMAIN listing : routes'[i] = ModuleRoute(listing[i])
      BY <2>1, <2>5, <2>6
    <3> QED BY <2>1, <2>2, <2>6, <3>1 DEF RouteInv
  <2>8. MergedInv'
    BY <2>1, <2>2 DEF MergedInv
  <2> QED BY <2>3, <2>4, <2>7, <2>8 DEF RoutesInv
<1>3. ASSUME MergeSocketRoute PROVE RoutesInv'
  <2>1. /\ files' = files /\ metas' = metas /\ listing' = listing
        /\ merged' = merged + 1
        /\ phase = "merging"
        /\ routes' = MergeRoute(Endpoints[merged + 1])
        /\ phase' = IF merged + 1 = Len(Endpoints) THEN "serving" ELSE "merging"
    BY <1>3 DEF MergeSocketRoute
  <2>2. merged \in 0..2
    BY <2>1 DEF RoutesInv, PhaseInv
  <2>3. FilesInv'
    BY <2>1 DEF RoutesInv, FilesInv
  <2>4. PhaseInv'
    <3>1. phase' = IF merged' = 3 THEN "serving" ELSE "merging"
      BY <2>1, EndpointFacts
    <3>2. merged' \in 1..3
      BY <2>1, <2>2
    <3> QED BY <3>1, <3>2 DEF PhaseInv
  <2>5. Merged(routes', merged')
    BY <2>1, <2>2, MergeRouteMerged
  <2>6. RouteInv' /\ MergedInv'
    BY <2>1, <2>5 DEF Merged, RouteInv, MergedInv
  <2> QED BY <2>3, <2>4, <2>6 DEF RoutesInv
<1>4. ASSUME UNCHANGED vars PROVE RoutesInv'
  <2>1. /\ files' = files /\ metas' = metas /\ listing' = listing
        /\ merged' = merged /\ routes' = routes /\ phase' = phase
    BY <1>4 DEF vars
  <2> QED BY <2>1 DEF RoutesInv, FilesInv, PhaseInv, RouteInv, MergedInv
<1> QED BY <1>1, <1>2, <1>3, <1>4 DEF Next

(* The inductive invariant: every route built so far has the chain of the  *)
(* directory it was built for, and each merged socket endpoint ends one.   *)
THEOREM RoutesInvHolds == Spec => []RoutesInv
BY RoutesInvInit, RoutesInvNext, PTL DEF Spec

-----------------------------------------------------------------------------
(* Types, and paths below the mount path.                                  *)
THEOREM RoutesTypeCorrect == Spec => []TypeOK
<1>1. RoutesInv => TypeOK
  <2> SUFFICES ASSUME RoutesInv PROVE TypeOK
    OBVIOUS
  <2>1. /\ files \subseteq File /\ metas \subseteq MetaFile
        /\ ToSet(listing) = files
        /\ phase \in {"reading", "refused", "merging", "serving"}
        /\ merged \in 0..Len(Endpoints)
    BY EndpointFacts DEF RoutesInv, FilesInv, PhaseInv
  <2>2. ASSUME NEW i \in DOMAIN routes
        PROVE  /\ routes[i].method \in Method \cup ToSet(Stem)
               /\ IsPrefix(MountPath, routes[i].path)
               /\ routes[i].chain # <<>>
    <3>1. routes[i].method \in Method \cup ToSet(Stem)
          /\ RouteOK(routes[i], merged, metas)
      BY DEF RoutesInv, RouteInv
    <3>2. PICK d \in Seq(Name), p \in Seq(Name), n \in Nat :
              /\ routes[i].path = MountPath \o p
              /\ Begins(routes[i].chain, n, d, metas)
      BY <3>1 DEF RouteOK
    <3>3. IsPrefix(MountPath, routes[i].path)
      BY <3>2, NamesOf, PrefixOfConcat
    <3>4. routes[i].chain # <<>>
      BY <3>2 DEF Begins
    <3> QED BY <3>1, <3>3, <3>4
  <2> QED BY <2>1, <2>2 DEF TypeOK
<1> QED BY <1>1, RoutesInvHolds, PTL

(* Every chain runs in the documented order.                               *)
THEOREM MiddlewareInOrder == Spec => []ChainInOrder
<1>1. RoutesInv => ChainInOrder
  <2> SUFFICES ASSUME RoutesInv, NEW i \in DOMAIN routes
               PROVE  LET chain == routes[i].chain
                          rank == [app |-> 1, meta |-> 2, module |-> 3, socket |-> 4]
                      IN  /\ chain[1].kind = "app"
                          /\ Last(chain).kind \in {"module", "socket"}
                          /\ \A j, k \in DOMAIN chain : j < k =>
                                \/ rank[chain[j].kind] < rank[chain[k].kind]
                                \/ /\ chain[j].kind = "meta" /\ chain[k].kind = "meta"
                                   /\ Len(chain[j].dir) <= Len(chain[k].dir)
                                   /\ chain[j] # chain[k]
    BY DEF ChainInOrder
  <2> DEFINE c == routes[i].chain
             rank == [app |-> 1, meta |-> 2, module |-> 3, socket |-> 4]
  <2>1. RouteOK(routes[i], merged, metas) /\ merged \in 0..3
    BY DEF RoutesInv, RouteInv, PhaseInv
  <2>2. PICK d \in Seq(Name), p \in Seq(Name), n \in Nat :
            Begins(c, n, d, metas) /\ Ends(routes[i], n, merged)
    BY <2>1 DEF RouteOK
  <2>3. n \in 1..Len(c) /\ Len(c) \in Nat /\ DOMAIN c = 1..Len(c)
    BY <2>2 DEF Begins
  <2>4. \A k \in 1..merged : Socket(k).kind = "socket"
    BY <2>1, EndpointFacts
  <2>5. \/ Len(c) = n + 1 /\ c[n + 1].kind = "module"
        \/ Len(c) = n + 1 /\ c[n + 1].kind = "socket"
        \/ Len(c) = n + 2 /\ c[n + 1].kind = "module" /\ c[n + 2].kind = "socket"
    BY <2>2, <2>3, <2>4 DEF Ends
  <2> HIDE DEF c
  <2>6. c[1].kind = "app" /\ \A j \in 2..n : c[j].kind = "meta"
    BY <2>2 DEF Begins
  <2>7. Last(c).kind \in {"module", "socket"}
    BY <2>3, <2>5 DEF Last
  <2>8. /\ rank["app"] = 1 /\ rank["meta"] = 2
        /\ rank["module"] = 3 /\ rank["socket"] = 4
    OBVIOUS
  <2> HIDE DEF rank
  <2>9. ASSUME NEW j \in DOMAIN c, NEW k \in DOMAIN c, j < k
        PROVE  \/ rank[c[j].kind] < rank[c[k].kind]
               \/ /\ c[j].kind = "meta" /\ c[k].kind = "meta"
                  /\ Len(c[j].dir) <= Len(c[k].dir)
                  /\ c[j] # c[k]
    <3>1. n \in Nat /\ n >= 1 /\ (Len(c) = n + 1 \/ Len(c) = n + 2)
          /\ j \in 1..Len(c) /\ k \in 1..Len(c)
      BY <2>3, <2>5
    <3>2. j = 1 \/ j \in 2..n \/ (j = n + 1 /\ k = n + 2 /\ Len(c) = n + 2)
      BY <2>9, <3>1
    <3>3. k \in 2..n \/ k = n + 1 \/ (k = n + 2 /\ Len(c) = n + 2)
      BY <2>9, <3>1
    <3>4. k = n + 1 => rank[c[k].kind] \in {3, 4}
      BY <2>5, <2>8
    <3>5. k = n + 2 /\ Len(c) = n + 2 => rank[c[k].kind] = 4
      <4>1. n + 1 # n + 2
        BY <3>1
      <4> QED BY <2>5, <2>8, <4>1
    <3>6. k \in 2..n => rank[c[k].kind] = 2
      BY <2>6, <2>8
    <3>7. CASE j = 1
      <4>1. rank[c[j].kind] = 1
        BY <2>6, <2>8, <3>7
      <4>2. rank[c[k].kind] \in {2, 3, 4}
        BY <3>3, <3>4, <3>5, <3>6
      <4> QED BY <4>1, <4>2
    <3>8. CASE j \in 2..n /\ k \in 2..n
      BY <2>2, <2>6, <2>9, <3>8 DEF Begins
    <3>9. CASE j \in 2..n /\ k \notin 2..n
      <4>1. rank[c[j].kind] = 2
        BY <2>6, <2>8, <3>9
      <4>2. rank[c[k].kind] \in {3, 4}
        BY <3>3, <3>4, <3>5, <3>9
      <4> QED BY <4>1, <4>2
    <3>10. CASE j = n + 1 /\ k = n + 2 /\ Len(c) = n + 2
      <4>1. rank[c[j].kind] = 3
        <5>1. n + 1 # n + 2
          BY <3>1
        <5> QED BY <2>5, <2>8, <3>10, <5>1
      <4> QED BY <3>5, <3>10, <4>1
    <3> QED BY <3>2, <3>7, <3>8, <3>9, <3>10
  <2> QED BY <2>6, <2>7, <2>9 DEF c, rank
<1> QED BY <1>1, RoutesInvHolds, PTL

(* No route escapes the middleware of the directories it lies in.          *)
THEOREM MetaAlwaysCovers == Spec => []MetaCovers
<1>1. RoutesInv => MetaCovers
  <2> SUFFICES ASSUME RoutesInv, NEW i \in DOMAIN routes, NEW m \in metas,
                      IsPrefix(MountPath \o m.dir, routes[i].path)
               PROVE  MetaOwn(m) \in ToSet(routes[i].chain)
    BY DEF MetaCovers
  <2>1. /\ RouteOK(routes[i], merged, metas)
        /\ m.dir \in Seq(Name) /\ MountPath \in Seq(Name)
    BY NamesOf DEF RoutesInv, RouteInv, FilesInv, MetaName, MetaOver
  <2>2. PICK d \in Seq(Name), p \in Seq(Name), n \in Nat :
            /\ routes[i].path = MountPath \o p /\ IsPrefix(p, d)
            /\ Begins(routes[i].chain, n, d, metas)
    BY <2>1 DEF RouteOK
  <2>3. IsPrefix(m.dir, p)
    BY <2>1, <2>2, PrefixOfConcat
  <2>4. IsPrefix(m.dir, d)
    BY <2>1, <2>2, <2>3, PrefixTransitive
  <2>5. PICK j \in 1..n : routes[i].chain[j] = MetaOwn(m)
    BY <2>2, <2>4 DEF Begins
  <2>6. j \in DOMAIN routes[i].chain
    BY <2>2 DEF Begins
  <2> QED BY <2>5, <2>6 DEF ToSet
<1> QED BY <1>1, RoutesInvHolds, PTL

(* Each socket endpoint is served, by one chain.                           *)
THEOREM EveryEndpointServed == Spec => []EndpointsServed
<1>1. RoutesInv => EndpointsServed
  <2> SUFFICES ASSUME RoutesInv, phase = "serving", NEW k \in DOMAIN Endpoints
               PROVE  LET e == Endpoints[k]
                          own == Own("socket", e.dir, e.method, "")
                          mine == {i \in DOMAIN routes : SameRoute(routes[i], e)}
                          ends == {i \in DOMAIN routes : own \in ToSet(routes[i].chain)}
                      IN  /\ Cardinality(ends) = 1
                          /\ ends \subseteq mine
                          /\ \A i \in ends : Last(routes[i].chain) = own
                          /\ mine = ends =>
                                Last(ServerRoute(MountPath \o e.dir, e.method)) = own
    BY DEF EndpointsServed
  <2> DEFINE e == Endpoints[k]
             mine == {i \in DOMAIN routes : SameRoute(routes[i], e)}
             ends == {i \in DOMAIN routes : Socket(k) \in ToSet(routes[i].chain)}
  <2>1. k \in 1..3 /\ merged = 3
    <3>1. DOMAIN Endpoints = 1..3
      BY DEF Endpoints
    <3> QED BY <3>1 DEF RoutesInv, PhaseInv
  <2>2. PICK i \in DOMAIN routes :
            /\ SameRoute(routes[i], e)
            /\ Last(routes[i].chain) = Socket(k)
            /\ \A j \in DOMAIN routes : Socket(k) \in ToSet(routes[j].chain) => j = i
    BY <2>1 DEF RoutesInv, MergedInv
  <2>3. routes \in Seq(Route) /\ routes[i] \in Route
        /\ RouteOK(routes[i], merged, metas)
    BY DEF RoutesInv, RouteInv
  <2>4. Socket(k) \in ToSet(routes[i].chain)
    <3>1. PICK d \in Seq(Name), n \in Nat : Begins(routes[i].chain, n, d, metas)
      BY <2>3 DEF RouteOK
    <3>2. Len(routes[i].chain) \in DOMAIN routes[i].chain
      BY <3>1 DEF Begins
    <3> QED BY <2>2, <3>2 DEF ToSet, Last
  <2>5. ends = {i}
    BY <2>2, <2>4
  <2>6. Cardinality(ends) = 1
    BY <2>5, FS_Singleton
  <2>7. ends \subseteq mine
    BY <2>2, <2>5
  <2>8. \A j \in ends : Last(routes[j].chain) = Socket(k)
    BY <2>2, <2>5
  <2>9. ASSUME mine = ends
        PROVE  Last(ServerRoute(MountPath \o e.dir, e.method)) = Socket(k)
    <3> DEFINE path == MountPath \o e.dir
               method == e.method
               I == {j \in 1..Len(routes) :
                        routes[j].path = path /\ routes[j].method = method}
    <3>1. SelectLastInSeq(routes, LAMBDA r : r.path = path /\ r.method = method)
            = IF I # {} THEN Max(I) ELSE 0
      BY DEF SelectLastInSeq
    <3>2. I = {i}
      <4>1. I = mine
        BY <2>3 DEF SameRoute
      <4> QED BY <2>5, <2>9, <4>1
    <3>3. i \in Nat /\ i # 0
      BY <2>3
    <3>4. Max(I) = i
      BY <3>2, <3>3, SingletonMinMax
    <3> HIDE DEF path, method, I
    <3>5. ServerRoute(path, method) = routes[i].chain
      BY <3>1, <3>2, <3>3, <3>4 DEF ServerRoute
    <3> QED BY <2>2, <3>5 DEF path, method
  <2> QED BY <2>6, <2>7, <2>8, <2>9 DEF Socket
<1> QED BY <1>1, RoutesInvHolds, PTL

-----------------------------------------------------------------------------
(* The two routers.                                                        *)

(* What toSegments leaves of a text that begins with a slash.              *)
LEMMA SegmentsOfText ==
    ASSUME NEW T, NEW text \in Seq(T), Len(text) >= 2, text[1] = Empty
    PROVE  LET g == ToSegments(text)
               n == IF text[Len(text)] = Empty THEN Len(text) - 2 ELSE Len(text) - 1
           IN  /\ g \in Seq(T) /\ Len(g) = n
               /\ \A i \in 1..n : g[i] = text[i + 1]
<1> DEFINE m == IF text[Len(text)] = Empty THEN Len(text) - 1 ELSE Len(text)
           g == SubSeq(text, 2, m)
<1>1. Len(text) \in Nat /\ m \in Nat /\ m >= 1 /\ m <= Len(text)
  OBVIOUS
<1>2. ToSegments(text) = g
  <2>1. Len(text) > 1
    OBVIOUS
  <2>2. (IF Len(text) > 1 /\ text[1] = Empty THEN 2 ELSE 1) = 2
    BY <2>1
  <2>3. (IF Len(text) > 1 /\ text[Len(text)] = Empty
         THEN Len(text) - 1 ELSE Len(text)) = m
    BY <2>1
  <2> HIDE DEF m
  <2> QED BY <2>2, <2>3, Zenon DEF ToSegments, Last
<1> HIDE DEF m
<1>3. /\ g \in Seq(T) /\ Len(g) = m - 1
      /\ \A i \in 1..(m - 1) : g[i] = text[i + 1]
  BY <1>1
<1>4. m - 1 = IF text[Len(text)] = Empty THEN Len(text) - 2 ELSE Len(text) - 1
  BY <1>1 DEF m
<1> QED BY <1>2, <1>3, <1>4

(* An element in front of a sequence.                                      *)
LEMMA PushFront ==
    ASSUME NEW S, NEW x \in S, NEW q \in Seq(S)
    PROVE  /\ <<x>> \o q \in Seq(S) /\ Len(<<x>> \o q) = Len(q) + 1
           /\ (<<x>> \o q)[1] = x
           /\ \A i \in 1..Len(q) : (<<x>> \o q)[i + 1] = q[i]
OBVIOUS

(* The text of a route's path.                                             *)
LEMMA TextOfPath ==
    ASSUME NEW p \in Seq(Name)
    PROVE  /\ Text(p) \in Seq(Name) /\ Text(p)[1] = Empty
           /\ p = <<>> => Len(Text(p)) = 2 /\ Text(p)[2] = Empty
           /\ p # <<>> => /\ Len(Text(p)) = Len(p) + 1
                          /\ \A i \in 1..Len(p) : Text(p)[i + 1] = p[i]
<1> DEFINE q == IF p = <<>> THEN <<Empty>> ELSE p
           t == <<Empty>> \o q
<1>1. <<Empty>> \in Seq(Name) /\ Len(<<Empty>>) = 1 /\ <<Empty>>[1] = Empty
  <2>1. \A x \in Name : <<x>> \in Seq(Name) /\ Len(<<x>>) = 1 /\ <<x>>[1] = x
    OBVIOUS
  <2> QED BY <2>1, LiteralName
<1>2. q \in Seq(Name)
  BY <1>1
<1>3. Text(p) = t
  BY DEF Text
<1>4. Empty \in Name
  BY LiteralName
<1>5. /\ t \in Seq(Name) /\ Len(t) = Len(q) + 1
      /\ t[1] = Empty
      /\ \A i \in 1..Len(q) : t[i + 1] = q[i]
  <2> HIDE DEF q
  <2> QED BY <1>2, <1>4, PushFront
<1> HIDE DEF q, t
<1>6. CASE p = <<>>
  <2>1. Len(q) = 1 /\ q[1] = Empty
    BY <1>1, <1>6 DEF q
  <2> QED BY <1>3, <1>5, <1>6, <2>1
<1>7. CASE p # <<>>
  <2>1. q = p
    BY <1>7 DEF q
  <2> QED BY <1>3, <1>5, <1>7, <2>1
<1> QED BY <1>6, <1>7

(* The socket's table has the segments of the path (index.ts:372-376).     *)
LEMMA SegmentsOfPath ==
    ASSUME NEW p \in Seq(Name), NoEmpty(p)
    PROVE  ToSegments(Text(p)) = p
<1> DEFINE text == Text(p)
           g == ToSegments(text)
           n == IF text[Len(text)] = Empty THEN Len(text) - 2 ELSE Len(text) - 1
<1>1. text \in Seq(Name) /\ text[1] = Empty
  BY TextOfPath
<1>2. ASSUME Len(text) >= 2
      PROVE  /\ g \in Seq(Name) /\ Len(g) = n
             /\ \A i \in 1..n : g[i] = text[i + 1]
  <2> HIDE DEF text
  <2> QED BY <1>1, <1>2, SegmentsOfText
<1>3. CASE p = <<>>
  <2>1. Len(text) = 2 /\ text[Len(text)] = Empty
    BY <1>3, TextOfPath
  <2> HIDE DEF text, g
  <2>2. g \in Seq(Name) /\ Len(g) = 0
    BY <1>2, <2>1
  <2>3. g = <<>>
    BY <2>2, EmptySeq
  <2> QED BY <1>3, <2>3 DEF g, text
<1>4. CASE p # <<>>
  <2>1. /\ Len(text) = Len(p) + 1 /\ Len(p) \in Nat /\ Len(p) >= 1
        /\ \A i \in 1..Len(p) : text[i + 1] = p[i]
    BY <1>4, TextOfPath
  <2>2. text[Len(text)] # Empty
    <3>1. Len(p) \in 1..Len(p)
      BY <2>1
    <3>2. p[Len(p)] # Empty
      BY <3>1 DEF NoEmpty
    <3> QED BY <2>1, <3>1, <3>2
  <2> HIDE DEF text, g
  <2>3. /\ g \in Seq(Name) /\ Len(g) = Len(p)
        /\ \A i \in 1..Len(p) : g[i] = text[i + 1]
    <3>1. Len(text) >= 2 /\ n = Len(p)
      BY <2>1, <2>2
    <3> HIDE DEF n
    <3> QED BY <1>2, <3>1
  <2>4. g = p
    BY <2>1, <2>3
  <2> QED BY <2>4 DEF g, text
<1> QED BY <1>3, <1>4

(* A path that Bun's router finds for a text the socket's search finds     *)
(* too; and the other way round if the text is clean.                      *)
LEMMA RoutersMatch ==
    ASSUME NEW p \in Seq(Name), NoEmpty(p),
           NEW T, NEW text \in Seq(T), Len(text) >= 2, text[1] = Empty
    PROVE  /\ HttpMatches(p, text) => MatchesSegments(p, ToSegments(text))
           /\ Clean(text) /\ MatchesSegments(p, ToSegments(text)) =>
                 HttpMatches(p, text)
<1> DEFINE x == Text(p)
           g == ToSegments(text)
           k == Len(text)
           n == IF text[k] = Empty THEN k - 2 ELSE k - 1
<1>1. k \in Nat /\ k >= 2 /\ DOMAIN text = 1..k /\ Len(p) \in Nat
      /\ DOMAIN p = 1..Len(p)
  OBVIOUS
<1>2. /\ g \in Seq(T) /\ Len(g) = n
      /\ \A i \in 1..n : g[i] = text[i + 1]
  BY SegmentsOfText
<1>3. /\ x \in Seq(Name) /\ x[1] = Empty
      /\ p = <<>> => Len(x) = 2 /\ x[2] = Empty
      /\ p # <<>> => /\ Len(x) = Len(p) + 1
                     /\ \A i \in 1..Len(p) : x[i + 1] = p[i]
  BY TextOfPath
<1>4. p = <<>> <=> Len(p) = 0
  BY EmptySeq
<1>5. HttpMatches(p, text) <=>
         /\ Len(x) = k
         /\ \A i \in 1..k : x[i] = text[i] \/ (x[i] \in Param /\ text[i] # Empty)
  BY <1>1 DEF HttpMatches
<1>6. MatchesSegments(p, g) <=>
         /\ Len(p) = Len(g)
         /\ \A i \in 1..Len(p) : p[i] \in Param \/ p[i] = g[i]
  BY <1>1 DEF MatchesSegments
<1> HIDE DEF x, g, k
<1>7. ASSUME HttpMatches(p, text)
      PROVE  MatchesSegments(p, g)
  <2>1. CASE p = <<>>
    <3>1. k = 2
      BY <1>3, <1>5, <1>7, <2>1
    <3>2. text[2] = Empty
      <4>1. 2 \in 1..k /\ x[2] = Empty
        BY <1>3, <2>1, <3>1
      <4> QED BY <1>5, <1>7, <4>1, DirAssumption
    <3>3. Len(g) = 0 /\ Len(p) = 0
      BY <1>2, <1>4, <2>1, <3>1, <3>2
    <3> QED BY <1>6, <3>3
  <2>2. CASE p # <<>>
    <3>1. k = Len(p) + 1 /\ \A i \in 1..Len(p) : x[i + 1] = p[i]
      BY <1>3, <1>5, <1>7, <2>2
    <3>2. text[k] # Empty
      <4>1. Len(p) \in 1..Len(p) /\ k \in 1..k
        BY <1>1, <1>4, <2>2
      <4>2. x[k] = p[Len(p)] /\ p[Len(p)] # Empty
        BY <3>1, <4>1 DEF NoEmpty
      <4> QED BY <1>5, <1>7, <4>1, <4>2
    <3>3. Len(p) = Len(g) /\ n = Len(p)
      BY <1>1, <1>2, <3>1, <3>2
    <3>4. ASSUME NEW i \in 1..Len(p)
          PROVE  p[i] \in Param \/ p[i] = g[i]
      <4>1. i + 1 \in 1..k
        BY <1>1, <3>1
      <4>2. x[i + 1] = p[i] /\ g[i] = text[i + 1]
        BY <1>2, <3>1, <3>3
      <4> QED BY <1>5, <1>7, <4>1, <4>2
    <3> QED BY <1>6, <3>3, <3>4
  <2> QED BY <2>1, <2>2
<1>8. ASSUME Clean(text), MatchesSegments(p, g)
      PROVE  HttpMatches(p, text)
  <2>1. CASE text = <<Empty, Empty>>
    <3>1. k = 2 /\ text[1] = Empty /\ text[2] = Empty
      BY <2>1 DEF k
    <3>2. p = <<>>
      BY <1>2, <1>4, <1>6, <1>8, <3>1
    <3>3. Len(x) = 2 /\ x[1] = Empty /\ x[2] = Empty
      BY <1>3, <3>2
    <3>4. \A i \in 1..2 : x[i] = text[i]
      BY <3>1, <3>3
    <3> QED BY <1>5, <3>1, <3>3, <3>4
  <2>2. CASE text # <<Empty, Empty>>
    <3>1. \A i \in 2..k : text[i] # Empty
      BY <1>8, <2>2 DEF Clean, k
    <3>2. n = k - 1 /\ Len(p) = k - 1
      BY <1>1, <1>2, <1>6, <1>8, <3>1
    <3>3. p # <<>>
      BY <1>1, <1>4, <3>2
    <3>4. Len(x) = k /\ \A i \in 1..Len(p) : x[i + 1] = p[i]
      BY <1>1, <1>3, <3>2, <3>3
    <3>5. ASSUME NEW i \in 1..k
          PROVE  x[i] = text[i] \/ (x[i] \in Param /\ text[i] # Empty)
      <4>1. CASE i = 1
        BY <1>3, <4>1
      <4>2. CASE i # 1
        <5> DEFINE j == i - 1
        <5>1. j \in 1..Len(p) /\ j \in 1..n /\ j + 1 = i /\ i \in 2..k
          BY <1>1, <3>2, <4>2
        <5>2. x[i] = p[j] /\ g[j] = text[i] /\ text[i] # Empty
          BY <1>2, <3>1, <3>4, <5>1
        <5>3. p[j] \in Param \/ p[j] = g[j]
          BY <1>6, <1>8, <5>1
        <5> QED BY <5>2, <5>3
      <4> QED BY <4>1, <4>2
    <3> QED BY <1>5, <3>4, <3>5
  <2> QED BY <2>1, <2>2
<1> QED BY <1>7, <1>8 DEF g

(* The paths in the table.                                                 *)
Paths == {r.path : r \in ToSet(routes)}

LEMMA PathsFacts ==
    ASSUME RoutesInv
    PROVE  /\ IsFiniteSet(Paths)
           /\ \A p \in Paths : p \in Seq(Name) /\ NoEmpty(p)
           /\ \A i \in DOMAIN routes :
                 routes[i].path \in Paths /\ Len(routes[i].chain) >= 2
           /\ \A p \in Paths : \E i \in DOMAIN routes : routes[i].path = p
<1> DEFINE n == Len(routes)
           paths == [i \in 1..n |-> routes[i].path]
<1>1. routes \in Seq(Route) /\ n \in Nat /\ DOMAIN routes = 1..n
  BY DEF RoutesInv, RouteInv
<1>2. Paths = {routes[i].path : i \in 1..n}
  BY <1>1 DEF Paths, ToSet
<1>3. ASSUME NEW i \in 1..n
      PROVE  /\ routes[i].path \in Seq(Name) /\ NoEmpty(routes[i].path)
             /\ Len(routes[i].chain) >= 2
  <2>1. RouteOK(routes[i], merged, metas)
    BY <1>1 DEF RoutesInv, RouteInv
  <2>2. PICK d \in Seq(Name), p \in Seq(Name), m \in Nat :
            /\ routes[i].path = MountPath \o p /\ IsPrefix(p, d) /\ NoEmpty(d)
            /\ Begins(routes[i].chain, m, d, metas)
            /\ Ends(routes[i], m, merged)
    BY <2>1 DEF RouteOK
  <2>3. Len(p) <= Len(d) /\ \A j \in 1..Len(p) : p[j] = d[j]
    BY <2>2, PrefixElements
  <2>4. NoEmpty(p)
    BY <2>2, <2>3 DEF NoEmpty
  <2>5. MountPath \in Seq(Name) /\ NoEmpty(MountPath)
    BY NamesOf
  <2> DEFINE a == MountPath
             c == a \o p
  <2>6. /\ c \in Seq(Name) /\ Len(c) = Len(a) + Len(p)
        /\ \A j \in 1..Len(a) : c[j] = a[j]
        /\ \A j \in (Len(a) + 1)..(Len(a) + Len(p)) :
              j - Len(a) \in 1..Len(p) /\ c[j] = p[j - Len(a)]
    BY <2>5, ConcatElements
  <2>7. Len(a) \in Nat /\ Len(p) \in Nat
    BY <2>5
  <2> HIDE DEF a, c
  <2>8. NoEmpty(c)
    <3>1. ASSUME NEW j \in 1..Len(c)
          PROVE  c[j] # Empty
      <4>1. j \in 1..Len(a) \/ j \in (Len(a) + 1)..(Len(a) + Len(p))
        BY <2>6, <2>7
      <4> QED BY <2>4, <2>5, <2>6, <4>1 DEF NoEmpty, a
    <3> QED BY <3>1 DEF NoEmpty
  <2>9. Len(routes[i].chain) >= 2
    <3>1. m >= 1 /\ Len(routes[i].chain) \in Nat
      BY <2>2 DEF Begins
    <3> QED BY <2>2, <3>1 DEF Ends
  <2> QED BY <2>2, <2>6, <2>8, <2>9 DEF a, c
<1> HIDE DEF n
<1>4. IsFiniteSet(Paths)
  <2>1. paths \in SeqOf(Seq(Name), n)
    BY <1>1, <1>3 DEF SeqOf
  <2>2. IsFiniteSet(ToSet(paths))
    BY <1>1, <2>1, ElementsFinite
  <2>3. Paths = ToSet(paths)
    BY <1>2 DEF ToSet
  <2> QED BY <2>2, <2>3
<1> QED BY <1>1, <1>2, <1>3, <1>4

(* A request's text begins with a slash.                                   *)
LEMMA RequestText ==
    ASSUME NEW req \in Request
    PROVE  \E T : req.text \in Seq(T) /\ Len(req.text) >= 2 /\ req.text[1] = Empty
<1> DEFINE T == Name \cup RequestName
<1>1. PICK n \in 0..MaxPieces : \E s \in [1..n -> RequestName \cup {Empty}] :
          MountPath \o s # <<>> /\ req.text = <<Empty>> \o (MountPath \o s)
  BY DEF Request
<1>2. PICK s \in [1..n -> RequestName \cup {Empty}] :
          MountPath \o s # <<>> /\ req.text = <<Empty>> \o (MountPath \o s)
  BY <1>1
<1>3. Empty \in T /\ Name \subseteq T /\ RequestName \cup {Empty} \subseteq T
  BY LiteralName
<1> HIDE DEF T
<1>4. s \in Seq(T)
  <2>1. n \in Nat
    BY BoundAssumption
  <2> QED BY <1>3, <2>1
<1>5. MountPath \in Seq(T)
  BY <1>3, NamesOf
<1> DEFINE q == MountPath \o s
           a == <<Empty>>
<1>6. q \in Seq(T) /\ q # <<>>
  BY <1>2, <1>4, <1>5
<1>7. a \in Seq(T) /\ Len(a) = 1 /\ a[1] = Empty
  BY <1>3
<1>8. req.text = a \o q
  BY <1>2
<1> HIDE DEF q, a
<1>9. a \o q \in Seq(T) /\ Len(a \o q) >= 2 /\ (a \o q)[1] = Empty
  <2>1. /\ a \o q \in Seq(T) /\ Len(a \o q) = Len(a) + Len(q)
        /\ \A i \in 1..Len(a) : (a \o q)[i] = a[i]
    BY <1>6, <1>7, ConcatElements
  <2>2. Len(q) \in Nat /\ Len(q) >= 1
    BY <1>6
  <2> DEFINE c == a \o q
  <2> HIDE DEF c
  <2> QED BY <1>7, <2>1, <2>2 DEF c
<1> QED BY <1>8, <1>9

(* What the two routers find for the text of a request.                    *)
LEMMA RoutersFind ==
    ASSUME RoutesInv, NEW req \in Request
    PROVE  /\ Matching(req.text) \subseteq 1..Len(routes)
           /\ \A p, q \in Candidates(req.text) : Len(p) = Len(q)
           /\ \A i \in DOMAIN routes :
                 routes[i].path \in Candidates(req.text) =>
                    i \in Matching(req.text)
           /\ Clean(req.text) =>
                 \A i \in Matching(req.text) :
                    routes[i].path \in Candidates(req.text)
<1> DEFINE text == req.text
           g == ToSegments(text)
<1>1. PICK T : text \in Seq(T) /\ Len(text) >= 2 /\ text[1] = Empty
  BY RequestText
<1>2. DOMAIN routes = 1..Len(routes)
  BY DEF RoutesInv, RouteInv
<1> HIDE DEF text
<1>3. ASSUME NEW p \in Paths
      PROVE  /\ ToSegments(Text(p)) = p
             /\ HttpMatches(p, text) => MatchesSegments(p, g)
             /\ Clean(text) /\ MatchesSegments(p, g) => HttpMatches(p, text)
  <2>1. p \in Seq(Name) /\ NoEmpty(p)
    BY PathsFacts
  <2> QED BY <1>1, <2>1, SegmentsOfPath, RoutersMatch
<1>4. Candidates(text) = {p \in Paths : HttpMatches(p, text)}
  BY DEF Candidates, Paths
<1>5. \A i \in DOMAIN routes : routes[i].path \in Paths
  BY PathsFacts
<1>6. Matching(text) =
         {i \in DOMAIN routes : MatchesSegments(routes[i].path, g)}
  <2>1. Matching(text) =
           {i \in DOMAIN routes :
               MatchesSegments(ToSegments(Text(routes[i].path)), g)}
    BY DEF Matching
  <2> HIDE DEF g
  <2> QED BY <1>3, <1>5, <2>1
<1> HIDE DEF g
<1>7. \A p, q \in Candidates(text) : Len(p) = Len(q)
  BY <1>3, <1>4 DEF MatchesSegments
<1>8. \A i \in DOMAIN routes :
         routes[i].path \in Candidates(text) => i \in Matching(text)
  BY <1>3, <1>4, <1>6
<1>9. Clean(text) => \A i \in Matching(text) : routes[i].path \in Candidates(text)
  BY <1>3, <1>4, <1>5, <1>6
<1> QED BY <1>2, <1>6, <1>7, <1>8, <1>9 DEF text

(* If any path matches, Bun's router takes one: to be more specific is a   *)
(* strict order of paths of one length.                                    *)
LEMMA HttpFinds ==
    ASSUME RoutesInv, NEW req \in Request, Candidates(req.text) # {}
    PROVE  HttpPaths(req.text) # {}
<1> DEFINE C == Candidates(req.text)
           R == {z \in C \X C : MoreSpecific(z[1], z[2])}
<1>1. C \subseteq Paths /\ IsFiniteSet(C)
  <2>1. C \in SUBSET Paths
    BY DEF Candidates, Paths
  <2> QED BY <2>1, PathsFacts, FS_Subset
<1>2. \A p, q \in C : Len(p) = Len(q)
  BY RoutersFind
<1> HIDE DEF C
<1>3. \A p \in C : <<p, p>> \notin R
  BY DEF MoreSpecific
<1>4. ASSUME NEW p \in C, NEW q \in C, NEW r \in C,
             <<p, q>> \in R, <<q, r>> \in R
      PROVE  <<p, r>> \in R
  <2>1. p \in Seq(Name) /\ q \in Seq(Name) /\ r \in Seq(Name)
    BY <1>1, PathsFacts
  <2>2. MoreSpecific(p, q) /\ MoreSpecific(q, r)
    BY <1>4
  <2>3. DOMAIN p = 1..Len(p) /\ DOMAIN q = 1..Len(p) /\ Len(p) \in Nat
    BY <1>2, <2>1
  <2>4. PICK i \in 1..Len(p) :
            /\ q[i] \in Param /\ p[i] \notin Param
            /\ \A j \in 1..(i - 1) : p[j] \in Param <=> q[j] \in Param
    BY <2>2, <2>3 DEF MoreSpecific
  <2>5. PICK k \in 1..Len(p) :
            /\ r[k] \in Param /\ q[k] \notin Param
            /\ \A j \in 1..(k - 1) : q[j] \in Param <=> r[j] \in Param
    BY <2>2, <2>3 DEF MoreSpecific
  <2>6. MoreSpecific(p, r)
    <3>1. CASE i <= k
      <4>1. r[i] \in Param
        <5>1. i # k
          BY <2>4, <2>5
        <5>2. i \in 1..(k - 1)
          BY <2>3, <3>1, <5>1
        <5> QED BY <2>4, <2>5, <5>2
      <4>2. \A j \in 1..(i - 1) : p[j] \in Param <=> r[j] \in Param
        <5>1. \A j \in 1..(i - 1) : j \in 1..(k - 1)
          BY <2>3, <3>1
        <5> QED BY <2>4, <2>5, <5>1
      <4> QED BY <2>3, <2>4, <4>1, <4>2 DEF MoreSpecific
    <3>2. CASE k < i
      <4>1. k \in 1..(i - 1)
        BY <2>3, <3>2
      <4>2. p[k] \notin Param
        BY <2>4, <2>5, <4>1
      <4>3. \A j \in 1..(k - 1) : p[j] \in Param <=> r[j] \in Param
        <5>1. \A j \in 1..(k - 1) : j \in 1..(i - 1)
          BY <2>3, <3>2
        <5> QED BY <2>4, <2>5, <5>1
      <4> QED BY <2>3, <2>5, <4>2, <4>3 DEF MoreSpecific
    <3> QED BY <2>3, <3>1, <3>2
  <2> QED BY <2>6
<1>5. C # {}
  BY DEF C
<1>6. \A p, q \in C : <<p, q>> \in R <=> MoreSpecific(p, q)
  OBVIOUS
<1> HIDE DEF R
<1>7. PICK p \in C : \A q \in C : <<q, p>> \notin R
  BY <1>1, <1>3, <1>4, <1>5, TopElement
<1> QED BY <1>6, <1>7 DEF HttpPaths, C

(* The handlers of a path in the table over HTTP: those of the last of the *)
(* files that claim it.                                                    *)
LEMMA ServerRouteFinds ==
    ASSUME RoutesInv, NEW path, NEW method
    PROVE  \/ /\ ServerRoute(path, method) = MethodNotAllowed
              /\ \A i \in DOMAIN routes :
                    ~(routes[i].path = path /\ routes[i].method = method)
           \/ \E i \in DOMAIN routes :
                 /\ routes[i].path = path /\ routes[i].method = method
                 /\ ServerRoute(path, method) = routes[i].chain
<1> DEFINE I == {i \in 1..Len(routes) :
                    routes[i].path = path /\ routes[i].method = method}
           found == SelectLastInSeq(routes, LAMBDA r :
                       r.path = path /\ r.method = method)
<1>1. found = IF I # {} THEN Max(I) ELSE 0
  BY DEF SelectLastInSeq
<1>2. ServerRoute(path, method) =
         IF found = 0 THEN MethodNotAllowed ELSE routes[found].chain
  BY DEF ServerRoute
<1>3. /\ I \in SUBSET (1..Len(routes)) /\ Len(routes) \in Nat
      /\ DOMAIN routes = 1..Len(routes)
  BY DEF RoutesInv, RouteInv
<1>4. \A i \in DOMAIN routes :
         i \in I <=> routes[i].path = path /\ routes[i].method = method
  BY <1>3
<1> HIDE DEF I, found
<1>5. CASE I = {}
  BY <1>1, <1>2, <1>4, <1>5
<1>6. CASE I # {}
  <2>1. Max(I) \in I
    BY <1>3, <1>6, MaxElement
  <2>2. Max(I) \in DOMAIN routes /\ Max(I) # 0
    <3>1. Max(I) \in 1..Len(routes)
      BY <1>3, <2>1, Zenon
    <3>2. \A n \in 1..Len(routes) : n # 0
      BY <1>3
    <3> QED BY <1>3, <3>1, <3>2, Zenon
  <2>3. found = Max(I)
    BY <1>1, <1>6
  <2>4. ServerRoute(path, method) = routes[Max(I)].chain
    <3>1. found # 0
      BY <2>2, <2>3
    <3>2. ServerRoute(path, method) = routes[found].chain
      BY <1>2, <3>1, Zenon
    <3> QED BY <2>3, <3>2, Zenon
  <2>5. routes[Max(I)].path = path /\ routes[Max(I)].method = method
    BY <1>4, <2>1, <2>2, Zenon
  <2> QED BY <2>2, <2>4, <2>5, Zenon
<1> QED BY <1>5, <1>6

(* A chain is not mistaken for an error.                                   *)
LEMMA ErrorsApart ==
    ASSUME RoutesInv
    PROVE  /\ NotFound # MethodNotAllowed
           /\ \A i \in DOMAIN routes : routes[i].chain # NotFound
           /\ \A path, method : ServerRoute(path, method) # NotFound
<1>1. Len(NotFound) = 1 /\ Len(MethodNotAllowed) = 1
  BY DEF NotFound, MethodNotAllowed
<1>2. NotFound # MethodNotAllowed
  <2>1. NotFound[1] = "404" /\ MethodNotAllowed[1] = "405"
    BY DEF NotFound, MethodNotAllowed
  <2>2. "404" # "405"
    OBVIOUS
  <2> QED BY <2>1, <2>2
<1>3. ASSUME NEW i \in DOMAIN routes
      PROVE  routes[i].chain # NotFound
  <2>1. Len(routes[i].chain) >= 2
    BY PathsFacts
  <2>2. ~(1 >= 2)
    OBVIOUS
  <2> QED BY <1>1, <2>1, <2>2, Zenon
<1>4. ASSUME NEW path, NEW method
      PROVE  ServerRoute(path, method) # NotFound
  BY <1>2, <1>3, ServerRouteFinds
<1> QED BY <1>2, <1>3, <1>4

(* What HTTP serves a socket serves too, and the two differ no more than   *)
(* SocketServesHttp says.                                                  *)
THEOREM SocketServesWhatHttpServes == Spec => []SocketServesHttp
<1>1. RoutesInv => SocketServesHttp
  <2> SUFFICES ASSUME RoutesInv, NEW req \in Request
               PROVE  LET http == HttpChains(req)
                          socket == MatchRoute(req)
                      IN  /\ http \ {NotFound, MethodNotAllowed} # {} =>
                                \E r \in ToSet(routes) :
                                    r.method = req.method /\ r.chain = socket
                          /\ socket = NotFound => http = {NotFound}
                          /\ Clean(req.text) /\ http = {NotFound} =>
                                socket = NotFound
                          /\ Clean(req.text) /\ Unambiguous(req) => http = {socket}
    BY DEF SocketServesHttp
  <2> DEFINE text == req.text
             method == req.method
             http == HttpChains(req)
             socket == MatchRoute(req)
             C == Candidates(text)
             matching == Matching(text)
             found == {i \in matching : routes[i].method = method}
  <2>1. /\ routes \in Seq(Route) /\ DOMAIN routes = 1..Len(routes)
        /\ Len(routes) \in Nat
    BY DEF RoutesInv, RouteInv
  <2>2. /\ matching \subseteq 1..Len(routes)
        /\ \A i \in DOMAIN routes : routes[i].path \in C => i \in matching
        /\ Clean(text) => \A i \in matching : routes[i].path \in C
    BY RoutersFind
  <2>3. \A p \in C : \E i \in DOMAIN routes : routes[i].path = p
    BY PathsFacts DEF Candidates, Paths
  <2>4. HttpPaths(text) \subseteq C /\ (C # {} => HttpPaths(text) # {})
    BY HttpFinds DEF HttpPaths
  <2>5. http = IF HttpPaths(text) = {} THEN {NotFound}
               ELSE {ServerRoute(p, method) : p \in HttpPaths(text)}
    BY DEF HttpChains
  <2>6. socket = IF matching = {} THEN NotFound
                 ELSE IF found = {} THEN MethodNotAllowed
                 ELSE routes[Min(found)].chain
    BY DEF MatchRoute
  <2>7. found # {} => Min(found) \in found
    <3>1. found \in SUBSET Nat
      BY <2>2
    <3> QED BY <3>1, MinElement
  <2>8. found \subseteq matching /\ \A i \in found : routes[i].method = method
    OBVIOUS
  <2>9. Unambiguous(req) =>
           /\ Cardinality(C) <= 1
           /\ Cardinality({i \in DOMAIN routes :
                  routes[i].path \in C /\ routes[i].method = method}) <= 1
    BY DEF Unambiguous
  <2>10. \A i \in matching : routes[i].method = method => i \in found
    OBVIOUS
  <2>11. IsFiniteSet(C)
    <3>1. C \in SUBSET Paths
      BY DEF Candidates, Paths
    <3> QED BY <3>1, PathsFacts, FS_Subset
  <2> HIDE DEF C, matching, found, http, socket, text, method
  <2>12. ASSUME http \ {NotFound, MethodNotAllowed} # {}
         PROVE  \E r \in ToSet(routes) : r.method = method /\ r.chain = socket
    <3>1. PICK p \in HttpPaths(text) : ServerRoute(p, method) # MethodNotAllowed
      BY <2>5, <2>12
    <3>2. PICK i \in DOMAIN routes :
              routes[i].path = p /\ routes[i].method = method
      BY <3>1, ServerRouteFinds
    <3>3. i \in found
      BY <2>1, <2>2, <2>4, <2>10, <3>2
    <3>4. /\ socket = routes[Min(found)].chain /\ Min(found) \in DOMAIN routes
          /\ routes[Min(found)].method = method
      BY <2>1, <2>2, <2>6, <2>7, <2>8, <3>3
    <3> QED BY <3>4 DEF ToSet
  <2>13. ASSUME socket = NotFound
         PROVE  http = {NotFound}
    <3>1. matching = {}
      <4>1. CASE found = {}
        BY <2>6, <2>13, <4>1, ErrorsApart
      <4>2. CASE found # {}
        <5>1. Min(found) \in DOMAIN routes
          BY <2>1, <2>2, <2>7, <2>8, <4>2
        <5> QED BY <2>6, <2>13, <4>2, <5>1, ErrorsApart
      <4> QED BY <4>1, <4>2
    <3>2. C = {}
      BY <2>2, <2>3, <3>1
    <3> QED BY <2>4, <2>5, <3>2
  <2>14. ASSUME Clean(text), http = {NotFound}
         PROVE  socket = NotFound
    <3>1. HttpPaths(text) = {}
      <4>1. ASSUME NEW p \in HttpPaths(text)
            PROVE  FALSE
        <5>1. ServerRoute(p, method) \in http
          BY <2>5, <4>1
        <5> QED BY <2>14, <5>1, ErrorsApart
      <4> QED BY <4>1
    <3>2. matching = {}
      BY <2>2, <2>4, <2>14, <3>1
    <3> QED BY <2>6, <3>2
  <2>15. ASSUME Clean(text), Unambiguous(req)
         PROVE  http = {socket}
    <3> DEFINE claims == {i \in DOMAIN routes :
                            routes[i].path \in C /\ routes[i].method = method}
    <3>1. CASE matching = {}
      <4>1. C = {}
        BY <2>2, <2>3, <3>1
      <4> QED BY <2>4, <2>5, <2>6, <3>1, <4>1
    <3>2. CASE matching # {}
      <4>1. PICK p : p \in C
        BY <2>2, <2>15, <3>2
      <4>2. \A q \in C : q = p
        BY <2>9, <2>11, <2>15, <4>1, AtMostOne
      <4>3. HttpPaths(text) = {p}
        BY <2>4, <4>1, <4>2
      <4>4. http = {ServerRoute(p, method)}
        BY <2>5, <4>3
      <4>5. claims = found
        <5>1. ASSUME NEW i \in claims
              PROVE  i \in found
          BY <2>2, <2>10
        <5>2. ASSUME NEW i \in found
              PROVE  i \in claims
          BY <2>1, <2>2, <2>8, <2>15
        <5> QED BY <5>1, <5>2
      <4>6. IsFiniteSet(claims) /\ Cardinality(claims) <= 1
        <5>1. claims \in SUBSET (1..Len(routes))
          BY <2>1
        <5>2. IsFiniteSet(1..Len(routes))
          <6>1. 1 \in Int /\ Len(routes) \in Int
            BY <2>1
          <6> QED BY <6>1, FS_Interval
        <5> QED BY <2>9, <2>15, <5>1, <5>2, FS_Subset
      <4>7. \A i \in DOMAIN routes :
               routes[i].path = p /\ routes[i].method = method => i \in found
        BY <2>2, <2>10, <4>1
      <4>8. \A i \in found :
               /\ i \in DOMAIN routes
               /\ routes[i].path = p /\ routes[i].method = method
        BY <2>1, <2>2, <2>8, <2>15, <4>2
      <4> HIDE DEF claims
      <4>9. CASE ServerRoute(p, method) = MethodNotAllowed
                   /\ \A i \in DOMAIN routes :
                         ~(routes[i].path = p /\ routes[i].method = method)
        <5>1. found = {}
          BY <4>8, <4>9
        <5> QED BY <2>6, <3>2, <4>4, <4>9, <5>1
      <4>10. CASE \E i \in DOMAIN routes :
                    /\ routes[i].path = p /\ routes[i].method = method
                    /\ ServerRoute(p, method) = routes[i].chain
        <5>1. PICK i \in DOMAIN routes :
                  /\ routes[i].path = p /\ routes[i].method = method
                  /\ ServerRoute(p, method) = routes[i].chain
          BY <4>10
        <5>2. i \in found
          BY <4>7, <5>1
        <5>3. Min(found) = i
          BY <2>7, <4>5, <4>6, <5>2, AtMostOne
        <5> QED BY <2>6, <3>2, <4>4, <5>1, <5>2, <5>3
      <4> QED BY <4>9, <4>10, ServerRouteFinds
    <3> QED BY <3>1, <3>2
  <2> QED BY <2>12, <2>13, <2>14, <2>15 DEF http, socket, text, method
<1> QED BY <1>1, RoutesInvHolds, PTL

=============================================================================
