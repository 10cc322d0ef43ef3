------------------------------- MODULE Sifting -------------------------------
(***************************************************************************)
(* What is left of a sequence of which some positions are kept, in order:  *)
(* slices.DeleteFunc, Array.filter and the loops that append what they     *)
(* keep.  SelectSeq is the same by recursion, about which nothing could be *)
(* proved; here the n-th is the one that n - 1 of the kept come before.    *)
(***************************************************************************)
EXTENDS Integers, Sequences, FiniteSets, FiniteSetTheorems, TLAPS

Sifted(s, kept) ==
    [n \in 1..Cardinality(kept) |->
        s[CHOOSE i \in kept : Cardinality({j \in kept : j < i}) = n - 1]]

\* Where the n-th of the kept was.
Place(kept) ==
    [n \in 1..Cardinality(kept) |->
        CHOOSE i \in kept : Cardinality({j \in kept : j < i}) = n - 1]

-----------------------------------------------------------------------------
\* Of finitely many integers each has a rank of its own, and every rank is taken.
LEMMA PlacesAreInOrder ==
    ASSUME NEW kept \in SUBSET Int, IsFiniteSet(kept)
    PROVE  /\ Cardinality(kept) \in Nat
           /\ Place(kept) \in [1..Cardinality(kept) -> kept]
           /\ \A m, n \in 1..Cardinality(kept) : m < n => Place(kept)[m] < Place(kept)[n]
           /\ \A i \in kept : \E n \in 1..Cardinality(kept) : Place(kept)[n] = i
           /\ \A n \in 1..Cardinality(kept) : Cardinality({j \in kept : j < Place(kept)[n]}) = n - 1
<1> DEFINE size == Cardinality(kept)
           Below(i) == {j \in kept : j < i}
           rank == [i \in kept |-> Cardinality(Below(i))]
           ranks == 0..(size - 1)
<1>1. size \in Nat  BY FS_CardinalityType
<1>2. \A i \in kept : IsFiniteSet(Below(i)) /\ Cardinality(Below(i)) \in Nat
  BY FS_Subset, FS_CardinalityType
<1>3. ASSUME NEW i \in kept, NEW j \in kept, i < j
      PROVE  Cardinality(Below(i)) < Cardinality(Below(j))
  <2>1. Below(i) \subseteq Below(j) /\ i \in Below(j) /\ i \notin Below(i)
    <3>1. i \in Int /\ j \in Int /\ \A k \in kept : k \in Int  OBVIOUS
    <3>2. \A k \in kept : k < i => k < j  BY <1>3, <3>1
    <3>3. ~(i < i)  BY <3>1
    <3>4. QED  BY <1>3, <3>2, <3>3
  <2>2. Below(i) # Below(j)  BY <2>1
  <2> HIDE DEF Below
  <2>3. /\ Cardinality(Below(i)) <= Cardinality(Below(j))
        /\ Cardinality(Below(i)) # Cardinality(Below(j))
    BY <1>2, <2>1, <2>2, FS_Subset
  <2>4. QED  BY <1>2, <2>3
<1>4. ASSUME NEW i \in kept  PROVE Cardinality(Below(i)) \in ranks
  <2>1. Below(i) \subseteq kept /\ i \in kept /\ i \notin Below(i)  OBVIOUS
  <2>2. Below(i) # kept  BY <2>1
  <2> HIDE DEF Below
  <2>3. Cardinality(Below(i)) <= size /\ Cardinality(Below(i)) # size
    BY <2>1, <2>2, FS_Subset
  <2>4. QED  BY <1>1, <1>2, <2>3
<1>5. rank \in [kept -> ranks] /\ \A i \in kept : rank[i] = Cardinality(Below(i))  BY <1>4
<1> HIDE DEF Below, rank
<1>6. \A i, j \in kept : rank[i] = rank[j] => i = j
  <2>1. \A i, j \in kept : i < j \/ j < i \/ i = j  OBVIOUS
  <2>2. QED  BY <1>2, <1>3, <1>5, <2>1
<1>7. IsFiniteSet(ranks) /\ Cardinality(ranks) = size  BY <1>1, FS_Interval, SMTT(30)
<1>8. rank \in Injection(kept, ranks)  BY <1>5, <1>6 DEF Injection, IsInjective
<1>9. rank \in Surjection(kept, ranks)  BY <1>7, <1>8, FS_Injection
<1>10. \A r \in ranks : \E i \in kept : rank[i] = r  BY <1>9 DEF Surjection
<1> DEFINE at == Place(kept)
<1>11. ASSUME NEW n \in 1..size
       PROVE  at[n] \in kept /\ rank[at[n]] = n - 1
  <2>1. n - 1 \in ranks  BY <1>1
  <2>2. \E i \in kept : Cardinality(Below(i)) = n - 1  BY <1>5, <1>10, <2>1
  <2>3. at[n] = CHOOSE i \in kept : Cardinality(Below(i)) = n - 1  BY DEF Place, Below
  <2> HIDE DEF at
  <2>4. at[n] \in kept /\ Cardinality(Below(at[n])) = n - 1  BY <2>2, <2>3
  <2>5. QED  BY <1>5, <2>4
<1>12. at \in [1..size -> kept]
  <2>1. at = [n \in 1..size |-> at[n]]  BY SMTT(30) DEF Place
  <2> HIDE DEF at
  <2>2. QED  BY <1>11, <2>1
<1> HIDE DEF at
<1>13. ASSUME NEW m \in 1..size, NEW n \in 1..size, m < n
       PROVE  at[m] < at[n]
  <2>1. m \in Int /\ n \in Int /\ at[m] \in Int /\ at[n] \in Int
    <3>1. m \in Int /\ n \in Int  BY <1>1
    <3>2. at[m] \in kept /\ at[n] \in kept  BY <1>11
    <3>3. \A i \in kept : i \in Int  OBVIOUS
    <3>4. QED  BY <3>1, <3>2, <3>3
  <2>2. rank[at[m]] = m - 1 /\ rank[at[n]] = n - 1  BY <1>11
  <2>3. at[m] # at[n]  BY <1>13, <2>1, <2>2
  <2>4. ASSUME at[n] < at[m]  PROVE FALSE
    <3>1. rank[at[n]] < rank[at[m]]  BY <1>3, <1>5, <1>11, <2>4
    <3>2. QED  BY <1>13, <2>1, <2>2, <3>1
  <2>5. QED  BY <2>1, <2>3, <2>4
<1>14. ASSUME NEW i \in kept  PROVE \E n \in 1..size : at[n] = i
  <2>1. rank[i] \in ranks  BY <1>5
  <2>2. rank[i] + 1 \in 1..size  BY <1>1, <2>1
  <2>3. rank[at[rank[i] + 1]] = rank[i] /\ at[rank[i] + 1] \in kept  BY <1>1, <1>11, <2>1, <2>2
  <2>4. at[rank[i] + 1] = i  BY <1>6, <2>3
  <2>5. QED  BY <2>2, <2>4
<1>15. ASSUME NEW n \in 1..size  PROVE Cardinality({j \in kept : j < at[n]}) = n - 1
  <2>1. at[n] \in kept /\ rank[at[n]] = n - 1  BY <1>11
  <2>2. Cardinality(Below(at[n])) = n - 1  BY <1>5, <2>1
  <2>3. QED  BY <2>2 DEF Below
<1>16. QED  BY <1>1, <1>12, <1>13, <1>14, <1>15 DEF at

\* A sifted sequence is one of the same elements, as long as what is kept of it;
\* each comes from a place of its own, and nothing that is kept is left out.
LEMMA SiftedIsWhatIsKept ==
    ASSUME NEW S, NEW s \in Seq(S), NEW kept \in SUBSET (1..Len(s))
    PROVE  /\ Sifted(s, kept) \in Seq(S)
           /\ Len(Sifted(s, kept)) = Cardinality(kept)
           /\ Cardinality(kept) \in Nat
           /\ Place(kept) \in [1..Cardinality(kept) -> kept]
           /\ \A n \in 1..Cardinality(kept) : Sifted(s, kept)[n] = s[Place(kept)[n]]
           /\ \A m, n \in 1..Cardinality(kept) : m < n => Place(kept)[m] < Place(kept)[n]
           /\ \A i \in kept : \E n \in 1..Cardinality(kept) : Place(kept)[n] = i
<1>1. Len(s) \in Nat /\ \A i \in 1..Len(s) : s[i] \in S  OBVIOUS
<1>2. kept \subseteq Int /\ IsFiniteSet(kept)
  <2>1. IsFiniteSet(1..Len(s))  BY <1>1, FS_Interval
  <2>2. kept \subseteq 1..Len(s)  OBVIOUS
  <2>3. \A i \in 1..Len(s) : i \in Int  BY <1>1
  <2>4. QED  BY <2>1, <2>2, <2>3, FS_Subset
<1> DEFINE size == Cardinality(kept)
           at == Place(kept)
<1>3. /\ size \in Nat
      /\ at \in [1..size -> kept]
      /\ \A m, n \in 1..size : m < n => at[m] < at[n]
      /\ \A i \in kept : \E n \in 1..size : at[n] = i
  BY <1>2, PlacesAreInOrder
<1>4. Sifted(s, kept) = [n \in 1..size |-> s[at[n]]]
  BY DEF Sifted, Place
<1> HIDE DEF size, at
<1>5. \A n \in 1..size : s[at[n]] \in S  BY <1>1, <1>3
<1>6. Sifted(s, kept) \in Seq(S) /\ Len(Sifted(s, kept)) = size
  <2>1. [n \in 1..size |-> s[at[n]]] \in Seq(S)  BY <1>3, <1>5
  <2>2. QED  BY <1>3, <1>4, <2>1
<1>7. \A n \in 1..size : Sifted(s, kept)[n] = s[at[n]]  BY <1>4
<1>8. QED  BY <1>3, <1>6, <1>7 DEF size, at
=============================================================================
