--------------------------- MODULE MultilinkProofs ---------------------------
(***************************************************************************)
(* Proofs about Multilink: a packet that was accepted is never forgotten,  *)
(* is held in one place at a time, and reaches the peer twice only if a    *)
(* link that carried it timed out.                                         *)
(***************************************************************************)
EXTENDS Multilink, TLAPS, FiniteSetTheorems, FunctionTheorems

-----------------------------------------------------------------------------
(* How assign_links_until shares out the queue.                            *)

\* The number of members of a finite set of numbers below one of them
\* identifies it, and takes every value up to the size of the set.
LEMMA RanksEnumerate ==
    ASSUME NEW S \in SUBSET Nat, IsFiniteSet(S)
    PROVE  /\ \A n \in 1 .. Cardinality(S) :
                 \E i \in S : /\ Cardinality({j \in S : j < i}) = n - 1
                              /\ \A k \in S : Cardinality({j \in S : j < k}) = n - 1 => k = i
           /\ \A i \in S : Cardinality({j \in S : j < i}) + 1 \in 1 .. Cardinality(S)
<1> DEFINE below(i) == {j \in S : j < i}
           r == [i \in S |-> Cardinality(below(i)) + 1]
           N == Cardinality(S)
<1>1. N \in Nat
  BY FS_CardinalityType
<1>2. \A i \in S : /\ IsFiniteSet(below(i)) /\ Cardinality(below(i)) \in Nat
                   /\ Cardinality(below(i)) < N
  <2> SUFFICES ASSUME NEW i \in S
               PROVE  /\ IsFiniteSet(below(i)) /\ Cardinality(below(i)) \in Nat
                      /\ Cardinality(below(i)) < N
    OBVIOUS
  <2>1. below(i) \in SUBSET S /\ i \notin below(i) /\ S # below(i)
    OBVIOUS
  <2> HIDE DEF below
  <2>2. /\ IsFiniteSet(below(i)) /\ Cardinality(below(i)) <= N
        /\ N = Cardinality(below(i)) => S = below(i)
    BY <2>1, FS_Subset
  <2>3. Cardinality(below(i)) \in Nat
    BY <2>2, FS_CardinalityType
  <2> QED BY <1>1, <2>1, <2>2, <2>3
<1>3. \A i, k \in S : i < k => Cardinality(below(i)) < Cardinality(below(k))
  <2> SUFFICES ASSUME NEW i \in S, NEW k \in S, i < k
               PROVE  Cardinality(below(i)) < Cardinality(below(k))
    OBVIOUS
  <2>1. below(i) \in SUBSET below(k) /\ i \in below(k) /\ i \notin below(i)
    <3>1. \A j \in S : j \in Int
      OBVIOUS
    <3>2. \A j \in S : j < i => j < k
      BY <3>1
    <3>3. ~(i < i)
      BY <3>1
    <3>4. below(i) \subseteq below(k)
      BY <3>2
    <3> QED BY <3>3, <3>4
  <2>2. /\ IsFiniteSet(below(k)) /\ Cardinality(below(k)) \in Nat
        /\ Cardinality(below(i)) \in Nat
    BY <1>2
  <2> HIDE DEF below
  <2>3. /\ Cardinality(below(i)) <= Cardinality(below(k))
        /\ Cardinality(below(k)) = Cardinality(below(i)) => below(k) = below(i)
    BY <2>1, <2>2, FS_Subset
  <2> QED BY <2>1, <2>2, <2>3
<1>4. r \in [S -> 1 .. N]
  <2> HIDE DEF below, N
  <2> QED BY <1>1, <1>2
<1>5. \A i, k \in S : r[i] = r[k] => i = k
  <2>1. \A i, k \in S : i # k => i < k \/ k < i
    OBVIOUS
  <2>2. \A i \in S : r[i] = Cardinality(below(i)) + 1 /\ Cardinality(below(i)) \in Nat
    BY <1>2
  <2> HIDE DEF below, r
  <2> QED BY <1>3, <2>1, <2>2
<1>6. IsFiniteSet(1 .. N) /\ Cardinality(1 .. N) = N
  <2> HIDE DEF N
  <2> QED BY <1>1, FS_Interval
<1>7. r \in Injection(S, 1 .. N)
  <2> HIDE DEF r, N
  <2> QED BY <1>4, <1>5, Fun_IsInj
<1>8. r \in Surjection(S, 1 .. N)
  <2>1. N = Cardinality(S)
    OBVIOUS
  <2> HIDE DEF r, N
  <2> QED BY <1>6, <1>7, <2>1, FS_Injection
<1>9. \A n \in 1 .. N : \E i \in S : r[i] = n
  <2> HIDE DEF r, N
  <2> QED BY <1>8, Fun_SurjectionProperties
<1>10. \A i \in S : r[i] = Cardinality(below(i)) + 1 /\ Cardinality(below(i)) \in Nat
  BY <1>2
<1>11. \A n \in 1 .. N : \A i \in S : Cardinality(below(i)) = n - 1 <=> r[i] = n
  <2> HIDE DEF below, r, N
  <2> QED BY <1>1, <1>10
<1>12. \A n \in 1 .. N :
         \E i \in S : /\ Cardinality(below(i)) = n - 1
                      /\ \A k \in S : Cardinality(below(k)) = n - 1 => k = i
  <2> HIDE DEF below, r, N
  <2> QED BY <1>5, <1>9, <1>11
<1>13. \A i \in S : Cardinality(below(i)) + 1 \in 1 .. N
  BY <1>4, <1>10
<1> QED BY <1>12, <1>13

\* The places in the queue from which the assignment takes link m's packets.
Mine(owner, m) == {i \in DOMAIN owner : owner[i] = m}

\* Place(owner, m)[n] is where the n-th of them was.
Place(owner, m) ==
    [n \in 1 .. Cardinality(Mine(owner, m)) |->
        CHOOSE i \in Mine(owner, m) : Cardinality({j \in Mine(owner, m) : j < i}) = n - 1]

\* Share takes each of these places once.
LEMMA ShareOfLink ==
    ASSUME NEW k \in Nat, NEW q, NEW owner, DOMAIN owner = 1 .. k, NEW m
    PROVE  /\ Cardinality(Mine(owner, m)) \in Nat
           /\ Place(owner, m) \in [1 .. Cardinality(Mine(owner, m)) -> Mine(owner, m)]
           /\ \A i \in Mine(owner, m) : \E n \in DOMAIN Place(owner, m) : Place(owner, m)[n] = i
           /\ \A n, o \in DOMAIN Place(owner, m) : Place(owner, m)[n] = Place(owner, m)[o] => n = o
           /\ Share(q, owner, m) =
                [n \in 1 .. Cardinality(Mine(owner, m)) |-> q[Place(owner, m)[n]]]
<1> DEFINE S == Mine(owner, m)
           N == Cardinality(S)
           rank(i) == Cardinality({j \in S : j < i})
           P == Place(owner, m)
<1>1. S \in SUBSET Nat /\ S \in SUBSET (1 .. k)
  BY DEF Mine
<1>2. IsFiniteSet(1 .. k)
  BY FS_Interval
<1>3. IsFiniteSet(S)
  <2> HIDE DEF S
  <2> QED BY <1>1, <1>2, FS_Subset
<1>4. N \in Nat
  <2> HIDE DEF S
  <2> QED BY <1>3, FS_CardinalityType
<1>5. /\ \A n \in 1 .. N : \E i \in S : rank(i) = n - 1 /\ \A x \in S : rank(x) = n - 1 => x = i
      /\ \A i \in S : rank(i) + 1 \in 1 .. N
  <2> HIDE DEF S
  <2> QED BY <1>1, <1>3, RanksEnumerate
<1>6. \A i \in S : rank(i) \in Nat
  <2> SUFFICES ASSUME NEW i \in S PROVE rank(i) \in Nat
    OBVIOUS
  <2>1. {j \in S : j < i} \in SUBSET S
    OBVIOUS
  <2>2. IsFiniteSet({j \in S : j < i})
    <3> HIDE DEF S
    <3> QED BY <1>3, <2>1, FS_Subset
  <2> HIDE DEF S
  <2> QED BY <2>2, FS_CardinalityType
<1>7. P = [n \in 1 .. N |-> CHOOSE i \in S : rank(i) = n - 1]
  BY DEF Place
<1>8. Share(q, owner, m) = [n \in 1 .. N |-> q[P[n]]]
  BY DEF Share, Mine, Place
<1> HIDE DEF S, N, rank, P
<1>9. \A n \in 1 .. N : P[n] \in S /\ rank(P[n]) = n - 1
  BY <1>5, <1>7
<1>10. P \in [1 .. N -> S]
  BY <1>7, <1>9
<1>11. \A i \in S : \E n \in DOMAIN P : P[n] = i
  <2> SUFFICES ASSUME NEW i \in S PROVE \E n \in DOMAIN P : P[n] = i
    OBVIOUS
  <2> DEFINE n == rank(i) + 1
  <2>1. n \in 1 .. N /\ rank(i) = n - 1
    BY <1>4, <1>5, <1>6
  <2> HIDE DEF n
  <2>2. P[n] = i
    BY <1>5, <1>9, <2>1
  <2> QED BY <1>10, <2>1, <2>2
<1>12. \A n, o \in DOMAIN P : P[n] = P[o] => n = o
  <2> SUFFICES ASSUME NEW n \in 1 .. N, NEW o \in 1 .. N, P[n] = P[o] PROVE n = o
    BY <1>10
  <2>1. n - 1 = o - 1
    BY <1>9
  <2> QED BY <1>4, <2>1
<1> QED BY <1>4, <1>8, <1>10, <1>11, <1>12 DEF S, N, P

-----------------------------------------------------------------------------
(* Sequences of packets and their elements.                                *)

\* No packet is twice in the sequence.
Distinct(s) == \A i, j \in 1 .. Len(s) : s[i] = s[j] => i = j

LEMMA ElementsOf ==
    ASSUME NEW s \in Seq(Packets)
    PROVE  /\ Elements(s) = {s[i] : i \in 1 .. Len(s)}
           /\ Elements(s) \subseteq Packets
           /\ \A i \in 1 .. Len(s) : s[i] \in Elements(s)
BY DEF Elements

LEMMA EmptyElements == Elements(<<>>) = {} /\ Distinct(<<>>) /\ <<>> \in Seq(Packets)
BY DEF Elements, Distinct

LEMMA ConcatElements ==
    ASSUME NEW s \in Seq(Packets), NEW t \in Seq(Packets)
    PROVE  /\ s \o t \in Seq(Packets)
           /\ Elements(s \o t) = Elements(s) \cup Elements(t)
           /\ Distinct(s) /\ Distinct(t) /\ Elements(s) \cap Elements(t) = {} => Distinct(s \o t)
<1> DEFINE u == s \o t
<1>1. /\ u \in Seq(Packets) /\ Len(u) = Len(s) + Len(t) /\ Len(s) \in Nat /\ Len(t) \in Nat
      /\ \A i \in 1 .. Len(s) : u[i] = s[i]
      /\ \A i \in 1 .. Len(u) : i > Len(s) => i - Len(s) \in 1 .. Len(t) /\ u[i] = t[i - Len(s)]
  OBVIOUS
<1>2. \A i \in 1 .. Len(t) : Len(s) + i \in 1 .. Len(u) /\ u[Len(s) + i] = t[i]
  OBVIOUS
<1> HIDE DEF u
<1>3. Elements(u) = Elements(s) \cup Elements(t)
  <2>1. \A i \in 1 .. Len(s) : i \in 1 .. Len(u)
    BY <1>1
  <2>2. Elements(s) \cup Elements(t) \subseteq Elements(u)
    <3>1. \A i \in 1 .. Len(u) : u[i] \in Elements(u)
      BY <1>1, ElementsOf
    <3>2. \A i \in 1 .. Len(s) : s[i] \in Elements(u)
      BY <1>1, <2>1, <3>1
    <3>3. \A i \in 1 .. Len(t) : t[i] \in Elements(u)
      BY <1>2, <3>1
    <3> QED BY <3>2, <3>3, ElementsOf
  <2>3. ASSUME NEW i \in 1 .. Len(u) PROVE u[i] \in Elements(s) \cup Elements(t)
    <3>1. CASE i <= Len(s)
      <4>1. i \in 1 .. Len(s)
        BY <1>1, <3>1
      <4> QED BY <1>1, <4>1, ElementsOf
    <3>2. CASE i > Len(s)
      BY <1>1, <3>2, ElementsOf
    <3> QED BY <1>1, <3>1, <3>2
  <2> QED BY <1>1, <2>2, <2>3, ElementsOf
<1>4. ASSUME Distinct(s), Distinct(t), Elements(s) \cap Elements(t) = {}
      PROVE  Distinct(u)
  <2> SUFFICES ASSUME NEW i \in 1 .. Len(u), NEW j \in 1 .. Len(u), u[i] = u[j], i < j
               PROVE  FALSE
    BY <1>1 DEF Distinct
  <2>1. CASE j <= Len(s)
    <3>1. i \in 1 .. Len(s) /\ j \in 1 .. Len(s)
      BY <1>1, <2>1
    <3> QED BY <1>1, <1>4, <3>1 DEF Distinct
  <2>2. CASE i > Len(s)
    <3>1. j > Len(s)
      BY <1>1, <2>2
    <3>2. i - Len(s) = j - Len(s)
      BY <1>1, <1>4, <2>2, <3>1, SMTT(30) DEF Distinct
    <3> QED BY <1>1, <3>2
  <2>3. CASE i <= Len(s) /\ j > Len(s)
    <3>1. i \in 1 .. Len(s)
      BY <1>1, <2>3
    <3>2. u[i] \in Elements(s) /\ u[j] \in Elements(t)
      BY <1>1, <2>3, <3>1, ElementsOf
    <3> QED BY <1>4, <3>2
  <2> QED BY <1>1, <2>1, <2>2, <2>3
<1> QED BY <1>1, <1>3, <1>4 DEF u

LEMMA TailElements ==
    ASSUME NEW s \in Seq(Packets), s # <<>>
    PROVE  /\ Head(s) \in Packets /\ Tail(s) \in Seq(Packets)
           /\ Elements(s) = Elements(Tail(s)) \cup {Head(s)}
           /\ Distinct(s) => Distinct(Tail(s)) /\ Head(s) \notin Elements(Tail(s))
<1> DEFINE t == Tail(s)
<1>1. /\ Len(s) \in Nat /\ Len(s) > 0 /\ Head(s) = s[1] /\ Head(s) \in Packets
      /\ t \in Seq(Packets) /\ Len(t) = Len(s) - 1
      /\ \A i \in 1 .. Len(t) : t[i] = s[i + 1]
  OBVIOUS
<1> HIDE DEF t
<1>2. \A i \in 1 .. Len(t) : i + 1 \in 1 .. Len(s) /\ i + 1 # 1
  BY <1>1
<1>3. \A i \in 1 .. Len(s) : i # 1 => i - 1 \in 1 .. Len(t) /\ (i - 1) + 1 = i
  BY <1>1
<1>4. Elements(s) = Elements(t) \cup {s[1]}
  <2>1. ASSUME NEW i \in 1 .. Len(s) PROVE s[i] \in Elements(t) \cup {s[1]}
    <3>1. CASE i # 1
      <4> DEFINE j == i - 1
      <4>1. j \in 1 .. Len(t) /\ j + 1 = i
        BY <1>3, <3>1
      <4> HIDE DEF j
      <4> QED BY <1>1, <4>1, ElementsOf
    <3> QED BY <3>1
  <2>2. 1 \in 1 .. Len(s)
    BY <1>1
  <2>3. \A i \in 1 .. Len(t) : t[i] \in Elements(s)
    BY <1>1, <1>2, ElementsOf
  <2>4. /\ Elements(s) = {s[i] : i \in 1 .. Len(s)} /\ Elements(t) = {t[i] : i \in 1 .. Len(t)}
        /\ s[1] \in Elements(s)
    BY <1>1, <2>2, ElementsOf
  <2>5. Elements(s) \subseteq Elements(t) \cup {s[1]}
    BY <2>1, <2>4, Zenon
  <2>6. Elements(t) \subseteq Elements(s)
    BY <2>3, <2>4, Zenon
  <2> QED BY <2>4, <2>5, <2>6, Zenon
<1>5. ASSUME Distinct(s) PROVE Distinct(t) /\ s[1] \notin Elements(t)
  <2>1. 1 \in 1 .. Len(s)
    BY <1>1
  <2>2. ASSUME NEW i \in 1 .. Len(t) PROVE t[i] # s[1]
    BY <1>1, <1>2, <1>5, <2>1 DEF Distinct
  <2>3. ASSUME NEW i \in 1 .. Len(t), NEW j \in 1 .. Len(t), t[i] = t[j] PROVE i = j
    <3>1. i + 1 = j + 1
      BY <1>1, <1>2, <1>5, <2>3 DEF Distinct
    <3> QED BY <3>1
  <2> QED BY <1>1, <2>2, <2>3, ElementsOf DEF Distinct
<1> QED BY <1>1, <1>4, <1>5 DEF t

LEMMA AppendElements ==
    ASSUME NEW s \in Seq(Packets), NEW x \in Packets
    PROVE  /\ Append(s, x) \in Seq(Packets) /\ Append(s, x) # <<>>
           /\ Append(s, x)[Len(Append(s, x))] = x
           /\ Elements(Append(s, x)) = Elements(s) \cup {x}
           /\ Distinct(s) /\ x \notin Elements(s) => Distinct(Append(s, x))
<1> DEFINE t == <<x>>
<1>1. t \in Seq(Packets) /\ Len(t) = 1 /\ t[1] = x /\ Append(s, x) = s \o t
  OBVIOUS
<1>2. Append(s, x) # <<>> /\ Append(s, x)[Len(Append(s, x))] = x
  OBVIOUS
<1> HIDE DEF t
<1>3. 1 .. 1 = {1}
  OBVIOUS
<1>4. Elements(t) = {x}
  <2>1. Elements(t) = {t[i] : i \in 1 .. Len(t)}
    BY <1>1, ElementsOf
  <2> QED BY <1>1, <1>3, <2>1
<1>5. Distinct(t)
  BY <1>1, <1>3 DEF Distinct
<1>6. /\ s \o t \in Seq(Packets) /\ Elements(s \o t) = Elements(s) \cup Elements(t)
      /\ Distinct(s) /\ Distinct(t) /\ Elements(s) \cap Elements(t) = {} => Distinct(s \o t)
  BY <1>1, ConcatElements
<1> QED BY <1>1, <1>2, <1>4, <1>5, <1>6

\* The packets of q that the assignment gives to some link.
Given(q, owner) == UNION {Elements(Share(q, owner, owner[i])) : i \in DOMAIN owner}

\* What stays of q without its first n packets.
LEMMA FrontRemoved ==
    ASSUME NEW S, NEW q \in Seq(S), NEW n \in 0 .. Len(q)
    PROVE  /\ SubSeq(q, n + 1, Len(q)) \in Seq(S)
           /\ Len(SubSeq(q, n + 1, Len(q))) = Len(q) - n
           /\ \A i \in 1 .. Len(q) - n : SubSeq(q, n + 1, Len(q))[i] = q[n + i]
  OBVIOUS

\* What assign_links_until makes of the queue q: every packet goes to one
\* link or stays.
LEMMA SharedOut ==
    ASSUME NEW q \in Seq(Packets), Distinct(q), NEW k \in 0 .. Len(q),
           NEW P, NEW owner \in [1 .. k -> P]
    PROVE  /\ Rest(q, owner) \in Seq(Packets) /\ Distinct(Rest(q, owner))
           /\ Elements(Rest(q, owner)) \subseteq Elements(q)
           /\ \A m : /\ Share(q, owner, m) \in Seq(Packets) /\ Distinct(Share(q, owner, m))
                     /\ Elements(Share(q, owner, m)) \subseteq Elements(q)
                     /\ Elements(Share(q, owner, m)) \cap Elements(Rest(q, owner)) = {}
           /\ \A m, o : m # o => Elements(Share(q, owner, m)) \cap Elements(Share(q, owner, o)) = {}
           /\ Elements(q) \subseteq Elements(Rest(q, owner)) \cup Given(q, owner)
<1> DEFINE R == Rest(q, owner)
           Sh(m) == Share(q, owner, m)
           S(m) == Mine(owner, m)
<1>1. k \in Nat /\ Len(q) \in Nat /\ k <= Len(q) /\ DOMAIN owner = 1 .. k
  OBVIOUS
<1>2. R = SubSeq(q, k + 1, Len(q))
  <2>1. Cardinality(1 .. k) = k
    BY <1>1, FS_Interval
  <2> QED BY <1>1, <2>1 DEF Rest
<1>3. /\ R \in Seq(Packets) /\ Len(R) = Len(q) - k
      /\ \A i \in 1 .. Len(R) : R[i] = q[k + i]
  <2> HIDE DEF R
  <2>1. /\ SubSeq(q, k + 1, Len(q)) \in Seq(Packets)
        /\ Len(SubSeq(q, k + 1, Len(q))) = Len(q) - k
        /\ \A i \in 1 .. Len(q) - k : SubSeq(q, k + 1, Len(q))[i] = q[k + i]
    BY FrontRemoved
  <2> QED BY <1>2, <2>1
<1> HIDE DEF R
<1>4. \A i \in 1 .. Len(R) : k + i \in k + 1 .. Len(q) /\ k + i \in 1 .. Len(q)
  BY <1>1, <1>3
<1>5. Elements(R) = {q[i] : i \in k + 1 .. Len(q)}
  <2>1. \A i \in k + 1 .. Len(q) : i - k \in 1 .. Len(R) /\ k + (i - k) = i
    BY <1>1, <1>3
  <2>2. \A i \in k + 1 .. Len(q) : \E j \in 1 .. Len(R) : k + j = i
    BY <2>1
  <2>3. Elements(R) = {R[i] : i \in 1 .. Len(R)}
    BY <1>3, ElementsOf
  <2>4. \A i \in 1 .. Len(R) : R[i] \in {q[j] : j \in k + 1 .. Len(q)}
    BY <1>3, <1>4
  <2>5. \A i \in k + 1 .. Len(q) : q[i] \in {R[j] : j \in 1 .. Len(R)}
    BY <1>3, <2>2
  <2> QED BY <2>3, <2>4, <2>5
<1>6. Distinct(R)
  <2> SUFFICES ASSUME NEW i \in 1 .. Len(R), NEW j \in 1 .. Len(R), R[i] = R[j] PROVE i = j
    BY DEF Distinct
  <2>1. k + i = k + j
    BY <1>3, <1>4 DEF Distinct
  <2> QED BY <1>1, <1>3, <2>1
<1>7. \A m : /\ S(m) \subseteq 1 .. Len(q) /\ S(m) \subseteq 1 .. k
  BY <1>1 DEF Mine
<1>8. ASSUME NEW m
      PROVE  /\ Sh(m) \in Seq(Packets) /\ Distinct(Sh(m))
             /\ Elements(Sh(m)) = {q[i] : i \in S(m)}
  <2> DEFINE N == Cardinality(S(m))
             g == Place(owner, m)
  <2>1. /\ N \in Nat /\ g \in [1 .. N -> S(m)]
        /\ \A i \in S(m) : \E n \in 1 .. N : g[n] = i
        /\ \A n, o \in 1 .. N : g[n] = g[o] => n = o
        /\ Sh(m) = [n \in 1 .. N |-> q[g[n]]]
    BY <1>1, ShareOfLink
  <2> HIDE DEF N, g, Sh, S
  <2>2. \A n \in 1 .. N : g[n] \in 1 .. Len(q)
    BY <1>7, <2>1
  <2>3. Sh(m) \in Seq(Packets) /\ Len(Sh(m)) = N /\ DOMAIN Sh(m) = 1 .. N
    BY <2>1, <2>2
  <2>4. Distinct(Sh(m))
    BY <2>1, <2>2, <2>3, SMTT(30) DEF Distinct
  <2>5. Elements(Sh(m)) = {q[i] : i \in S(m)}
    <3>1. Elements(Sh(m)) = {q[g[n]] : n \in 1 .. N}
      <4>1. Elements(Sh(m)) = {Sh(m)[n] : n \in 1 .. N}
        BY <2>3, ElementsOf
      <4>2. \A n \in 1 .. N : Sh(m)[n] = q[g[n]]
        BY <2>1
      <4> QED BY <4>1, <4>2
    <3>2. \A n \in 1 .. N : q[g[n]] \in {q[i] : i \in S(m)}
      BY <2>1
    <3>3. \A i \in S(m) : q[i] \in {q[g[n]] : n \in 1 .. N}
      BY <2>1
    <3> QED BY <3>1, <3>2, <3>3
  <2> QED BY <2>3, <2>4, <2>5
<1>9. \A m, o : m # o => S(m) \cap S(o) = {}
  BY DEF Mine
<1>10. \A m : S(m) \cap (k + 1 .. Len(q)) = {}
  BY <1>1, <1>7
<1>11. k + 1 .. Len(q) \subseteq 1 .. Len(q)
  BY <1>1
<1>12. \A i \in 1 .. Len(q) : i \in k + 1 .. Len(q) \/ (i \in 1 .. k /\ i \in S(owner[i]))
  BY <1>1 DEF Mine
<1> HIDE DEF Sh, S
<1>13. Elements(q) = {q[i] : i \in 1 .. Len(q)}
  BY ElementsOf
<1>14. \A i, j \in 1 .. Len(q) : q[i] = q[j] => i = j
  BY DEF Distinct
<1>15. Elements(R) \subseteq Elements(q)
  BY <1>5, <1>11, <1>13
<1>16. \A m : Elements(Sh(m)) \subseteq Elements(q)
  BY <1>7, <1>8, <1>13
<1>17. \A m : Elements(Sh(m)) \cap Elements(R) = {}
  BY <1>5, <1>7, <1>8, <1>10, <1>11, <1>14
<1>18. \A m, o : m # o => Elements(Sh(m)) \cap Elements(Sh(o)) = {}
  BY <1>7, <1>8, <1>9, <1>14
<1>19. \A x \in Elements(q) : x \in Elements(R) \/ \E i \in 1 .. k : x \in Elements(Sh(owner[i]))
  BY <1>5, <1>8, <1>12, <1>13
<1>20. Elements(q) \subseteq Elements(R) \cup Given(q, owner)
  BY <1>1, <1>19 DEF Given, Sh
<1> QED BY <1>3, <1>6, <1>8, <1>15, <1>16, <1>17, <1>18, <1>20 DEF R, Sh

-----------------------------------------------------------------------------
(* Where the packets are.                                                  *)

\* OneHome, for a queue Q, assigned packets A and packets in flight F, in
\* terms of the elements of the sequences.
Homes(Q, A, F) ==
    /\ Distinct(Q)
    /\ \A l \in Links : /\ Distinct(A[l]) /\ Distinct(F[l])
                        /\ Elements(Q) \cap Elements(A[l]) = {}
                        /\ Elements(Q) \cap Elements(F[l]) = {}
    /\ \A l, m \in Links : /\ Elements(A[l]) \cap Elements(F[m]) = {}
                           /\ l # m => Elements(A[l]) \cap Elements(A[m]) = {}
                           /\ l # m => Elements(F[l]) \cap Elements(F[m]) = {}

\* The packets 1 .. a are all accounted for when the links in P are there:
\* types, OneHome, and the parts of Numbered, CarriedOnce and NoLoss that
\* speak of Q, A and F.
Accounted(P, a, Q, A, F) ==
    /\ a \in 0 .. MaxPackets
    /\ Q \in Seq(Packets) /\ A \in [Links -> Seq(Packets)] /\ F \in [Links -> Seq(Packets)]
    /\ Homes(Q, A, F)
    /\ Elements(Q) \subseteq 1 .. a
    /\ \A l \in Links : Elements(A[l]) \subseteq 1 .. a /\ Elements(F[l]) \subseteq 1 .. a
    /\ \A l \in P :
          /\ Carried(l) \cap Elements(Q) = {}
          /\ \A m \in Links : Carried(l) \cap Elements(A[m]) = {}
          /\ \A m \in Links : m # l => Carried(l) \cap Elements(F[m]) = {}
    /\ \A p \in 1 .. a : \/ Arrived(p)
                         \/ p \in Elements(Q)
                         \/ \E l \in P : p \in Elements(A[l]) \/ p \in Elements(F[l])

\* New packets join the queue.
LEMMA FreshAccounted ==
    ASSUME NEW P, P \subseteq Links, Accounted(P, accepted, queue, assigned, in_flight),
           NEW n \in 0 .. MaxPackets - accepted,
           \A l \in Links : Carried(l) \subseteq 1 .. accepted
    PROVE  Accounted(P, accepted + n, queue \o Fresh(n), assigned, in_flight)
<1> DEFINE f == Fresh(n)
<1>1. accepted \in Nat /\ MaxPackets \in Nat /\ n \in Nat /\ accepted + n \in 0 .. MaxPackets
  BY MultilinkAssumption DEF Accounted
<1>2. /\ f \in Seq(Packets) /\ Len(f) = n /\ \A i \in 1 .. n : f[i] = accepted + i
  <2>1. \A i \in 1 .. n : accepted + i \in 1 .. MaxPackets
    BY <1>1
  <2> QED BY <1>1, <2>1 DEF Fresh, Packets
<1> HIDE DEF f
<1>3. Distinct(f)
  BY <1>1, <1>2 DEF Distinct
<1>4. Elements(f) = {accepted + i : i \in 1 .. n}
  <2>1. Elements(f) = {f[i] : i \in 1 .. n}
    BY <1>2, ElementsOf
  <2> QED BY <1>2, <2>1
<1>5. Elements(f) \cap (1 .. accepted) = {}
  BY <1>1, <1>4
<1>6. 1 .. accepted \subseteq 1 .. accepted + n
  BY <1>1
<1>7. \A p \in 1 .. accepted + n : p \in 1 .. accepted \/ p \in Elements(f)
  <2> SUFFICES ASSUME NEW p \in 1 .. accepted + n, p \notin 1 .. accepted
               PROVE  p \in Elements(f)
    OBVIOUS
  <2>1. p - accepted \in 1 .. n /\ p = accepted + (p - accepted)
    BY <1>1
  <2> QED BY <1>4, <2>1
<1>8. Elements(f) \subseteq 1 .. accepted + n
  BY <1>1, <1>4
<1>9. /\ queue \in Seq(Packets) /\ Distinct(queue) /\ Elements(queue) \subseteq 1 .. accepted
  BY DEF Accounted, Homes
<1>10. /\ queue \o f \in Seq(Packets) /\ Elements(queue \o f) = Elements(queue) \cup Elements(f)
       /\ Distinct(queue \o f)
  BY <1>2, <1>3, <1>5, <1>9, ConcatElements
<1>11. Homes(queue \o f, assigned, in_flight)
  BY <1>5, <1>10 DEF Accounted, Homes
<1> QED BY <1>1, <1>5, <1>6, <1>7, <1>8, <1>9, <1>10, <1>11 DEF Accounted, f

\* Packets of the queue are assigned to links.
LEMMA AssignedAccounted ==
    ASSUME NEW P, P \subseteq Links, NEW a, NEW q, NEW A, NEW F, Accounted(P, a, q, A, F),
           NEW k \in 0 .. Len(q), NEW owner \in [1 .. k -> P]
    PROVE  Accounted(P, a, Rest(q, owner), [m \in Links |-> A[m] \o Share(q, owner, m)], F)
<1> DEFINE R == Rest(q, owner)
           Sh(m) == Share(q, owner, m)
           B == [m \in Links |-> A[m] \o Sh(m)]
<1>1. /\ R \in Seq(Packets) /\ Distinct(R) /\ Elements(R) \subseteq Elements(q)
      /\ \A m : /\ Sh(m) \in Seq(Packets) /\ Distinct(Sh(m))
                /\ Elements(Sh(m)) \subseteq Elements(q) /\ Elements(Sh(m)) \cap Elements(R) = {}
      /\ \A m, o : m # o => Elements(Sh(m)) \cap Elements(Sh(o)) = {}
      /\ \A x \in Elements(q) : x \in Elements(R) \/ \E m \in P : x \in Elements(Sh(m))
  <2>1. q \in Seq(Packets) /\ Distinct(q)
    BY DEF Accounted, Homes
  <2>2. R \in Seq(Packets) /\ Distinct(R) /\ Elements(R) \subseteq Elements(q)
    BY <2>1, SharedOut
  <2>3. \A m : /\ Sh(m) \in Seq(Packets) /\ Distinct(Sh(m))
               /\ Elements(Sh(m)) \subseteq Elements(q) /\ Elements(Sh(m)) \cap Elements(R) = {}
    BY <2>1, SharedOut
  <2>4. \A m, o : m # o => Elements(Sh(m)) \cap Elements(Sh(o)) = {}
    BY <2>1, SharedOut
  <2>5. \A x \in Elements(q) : x \in Elements(R) \/ \E m \in P : x \in Elements(Sh(m))
    <3> SUFFICES ASSUME NEW x \in Elements(q), x \notin Elements(R)
                 PROVE  \E m \in P : x \in Elements(Sh(m))
      OBVIOUS
    <3>1. x \in Given(q, owner)
      BY <2>1, SharedOut
    <3>2. \E i \in 1 .. k : x \in Elements(Sh(owner[i]))
      BY <3>1 DEF Given
    <3> HIDE DEF R, Sh
    <3> QED BY <3>2
  <2> QED BY <2>2, <2>3, <2>4, <2>5
<1> HIDE DEF R, Sh
<1>2. \A m \in Links : /\ A[m] \in Seq(Packets) /\ Distinct(A[m])
                       /\ Elements(A[m]) \cap Elements(q) = {}
  BY DEF Accounted, Homes
<1>3. \A m \in Links : /\ B[m] \in Seq(Packets) /\ Distinct(B[m])
                       /\ Elements(B[m]) = Elements(A[m]) \cup Elements(Sh(m))
  <2> SUFFICES ASSUME NEW m \in Links
               PROVE  /\ A[m] \o Sh(m) \in Seq(Packets) /\ Distinct(A[m] \o Sh(m))
                      /\ Elements(A[m] \o Sh(m)) = Elements(A[m]) \cup Elements(Sh(m))
    OBVIOUS
  <2>1. /\ A[m] \in Seq(Packets) /\ Sh(m) \in Seq(Packets) /\ Distinct(A[m]) /\ Distinct(Sh(m))
        /\ Elements(A[m]) \cap Elements(Sh(m)) = {}
    BY <1>1, <1>2
  <2> QED BY <2>1, ConcatElements
<1>4. B \in [Links -> Seq(Packets)]
  BY <1>3
<1> HIDE DEF B
<1>5. Homes(R, B, F)
  <2>1. \A l \in Links : /\ Elements(R) \cap Elements(B[l]) = {}
                         /\ Elements(R) \cap Elements(F[l]) = {}
    BY <1>1, <1>2, <1>3 DEF Accounted, Homes
  <2>2. \A l, m \in Links : Elements(B[l]) \cap Elements(F[m]) = {}
    BY <1>1, <1>3 DEF Accounted, Homes
  <2>3. \A l, m \in Links : l # m => Elements(B[l]) \cap Elements(B[m]) = {}
    <3> SUFFICES ASSUME NEW l \in Links, NEW m \in Links, l # m
                 PROVE  Elements(B[l]) \cap Elements(B[m]) = {}
      OBVIOUS
    <3>1. Elements(A[l]) \cap Elements(A[m]) = {} /\ Elements(Sh(l)) \cap Elements(Sh(m)) = {}
      BY <1>1 DEF Accounted, Homes
    <3>2. Elements(A[l]) \cap Elements(Sh(m)) = {} /\ Elements(A[m]) \cap Elements(Sh(l)) = {}
      BY <1>1, <1>2
    <3> QED BY <1>3, <3>1, <3>2
  <2> QED BY <1>1, <1>3, <2>1, <2>2, <2>3, ZenonT(30) DEF Accounted, Homes
<1>6. /\ Elements(R) \subseteq 1 .. a
      /\ \A l \in Links : Elements(B[l]) \subseteq 1 .. a
  BY <1>1, <1>3 DEF Accounted
<1>7. \A l \in P : /\ Carried(l) \cap Elements(R) = {}
                   /\ \A m \in Links : Carried(l) \cap Elements(B[m]) = {}
  BY <1>1, <1>3 DEF Accounted
<1>8. \A p \in 1 .. a : \/ Arrived(p)
                        \/ p \in Elements(R)
                        \/ \E l \in P : p \in Elements(B[l]) \/ p \in Elements(F[l])
  BY <1>1, <1>3 DEF Accounted
<1> QED BY <1>1, <1>4, <1>5, <1>6, <1>7, <1>8 DEF Accounted, R, B, Sh

\* An assigned packet is sent over its link.
LEMMA SentAccounted ==
    ASSUME NEW P, P \subseteq Links, NEW a, NEW Q, NEW A, NEW F, Accounted(P, a, Q, A, F),
           NEW l \in P, A[l] # <<>>
    PROVE  Accounted(P, a, Q, [A EXCEPT ![l] = Tail(@)],
                              [F EXCEPT ![l] = Append(@, Head(A[l]))])
<1> DEFINE h == Head(A[l])
           B == [A EXCEPT ![l] = Tail(@)]
           G == [F EXCEPT ![l] = Append(@, h)]
<1>1. /\ l \in Links /\ A[l] \in Seq(Packets) /\ F[l] \in Seq(Packets)
      /\ Distinct(A[l]) /\ Distinct(F[l]) /\ Elements(A[l]) \cap Elements(F[l]) = {}
  BY DEF Accounted, Homes
<1>2. /\ h \in Packets /\ Tail(A[l]) \in Seq(Packets) /\ Distinct(Tail(A[l]))
      /\ Elements(A[l]) = Elements(Tail(A[l])) \cup {h} /\ h \notin Elements(Tail(A[l]))
  BY <1>1, TailElements
<1> HIDE DEF h
<1>3. /\ Append(F[l], h) \in Seq(Packets) /\ Distinct(Append(F[l], h))
      /\ Elements(Append(F[l], h)) = Elements(F[l]) \cup {h}
  BY <1>1, <1>2, AppendElements
<1>4. /\ B \in [Links -> Seq(Packets)] /\ G \in [Links -> Seq(Packets)]
      /\ \A m \in Links : B[m] = (IF m = l THEN Tail(A[l]) ELSE A[m])
                          /\ G[m] = (IF m = l THEN Append(F[l], h) ELSE F[m])
  BY <1>1, <1>2, <1>3 DEF Accounted
<1> HIDE DEF B, G
<1>5. \A m \in Links :
         /\ Distinct(B[m]) /\ Distinct(G[m])
         /\ Elements(B[m]) = IF m = l THEN Elements(A[l]) \ {h} ELSE Elements(A[m])
         /\ Elements(G[m]) = IF m = l THEN Elements(F[l]) \cup {h} ELSE Elements(F[m])
  <2> SUFFICES ASSUME NEW m \in Links
               PROVE  /\ Distinct(B[m]) /\ Distinct(G[m])
                      /\ Elements(B[m]) = IF m = l THEN Elements(A[l]) \ {h} ELSE Elements(A[m])
                      /\ Elements(G[m]) = IF m = l THEN Elements(F[l]) \cup {h} ELSE Elements(F[m])
    OBVIOUS
  <2>1. CASE m = l
    BY <1>2, <1>3, <1>4, <2>1
  <2>2. CASE m # l
    BY <1>4, <2>2 DEF Accounted, Homes
  <2> QED BY <2>1, <2>2
<1>6. h \in Elements(A[l])
  BY <1>2
<1>7. Homes(Q, B, G)
  <2>1. \A m \in Links : Elements(Q) \cap Elements(B[m]) = {} /\ Elements(Q) \cap Elements(G[m]) = {}
    BY <1>1, <1>5, <1>6 DEF Accounted, Homes
  <2>2. \A m, o \in Links : Elements(B[m]) \cap Elements(G[o]) = {}
    <3> SUFFICES ASSUME NEW m \in Links, NEW o \in Links
                 PROVE  Elements(B[m]) \cap Elements(G[o]) = {}
      OBVIOUS
    <3>1. Elements(A[m]) \cap Elements(F[o]) = {} /\ Elements(B[m]) \subseteq Elements(A[m])
      BY <1>5 DEF Accounted, Homes
    <3>2. Elements(G[o]) \subseteq Elements(F[o]) \cup {h}
      BY <1>5
    <3>3. o = l => h \notin Elements(B[m])
      BY <1>1, <1>5, <1>6 DEF Accounted, Homes
    <3>4. o # l => Elements(G[o]) = Elements(F[o])
      BY <1>5
    <3> QED BY <3>1, <3>2, <3>3, <3>4
  <2>3. \A m, o \in Links : m # o => /\ Elements(B[m]) \cap Elements(B[o]) = {}
                                     /\ Elements(G[m]) \cap Elements(G[o]) = {}
    BY <1>1, <1>5, <1>6 DEF Accounted, Homes
  <2>4. Distinct(Q)
    BY DEF Accounted, Homes
  <2>5. \A m \in Links : Distinct(B[m]) /\ Distinct(G[m])
    BY <1>5
  <2> QED BY <2>1, <2>2, <2>3, <2>4, <2>5 DEF Homes
<1>8. \A m \in Links : Elements(B[m]) \subseteq 1 .. a /\ Elements(G[m]) \subseteq 1 .. a
  <2> SUFFICES ASSUME NEW m \in Links
               PROVE  Elements(B[m]) \subseteq 1 .. a /\ Elements(G[m]) \subseteq 1 .. a
    OBVIOUS
  <2>1. Elements(A[m]) \subseteq 1 .. a /\ Elements(A[l]) \subseteq 1 .. a /\ Elements(F[m]) \subseteq 1 .. a
    BY <1>1 DEF Accounted
  <2>2. Elements(B[m]) \subseteq Elements(A[m]) /\ Elements(G[m]) \subseteq Elements(F[m]) \cup {h}
    BY <1>5
  <2> QED BY <1>6, <2>1, <2>2
<1>9. \A k \in P : /\ \A m \in Links : Carried(k) \cap Elements(B[m]) = {}
                   /\ \A m \in Links : m # k => Carried(k) \cap Elements(G[m]) = {}
  <2> SUFFICES ASSUME NEW k \in P, NEW m \in Links
               PROVE  /\ Carried(k) \cap Elements(B[m]) = {}
                      /\ m # k => Carried(k) \cap Elements(G[m]) = {}
    OBVIOUS
  <2>1. /\ Carried(k) \cap Elements(A[m]) = {} /\ Carried(k) \cap Elements(A[l]) = {}
        /\ m # k => Carried(k) \cap Elements(F[m]) = {}
    BY <1>1 DEF Accounted
  <2>2. Elements(B[m]) \subseteq Elements(A[m]) /\ Elements(G[m]) \subseteq Elements(F[m]) \cup {h}
    BY <1>5
  <2> QED BY <1>6, <2>1, <2>2
<1>10. \A p \in 1 .. a : \/ Arrived(p)
                         \/ p \in Elements(Q)
                         \/ \E m \in P : p \in Elements(B[m]) \/ p \in Elements(G[m])
  BY <1>1, <1>5 DEF Accounted
<1> QED BY <1>4, <1>7, <1>8, <1>9, <1>10 DEF Accounted, B, G, h

\* A removed link returns its packets to the queue.
LEMMA RemovedAccounted ==
    ASSUME NEW P, P \subseteq Links, NEW a, NEW Q, NEW A, NEW F, Accounted(P, a, Q, A, F),
           NEW l \in P
    PROVE  Accounted(P \ {l}, a, Q \o F[l] \o A[l], [A EXCEPT ![l] = <<>>],
                                                    [F EXCEPT ![l] = <<>>])
<1> DEFINE B == [A EXCEPT ![l] = <<>>]
           G == [F EXCEPT ![l] = <<>>]
           T == Q \o F[l] \o A[l]
<1>1. /\ l \in Links /\ Q \in Seq(Packets) /\ A[l] \in Seq(Packets) /\ F[l] \in Seq(Packets)
      /\ Distinct(Q) /\ Distinct(A[l]) /\ Distinct(F[l])
      /\ Elements(A[l]) \cap Elements(F[l]) = {} /\ Elements(Q) \cap Elements(F[l]) = {}
      /\ Elements(Q) \cap Elements(A[l]) = {}
  BY DEF Accounted, Homes
<1>2. /\ Q \o F[l] \in Seq(Packets) /\ Distinct(Q \o F[l])
      /\ Elements(Q \o F[l]) = Elements(Q) \cup Elements(F[l])
  BY <1>1, ConcatElements
<1>3. /\ T \in Seq(Packets) /\ Distinct(T)
      /\ Elements(T) = Elements(Q) \cup Elements(F[l]) \cup Elements(A[l])
  <2> DEFINE s == Q \o F[l]
  <2>1. s \in Seq(Packets) /\ Distinct(s) /\ Elements(s) \cap Elements(A[l]) = {}
    BY <1>1, <1>2
  <2> HIDE DEF s
  <2>2. /\ s \o A[l] \in Seq(Packets) /\ Distinct(s \o A[l])
        /\ Elements(s \o A[l]) = Elements(s) \cup Elements(A[l])
    BY <1>1, <2>1, ConcatElements
  <2> QED BY <1>2, <2>2 DEF s
<1> HIDE DEF T
<1>4. /\ B \in [Links -> Seq(Packets)] /\ G \in [Links -> Seq(Packets)]
      /\ \A m \in Links : B[m] = (IF m = l THEN <<>> ELSE A[m])
                          /\ G[m] = (IF m = l THEN <<>> ELSE F[m])
  BY <1>1, EmptyElements DEF Accounted
<1> HIDE DEF B, G
<1>5. \A m \in Links :
         /\ Distinct(B[m]) /\ Distinct(G[m])
         /\ Elements(B[m]) = IF m = l THEN {} ELSE Elements(A[m])
         /\ Elements(G[m]) = IF m = l THEN {} ELSE Elements(F[m])
  BY <1>4, EmptyElements DEF Accounted, Homes
<1>6. Homes(T, B, G)
  <2>1. \A m \in Links : Elements(T) \cap Elements(B[m]) = {} /\ Elements(T) \cap Elements(G[m]) = {}
    BY <1>1, <1>3, <1>5 DEF Accounted, Homes
  <2>2. \A m, o \in Links : Elements(B[m]) \cap Elements(G[o]) = {}
    BY <1>5 DEF Accounted, Homes
  <2>3. \A m, o \in Links : m # o => /\ Elements(B[m]) \cap Elements(B[o]) = {}
                                     /\ Elements(G[m]) \cap Elements(G[o]) = {}
    BY <1>5, ZenonT(30) DEF Accounted, Homes
  <2> QED BY <1>3, <1>5, <2>1, <2>2, <2>3 DEF Homes
<1>7. /\ Elements(T) \subseteq 1 .. a
      /\ \A m \in Links : Elements(B[m]) \subseteq 1 .. a /\ Elements(G[m]) \subseteq 1 .. a
  BY <1>1, <1>3, <1>5 DEF Accounted
<1>8. \A k \in P \ {l} :
         /\ Carried(k) \cap Elements(T) = {}
         /\ \A m \in Links : Carried(k) \cap Elements(B[m]) = {}
         /\ \A m \in Links : m # k => Carried(k) \cap Elements(G[m]) = {}
  <2> SUFFICES ASSUME NEW k \in P \ {l}
               PROVE  /\ Carried(k) \cap Elements(T) = {}
                      /\ \A m \in Links : Carried(k) \cap Elements(B[m]) = {}
                      /\ \A m \in Links : m # k => Carried(k) \cap Elements(G[m]) = {}
    OBVIOUS
  <2>1. /\ Carried(k) \cap Elements(Q) = {}
        /\ \A m \in Links : Carried(k) \cap Elements(A[m]) = {}
        /\ \A m \in Links : m # k => Carried(k) \cap Elements(F[m]) = {}
    BY DEF Accounted
  <2>2. Carried(k) \cap Elements(T) = {}
    BY <1>1, <1>3, <2>1
  <2>3. \A m \in Links : /\ Elements(B[m]) \subseteq Elements(A[m])
                         /\ Elements(G[m]) \subseteq Elements(F[m])
    BY <1>5
  <2> QED BY <2>1, <2>2, <2>3
<1>9. \A p \in 1 .. a : \/ Arrived(p)
                        \/ p \in Elements(T)
                        \/ \E m \in P \ {l} : p \in Elements(B[m]) \/ p \in Elements(G[m])
  BY <1>3, <1>5 DEF Accounted
<1> QED BY <1>3, <1>4, <1>6, <1>7, <1>8, <1>9 DEF Accounted, T, B, G

-----------------------------------------------------------------------------
(* The inductive invariant.                                                *)

Inv == MultilinkInv /\ NoLoss

\* The same, with what concerns the places of packets put together.
Balance ==
    /\ TypeOK
    /\ Accounted(Present, accepted, queue, assigned, in_flight)
    /\ \A l \in Links : /\ Carried(l) \subseteq 1 .. accepted
                        /\ status[l] = "absent" => Carried(l) = {}
    /\ \A l, m \in Present : l # m => Carried(l) \cap Carried(m) = {}
    /\ BufferedInFlight

\* OneHome in terms of elements.
LEMMA OneHomeHomes == TypeOK => (OneHome <=> Homes(queue, assigned, in_flight))
<1> SUFFICES ASSUME TypeOK PROVE OneHome <=> Homes(queue, assigned, in_flight)
  OBVIOUS
<1> DEFINE qh == <<"queue">>
           ah(l) == <<"assigned", l>>
           fh(l) == <<"in_flight", l>>
<1>1. /\ qh \in Holders /\ \A l \in Links : ah(l) \in Holders /\ fh(l) \in Holders
      /\ \A h \in Holders : h = qh \/ \E l \in Links : h = ah(l) \/ h = fh(l)
  BY DEF Holders
<1>2. /\ \A l \in Links : qh # ah(l) /\ qh # fh(l)
      /\ \A l, m \in Links : ah(l) # fh(m) /\ (ah(l) = ah(m) => l = m) /\ (fh(l) = fh(m) => l = m)
  OBVIOUS
<1>3. /\ Held(qh) = queue
      /\ \A l \in Links : Held(ah(l)) = assigned[l] /\ Held(fh(l)) = in_flight[l]
  BY DEF Held
<1>4. /\ queue \in Seq(Packets)
      /\ \A l \in Links : assigned[l] \in Seq(Packets) /\ in_flight[l] \in Seq(Packets)
  BY DEF TypeOK
<1>5. \A h \in Holders : Held(h) \in Seq(Packets)
  BY <1>1, <1>3, <1>4
<1>6. \A h \in Holders : /\ DOMAIN Held(h) = 1 .. Len(Held(h))
                         /\ Elements(Held(h)) = {Held(h)[i] : i \in 1 .. Len(Held(h))}
  BY <1>5, ElementsOf
<1> HIDE DEF qh, ah, fh
<1>7. OneHome <=> /\ \A h \in Holders : Distinct(Held(h))
                  /\ \A h, k \in Holders : h # k => Elements(Held(h)) \cap Elements(Held(k)) = {}
  <2>1. ASSUME OneHome
        PROVE  /\ \A h \in Holders : Distinct(Held(h))
               /\ \A h, k \in Holders : h # k => Elements(Held(h)) \cap Elements(Held(k)) = {}
    <3>1. \A h \in Holders : Distinct(Held(h))
      BY <1>6, <2>1 DEF OneHome, Distinct
    <3>2. \A h, k \in Holders : h # k => Elements(Held(h)) \cap Elements(Held(k)) = {}
      BY <1>6, <2>1 DEF OneHome
    <3> QED BY <3>1, <3>2
  <2>2. ASSUME \A h \in Holders : Distinct(Held(h)),
               \A h, k \in Holders : h # k => Elements(Held(h)) \cap Elements(Held(k)) = {}
        PROVE  OneHome
    <3> SUFFICES ASSUME NEW h \in Holders, NEW k \in Holders, NEW i \in DOMAIN Held(h),
                        NEW j \in DOMAIN Held(k), Held(h)[i] = Held(k)[j]
                 PROVE  h = k /\ i = j
      BY DEF OneHome
    <3>1. Held(h)[i] \in Elements(Held(h)) /\ Held(k)[j] \in Elements(Held(k))
      BY <1>6
    <3>2. h = k
      BY <2>2, <3>1
    <3>3. i = j
      BY <1>6, <2>2, <3>2 DEF Distinct
    <3> QED BY <3>2, <3>3
  <2> QED BY <2>1, <2>2
<1>8. (\A h \in Holders : Distinct(Held(h))) <=>
        Distinct(queue) /\ \A l \in Links : Distinct(assigned[l]) /\ Distinct(in_flight[l])
  BY <1>1, <1>3
<1>9. (\A h, k \in Holders : h # k => Elements(Held(h)) \cap Elements(Held(k)) = {}) <=>
        /\ \A l \in Links : /\ Elements(queue) \cap Elements(assigned[l]) = {}
                            /\ Elements(queue) \cap Elements(in_flight[l]) = {}
        /\ \A l, m \in Links :
              /\ Elements(assigned[l]) \cap Elements(in_flight[m]) = {}
              /\ l # m => Elements(assigned[l]) \cap Elements(assigned[m]) = {}
              /\ l # m => Elements(in_flight[l]) \cap Elements(in_flight[m]) = {}
  <2> DEFINE apart(h, k) == Elements(Held(h)) \cap Elements(Held(k)) = {}
  <2>1. /\ \A l \in Links : /\ apart(qh, ah(l)) <=> Elements(queue) \cap Elements(assigned[l]) = {}
                            /\ apart(qh, fh(l)) <=> Elements(queue) \cap Elements(in_flight[l]) = {}
        /\ \A l, m \in Links :
              /\ apart(ah(l), fh(m)) <=> Elements(assigned[l]) \cap Elements(in_flight[m]) = {}
              /\ apart(ah(l), ah(m)) <=> Elements(assigned[l]) \cap Elements(assigned[m]) = {}
              /\ apart(fh(l), fh(m)) <=> Elements(in_flight[l]) \cap Elements(in_flight[m]) = {}
    BY <1>3
  <2>2. \A h, k : apart(h, k) <=> apart(k, h)
    OBVIOUS
  <2> HIDE DEF apart
  <2>3. (\A h, k \in Holders : h # k => apart(h, k)) <=>
          /\ \A l \in Links : apart(qh, ah(l)) /\ apart(qh, fh(l))
          /\ \A l, m \in Links : /\ apart(ah(l), fh(m))
                                 /\ l # m => apart(ah(l), ah(m))
                                 /\ l # m => apart(fh(l), fh(m))
    BY <1>1, <1>2, <2>2
  <2>4. (\A h, k \in Holders : h # k => apart(h, k)) <=>
          /\ \A l \in Links : /\ Elements(queue) \cap Elements(assigned[l]) = {}
                              /\ Elements(queue) \cap Elements(in_flight[l]) = {}
          /\ \A l, m \in Links :
                /\ Elements(assigned[l]) \cap Elements(in_flight[m]) = {}
                /\ l # m => Elements(assigned[l]) \cap Elements(assigned[m]) = {}
                /\ l # m => Elements(in_flight[l]) \cap Elements(in_flight[m]) = {}
    BY <2>1, <2>3
  <2> QED BY <2>4, Zenon DEF apart
<1> QED BY <1>7, <1>8, <1>9 DEF Homes

LEMMA InvBalance == Inv <=> Balance
<1>1. ASSUME TypeOK
      PROVE  /\ OneHome <=> Homes(queue, assigned, in_flight)
             /\ accepted \in 0 .. MaxPackets /\ queue \in Seq(Packets)
             /\ assigned \in [Links -> Seq(Packets)] /\ in_flight \in [Links -> Seq(Packets)]
  BY <1>1, OneHomeHomes DEF TypeOK
<1>2. ASSUME TypeOK
      PROVE  NoLoss <=> \A p \in 1 .. accepted :
                \/ Arrived(p)
                \/ p \in Elements(queue)
                \/ \E l \in Present : p \in Elements(assigned[l]) \/ p \in Elements(in_flight[l])
  BY DEF NoLoss, Kept
<1>3. Present \subseteq Links
  BY DEF Present
<1>4. ASSUME Inv PROVE Balance
  <2>1. TypeOK /\ OneHome /\ Numbered /\ CarriedOnce /\ BufferedInFlight /\ NoLoss
    BY <1>4 DEF Inv, MultilinkInv
  <2>2. Accounted(Present, accepted, queue, assigned, in_flight)
    BY <1>1, <1>2, <1>3, <2>1 DEF Accounted, Numbered, CarriedOnce
  <2> QED BY <1>3, <2>1, <2>2 DEF Balance, Numbered, CarriedOnce
<1>5. ASSUME Balance PROVE Inv
  <2>1. TypeOK /\ BufferedInFlight /\ Accounted(Present, accepted, queue, assigned, in_flight)
    BY <1>5 DEF Balance
  <2>2. OneHome /\ NoLoss
    BY <1>1, <1>2, <2>1 DEF Accounted
  <2>3. Numbered
    BY <1>5, <2>1 DEF Balance, Accounted, Numbered
  <2>4. CarriedOnce
    BY <1>3, <1>5, <2>1 DEF Balance, Accounted, CarriedOnce
  <2> QED BY <2>1, <2>2, <2>3, <2>4 DEF Inv, MultilinkInv
<1> QED BY <1>4, <1>5

LEMMA InitBalance == Init => Balance
<1> SUFFICES ASSUME Init PROVE Balance
  OBVIOUS
<1>1. TypeOK
  <2>1. <<>> \in Seq(Packets) /\ <<>> \in Seq(Links) /\ 0 \in 0 .. MaxPackets
    BY MultilinkAssumption
  <2> QED BY <2>1 DEF Init, TypeOK
<1>2. Present = {} /\ 1 .. accepted = {}
  BY DEF Init, Present
<1>3. \A l \in Links : Carried(l) = {}
  BY EmptyElements DEF Init, Carried
<1>4. Homes(queue, assigned, in_flight)
  BY EmptyElements DEF Init, Homes
<1>5. Accounted(Present, accepted, queue, assigned, in_flight)
  BY <1>1, <1>2, <1>4, EmptyElements DEF Accounted, TypeOK, Init
<1>6. BufferedInFlight
  BY DEF Init, BufferedInFlight
<1> QED BY <1>1, <1>2, <1>3, <1>5, <1>6 DEF Balance

-----------------------------------------------------------------------------
(* Every step keeps it.                                                    *)

\* What went out over the links is the same: the new places of the packets
\* decide.
LEMMA SameCarried ==
    ASSUME Balance, TypeOK', UNCHANGED <<wire, received>>,
           Accounted(Present', accepted', queue', assigned', in_flight'),
           Present' \subseteq Present, accepted' >= accepted,
           \A l \in Links : status'[l] = "absent" => status[l] = "absent",
           BufferedInFlight'
    PROVE  Balance'
<1>1. \A l : Carried(l)' = Carried(l)
  BY DEF Carried
<1>2. \A x : Arrived(x)' = Arrived(x)
  BY DEF Arrived
<1>3. Accounted(Present, accepted, queue, assigned, in_flight)'
  BY <1>1, <1>2 DEF Accounted, Homes
<1>4. 1 .. accepted \subseteq 1 .. accepted'
  <2>1. accepted \in Int /\ accepted' \in Int
    BY MultilinkAssumption DEF Balance, TypeOK
  <2> QED BY <2>1
<1>5. \A l \in Links : /\ Carried(l)' \subseteq 1 .. accepted'
                       /\ status'[l] = "absent" => Carried(l)' = {}
  BY <1>1, <1>4 DEF Balance
<1>6. \A l, m \in Present' : l # m => Carried(l)' \cap Carried(m)' = {}
  BY <1>1 DEF Balance
<1> QED BY <1>3, <1>5, <1>6 DEF Balance

\* A step that moves no packet, and puts none into a send buffer.
LEMMA SamePlaces ==
    ASSUME Balance, TypeOK',
           UNCHANGED <<queue, accepted, assigned, in_flight, wire, received>>,
           Present' = Present,
           \A l \in Links : status'[l] = "absent" => status[l] = "absent",
           \A l \in Links : status[l] = "removed" => status'[l] = "removed",
           \A l \in Links : sendbuf'[l] = "data" => sendbuf[l] = "data"
    PROVE  Balance'
<1>1. Accounted(Present', accepted', queue', assigned', in_flight')
  BY DEF Balance
<1>2. BufferedInFlight'
  <2>1. \A l : Carried(l)' = Carried(l)
    BY DEF Carried
  <2> QED BY <2>1 DEF Balance, BufferedInFlight
<1>3. accepted' >= accepted /\ Present' \subseteq Present
  <2>1. accepted \in Int
    BY MultilinkAssumption DEF Balance, TypeOK
  <2> QED BY <2>1
<1> QED BY <1>1, <1>2, <1>3, SameCarried

LEMMA SameStatus ==
    ASSUME UNCHANGED status
    PROVE  /\ Present' = Present
           /\ \A l \in Links : status'[l] = "absent" => status[l] = "absent"
           /\ \A l \in Links : status[l] = "removed" => status'[l] = "removed"
BY DEF Present

LEMMA IdleStepBalance ==
    ASSUME Balance,
           \/ SomeLinkSendReady
           \/ \E l \in Links : ScheduledReady(l) \/ ScheduledEdge(l) \/ SendAux(l) \/ BufferbloatCheck(l)
    PROVE  Balance'
<1>1. CASE SomeLinkSendReady
  <2>1. running' \in Seq(Links)
    <3>1. Present \subseteq Links /\ IsFiniteSet(Links)
      BY MultilinkAssumption DEF Present
    <3>2. IsFiniteSet(Present)
      BY <3>1, FS_Subset
    <3>3. Cardinality(Present) \in Nat
      BY <3>2, FS_CardinalityType
    <3>4. running' \in [1 .. Cardinality(Present) -> Links]
      BY <1>1, <3>1 DEF SomeLinkSendReady, Orders
    <3> QED BY <3>3, <3>4
  <2>2. TypeOK'
    BY <1>1, <2>1 DEF SomeLinkSendReady, Balance, TypeOK, linkVars, netVars
  <2> QED BY <1>1, <2>2, SamePlaces, SameStatus DEF SomeLinkSendReady, linkVars, netVars
<1>2. ASSUME NEW l \in Links, ScheduledReady(l) PROVE Balance'
  <2>1. <<>> \in Seq(Links) /\ <<l>> \in Seq(Links)
    OBVIOUS
  <2>2. running' \in Seq(Links) /\ crashed' \in BOOLEAN
    BY <1>2, <2>1 DEF ScheduledReady
  <2>3. TypeOK'
    BY <1>2, <2>2 DEF ScheduledReady, Balance, TypeOK, linkVars, netVars
  <2> QED BY <1>2, <2>3, SamePlaces, SameStatus DEF ScheduledReady, linkVars, netVars
<1>3. ASSUME NEW l \in Links, ScheduledEdge(l) PROVE Balance'
  <2>1. <<>> \in Seq(Links) /\ <<l>> \in Seq(Links)
    OBVIOUS
  <2>2. running' \in Seq(Links) /\ crashed' \in BOOLEAN
    BY <1>3, <2>1 DEF ScheduledEdge
  <2>3. TypeOK'
    BY <1>3, <2>2 DEF ScheduledEdge, Balance, TypeOK, linkVars, netVars
  <2> QED BY <1>3, <2>3, SamePlaces, SameStatus DEF ScheduledEdge, linkVars, netVars
<1>4. ASSUME NEW l \in Links, SendAux(l) PROVE Balance'
  <2>1. sendbuf' \in [Links -> {"empty", "data", "aux"}]
    BY <1>4 DEF SendAux, Balance, TypeOK
  <2>2. TypeOK'
    BY <1>4, <2>1 DEF SendAux, Balance, TypeOK, netVars
  <2>3. \A m \in Links : sendbuf'[m] = "data" => sendbuf[m] = "data"
    BY <1>4 DEF SendAux, Balance, TypeOK
  <2> QED BY <1>4, <2>2, <2>3, SamePlaces, SameStatus DEF SendAux, netVars
<1>5. ASSUME NEW l \in Links, BufferbloatCheck(l) PROVE Balance'
  <2>1. bloat' \in [Links -> BOOLEAN]
    BY <1>5 DEF BufferbloatCheck, Balance, TypeOK
  <2>2. scheduled' \subseteq Callbacks
    BY <1>5 DEF BufferbloatCheck, Balance, TypeOK, Callbacks
  <2>3. TypeOK'
    BY <1>5, <2>1, <2>2 DEF BufferbloatCheck, Balance, TypeOK, netVars
  <2> QED BY <1>5, <2>3, SamePlaces, SameStatus DEF BufferbloatCheck, netVars
<1> QED BY <1>1, <1>2, <1>3, <1>4, <1>5

LEMMA MaybeRetransmitBalance ==
    ASSUME Balance, NEW l \in Links, MaybeRetransmit(l)
    PROVE  Balance'
<1>1. \A m \in Links : status'[m] = IF m = l THEN "timed_out" ELSE status[m]
  BY DEF MaybeRetransmit, Balance, TypeOK
<1>2. status[l] = "up"
  BY DEF MaybeRetransmit
<1>3. /\ Present' = Present
      /\ \A m \in Links : /\ status'[m] = "absent" => status[m] = "absent"
                          /\ status[m] = "removed" => status'[m] = "removed"
  BY <1>1, <1>2 DEF Present
<1>4. scheduled' \subseteq Callbacks
  BY DEF MaybeRetransmit, Balance, TypeOK, Callbacks
<1>5. TypeOK'
  BY <1>4 DEF MaybeRetransmit, Balance, TypeOK, netVars
<1> QED BY <1>3, <1>5, SamePlaces DEF MaybeRetransmit, netVars

LEMMA AddLinkBalance ==
    ASSUME Balance, NEW l \in Links, AddLink(l)
    PROVE  Balance'
<1>1. /\ \A m \in Links : status'[m] = IF m = l THEN "up" ELSE status[m]
      /\ UNCHANGED <<queue, accepted, assigned, in_flight, sendbuf, wire, received>>
  BY DEF AddLink, Balance, TypeOK, netVars
<1>2. Present' = Present \cup {l}
  BY <1>1 DEF Present
<1>3. \A m : Carried(m)' = Carried(m)
  BY <1>1 DEF Carried
<1>4. Carried(l) = {}
  BY DEF AddLink, Balance
<1>5. \A x : Arrived(x)' = Arrived(x)
  BY <1>1 DEF Arrived
<1>6. scheduled' \subseteq Callbacks
  BY DEF AddLink, Balance, TypeOK, Callbacks
<1>7. TypeOK'
  BY <1>6 DEF AddLink, Balance, TypeOK, netVars
<1>8. Accounted(Present, accepted, queue, assigned, in_flight)'
  BY <1>1, <1>2, <1>3, <1>4, <1>5 DEF Balance, Accounted, Homes
<1>9. BufferedInFlight'
  <2>1. \A m \in Links : status'[m] # "removed" => status[m] # "removed"
    BY <1>1 DEF AddLink
  <2> QED BY <1>1, <1>3, <2>1 DEF Balance, BufferedInFlight
<1> QED BY <1>1, <1>2, <1>3, <1>4, <1>7, <1>8, <1>9 DEF Balance

LEMMA SendWithOffsetBalance ==
    ASSUME Balance, SendWithOffset
    PROVE  Balance'
<1>1. /\ 1 \in Room /\ queue' = queue \o Fresh(1) /\ accepted' = accepted + 1
      /\ UNCHANGED <<status, assigned, in_flight, sendbuf, wire, received>>
  BY DEF SendWithOffset, linkVars, netVars
<1>2. accepted \in Int /\ 1 \in 0 .. MaxPackets - accepted
  BY <1>1, MultilinkAssumption DEF Room, Balance, TypeOK
<1>3. Accounted(Present, accepted + 1, queue \o Fresh(1), assigned, in_flight)
  <2>1. Present \subseteq Links
    BY DEF Present
  <2> QED BY <1>2, <2>1, FreshAccounted DEF Balance
<1>4. Present' = Present /\ \A l \in Links : status'[l] = "absent" => status[l] = "absent"
  BY <1>1, SameStatus
<1>5. Accounted(Present', accepted', queue', assigned', in_flight')
  BY <1>1, <1>3, <1>4
<1>6. accepted' \in 0 .. MaxPackets /\ queue' \in Seq(Packets)
  BY <1>1, <1>3 DEF Accounted
<1>7. scheduled' \subseteq Callbacks
  BY DEF SendWithOffset, Wakeup, Balance, TypeOK, Callbacks
<1>8. TypeOK'
  BY <1>6, <1>7 DEF SendWithOffset, Balance, TypeOK, linkVars, netVars
<1>9. BufferedInFlight'
  BY <1>1 DEF Balance, BufferedInFlight, Carried
<1> QED BY <1>1, <1>2, <1>4, <1>5, <1>8, <1>9, SameCarried

LEMMA RemoveLinkBalance ==
    ASSUME Balance, NEW l \in Links, status[l] = "timed_out", running # <<>>, RemoveLink(l)
    PROVE  Balance'
<1>1. /\ queue' = queue \o in_flight[l] \o assigned[l]
      /\ assigned' = [assigned EXCEPT ![l] = <<>>] /\ in_flight' = [in_flight EXCEPT ![l] = <<>>]
      /\ UNCHANGED <<accepted, sendbuf, wire, received>>
      /\ \A m \in Links : status'[m] = IF m = l THEN "removed" ELSE status[m]
  BY DEF RemoveLink, netVars, Balance, TypeOK
<1>2. l \in Present /\ Present \subseteq Links /\ Present' = Present \ {l}
  BY <1>1 DEF Present
<1>3. Accounted(Present \ {l}, accepted, queue \o in_flight[l] \o assigned[l],
                [assigned EXCEPT ![l] = <<>>], [in_flight EXCEPT ![l] = <<>>])
  BY <1>2, RemovedAccounted DEF Balance
<1>4. Accounted(Present', accepted', queue', assigned', in_flight')
  BY <1>1, <1>2, <1>3
<1>5. /\ queue' \in Seq(Packets) /\ assigned' \in [Links -> Seq(Packets)]
      /\ in_flight' \in [Links -> Seq(Packets)]
  BY <1>4 DEF Accounted
<1>6. scheduled' \subseteq Callbacks /\ running' \in Seq(Links)
  <2>1. scheduled' \subseteq Callbacks
    BY DEF RemoveLink, Balance, TypeOK, Callbacks
  <2>2. running \in Seq(Links) /\ running' = Tail(running)
    BY DEF RemoveLink, Balance, TypeOK
  <2> QED BY <2>1, <2>2
<1>7. TypeOK'
  BY <1>5, <1>6 DEF RemoveLink, Balance, TypeOK, netVars
<1>8. BufferedInFlight'
  BY <1>1 DEF Balance, BufferedInFlight, Carried, TypeOK
<1>9. accepted' >= accepted
  BY <1>1, MultilinkAssumption DEF Balance, TypeOK
<1> QED BY <1>1, <1>2, <1>4, <1>7, <1>8, <1>9, SameCarried

\* assign_links_until gives away at most the whole queue.
LEMMA AssignmentSize ==
    ASSUME NEW l, NEW q \in Seq(Packets), NEW owner \in Assignments(l, q)
    PROVE  \E k \in 0 .. Len(q) : owner \in [1 .. k -> Present]
<1> DEFINE k == IF assigned[l] = <<>> THEN Len(q) - DrainTo(q) ELSE 0
<1>1. Len(q) \in Nat
  OBVIOUS
<1>2. DrainTo(q) \in 0 .. Len(q)
  BY <1>1 DEF DrainTo
<1>3. k \in 0 .. Len(q)
  BY <1>1, <1>2
<1>4. owner \in [1 .. k -> Present]
  BY DEF Assignments
<1> QED BY <1>3, <1>4

LEMMA SendIterationBalance ==
    ASSUME Balance, NEW l \in Links, status[l] = "up", running # <<>>, SendIteration(l)
    PROVE  Balance'
<1>1. PICK n \in Asked :
        LET q == queue \o Fresh(n)
        IN  /\ accepted' = accepted + n
            /\ scheduled' = scheduled \cup Wakeup(n)
            /\ \E owner \in Assignments(l, q) :
                 LET now == [m \in Links |-> assigned[m] \o Share(q, owner, m)]
                 IN  /\ queue' = Rest(q, owner)
                     /\ \/ /\ now[l] # <<>> /\ Accepts(l)
                           /\ assigned' = [now EXCEPT ![l] = Tail(@)]
                           /\ in_flight' = [in_flight EXCEPT ![l] = Append(@, Head(now[l]))]
                           /\ sendbuf' = [sendbuf EXCEPT ![l] = "data"]
                           /\ UNCHANGED running
                        \/ /\ now[l] = <<>> \/ ~Accepts(l)
                           /\ assigned' = now
                           /\ running' = Tail(running)
                           /\ UNCHANGED <<in_flight, sendbuf>>
            /\ UNCHANGED <<status, bloat, netVars, crashed>>
  BY DEF SendIteration
<1> DEFINE q == queue \o Fresh(n)
           a == accepted + n
<1>2. PICK owner \in Assignments(l, q) :
        LET now == [m \in Links |-> assigned[m] \o Share(q, owner, m)]
        IN  /\ queue' = Rest(q, owner)
            /\ \/ /\ now[l] # <<>> /\ Accepts(l)
                  /\ assigned' = [now EXCEPT ![l] = Tail(@)]
                  /\ in_flight' = [in_flight EXCEPT ![l] = Append(@, Head(now[l]))]
                  /\ sendbuf' = [sendbuf EXCEPT ![l] = "data"]
                  /\ UNCHANGED running
               \/ /\ now[l] = <<>> \/ ~Accepts(l)
                  /\ assigned' = now
                  /\ running' = Tail(running)
                  /\ UNCHANGED <<in_flight, sendbuf>>
  BY <1>1
<1>3. /\ accepted' = a /\ scheduled' = scheduled \cup Wakeup(n)
      /\ UNCHANGED <<status, bloat, broken, wire, received, crashed>>
  BY <1>1 DEF netVars
<1> DEFINE now == [m \in Links |-> assigned[m] \o Share(q, owner, m)]
<1>4. accepted \in Int /\ MaxPackets \in Int /\ n \in 0 .. MaxPackets - accepted
  BY MultilinkAssumption DEF Asked, Room, Balance, TypeOK
<1>5. Present \subseteq Links /\ l \in Present
  BY DEF Present
<1>6. Accounted(Present, a, q, assigned, in_flight)
  BY <1>4, <1>5, FreshAccounted DEF Balance
<1>7. Accounted(Present, a, Rest(q, owner), now, in_flight)
  <2>1. q \in Seq(Packets)
    BY <1>6 DEF Accounted
  <2> HIDE DEF q, a
  <2>2. PICK k \in 0 .. Len(q) : owner \in [1 .. k -> Present]
    BY <2>1, AssignmentSize
  <2> QED BY <1>5, <1>6, <2>2, AssignedAccounted
<1>8. \/ /\ now[l] # <<>> /\ Accepts(l)
         /\ assigned' = [now EXCEPT ![l] = Tail(@)]
         /\ in_flight' = [in_flight EXCEPT ![l] = Append(@, Head(now[l]))]
         /\ sendbuf' = [sendbuf EXCEPT ![l] = "data"]
         /\ UNCHANGED running
      \/ /\ assigned' = now
         /\ running' = Tail(running)
         /\ UNCHANGED <<in_flight, sendbuf>>
  BY <1>2
<1>9. queue' = Rest(q, owner)
  BY <1>2
<1> HIDE DEF now, q, a
<1>10. Present' = Present /\ \A m \in Links : status'[m] = "absent" => status[m] = "absent"
  BY <1>3, SameStatus
<1>11. \A m : Carried(m)' = Carried(m)
  BY <1>3 DEF Carried
<1>12. scheduled' \subseteq Callbacks
  BY <1>3 DEF Wakeup, Balance, TypeOK, Callbacks
<1>13. accepted' >= accepted
  BY <1>3, <1>4 DEF a
<1>14. CASE /\ now[l] # <<>> /\ Accepts(l)
            /\ assigned' = [now EXCEPT ![l] = Tail(@)]
            /\ in_flight' = [in_flight EXCEPT ![l] = Append(@, Head(now[l]))]
            /\ sendbuf' = [sendbuf EXCEPT ![l] = "data"]
            /\ UNCHANGED running
  <2>1. Accounted(Present', accepted', queue', assigned', in_flight')
    <3>1. Accounted(Present, a, Rest(q, owner), [now EXCEPT ![l] = Tail(@)],
                    [in_flight EXCEPT ![l] = Append(@, Head(now[l]))])
      BY <1>5, <1>7, <1>14, SentAccounted
    <3> QED BY <1>3, <1>9, <1>10, <1>14, <3>1
  <2>2. /\ now[l] \in Seq(Packets) /\ in_flight[l] \in Seq(Packets)
        /\ Carried(l) \cap Elements(now[l]) = {}
    BY <1>5, <1>7 DEF Accounted
  <2>3. Head(now[l]) \in Elements(now[l]) /\ Head(now[l]) \in Packets
    BY <1>14, <2>2, TailElements
  <2>4. /\ in_flight'[l] = Append(in_flight[l], Head(now[l]))
        /\ sendbuf' \in [Links -> {"empty", "data", "aux"}]
        /\ \A m \in Links : m # l => in_flight'[m] = in_flight[m] /\ sendbuf'[m] = sendbuf[m]
    BY <1>14 DEF Balance, TypeOK
  <2>5. /\ in_flight'[l] # <<>> /\ in_flight'[l][Len(in_flight'[l])] = Head(now[l])
    <3> DEFINE s == in_flight[l]
               x == Head(now[l])
    <3>1. s \in Seq(Packets) /\ x \in Packets /\ in_flight'[l] = Append(s, x)
      BY <2>2, <2>3, <2>4
    <3> HIDE DEF s, x
    <3>2. Append(s, x) # <<>> /\ Append(s, x)[Len(Append(s, x))] = x
      BY <3>1, AppendElements
    <3> QED BY <3>1, <3>2 DEF x
  <2>6. BufferedInFlight'
    <3> SUFFICES ASSUME NEW m \in Links, status'[m] # "removed", sendbuf'[m] = "data"
                 PROVE  /\ in_flight'[m] # <<>>
                        /\ in_flight'[m][Len(in_flight'[m])] \notin Carried(m)'
      BY DEF BufferedInFlight
    <3>1. CASE m = l
      BY <1>11, <2>2, <2>3, <2>5, <3>1
    <3>2. CASE m # l
      BY <1>3, <1>11, <2>4, <3>2 DEF Balance, BufferedInFlight
    <3> QED BY <3>1, <3>2
  <2>7. TypeOK'
    <3>1. /\ accepted' \in 0 .. MaxPackets /\ queue' \in Seq(Packets)
          /\ assigned' \in [Links -> Seq(Packets)] /\ in_flight' \in [Links -> Seq(Packets)]
      BY <2>1 DEF Accounted
    <3> QED BY <1>3, <1>12, <1>14, <2>4, <3>1 DEF Balance, TypeOK
  <2> QED BY <1>3, <1>10, <1>13, <2>1, <2>6, <2>7, SameCarried
<1>15. CASE /\ assigned' = now
            /\ running' = Tail(running)
            /\ UNCHANGED <<in_flight, sendbuf>>
  <2>1. Accounted(Present', accepted', queue', assigned', in_flight')
    BY <1>3, <1>7, <1>9, <1>10, <1>15
  <2>2. BufferedInFlight'
    BY <1>3, <1>11, <1>15 DEF Balance, BufferedInFlight
  <2>3. running' \in Seq(Links)
    BY <1>15 DEF Balance, TypeOK
  <2>4. TypeOK'
    <3>1. /\ accepted' \in 0 .. MaxPackets /\ queue' \in Seq(Packets)
          /\ assigned' \in [Links -> Seq(Packets)] /\ in_flight' \in [Links -> Seq(Packets)]
      BY <2>1 DEF Accounted
    <3> QED BY <1>3, <1>12, <1>15, <2>3, <3>1 DEF Balance, TypeOK
  <2> QED BY <1>3, <1>10, <1>13, <2>1, <2>2, <2>4, SameCarried
<1> QED BY <1>8, <1>14, <1>15

LEMMA TransportWriteReadyBalance ==
    ASSUME Balance, NEW l \in Links, TransportWriteReady(l)
    PROVE  Balance'
<1> DEFINE last == in_flight[l][Len(in_flight[l])]
<1>1. /\ status[l] = "up" /\ sendbuf' = [sendbuf EXCEPT ![l] = "empty"]
      /\ wire' = [wire EXCEPT ![l] = IF sendbuf[l] = "data" THEN Append(wire[l], last) ELSE wire[l]]
      /\ UNCHANGED <<queue, accepted, status, assigned, in_flight, bloat, broken, received,
                     running, crashed>>
  BY DEF TransportWriteReady, Balance, TypeOK
<1>2. scheduled' \subseteq Callbacks
  BY DEF TransportWriteReady, Balance, TypeOK, Callbacks
<1>3. /\ sendbuf' \in [Links -> {"empty", "data", "aux"}]
      /\ \A m \in Links : sendbuf'[m] = IF m = l THEN "empty" ELSE sendbuf[m]
  BY <1>1 DEF Balance, TypeOK
<1>4. CASE sendbuf[l] # "data"
  <2>1. UNCHANGED wire
    BY <1>1, <1>4 DEF Balance, TypeOK
  <2>2. TypeOK'
    BY <1>1, <1>2, <1>3, <2>1 DEF Balance, TypeOK
  <2>3. \A m \in Links : sendbuf'[m] = "data" => sendbuf[m] = "data"
    BY <1>3
  <2> QED BY <1>1, <2>1, <2>2, <2>3, SamePlaces, SameStatus
<1>5. CASE sendbuf[l] = "data"
  <2>1. in_flight[l] \in Seq(Packets) /\ wire[l] \in Seq(Packets) /\ in_flight[l] # <<>>
    BY <1>1, <1>5 DEF Balance, TypeOK, BufferedInFlight
  <2>2. Len(in_flight[l]) \in 1 .. Len(in_flight[l])
    BY <2>1
  <2>3. last \in Packets /\ last \in Elements(in_flight[l])
    BY <2>1, <2>2, ElementsOf
  <2> HIDE DEF last
  <2>4. /\ wire' \in [Links -> Seq(Packets)]
        /\ \A m \in Links : wire'[m] = IF m = l THEN Append(wire[l], last) ELSE wire[m]
    <3>1. Append(wire[l], last) \in Seq(Packets)
      BY <2>1, <2>3
    <3> QED BY <1>1, <1>5, <3>1 DEF Balance, TypeOK
  <2>5. TypeOK'
    BY <1>1, <1>2, <1>3, <2>4 DEF Balance, TypeOK
  <2>6. \A m \in Links : Carried(m)' = IF m = l THEN Carried(l) \cup {last} ELSE Carried(m)
    <3>1. Elements(Append(wire[l], last)) = Elements(wire[l]) \cup {last}
      BY <2>1, <2>3, AppendElements
    <3> QED BY <1>1, <2>4, <3>1 DEF Carried
  <2>7. Present' = Present /\ Present \subseteq Links /\ l \in Present
    BY <1>1 DEF Present
  <2>8. \A x : Arrived(x)' = Arrived(x)
    BY <1>1 DEF Arrived
  <2>9. /\ last \in 1 .. accepted /\ last \notin Elements(queue)
        /\ \A m \in Links : last \notin Elements(assigned[m])
        /\ \A m \in Links : m # l => last \notin Elements(in_flight[m])
        /\ \A m \in Present : m # l => last \notin Carried(m)
    BY <2>3, <2>7 DEF Balance, Accounted, Homes
  <2>10. Accounted(Present, accepted, queue, assigned, in_flight)'
    <3>1. \A m \in Present :
             /\ Carried(m)' \cap Elements(queue) = {}
             /\ \A o \in Links : Carried(m)' \cap Elements(assigned[o]) = {}
             /\ \A o \in Links : o # m => Carried(m)' \cap Elements(in_flight[o]) = {}
      <4> SUFFICES ASSUME NEW m \in Present
                   PROVE  /\ Carried(m)' \cap Elements(queue) = {}
                          /\ \A o \in Links : Carried(m)' \cap Elements(assigned[o]) = {}
                          /\ \A o \in Links : o # m => Carried(m)' \cap Elements(in_flight[o]) = {}
        OBVIOUS
      <4>1. /\ Carried(m) \cap Elements(queue) = {}
            /\ \A o \in Links : Carried(m) \cap Elements(assigned[o]) = {}
            /\ \A o \in Links : o # m => Carried(m) \cap Elements(in_flight[o]) = {}
        BY DEF Balance, Accounted
      <4>2. Carried(m)' \subseteq Carried(m) \cup {last} /\ (m # l => Carried(m)' = Carried(m))
        BY <2>6, <2>7
      <4> QED BY <2>9, <4>1, <4>2
    <3> QED BY <1>1, <2>7, <2>8, <3>1 DEF Balance, Accounted, Homes
  <2>11. \A m \in Links : /\ Carried(m)' \subseteq 1 .. accepted
                          /\ status[m] = "absent" => Carried(m)' = {}
    BY <1>1, <2>6, <2>9 DEF Balance
  <2>12. \A m, o \in Present : m # o => Carried(m)' \cap Carried(o)' = {}
    <3> SUFFICES ASSUME NEW m \in Present, NEW o \in Present, m # o
                 PROVE  Carried(m)' \cap Carried(o)' = {}
      OBVIOUS
    <3>1. Carried(m) \cap Carried(o) = {}
      BY DEF Balance
    <3> QED BY <2>6, <2>7, <2>9, <3>1
  <2>13. BufferedInFlight'
    BY <1>1, <1>3, <2>6 DEF Balance, BufferedInFlight
  <2> QED BY <1>1, <2>5, <2>7, <2>10, <2>11, <2>12, <2>13 DEF Balance
<1> QED BY <1>4, <1>5

\* Carried shrinks or stays, and what has arrived stays.
LEMMA NetworkStep ==
    ASSUME Balance, TypeOK', UNCHANGED <<queue, accepted, status, assigned, in_flight, sendbuf>>,
           \A l \in Links : Carried(l)' \subseteq Carried(l),
           \A l \in Links : received[l] \subseteq received'[l]
    PROVE  Balance'
<1>1. Present' = Present /\ Present \subseteq Links
  BY DEF Present
<1>2. \A x : Arrived(x) => Arrived(x)'
  BY DEF Arrived
<1>3. Accounted(Present, accepted, queue, assigned, in_flight)'
  <2>1. \A m \in Present :
           /\ Carried(m)' \cap Elements(queue) = {}
           /\ \A o \in Links : Carried(m)' \cap Elements(assigned[o]) = {}
           /\ \A o \in Links : o # m => Carried(m)' \cap Elements(in_flight[o]) = {}
    <3> SUFFICES ASSUME NEW m \in Present
                 PROVE  /\ Carried(m)' \cap Elements(queue) = {}
                        /\ \A o \in Links : Carried(m)' \cap Elements(assigned[o]) = {}
                        /\ \A o \in Links : o # m => Carried(m)' \cap Elements(in_flight[o]) = {}
      OBVIOUS
    <3>1. /\ Carried(m) \cap Elements(queue) = {}
          /\ \A o \in Links : Carried(m) \cap Elements(assigned[o]) = {}
          /\ \A o \in Links : o # m => Carried(m) \cap Elements(in_flight[o]) = {}
      BY DEF Balance, Accounted
    <3>2. Carried(m)' \subseteq Carried(m)
      BY <1>1
    <3> QED BY <3>1, <3>2
  <2> QED BY <1>1, <1>2, <2>1 DEF Balance, Accounted, Homes
<1>4. \A m \in Links : /\ Carried(m)' \subseteq 1 .. accepted
                       /\ status[m] = "absent" => Carried(m)' = {}
  BY DEF Balance
<1>5. \A m, o \in Present : m # o => Carried(m)' \cap Carried(o)' = {}
  <2> SUFFICES ASSUME NEW m \in Present, NEW o \in Present, m # o
               PROVE  Carried(m)' \cap Carried(o)' = {}
    OBVIOUS
  <2>1. Carried(m) \cap Carried(o) = {}
    BY DEF Balance
  <2>2. Carried(m)' \subseteq Carried(m) /\ Carried(o)' \subseteq Carried(o)
    BY <1>1
  <2> QED BY <2>1, <2>2
<1>6. BufferedInFlight'
  BY DEF Balance, BufferedInFlight
<1> QED BY <1>1, <1>3, <1>4, <1>5, <1>6 DEF Balance

LEMMA PeerRecvBalance ==
    ASSUME Balance, NEW l \in Links, PeerRecv(l)
    PROVE  Balance'
<1>1. wire[l] \in Seq(Packets) /\ wire[l] # <<>>
  BY DEF PeerRecv, Balance, TypeOK
<1>2. /\ Head(wire[l]) \in Packets /\ Tail(wire[l]) \in Seq(Packets)
      /\ Elements(wire[l]) = Elements(Tail(wire[l])) \cup {Head(wire[l])}
  BY <1>1, TailElements
<1>3. /\ wire' \in [Links -> Seq(Packets)] /\ received' \in [Links -> SUBSET Packets]
      /\ \A m \in Links :
            /\ wire'[m] = IF m = l THEN Tail(wire[l]) ELSE wire[m]
            /\ received'[m] = IF m = l THEN received[l] \cup {Head(wire[l])} ELSE received[m]
  BY <1>2 DEF PeerRecv, Balance, TypeOK
<1>4. TypeOK'
  BY <1>3 DEF PeerRecv, Balance, TypeOK, linkVars
<1>5. \A m \in Links : Carried(m)' = Carried(m)
  BY <1>2, <1>3 DEF Carried
<1> QED BY <1>3, <1>4, <1>5, NetworkStep DEF PeerRecv, linkVars

LEMMA BreakBalance ==
    ASSUME Balance, NEW l \in Links, Break(l)
    PROVE  Balance'
<1>1. /\ wire' \in [Links -> Seq(Packets)]
      /\ \A m \in Links : wire'[m] = IF m = l THEN <<>> ELSE wire[m]
  BY DEF Break, Balance, TypeOK
<1>2. TypeOK'
  BY <1>1 DEF Break, Balance, TypeOK, linkVars
<1>3. \A m \in Links : Carried(m)' \subseteq Carried(m)
  BY <1>1, EmptyElements DEF Carried, Break
<1> QED BY <1>2, <1>3, NetworkStep DEF Break, linkVars

\* The packet that a pong acknowledges has arrived, and is not the one in the
\* send buffer.
LEMMA FlushInFlightBalance ==
    ASSUME Balance, NEW l \in Links, FlushInFlight(l)
    PROVE  Balance'
<1> DEFINE f == in_flight[l]
           h == Head(f)
<1>1. /\ f \in Seq(Packets) /\ f # <<>> /\ h \in received[l] /\ status[l] = "up"
      /\ in_flight' = [in_flight EXCEPT ![l] = Tail(f)]
      /\ UNCHANGED <<queue, accepted, status, assigned, sendbuf, bloat, broken, wire, received,
                     scheduled, running, crashed>>
  BY DEF FlushInFlight, Balance, TypeOK, netVars
<1>2. /\ h \in Packets /\ Tail(f) \in Seq(Packets)
      /\ Elements(f) = Elements(Tail(f)) \cup {h}
      /\ Distinct(f) => Distinct(Tail(f)) /\ h \notin Elements(Tail(f))
  BY <1>1, TailElements
<1>3. /\ Len(f) \in Nat /\ Len(f) > 0 /\ Len(Tail(f)) = Len(f) - 1 /\ h = f[1]
      /\ \A i \in 1 .. Len(Tail(f)) : Tail(f)[i] = f[i + 1]
  BY <1>1
<1> HIDE DEF f, h
<1>4. /\ in_flight' \in [Links -> Seq(Packets)]
      /\ \A m \in Links : in_flight'[m] = IF m = l THEN Tail(f) ELSE in_flight[m]
  BY <1>1, <1>2 DEF Balance, TypeOK
<1>5. TypeOK'
  BY <1>1, <1>4 DEF Balance, TypeOK
<1>6. Present' = Present /\ \A m \in Links : status'[m] = "absent" => status[m] = "absent"
  BY <1>1, SameStatus
<1>7. Arrived(h)
  BY <1>1 DEF Arrived
<1>8. \A m \in Links : /\ Elements(in_flight'[m]) \subseteq Elements(in_flight[m])
                       /\ Elements(in_flight[m]) \subseteq Elements(in_flight'[m]) \cup {h}
                       /\ Distinct(in_flight[m]) => Distinct(in_flight'[m])
  BY <1>2, <1>4 DEF f
<1>9. Homes(queue, assigned, in_flight')
  <2>1. Homes(queue, assigned, in_flight)
    BY DEF Balance, Accounted
  <2>2. \A m \in Links : /\ Distinct(in_flight'[m])
                         /\ Elements(queue) \cap Elements(in_flight'[m]) = {}
    BY <1>8, <2>1 DEF Homes
  <2>3. \A m, o \in Links : /\ Elements(assigned[m]) \cap Elements(in_flight'[o]) = {}
                            /\ m # o => Elements(in_flight'[m]) \cap Elements(in_flight'[o]) = {}
    <3> SUFFICES ASSUME NEW m \in Links, NEW o \in Links
                 PROVE  /\ Elements(assigned[m]) \cap Elements(in_flight'[o]) = {}
                        /\ m # o => Elements(in_flight'[m]) \cap Elements(in_flight'[o]) = {}
      OBVIOUS
    <3>1. /\ Elements(assigned[m]) \cap Elements(in_flight[o]) = {}
          /\ m # o => Elements(in_flight[m]) \cap Elements(in_flight[o]) = {}
      BY <2>1 DEF Homes
    <3>2. /\ Elements(in_flight'[m]) \subseteq Elements(in_flight[m])
          /\ Elements(in_flight'[o]) \subseteq Elements(in_flight[o])
      BY <1>8
    <3> QED BY <3>1, <3>2
  <2> QED BY <2>1, <2>2, <2>3 DEF Homes
<1>10. Accounted(Present, accepted, queue, assigned, in_flight')
  <2>1. Accounted(Present, accepted, queue, assigned, in_flight) /\ Present \subseteq Links
    BY DEF Balance, Present
  <2>2. \A m \in Links : Elements(in_flight'[m]) \subseteq 1 .. accepted
    BY <1>8, <2>1 DEF Accounted
  <2>3. \A m \in Present : \A o \in Links : o # m => Carried(m) \cap Elements(in_flight'[o]) = {}
    BY <1>8, <2>1 DEF Accounted
  <2>4. \A p \in 1 .. accepted :
           \/ Arrived(p)
           \/ p \in Elements(queue)
           \/ \E m \in Present : p \in Elements(assigned[m]) \/ p \in Elements(in_flight'[m])
    BY <1>7, <1>8, <2>1 DEF Accounted
  <2> QED BY <1>4, <1>9, <2>1, <2>2, <2>3, <2>4 DEF Accounted
<1>11. BufferedInFlight'
  <2> SUFFICES ASSUME NEW m \in Links, status'[m] # "removed", sendbuf'[m] = "data"
               PROVE  /\ in_flight'[m] # <<>>
                      /\ in_flight'[m][Len(in_flight'[m])] \notin Carried(m)'
    BY DEF BufferedInFlight
  <2>1. in_flight[m] # <<>> /\ in_flight[m][Len(in_flight[m])] \notin Carried(m)
    BY <1>1 DEF Balance, BufferedInFlight
  <2>2. Carried(m)' = Carried(m)
    BY <1>1 DEF Carried
  <2>3. CASE m = l
    <3>1. f[Len(f)] \notin Carried(l) /\ h \in Carried(l)
      BY <1>1, <2>1, <2>3 DEF Carried, f
    <3>2. Len(f) # 1
      BY <1>3, <3>1
    <3>3. Len(Tail(f)) \in 1 .. Len(Tail(f)) /\ Tail(f)[Len(Tail(f))] = f[Len(f)]
      <4> DEFINE t == Tail(f)
                 n == Len(t)
      <4>1. n = Len(f) - 1 /\ \A i \in 1 .. n : t[i] = f[i + 1]
        BY <1>3
      <4> HIDE DEF t, n
      <4>2. n \in 1 .. n /\ n + 1 = Len(f)
        BY <1>3, <3>2, <4>1
      <4>3. t[n] = f[Len(f)]
        BY <4>1, <4>2
      <4> QED BY <4>2, <4>3 DEF t, n
    <3>4. Tail(f) # <<>>
      <4> DEFINE t == Tail(f)
      <4>1. t \in Seq(Packets) /\ Len(t) \in 1 .. Len(t)
        BY <1>2, <3>3
      <4> HIDE DEF t
      <4>2. t # <<>>
        BY <4>1
      <4> QED BY <4>2 DEF t
    <3> QED BY <1>4, <2>2, <2>3, <3>1, <3>3, <3>4
  <2>4. CASE m # l
    BY <1>4, <2>1, <2>2, <2>4
  <2> QED BY <2>3, <2>4
<1>12. accepted' >= accepted
  BY <1>1, MultilinkAssumption DEF Balance, TypeOK
<1>13. Accounted(Present', accepted', queue', assigned', in_flight')
  BY <1>1, <1>6, <1>10
<1> QED BY <1>1, <1>5, <1>6, <1>11, <1>12, <1>13, SameCarried

LEMMA NextBalance == Balance /\ [Next]_vars => Balance'
<1> SUFFICES ASSUME Balance, [Next]_vars PROVE Balance'
  OBVIOUS
<1>1. CASE UNCHANGED vars
  <2>1. TypeOK'
    BY <1>1 DEF Balance, TypeOK, vars, linkVars, netVars
  <2> QED BY <1>1, <2>1, SamePlaces, SameStatus DEF vars, linkVars, netVars
<1>2. CASE SendWithOffset
  BY <1>2, SendWithOffsetBalance
<1>3. CASE SomeLinkSendReady
  BY <1>3, IdleStepBalance
<1>4. ASSUME NEW l \in Links, LinkSendReady(l) PROVE Balance'
  BY <1>4, RemoveLinkBalance, SendIterationBalance DEF LinkSendReady
<1>5. ASSUME NEW l \in Links,
             ScheduledReady(l) \/ ScheduledEdge(l) \/ SendAux(l) \/ BufferbloatCheck(l)
      PROVE  Balance'
  BY <1>5, IdleStepBalance
<1>6. ASSUME NEW l \in Links, AddLink(l) PROVE Balance'
  BY <1>6, AddLinkBalance
<1>7. ASSUME NEW l \in Links, TransportWriteReady(l) PROVE Balance'
  BY <1>7, TransportWriteReadyBalance
<1>8. ASSUME NEW l \in Links, FlushInFlight(l) PROVE Balance'
  BY <1>8, FlushInFlightBalance
<1>9. ASSUME NEW l \in Links, MaybeRetransmit(l) PROVE Balance'
  BY <1>9, MaybeRetransmitBalance
<1>10. ASSUME NEW l \in Links, PeerRecv(l) PROVE Balance'
  BY <1>10, PeerRecvBalance
<1>11. ASSUME NEW l \in Links, Break(l) PROVE Balance'
  BY <1>11, BreakBalance
<1> QED BY <1>1, <1>2, <1>3, <1>4, <1>5, <1>6, <1>7, <1>8, <1>9, <1>10, <1>11 DEF Next

LEMMA BalanceInvariant == Spec => []Balance
BY InitBalance, NextBalance, PTL DEF Spec

-----------------------------------------------------------------------------
(* The theorems.                                                           *)

\* The sender holds every packet in one place only, and a packet that went
\* out over a link that still exists is nowhere else.
THEOREM MultilinkSafe == Spec => []MultilinkInv
<1>1. Balance => MultilinkInv
  BY InvBalance DEF Inv
<1> QED BY <1>1, BalanceInvariant, PTL

\* However links time out and are removed, no packet that send_with_offset
\* took is forgotten before it has arrived.
THEOREM MultilinkNoLoss == Spec => []NoLoss
<1>1. Balance => NoLoss
  BY InvBalance DEF Inv
<1> QED BY <1>1, BalanceInvariant, PTL

\* The peer receives a packet over two links only if one of them has timed
\* out.
THEOREM MultilinkDuplicates == Spec => []DuplicateMeansTimeout
<1>1. Balance => DuplicateMeansTimeout
  <2> SUFFICES ASSUME Balance, NEW k \in Links, NEW l \in Links, k # l,
                      status[k] = "up", status[l] = "up"
               PROVE  received[k] \cap received[l] = {}
    BY DEF DuplicateMeansTimeout
  <2>1. k \in Present /\ l \in Present
    BY DEF Present
  <2>2. Carried(k) \cap Carried(l) = {}
    BY <2>1 DEF Balance
  <2> QED BY <2>2 DEF Carried
<1> QED BY <1>1, BalanceInvariant, PTL

=============================================================================
