-------------------------- MODULE EventQueueProofs --------------------------
(* What TLAPS proves about EventQueue, for any events, any order of them    *)
(* and any size: the sifts keep the heap and lose no event, and so the      *)
(* queue is the bag that the engine relies on.                              *)
EXTENDS EventQueue, FiniteSetTheorems, FunctionTheorems, SequenceTheorems,
        WellFoundedInduction, TLAPS

-----------------------------------------------------------------------------
(* Naturals.                                                                *)

NatOrder == {p \in Nat \X Nat : p[1] < p[2]}

LEMMA NatOrderIsWellFounded == IsWellFoundedOn(NatOrder, Nat)
BY NatLessThanWellFounded DEF OpToRel, NatOrder

LEMMA LeastNatural ==
    ASSUME NEW T \in SUBSET Nat, T # {}
    PROVE  \E n \in T : \A m \in T : n <= m
<1>1. PICK n \in T : \A m \in T : <<m, n>> \notin NatOrder
  BY NatOrderIsWellFounded, WFMin
<1>2. ASSUME NEW m \in T PROVE n <= m
  <2>1. <<m, n>> \in Nat \X Nat /\ <<m, n>>[1] = m /\ <<m, n>>[2] = n
    OBVIOUS
  <2>2. ~(m < n)
    BY <1>1, <2>1 DEF NatOrder
  <2> QED
    BY <2>2
<1> QED
  BY <1>2

LEMMA AllNaturals ==
    ASSUME NEW T \in SUBSET Nat, 0 \in T, \A m \in T : m + 1 \in T
    PROVE  T = Nat
<1> SUFFICES ASSUME NEW x \in Nat \ T PROVE FALSE
  OBVIOUS
<1>1. PICK n \in Nat \ T : \A m \in Nat \ T : n <= m
  BY LeastNatural
<1>2. n # 0 /\ n - 1 \in Nat /\ n - 1 \notin Nat \ T
  BY <1>1
<1> QED
  BY <1>1, <1>2

(* The parent of a slot.                                                    *)
LEMMA Parents ==
    /\ \A k \in Nat : k > 1 => /\ k \div 2 \in Nat /\ 1 <= k \div 2 /\ k \div 2 < k
                               /\ k = 2 * (k \div 2) \/ k = 2 * (k \div 2) + 1
    /\ \A j \in Nat : (2 * j) \div 2 = j /\ (2 * j + 1) \div 2 = j
OBVIOUS

(* The recursive functions of the sifts exist.                              *)
IsTarget(q, e, n, f) ==
    f = [j \in 1..n |-> IF j > 1 /\ Rank[e] < Rank[q[j \div 2]] THEN f[j \div 2] ELSE j]

LEMMA TargetExists ==
    ASSUME NEW q, NEW e, NEW n \in Nat
    PROVE  \E f : IsTarget(q, e, n, f)
<1> DEFINE T == {m \in Nat : \E f : IsTarget(q, e, m, f)}
<1>1. 0 \in T
  <2>1. IsTarget(q, e, 0, <<>>)
    BY DEF IsTarget
  <2> QED
    BY <2>1
<1>2. ASSUME NEW m \in T PROVE m + 1 \in T
  <2>1. PICK f : IsTarget(q, e, m, f)
    OBVIOUS
  <2>2. m \in Nat
    OBVIOUS
  <2> DEFINE g == [j \in 1..(m + 1) |->
                IF j > 1 /\ Rank[e] < Rank[q[j \div 2]] THEN f[j \div 2] ELSE j]
  <2>3. \A j \in 1..m : g[j] = f[j]
    BY <2>1, <2>2 DEF IsTarget
  <2> HIDE DEF T
  <2>4. \A j \in 1..(m + 1) : j > 1 => j \div 2 \in 1..m
    BY <2>2, Parents
  <2>5. \A j \in 1..(m + 1) : j > 1 => g[j \div 2] = f[j \div 2]
    BY <2>3, <2>4
  <2>6. IsTarget(q, e, m + 1, g)
    BY <2>5 DEF IsTarget
  <2> QED
    BY <2>2, <2>6 DEF T
<1> HIDE DEF T
<1>3. T = Nat
  BY <1>1, <1>2, AllNaturals DEF T
<1> QED
  BY <1>3 DEF T

IsAncestors(n, f) ==
    f = [j \in 1..n |-> {j} \cup (IF j = 1 THEN {} ELSE f[j \div 2])]

LEMMA AncestorsExist ==
    ASSUME NEW n \in Nat
    PROVE  \E f : IsAncestors(n, f)
<1> DEFINE T == {m \in Nat : \E f : IsAncestors(m, f)}
<1>1. 0 \in T
  <2>1. IsAncestors(0, <<>>)
    BY DEF IsAncestors
  <2> QED
    BY <2>1
<1>2. ASSUME NEW m \in T PROVE m + 1 \in T
  <2>1. PICK f : IsAncestors(m, f)
    OBVIOUS
  <2>2. m \in Nat
    OBVIOUS
  <2> DEFINE g == [j \in 1..(m + 1) |-> {j} \cup (IF j = 1 THEN {} ELSE f[j \div 2])]
  <2>3. \A j \in 1..m : g[j] = f[j]
    BY <2>1, <2>2 DEF IsAncestors
  <2> HIDE DEF T
  <2>4. \A j \in 1..(m + 1) : j # 1 => j \div 2 \in 1..m
    BY <2>2, Parents
  <2>5. \A j \in 1..(m + 1) : j # 1 => g[j \div 2] = f[j \div 2]
    BY <2>3, <2>4
  <2>6. IsAncestors(m + 1, g)
    BY <2>5 DEF IsAncestors
  <2> QED
    BY <2>2, <2>6 DEF T
<1> HIDE DEF T
<1>3. T = Nat
  BY <1>1, <1>2, AllNaturals DEF T
<1> QED
  BY <1>3 DEF T

(* A set of slots that leads from slot k up to the root.                    *)
ChainUp(k, A) ==
    /\ A \subseteq 1..k /\ k \in A
    /\ \A a \in A : a > 1 => a \div 2 \in A
    /\ \A a \in A, b \in A : b < a => b <= a \div 2
    /\ \A a \in A : a # k => \E b \in A : b > 1 /\ b \div 2 = a

(* Slot t is where an event moves up to on that chain.                      *)
TargetOnChain(q, k, e, A, t) ==
    /\ t \in A
    /\ \A a \in A : a > t => Rank[e] < Rank[q[a \div 2]]
    /\ t > 1 => ~(Rank[e] < Rank[q[t \div 2]])

LEMMA ChainUpStep ==
    ASSUME NEW j \in Nat, j > 1, NEW A, ChainUp(j \div 2, A)
    PROVE  ChainUp(j, {j} \cup A)
<1> DEFINE p == j \div 2
<1>1. p \in Nat /\ 1 <= p /\ p < j
  BY Parents
<1> HIDE DEF p
<1>2. A \subseteq 1..p /\ p \in A
  BY DEF ChainUp, p
<1>3. {j} \cup A \subseteq 1..j
  BY <1>1, <1>2
<1>4. \A a \in {j} \cup A : a > 1 => a \div 2 \in {j} \cup A
  BY <1>2 DEF ChainUp, p
<1>5. ASSUME NEW a \in {j} \cup A, NEW b \in {j} \cup A, b < a PROVE b <= a \div 2
  <2>1. CASE a = j
    BY <2>1, <1>1, <1>2, <1>5 DEF p
  <2>2. CASE a # j
    BY <2>2, <1>1, <1>2, <1>5 DEF ChainUp
  <2> QED
    BY <2>1, <2>2
<1>6. ASSUME NEW a \in {j} \cup A, a # j PROVE \E b \in {j} \cup A : b > 1 /\ b \div 2 = a
  BY <1>6 DEF ChainUp, p
<1> QED
  BY <1>3, <1>4, <1>5, <1>6 DEF ChainUp

LEMMA SiftUpFacts ==
    ASSUME NEW q, NEW e, NEW k \in Nat, k > 0
    PROVE  /\ ChainUp(k, AncestorsOf(k))
           /\ TargetOnChain(q, k, e, AncestorsOf(k), SiftUpTarget(q, k, e))
<1> DEFINE f == CHOOSE f : IsTarget(q, e, k, f)
           g == CHOOSE g : IsAncestors(k, g)
<1>1. SiftUpTarget(q, k, e) = f[k] /\ AncestorsOf(k) = g[k]
  BY DEF SiftUpTarget, AncestorsOf, IsTarget, IsAncestors
<1>2. IsTarget(q, e, k, f) /\ IsAncestors(k, g)
  BY TargetExists, AncestorsExist
<1> HIDE DEF f, g
<1>3. \A j \in 1..k : f[j] = IF j > 1 /\ Rank[e] < Rank[q[j \div 2]] THEN f[j \div 2] ELSE j
  BY <1>2 DEF IsTarget
<1>4. \A j \in 1..k : g[j] = {j} \cup (IF j = 1 THEN {} ELSE g[j \div 2])
  BY <1>2 DEF IsAncestors
<1> DEFINE Fine(j) == ChainUp(j, g[j]) /\ TargetOnChain(q, j, e, g[j], f[j])
           T == {m \in Nat : \A j \in 1..k : j <= m => Fine(j)}
<1>5. 0 \in T
  OBVIOUS
<1>6. ASSUME NEW m \in T PROVE m + 1 \in T
  <2> SUFFICES ASSUME m + 1 \in 1..k PROVE Fine(m + 1)
    OBVIOUS
  <2>1. m \in Nat /\ \A j \in 1..k : j <= m => Fine(j)
    OBVIOUS
  <2> HIDE DEF T
  <2> DEFINE j == m + 1
             p == j \div 2
  <2>2. CASE m = 0
    <3>1. g[1] = {1} /\ f[1] = 1
      BY <1>3, <1>4, <2>2
    <3> QED
      BY <2>2, <3>1 DEF ChainUp, TargetOnChain
  <2>3. CASE m # 0
    <3>1. p \in 1..k /\ p <= m /\ p < j /\ j > 1
      BY <2>1, <2>3, Parents
    <3>2. Fine(p)
      BY <2>1, <3>1
    <3>3. g[j] = {j} \cup g[p]
      BY <1>4, <3>1
    <3>4. f[j] = IF Rank[e] < Rank[q[p]] THEN f[p] ELSE j
      BY <1>3, <3>1
    <3>5. ChainUp(j, g[j])
      BY <3>1, <3>2, <3>3, ChainUpStep, <2>1
    <3> HIDE DEF p
    <3>6. TargetOnChain(q, j, e, g[j], f[j])
      <4>1. CASE Rank[e] < Rank[q[p]]
        BY <4>1, <3>1, <3>2, <3>3, <3>4 DEF TargetOnChain, p
      <4>2. CASE ~(Rank[e] < Rank[q[p]])
        <5>1. f[j] = j
          BY <4>2, <3>4
        <5>2. \A a \in g[j] : ~(a > j)
          BY <3>5, <2>1 DEF ChainUp
        <5> QED
          BY <4>2, <5>1, <5>2, <3>3 DEF TargetOnChain, p
      <4> QED
        BY <4>1, <4>2
    <3> QED
      BY <3>5, <3>6
  <2> QED
    BY <2>2, <2>3
<1> HIDE DEF Fine
<1>7. T = Nat
  <2> HIDE DEF T
  <2> QED
    BY <1>5, <1>6, AllNaturals DEF T
<1>8. Fine(k)
  BY <1>7
<1> QED
  BY <1>1, <1>8 DEF Fine

(* The lesser child of slot j among the first n, the left one of equals.    *)
LeastChild(q, j, n) ==
    IF 2 * j < n /\ Rank[q[2 * j]] > Rank[q[2 * j + 1]] THEN 2 * j + 1 ELSE 2 * j

StaysAt(q, j, e, n) == 2 * j > n \/ Rank[e] <= Rank[q[LeastChild(q, j, n)]]

PathAt(q, e, n, f, j) ==
    IF StaysAt(q, j, e, n) THEN <<>>
    ELSE <<LeastChild(q, j, n)>> \o f[LeastChild(q, j, n)]

IsPath(q, e, n, f) == f = [j \in 1..n |-> PathAt(q, e, n, f, j)]

LEMMA ChildBelow ==
    ASSUME NEW q, NEW e, NEW n \in Nat, NEW j \in 1..n, ~StaysAt(q, j, e, n)
    PROVE  /\ LeastChild(q, j, n) \in 1..n /\ LeastChild(q, j, n) > j
           /\ LeastChild(q, j, n) \div 2 = j
BY Parents DEF StaysAt, LeastChild

LEMMA PathExists ==
    ASSUME NEW q, NEW e, NEW n \in Nat
    PROVE  \E f : IsPath(q, e, n, f)
<1> DEFINE Half(f, m) == \A j \in 1..n : n < j + m => f[j] = PathAt(q, e, n, f, j)
           T == {m \in Nat : \E f : Half(f, m)}
<1>1. 0 \in T
  BY DEF T
<1>2. ASSUME NEW m \in T PROVE m + 1 \in T
  <2>1. PICK f : Half(f, m)
    OBVIOUS
  <2>2. m \in Nat
    OBVIOUS
  <2> HIDE DEF T
  <2> DEFINE g == [j \in 1..n |-> IF n < j + m THEN f[j] ELSE PathAt(q, e, n, f, j)]
  <2>3. \A j \in 1..n : n < j + m => g[j] = f[j]
    OBVIOUS
  <2>4. \A j \in 1..n : n < j + (m + 1) => g[j] = PathAt(q, e, n, f, j)
    BY <2>1, <2>2
  <2> HIDE DEF g
  <2>5. ASSUME NEW j \in 1..n, n < j + (m + 1)
        PROVE  PathAt(q, e, n, f, j) = PathAt(q, e, n, g, j)
    <3> DEFINE c == LeastChild(q, j, n)
    <3>1. CASE StaysAt(q, j, e, n)
      BY <3>1 DEF PathAt
    <3>2. CASE ~StaysAt(q, j, e, n)
      <4>1. c \in 1..n /\ c > j
        BY <3>2, ChildBelow
      <4> HIDE DEF c
      <4>2. n < c + m
        BY <4>1, <2>2, <2>5
      <4>3. g[c] = f[c]
        BY <2>3, <4>1, <4>2
      <4> QED
        BY <4>3 DEF PathAt, c
    <3> QED
      BY <3>1, <3>2
  <2>6. Half(g, m + 1)
    BY <2>4, <2>5
  <2> HIDE DEF Half
  <2> QED
    BY <2>2, <2>6 DEF T
<1> HIDE DEF T
<1>3. T = Nat
  BY <1>1, <1>2, AllNaturals DEF T
<1>4. n \in T
  BY <1>3
<1>5. PICK f : \A j \in 1..n : n < j + n => f[j] = PathAt(q, e, n, f, j)
  BY <1>4 DEF T
<1> DEFINE g == [j \in 1..n |-> f[j]]
<1>6. \A j \in 1..n : g[j] = PathAt(q, e, n, f, j)
  BY <1>5
<1>7. ASSUME NEW j \in 1..n PROVE PathAt(q, e, n, f, j) = PathAt(q, e, n, g, j)
  BY ChildBelow DEF PathAt
<1>8. IsPath(q, e, n, g)
  BY <1>6, <1>7 DEF IsPath
<1> QED
  BY <1>8

(* The slots from slot j down, along which events move up to let e sink.    *)
ChainDown(q, j, e, n, s) ==
    /\ s \in Seq(1..n) /\ Len(s) > 0 /\ s[1] = j
    /\ \A a \in 1..Len(s), b \in 1..Len(s) : a < b => s[a] < s[b]
    /\ \A a \in 1..(Len(s) - 1) :
          /\ s[a + 1] \div 2 = s[a]
          /\ Rank[q[s[a + 1]]] < Rank[e]
          /\ \A c \in 2..n : c \div 2 = s[a] => Rank[q[s[a + 1]]] <= Rank[q[c]]
    /\ \A c \in 2..n : c \div 2 = s[Len(s)] => Rank[e] <= Rank[q[c]]

LEMMA LeastChildIsLeast ==
    ASSUME NEW n \in Nat, NEW q, \A i \in 1..n : Rank[q[i]] \in Nat,
           NEW j \in 1..n, NEW c \in 2..n, c \div 2 = j
    PROVE  2 * j <= n /\ LeastChild(q, j, n) \in 1..n
           /\ Rank[q[LeastChild(q, j, n)]] <= Rank[q[c]]
<1>1. c = 2 * j \/ c = 2 * j + 1
  BY Parents
<1>2. CASE c = 2 * j
  BY <1>2 DEF LeastChild
<1>3. CASE c = 2 * j + 1
  BY <1>3 DEF LeastChild
<1> QED
  BY <1>1, <1>2, <1>3

LEMMA SiftDownFacts ==
    ASSUME NEW n \in Nat, NEW q, \A i \in 1..n : Rank[q[i]] \in Nat,
           NEW e, Rank[e] \in Nat, NEW k \in 1..n
    PROVE  /\ SiftDownPath(q, k, e, n) \in Seq(1..n)
           /\ ChainDown(q, k, e, n, <<k>> \o SiftDownPath(q, k, e, n))
<1> DEFINE f == CHOOSE f : IsPath(q, e, n, f)
<1>1. SiftDownPath(q, k, e, n) = f[k]
  BY DEF SiftDownPath, IsPath, PathAt, StaysAt, LeastChild
<1>2. IsPath(q, e, n, f)
  BY PathExists
<1> HIDE DEF f
<1>3. \A j \in 1..n : f[j] = PathAt(q, e, n, f, j)
  BY <1>2 DEF IsPath
<1> DEFINE Fine(j) == f[j] \in Seq(1..n) /\ ChainDown(q, j, e, n, <<j>> \o f[j])
           T == {m \in Nat : \A j \in 1..n : n < j + m => Fine(j)}
<1>4. 0 \in T
  OBVIOUS
<1>5. ASSUME NEW m \in T PROVE m + 1 \in T
  <2>1. m \in Nat /\ \A j \in 1..n : n < j + m => Fine(j)
    OBVIOUS
  <2> HIDE DEF T
  <2>2. ASSUME NEW j \in 1..n, n < j + (m + 1) PROVE Fine(j)
    <3> DEFINE c == LeastChild(q, j, n)
    <3>1. CASE StaysAt(q, j, e, n)
      <4>1. f[j] = <<>>
        BY <1>3, <3>1 DEF PathAt
      <4>2. f[j] \in Seq(1..n) /\ <<j>> \o f[j] = <<j>>
        BY <4>1
      <4>3. <<j>> \in Seq(1..n) /\ Len(<<j>>) = 1 /\ <<j>>[1] = j
        OBVIOUS
      <4>4. \A i \in 2..n : i \div 2 = j => Rank[e] <= Rank[q[i]]
        <5> SUFFICES ASSUME NEW i \in 2..n, i \div 2 = j PROVE Rank[e] <= Rank[q[i]]
          OBVIOUS
        <5>1. 2 * j <= n /\ c \in 1..n /\ Rank[q[c]] <= Rank[q[i]]
          BY LeastChildIsLeast
        <5>2. Rank[e] <= Rank[q[c]]
          BY <3>1, <5>1 DEF StaysAt
        <5> QED
          BY <5>1, <5>2
      <4> DEFINE s == <<j>>
      <4>5. /\ s \in Seq(1..n) /\ Len(s) = 1 /\ s[1] = j
            /\ 1..(Len(s) - 1) = {} /\ 1..Len(s) = {1}
        BY <4>3
      <4> HIDE DEF s
      <4>6. ChainDown(q, j, e, n, s)
        BY <4>4, <4>5 DEF ChainDown
      <4> QED
        BY <4>2, <4>6 DEF s
    <3>2. CASE ~StaysAt(q, j, e, n)
      <4>1. c \in 1..n /\ c > j /\ c \div 2 = j
        BY <3>2, ChildBelow
      <4>2. f[j] = <<c>> \o f[c]
        BY <1>3, <3>2 DEF PathAt
      <4>3. Rank[q[c]] < Rank[e]
        BY <3>2, <4>1 DEF StaysAt
      <4>4. \A i \in 2..n : i \div 2 = j => Rank[q[c]] <= Rank[q[i]]
        BY LeastChildIsLeast
      <4> HIDE DEF c
      <4>5. Fine(c)
        BY <2>1, <2>2, <4>1
      <4> DEFINE s == <<c>> \o f[c]
                 t == <<j>> \o s
      <4>6. s \in Seq(1..n) /\ Len(s) > 0 /\ s[1] = c
        BY <4>1, <4>5 DEF ChainDown
      <4>7. ChainDown(q, c, e, n, s)
        BY <4>5
      <4> HIDE DEF s
      <4>8. /\ t \in Seq(1..n) /\ Len(t) = Len(s) + 1 /\ t[1] = j
            /\ \A a \in 1..Len(s) : t[a + 1] = s[a]
        BY <4>6
      <4> HIDE DEF t
      <4>9. \A a \in 1..Len(s) : s[a] \in 1..n /\ s[a] >= c
        <5> TAKE a \in 1..Len(s)
        <5>1. s[a] \in 1..n /\ 1 \in 1..Len(s)
          BY <4>6
        <5>2. 1 < a => s[1] < s[a]
          BY <4>7, <5>1 DEF ChainDown
        <5> QED
          BY <4>1, <4>6, <5>1, <5>2
      <4>10. ASSUME NEW a \in 1..Len(t), NEW b \in 1..Len(t), a < b PROVE t[a] < t[b]
        <5>1. b - 1 \in 1..Len(s) /\ t[b] = s[b - 1]
          <6>1. b - 1 \in 1..Len(s) /\ (b - 1) + 1 = b
            BY <4>6, <4>8, <4>10
          <6> QED
            BY <6>1, <4>8
        <5>2. CASE a = 1
          <6>1. t[a] = j
            BY <5>2, <4>8
          <6>2. t[b] >= c /\ t[b] \in 1..n
            BY <5>1, <4>9
          <6> QED
            BY <6>1, <6>2, <4>1
        <5>3. CASE a # 1
          <6>1. a - 1 \in 1..Len(s) /\ (a - 1) + 1 = a /\ a - 1 < b - 1
            BY <4>6, <4>8, <4>10, <5>3
          <6>2. t[a] = s[a - 1]
            BY <6>1, <4>8
          <6> QED
            BY <6>1, <6>2, <5>1, <4>7 DEF ChainDown
        <5> QED
          BY <5>2, <5>3
      <4>11. ASSUME NEW a \in 1..(Len(t) - 1)
             PROVE  /\ t[a + 1] \div 2 = t[a]
                    /\ Rank[q[t[a + 1]]] < Rank[e]
                    /\ \A i \in 2..n : i \div 2 = t[a] => Rank[q[t[a + 1]]] <= Rank[q[i]]
        <5>1. a \in 1..Len(s) /\ t[a + 1] = s[a]
          BY <4>6, <4>8
        <5>2. CASE a = 1
          BY <5>1, <5>2, <4>1, <4>3, <4>4, <4>6, <4>8
        <5>3. CASE a # 1
          <6>1. a - 1 \in 1..(Len(s) - 1) /\ (a - 1) + 1 = a /\ a - 1 \in 1..Len(s)
            BY <4>6, <4>8, <5>3
          <6>2. t[a] = s[a - 1]
            BY <6>1, <4>8
          <6>3. /\ s[(a - 1) + 1] \div 2 = s[a - 1]
                /\ Rank[q[s[(a - 1) + 1]]] < Rank[e]
                /\ \A i \in 2..n : i \div 2 = s[a - 1] => Rank[q[s[(a - 1) + 1]]] <= Rank[q[i]]
            BY <6>1, <4>7 DEF ChainDown
          <6> QED
            BY <6>1, <6>2, <6>3, <5>1
        <5> QED
          BY <5>2, <5>3
      <4>12. \A i \in 2..n : i \div 2 = t[Len(t)] => Rank[e] <= Rank[q[i]]
        <5>1. Len(s) \in 1..Len(s)
          <6>1. Len(s) \in Nat /\ Len(s) > 0
            BY <4>6
          <6> QED
            BY ONLY <6>1
        <5>2. t[Len(t)] = s[Len(s)]
          BY <5>1, <4>8
        <5> QED
          BY <5>2, <4>7 DEF ChainDown
      <4>13. ChainDown(q, j, e, n, t)
        <5>1. t \in Seq(1..n) /\ Len(t) > 0 /\ t[1] = j
          BY <4>6, <4>8
        <5>2. \A a \in 1..Len(t), b \in 1..Len(t) : a < b => t[a] < t[b]
          BY <4>10
        <5>3. \A a \in 1..(Len(t) - 1) :
                 /\ t[a + 1] \div 2 = t[a]
                 /\ Rank[q[t[a + 1]]] < Rank[e]
                 /\ \A i \in 2..n : i \div 2 = t[a] => Rank[q[t[a + 1]]] <= Rank[q[i]]
          BY <4>11
        <5> QED
          BY <5>1, <5>2, <5>3, <4>12 DEF ChainDown
      <4> QED
        BY <4>2, <4>6, <4>13 DEF s, t
    <3> QED
      BY <3>1, <3>2
  <2> QED
    BY <2>1, <2>2 DEF T
<1> HIDE DEF Fine
<1>6. T = Nat
  <2> HIDE DEF T
  <2> QED
    BY <1>4, <1>5, AllNaturals DEF T
<1>7. n \in T
  BY <1>6
<1>8. Fine(k)
  BY <1>7
<1> QED
  BY <1>1, <1>8 DEF Fine

-----------------------------------------------------------------------------
(* Placing an event keeps the order of the heap.                            *)

(* The heap is in order but for slot k, which has no event yet.             *)
InOrderExcept(q, n, k) ==
    \A i \in 2..n : i # k /\ i \div 2 # k => Rank[q[i \div 2]] <= Rank[q[i]]

(* Those below slot k do not come before the one above it.                  *)
GapInOrder(q, n, k) ==
    k > 1 => \A c \in 2..n : c \div 2 = k => Rank[q[k \div 2]] <= Rank[q[c]]

RanksTo(q, n) == \A i \in 1..n : Rank[q[i]] \in Nat
InOrderTo(q, n) == \A i \in 2..n : Rank[q[i \div 2]] <= Rank[q[i]]

(* s is q with e moved up along A to slot t, or down along S to slot last,  *)
(* where next gives the slot whose event moves up into a slot.              *)
MovedUp(q, n, e, A, t, s) ==
    \A i \in 1..n : s[i] = IF i = t THEN e
                           ELSE IF i \in A /\ i > t THEN q[i \div 2] ELSE q[i]

MovedDown(q, n, e, S, last, next, s) ==
    \A i \in 1..n : s[i] = IF i = last THEN e ELSE IF i \in S THEN q[next[i]] ELSE q[i]

LEMMA PlaceUpOrder ==
    ASSUME NEW n \in Nat, NEW q, RanksTo(q, n),
           NEW k \in 1..n, NEW e, Rank[e] \in Nat,
           NEW A, NEW t, ChainUp(k, A), TargetOnChain(q, k, e, A, t),
           InOrderExcept(q, n, k), GapInOrder(q, n, k),
           \A c \in 2..n : c \div 2 = k => Rank[e] <= Rank[q[c]],
           NEW s, MovedUp(q, n, e, A, t, s)
    PROVE  InOrderTo(s, n)
<1> SUFFICES ASSUME NEW i \in 2..n PROVE Rank[s[i \div 2]] <= Rank[s[i]]
  BY DEF InOrderTo
<1> USE DEF RanksTo, MovedUp
<1> DEFINE p == i \div 2
<1>1. p \in 1..n /\ p < i /\ i \in 1..n
  BY Parents
<1>2. t \in A /\ A \subseteq 1..k /\ k \in A /\ t \in 1..n /\ t <= k /\ k \in Nat /\ t \in Nat
  BY DEF ChainUp, TargetOnChain
<1>3. p > 1 => p \div 2 \in 1..n /\ p \div 2 < p
  BY <1>1, Parents
<1>4. CASE i = t
  <2>1. s[i] = e /\ s[p] = q[p]
    BY <1>1, <1>2, <1>4
  <2> QED
    BY <1>1, <1>4, <2>1 DEF TargetOnChain
<1>5. CASE i \in A /\ i > t
  <2>1. s[i] = q[p] /\ p \in A
    BY <1>1, <1>5 DEF ChainUp
  <2>2. ~(p < t)
    BY <1>1, <1>2, <1>5 DEF ChainUp
  <2>3. CASE p = t
    BY <1>1, <1>2, <1>5, <2>1, <2>3 DEF TargetOnChain
  <2>4. CASE p > t
    <3>1. s[p] = q[p \div 2]
      BY <1>1, <2>1, <2>4
    <3>2. p \in 2..n /\ p # k /\ p \div 2 # k
      BY <1>1, <1>2, <1>3, <1>5, <2>1, <2>4
    <3> QED
      BY <2>1, <3>1, <3>2 DEF InOrderExcept
  <2> QED
    BY <1>1, <1>2, <2>2, <2>3, <2>4
<1>6. CASE i # t /\ ~(i \in A /\ i > t)
  <2>1. s[i] = q[i] /\ i # k
    BY <1>1, <1>2, <1>6
  <2>2. CASE p = t
    <3>1. s[p] = e
      BY <1>1, <2>2
    <3>2. CASE t = k
      BY <2>1, <2>2, <3>1, <3>2
    <3>3. CASE t # k
      <4>1. PICK b \in A : b > 1 /\ b \div 2 = t
        BY <1>2, <3>3 DEF ChainUp
      <4>2. b > t /\ b \in Nat
        BY <1>2, <4>1, Parents
      <4>3. Rank[e] < Rank[q[t]]
        BY <4>1, <4>2 DEF TargetOnChain
      <4>4. Rank[q[t]] <= Rank[q[i]]
        BY <2>1, <2>2, <3>3 DEF InOrderExcept
      <4> QED
        BY <1>1, <1>2, <2>1, <3>1, <4>3, <4>4
    <3> QED
      BY <3>2, <3>3
  <2>3. CASE p \in A /\ p > t
    <3>1. s[p] = q[p \div 2] /\ p > 1
      BY <1>1, <1>2, <2>3
    <3>2. CASE p = k
      BY <2>1, <3>1, <3>2 DEF GapInOrder
    <3>3. CASE p # k
      <4>1. Rank[q[p]] <= Rank[q[i]]
        BY <2>1, <3>3 DEF InOrderExcept
      <4>2. p \in 2..n /\ p \div 2 # k
        BY <1>1, <1>2, <1>3, <2>3, <3>1, <3>3
      <4>3. Rank[q[p \div 2]] <= Rank[q[p]]
        BY <3>3, <4>2 DEF InOrderExcept
      <4> QED
        BY <1>1, <1>3, <2>1, <3>1, <4>1, <4>3
    <3> QED
      BY <3>2, <3>3
  <2>4. CASE p # t /\ ~(p \in A /\ p > t)
    <3>1. s[p] = q[p] /\ p # k
      BY <1>1, <1>2, <2>4
    <3> QED
      BY <2>1, <3>1 DEF InOrderExcept
  <2> QED
    BY <2>2, <2>3, <2>4
<1> QED
  BY <1>4, <1>5, <1>6

(* What the sequence of slots of a sift down says of the set of them.       *)
PathDown(q, k, e, n, S, last, next) ==
    /\ S \subseteq k..n /\ k \in S /\ last \in S
    /\ \A x \in S : x # last =>
          /\ next[x] \in S /\ next[x] \div 2 = x /\ next[x] > 1
          /\ Rank[q[next[x]]] < Rank[e]
          /\ \A c \in 2..n : c \div 2 = x => Rank[q[next[x]]] <= Rank[q[c]]
    /\ \A c \in 2..n : c \div 2 = last => Rank[e] <= Rank[q[c]]
    /\ \A y \in S : y # k => y \div 2 \in S /\ y \div 2 # last /\ next[y \div 2] = y

LEMMA PlaceDownOrder ==
    ASSUME NEW n \in Nat, NEW q, RanksTo(q, n),
           NEW k \in 1..n, NEW e, Rank[e] \in Nat,
           NEW S, NEW last, NEW next, PathDown(q, k, e, n, S, last, next),
           InOrderExcept(q, n, k), GapInOrder(q, n, k),
           last = k /\ k > 1 => Rank[q[k \div 2]] <= Rank[e],
           NEW s, MovedDown(q, n, e, S, last, next, s)
    PROVE  InOrderTo(s, n)
<1> SUFFICES ASSUME NEW i \in 2..n PROVE Rank[s[i \div 2]] <= Rank[s[i]]
  BY DEF InOrderTo
<1> USE DEF RanksTo, MovedDown
<1> DEFINE p == i \div 2
<1>1. p \in 1..n /\ p < i /\ i \in 1..n
  BY Parents
<1>2. S \subseteq k..n /\ k \in S /\ last \in S
  BY DEF PathDown
<1>3. CASE i = last
  <2>1. s[i] = e
    BY <1>1, <1>3
  <2>2. CASE i = k
    <3>1. s[p] = q[p]
      BY <1>1, <1>2, <1>3, <2>2
    <3> QED
      BY <1>3, <2>1, <2>2, <3>1, <1>1
  <2>3. CASE i # k
    <3>1. p \in S /\ p # last /\ next[p] = i
      BY <1>2, <1>3, <2>3 DEF PathDown
    <3>2. s[p] = q[i]
      BY <1>1, <3>1
    <3>3. Rank[q[next[p]]] < Rank[e]
      BY <3>1 DEF PathDown
    <3> QED
      BY <1>1, <2>1, <3>1, <3>2, <3>3
  <2> QED
    BY <2>2, <2>3
<1>4. CASE i \in S /\ i # last
  <2> DEFINE c == next[i]
  <2>1. s[i] = q[c]
    BY <1>1, <1>4
  <2>2. c \in S /\ c \div 2 = i /\ c > 1
    BY <1>4 DEF PathDown
  <2> HIDE DEF c
  <2>3. c \in 2..n /\ c > i
    BY <1>1, <1>2, <2>2, Parents
  <2>4. CASE i = k
    <3>1. s[p] = q[p]
      BY <1>1, <1>2, <2>4
    <3> QED
      BY <2>1, <2>2, <2>3, <2>4, <3>1 DEF GapInOrder
  <2>5. CASE i # k
    <3>1. p \in S /\ p # last /\ next[p] = i
      BY <1>4, <2>5 DEF PathDown
    <3>2. s[p] = q[i]
      BY <1>1, <3>1
    <3>3. c # k
      BY <1>1, <1>2, <1>4, <2>3
    <3> QED
      BY <2>1, <2>2, <2>3, <2>5, <3>2, <3>3 DEF InOrderExcept
  <2> QED
    BY <2>4, <2>5
<1>5. CASE i \notin S
  <2>1. s[i] = q[i] /\ i # k
    BY <1>1, <1>2, <1>5
  <2>2. CASE p = last
    <3>1. s[p] = e
      BY <1>1, <2>2
    <3> QED
      BY <2>1, <2>2, <3>1 DEF PathDown
  <2>3. CASE p \in S /\ p # last
    <3>1. s[p] = q[next[p]]
      BY <1>1, <2>3
    <3> QED
      BY <2>1, <2>3, <3>1 DEF PathDown
  <2>4. CASE p \notin S
    <3>1. s[p] = q[p] /\ p # k
      BY <1>1, <1>2, <2>4
    <3> QED
      BY <2>1, <3>1 DEF InOrderExcept
  <2> QED
    BY <1>2, <2>2, <2>3, <2>4
<1> QED
  BY <1>2, <1>3, <1>4, <1>5

-----------------------------------------------------------------------------
(* Placing an event loses no event: how often x is in a part of a queue.    *)

SlotsOf(s, lo, hi, x) == {i \in lo..hi : s[i] = x}
Copies(s, lo, hi, x) == Cardinality(SlotsOf(s, lo, hi, x))
Once(c) == IF c THEN 1 ELSE 0

LEMMA SlotsAreFinite ==
    ASSUME NEW s, NEW lo \in Nat, NEW hi \in Nat, NEW x
    PROVE  IsFiniteSet(SlotsOf(s, lo, hi, x)) /\ Copies(s, lo, hi, x) \in Nat
<1>1. IsFiniteSet(lo..hi)
  BY FS_Interval
<1>2. SlotsOf(s, lo, hi, x) \in SUBSET (lo..hi)
  BY DEF SlotsOf
<1>3. IsFiniteSet(SlotsOf(s, lo, hi, x))
  BY <1>1, <1>2, FS_Subset
<1> QED
  BY <1>3, FS_CardinalityType DEF Copies

LEMMA SameCopies ==
    ASSUME NEW s, NEW r, NEW lo, NEW hi, NEW x, \A i \in lo..hi : s[i] = r[i]
    PROVE  Copies(s, lo, hi, x) = Copies(r, lo, hi, x)
BY DEF Copies, SlotsOf

LEMMA NoCopies ==
    ASSUME NEW s, NEW lo \in Nat, NEW hi \in Nat, NEW x, \A i \in lo..hi : s[i] # x
    PROVE  Copies(s, lo, hi, x) = 0
<1>1. SlotsOf(s, lo, hi, x) = {}
  BY DEF SlotsOf
<1> QED
  BY <1>1, FS_EmptySet DEF Copies

LEMMA SomeCopy ==
    ASSUME NEW s, NEW lo \in Nat, NEW hi \in Nat, NEW x, Copies(s, lo, hi, x) # 0
    PROVE  \E i \in lo..hi : s[i] = x
BY NoCopies

(* The event in slot k gives way to another.                                *)
LEMMA CopiesReplaced ==
    ASSUME NEW s, NEW r, NEW lo \in Nat, NEW hi \in Nat, NEW k \in lo..hi, NEW x,
           \A i \in lo..hi : i # k => s[i] = r[i]
    PROVE  Copies(s, lo, hi, x) + Once(r[k] = x) = Copies(r, lo, hi, x) + Once(s[k] = x)
<1> DEFINE S == SlotsOf(s, lo, hi, x)
           R == SlotsOf(r, lo, hi, x)
<1>1. IsFiniteSet(S) /\ IsFiniteSet(R) /\ Cardinality(S) \in Nat /\ Cardinality(R) \in Nat
  BY SlotsAreFinite DEF Copies
<1>2. S \ {k} = R \ {k}
  BY DEF SlotsOf
<1>3. (k \in S <=> s[k] = x) /\ (k \in R <=> r[k] = x)
  BY DEF SlotsOf
<1> HIDE DEF S, R
<1>4. Cardinality(S \ {k}) = IF k \in S THEN Cardinality(S) - 1 ELSE Cardinality(S)
  BY <1>1, FS_RemoveElement
<1>5. Cardinality(R \ {k}) = IF k \in R THEN Cardinality(R) - 1 ELSE Cardinality(R)
  BY <1>1, FS_RemoveElement
<1>6. Cardinality(S) + Once(r[k] = x) = Cardinality(R) + Once(s[k] = x)
  BY <1>1, <1>2, <1>3, <1>4, <1>5 DEF Once
<1> QED
  BY <1>6 DEF S, R, Copies

LEMMA CopiesWithLast ==
    ASSUME NEW s, NEW lo \in Nat, NEW hi \in Nat, lo <= hi + 1, NEW x
    PROVE  Copies(s, lo, hi + 1, x) = Copies(s, lo, hi, x) + Once(s[hi + 1] = x)
<1> DEFINE S == SlotsOf(s, lo, hi, x)
           R == SlotsOf(s, lo, hi + 1, x)
<1>1. IsFiniteSet(S) /\ Cardinality(S) \in Nat
  BY SlotsAreFinite DEF Copies
<1>2. hi + 1 \notin S /\ R = IF s[hi + 1] = x THEN S \cup {hi + 1} ELSE S
  BY DEF SlotsOf
<1> HIDE DEF S, R
<1>3. Cardinality(S \cup {hi + 1}) = Cardinality(S) + 1
  BY <1>1, <1>2, FS_AddElement
<1>4. Cardinality(R) = Cardinality(S) + Once(s[hi + 1] = x)
  BY <1>1, <1>2, <1>3 DEF Once
<1> QED
  BY <1>4 DEF S, R, Copies

LEMMA CopiesWithFirst ==
    ASSUME NEW s, NEW lo \in Nat, NEW hi \in Nat, lo <= hi, NEW x
    PROVE  Copies(s, lo, hi, x) = Copies(s, lo + 1, hi, x) + Once(s[lo] = x)
<1> DEFINE S == SlotsOf(s, lo + 1, hi, x)
           R == SlotsOf(s, lo, hi, x)
<1>1. IsFiniteSet(S) /\ Cardinality(S) \in Nat
  BY SlotsAreFinite DEF Copies
<1>2. lo \notin S /\ R = IF s[lo] = x THEN S \cup {lo} ELSE S
  BY DEF SlotsOf
<1> HIDE DEF S, R
<1>3. Cardinality(S \cup {lo}) = Cardinality(S) + 1
  BY <1>1, <1>2, FS_AddElement
<1>4. Cardinality(R) = Cardinality(S) + Once(s[lo] = x)
  BY <1>1, <1>2, <1>3 DEF Once
<1> QED
  BY <1>4 DEF S, R, Copies

LEMMA CopiesPermuted ==
    ASSUME NEW lo \in Nat, NEW hi \in Nat, NEW p \in Injection(lo..hi, lo..hi),
           NEW s, NEW r, \A i \in lo..hi : s[i] = r[p[i]], NEW x
    PROVE  Copies(s, lo, hi, x) = Copies(r, lo, hi, x)
<1> DEFINE I == lo..hi
           S == SlotsOf(s, lo, hi, x)
           R == SlotsOf(r, lo, hi, x)
           f == [i \in S |-> p[i]]
<1>1. p \in [I -> I] /\ \A a \in I, b \in I : p[a] = p[b] => a = b
  BY Fun_InjectionProperties
<1>2. p \in Surjection(I, I)
  BY FS_Interval, FS_Injection
<1>3. \A t \in I : \E a \in I : p[a] = t
  BY <1>2 DEF Surjection
<1>4. S \subseteq I /\ R \subseteq I /\ \A i \in I : (i \in S <=> s[i] = x) /\ (i \in R <=> r[i] = x)
  BY DEF SlotsOf
<1>5. IsFiniteSet(S)
  BY SlotsAreFinite
<1> HIDE DEF S, R
<1>6. f \in [S -> R]
  BY <1>1, <1>4
<1>7. f \in Injection(S, R)
  BY <1>1, <1>4, <1>6 DEF Injection, IsInjective
<1>8. f \in Surjection(S, R)
  <2>1. ASSUME NEW t \in R PROVE \E a \in S : f[a] = t
    <3>1. PICK a \in I : p[a] = t
      BY <1>3, <1>4
    <3>2. s[a] = x
      BY <1>4, <3>1
    <3>3. a \in S /\ f[a] = t
      BY <1>4, <3>1, <3>2
    <3> QED
      BY <3>3
  <2> QED
    BY <1>6, <2>1 DEF Surjection
<1>9. ExistsBijection(S, R)
  BY <1>7, <1>8 DEF ExistsBijection, Bijection
<1>10. Cardinality(R) = Cardinality(S)
  BY <1>5, <1>9, FS_Bijection
<1> QED
  BY <1>10 DEF S, R, Copies

GivesWay(q, n, k, e, r) == \A i \in 1..n : r[i] = IF i = k THEN e ELSE q[i]

LEMMA PlaceUpCopies ==
    ASSUME NEW n \in Nat, NEW k \in 1..n, NEW A, ChainUp(k, A), NEW t \in A, NEW e,
           NEW q, NEW r, GivesWay(q, n, k, e, r), NEW s, MovedUp(q, n, e, A, t, s), NEW x
    PROVE  Copies(s, 1, n, x) = Copies(r, 1, n, x)
<1> USE DEF GivesWay, MovedUp
<1>1. /\ A \subseteq 1..k /\ k \in A
      /\ \A a \in A : a > 1 => a \div 2 \in A
      /\ \A a \in A, b \in A : b < a => b <= a \div 2
  BY DEF ChainUp
<1> DEFINE p == [i \in 1..n |-> IF i = t THEN k ELSE IF i \in A /\ i > t THEN i \div 2 ELSE i]
<1>2. ASSUME NEW i \in 1..n, i \in A, i > t
      PROVE  i \div 2 \in A /\ i \div 2 >= t /\ i \div 2 < i /\ i \div 2 # k /\ i \div 2 \in 1..n
  BY <1>1, <1>2, Parents
<1>3. p \in [1..n -> 1..n]
  BY <1>2
<1>4. ASSUME NEW a \in 1..n, NEW b \in 1..n, p[a] = p[b], a < b PROVE FALSE
  <2>1. k >= t /\ t \in 1..n /\ k \in 1..n
    BY <1>1
  <2>2. CASE b = t
    <3>1. p[b] = k /\ p[a] = a
      BY <1>4, <2>1, <2>2
    <3> QED
      BY <1>1, <1>4, <2>1, <2>2, <3>1
  <2>3. CASE b \in A /\ b > t
    <3>1. p[b] = b \div 2
      BY <2>3
    <3>2. CASE a \in A /\ a > t
      <4>1. p[a] = a \div 2 /\ a \div 2 < a /\ a <= b \div 2 /\ b \div 2 \in 1..n /\ a \div 2 \in 1..n
        BY <1>1, <1>2, <1>4, <2>3, <3>2
      <4> QED
        BY <1>4, <3>1, <4>1
    <3>3. CASE a = t
      BY <1>2, <1>4, <2>3, <3>1, <3>3
    <3>4. CASE a # t /\ ~(a \in A /\ a > t)
      <4>1. p[a] = a
        BY <3>4
      <4> QED
        BY <1>2, <1>4, <2>3, <3>1, <3>4, <4>1
    <3> QED
      BY <3>2, <3>3, <3>4
  <2>4. CASE b # t /\ ~(b \in A /\ b > t)
    <3>1. p[b] = b
      BY <2>4
    <3>2. CASE a \in A /\ a > t
      <4>1. p[a] = a \div 2 /\ a \div 2 < a /\ a \div 2 \in 1..n
        BY <1>2, <3>2
      <4> QED
        BY <1>4, <3>1, <4>1
    <3>3. CASE a = t
      <4>1. p[a] = k /\ b = k
        BY <1>4, <3>1, <3>3
      <4> QED
        BY <1>1, <1>4, <2>1, <2>4, <3>3, <4>1
    <3>4. CASE a # t /\ ~(a \in A /\ a > t)
      BY <1>4, <3>1, <3>4
    <3> QED
      BY <3>2, <3>3, <3>4
  <2> QED
    BY <2>2, <2>3, <2>4
<1>5. p \in Injection(1..n, 1..n)
  <2>1. ASSUME NEW a \in 1..n, NEW b \in 1..n, p[a] = p[b] PROVE a = b
    <3> HIDE DEF p
    <3>1. a < b \/ b < a \/ a = b
      OBVIOUS
    <3> QED
      BY <1>4, <2>1, <3>1
  <2> QED
    BY <1>3, <2>1 DEF Injection, IsInjective
<1>6. ASSUME NEW i \in 1..n PROVE s[i] = r[p[i]]
  <2>1. CASE i = t
    BY <1>1, <2>1
  <2>2. CASE i # t /\ i \in A /\ i > t
    <3>1. p[i] = i \div 2 /\ i \div 2 # k /\ i \div 2 \in 1..n
      BY <1>2, <2>2
    <3>2. s[i] = q[i \div 2]
      BY <2>2
    <3> HIDE DEF p
    <3> QED
      BY <3>1, <3>2
  <2>3. CASE i # t /\ ~(i \in A /\ i > t)
    BY <1>1, <2>3
  <2> QED
    BY <2>1, <2>2, <2>3
<1> HIDE DEF p
<1> QED
  BY <1>5, <1>6, CopiesPermuted

LEMMA PlaceDownCopies ==
    ASSUME NEW n \in Nat, NEW k \in 1..n, NEW lo \in 1..k, NEW e, NEW b,
           NEW S, NEW last, NEW next, NEW q, PathDown(b, k, e, n, S, last, next),
           NEW r, GivesWay(q, n, k, e, r), NEW s, MovedDown(q, n, e, S, last, next, s), NEW x
    PROVE  Copies(s, lo, n, x) = Copies(r, lo, n, x)
<1> USE DEF GivesWay, MovedDown
<1>1. /\ S \subseteq k..n /\ k \in S /\ last \in S
      /\ \A y \in S : y # last => next[y] \in S /\ next[y] \div 2 = y /\ next[y] > 1
  BY DEF PathDown
<1> DEFINE p == [i \in lo..n |-> IF i = last THEN k ELSE IF i \in S THEN next[i] ELSE i]
<1>2. ASSUME NEW i \in S, i # last
      PROVE  next[i] \in S /\ next[i] > i /\ next[i] # k /\ next[i] \in lo..n /\ next[i] \in 1..n
  <2> DEFINE c == next[i]
  <2>1. c \in S /\ c \div 2 = i /\ c > 1
    BY <1>1, <1>2
  <2> HIDE DEF c
  <2>2. c \in k..n /\ i \in k..n
    BY <1>1, <2>1
  <2>3. c > i
    BY <2>1, <2>2, Parents
  <2>4. c \in S /\ c > i /\ c # k /\ c \in lo..n /\ c \in 1..n
    BY <2>1, <2>2, <2>3
  <2> QED
    BY <2>4 DEF c
<1>3. p \in [lo..n -> lo..n]
  BY <1>1, <1>2
<1>4. ASSUME NEW i \in lo..n, NEW j \in lo..n, p[i] = p[j] PROVE i = j
  <2>1. CASE i = last
    BY <1>1, <1>2, <1>4, <2>1
  <2>2. CASE j = last
    BY <1>1, <1>2, <1>4, <2>2
  <2>3. CASE i \in S /\ i # last /\ j # last
    BY <1>1, <1>2, <1>4, <2>3
  <2>4. CASE i \notin S /\ i # last /\ j # last
    BY <1>1, <1>2, <1>4, <2>4
  <2> QED
    BY <2>1, <2>2, <2>3, <2>4
<1>5. p \in Injection(lo..n, lo..n)
  BY <1>3, <1>4 DEF Injection, IsInjective
<1>6. \A i \in lo..n : s[i] = r[p[i]]
  BY <1>1, <1>2
<1> HIDE DEF p
<1> QED
  BY <1>5, <1>6, CopiesPermuted

-----------------------------------------------------------------------------
(* What the operations on a queue return.                                   *)

InOrder(q) == InOrderTo(q, Len(q))

LEMMA ChainIsPath ==
    ASSUME NEW n \in Nat, NEW q, NEW e, NEW k \in 1..n, NEW path \in Seq(1..n),
           ChainDown(q, k, e, n, <<k>> \o path), NEW b, DOMAIN b = 1..n
    PROVE  \E S, last, next :
              /\ PathDown(q, k, e, n, S, last, next)
              /\ path # <<>> => last # k
              /\ DOMAIN PlaceDown(b, k, path, e) = 1..n
              /\ MovedDown(b, n, e, S, last, next, PlaceDown(b, k, path, e))
<1> DEFINE s == <<k>> \o path
           m == Len(path)
           last == s[m + 1]
           S == {s[a] : a \in 1..(m + 1)}
           next == [x \in S |-> path[CHOOSE j \in DOMAIN path : s[j] = x]]
<1>1. /\ m \in Nat /\ s \in Seq(1..n) /\ Len(s) = m + 1 /\ s[1] = k /\ DOMAIN path = 1..m
      /\ \A a \in 1..m : s[a + 1] = path[a]
  BY DEF ChainDown
<1>2. ChainDown(q, k, e, n, s)
  OBVIOUS
<1>3. /\ PlaceDown(b, k, path, e) = [i \in 1..n |->
             IF i = Last(s) THEN e
             ELSE IF \E j \in DOMAIN path : s[j] = i
                  THEN b[path[CHOOSE j \in DOMAIN path : s[j] = i]]
                  ELSE b[i]]
      /\ Last(s) = last
  BY <1>1 DEF PlaceDown, Last
<1> HIDE DEF s, m
<1>4. \A a \in 1..(m + 1) : s[a] \in 1..n
  <2>1. s \in Seq(1..n) /\ Len(s) = m + 1
    BY <1>1
  <2> QED
    BY ONLY <2>1
<1>5. \A a \in 1..(m + 1), c \in 1..(m + 1) : a < c => s[a] < s[c]
  BY <1>1, <1>2 DEF ChainDown
<1>6. \A a \in 1..(m + 1), c \in 1..(m + 1) : s[a] = s[c] => a = c
  <2> SUFFICES ASSUME NEW a \in 1..(m + 1), NEW c \in 1..(m + 1), s[a] = s[c] PROVE a = c
    OBVIOUS
  <2>1. ~(a < c) /\ ~(c < a)
    BY <1>4, <1>5
  <2> QED
    BY <1>1, <2>1
<1>7. \A a \in 1..m : s[a] \in S /\ s[a] # last /\ next[s[a]] = s[a + 1]
  <2> SUFFICES ASSUME NEW a \in 1..m
               PROVE  s[a] \in S /\ s[a] # last /\ next[s[a]] = s[a + 1]
    OBVIOUS
  <2>1. a \in 1..(m + 1) /\ m + 1 \in 1..(m + 1) /\ a # m + 1 /\ a \in DOMAIN path
    BY <1>1
  <2>2. s[a] \in S /\ s[a] # last
    BY <1>6, <2>1
  <2> DEFINE j == CHOOSE j \in DOMAIN path : s[j] = s[a]
  <2>3. j \in DOMAIN path /\ s[j] = s[a]
    BY <2>1
  <2>4. next[s[a]] = path[j]
    BY <2>2
  <2> HIDE DEF j
  <2>5. j = a
    BY <1>1, <1>6, <2>1, <2>3
  <2> QED
    BY <1>1, <2>2, <2>4, <2>5
<1>8. \A x \in S : x # last => \E a \in 1..m : x = s[a]
  BY <1>1
<1>9. \A i \in 1..n : PlaceDown(b, k, path, e)[i] =
          IF i = last THEN e ELSE IF i \in S THEN b[next[i]] ELSE b[i]
  <2> SUFFICES ASSUME NEW i \in 1..n, i # last
               PROVE  PlaceDown(b, k, path, e)[i] = IF i \in S THEN b[next[i]] ELSE b[i]
    BY <1>3
  <2> HIDE DEF S, next, last
  <2>1. i \in S => \E j \in DOMAIN path : s[j] = i
    BY <1>1, <1>8
  <2>2. (\E j \in DOMAIN path : s[j] = i) => i \in S
    BY <1>1, <1>7
  <2>3. i \in S => next[i] = path[CHOOSE j \in DOMAIN path : s[j] = i]
    BY DEF S, next
  <2> QED
    BY <1>3, <2>1, <2>2, <2>3
<1>10. S \subseteq k..n /\ k \in S /\ last \in S
  <2>1. 1 \in 1..(m + 1) /\ m + 1 \in 1..(m + 1)
    BY <1>1
  <2>2. ASSUME NEW a \in 1..(m + 1) PROVE s[a] \in k..n
    <3>1. s[a] \in 1..n
      BY <1>4
    <3>2. 1 < a => s[1] < s[a]
      BY <1>5, <2>1
    <3>3. a = 1 \/ 1 < a
      BY <1>1
    <3> QED
      BY <1>1, <3>1, <3>2, <3>3
  <2> QED
    BY <1>1, <2>1, <2>2
<1>11. ASSUME NEW x \in S, x # last
       PROVE  /\ next[x] \in S /\ next[x] \div 2 = x /\ next[x] > 1
              /\ Rank[q[next[x]]] < Rank[e]
              /\ \A c \in 2..n : c \div 2 = x => Rank[q[next[x]]] <= Rank[q[c]]
  <2>1. PICK a \in 1..m : x = s[a]
    BY <1>8, <1>11
  <2>2. a \in 1..(Len(s) - 1) /\ a \in 1..(m + 1) /\ a + 1 \in 1..(m + 1)
    BY <1>1
  <2>3. /\ s[a + 1] \div 2 = s[a]
        /\ Rank[q[s[a + 1]]] < Rank[e]
        /\ \A c \in 2..n : c \div 2 = s[a] => Rank[q[s[a + 1]]] <= Rank[q[c]]
    BY <1>2, <2>2 DEF ChainDown
  <2>4. next[x] = s[a + 1]
    BY <1>7, <2>1
  <2>5. s[a + 1] \in S /\ s[a + 1] > 1
    <3>1. s[a + 1] \in S
      BY <2>2
    <3>2. s[a] \in 1..n /\ s[a + 1] \in 1..n
      BY <1>4, <2>2
    <3>3. a < a + 1
      BY <2>2
    <3>4. s[a] < s[a + 1]
      BY <1>5, <2>2, <3>3
    <3> HIDE DEF S
    <3> QED
      BY <3>1, <3>2, <3>4
  <2> HIDE DEF S, next, last
  <2> QED
    BY <2>1, <2>3, <2>4, <2>5
<1>12. \A c \in 2..n : c \div 2 = last => Rank[e] <= Rank[q[c]]
  BY <1>1, <1>2 DEF ChainDown
<1>13. ASSUME NEW y \in S, y # k PROVE y \div 2 \in S /\ y \div 2 # last /\ next[y \div 2] = y
  <2>1. PICK a \in 1..(m + 1) : y = s[a]
    OBVIOUS
  <2>2. a # 1
    BY <1>1, <1>13, <2>1
  <2>3. a - 1 \in 1..m /\ (a - 1) + 1 = a /\ a - 1 \in 1..(Len(s) - 1)
    BY <1>1, <2>2
  <2>4. s[(a - 1) + 1] \div 2 = s[a - 1]
    BY <1>2, <2>3 DEF ChainDown
  <2>5. s[a - 1] \in S /\ s[a - 1] # last /\ next[s[a - 1]] = s[(a - 1) + 1]
    BY <1>7, <2>3
  <2> HIDE DEF S, next, last
  <2> QED
    BY <2>1, <2>3, <2>4, <2>5
<1>14. PathDown(q, k, e, n, S, last, next)
  BY <1>10, <1>11, <1>12, <1>13 DEF PathDown
<1>15. path # <<>> => last # k
  <2> SUFFICES ASSUME path # <<>> PROVE last # k
    OBVIOUS
  <2>1. m # 0
    BY DEF m
  <2>2. 1 \in 1..(m + 1) /\ m + 1 \in 1..(m + 1) /\ m + 1 # 1
    BY <1>1, <2>1
  <2> QED
    BY <1>1, <1>6, <2>2
<1>16. DOMAIN PlaceDown(b, k, path, e) = 1..n
  BY <1>3
<1>17. MovedDown(b, n, e, S, last, next, PlaceDown(b, k, path, e))
  BY <1>9 DEF MovedDown
<1> HIDE DEF S, last, next
<1> QED
  BY <1>14, <1>15, <1>16, <1>17

LEMMA RanksAreNatural == \A e \in Events : Rank[e] \in Nat
BY RankAssumption

LEMMA PlaceUpSlots ==
    ASSUME NEW n \in Nat, NEW q, DOMAIN q = 1..n, NEW k, NEW t, NEW e
    PROVE  /\ DOMAIN PlaceUp(q, k, t, e) = 1..n
           /\ MovedUp(q, n, e, AncestorsOf(k), t, PlaceUp(q, k, t, e))
BY DEF PlaceUp, MovedUp

LEMMA IsQueue ==
    ASSUME NEW n \in Nat, NEW s, DOMAIN s = 1..n, s = [i \in DOMAIN s |-> s[i]],
           \A i \in 1..n : s[i] \in Events
    PROVE  s \in Seq(Events) /\ Len(s) = n
OBVIOUS

LEMMA OfferedFacts ==
    ASSUME NEW q \in Seq(Events), NEW e \in Events
    PROVE  /\ Offered(q, e) \in Seq(Events) /\ Len(Offered(q, e)) = Len(q) + 1
           /\ InOrder(q) => InOrder(Offered(q, e))
           /\ \A x : Copies(Offered(q, e), 1, Len(q) + 1, x) = Copies(q, 1, Len(q), x) + Once(e = x)
<1> DEFINE k == Len(q) + 1
           r == Append(q, e)
           A == AncestorsOf(k)
           t == SiftUpTarget(q, k, e)
           s == Offered(q, e)
<1>1. /\ k \in Nat /\ k > 0 /\ k \in 1..k /\ Len(q) \in Nat
      /\ r \in Seq(Events) /\ Len(r) = k /\ DOMAIN r = 1..k /\ r[k] = e
      /\ \A i \in 1..(k - 1) : r[i] = q[i] /\ q[i] \in Events
      /\ \A i \in 1..k : r[i] \in Events
  OBVIOUS
<1>2. ChainUp(k, A) /\ TargetOnChain(q, k, e, A, t)
  BY <1>1, SiftUpFacts
<1>3. s = PlaceUp(r, k, t, e)
  BY DEF Offered
<1> HIDE DEF k, r, t, s
<1>4. DOMAIN s = 1..k /\ MovedUp(r, k, e, A, t, s)
  BY <1>1, <1>3, PlaceUpSlots
<1>5. s = [i \in DOMAIN s |-> s[i]]
  BY <1>3 DEF PlaceUp
<1> HIDE DEF A
<1>6. t \in A /\ A \subseteq 1..k
  BY <1>2 DEF ChainUp, TargetOnChain
<1>7. \A i \in 1..k : i > 1 => i \div 2 \in 1..(k - 1)
  BY <1>1, Parents
<1>8. \A i \in 1..k : s[i] \in Events
  BY <1>1, <1>4, <1>6, <1>7 DEF MovedUp
<1>9. s \in Seq(Events) /\ Len(s) = k
  BY <1>1, <1>4, <1>5, <1>8, IsQueue
<1>10. TargetOnChain(r, k, e, A, t)
  <2>1. \A a \in A : a > 1 => r[a \div 2] = q[a \div 2]
    BY <1>1, <1>6, <1>7
  <2>2. \A a \in A : a > t => a > 1
    BY <1>1, <1>6
  <2> QED
    BY <1>2, <2>1, <2>2 DEF TargetOnChain
<1>11. ASSUME InOrder(q) PROVE InOrderTo(s, k)
  <2>1. RanksTo(r, k)
    BY <1>1, RanksAreNatural DEF RanksTo
  <2>2. \A c \in 2..k : c \div 2 # k
    BY <1>7
  <2>3. InOrderExcept(r, k, k)
    <3> SUFFICES ASSUME NEW j \in 2..k, j # k PROVE Rank[r[j \div 2]] <= Rank[r[j]]
      BY DEF InOrderExcept
    <3>1. j \in 2..Len(q) /\ j \in 1..(k - 1) /\ j \div 2 \in 1..(k - 1)
      BY <1>1, <1>7 DEF k
    <3>2. Rank[q[j \div 2]] <= Rank[q[j]]
      BY <1>11, <3>1 DEF InOrder, InOrderTo
    <3> QED
      BY <1>1, <3>1, <3>2
  <2>4. GapInOrder(r, k, k)
    BY <2>2 DEF GapInOrder
  <2>5. \A c \in 2..k : c \div 2 = k => Rank[e] <= Rank[r[c]]
    BY <2>2
  <2>6. Rank[e] \in Nat /\ k \in Nat /\ k \in 1..k
    BY <1>1, RanksAreNatural
  <2> QED
    BY <1>2, <1>4, <1>10, <2>1, <2>3, <2>4, <2>5, <2>6, PlaceUpOrder
<1>12. ASSUME NEW x PROVE Copies(s, 1, k, x) = Copies(q, 1, k - 1, x) + Once(e = x)
  <2>1. Copies(s, 1, k, x) = Copies(r, 1, k, x)
    <3>1. GivesWay(r, k, k, e, r)
      BY <1>1 DEF GivesWay
    <3>2. k \in Nat /\ k \in 1..k
      BY <1>1
    <3> QED
      BY <1>2, <1>4, <1>6, <3>1, <3>2, PlaceUpCopies
  <2>2. Copies(r, 1, (k - 1) + 1, x) = Copies(r, 1, k - 1, x) + Once(r[(k - 1) + 1] = x)
    <3>1. k - 1 \in Nat /\ 1 \in Nat /\ 1 <= (k - 1) + 1
      BY <1>1
    <3> QED
      BY <3>1, CopiesWithLast
  <2>3. Copies(r, 1, k - 1, x) = Copies(q, 1, k - 1, x)
    BY <1>1, SameCopies
  <2>4. (k - 1) + 1 = k
    BY <1>1
  <2> QED
    BY <1>1, <2>1, <2>2, <2>3, <2>4
<1>13. InOrder(q) => InOrder(s)
  BY <1>9, <1>11 DEF InOrder
<1>14. k - 1 = Len(q) /\ k = Len(q) + 1
  BY <1>1 DEF k
<1> QED
  BY <1>9, <1>12, <1>13, <1>14 DEF s

(* What filling the gap in slot i with the last event returns.              *)
FillsGap(q, i, r) ==
    /\ r \in Seq(Events) /\ Len(r) = Len(q) - 1
    /\ InOrder(q) => InOrder(r)
    /\ \A x : Copies(r, 1, Len(r), x) + Once(q[i] = x) = Copies(q, 1, Len(q), x)

(* The slots from the gap on hold the events that were behind it.           *)
KeepsTheRest(q, i, r) == \A x : Copies(r, i, Len(r), x) = Copies(q, i + 1, Len(q), x)

LEMMA FrontOfQueue ==
    ASSUME NEW q \in Seq(Events), Len(q) > 0
    PROVE  /\ Front(q) \in Seq(Events) /\ Len(Front(q)) = Len(q) - 1
           /\ DOMAIN Front(q) = 1..(Len(q) - 1)
           /\ \A i \in 1..(Len(q) - 1) : Front(q)[i] = q[i]
           /\ Last(q) = q[Len(q)] /\ Last(q) \in Events
<1>1. Len(q) \in Nat /\ \A i \in 1..Len(q) : q[i] \in Events
  OBVIOUS
<1> DEFINE n == Len(q) - 1
<1>2. n \in Nat /\ 1 <= n + 1 /\ n <= Len(q)
  BY <1>1
<1>3. SubSeq(q, 1, n) = [i \in 1..n |-> q[i]]
  BY <1>2
<1>4. DOMAIN SubSeq(q, 1, n) = 1..n /\ \A i \in 1..n : SubSeq(q, 1, n)[i] = q[i]
  BY <1>3
<1>5. \A i \in 1..n : q[i] \in Events
  BY <1>1
<1>6. SubSeq(q, 1, n) \in Seq(Events) /\ Len(SubSeq(q, 1, n)) = n
  <2>1. SubSeq(q, 1, n) \in [1..n -> Events]
    BY <1>3, <1>5
  <2> HIDE DEF n
  <2>2. SubSeq(q, 1, n) = [i \in 1..n |-> SubSeq(q, 1, n)[i]]
    BY <2>1
  <2> QED
    BY <1>2, <1>4, <1>5, <2>1, <2>2, IsQueue
<1> QED
  BY <1>1, <1>4, <1>6 DEF Front, Last

LEMMA LastTakenOff ==
    ASSUME NEW q \in Seq(Events), Len(q) > 0
    PROVE  FillsGap(q, Len(q), Front(q)) /\ KeepsTheRest(q, Len(q), Front(q))
<1> DEFINE n == Len(q) - 1
           f == Front(q)
<1>1. n \in Nat /\ n + 1 = Len(q) /\ 1 \in Nat /\ 1 <= n + 1
  OBVIOUS
<1>2. /\ f \in Seq(Events) /\ Len(f) = n
      /\ \A i \in 1..n : f[i] = q[i]
  BY FrontOfQueue
<1> HIDE DEF n, f
<1>3. InOrder(q) => InOrder(f)
  <2> SUFFICES ASSUME InOrder(q), NEW i \in 2..n PROVE Rank[f[i \div 2]] <= Rank[f[i]]
    BY <1>2 DEF InOrder, InOrderTo
  <2>1. i \div 2 \in 1..n /\ i \in 1..n /\ i \in 2..Len(q)
    BY <1>1, Parents
  <2> QED
    BY <1>2, <2>1 DEF InOrder, InOrderTo
<1>4. ASSUME NEW x PROVE Copies(f, 1, n, x) + Once(q[Len(q)] = x) = Copies(q, 1, Len(q), x)
  <2>1. Copies(q, 1, n + 1, x) = Copies(q, 1, n, x) + Once(q[n + 1] = x)
    BY <1>1, CopiesWithLast
  <2>2. Copies(f, 1, n, x) = Copies(q, 1, n, x)
    BY <1>2, SameCopies
  <2> QED
    BY <1>1, <2>1, <2>2
<1>5. ASSUME NEW x PROVE Copies(f, n + 1, n, x) = Copies(q, (n + 1) + 1, n + 1, x)
  <2>1. (n + 1)..n = {} /\ ((n + 1) + 1)..(n + 1) = {}
    BY <1>1
  <2> QED
    BY <2>1 DEF Copies, SlotsOf
<1> QED
  BY <1>1, <1>2, <1>3, <1>4, <1>5 DEF FillsGap, KeepsTheRest, f, n

LEMMA GapCopies ==
    ASSUME NEW q \in Seq(Events), NEW i \in 1..(Len(q) - 1), NEW g,
           GivesWay(q, Len(q) - 1, i, Last(q), g), NEW x
    PROVE  /\ Copies(g, 1, Len(q) - 1, x) + Once(q[i] = x) = Copies(q, 1, Len(q), x)
           /\ Copies(g, i, Len(q) - 1, x) = Copies(q, i + 1, Len(q), x)
<1> DEFINE n == Len(q) - 1
           e == Last(q)
<1>1. n \in Nat /\ n + 1 = Len(q) /\ 1 \in Nat /\ i \in 1..n /\ i \in Nat /\ i + 1 \in Nat
  OBVIOUS
<1>2. e = q[n + 1]
  BY <1>1, FrontOfQueue
<1>3. g[i] = e /\ \A j \in 1..n : j # i => g[j] = q[j]
  BY <1>1 DEF GivesWay
<1> HIDE DEF n, e
<1>4. ASSUME NEW lo \in 1..i
      PROVE  Copies(g, lo, n, x) + Once(q[i] = x) = Copies(q, lo, n + 1, x)
  <2>1. lo \in Nat /\ i \in lo..n /\ lo <= n + 1 /\ lo..n \subseteq 1..n
    BY <1>1
  <2>2. \A j \in lo..n : j # i => g[j] = q[j]
    BY <1>3, <2>1
  <2>3. Copies(g, lo, n, x) + Once(q[i] = x) = Copies(q, lo, n, x) + Once(g[i] = x)
    BY <1>1, <2>1, <2>2, CopiesReplaced
  <2>4. Copies(q, lo, n + 1, x) = Copies(q, lo, n, x) + Once(q[n + 1] = x)
    BY <1>1, <2>1, CopiesWithLast
  <2> QED
    BY <1>2, <1>3, <2>3, <2>4
<1>5. Copies(q, i, n + 1, x) = Copies(q, i + 1, n + 1, x) + Once(q[i] = x)
  <2>1. n + 1 \in Nat /\ i <= n + 1
    BY <1>1
  <2> QED
    BY <1>1, <2>1, CopiesWithFirst
<1>6. Copies(g, i, n, x) + Once(q[i] = x) = Copies(q, i, n + 1, x)
  BY <1>1, <1>4
<1>7. Copies(g, 1, n, x) + Once(q[i] = x) = Copies(q, 1, n + 1, x)
  BY <1>1, <1>4
<1>8. /\ Copies(g, i, n, x) \in Nat /\ Copies(q, i + 1, n + 1, x) \in Nat /\ n + 1 \in Nat
      /\ Once(q[i] = x) \in Nat
  BY <1>1, SlotsAreFinite DEF Once
<1>9. Copies(g, i, n, x) = Copies(q, i + 1, n + 1, x)
  BY <1>5, <1>6, <1>8
<1> QED
  BY <1>1, <1>7, <1>9 DEF n

LEMMA GapOrder ==
    ASSUME NEW q \in Seq(Events), InOrder(q), NEW i \in 1..(Len(q) - 1),
           NEW b, \A j \in 1..(Len(q) - 1) : b[j] = q[j]
    PROVE  /\ RanksTo(b, Len(q) - 1)
           /\ InOrderExcept(b, Len(q) - 1, i) /\ GapInOrder(b, Len(q) - 1, i)
<1> DEFINE n == Len(q) - 1
<1>1. n \in Nat /\ n + 1 = Len(q) /\ \A j \in 1..n : b[j] = q[j] /\ b[j] \in Events
  OBVIOUS
<1> HIDE DEF n
<1>2. \A j \in 1..n : Rank[b[j]] \in Nat
  BY <1>1, RanksAreNatural
<1>3. ASSUME NEW j \in 2..n
      PROVE  j \div 2 \in 1..n /\ j \in 1..n /\ Rank[b[j \div 2]] <= Rank[b[j]]
  <2>1. j \in 2..Len(q) /\ j \div 2 \in 1..n /\ j \in 1..n
    BY <1>1, Parents
  <2>2. Rank[q[j \div 2]] <= Rank[q[j]]
    BY <2>1 DEF InOrder, InOrderTo
  <2> QED
    BY <1>1, <2>1, <2>2
<1>4. InOrderExcept(b, n, i)
  BY <1>3 DEF InOrderExcept
<1>5. GapInOrder(b, n, i)
  <2> SUFFICES ASSUME i > 1, NEW c \in 2..n, c \div 2 = i
               PROVE  Rank[b[i \div 2]] <= Rank[b[c]]
    BY DEF GapInOrder
  <2>1. i \in 2..n
    BY DEF n
  <2>2. /\ Rank[b[i \div 2]] <= Rank[b[i]] /\ Rank[b[i]] <= Rank[b[c]]
        /\ i \div 2 \in 1..n /\ i \in 1..n /\ c \in 1..n
    BY <1>3, <2>1
  <2> QED
    BY <1>2, <2>2
<1> QED
  BY <1>2, <1>4, <1>5 DEF RanksTo, n

LEMMA FilledDown ==
    ASSUME NEW q \in Seq(Events), NEW i \in 1..(Len(q) - 1),
           i = 1 \/ SiftDownPath(q, i, Last(q), Len(q) - 1) # <<>>,
           NEW r, r = PlaceDown(Front(q), i, SiftDownPath(q, i, Last(q), Len(q) - 1), Last(q))
    PROVE  FillsGap(q, i, r) /\ KeepsTheRest(q, i, r)
<1> DEFINE n == Len(q) - 1
           b == Front(q)
           e == Last(q)
           path == SiftDownPath(q, i, e, n)
           g == [j \in 1..n |-> IF j = i THEN e ELSE b[j]]
<1>1. /\ n \in Nat /\ n + 1 = Len(q) /\ Len(q) > 0 /\ i \in 1..n
      /\ \A j \in 1..n : q[j] \in Events
  OBVIOUS
<1>2. /\ DOMAIN b = 1..n /\ \A j \in 1..n : b[j] = q[j]
      /\ e \in Events /\ Rank[e] \in Nat
  BY <1>1, FrontOfQueue, RanksAreNatural
<1>3. \A j \in 1..n : Rank[q[j]] \in Nat
  BY <1>1, RanksAreNatural
<1>4. r = PlaceDown(b, i, path, e) /\ (i = 1 \/ path # <<>>)
  OBVIOUS
<1>5. GivesWay(b, n, i, e, g) /\ GivesWay(q, n, i, e, g)
  BY <1>2 DEF GivesWay
<1> HIDE DEF n, b, e
<1>6. path \in Seq(1..n) /\ ChainDown(q, i, e, n, <<i>> \o path)
  BY <1>1, <1>2, <1>3, SiftDownFacts
<1> HIDE DEF path, g
<1>7. PICK S, last, next :
        /\ PathDown(q, i, e, n, S, last, next)
        /\ path # <<>> => last # i
        /\ DOMAIN r = 1..n
        /\ MovedDown(b, n, e, S, last, next, r)
  BY <1>1, <1>2, <1>4, <1>6, ChainIsPath
<1>8. S \subseteq i..n /\ \A y \in S : y # last => next[y] \in S
  BY <1>7 DEF PathDown
<1>9. r \in Seq(Events) /\ Len(r) = n
  <2>1. \A j \in 1..n : r[j] \in Events
    <3>1. S \subseteq 1..n
      BY <1>1, <1>8
    <3>2. ASSUME NEW j \in 1..n
          PROVE  r[j] = IF j = last THEN e ELSE IF j \in S THEN b[next[j]] ELSE b[j]
      BY <1>7 DEF MovedDown
    <3>3. \A j \in 1..n : b[j] \in Events
      BY <1>1, <1>2
    <3>4. \A j \in S : j # last => next[j] \in 1..n
      BY <1>8, <3>1
    <3> QED
      BY <1>2, <3>2, <3>3, <3>4
  <2>2. r = [j \in DOMAIN r |-> r[j]]
    BY <1>4 DEF PlaceDown
  <2>3. n \in Nat /\ DOMAIN r = 1..n
    BY <1>1, <1>7
  <2> QED
    BY <2>1, <2>2, <2>3, IsQueue
<1>10. PathDown(b, i, e, n, S, last, next)
  <2>1. \A c \in 2..n : b[c] = q[c]
    BY <1>2
  <2>2. \A y \in S : y # last => b[next[y]] = q[next[y]]
    <3>1. S \subseteq 1..n
      BY <1>1, <1>8
    <3> QED
      BY <1>2, <1>8, <3>1
  <2> QED
    BY <1>7, <2>1, <2>2 DEF PathDown
<1>11. InOrder(q) => InOrder(r)
  <2> SUFFICES ASSUME InOrder(q) PROVE InOrderTo(r, n)
    BY <1>9 DEF InOrder
  <2>1. RanksTo(b, n) /\ InOrderExcept(b, n, i) /\ GapInOrder(b, n, i)
    BY <1>2, GapOrder DEF n
  <2>2. last = i /\ i > 1 => Rank[b[i \div 2]] <= Rank[e]
    BY <1>1, <1>4, <1>7
  <2> QED
    BY <1>1, <1>2, <1>7, <1>10, <2>1, <2>2, PlaceDownOrder
<1>12. ASSUME NEW x
       PROVE  /\ Copies(r, 1, n, x) = Copies(g, 1, n, x)
              /\ Copies(r, i, n, x) = Copies(g, i, n, x)
  <2>1. 1 \in 1..i /\ i \in 1..i
    BY <1>1
  <2> QED
    BY <1>1, <1>5, <1>7, <1>10, <2>1, PlaceDownCopies
<1>13. ASSUME NEW x
       PROVE  /\ Copies(g, 1, n, x) + Once(q[i] = x) = Copies(q, 1, Len(q), x)
              /\ Copies(g, i, n, x) = Copies(q, i + 1, Len(q), x)
  BY <1>5, GapCopies DEF n, e
<1> QED
  BY <1>9, <1>11, <1>12, <1>13 DEF FillsGap, KeepsTheRest, n

LEMMA FilledUp ==
    ASSUME NEW q \in Seq(Events), NEW i \in 1..(Len(q) - 1),
           SiftDownPath(q, i, Last(q), Len(q) - 1) = <<>>,
           NEW r, r = PlaceUp(Front(q), i, SiftUpTarget(q, i, Last(q)), Last(q))
    PROVE  /\ FillsGap(q, i, r)
           /\ ~(SiftUpTarget(q, i, Last(q)) < i) => KeepsTheRest(q, i, r)
           /\ SiftUpTarget(q, i, Last(q)) < i => \A j \in (i + 1)..(Len(q) - 1) : r[j] = q[j]
<1> DEFINE n == Len(q) - 1
           b == Front(q)
           e == Last(q)
           t == SiftUpTarget(q, i, e)
           A == AncestorsOf(i)
           g == [j \in 1..n |-> IF j = i THEN e ELSE b[j]]
<1>1. /\ n \in Nat /\ n + 1 = Len(q) /\ Len(q) > 0 /\ i \in 1..n /\ i \in Nat /\ i > 0
      /\ \A j \in 1..n : q[j] \in Events
  OBVIOUS
<1>2. /\ DOMAIN b = 1..n /\ \A j \in 1..n : b[j] = q[j]
      /\ e \in Events /\ Rank[e] \in Nat
  BY <1>1, FrontOfQueue, RanksAreNatural
<1>3. \A j \in 1..n : Rank[q[j]] \in Nat
  BY <1>1, RanksAreNatural
<1>4. r = PlaceUp(b, i, t, e) /\ SiftDownPath(q, i, e, n) = <<>>
  OBVIOUS
<1>5. GivesWay(b, n, i, e, g) /\ GivesWay(q, n, i, e, g)
  BY <1>2 DEF GivesWay
<1> HIDE DEF n, b, e
<1>6. \A c \in 2..n : c \div 2 = i => Rank[e] <= Rank[q[c]]
  <2>1. ChainDown(q, i, e, n, <<i>> \o <<>>)
    BY <1>1, <1>2, <1>3, <1>4, SiftDownFacts
  <2>2. <<i>> \o <<>> = <<i>> /\ <<i>>[Len(<<i>>)] = i
    OBVIOUS
  <2> QED
    BY <2>1, <2>2 DEF ChainDown
<1>7. ChainUp(i, A) /\ TargetOnChain(q, i, e, A, t)
  BY <1>1, SiftUpFacts
<1>8. DOMAIN r = 1..n /\ MovedUp(b, n, e, A, t, r)
  BY <1>1, <1>2, <1>4, PlaceUpSlots
<1> HIDE DEF t, A, g
<1>9. t \in A /\ A \subseteq 1..i /\ i \in A
  BY <1>7 DEF ChainUp, TargetOnChain
<1>10. \A a \in A : a > 1 => a \div 2 \in 1..n
  <2>1. A \subseteq 1..n
    BY <1>1, <1>9
  <2> QED
    BY <1>7, <2>1 DEF ChainUp
<1>11. r \in Seq(Events) /\ Len(r) = n
  <2>1. \A j \in 1..n : r[j] \in Events
    <3>1. \A j \in A : j > t => j > 1
      BY <1>1, <1>9
    <3> QED
      BY <1>1, <1>2, <1>8, <1>9, <1>10, <3>1 DEF MovedUp
  <2>2. r = [j \in DOMAIN r |-> r[j]]
    BY <1>4 DEF PlaceUp
  <2> QED
    BY <1>1, <1>8, <2>1, <2>2, IsQueue
<1>12. TargetOnChain(b, i, e, A, t)
  <2>1. \A a \in A : a > 1 => b[a \div 2] = q[a \div 2]
    BY <1>2, <1>10
  <2>2. \A a \in A : a > t => a > 1
    BY <1>1, <1>9
  <2> QED
    BY <1>7, <2>1, <2>2 DEF TargetOnChain
<1>13. InOrder(q) => InOrder(r)
  <2> SUFFICES ASSUME InOrder(q) PROVE InOrderTo(r, n)
    BY <1>11 DEF InOrder
  <2>1. RanksTo(b, n) /\ InOrderExcept(b, n, i) /\ GapInOrder(b, n, i)
    BY <1>2, GapOrder DEF n
  <2>2. \A c \in 2..n : c \div 2 = i => Rank[e] <= Rank[b[c]]
    BY <1>2, <1>6
  <2> QED
    BY <1>1, <1>2, <1>7, <1>8, <1>12, <2>1, <2>2, PlaceUpOrder
<1>14. ASSUME NEW x
       PROVE  /\ Copies(g, 1, n, x) + Once(q[i] = x) = Copies(q, 1, Len(q), x)
              /\ Copies(g, i, n, x) = Copies(q, i + 1, Len(q), x)
  BY <1>5, GapCopies DEF n, e
<1>15. ASSUME NEW x PROVE Copies(r, 1, n, x) = Copies(g, 1, n, x)
  BY <1>1, <1>5, <1>7, <1>8, <1>9, PlaceUpCopies
<1>16. ASSUME ~(t < i), NEW x PROVE Copies(r, i, n, x) = Copies(g, i, n, x)
  <2>1. t = i /\ i..n \subseteq 1..n
    BY <1>1, <1>9, <1>16
  <2>2. \A j \in A : ~(j > i)
    BY <1>1, <1>9
  <2>3. \A j \in i..n : r[j] = g[j]
    BY <1>5, <1>8, <2>1, <2>2 DEF MovedUp, GivesWay
  <2> QED
    BY <2>3, SameCopies
<1>17. ASSUME t < i, NEW j \in (i + 1)..n PROVE r[j] = q[j]
  <2>1. j \notin A /\ j # t /\ j \in 1..n
    BY <1>1, <1>9
  <2> QED
    BY <1>2, <1>8, <2>1 DEF MovedUp
<1>18. FillsGap(q, i, r)
  BY <1>11, <1>13, <1>14, <1>15 DEF FillsGap, n
<1>19. ~(t < i) => KeepsTheRest(q, i, r)
  BY <1>11, <1>14, <1>16 DEF KeepsTheRest
<1> QED
  BY <1>17, <1>18, <1>19 DEF t, e, n

LEMMA WithoutSlotFacts ==
    ASSUME NEW q \in Seq(Events), NEW i \in 1..Len(q)
    PROVE  /\ FillsGap(q, i, WithoutSlot(q, i))
           /\ ~MovesUp(q, i) => KeepsTheRest(q, i, WithoutSlot(q, i))
           /\ MovesUp(q, i) => i < Len(q) /\ \A j \in (i + 1)..(Len(q) - 1) : WithoutSlot(q, i)[j] = q[j]
<1> DEFINE r == WithoutSlot(q, i)
           path == SiftDownPath(q, i, Last(q), Len(q) - 1)
<1>1. CASE i = Len(q)
  <2>1. r = Front(q) /\ ~MovesUp(q, i)
    BY <1>1 DEF WithoutSlot, MovesUp
  <2>2. FillsGap(q, i, Front(q)) /\ KeepsTheRest(q, i, Front(q))
    BY <1>1, LastTakenOff
  <2> QED
    BY <2>1, <2>2
<1>2. CASE i # Len(q) /\ path # <<>>
  <2>1. r = PlaceDown(Front(q), i, path, Last(q)) /\ ~MovesUp(q, i) /\ i \in 1..(Len(q) - 1)
    BY <1>2 DEF WithoutSlot, MovesUp
  <2>2. FillsGap(q, i, r) /\ KeepsTheRest(q, i, r)
    BY <1>2, <2>1, FilledDown
  <2> QED
    BY <2>1, <2>2
<1>3. CASE i # Len(q) /\ path = <<>>
  <2>1. /\ r = PlaceUp(Front(q), i, SiftUpTarget(q, i, Last(q)), Last(q))
        /\ MovesUp(q, i) <=> SiftUpTarget(q, i, Last(q)) < i
        /\ i \in 1..(Len(q) - 1) /\ i < Len(q)
    BY <1>3 DEF WithoutSlot, MovesUp
  <2>2. /\ FillsGap(q, i, r)
        /\ ~(SiftUpTarget(q, i, Last(q)) < i) => KeepsTheRest(q, i, r)
        /\ SiftUpTarget(q, i, Last(q)) < i => \A j \in (i + 1)..(Len(q) - 1) : r[j] = q[j]
    BY <1>3, <2>1, FilledUp
  <2> QED
    BY <2>1, <2>2
<1> QED
  BY <1>1, <1>2, <1>3

LEMMA WithoutFirstFacts ==
    ASSUME NEW q \in Seq(Events), q # <<>>
    PROVE  FillsGap(q, 1, WithoutFirst(q))
<1>1. Len(q) \in Nat /\ Len(q) # 0
  OBVIOUS
<1>2. CASE Len(q) = 1
  <2>1. Front(q) \in Seq(Events) /\ Len(Front(q)) = 0
    BY <1>2, FrontOfQueue
  <2>2. Front(q) = <<>> /\ WithoutFirst(q) = <<>>
    BY <1>2, <2>1 DEF WithoutFirst
  <2>3. FillsGap(q, Len(q), Front(q))
    <3>1. Len(q) > 0
      BY <1>2
    <3> QED
      BY <3>1, LastTakenOff
  <2> QED
    BY <1>2, <2>2, <2>3
<1>3. CASE Len(q) # 1
  <2>1. 1 \in 1..(Len(q) - 1)
    <3> DEFINE n == Len(q)
    <3>1. n \in Nat /\ n # 0 /\ n # 1
      BY <1>1, <1>3
    <3> HIDE DEF n
    <3>2. 1 \in 1..(n - 1)
      BY <3>1
    <3> QED
      BY <3>2 DEF n
  <2>2. WithoutFirst(q) = PlaceDown(Front(q), 1, SiftDownPath(q, 1, Last(q), Len(q) - 1), Last(q))
    BY <1>3 DEF WithoutFirst
  <2> QED
    BY <2>1, <2>2, FilledDown
<1> QED
  BY <1>2, <1>3

LEMMA FirstSlotFacts ==
    ASSUME NEW q \in Seq(Events), NEW e \in ToSet(q)
    PROVE  FirstSlotOf(q, e) \in 1..Len(q) /\ q[FirstSlotOf(q, e)] = e
<1>1. Len(q) \in Nat /\ DOMAIN q = 1..Len(q)
  OBVIOUS
<1> DEFINE T == {i \in 1..Len(q) : q[i] = e}
<1>2. T # {} /\ T \in SUBSET Nat
  BY <1>1 DEF ToSet
<1>3. PICK n \in T : \A m \in T : n <= m
  <2> HIDE DEF T
  <2> QED
    BY <1>2, LeastNatural
<1>4. n \in DOMAIN q /\ q[n] = e /\ \A j \in 1..(n - 1) : q[j] # e
  <2>1. \A j \in 1..(n - 1) : j \in 1..Len(q) /\ ~(n <= j)
    BY <1>1, <1>3
  <2> QED
    BY <1>1, <1>3, <2>1
<1> QED
  BY <1>1, <1>4 DEF FirstSlotOf

(* The root of a heap comes first.                                          *)
LEMMA RootIsFirst ==
    ASSUME NEW q \in Seq(Events), InOrder(q), NEW i \in 1..Len(q)
    PROVE  Rank[q[1]] <= Rank[q[i]]
<1> DEFINE T == {m \in Nat : \A j \in 1..Len(q) : j <= m => Rank[q[1]] <= Rank[q[j]]}
<1>1. 0 \in T
  OBVIOUS
<1>2. ASSUME NEW m \in T PROVE m + 1 \in T
  <2> SUFFICES ASSUME m + 1 \in 1..Len(q) PROVE Rank[q[1]] <= Rank[q[m + 1]]
    OBVIOUS
  <2>1. m \in Nat /\ \A j \in 1..Len(q) : j <= m => Rank[q[1]] <= Rank[q[j]]
    OBVIOUS
  <2>2. \A j \in 1..Len(q) : Rank[q[j]] \in Nat
    BY RanksAreNatural
  <2>3. CASE m = 0
    BY <2>2, <2>3
  <2>4. CASE m # 0
    <3> DEFINE p == (m + 1) \div 2
    <3>1. p \in Nat /\ 1 <= p /\ p < m + 1 /\ m + 1 \in 2..Len(q)
      BY <2>1, <2>4, Parents
    <3>2. Rank[q[p]] <= Rank[q[m + 1]]
      BY <3>1 DEF InOrder, InOrderTo
    <3> HIDE DEF p
    <3>3. p \in 1..Len(q) /\ p <= m /\ 1 \in 1..Len(q)
      BY <2>1, <3>1
    <3> QED
      BY <2>1, <2>2, <3>2, <3>3
  <2> QED
    BY <2>3, <2>4
<1>3. T = Nat
  <2> HIDE DEF T
  <2> QED
    BY <1>1, <1>2, AllNaturals DEF T
<1>4. i \in T
  BY <1>3
<1> QED
  BY <1>4

-----------------------------------------------------------------------------
(* Bags of events.                                                          *)

BagsOf(S) == UNION {[X -> Nat \ {0}] : X \in SUBSET S}
Number(B, x) == IF x \in DOMAIN B THEN B[x] ELSE 0

LEMMA NumberIsNatural ==
    ASSUME NEW B \in BagsOf(Events), NEW x
    PROVE  /\ Number(B, x) \in Nat /\ (Number(B, x) # 0 <=> x \in DOMAIN B)
           /\ DOMAIN B \subseteq Events
BY DEF BagsOf, Number

LEMMA SameBag ==
    ASSUME NEW A \in BagsOf(Events), NEW B \in BagsOf(Events),
           \A x \in Events : Number(A, x) = Number(B, x)
    PROVE  A = B
<1>1. PICK X \in SUBSET Events : A \in [X -> Nat \ {0}]
  BY DEF BagsOf
<1>2. PICK Y \in SUBSET Events : B \in [Y -> Nat \ {0}]
  BY DEF BagsOf
<1>3. X = Y
  BY <1>1, <1>2, NumberIsNatural
<1>4. \A x \in X : A[x] = B[x]
  BY <1>1, <1>2, <1>3 DEF Number
<1> QED
  BY <1>1, <1>2, <1>3, <1>4

LEMMA IsBag ==
    ASSUME NEW B, NEW X \in SUBSET Events, B \in [X -> Nat \ {0}]
    PROVE  B \in BagsOf(Events)
BY DEF BagsOf

LEMMA BagUnions ==
    ASSUME NEW A \in BagsOf(Events), NEW B \in BagsOf(Events)
    PROVE  /\ A (+) B \in BagsOf(Events)
           /\ \A x : Number(A (+) B, x) = Number(A, x) + Number(B, x)
<1>1. DOMAIN (A (+) B) = DOMAIN A \cup DOMAIN B
  BY DEF (+)
<1>2. \A x \in DOMAIN A \cup DOMAIN B : (A (+) B)[x] = Number(A, x) + Number(B, x)
  BY DEF (+), Number
<1>3. \A x \in DOMAIN A \cup DOMAIN B : Number(A, x) + Number(B, x) \in Nat \ {0}
  BY NumberIsNatural
<1>4. A (+) B \in [DOMAIN A \cup DOMAIN B -> Nat \ {0}]
  BY <1>2, <1>3 DEF (+), Number
<1>5. A (+) B \in BagsOf(Events)
  BY <1>4, IsBag, NumberIsNatural
<1>6. ASSUME NEW x PROVE Number(A (+) B, x) = Number(A, x) + Number(B, x)
  <2>1. CASE x \in DOMAIN A \cup DOMAIN B
    BY <1>1, <1>2, <2>1 DEF Number
  <2>2. CASE x \notin DOMAIN A \cup DOMAIN B
    BY <1>1, <2>2 DEF Number
  <2> QED
    BY <2>1, <2>2
<1> QED
  BY <1>5, <1>6

LEMMA BagDifferences ==
    ASSUME NEW A \in BagsOf(Events), NEW B \in BagsOf(Events)
    PROVE  /\ A (-) B \in BagsOf(Events)
           /\ \A x : Number(A (-) B, x) =
                 IF Number(A, x) > Number(B, x) THEN Number(A, x) - Number(B, x) ELSE 0
<1> DEFINE D == [x \in DOMAIN A |-> IF x \in DOMAIN B THEN A[x] - B[x] ELSE A[x]]
           P == {d \in DOMAIN D : D[d] > 0}
<1>1. A (-) B = [x \in P |-> D[x]]
  BY DEF (-)
<1>2. \A x \in DOMAIN A : D[x] = Number(A, x) - Number(B, x)
  BY NumberIsNatural DEF Number
<1>3. DOMAIN D = DOMAIN A
  OBVIOUS
<1> HIDE DEF D
<1>4. \A x : x \in P <=> x \in DOMAIN A /\ Number(A, x) - Number(B, x) > 0
  BY <1>2, <1>3
<1> HIDE DEF P
<1>5. \A x : /\ Number(A, x) \in Nat /\ Number(B, x) \in Nat
             /\ (x \notin DOMAIN A => Number(A, x) = 0)
  BY NumberIsNatural
<1>6. \A x \in P : D[x] = Number(A, x) - Number(B, x) /\ D[x] \in Nat \ {0}
  BY <1>2, <1>4, <1>5
<1>7. A (-) B \in [P -> Nat \ {0}] /\ P \in SUBSET Events
  BY <1>1, <1>4, <1>6, NumberIsNatural
<1>8. A (-) B \in BagsOf(Events)
  BY <1>7, IsBag
<1>9. ASSUME NEW x
      PROVE  Number(A (-) B, x) =
                 IF Number(A, x) > Number(B, x) THEN Number(A, x) - Number(B, x) ELSE 0
  <2>1. CASE x \in P
    BY <1>1, <1>4, <1>5, <1>6, <2>1 DEF Number
  <2>2. CASE x \notin P
    <3>1. ~(Number(A, x) > Number(B, x))
      BY <1>4, <1>5, <2>2
    <3>2. Number(A (-) B, x) = 0
      BY <1>1, <2>2 DEF Number
    <3> QED
      BY <3>1, <3>2
  <2> QED
    BY <2>1, <2>2
<1> QED
  BY <1>8, <1>9

LEMMA OneEvent ==
    ASSUME NEW e \in Events
    PROVE  SetToBag({e}) \in BagsOf(Events) /\ \A x : Number(SetToBag({e}), x) = Once(e = x)
<1>1. SetToBag({e}) \in [{e} -> Nat \ {0}]
  BY DEF SetToBag
<1>2. SetToBag({e}) \in BagsOf(Events)
  BY <1>1, IsBag
<1> QED
  BY <1>2 DEF SetToBag, Number, Once

LEMMA NoEvent == EmptyBag \in BagsOf(Events) /\ \A x : Number(EmptyBag, x) = 0
<1>1. EmptyBag \in [{} -> Nat \ {0}]
  BY DEF EmptyBag, SetToBag
<1>2. EmptyBag \in BagsOf(Events)
  BY <1>1, IsBag
<1> QED
  BY <1>2 DEF EmptyBag, SetToBag, Number

LEMMA BagOfQueue ==
    ASSUME NEW q \in Seq(Events)
    PROVE  /\ BagOf(q) \in BagsOf(Events)
           /\ \A x : Number(BagOf(q), x) = Copies(q, 1, Len(q), x)
           /\ DOMAIN BagOf(q) = {q[i] : i \in 1..Len(q)}
<1>1. Len(q) \in Nat /\ DOMAIN q = 1..Len(q) /\ 1 \in Nat /\ \A i \in 1..Len(q) : q[i] \in Events
  OBVIOUS
<1>2. ToSet(q) = {q[i] : i \in 1..Len(q)}
  BY <1>1 DEF ToSet
<1>3. BagOf(q) = [x \in ToSet(q) |-> Copies(q, 1, Len(q), x)]
  BY <1>1 DEF BagOf, Copies, SlotsOf
<1>4. ASSUME NEW x \in ToSet(q) PROVE Copies(q, 1, Len(q), x) \in Nat \ {0}
  <2>1. IsFiniteSet(SlotsOf(q, 1, Len(q), x)) /\ Copies(q, 1, Len(q), x) \in Nat
    BY <1>1, SlotsAreFinite
  <2>2. SlotsOf(q, 1, Len(q), x) # {}
    BY <1>2 DEF SlotsOf
  <2> QED
    BY <2>1, <2>2, FS_EmptySet DEF Copies
<1>5. ASSUME NEW x, x \notin ToSet(q) PROVE Copies(q, 1, Len(q), x) = 0
  BY <1>1, <1>2, <1>5, NoCopies
<1>6. BagOf(q) \in [ToSet(q) -> Nat \ {0}]
  BY <1>3, <1>4
<1>7. ToSet(q) \in SUBSET Events
  BY <1>1, <1>2
<1>8. BagOf(q) \in BagsOf(Events)
  BY <1>6, <1>7, IsBag
<1>9. \A x : Number(BagOf(q), x) = Copies(q, 1, Len(q), x)
  BY <1>3, <1>5 DEF Number
<1> QED
  BY <1>2, <1>3, <1>8, <1>9

-----------------------------------------------------------------------------
(* The invariant: the heap is in order, and the counts of the iteration     *)
(* fit the slots that are still before the iterator.                        *)

IteratorTypes ==
    [cursor : Nat \ {0}, lastRet : Nat, forgetMeNot : Seq(Events), lastElt : Events \cup {None},
     movedAny : BOOLEAN,
     start : BagsOf(Events), visited : BagsOf(Events), removed : BagsOf(Events)]

(* What can be removed: the event behind the cursor or, with the array at   *)
(* its end, one that had been moved.                                        *)
PlaceSound(q, it) ==
    /\ it.lastRet # 0 =>
          it.lastRet + 1 = it.cursor /\ it.lastRet <= Len(q) /\ it.lastElt = None
    /\ it.lastElt # None => it.cursor > Len(q)

(* Of each event: those returned, those ahead in the array and those moved  *)
(* past the cursor are the ones at the start, and so are those queued and   *)
(* those removed; what is removed, or can be, was returned.                 *)
CountsSound(q, it, x) ==
    /\ Number(it.visited, x) + Copies(q, it.cursor, Len(q), x)
          + Copies(it.forgetMeNot, 1, Len(it.forgetMeNot), x) = Number(it.start, x)
    /\ Copies(q, 1, Len(q), x) + Number(it.removed, x) = Number(it.start, x)
    /\ Number(it.removed, x) + Once(it.lastRet # 0 /\ q[it.lastRet] = x) + Once(it.lastElt = x)
          <= Number(it.visited, x)

Sound(q, it) ==
    it \in IteratorTypes /\ PlaceSound(q, it) /\ \A x \in Events : CountsSound(q, it, x)

QueueInv ==
    /\ queue \in Seq(Events) /\ InOrder(queue)
    /\ polled \in Events \cup {None}
    /\ iterator # None => Sound(queue, iterator)

(* The counts in CountsSound are numbers.                                   *)
LEMMA CountsAreNatural ==
    ASSUME NEW q \in Seq(Events), NEW it \in IteratorTypes, NEW x
    PROVE  /\ Len(q) \in Nat /\ it.cursor \in Nat /\ Len(it.forgetMeNot) \in Nat
           /\ Number(it.visited, x) \in Nat /\ Number(it.start, x) \in Nat
           /\ Number(it.removed, x) \in Nat
           /\ Copies(q, it.cursor, Len(q), x) \in Nat /\ Copies(q, 1, Len(q), x) \in Nat
           /\ Copies(it.forgetMeNot, 1, Len(it.forgetMeNot), x) \in Nat
           /\ \A c : Once(c) \in Nat
<1>1. /\ it.visited \in BagsOf(Events) /\ it.start \in BagsOf(Events)
      /\ it.removed \in BagsOf(Events)
      /\ it.cursor \in Nat /\ Len(it.forgetMeNot) \in Nat /\ Len(q) \in Nat /\ 1 \in Nat
  BY DEF IteratorTypes
<1>2. \A c : Once(c) \in Nat
  BY DEF Once
<1> QED
  BY <1>1, <1>2, NumberIsNatural, SlotsAreFinite

LEMMA CopiesOfTail ==
    ASSUME NEW f \in Seq(Events), f # <<>>, NEW x
    PROVE  Copies(f, 1, Len(f), x) = Copies(Tail(f), 1, Len(Tail(f)), x) + Once(Head(f) = x)
<1> DEFINE n == Len(f) - 1
           g == Tail(f)
<1>1. n \in Nat /\ Len(f) = n + 1 /\ Len(g) = n /\ \A i \in 1..n : g[i] = f[i + 1]
  OBVIOUS
<1>2. f[1] = Head(f)
  OBVIOUS
<1> HIDE DEF n, g
<1>3. Copies(f, 1, n + 1, x) = Copies(f, 1 + 1, n + 1, x) + Once(f[1] = x)
  <2>1. 1 \in Nat /\ n + 1 \in Nat /\ 1 <= n + 1
    BY <1>1
  <2> QED
    BY <2>1, CopiesWithFirst
<1>4. Copies(g, 1, n, x) = Copies(f, 2, n + 1, x)
  <2> DEFINE S == SlotsOf(g, 1, n, x)
             R == SlotsOf(f, 2, n + 1, x)
             h == [i \in S |-> i + 1]
  <2>1. \A i : i \in S <=> i \in 1..n /\ g[i] = x
    BY DEF SlotsOf
  <2>2. \A i : i \in R <=> i \in 2..(n + 1) /\ f[i] = x
    BY DEF SlotsOf
  <2>3. IsFiniteSet(S)
    BY <1>1, SlotsAreFinite
  <2> HIDE DEF S, R
  <2>4. \A i \in S : i + 1 \in R
    BY <1>1, <2>1, <2>2
  <2>5. ASSUME NEW i \in R PROVE i - 1 \in S /\ (i - 1) + 1 = i
    <3>1. i \in 2..(n + 1) /\ f[i] = x
      BY <2>2
    <3>2. i - 1 \in 1..n /\ (i - 1) + 1 = i
      BY <1>1, <3>1
    <3>3. g[i - 1] = f[(i - 1) + 1]
      BY <1>1, <3>2
    <3> QED
      BY <2>1, <3>1, <3>2, <3>3
  <2>6. h \in Injection(S, R)
    <3>1. \A i \in S, j \in S : i + 1 = j + 1 => i = j
      BY <1>1, <2>1
    <3> QED
      BY <2>4, <3>1 DEF Injection, IsInjective
  <2>7. h \in Surjection(S, R)
    <3>1. \A i \in R : h[i - 1] = i
      BY <2>5
    <3> QED
      BY <2>4, <2>5, <3>1 DEF Surjection
  <2>8. ExistsBijection(S, R)
    BY <2>6, <2>7 DEF ExistsBijection, Bijection
  <2>9. Cardinality(R) = Cardinality(S)
    BY <2>3, <2>8, FS_Bijection
  <2> QED
    BY <2>9 DEF S, R, Copies
<1> QED
  BY <1>1, <1>2, <1>3, <1>4 DEF g

LEMMA CopiesAppended ==
    ASSUME NEW f \in Seq(Events), NEW e \in Events, NEW x
    PROVE  Copies(Append(f, e), 1, Len(Append(f, e)), x) = Copies(f, 1, Len(f), x) + Once(e = x)
<1> DEFINE n == Len(f)
           g == Append(f, e)
<1>1. /\ n \in Nat /\ 1 \in Nat /\ 1 <= n + 1 /\ Len(g) = n + 1 /\ g[n + 1] = e
      /\ \A i \in 1..n : g[i] = f[i]
  OBVIOUS
<1> HIDE DEF n, g
<1>2. Copies(g, 1, n + 1, x) = Copies(g, 1, n, x) + Once(g[n + 1] = x)
  BY <1>1, CopiesWithLast
<1>3. Copies(g, 1, n, x) = Copies(f, 1, n, x)
  BY <1>1, SameCopies
<1> QED
  BY <1>1, <1>2, <1>3 DEF n, g

LEMMA SoundAtStart ==
    ASSUME NEW q \in Seq(Events), NEW it,
           it = [cursor |-> 1, lastRet |-> 0, forgetMeNot |-> <<>>, lastElt |-> None,
                 movedAny |-> FALSE,
                 start |-> BagOf(q), visited |-> EmptyBag, removed |-> EmptyBag]
    PROVE  Sound(q, it)
<1>1. BagOf(q) \in BagsOf(Events) /\ EmptyBag \in BagsOf(Events) /\ <<>> \in Seq(Events)
  <2>1. <<>> \in Seq(Events)
    OBVIOUS
  <2> QED
    BY <2>1, BagOfQueue, NoEvent
<1>2. it \in IteratorTypes
  BY <1>1 DEF IteratorTypes
<1>3. PlaceSound(q, it)
  BY DEF PlaceSound
<1>4. ASSUME NEW x \in Events PROVE CountsSound(q, it, x)
  <2>1. Number(EmptyBag, x) = 0 /\ Number(BagOf(q), x) = Copies(q, 1, Len(q), x)
    BY BagOfQueue, NoEvent
  <2>2. Copies(<<>>, 1, Len(<<>>), x) = 0
    <3>1. Len(<<>>) = 0 /\ 1..0 = {} /\ 0 \in Nat /\ 1 \in Nat
      OBVIOUS
    <3> QED
      BY <3>1, NoCopies
  <2>3. Copies(q, 1, Len(q), x) \in Nat
    BY <1>2, CountsAreNatural
  <2>4. Once(it.lastRet # 0 /\ q[it.lastRet] = x) = 0 /\ Once(it.lastElt = x) = 0
    BY NoneAssumption DEF Once
  <2> QED
    BY <2>1, <2>2, <2>3, <2>4 DEF CountsSound
<1> QED
  BY <1>2, <1>3, <1>4 DEF Sound

LEMMA SoundAfterNext ==
    ASSUME NEW q \in Seq(Events), NEW it, Sound(q, it), it.cursor <= Len(q), NEW new,
           new = [it EXCEPT !.cursor = @ + 1, !.lastRet = it.cursor,
                            !.visited = it.visited (+) One(q[it.cursor])]
    PROVE  Sound(q, new)
<1> DEFINE c == it.cursor
           e == q[c]
<1>1. it \in IteratorTypes /\ PlaceSound(q, it) /\ \A x \in Events : CountsSound(q, it, x)
  BY DEF Sound
<1>2. c \in Nat \ {0} /\ it.visited \in BagsOf(Events) /\ Len(q) \in Nat
  BY <1>1 DEF IteratorTypes
<1>3. e \in Events /\ c \in 1..Len(q)
  BY <1>2
<1>4. One(e) \in BagsOf(Events) /\ \A x : Number(One(e), x) = Once(e = x)
  BY <1>3, OneEvent DEF One
<1>5. /\ it.visited (+) One(e) \in BagsOf(Events)
      /\ \A x : Number(it.visited (+) One(e), x) = Number(it.visited, x) + Once(e = x)
  BY <1>2, <1>4, BagUnions
<1> DEFINE v == it.visited (+) One(e)
<1>6. /\ new \in IteratorTypes
      /\ new.cursor = c + 1 /\ new.lastRet = c /\ new.visited = v
      /\ new.lastElt = it.lastElt /\ new.forgetMeNot = it.forgetMeNot
      /\ new.start = it.start /\ new.removed = it.removed
  <2>1. v \in BagsOf(Events)
    BY <1>5
  <2>2. new = [it EXCEPT !.cursor = c + 1, !.lastRet = c, !.visited = v]
    OBVIOUS
  <2>3. c + 1 \in Nat \ {0} /\ c \in Nat
    BY <1>2
  <2> HIDE DEF v, c
  <2> QED
    BY <1>1, <2>1, <2>2, <2>3 DEF IteratorTypes
<1>7. it.lastElt = None
  BY <1>1, <1>2 DEF PlaceSound
<1>8. PlaceSound(q, new)
  BY <1>2, <1>6, <1>7 DEF PlaceSound
<1>9. ASSUME NEW x \in Events PROVE CountsSound(q, new, x)
  <2>1. Copies(q, c, Len(q), x) = Copies(q, c + 1, Len(q), x) + Once(e = x)
    BY <1>2, CopiesWithFirst
  <2>2. Once(new.lastRet # 0 /\ q[new.lastRet] = x) = Once(e = x) /\ Once(it.lastElt = x) = 0
    BY <1>2, <1>6, <1>7, NoneAssumption DEF Once
  <2>3. Number(new.visited, x) = Number(it.visited, x) + Once(e = x)
    BY <1>5, <1>6
  <2>4. CountsSound(q, it, x)
    BY <1>1
  <2>5. /\ Number(it.visited, x) \in Nat /\ Number(it.start, x) \in Nat
        /\ Number(it.removed, x) \in Nat
        /\ Copies(q, c, Len(q), x) \in Nat /\ Copies(q, 1, Len(q), x) \in Nat
        /\ Copies(q, c + 1, Len(q), x) \in Nat
        /\ Copies(it.forgetMeNot, 1, Len(it.forgetMeNot), x) \in Nat
        /\ Once(it.lastRet # 0 /\ q[it.lastRet] = x) \in Nat /\ Once(e = x) \in Nat
    BY <1>1, <1>6, CountsAreNatural
  <2> HIDE DEF e, v
  <2>6. /\ Number(it.visited, x) + Copies(q, c, Len(q), x)
              + Copies(it.forgetMeNot, 1, Len(it.forgetMeNot), x) = Number(it.start, x)
        /\ Copies(q, 1, Len(q), x) + Number(it.removed, x) = Number(it.start, x)
        /\ Number(it.removed, x) + Once(it.lastRet # 0 /\ q[it.lastRet] = x) + Once(it.lastElt = x)
              <= Number(it.visited, x)
    BY <2>4 DEF CountsSound
  <2> HIDE DEF c
  <2>7. Number(new.visited, x) + Copies(q, c + 1, Len(q), x)
            + Copies(it.forgetMeNot, 1, Len(it.forgetMeNot), x) = Number(it.start, x)
    BY <2>1, <2>3, <2>5, <2>6
  <2>8. Number(it.removed, x) + Once(e = x) + 0 <= Number(new.visited, x)
    BY <2>2, <2>3, <2>5, <2>6
  <2>9. Once(new.lastElt = x) = 0
    BY <1>6, <2>2
  <2> QED
    BY <1>6, <2>2, <2>6, <2>7, <2>8, <2>9 DEF CountsSound
<1> QED
  BY <1>6, <1>8, <1>9 DEF Sound

LEMMA SoundAfterForgotten ==
    ASSUME NEW q \in Seq(Events), NEW it, Sound(q, it),
           it.cursor > Len(q), it.forgetMeNot # <<>>, NEW new,
           new = [it EXCEPT !.lastRet = 0, !.lastElt = Head(it.forgetMeNot), !.forgetMeNot = Tail(@),
                            !.visited = it.visited (+) One(Head(it.forgetMeNot))]
    PROVE  Sound(q, new)
<1> DEFINE f == it.forgetMeNot
           e == Head(f)
           g == Tail(f)
           v == it.visited (+) One(e)
<1>1. it \in IteratorTypes /\ PlaceSound(q, it) /\ \A x \in Events : CountsSound(q, it, x)
  BY DEF Sound
<1>2. f \in Seq(Events) /\ f # <<>> /\ it.visited \in BagsOf(Events)
  BY <1>1 DEF IteratorTypes
<1>3. e \in Events /\ g \in Seq(Events)
  BY <1>2
<1>4. One(e) \in BagsOf(Events) /\ \A x : Number(One(e), x) = Once(e = x)
  BY <1>3, OneEvent DEF One
<1>5. v \in BagsOf(Events) /\ \A x : Number(v, x) = Number(it.visited, x) + Once(e = x)
  BY <1>2, <1>4, BagUnions
<1>6. /\ new \in IteratorTypes
      /\ new.cursor = it.cursor /\ new.lastRet = 0 /\ new.visited = v
      /\ new.lastElt = e /\ new.forgetMeNot = g
      /\ new.start = it.start /\ new.removed = it.removed
  <2>1. new = [it EXCEPT !.lastRet = 0, !.lastElt = e, !.forgetMeNot = g, !.visited = v]
    OBVIOUS
  <2> HIDE DEF v, e, g
  <2>2. v \in BagsOf(Events) /\ g \in Seq(Events) /\ e \in Events
    BY <1>3, <1>5
  <2>3. new \in IteratorTypes
    <3> DEFINE mid == [it EXCEPT !.lastRet = 0, !.lastElt = e]
    <3>1. mid \in IteratorTypes
      BY <1>1, <2>2 DEF IteratorTypes
    <3>2. new = [mid EXCEPT !.forgetMeNot = g, !.visited = v]
      BY <2>1
    <3> HIDE DEF mid
    <3> QED
      BY <2>2, <3>1, <3>2 DEF IteratorTypes
  <2> QED
    BY <1>1, <2>1, <2>3 DEF IteratorTypes
<1>7. PlaceSound(q, new)
  BY <1>6 DEF PlaceSound
<1>8. ASSUME NEW x \in Events PROVE CountsSound(q, new, x)
  <2>1. Copies(f, 1, Len(f), x) = Copies(g, 1, Len(g), x) + Once(e = x)
    BY <1>2, CopiesOfTail
  <2>2. Once(new.lastRet # 0 /\ q[new.lastRet] = x) = 0
    BY <1>6 DEF Once
  <2>3. Number(new.visited, x) = Number(it.visited, x) + Once(e = x)
    BY <1>5, <1>6
  <2>4. CountsSound(q, it, x)
    BY <1>1
  <2>5. /\ Number(it.visited, x) \in Nat /\ Number(it.start, x) \in Nat
        /\ Number(it.removed, x) \in Nat
        /\ Copies(q, it.cursor, Len(q), x) \in Nat /\ Copies(q, 1, Len(q), x) \in Nat
        /\ Copies(f, 1, Len(f), x) \in Nat /\ Copies(g, 1, Len(g), x) \in Nat
        /\ Once(it.lastRet # 0 /\ q[it.lastRet] = x) \in Nat /\ Once(it.lastElt = x) \in Nat
        /\ Once(e = x) \in Nat
    BY <1>1, <1>6, CountsAreNatural
  <2>6. /\ Number(it.visited, x) + Copies(q, it.cursor, Len(q), x) + Copies(f, 1, Len(f), x)
              = Number(it.start, x)
        /\ Copies(q, 1, Len(q), x) + Number(it.removed, x) = Number(it.start, x)
        /\ Number(it.removed, x) + Once(it.lastRet # 0 /\ q[it.lastRet] = x) + Once(it.lastElt = x)
              <= Number(it.visited, x)
    BY <2>4 DEF CountsSound
  <2> HIDE DEF e, v, f, g
  <2>7. Number(new.visited, x) + Copies(q, it.cursor, Len(q), x) + Copies(g, 1, Len(g), x)
            = Number(it.start, x)
    <3> DEFINE w == Number(it.visited, x)
               c == Copies(q, it.cursor, Len(q), x)
               d == Copies(g, 1, Len(g), x)
               o == Once(e = x)
               z == Number(it.start, x)
    <3>1. w \in Nat /\ c \in Nat /\ d \in Nat /\ o \in Nat /\ z \in Nat
      BY <2>5
    <3>2. w + c + (d + o) = z /\ Number(new.visited, x) = w + o
      BY <2>1, <2>3, <2>6
    <3> HIDE DEF w, c, d, o, z
    <3>3. (w + o) + c + d = z
      BY ONLY <3>1, <3>2
    <3> QED
      BY <3>2, <3>3 DEF c, d, z
  <2>8. Number(it.removed, x) + 0 + Once(e = x) <= Number(new.visited, x)
    <3> DEFINE a == Number(it.removed, x)
               b == Once(it.lastRet # 0 /\ q[it.lastRet] = x)
               c == Once(it.lastElt = x)
               d == Number(it.visited, x)
               k == Once(e = x)
    <3>1. a + b + c <= d
      BY <2>6
    <3>2. a \in Nat /\ b \in Nat /\ c \in Nat /\ d \in Nat /\ k \in Nat
      BY <2>5
    <3> HIDE DEF a, b, c, d, k
    <3>3. a + 0 + k <= d + k
      BY <3>1, <3>2
    <3> QED
      BY <2>3, <3>3 DEF a, d, k
  <2> QED
    BY <1>6, <2>2, <2>6, <2>7, <2>8 DEF CountsSound
<1> QED
  BY <1>6, <1>7, <1>8 DEF Sound

LEMMA SoundAfterFail ==
    ASSUME NEW q \in Seq(Events), NEW it, Sound(q, it), NEW new,
           new = [it EXCEPT !.lastRet = 0, !.lastElt = None]
    PROVE  Sound(q, new)
<1>1. it \in IteratorTypes /\ PlaceSound(q, it) /\ \A x \in Events : CountsSound(q, it, x)
  BY DEF Sound
<1>2. /\ new \in IteratorTypes
      /\ new.cursor = it.cursor /\ new.lastRet = 0 /\ new.visited = it.visited
      /\ new.lastElt = None /\ new.forgetMeNot = it.forgetMeNot
      /\ new.start = it.start /\ new.removed = it.removed
  BY <1>1 DEF IteratorTypes
<1>3. PlaceSound(q, new)
  BY <1>2 DEF PlaceSound
<1>4. ASSUME NEW x \in Events PROVE CountsSound(q, new, x)
  <2>1. Once(new.lastRet # 0 /\ q[new.lastRet] = x) = 0 /\ Once(new.lastElt = x) = 0
    BY <1>2, NoneAssumption DEF Once
  <2>2. CountsSound(q, it, x)
    BY <1>1
  <2>3. /\ Number(it.visited, x) \in Nat /\ Number(it.removed, x) \in Nat
        /\ Once(it.lastRet # 0 /\ q[it.lastRet] = x) \in Nat /\ Once(it.lastElt = x) \in Nat
    BY <1>1, CountsAreNatural
  <2>4. Number(it.removed, x) + 0 + 0 <= Number(it.visited, x)
    BY <2>2, <2>3 DEF CountsSound
  <2> QED
    BY <1>2, <2>1, <2>2, <2>4 DEF CountsSound
<1> QED
  BY <1>2, <1>3, <1>4 DEF Sound

LEMMA MovedPastIterator ==
    ASSUME NEW q \in Seq(Events), NEW i \in 1..Len(q), MovesUp(q, i), NEW x
    PROVE  Copies(q, i + 1, Len(q), x)
              = Copies(WithoutSlot(q, i), i + 1, Len(q) - 1, x) + Once(Last(q) = x)
<1> DEFINE n == Len(q) - 1
           r == WithoutSlot(q, i)
<1>1. Len(q) \in Nat /\ i \in Nat
  OBVIOUS
<1>2. i < Len(q) /\ \A j \in (i + 1)..n : r[j] = q[j]
  BY WithoutSlotFacts
<1>3. n \in Nat /\ n + 1 = Len(q) /\ i + 1 \in Nat /\ i + 1 <= n + 1
  BY <1>1, <1>2
<1>4. Last(q) = q[n + 1]
  BY <1>3 DEF Last
<1> HIDE DEF n, r
<1>5. Copies(q, i + 1, n + 1, x) = Copies(q, i + 1, n, x) + Once(q[n + 1] = x)
  BY <1>3, CopiesWithLast
<1>6. Copies(q, i + 1, n, x) = Copies(r, i + 1, n, x)
  BY <1>2, SameCopies
<1> QED
  BY <1>3, <1>4, <1>5, <1>6 DEF n, r

LEMMA SoundAfterRemove ==
    ASSUME NEW q \in Seq(Events), NEW it, Sound(q, it), it.lastRet # 0, NEW new,
           new = [it EXCEPT
                    !.lastRet = 0,
                    !.cursor = IF MovesUp(q, it.lastRet) THEN @ ELSE @ - 1,
                    !.forgetMeNot = IF MovesUp(q, it.lastRet) THEN Append(@, Last(q)) ELSE @,
                    !.movedAny = @ \/ MovesUp(q, it.lastRet),
                    !.removed = @ (+) One(q[it.lastRet])]
    PROVE  it.lastRet \in 1..Len(q) /\ Sound(WithoutSlot(q, it.lastRet), new)
<1> DEFINE i == it.lastRet
           moved == MovesUp(q, i)
           r == WithoutSlot(q, i)
           f == it.forgetMeNot
           g == IF moved THEN Append(f, Last(q)) ELSE f
           c == IF moved THEN it.cursor ELSE it.cursor - 1
           e == q[i]
           v == it.removed (+) One(e)
<1>1. it \in IteratorTypes /\ PlaceSound(q, it) /\ \A x \in Events : CountsSound(q, it, x)
  BY DEF Sound
<1>2. /\ i \in Nat /\ it.cursor \in Nat /\ f \in Seq(Events)
      /\ it.removed \in BagsOf(Events) /\ it.movedAny \in BOOLEAN /\ Len(q) \in Nat
  BY <1>1 DEF IteratorTypes
<1>3. i + 1 = it.cursor /\ i <= Len(q) /\ it.lastElt = None
  BY <1>1 DEF PlaceSound
<1>4. i \in 1..Len(q) /\ e \in Events /\ Len(q) > 0
  BY <1>2, <1>3
<1>5. /\ FillsGap(q, i, r)
      /\ ~moved => KeepsTheRest(q, i, r)
  BY <1>4, WithoutSlotFacts
<1>6. Last(q) \in Events
  BY <1>4, FrontOfQueue
<1>7. One(e) \in BagsOf(Events) /\ \A x : Number(One(e), x) = Once(e = x)
  BY <1>4, OneEvent DEF One
<1>8. v \in BagsOf(Events) /\ \A x : Number(v, x) = Number(it.removed, x) + Once(e = x)
  BY <1>2, <1>7, BagUnions
<1>9. g \in Seq(Events) /\ c \in Nat \ {0} /\ moved \in BOOLEAN
  <2>1. moved \in BOOLEAN
    BY DEF MovesUp
  <2>2. c \in Nat \ {0}
    BY <1>2, <1>3, <1>4
  <2>3. g \in Seq(Events)
    BY <1>2, <1>6
  <2> QED
    BY <2>1, <2>2, <2>3
<1>10. /\ new \in IteratorTypes
       /\ new.cursor = c /\ new.lastRet = 0 /\ new.visited = it.visited
       /\ new.lastElt = None /\ new.forgetMeNot = g
       /\ new.start = it.start /\ new.removed = v
  <2> DEFINE a == it.movedAny \/ moved
  <2>1. new = [it EXCEPT !.lastRet = 0, !.cursor = c, !.forgetMeNot = g, !.movedAny = a,
                         !.removed = v]
    OBVIOUS
  <2>2. a \in BOOLEAN
    OBVIOUS
  <2> HIDE DEF a, v, e, g, c, moved
  <2>3. v \in BagsOf(Events) /\ g \in Seq(Events) /\ c \in Nat \ {0}
    BY <1>8, <1>9
  <2>4. new \in IteratorTypes
    <3> DEFINE mid == [it EXCEPT !.lastRet = 0, !.cursor = c, !.forgetMeNot = g]
    <3>1. mid \in IteratorTypes
      BY <1>1, <2>3 DEF IteratorTypes
    <3>2. new = [mid EXCEPT !.movedAny = a, !.removed = v]
      BY <2>1
    <3> HIDE DEF mid
    <3> QED
      BY <2>2, <2>3, <3>1, <3>2 DEF IteratorTypes
  <2>5. /\ new.cursor = c /\ new.lastRet = 0 /\ new.forgetMeNot = g /\ new.removed = v
        /\ new.visited = it.visited /\ new.start = it.start /\ new.lastElt = it.lastElt
    BY <1>1, <2>1 DEF IteratorTypes
  <2> QED
    BY <1>3, <2>4, <2>5
<1>11. PlaceSound(r, new)
  BY <1>10 DEF PlaceSound
<1>12. r \in Seq(Events) /\ Len(r) = Len(q) - 1
  BY <1>5 DEF FillsGap
<1>13. ASSUME NEW x \in Events PROVE CountsSound(r, new, x)
  <2>1. Copies(r, 1, Len(r), x) + Once(e = x) = Copies(q, 1, Len(q), x)
    BY <1>5 DEF FillsGap
  <2>2. Copies(r, c, Len(r), x) + Copies(g, 1, Len(g), x)
          = Copies(q, it.cursor, Len(q), x) + Copies(f, 1, Len(f), x)
    <3>1. CASE moved
      <4>1. Copies(q, i + 1, Len(q), x) = Copies(r, i + 1, Len(q) - 1, x) + Once(Last(q) = x)
        BY <1>4, <3>1, MovedPastIterator
      <4>2. Copies(Append(f, Last(q)), 1, Len(Append(f, Last(q))), x)
              = Copies(f, 1, Len(f), x) + Once(Last(q) = x)
        BY <1>2, <1>6, CopiesAppended
      <4>3. c = i + 1 /\ it.cursor = i + 1 /\ g = Append(f, Last(q)) /\ Len(r) = Len(q) - 1
        BY <1>3, <1>12, <3>1
      <4>4. Copies(r, i + 1, Len(q) - 1, x) \in Nat /\ Copies(f, 1, Len(f), x) \in Nat
            /\ Once(Last(q) = x) \in Nat
        <5>1. i + 1 \in Nat /\ Len(q) - 1 \in Nat /\ 1 \in Nat /\ Len(f) \in Nat
          BY <1>2, <1>4
        <5> QED
          BY <5>1, SlotsAreFinite DEF Once
      <4> HIDE DEF f, g, c, r, i, e, v, moved
      <4> QED
        BY <4>1, <4>2, <4>3, <4>4
    <3>2. CASE ~moved
      <4>1. Copies(r, i, Len(r), x) = Copies(q, i + 1, Len(q), x)
        BY <1>5, <3>2 DEF KeepsTheRest
      <4>2. c = i /\ it.cursor = i + 1 /\ g = f
        BY <1>2, <1>3, <3>2
      <4> HIDE DEF f, g, c, r, i, e, v, moved
      <4> QED
        BY <4>1, <4>2
    <3> QED
      BY <3>1, <3>2
  <2>3. /\ Once(new.lastRet # 0 /\ r[new.lastRet] = x) = 0
        /\ Once(new.lastElt = x) = 0 /\ Once(it.lastElt = x) = 0
        /\ Once(it.lastRet # 0 /\ q[it.lastRet] = x) = Once(e = x)
    BY <1>3, <1>10, NoneAssumption DEF Once
  <2>4. Number(v, x) = Number(it.removed, x) + Once(e = x)
    BY <1>8
  <2>5. CountsSound(q, it, x)
    BY <1>1
  <2>6. /\ Number(it.visited, x) \in Nat /\ Number(it.start, x) \in Nat
        /\ Number(it.removed, x) \in Nat
        /\ Copies(q, it.cursor, Len(q), x) \in Nat /\ Copies(q, 1, Len(q), x) \in Nat
        /\ Copies(f, 1, Len(f), x) \in Nat /\ Once(e = x) \in Nat
    BY <1>1, CountsAreNatural
  <2>7. /\ Copies(r, c, Len(r), x) \in Nat /\ Copies(r, 1, Len(r), x) \in Nat
        /\ Copies(g, 1, Len(g), x) \in Nat
    BY <1>10, <1>12, CountsAreNatural
  <2>8. /\ Number(it.visited, x) + Copies(q, it.cursor, Len(q), x) + Copies(f, 1, Len(f), x)
              = Number(it.start, x)
        /\ Copies(q, 1, Len(q), x) + Number(it.removed, x) = Number(it.start, x)
        /\ Number(it.removed, x) + Once(e = x) + 0 <= Number(it.visited, x)
    BY <2>3, <2>5 DEF CountsSound
  <2> HIDE DEF f, g, c, r, i, e, v, moved
  <2>9. Number(it.visited, x) + Copies(r, c, Len(r), x) + Copies(g, 1, Len(g), x)
            = Number(it.start, x)
    <3> DEFINE a == Number(it.visited, x)
               b == Copies(q, it.cursor, Len(q), x)
               d == Copies(f, 1, Len(f), x)
               k == Copies(r, c, Len(r), x)
               l == Copies(g, 1, Len(g), x)
               m == Number(it.start, x)
    <3>1. a + b + d = m /\ k + l = b + d
      BY <2>2, <2>8
    <3>2. a \in Nat /\ b \in Nat /\ d \in Nat /\ k \in Nat /\ l \in Nat
      BY <2>6, <2>7
    <3> HIDE DEF a, b, d, k, l, m
    <3>3. a + k + l = m
      BY <3>1, <3>2
    <3> QED
      BY <3>3 DEF a, k, l, m
  <2>10. Copies(r, 1, Len(r), x) + Number(v, x) = Number(it.start, x)
    <3> DEFINE a == Copies(r, 1, Len(r), x)
               b == Copies(q, 1, Len(q), x)
               o == Once(e = x)
               w == Number(it.removed, x)
               m == Number(it.start, x)
    <3>1. a + o = b /\ b + w = m /\ Number(v, x) = w + o
      BY <2>1, <2>4, <2>8
    <3>2. a \in Nat /\ b \in Nat /\ o \in Nat /\ w \in Nat
      BY <2>6, <2>7
    <3> HIDE DEF a, b, o, w, m
    <3>3. a + (w + o) = m
      BY ONLY <3>1, <3>2
    <3> QED
      BY <3>1, <3>3 DEF a, m
  <2>11. Number(v, x) + 0 + 0 <= Number(it.visited, x)
    BY <2>4, <2>6, <2>8
  <2> QED
    BY <1>10, <2>3, <2>9, <2>10, <2>11 DEF CountsSound
<1> QED
  BY <1>4, <1>10, <1>11, <1>13 DEF Sound

LEMMA SoundAfterRemoveForgotten ==
    ASSUME NEW q \in Seq(Events), NEW it, Sound(q, it), it.lastRet = 0, it.lastElt # None, NEW new,
           new = [it EXCEPT !.lastElt = None, !.removed = @ (+) One(it.lastElt)]
    PROVE  /\ it.lastElt \in ToSet(q) /\ it.lastElt \in Events
           /\ Sound(WithoutSlot(q, FirstSlotOf(q, it.lastElt)), new)
<1> DEFINE e == it.lastElt
           i == FirstSlotOf(q, e)
           r == WithoutSlot(q, i)
           v == it.removed (+) One(e)
<1>1. it \in IteratorTypes /\ PlaceSound(q, it) /\ \A x \in Events : CountsSound(q, it, x)
  BY DEF Sound
<1>2. /\ e \in Events /\ it.cursor \in Nat /\ it.removed \in BagsOf(Events) /\ Len(q) \in Nat
      /\ it.cursor > Len(q)
  BY <1>1 DEF IteratorTypes, PlaceSound
<1>3. e \in ToSet(q)
  <2>1. /\ Number(it.visited, e) + Copies(q, it.cursor, Len(q), e)
              + Copies(it.forgetMeNot, 1, Len(it.forgetMeNot), e) = Number(it.start, e)
        /\ Copies(q, 1, Len(q), e) + Number(it.removed, e) = Number(it.start, e)
        /\ Number(it.removed, e) + Once(it.lastRet # 0 /\ q[it.lastRet] = e) + Once(it.lastElt = e)
              <= Number(it.visited, e)
    BY <1>1, <1>2 DEF CountsSound
  <2>2. Once(it.lastElt = e) = 1 /\ Once(it.lastRet # 0 /\ q[it.lastRet] = e) = 0
    BY DEF Once
  <2>3. /\ Number(it.visited, e) \in Nat /\ Number(it.start, e) \in Nat
        /\ Number(it.removed, e) \in Nat
        /\ Copies(q, it.cursor, Len(q), e) \in Nat /\ Copies(q, 1, Len(q), e) \in Nat
        /\ Copies(it.forgetMeNot, 1, Len(it.forgetMeNot), e) \in Nat
    BY <1>1, CountsAreNatural
  <2>4. Copies(q, 1, Len(q), e) # 0
    BY <2>1, <2>2, <2>3
  <2>5. PICK j \in 1..Len(q) : q[j] = e
    <3>1. 1 \in Nat
      OBVIOUS
    <3>2. ASSUME \A j \in 1..Len(q) : q[j] # e PROVE FALSE
      BY <1>2, <2>4, <3>1, <3>2, NoCopies
    <3> QED
      BY <3>2
  <2> QED
    BY <2>5 DEF ToSet
<1>4. i \in 1..Len(q) /\ q[i] = e
  BY <1>3, FirstSlotFacts
<1>5. FillsGap(q, i, r)
  BY <1>4, WithoutSlotFacts
<1>6. One(e) \in BagsOf(Events) /\ \A x : Number(One(e), x) = Once(e = x)
  BY <1>2, OneEvent DEF One
<1>7. v \in BagsOf(Events) /\ \A x : Number(v, x) = Number(it.removed, x) + Once(e = x)
  BY <1>2, <1>6, BagUnions
<1>8. /\ new \in IteratorTypes
      /\ new.cursor = it.cursor /\ new.lastRet = 0 /\ new.visited = it.visited
      /\ new.lastElt = None /\ new.forgetMeNot = it.forgetMeNot
      /\ new.start = it.start /\ new.removed = v
  <2>1. new = [it EXCEPT !.lastElt = None, !.removed = v]
    OBVIOUS
  <2> HIDE DEF v
  <2> DEFINE mid == [it EXCEPT !.lastElt = None]
  <2>2. mid \in IteratorTypes
    BY <1>1 DEF IteratorTypes
  <2>3. /\ mid.cursor = it.cursor /\ mid.lastRet = it.lastRet /\ mid.visited = it.visited
        /\ mid.lastElt = None /\ mid.forgetMeNot = it.forgetMeNot /\ mid.start = it.start
    BY <1>1 DEF IteratorTypes
  <2>4. new = [mid EXCEPT !.removed = v]
    BY <2>1
  <2> HIDE DEF mid
  <2>5. new \in IteratorTypes
    BY <1>7, <2>2, <2>4 DEF IteratorTypes
  <2>6. /\ new.cursor = mid.cursor /\ new.lastRet = mid.lastRet /\ new.visited = mid.visited
        /\ new.lastElt = mid.lastElt /\ new.forgetMeNot = mid.forgetMeNot
        /\ new.start = mid.start /\ new.removed = v
    BY <2>2, <2>4 DEF IteratorTypes
  <2> QED
    BY <1>1, <2>3, <2>5, <2>6
<1>9. PlaceSound(r, new)
  BY <1>8 DEF PlaceSound
<1>10. r \in Seq(Events) /\ Len(r) = Len(q) - 1
  BY <1>5 DEF FillsGap
<1>11. ASSUME NEW x \in Events PROVE CountsSound(r, new, x)
  <2>1. Copies(r, 1, Len(r), x) + Once(e = x) = Copies(q, 1, Len(q), x)
    BY <1>4, <1>5 DEF FillsGap
  <2>2. Copies(r, it.cursor, Len(r), x) = 0 /\ Copies(q, it.cursor, Len(q), x) = 0
    <3>1. it.cursor..Len(r) = {} /\ it.cursor..Len(q) = {} /\ Len(r) \in Nat
      BY <1>2, <1>4, <1>10
    <3> QED
      BY <1>2, <3>1, NoCopies
  <2>3. /\ Once(new.lastRet # 0 /\ r[new.lastRet] = x) = 0 /\ Once(new.lastElt = x) = 0
        /\ Once(it.lastRet # 0 /\ q[it.lastRet] = x) = 0
    BY <1>8, NoneAssumption DEF Once
  <2>4. Number(v, x) = Number(it.removed, x) + Once(e = x)
    BY <1>7
  <2>5. CountsSound(q, it, x)
    BY <1>1
  <2>6. /\ Number(it.visited, x) \in Nat /\ Number(it.start, x) \in Nat
        /\ Number(it.removed, x) \in Nat /\ Copies(q, 1, Len(q), x) \in Nat
        /\ Copies(it.forgetMeNot, 1, Len(it.forgetMeNot), x) \in Nat /\ Once(e = x) \in Nat
    BY <1>1, CountsAreNatural
  <2>7. Copies(r, 1, Len(r), x) \in Nat
    BY <1>8, <1>10, CountsAreNatural
  <2>8. /\ Number(it.visited, x) + 0 + Copies(it.forgetMeNot, 1, Len(it.forgetMeNot), x)
              = Number(it.start, x)
        /\ Copies(q, 1, Len(q), x) + Number(it.removed, x) = Number(it.start, x)
        /\ Number(it.removed, x) + 0 + Once(e = x) <= Number(it.visited, x)
    BY <2>2, <2>3, <2>5 DEF CountsSound
  <2> HIDE DEF r, i, e, v
  <2>9. Copies(r, 1, Len(r), x) + Number(v, x) = Number(it.start, x)
    BY <2>1, <2>4, <2>6, <2>7, <2>8
  <2>10. Number(v, x) + 0 + 0 <= Number(it.visited, x)
    BY <2>4, <2>6, <2>8
  <2> QED
    BY <1>8, <2>2, <2>3, <2>8, <2>9, <2>10 DEF CountsSound
<1> QED
  BY <1>2, <1>3, <1>8, <1>9, <1>11 DEF Sound

-----------------------------------------------------------------------------
(* The array of a copy.                                                     *)

LEMMA NothingSinks ==
    ASSUME NEW q \in Seq(Events), InOrder(q), NEW i \in 1..Len(q)
    PROVE  /\ SiftDownPath(q, i, q[i], Len(q)) = <<>>
           /\ PlaceDown(q, i, <<>>, q[i]) = q
<1> DEFINE n == Len(q)
           e == q[i]
<1>1. n \in Nat /\ i \in 1..n /\ DOMAIN q = 1..n /\ \A j \in 1..n : q[j] \in Events
  OBVIOUS
<1>2. \A j \in 1..n : Rank[q[j]] \in Nat
  BY <1>1, RanksAreNatural
<1> DEFINE f == CHOOSE f : IsPath(q, e, n, f)
<1>3. SiftDownPath(q, i, e, n) = f[i]
  BY DEF SiftDownPath, IsPath, PathAt, StaysAt, LeastChild
<1>4. IsPath(q, e, n, f)
  BY <1>1, PathExists
<1> HIDE DEF f
<1>5. f[i] = PathAt(q, e, n, f, i)
  BY <1>1, <1>4 DEF IsPath
<1> HIDE DEF n
<1>6. StaysAt(q, i, e, n)
  <2> SUFFICES ASSUME ~StaysAt(q, i, e, n) PROVE FALSE
    OBVIOUS
  <2> DEFINE c == LeastChild(q, i, n)
  <2>1. c \in 1..n /\ c > i /\ c \div 2 = i
    BY <1>1, ChildBelow
  <2>2. ~(Rank[e] <= Rank[q[c]])
    BY DEF StaysAt
  <2> HIDE DEF c
  <2>3. c \in 2..n
    BY <1>1, <2>1
  <2>4. Rank[q[i]] <= Rank[q[c]]
    BY <2>1, <2>3 DEF InOrder, InOrderTo, n
  <2> QED
    BY <2>2, <2>4
<1>7. SiftDownPath(q, i, e, n) = <<>>
  BY <1>3, <1>5, <1>6 DEF PathAt
<1>8. PlaceDown(q, i, <<>>, e) = q
  <2>1. Last(<<i>> \o <<>>) = i /\ DOMAIN <<>> = {}
    BY DEF Last
  <2>2. PlaceDown(q, i, <<>>, e) = [j \in DOMAIN q |-> IF j = i THEN e ELSE q[j]]
    BY <2>1 DEF PlaceDown
  <2>3. \A j \in DOMAIN q : (IF j = i THEN e ELSE q[j]) = q[j]
    OBVIOUS
  <2>4. q = [j \in DOMAIN q |-> q[j]]
    OBVIOUS
  <2> HIDE DEF e
  <2> QED
    BY <2>2, <2>3, <2>4
<1> QED
  BY <1>7, <1>8 DEF n

IsSifted(q, f) ==
    f = [i \in 1..(Len(q) \div 2 + 1) |->
            IF i > Len(q) \div 2 THEN q
            ELSE LET below == f[i + 1]
                 IN PlaceDown(below, i, SiftDownPath(below, i, below[i], Len(q)), below[i])]

LEMMA HeapifyKeeps ==
    ASSUME NEW q \in Seq(Events), InOrder(q)
    PROVE  Heapified(q) = q
<1> DEFINE h == Len(q) \div 2
           f == CHOOSE f : IsSifted(q, f)
           g == [i \in 1..(h + 1) |-> q]
<1>1. Heapified(q) = f[1]
  BY DEF Heapified, IsSifted
<1>2. h \in Nat /\ h <= Len(q) /\ Len(q) \in Nat
  <2>1. Len(q) \in Nat
    OBVIOUS
  <2> QED
    BY <2>1
<1>3. \A i \in 1..(h + 1) : ~(i > h) => i \in 1..Len(q) /\ i + 1 \in 1..(h + 1)
  BY <1>2
<1>4. \A i \in 1..(h + 1) : ~(i > h) =>
          PlaceDown(q, i, SiftDownPath(q, i, q[i], Len(q)), q[i]) = q
  BY <1>3, NothingSinks
<1>5. IsSifted(q, g)
  <2> HIDE DEF h
  <2>1. \A i \in 1..(h + 1) : ~(i > h) => g[i + 1] = q
    BY <1>3
  <2>2. g = [i \in 1..(h + 1) |->
            IF i > h THEN q
            ELSE LET below == g[i + 1]
                 IN PlaceDown(below, i, SiftDownPath(below, i, below[i], Len(q)), below[i])]
    BY <1>4, <2>1
  <2> QED
    BY <2>2 DEF IsSifted, h
<1>6. IsSifted(q, f)
  BY <1>5
<1> HIDE DEF f, g
<1>7. \A i \in 1..(h + 1) : f[i] =
            IF i > h THEN q
            ELSE PlaceDown(f[i + 1], i, SiftDownPath(f[i + 1], i, f[i + 1][i], Len(q)), f[i + 1][i])
  BY <1>6 DEF IsSifted
<1> HIDE DEF h
<1> DEFINE T == {m \in Nat : \A i \in 1..(h + 1) : h + 1 < i + m => f[i] = q}
<1>8. 0 \in T
  BY <1>2
<1>9. ASSUME NEW m \in T PROVE m + 1 \in T
  <2>1. m \in Nat /\ \A i \in 1..(h + 1) : h + 1 < i + m => f[i] = q
    OBVIOUS
  <2> HIDE DEF T
  <2>2. ASSUME NEW i \in 1..(h + 1), h + 1 < i + (m + 1) PROVE f[i] = q
    <3>1. CASE i > h
      BY <1>7, <3>1
    <3>2. CASE ~(i > h)
      <4>1. i + 1 \in 1..(h + 1) /\ h + 1 < (i + 1) + m
        BY <1>2, <1>3, <2>1, <2>2, <3>2
      <4>2. f[i + 1] = q
        BY <2>1, <4>1
      <4> QED
        BY <1>4, <1>7, <3>2, <4>2
    <3> QED
      BY <3>1, <3>2
  <2> QED
    BY <2>1, <2>2 DEF T
<1>10. T = Nat
  <2> HIDE DEF T
  <2> QED
    BY <1>8, <1>9, AllNaturals DEF T
<1>11. f[1] = q
  <2>1. h + 1 \in T /\ 1 \in 1..(h + 1)
    <3> HIDE DEF T
    <3> QED
      BY <1>2, <1>10
  <2>2. h + 1 < 1 + (h + 1)
    BY <1>2
  <2> QED
    BY <2>1, <2>2
<1> QED
  BY <1>1, <1>11

LEMMA OfferedInOrder ==
    ASSUME NEW q \in Seq(Events), NEW e \in Events,
           Len(q) > 0 => Rank[q[(Len(q) + 1) \div 2]] <= Rank[e]
    PROVE  Offered(q, e) = Append(q, e)
<1> DEFINE k == Len(q) + 1
           r == Append(q, e)
           A == AncestorsOf(k)
           t == SiftUpTarget(q, k, e)
<1>1. Len(q) \in Nat /\ k \in Nat /\ k > 0 /\ r \in Seq(Events) /\ DOMAIN r = 1..k /\ r[k] = e
  OBVIOUS
<1>2. ChainUp(k, A) /\ TargetOnChain(q, k, e, A, t)
  BY <1>1, SiftUpFacts
<1>3. A \subseteq 1..k /\ t \in A
  BY <1>2 DEF ChainUp, TargetOnChain
<1> HIDE DEF A, t
<1>4. t = k
  <2> SUFFICES ASSUME t # k PROVE FALSE
    OBVIOUS
  <2>1. k \in A /\ k > t /\ Len(q) > 0
    BY <1>1, <1>2, <1>3 DEF ChainUp
  <2>2. Rank[e] < Rank[q[k \div 2]]
    BY <1>2, <2>1 DEF TargetOnChain
  <2>3. k \div 2 \in 1..Len(q)
    BY <1>1, <2>1, Parents
  <2>4. Rank[e] \in Nat /\ Rank[q[k \div 2]] \in Nat
    BY <2>3, RanksAreNatural
  <2> QED
    BY <2>1, <2>2, <2>4
<1>5. \A i \in 1..k : ~(i > t)
  BY <1>1, <1>4
<1> HIDE DEF k, r
<1>6. PlaceUp(r, k, t, e) = [i \in 1..k |-> r[i]]
  BY <1>1, <1>4, <1>5 DEF PlaceUp
<1>7. r = [i \in 1..k |-> r[i]]
  BY <1>1
<1> QED
  BY <1>6, <1>7 DEF Offered, k, r, t

(* FoldLeft takes the slots of a set from the greatest one.                 *)
LEMMA GreatestSlot ==
    ASSUME NEW n \in Nat, NEW s \in SUBSET (1..n), s # {}
    PROVE  Max(s) \in s /\ \A y \in s : y <= Max(s)
<1> DEFINE T == {m \in Nat : \A y \in s : y <= m}
<1>1. n \in T /\ T \in SUBSET Nat
  OBVIOUS
<1>2. PICK m \in T : \A o \in T : m <= o
  <2> HIDE DEF T
  <2> QED
    BY <1>1, LeastNatural
<1>3. m \in Nat /\ \A y \in s : y <= m /\ y \in 1..n
  BY <1>2
<1>4. m \in s
  <2> SUFFICES ASSUME m \notin s PROVE FALSE
    OBVIOUS
  <2>1. m # 0
    <3>1. PICK y \in s : TRUE
      OBVIOUS
    <3>2. y \in 1..n /\ y <= m
      BY <1>3
    <3> QED
      BY <1>3, <3>2
  <2>2. m - 1 \in Nat /\ \A y \in s : y <= m - 1
    BY <1>3, <2>1
  <2>3. m <= m - 1
    BY <1>2, <2>2
  <2> QED
    BY <1>3, <2>3
<1>5. \E x \in s : \A y \in s : x >= y
  BY <1>3, <1>4
<1> QED
  BY <1>3, <1>5 DEF Max

IsAdded(q, n, f) ==
    f = [s \in SUBSET (1..n) |->
            IF s = {} THEN <<>> ELSE Offered(f[s \ {Max(s)}], q[Max(s)])]

LEMMA AddedIs ==
    ASSUME NEW q \in Seq(Events)
    PROVE  AddedAll(q) = (CHOOSE f : IsAdded(q, Len(q), f))[1..Len(q)]
<1>1. DOMAIN q = 1..Len(q)
  OBVIOUS
<1> QED
  BY <1>1 DEF AddedAll, FoldLeft, MapThenFoldSet, IsAdded

LEMMA AddedExists ==
    ASSUME NEW q, NEW n \in Nat
    PROVE  \E f : IsAdded(q, n, f)
<1> DEFINE T == {m \in Nat : \E f : IsAdded(q, m, f)}
<1>1. 0 \in T
  <2> DEFINE f == [s \in SUBSET (1..0) |-> <<>>]
  <2>1. 1..0 = {}
    OBVIOUS
  <2>2. \A s \in SUBSET (1..0) : s = {}
    BY <2>1
  <2>3. IsAdded(q, 0, f)
    BY <2>2 DEF IsAdded
  <2> QED
    BY <2>3
<1>2. ASSUME NEW m \in T PROVE m + 1 \in T
  <2>1. PICK f : IsAdded(q, m, f)
    OBVIOUS
  <2>2. m \in Nat
    OBVIOUS
  <2> HIDE DEF T
  <2> DEFINE g == [s \in SUBSET (1..(m + 1)) |->
                IF s = {} THEN <<>> ELSE Offered(f[s \ {Max(s)}], q[Max(s)])]
  <2>3. \A s \in SUBSET (1..m) : s \in SUBSET (1..(m + 1))
    BY <2>2
  <2>4. \A s \in SUBSET (1..m) : g[s] = f[s]
    BY <2>1, <2>3 DEF IsAdded
  <2>5. ASSUME NEW s \in SUBSET (1..(m + 1)), s # {} PROVE s \ {Max(s)} \in SUBSET (1..m)
    <3>1. Max(s) \in s /\ \A y \in s : y <= Max(s)
      <4>1. m + 1 \in Nat
        BY <2>2
      <4> QED
        BY <2>5, <4>1, GreatestSlot
    <3>2. ASSUME NEW y \in s, y # Max(s) PROVE y \in 1..m
      <4>1. y \in 1..(m + 1) /\ Max(s) \in 1..(m + 1) /\ y <= Max(s)
        BY <3>1
      <4> QED
        BY <2>2, <3>2, <4>1
    <3> QED
      BY <3>2
  <2>6. \A s \in SUBSET (1..(m + 1)) : s # {} => g[s \ {Max(s)}] = f[s \ {Max(s)}]
    BY <2>4, <2>5
  <2>7. IsAdded(q, m + 1, g)
    BY <2>6 DEF IsAdded
  <2> QED
    BY <2>2, <2>7 DEF T
<1> HIDE DEF T
<1>3. T = Nat
  BY <1>1, <1>2, AllNaturals DEF T
<1> QED
  BY <1>3 DEF T

LEMMA AddedAllKeeps ==
    ASSUME NEW q \in Seq(Events), InOrder(q)
    PROVE  AddedAll(q) = q
<1> DEFINE n == Len(q)
           f == CHOOSE f : IsAdded(q, n, f)
           part(m) == SubSeq(q, 1, m)
           T == {m \in Nat : m <= n => f[1..m] = part(m)}
<1>1. n \in Nat /\ \A i \in 1..n : q[i] \in Events
  OBVIOUS
<1>2. AddedAll(q) = f[1..n]
  BY AddedIs
<1>3. IsAdded(q, n, f)
  BY <1>1, AddedExists
<1> HIDE DEF f
<1>4. \A s \in SUBSET (1..n) :
          f[s] = IF s = {} THEN <<>> ELSE Offered(f[s \ {Max(s)}], q[Max(s)])
  BY <1>3 DEF IsAdded
<1>5. 0 \in T
  <2>1. 1..0 = {} /\ part(0) = <<>>
    OBVIOUS
  <2> HIDE DEF part
  <2> QED
    BY <1>4, <2>1
<1>6. ASSUME NEW m \in T PROVE m + 1 \in T
  <2>1. m \in Nat /\ (m <= n => f[1..m] = part(m))
    OBVIOUS
  <2> SUFFICES ASSUME m + 1 <= n PROVE f[1..(m + 1)] = part(m + 1)
    BY <2>1
  <2> DEFINE s == 1..(m + 1)
  <2>2. s \in SUBSET (1..n) /\ m + 1 \in s
    BY <1>1, <2>1
  <2>3. Max(s) = m + 1
    <3>1. s \in SUBSET (1..(m + 1)) /\ s # {} /\ m + 1 \in Nat
      <4>1. s \in SUBSET (1..(m + 1)) /\ m + 1 \in Nat
        BY <2>1
      <4> HIDE DEF s
      <4> QED
        BY <2>2, <4>1
    <3>2. Max(s) \in s /\ \A y \in s : y <= Max(s)
      BY <3>1, GreatestSlot
    <3>3. Max(s) \in 1..(m + 1) /\ m + 1 <= Max(s)
      BY <2>2, <3>2
    <3> QED
      BY <2>1, <3>3
  <2>4. s \ {m + 1} = 1..m
    BY <2>1
  <2>5. f[s] = Offered(f[1..m], q[m + 1])
    <3> HIDE DEF s
    <3> QED
      BY <1>4, <2>2, <2>3, <2>4
  <2>6. f[1..m] = part(m)
    BY <1>1, <2>1
  <2>7. /\ part(m) \in Seq(Events) /\ Len(part(m)) = m
        /\ \A i \in 1..m : part(m)[i] = q[i]
    BY <1>1, <2>1
  <2>8. q[m + 1] \in Events
    BY <1>1, <2>1
  <2>9. m > 0 => Rank[part(m)[(m + 1) \div 2]] <= Rank[q[m + 1]]
    <3> SUFFICES ASSUME m > 0 PROVE Rank[part(m)[(m + 1) \div 2]] <= Rank[q[m + 1]]
      OBVIOUS
    <3>1. (m + 1) \div 2 \in 1..m /\ m + 1 \in 2..n
      BY <1>1, <2>1, Parents
    <3>2. Rank[q[(m + 1) \div 2]] <= Rank[q[m + 1]]
      BY <3>1 DEF InOrder, InOrderTo
    <3> QED
      BY <2>7, <3>1, <3>2
  <2>10. Offered(part(m), q[m + 1]) = Append(part(m), q[m + 1])
    <3> HIDE DEF part
    <3> QED
      BY <2>7, <2>8, <2>9, OfferedInOrder
  <2>11. Append(part(m), q[m + 1]) = part(m + 1)
    BY <1>1, <2>1
  <2> HIDE DEF part
  <2> QED
    BY <2>5, <2>6, <2>10, <2>11
<1>7. T = Nat
  <2>1. T \in SUBSET Nat
    OBVIOUS
  <2> HIDE DEF T
  <2> QED
    BY <1>5, <1>6, <2>1, AllNaturals
<1>8. f[1..n] = part(n)
  <2>1. n \in T
    <3> HIDE DEF T
    <3> QED
      BY <1>1, <1>7
  <2> QED
    BY <1>1, <2>1
<1>9. part(n) = q
  BY <1>1
<1> QED
  BY <1>2, <1>8, <1>9

-----------------------------------------------------------------------------
(* The operations keep the invariant.                                       *)

LEMMA InvariantStarts == Init => QueueInv
<1> SUFFICES ASSUME Init PROVE QueueInv
  OBVIOUS
<1>1. queue = <<>> /\ polled = None /\ iterator = None
  BY DEF Init
<1>2. <<>> \in Seq(Events) /\ InOrder(<<>>)
  <2>1. <<>> \in Seq(Events) /\ 2..Len(<<>>) = {}
    OBVIOUS
  <2> QED
    BY <2>1 DEF InOrder, InOrderTo
<1> QED
  BY <1>1, <1>2 DEF QueueInv

LEMMA OfferStep ==
    ASSUME QueueInv, NEW e \in Events, Offer(e)
    PROVE  QueueInv'
<1>1. queue \in Seq(Events) /\ InOrder(queue) /\ polled \in Events \cup {None}
  BY DEF QueueInv
<1>2. queue' = Offered(queue, e) /\ polled' = polled /\ iterator' = None
  BY DEF Offer
<1>3. Offered(queue, e) \in Seq(Events) /\ InOrder(Offered(queue, e))
  BY <1>1, OfferedFacts
<1> QED
  BY <1>1, <1>2, <1>3 DEF QueueInv

LEMMA PollStep ==
    ASSUME QueueInv, Poll
    PROVE  QueueInv'
<1>1. queue \in Seq(Events) /\ InOrder(queue) /\ polled \in Events \cup {None}
  BY DEF QueueInv
<1>2. iterator' = None
  BY DEF Poll
<1>3. CASE queue = <<>>
  <2>1. queue' = queue /\ polled' = None
    BY <1>3 DEF Poll
  <2> QED
    BY <1>1, <1>2, <2>1 DEF QueueInv
<1>4. CASE queue # <<>>
  <2>1. queue' = WithoutFirst(queue) /\ polled' = queue[1]
    BY <1>4 DEF Poll
  <2>2. FillsGap(queue, 1, WithoutFirst(queue))
    BY <1>1, <1>4, WithoutFirstFacts
  <2>3. WithoutFirst(queue) \in Seq(Events) /\ InOrder(WithoutFirst(queue))
    BY <1>1, <2>2 DEF FillsGap
  <2>4. queue[1] \in Events
    BY <1>1, <1>4
  <2> QED
    BY <1>2, <2>1, <2>3, <2>4 DEF QueueInv
<1> QED
  BY <1>3, <1>4

LEMMA RemoveEventStep ==
    ASSUME QueueInv, NEW e \in Events, RemoveEvent(e)
    PROVE  QueueInv'
<1>1. queue \in Seq(Events) /\ InOrder(queue) /\ polled \in Events \cup {None}
  BY DEF QueueInv
<1>2. iterator' = None /\ polled' = polled
  BY DEF RemoveEvent
<1>3. CASE e \notin ToSet(queue)
  <2>1. queue' = queue
    BY <1>3 DEF RemoveEvent
  <2> QED
    BY <1>1, <1>2, <2>1 DEF QueueInv
<1>4. CASE e \in ToSet(queue)
  <2> DEFINE i == FirstSlotOf(queue, e)
  <2>1. queue' = WithoutSlot(queue, i)
    BY <1>4 DEF RemoveEvent
  <2>2. i \in 1..Len(queue)
    BY <1>1, <1>4, FirstSlotFacts
  <2> HIDE DEF i
  <2>3. FillsGap(queue, i, WithoutSlot(queue, i))
    BY <1>1, <2>2, WithoutSlotFacts
  <2> QED
    BY <1>1, <1>2, <2>1, <2>3 DEF QueueInv, FillsGap
<1> QED
  BY <1>3, <1>4

LEMMA ClearStep ==
    ASSUME QueueInv, Clear
    PROVE  QueueInv'
<1>1. queue' = <<>> /\ polled' = polled /\ iterator' = None /\ polled \in Events \cup {None}
  BY DEF QueueInv, Clear
<1>2. <<>> \in Seq(Events) /\ InOrder(<<>>)
  <2>1. <<>> \in Seq(Events) /\ 2..Len(<<>>) = {}
    OBVIOUS
  <2> QED
    BY <2>1 DEF InOrder, InOrderTo
<1> QED
  BY <1>1, <1>2 DEF QueueInv

LEMMA IterateStep ==
    ASSUME QueueInv, Iterate
    PROVE  QueueInv'
<1>1. queue \in Seq(Events) /\ InOrder(queue) /\ polled \in Events \cup {None}
  BY DEF QueueInv
<1>2. queue' = queue /\ polled' = polled
  BY DEF Iterate
<1>3. Sound(queue, iterator')
  BY <1>1, SoundAtStart DEF Iterate
<1> QED
  BY <1>1, <1>2, <1>3 DEF QueueInv

LEMMA NextStep ==
    ASSUME QueueInv, NextInArray \/ NextForgotten \/ NextFails
    PROVE  QueueInv'
<1>1. /\ queue \in Seq(Events) /\ InOrder(queue) /\ polled \in Events \cup {None}
      /\ Sound(queue, iterator)
  BY DEF QueueInv, NextInArray, NextForgotten, NextFails
<1>2. queue' = queue /\ polled' = polled
  BY DEF NextInArray, NextForgotten, NextFails
<1>3. Sound(queue, iterator')
  <2>1. CASE NextInArray
    BY <1>1, <2>1, SoundAfterNext DEF NextInArray, Visited
  <2>2. CASE NextForgotten
    BY <1>1, <2>2, SoundAfterForgotten DEF NextForgotten, Visited
  <2>3. CASE NextFails
    BY <1>1, <2>3, SoundAfterFail DEF NextFails
  <2> QED
    BY <2>1, <2>2, <2>3
<1> QED
  BY <1>1, <1>2, <1>3 DEF QueueInv

LEMMA RemoveReturnedFacts ==
    ASSUME QueueInv, RemoveReturned
    PROVE  /\ iterator.lastRet \in 1..Len(queue)
           /\ queue' = WithoutSlot(queue, iterator.lastRet)
           /\ Sound(queue', iterator')
<1>1. queue \in Seq(Events) /\ Sound(queue, iterator) /\ iterator.lastRet # 0
  BY DEF QueueInv, RemoveReturned
<1>2. queue' = WithoutSlot(queue, iterator.lastRet)
  BY DEF RemoveReturned
<1>3. iterator.lastRet \in 1..Len(queue) /\ Sound(WithoutSlot(queue, iterator.lastRet), iterator')
  BY <1>1, SoundAfterRemove DEF RemoveReturned
<1> QED
  BY <1>2, <1>3

LEMMA RemoveForgottenFacts ==
    ASSUME QueueInv, RemoveForgotten
    PROVE  /\ FirstSlotOf(queue, iterator.lastElt) \in 1..Len(queue)
           /\ queue' = WithoutSlot(queue, FirstSlotOf(queue, iterator.lastElt))
           /\ Sound(queue', iterator')
<1>1. /\ queue \in Seq(Events) /\ Sound(queue, iterator)
      /\ iterator.lastRet = 0 /\ iterator.lastElt # None
  BY DEF QueueInv, RemoveForgotten
<1>2. iterator' = [iterator EXCEPT !.lastElt = None, !.removed = @ (+) One(iterator.lastElt)]
  BY DEF RemoveForgotten
<1>3. /\ iterator.lastElt \in ToSet(queue)
      /\ Sound(WithoutSlot(queue, FirstSlotOf(queue, iterator.lastElt)), iterator')
  BY <1>1, <1>2, SoundAfterRemoveForgotten
<1>4. queue' = WithoutSlot(queue, FirstSlotOf(queue, iterator.lastElt))
  BY <1>3 DEF RemoveForgotten
<1>5. FirstSlotOf(queue, iterator.lastElt) \in 1..Len(queue)
  BY <1>1, <1>3, FirstSlotFacts
<1> QED
  BY <1>3, <1>4, <1>5

LEMMA RemoveSlotStep ==
    ASSUME QueueInv, NEW i \in 1..Len(queue), queue' = WithoutSlot(queue, i),
           polled' = polled, Sound(queue', iterator')
    PROVE  QueueInv'
<1>1. queue \in Seq(Events) /\ InOrder(queue) /\ polled \in Events \cup {None}
  BY DEF QueueInv
<1>2. FillsGap(queue, i, WithoutSlot(queue, i))
  BY <1>1, WithoutSlotFacts
<1> QED
  BY <1>1, <1>2 DEF QueueInv, FillsGap

LEMMA InvariantStep == QueueInv /\ [Next]_vars => QueueInv'
<1> SUFFICES ASSUME QueueInv, [Next]_vars PROVE QueueInv'
  OBVIOUS
<1>1. ASSUME NEW e \in Events, Offer(e) PROVE QueueInv'
  BY <1>1, OfferStep
<1>2. ASSUME NEW e \in Events, RemoveEvent(e) PROVE QueueInv'
  BY <1>2, RemoveEventStep
<1>3. CASE Poll
  BY <1>3, PollStep
<1>4. CASE Clear
  BY <1>4, ClearStep
<1>5. CASE Iterate
  BY <1>5, IterateStep
<1>6. CASE NextInArray \/ NextForgotten \/ NextFails
  BY <1>6, NextStep
<1>7. CASE RemoveReturned
  BY <1>7, RemoveReturnedFacts, RemoveSlotStep DEF RemoveReturned
<1>8. CASE RemoveForgotten
  BY <1>8, RemoveForgottenFacts, RemoveSlotStep DEF RemoveForgotten
<1>9. CASE Leave
  BY <1>9 DEF Leave, QueueInv
<1>10. CASE UNCHANGED vars
  BY <1>10 DEF vars, QueueInv
<1> QED
  BY <1>1, <1>2, <1>3, <1>4, <1>5, <1>6, <1>7, <1>8, <1>9, <1>10 DEF Next

LEMMA QueueInvHolds == Spec => []QueueInv
<1> QED
  BY InvariantStarts, InvariantStep, PTL DEF Spec

\* No event comes before its parent, whatever was added, polled and removed, also
\* through an iterator: the heap of EventQueue.cpp keeps its order.
THEOREM QueueIsAHeap == Spec => []HeapOrder
<1>1. QueueInv => HeapOrder
  BY DEF QueueInv, InOrder, InOrderTo, HeapOrder
<1> QED
  BY <1>1, QueueInvHolds, PTL

\* A copy of a queue, and a queue filled from it with addAll(), have its array.
THEOREM QueueCopiesKeepTheArray == Spec => []CopiesKeepTheArray
<1>1. QueueInv => CopiesKeepTheArray
  BY HeapifyKeeps, AddedAllKeeps DEF QueueInv, CopiesKeepTheArray
<1> QED
  BY <1>1, QueueInvHolds, PTL

\* An iterator that has no next event has returned each event that was queued
\* when it was made, and no event oftener than it was queued.
THEOREM QueueVisitsOnce == Spec => []VisitsEveryEventOnce
<1>1. QueueInv => VisitsEveryEventOnce
  <2> SUFFICES ASSUME QueueInv, iterator # None, ~HasNext
               PROVE  iterator.visited = iterator.start
    BY DEF VisitsEveryEventOnce
  <2>1. /\ queue \in Seq(Events) /\ iterator \in IteratorTypes
        /\ \A x \in Events : CountsSound(queue, iterator, x)
    BY DEF QueueInv, Sound
  <2>2. /\ iterator.forgetMeNot = <<>> /\ iterator.cursor \in Nat /\ Len(queue) \in Nat
        /\ iterator.cursor > Len(queue)
        /\ iterator.visited \in BagsOf(Events) /\ iterator.start \in BagsOf(Events)
    BY <2>1 DEF HasNext, IteratorTypes
  <2>3. ASSUME NEW x \in Events PROVE Number(iterator.visited, x) = Number(iterator.start, x)
    <3>1. Copies(queue, iterator.cursor, Len(queue), x) = 0
      <4>1. iterator.cursor..Len(queue) = {}
        BY <2>2
      <4> QED
        BY <2>2, <4>1, NoCopies
    <3>2. Copies(iterator.forgetMeNot, 1, Len(iterator.forgetMeNot), x) = 0
      <4>1. Len(<<>>) = 0 /\ 1..0 = {} /\ 0 \in Nat /\ 1 \in Nat
        OBVIOUS
      <4> QED
        BY <2>2, <4>1, NoCopies
    <3>3. Number(iterator.visited, x) \in Nat
      BY <2>2, NumberIsNatural
    <3>4. Number(iterator.visited, x) + 0 + 0 = Number(iterator.start, x)
      BY <2>1, <3>1, <3>2 DEF CountsSound
    <3> QED
      BY <3>3, <3>4
  <2> QED
    BY <2>2, <2>3, SameBag
<1> QED
  BY <1>1, QueueInvHolds, PTL

\* What an iterator removes is what it had returned, and nothing else leaves the
\* queue meanwhile.
THEOREM QueueRemovesReturned == Spec => []RemovesWhatItReturned
<1>1. QueueInv => RemovesWhatItReturned
  <2> SUFFICES ASSUME QueueInv, iterator # None
               PROVE  /\ iterator.removed \sqsubseteq iterator.visited
                      /\ BagOf(queue) (+) iterator.removed = iterator.start
    BY DEF RemovesWhatItReturned
  <2>1. /\ queue \in Seq(Events) /\ iterator \in IteratorTypes
        /\ \A x \in Events : CountsSound(queue, iterator, x)
    BY DEF QueueInv, Sound
  <2>2. /\ iterator.visited \in BagsOf(Events) /\ iterator.start \in BagsOf(Events)
        /\ iterator.removed \in BagsOf(Events)
    BY <2>1 DEF IteratorTypes
  <2>3. ASSUME NEW x \in Events
        PROVE  /\ Number(iterator.removed, x) <= Number(iterator.visited, x)
               /\ Number(iterator.removed, x) \in Nat /\ Number(iterator.visited, x) \in Nat
    <3> DEFINE a == Number(iterator.removed, x)
               b == Once(iterator.lastRet # 0 /\ queue[iterator.lastRet] = x)
               c == Once(iterator.lastElt = x)
               d == Number(iterator.visited, x)
    <3>1. a + b + c <= d
      BY <2>1 DEF CountsSound
    <3>2. a \in Nat /\ b \in Nat /\ c \in Nat /\ d \in Nat
      BY <2>1, CountsAreNatural
    <3> HIDE DEF a, b, c, d
    <3>3. a <= d
      BY <3>1, <3>2
    <3> QED
      BY <3>2, <3>3 DEF a, d
  <2>4. iterator.removed \sqsubseteq iterator.visited
    <3> DEFINE R == iterator.removed
               V == iterator.visited
    <3>1. \A x \in DOMAIN R : x \in Events /\ R[x] = Number(R, x) /\ Number(R, x) # 0
      BY <2>2, NumberIsNatural DEF Number
    <3>2. \A x \in DOMAIN R : Number(V, x) # 0 /\ Number(R, x) <= Number(V, x)
      BY <2>3, <3>1
    <3>3. \A x \in DOMAIN R : x \in DOMAIN V /\ V[x] = Number(V, x)
      BY <3>2 DEF Number
    <3> QED
      BY <3>1, <3>2, <3>3 DEF \sqsubseteq
  <2>5. /\ BagOf(queue) \in BagsOf(Events)
        /\ \A x : Number(BagOf(queue), x) = Copies(queue, 1, Len(queue), x)
    BY <2>1, BagOfQueue
  <2>6. /\ BagOf(queue) (+) iterator.removed \in BagsOf(Events)
        /\ \A x : Number(BagOf(queue) (+) iterator.removed, x)
                    = Number(BagOf(queue), x) + Number(iterator.removed, x)
    BY <2>2, <2>5, BagUnions
  <2>7. \A x \in Events : Number(BagOf(queue) (+) iterator.removed, x) = Number(iterator.start, x)
    BY <2>1, <2>5, <2>6 DEF CountsSound
  <2>8. BagOf(queue) (+) iterator.removed = iterator.start
    BY <2>2, <2>6, <2>7, SameBag
  <2> QED
    BY <2>4, <2>8
<1> QED
  BY <1>1, QueueInvHolds, PTL

-----------------------------------------------------------------------------
(* The queue implements the bag.                                            *)

LEMMA BagOfNone == BagOf(<<>>) = EmptyBag
<1>1. <<>> \in Seq(Events) /\ Len(<<>>) = 0 /\ 1..0 = {} /\ 0 \in Nat /\ 1 \in Nat
  OBVIOUS
<1>2. \A x : Copies(<<>>, 1, 0, x) = 0
  BY <1>1, NoCopies
<1>3. BagOf(<<>>) \in BagsOf(Events) /\ \A x : Number(BagOf(<<>>), x) = 0
  BY <1>1, <1>2, BagOfQueue
<1> QED
  BY <1>3, NoEvent, SameBag

LEMMA BagOfOffered ==
    ASSUME NEW q \in Seq(Events), NEW e \in Events
    PROVE  BagOf(Offered(q, e)) = BagOf(q) (+) SetToBag({e})
<1> DEFINE r == Offered(q, e)
<1>1. /\ r \in Seq(Events) /\ Len(r) = Len(q) + 1
      /\ \A x : Copies(r, 1, Len(q) + 1, x) = Copies(q, 1, Len(q), x) + Once(e = x)
  BY OfferedFacts
<1> HIDE DEF r
<1>2. /\ BagOf(r) \in BagsOf(Events) /\ BagOf(q) \in BagsOf(Events)
      /\ \A x : Number(BagOf(r), x) = Copies(r, 1, Len(r), x)
      /\ \A x : Number(BagOf(q), x) = Copies(q, 1, Len(q), x)
  BY <1>1, BagOfQueue
<1>3. SetToBag({e}) \in BagsOf(Events) /\ \A x : Number(SetToBag({e}), x) = Once(e = x)
  BY OneEvent
<1>4. /\ BagOf(q) (+) SetToBag({e}) \in BagsOf(Events)
      /\ \A x : Number(BagOf(q) (+) SetToBag({e}), x)
                  = Number(BagOf(q), x) + Number(SetToBag({e}), x)
  BY <1>2, <1>3, BagUnions
<1>5. ASSUME NEW x \in Events
      PROVE  Number(BagOf(r), x) = Number(BagOf(q) (+) SetToBag({e}), x)
  <2>1. Number(BagOf(r), x) = Copies(r, 1, Len(q) + 1, x)
    BY <1>1, <1>2
  <2>2. Copies(r, 1, Len(q) + 1, x) = Copies(q, 1, Len(q), x) + Once(e = x)
    BY <1>1
  <2>3. Number(BagOf(q), x) = Copies(q, 1, Len(q), x)
    BY <1>2
  <2>4. Number(SetToBag({e}), x) = Once(e = x)
    BY <1>3
  <2>5. Number(BagOf(q) (+) SetToBag({e}), x) = Number(BagOf(q), x) + Number(SetToBag({e}), x)
    BY <1>4
  <2> QED
    BY ONLY <2>1, <2>2, <2>3, <2>4, <2>5
<1>6. BagOf(r) = BagOf(q) (+) SetToBag({e})
  BY <1>2, <1>4, <1>5, SameBag
<1> QED
  BY <1>6 DEF r

LEMMA BagOfTheRest ==
    ASSUME NEW q \in Seq(Events), NEW i \in 1..Len(q), NEW r, FillsGap(q, i, r)
    PROVE  /\ q[i] \in Events /\ q[i] \in DOMAIN BagOf(q)
           /\ BagOf(r) = BagOf(q) (-) SetToBag({q[i]})
<1> DEFINE e == q[i]
<1>1. e \in Events /\ e \in DOMAIN BagOf(q)
  <2>1. q[i] \in Events
    OBVIOUS
  <2>2. DOMAIN BagOf(q) = {q[j] : j \in 1..Len(q)}
    BY BagOfQueue
  <2> QED
    BY <2>1, <2>2
<1>2. /\ r \in Seq(Events)
      /\ \A x : Copies(r, 1, Len(r), x) + Once(e = x) = Copies(q, 1, Len(q), x)
  BY DEF FillsGap
<1> HIDE DEF e
<1>3. /\ BagOf(r) \in BagsOf(Events) /\ BagOf(q) \in BagsOf(Events)
      /\ \A x : Number(BagOf(r), x) = Copies(r, 1, Len(r), x)
      /\ \A x : Number(BagOf(q), x) = Copies(q, 1, Len(q), x)
  BY <1>2, BagOfQueue
<1>4. SetToBag({e}) \in BagsOf(Events) /\ \A x : Number(SetToBag({e}), x) = Once(e = x)
  BY <1>1, OneEvent
<1>5. /\ BagOf(q) (-) SetToBag({e}) \in BagsOf(Events)
      /\ \A x : Number(BagOf(q) (-) SetToBag({e}), x) =
            IF Number(BagOf(q), x) > Number(SetToBag({e}), x)
              THEN Number(BagOf(q), x) - Number(SetToBag({e}), x) ELSE 0
  BY <1>3, <1>4, BagDifferences
<1>6. ASSUME NEW x \in Events
      PROVE  Number(BagOf(r), x) = Number(BagOf(q) (-) SetToBag({e}), x)
  <2> DEFINE left == Number(BagOf(r), x)
             one  == Number(SetToBag({e}), x)
             all  == Number(BagOf(q), x)
  <2>1. left = Copies(r, 1, Len(r), x) /\ all = Copies(q, 1, Len(q), x) /\ one = Once(e = x)
    BY <1>3, <1>4
  <2>2. Copies(r, 1, Len(r), x) + Once(e = x) = Copies(q, 1, Len(q), x)
    BY <1>2
  <2>3. left \in Nat /\ one \in Nat /\ all \in Nat
    BY <1>3, <1>4, NumberIsNatural
  <2>4. Number(BagOf(q) (-) SetToBag({e}), x) = IF all > one THEN all - one ELSE 0
    BY <1>5
  <2>5. left + one = all
    BY <2>1, <2>2
  <2> HIDE DEF left, one, all
  <2>6. left = IF all > one THEN all - one ELSE 0
    BY ONLY <2>3, <2>5
  <2> QED
    BY <2>4, <2>6 DEF left
<1>7. BagOf(r) = BagOf(q) (-) SetToBag({e})
  BY <1>3, <1>5, <1>6, SameBag
<1> QED
  BY <1>1, <1>7 DEF e

\* The operators of Bags mean in EventBag what they mean here.
LEMMA SameOperators ==
    /\ Bag!EmptyBag = EmptyBag
    /\ \A e : Bag!SetToBag({e}) = SetToBag({e})
    /\ \A A, B : Bag!(+)(A, B) = A (+) B /\ Bag!(-)(A, B) = A (-) B
    /\ \A e, B : Bag!BagIn(e, B) <=> e \in DOMAIN B
    /\ \A B : Bag!BagToSet(B) = DOMAIN B
<1>1. /\ Bag!EmptyBag = EmptyBag
      /\ \A e : Bag!SetToBag({e}) = SetToBag({e})
  BY DEF Bag!EmptyBag, Bag!SetToBag, EmptyBag, SetToBag
<1>2. \A A, B : Bag!(+)(A, B) = A (+) B
  BY DEF Bag!(+), (+)
<1>3. \A A, B : Bag!(-)(A, B) = A (-) B
  BY DEF Bag!(-), (-)
<1>4. \A e, B : Bag!BagIn(e, B) <=> e \in DOMAIN B
  BY DEF Bag!BagIn, Bag!BagToSet
<1>5. \A B : Bag!BagToSet(B) = DOMAIN B
  BY DEF Bag!BagToSet
<1> QED
  BY <1>1, <1>2, <1>3, <1>4, <1>5

\* Whatever else happens to its array, the queue behaves as a bag from which poll()
\* takes an event that none comes before: offer, remove and the removals of an
\* iterator add or drop just the event they are about.
THEOREM QueueImplementsBag == Spec => ImplementsBag
<1>1. Init => Bag!Init
  BY BagOfNone, SameOperators DEF Init, Bag!Init
<1>2. QueueInv /\ [Next]_vars => [Bag!Next]_<<BagOf(queue), polled>>
  <2> SUFFICES ASSUME QueueInv, [Next]_vars PROVE [Bag!Next]_<<BagOf(queue), polled>>
    OBVIOUS
  <2>1. queue \in Seq(Events) /\ InOrder(queue)
    BY DEF QueueInv
  <2>2. ASSUME NEW i \in 1..Len(queue), queue' = WithoutSlot(queue, i), polled' = polled
        PROVE  Bag!Next
    <3>1. FillsGap(queue, i, queue')
      BY <2>1, <2>2, WithoutSlotFacts
    <3>2. Bag!Drop(queue[i])
      <4>1. /\ queue[i] \in DOMAIN BagOf(queue)
            /\ BagOf(queue') = BagOf(queue) (-) SetToBag({queue[i]})
        BY <2>1, <3>1, BagOfTheRest
      <4>2. BagOf(queue)' = BagOf(queue')
        BY DEF BagOf
      <4> QED
        BY <2>2, <4>1, <4>2, SameOperators DEF Bag!Drop
    <3>3. queue[i] \in Events
      BY <2>1
    <3> QED
      BY <3>2, <3>3 DEF Bag!Next
  <2>3. ASSUME NEW e \in Events, Offer(e) PROVE Bag!Next
    <3>1. Bag!Add(e)
      <4>1. queue' = Offered(queue, e) /\ polled' = polled
        BY <2>3 DEF Offer
      <4>2. BagOf(Offered(queue, e)) = BagOf(queue) (+) SetToBag({e})
        BY <2>1, BagOfOffered
      <4> QED
        BY <4>1, <4>2, SameOperators DEF Bag!Add
    <3> QED
      BY <3>1 DEF Bag!Next
  <2>4. CASE Poll
    <3>1. CASE queue = <<>>
      <4>1. queue' = queue /\ polled' = None
        BY <2>4, <3>1 DEF Poll
      <4>2. Bag!FindEmpty
        BY <3>1, <4>1, BagOfNone, SameOperators DEF Bag!FindEmpty
      <4> QED
        BY <4>2 DEF Bag!Next
    <3>2. CASE queue # <<>>
      <4>1. queue' = WithoutFirst(queue) /\ polled' = queue[1]
        BY <2>4, <3>2 DEF Poll
      <4>2. FillsGap(queue, 1, queue') /\ 1 \in 1..Len(queue)
        BY <2>1, <3>2, <4>1, WithoutFirstFacts
      <4>3. \A f \in DOMAIN BagOf(queue) : Rank[queue[1]] <= Rank[f]
        BY <2>1, BagOfQueue, RootIsFirst
      <4>4. /\ queue[1] \in Events /\ queue[1] \in DOMAIN BagOf(queue)
            /\ BagOf(queue') = BagOf(queue) (-) SetToBag({queue[1]})
        BY <2>1, <4>2, BagOfTheRest
      <4>5. Bag!TakeFirst(queue[1])
        BY <4>1, <4>3, <4>4, SameOperators DEF Bag!TakeFirst
      <4> QED
        BY <4>4, <4>5 DEF Bag!Next
    <3> QED
      BY <3>1, <3>2
  <2>5. ASSUME NEW e \in Events, RemoveEvent(e) PROVE Bag!Next \/ UNCHANGED vars
    <3>1. polled' = polled /\ iterator' = iterator
      BY <2>5 DEF RemoveEvent
    <3>2. CASE e \in ToSet(queue)
      <4>1. queue' = WithoutSlot(queue, FirstSlotOf(queue, e))
        BY <2>5, <3>2 DEF RemoveEvent
      <4>2. FirstSlotOf(queue, e) \in 1..Len(queue)
        BY <2>1, <3>2, FirstSlotFacts
      <4> QED
        BY <2>2, <3>1, <4>1, <4>2
    <3>3. CASE e \notin ToSet(queue)
      <4>1. queue' = queue
        BY <2>5, <3>3 DEF RemoveEvent
      <4> QED
        BY <3>1, <4>1 DEF vars
    <3> QED
      BY <3>2, <3>3
  <2>6. CASE Clear
    <3>1. Bag!DropAll
      BY <2>6, BagOfNone, SameOperators DEF Clear, Bag!DropAll
    <3> QED
      BY <3>1 DEF Bag!Next
  <2>7. CASE RemoveReturned
    BY <2>2, <2>7, RemoveReturnedFacts DEF RemoveReturned
  <2>8. CASE RemoveForgotten
    BY <2>2, <2>8, RemoveForgottenFacts DEF RemoveForgotten
  <2>9. CASE Iterate \/ NextInArray \/ NextForgotten \/ NextFails \/ Leave
    <3>1. queue' = queue /\ polled' = polled
      BY <2>9 DEF Iterate, NextInArray, NextForgotten, NextFails, Leave
    <3> QED
      BY <3>1
  <2>10. CASE UNCHANGED vars
    BY <2>10 DEF vars
  <2>11. UNCHANGED vars => UNCHANGED <<BagOf(queue), polled>>
    BY DEF vars
  <2> QED
    BY <2>3, <2>4, <2>5, <2>6, <2>7, <2>8, <2>9, <2>10, <2>11 DEF Next
<1> QED
  BY <1>1, <1>2, QueueInvHolds, PTL DEF Spec, ImplementsBag, Bag!Spec
=============================================================================
