------------------------ MODULE FlightBranchesProofs ------------------------
(* What TLAPS proves about FlightBranches, for any set of stage numbers.   *)
EXTENDS FlightBranches, SequenceTheorems, TLAPS

BranchesTypeOK ==
    /\ rocket \in SUBSET AllStages
    /\ flying \in Seq(SUBSET AllStages)
    /\ ended \in Seq(SUBSET AllStages)

(* The branches in flight keep their type, and so do those that ended.      *)
LEMMA BranchesTyped ==
    ASSUME AllStages \subseteq Int
    PROVE  Spec => []BranchesTypeOK
<1>1. Init => BranchesTypeOK
  BY DEF Init, BranchesTypeOK
<1>2. BranchesTypeOK /\ [Next]_<<rocket, flying, ended>> => BranchesTypeOK'
  <2> SUFFICES ASSUME BranchesTypeOK, [Next]_<<rocket, flying, ended>>
               PROVE  BranchesTypeOK'
    OBVIOUS
  <2>1. CASE End
    <3>1. flying # <<>> => Head(flying) \in SUBSET AllStages /\ Tail(flying) \in Seq(SUBSET AllStages)
      BY HeadTailProperties DEF BranchesTypeOK
    <3> QED
      BY <2>1, <3>1, AppendProperties DEF End, BranchesTypeOK
  <2>2. ASSUME NEW n \in AllStages, Split(n) PROVE BranchesTypeOK'
    <3>1. Head(flying) \in SUBSET AllStages /\ Tail(flying) \in Seq(SUBSET AllStages)
      BY <2>2, HeadTailProperties DEF BranchesTypeOK, Split
    <3>2. <<Upper(Head(flying), n), Lower(Head(flying), n)>> \in Seq(SUBSET AllStages)
      BY <3>1 DEF Upper, Lower
    <3> HIDE DEF Upper, Lower
    <3>3. flying' \in Seq(SUBSET AllStages)
      BY <2>2, <3>1, <3>2, ConcatProperties DEF Split
    <3> QED
      BY <2>2, <3>3 DEF Split, BranchesTypeOK
  <2>3. CASE UNCHANGED <<rocket, flying, ended>>
    BY <2>3 DEF BranchesTypeOK
  <2> QED
    BY <2>1, <2>2, <2>3 DEF Next
<1> QED
  BY <1>1, <1>2, PTL DEF Spec

-----------------------------------------------------------------------------
(* The list of all branches, in flight or ended.                            *)

Partition(stages, b) ==
    /\ \A k \in stages : \E i \in DOMAIN b : k \in b[i]
    /\ \A i \in DOMAIN b : b[i] \subseteq stages
    /\ \A i, j \in DOMAIN b : i # j => b[i] \cap b[j] = {}

(* A partition stays one when its first part is split in two.               *)
LEMMA SplitFirst ==
    ASSUME NEW stages, NEW n \in Nat, n > 0, NEW b, NEW c,
           DOMAIN b = 1..n, DOMAIN c = 1..(n + 1),
           c[1] \cup c[2] = b[1], c[1] \cap c[2] = {},
           \A i \in 2..n : c[i + 1] = b[i],
           Partition(stages, b)
    PROVE  Partition(stages, c)
<1> DEFINE From(i) == IF i <= 2 THEN 1 ELSE i - 1
<1>1. \A i \in 1..(n + 1) : /\ From(i) \in 1..n
                            /\ i > 2 => From(i) \in 2..n /\ From(i) + 1 = i
  OBVIOUS
<1>2. \A i \in 1..(n + 1) : c[i] \subseteq b[From(i)]
  <2> TAKE i \in 1..(n + 1)
  <2>1. CASE i <= 2
    BY <2>1
  <2>2. CASE i > 2
    BY <2>2, <1>1
  <2> QED
    BY <2>1, <2>2
<1>3. \A k \in stages : \E i \in DOMAIN c : k \in c[i]
  <2> TAKE k \in stages
  <2>1. PICK i \in 1..n : k \in b[i]
    BY DEF Partition
  <2>2. CASE i = 1
    BY <2>1, <2>2
  <2>3. CASE i # 1
    BY <2>1, <2>3
  <2> QED
    BY <2>2, <2>3
<1>4. \A i, j \in DOMAIN c : i # j => c[i] \cap c[j] = {}
  <2> SUFFICES ASSUME NEW i \in 1..(n + 1), NEW j \in 1..(n + 1), i # j
               PROVE  c[i] \cap c[j] = {}
    OBVIOUS
  <2>1. CASE From(i) = From(j)
    <3>1. {i, j} = {1, 2}
      BY <2>1, <1>1
    <3> QED
      BY <3>1
  <2>2. CASE From(i) # From(j)
    <3>1. b[From(i)] \cap b[From(j)] = {}
      BY <2>2, <1>1 DEF Partition
    <3> QED
      BY <3>1, <1>2
  <2> QED
    BY <2>1, <2>2
<1>5. \A i \in DOMAIN c : c[i] \subseteq stages
  <2> SUFFICES ASSUME NEW i \in 1..(n + 1) PROVE c[i] \subseteq stages
    OBVIOUS
  <2>1. From(i) \in 1..n /\ c[i] \subseteq b[From(i)]
    BY <1>1, <1>2
  <2> HIDE DEF From
  <2> QED
    BY <2>1 DEF Partition
<1> QED
  BY <1>3, <1>4, <1>5 DEF Partition

(* A partition stays one when its first part becomes the last.              *)
LEMMA FirstToLast ==
    ASSUME NEW stages, NEW n \in Nat, n > 0, NEW b, NEW c,
           DOMAIN b = 1..n, DOMAIN c = 1..n, c[n] = b[1],
           \A i \in 1..(n - 1) : c[i] = b[i + 1],
           Partition(stages, b)
    PROVE  Partition(stages, c)
<1> DEFINE From(i) == IF i = n THEN 1 ELSE i + 1
<1>1. \A i \in 1..n : From(i) \in 1..n /\ c[i] = b[From(i)]
  <2> TAKE i \in 1..n
  <2>1. CASE i = n
    BY <2>1
  <2>2. CASE i # n
    BY <2>2
  <2> QED
    BY <2>1, <2>2
<1>2. \A i, j \in 1..n : i # j => From(i) # From(j)
  OBVIOUS
<1>3. \A k \in 1..n : \E i \in 1..n : From(i) = k
  <2> TAKE k \in 1..n
  <2>1. CASE k = 1
    BY <2>1
  <2>2. CASE k # 1
    <3>1. k - 1 \in 1..n /\ From(k - 1) = k
      BY <2>2
    <3> QED
      BY <3>1
  <2> QED
    BY <2>1, <2>2
<1> HIDE DEF From
<1>4. \A k \in stages : \E i \in DOMAIN c : k \in c[i]
  <2> TAKE k \in stages
  <2>1. PICK j \in 1..n : k \in b[j]
    BY DEF Partition
  <2>2. PICK i \in 1..n : From(i) = j
    BY <1>3
  <2> QED
    BY <1>1, <2>1, <2>2
<1>5. \A i \in DOMAIN c : c[i] \subseteq stages
  BY <1>1 DEF Partition
<1>6. \A i, j \in DOMAIN c : i # j => c[i] \cap c[j] = {}
  <2> SUFFICES ASSUME NEW i \in 1..n, NEW j \in 1..n, i # j
               PROVE  c[i] \cap c[j] = {}
    OBVIOUS
  <2>1. From(i) \in 1..n /\ From(j) \in 1..n /\ From(i) # From(j)
    BY <1>1, <1>2
  <2>2. b[From(i)] \cap b[From(j)] = {}
    BY <2>1 DEF Partition
  <2> QED
    BY <2>2, <1>1
<1> QED
  BY <1>4, <1>5, <1>6 DEF Partition

-----------------------------------------------------------------------------
(* The places of a concatenation whose first list is not empty.             *)
LEMMA ConcatOfHead ==
    ASSUME NEW S, NEW f \in Seq(S), f # <<>>, NEW e \in Seq(S)
    PROVE  /\ Len(f) \in Nat \ {0} /\ Len(e) \in Nat
           /\ DOMAIN (f \o e) = 1..(Len(f) + Len(e))
           /\ (f \o e)[1] = Head(f)
           /\ \A i \in 2..Len(f) : (f \o e)[i] = Tail(f)[i - 1]
           /\ \A i \in (Len(f) + 1)..(Len(f) + Len(e)) : (f \o e)[i] = e[i - Len(f)]
<1>1. /\ Len(f) \in Nat \ {0} /\ Len(e) \in Nat
      /\ \A i \in 1..Len(Tail(f)) : Tail(f)[i] = f[i + 1]
      /\ Len(Tail(f)) = Len(f) - 1
  BY EmptySeq, LenProperties, HeadTailProperties
<1>2. /\ f \o e \in Seq(S) /\ Len(f \o e) = Len(f) + Len(e)
      /\ \A i \in 1..Len(f) + Len(e) : (f \o e)[i] = IF i <= Len(f) THEN f[i] ELSE e[i - Len(f)]
  BY ConcatProperties
<1>3. DOMAIN (f \o e) = 1..(Len(f) + Len(e))
  BY <1>2, LenProperties
<1>4. \A i \in 2..Len(f) : (f \o e)[i] = Tail(f)[i - 1]
  <2> TAKE i \in 2..Len(f)
  <2> DEFINE j == i - 1
  <2>1. j \in 1..Len(Tail(f)) /\ j + 1 = i /\ i \in 1..Len(f) + Len(e) /\ i <= Len(f)
    BY <1>1
  <2> HIDE DEF j
  <2>2. Tail(f)[j] = f[i]
    BY <1>1, <2>1
  <2>3. (f \o e)[i] = f[i]
    BY <1>2, <2>1
  <2> QED
    BY <2>2, <2>3 DEF j
<1>5. (f \o e)[1] = Head(f)
  BY <1>1, <1>2
<1> QED
  BY <1>1, <1>2, <1>3, <1>4, <1>5

(* Splitting the branch in flight splits the first of all branches.         *)
LEMMA SplitKeepsPartition ==
    ASSUME NEW S, NEW f \in Seq(S), f # <<>>, NEW e \in Seq(S), NEW stages,
           NEW u \in S, NEW l \in S, u \cup l = Head(f), u \cap l = {},
           Partition(stages, f \o e)
    PROVE  Partition(stages, (<<u, l>> \o Tail(f)) \o e)
<1> DEFINE b == f \o e
           g == <<u, l>> \o Tail(f)
           c == g \o e
           n == Len(f) + Len(e)
<1>1. /\ Len(f) \in Nat \ {0} /\ Len(e) \in Nat
      /\ DOMAIN b = 1..n /\ b[1] = Head(f)
      /\ \A i \in 2..Len(f) : b[i] = Tail(f)[i - 1]
      /\ \A i \in (Len(f) + 1)..n : b[i] = e[i - Len(f)]
  BY ConcatOfHead
<1>2. /\ Tail(f) \in Seq(S) /\ Len(Tail(f)) = Len(f) - 1
  BY HeadTailProperties
<1>3. /\ <<u, l>> \in Seq(S) /\ Len(<<u, l>>) = 2
  OBVIOUS
<1>4. /\ g \in Seq(S) /\ Len(g) = Len(f) + 1
      /\ \A i \in 1..(Len(f) + 1) : g[i] = IF i <= 2 THEN <<u, l>>[i] ELSE Tail(f)[i - 2]
  BY <1>1, <1>2, <1>3, ConcatProperties
<1>5. /\ c \in Seq(S) /\ Len(c) = n + 1
      /\ \A i \in 1..(n + 1) : c[i] = IF i <= Len(f) + 1 THEN g[i] ELSE e[i - (Len(f) + 1)]
  BY <1>1, <1>4, ConcatProperties
<1>6. DOMAIN c = 1..(n + 1)
  BY <1>5, LenProperties
<1>7. c[1] = u /\ c[2] = l
  BY <1>1, <1>4, <1>5
<1>8. \A i \in 2..n : c[i + 1] = b[i]
  <2> TAKE i \in 2..n
  <2> DEFINE j == i + 1
  <2>0. i \in Nat /\ j \in 1..(n + 1) /\ j > 2 /\ j - 2 = i - 1 /\ j - (Len(f) + 1) = i - Len(f)
    BY <1>1
  <2> HIDE DEF b, c, g, j
  <2>1. CASE i <= Len(f)
    <3>1. j <= Len(f) + 1 /\ j \in 1..(Len(f) + 1)
      BY <2>0, <2>1, <1>1 DEF j
    <3>2. c[j] = g[j] /\ g[j] = Tail(f)[j - 2]
      BY <2>0, <3>1, <1>4, <1>5
    <3> QED
      BY <2>0, <2>1, <3>2, <1>1 DEF j
  <2>2. CASE i > Len(f)
    <3>1. ~(j <= Len(f) + 1)
      BY <2>0, <2>2, <1>1 DEF j
    <3>2. c[j] = e[j - (Len(f) + 1)]
      BY <2>0, <3>1, <1>5
    <3>3. i \in (Len(f) + 1)..n
      BY <2>0, <2>2, <1>1
    <3> QED
      BY <2>0, <3>2, <3>3, <1>1 DEF j
  <2> QED
    BY <2>1, <2>2, <1>1
<1>9. n \in Nat /\ n > 0
  BY <1>1
<1> HIDE DEF b, c, n
<1> QED
  BY <1>1, <1>6, <1>7, <1>8, <1>9, SplitFirst DEF b, c

(* A branch that ends goes from the first place to the last.                *)
LEMMA EndKeepsPartition ==
    ASSUME NEW S, NEW f \in Seq(S), f # <<>>, NEW e \in Seq(S), NEW stages,
           Partition(stages, f \o e)
    PROVE  Partition(stages, Tail(f) \o Append(e, Head(f)))
<1> DEFINE b == f \o e
           a == Append(e, Head(f))
           c == Tail(f) \o a
           n == Len(f) + Len(e)
<1>1. /\ Len(f) \in Nat \ {0} /\ Len(e) \in Nat
      /\ DOMAIN b = 1..n /\ b[1] = Head(f)
      /\ \A i \in 2..Len(f) : b[i] = Tail(f)[i - 1]
      /\ \A i \in (Len(f) + 1)..n : b[i] = e[i - Len(f)]
  BY ConcatOfHead
<1>2. /\ Tail(f) \in Seq(S) /\ Len(Tail(f)) = Len(f) - 1 /\ Head(f) \in S
  BY HeadTailProperties
<1>3. /\ a \in Seq(S) /\ Len(a) = Len(e) + 1
      /\ \A i \in 1..Len(e) : a[i] = e[i]
      /\ a[Len(e) + 1] = Head(f)
  BY <1>2, AppendProperties
<1>4. /\ c \in Seq(S) /\ Len(c) = n
      /\ \A i \in 1..n : c[i] = IF i <= Len(f) - 1 THEN Tail(f)[i] ELSE a[i - (Len(f) - 1)]
  BY <1>1, <1>2, <1>3, ConcatProperties
<1>5. DOMAIN c = 1..n
  BY <1>4, LenProperties
<1>6. c[n] = b[1]
  BY <1>1, <1>3, <1>4
<1>7. \A i \in 1..(n - 1) : c[i] = b[i + 1]
  <2> TAKE i \in 1..(n - 1)
  <2> DEFINE j == i + 1
  <2>0. i \in 1..n /\ j - 1 = i /\ j - Len(f) = i - (Len(f) - 1)
    BY <1>1
  <2> HIDE DEF a, b, c, j
  <2>1. CASE i <= Len(f) - 1
    <3>1. j \in 2..Len(f)
      BY <2>0, <2>1, <1>1 DEF j
    <3>2. b[j] = Tail(f)[j - 1] /\ c[i] = Tail(f)[i]
      BY <2>0, <2>1, <3>1, <1>1, <1>4
    <3> QED
      BY <2>0, <3>2 DEF j
  <2>2. CASE i > Len(f) - 1
    <3>1. j \in (Len(f) + 1)..n /\ ~(i <= Len(f) - 1) /\ j - Len(f) \in 1..Len(e)
      BY <2>0, <2>2, <1>1 DEF j
    <3>2. b[j] = e[j - Len(f)] /\ c[i] = a[i - (Len(f) - 1)]
      BY <2>0, <3>1, <1>1, <1>4
    <3>3. a[j - Len(f)] = e[j - Len(f)]
      BY <3>1, <1>3
    <3> QED
      BY <2>0, <3>2, <3>3 DEF j
  <2> QED
    BY <2>1, <2>2, <1>1
<1>8. n \in Nat /\ n > 0
  BY <1>1
<1> HIDE DEF b, c, n
<1> QED
  BY <1>5, <1>6, <1>7, <1>8, <1>1, FirstToLast DEF b, c

-----------------------------------------------------------------------------
(* Staging neither loses a stage nor simulates one twice: every stage of    *)
(* the rocket is in exactly one branch, waiting, in flight or ended.        *)
THEOREM EveryStageFliesOnce ==
    ASSUME AllStages \subseteq Int
    PROVE  Spec => []StagesFlyOnce
<1>1. StagesFlyOnce <=> Partition(rocket, flying \o ended)
  BY DEF StagesFlyOnce, Partition
<1>2. StagesFlyOnce' <=> Partition(rocket', flying' \o ended')
  BY DEF StagesFlyOnce, Partition
<1>3. Init => StagesFlyOnce
  <2> SUFFICES ASSUME Init PROVE StagesFlyOnce
    OBVIOUS
  <2>1. flying \o ended = <<rocket>>
    BY DEF Init
  <2> QED
    BY <2>1 DEF StagesFlyOnce
<1>4. BranchesTypeOK /\ StagesFlyOnce /\ [Next]_<<rocket, flying, ended>> => StagesFlyOnce'
  <2> SUFFICES ASSUME BranchesTypeOK, StagesFlyOnce, [Next]_<<rocket, flying, ended>>
               PROVE  StagesFlyOnce'
    OBVIOUS
  <2>1. flying \in Seq(SUBSET AllStages) /\ ended \in Seq(SUBSET AllStages)
        /\ Partition(rocket, flying \o ended)
    BY <1>1 DEF BranchesTypeOK
  <2>2. CASE End
    <3>1. Partition(rocket, Tail(flying) \o Append(ended, Head(flying)))
      BY <2>1, <2>2, EndKeepsPartition DEF End
    <3> QED
      BY <1>2, <2>2, <3>1 DEF End
  <2>3. ASSUME NEW n \in AllStages, Split(n) PROVE StagesFlyOnce'
    <3> DEFINE u == Upper(Head(flying), n)
               l == Lower(Head(flying), n)
    <3>1. Head(flying) \in SUBSET AllStages
      BY <2>1, <2>3, HeadTailProperties DEF Split
    <3>2. \A k \in Head(flying) : k \in Int
      BY <3>1
    <3>3. u \in SUBSET AllStages /\ l \in SUBSET AllStages
      BY <3>1 DEF Upper, Lower
    <3>4. u \cup l = Head(flying) /\ u \cap l = {}
      <4> HIDE <2>1
      <4>1. \A k \in Int : k < n <=> ~(k >= n)
        OBVIOUS
      <4> QED
        BY <3>2, <4>1 DEF Upper, Lower
    <3> HIDE DEF u, l
    <3>5. Partition(rocket, (<<u, l>> \o Tail(flying)) \o ended)
      BY <2>1, <2>3, <3>3, <3>4, SplitKeepsPartition DEF Split
    <3> QED
      BY <1>2, <2>3, <3>5 DEF Split, u, l
  <2>4. CASE UNCHANGED <<rocket, flying, ended>>
    BY <1>1, <1>2, <2>4
  <2> QED
    BY <2>2, <2>3, <2>4 DEF Next
<1>5. Spec => []BranchesTypeOK
  BY BranchesTyped
<1> QED
  BY <1>3, <1>4, <1>5, PTL DEF Spec
=============================================================================
