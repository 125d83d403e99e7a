---------------------------- MODULE PolicyProofs ----------------------------
(***************************************************************************)
(* Proofs about the policies of buckets, for any documents, edits, buckets *)
(* and goroutines: memory agrees with the store.  And about the policies   *)
(* of users and groups, for any documents, accounts and requests: every    *)
(* evaluation that nothing met answers by the policies of its account.     *)
(*                                                                         *)
(* A document is read more than once on its way, which is right because    *)
(* reading it again changes nothing (ReadingTwice).  The actions of an IAM *)
(* statement are pairs, which Match compares part by part (MatchOfPairs).  *)
(***************************************************************************)
EXTENDS BucketConfig, IAMPolicy, FiniteSetTheorems, SequenceTheorems, WellFoundedInduction,
        NaturalsInduction, TLAPS

(***************************************************************************)
(* Induction                                                               *)
(***************************************************************************)

\* A set of numbers has a least one.
LEMMA LeastNumber ==
  ASSUME NEW T, T \subseteq Nat, T # {}
  PROVE  \E n \in T : \A m \in T : n <= m
  <1>1. PICK R : IsWellFoundedOn(R, Nat) /\ \A x, y \in Nat : ~(<<y, x>> \in R) => x <= y
    <2>1. IsWellFoundedOn(OpToRel(<, Nat), Nat)
      BY NatLessThanWellFounded
    <2>2. \A x, y \in Nat : ~(<<y, x>> \in OpToRel(<, Nat)) => x <= y
      BY DEF OpToRel
    <2> DEFINE Q == OpToRel(<, Nat)
    <2>3. IsWellFoundedOn(Q, Nat) /\ \A x, y \in Nat : ~(<<y, x>> \in Q) => x <= y
      BY <2>1, <2>2
    <2> HIDE DEF Q
    <2>4. QED BY <2>3
  <1>2. \E x \in T : \A y \in T : ~(<<y, x>> \in R)
    BY <1>1, WFMin, Zenon
  <1>3. PICK x \in T : \A y \in T : ~(<<y, x>> \in R)
    BY <1>2
  <1>4. ASSUME NEW m \in T PROVE x <= m
    BY <1>1, <1>3, Zenon
  <1>5. QED BY <1>4

\* What holds of 0, and of a number when it holds of the one before it, holds
\* of every number.
LEMMA SetInduction ==
  ASSUME NEW T, 0 \in T, \A n \in Nat : n \in T => n + 1 \in T
  PROVE  Nat \subseteq T
  <1> SUFFICES ASSUME NEW k \in Nat, k \notin T PROVE FALSE
    OBVIOUS
  <1> DEFINE B == Nat \ T
  <1>1. B \subseteq Nat /\ B # {} OBVIOUS
  <1> HIDE DEF B
  <1>2. PICK n \in B : \A m \in B : n <= m
    BY <1>1, LeastNumber
  <1> USE DEF B
  <1>3. n # 0 /\ n - 1 \in Nat /\ n - 1 \in T
    BY <1>2
  <1>4. QED BY <1>2, <1>3

(***************************************************************************)
(* Duplicates of statements                                                *)
(***************************************************************************)

\* The pairs of places with the same statement, of which DropOne takes the first.
SamePairs(policy, same) ==
  {p \in (DOMAIN policy) \X (DOMAIN policy) :
     p[1] < p[2] /\ <<policy[p[1]], policy[p[2]]>> \in same}

\* The first pair, by its first place.
FirstPair(pairs) ==
  CHOOSE p \in pairs : \A q \in pairs : p[1] < q[1] \/ (p[1] = q[1] /\ p[2] <= q[2])

\* A set of pairs of numbers has a first one.
LEMMA FirstPairExists ==
  ASSUME NEW pairs, pairs # {}, pairs \subseteq Nat \X Nat
  PROVE  FirstPair(pairs) \in pairs
  <1> DEFINE T == {p[1] : p \in pairs}
  <1>1. T \subseteq Nat /\ T # {} OBVIOUS
  <1> HIDE DEF T
  <1>2. PICK i \in T : \A m \in T : i <= m
    BY <1>1, LeastNumber
  <1> DEFINE U == {p[2] : p \in {q \in pairs : q[1] = i}}
  <1>3. U \subseteq Nat /\ U # {}
    BY <1>2 DEF T
  <1> HIDE DEF U
  <1>4. PICK j \in U : \A m \in U : j <= m
    BY <1>3, LeastNumber
  <1>5. PICK p \in pairs : p[1] = i /\ p[2] = j
    BY <1>4 DEF U
  <1>6. ASSUME NEW q \in pairs PROVE p[1] < q[1] \/ (p[1] = q[1] /\ p[2] <= q[2])
    <2>1. q[1] \in T /\ q[1] \in Nat /\ i \in Nat /\ i <= q[1]
      BY <1>2, <1>1 DEF T
    <2>2. CASE i = q[1]
      <3>1. q[2] \in U
        BY <2>2 DEF U
      <3>2. j <= q[2]
        BY <3>1, <1>4
      <3>3. QED BY <3>2, <2>2, <1>5
    <2>3. QED BY <2>1, <2>2, <1>5
  <1>7. QED BY <1>6 DEF FirstPair

\* A round of dropDuplicateStatements changes nothing or drops one statement.
LEMMA DropOneDrops ==
  ASSUME NEW S, NEW policy \in Seq(S), NEW same
  PROVE  /\ DropOne(policy, same) \in Seq(S)
         /\ SamePairs(policy, same) = {} => DropOne(policy, same) = policy
         /\ SamePairs(policy, same) # {} => Len(DropOne(policy, same)) = Len(policy) - 1
  <1> DEFINE pairs == SamePairs(policy, same)
  <1>1. DropOne(policy, same) =
          IF pairs = {} THEN policy
          ELSE RemoveAt(policy, FirstPair(pairs)[2] - FirstPair(pairs)[1])
    BY DEF DropOne, SamePairs, FirstPair
  <1>2. CASE pairs = {}
    BY <1>1, <1>2
  <1>3. CASE pairs # {}
    <2>1. pairs \subseteq Nat \X Nat /\ \A p \in pairs : p[1] \in 1 .. Len(policy)
                                          /\ p[2] \in 1 .. Len(policy) /\ p[1] < p[2]
      BY DEF SamePairs
    <2>2. FirstPair(pairs) \in pairs
      BY <1>3, <2>1, FirstPairExists
    <2> DEFINE k == FirstPair(pairs)[2] - FirstPair(pairs)[1]
    <2>3. k \in 1 .. Len(policy) /\ Len(policy) \in Nat
      BY <2>1, <2>2
    <2>4. DropOne(policy, same) = SubSeq(policy, 1, k - 1) \o SubSeq(policy, k + 1, Len(policy))
      BY <1>1, <1>3 DEF RemoveAt
    <2> HIDE DEF k
    <2>5. /\ SubSeq(policy, 1, k - 1) \in Seq(S) /\ Len(SubSeq(policy, 1, k - 1)) = k - 1
          /\ SubSeq(policy, k + 1, Len(policy)) \in Seq(S)
          /\ Len(SubSeq(policy, k + 1, Len(policy))) = Len(policy) - k
      BY <2>3
    <2> DEFINE a == SubSeq(policy, 1, k - 1)
               b == SubSeq(policy, k + 1, Len(policy))
    <2> HIDE DEF a, b
    <2>6. /\ a \in Seq(S) /\ Len(a) = k - 1
          /\ b \in Seq(S) /\ Len(b) = Len(policy) - k
      BY <2>5 DEF a, b
    <2>7. a \o b \in Seq(S) /\ Len(a \o b) = Len(policy) - 1
      BY <2>3, <2>6
    <2>8. QED BY <1>3, <2>4, <2>7 DEF a, b
  <1>4. QED BY <1>2, <1>3

\* The function that dropDuplicateStatements is computed by.
RoundsTo(policy, same, f, n) ==
  f = [k \in 0 .. n |-> IF k = 0 THEN policy ELSE DropOne(f[k - 1], same)]

\* There is such a function, for any number of rounds.
LEMMA RoundsExist ==
  ASSUME NEW policy, NEW same
  PROVE  \A n \in Nat : \E f : RoundsTo(policy, same, f, n)
  <1> DEFINE T == {n \in Nat : \E f : RoundsTo(policy, same, f, n)}
  <1>1. 0 \in T
    <2> DEFINE f == [k \in 0 .. 0 |-> policy]
    <2>1. f = [k \in 0 .. 0 |-> IF k = 0 THEN policy ELSE DropOne(f[k - 1], same)] OBVIOUS
    <2>2. QED BY <2>1 DEF RoundsTo
  <1>2. ASSUME NEW n \in Nat, n \in T PROVE n + 1 \in T
    <2>1. PICK f : f = [k \in 0 .. n |-> IF k = 0 THEN policy ELSE DropOne(f[k - 1], same)]
      BY <1>2 DEF RoundsTo
    <2> DEFINE last == DropOne(f[n], same)
               g == [k \in 0 .. (n + 1) |-> IF k = n + 1 THEN last ELSE f[k]]
    <2>2. ASSUME NEW k \in 0 .. (n + 1)
          PROVE  g[k] = IF k = 0 THEN policy ELSE DropOne(g[k - 1], same)
      <3>1. CASE k = n + 1
        <4>1. k # 0 /\ k - 1 = n /\ n \in 0 .. (n + 1) /\ n # n + 1
          BY <3>1
        <4>2. g[k] = last /\ g[k - 1] = f[n]
          BY <3>1, <4>1
        <4>3. QED BY <4>1, <4>2
      <3>2. CASE k # n + 1
        <4>1. k \in 0 .. n /\ g[k] = f[k]
          BY <3>2
        <4>2. f[k] = IF k = 0 THEN policy ELSE DropOne(f[k - 1], same)
          BY <2>1, <4>1
        <4>3. k # 0 => k - 1 \in 0 .. (n + 1) /\ k - 1 # n + 1
          BY <4>1
        <4>4. QED BY <4>1, <4>2, <4>3
      <3>3. QED BY <3>1, <3>2
    <2>3. g = [k \in 0 .. (n + 1) |-> g[k]] OBVIOUS
    <2> HIDE DEF g
    <2>4. g = [k \in 0 .. (n + 1) |-> IF k = 0 THEN policy ELSE DropOne(g[k - 1], same)]
      BY <2>2, <2>3
    <2>5. RoundsTo(policy, same, g, n + 1)
      BY <2>4, Zenon DEF RoundsTo
    <2>6. n + 1 \in Nat OBVIOUS
    <2>7. QED BY <2>5, <2>6
  <1> HIDE DEF T
  <1>3. Nat \subseteq T
    BY <1>1, <1>2, SetInduction
  <1>4. QED BY <1>3 DEF T

\* dropDuplicateStatements is the value of such a function.
LEMMA DropDuplicatesUnfolds ==
  ASSUME NEW policy, NEW same, Len(policy) \in Nat
  PROVE  \E f : /\ RoundsTo(policy, same, f, Len(policy))
                /\ DropDuplicates(policy, same) = f[Len(policy)]
  <1> DEFINE g == CHOOSE f : RoundsTo(policy, same, f, Len(policy))
  <1>1. RoundsTo(policy, same, g, Len(policy))
    BY RoundsExist
  <1>2. DropDuplicates(policy, same) = g[Len(policy)]
    BY DEF DropDuplicates, RoundsTo
  <1>3. QED BY <1>1, <1>2

\* After as many rounds as there are statements no two are the same.
LEMMA DropDuplicatesDrops ==
  ASSUME NEW S, NEW policy \in Seq(S), NEW same
  PROVE  /\ DropDuplicates(policy, same) \in Seq(S)
         /\ SamePairs(DropDuplicates(policy, same), same) = {}
         /\ SamePairs(policy, same) = {} => DropDuplicates(policy, same) = policy
  <1> DEFINE N == Len(policy)
  <1>1. N \in Nat OBVIOUS
  <1>2. PICK f : /\ RoundsTo(policy, same, f, N)
                 /\ DropDuplicates(policy, same) = f[N]
    BY <1>1, DropDuplicatesUnfolds
  <1>3. \A k \in 0 .. N : f[k] = IF k = 0 THEN policy ELSE DropOne(f[k - 1], same)
    BY <1>2 DEF RoundsTo
  <1> DEFINE Holds(k) ==
               /\ f[k] \in Seq(S)
               /\ SamePairs(f[k], same) = {} \/ Len(f[k]) = N - k
               /\ SamePairs(policy, same) = {} => f[k] = policy
             T == {k \in Nat : k <= N => Holds(k)}
  <1>4. 0 \in T
    <2>1. f[0] = policy
      BY <1>1, <1>3
    <2>2. QED BY <2>1, <1>1
  <1>5. ASSUME NEW k \in Nat, k \in T PROVE k + 1 \in T
    <2> SUFFICES ASSUME k + 1 <= N PROVE Holds(k + 1)
      OBVIOUS
    <2>1. Holds(k)
      BY <1>1, <1>5
    <2>2. f[k + 1] = DropOne(f[k], same)
      <3>1. k + 1 \in 0 .. N /\ k + 1 # 0 /\ (k + 1) - 1 = k
        BY <1>1
      <3>2. QED BY <1>3, <3>1
    <2>3. /\ f[k + 1] \in Seq(S)
          /\ SamePairs(f[k], same) = {} => f[k + 1] = f[k]
          /\ SamePairs(f[k], same) # {} => Len(f[k + 1]) = Len(f[k]) - 1
      BY <2>1, <2>2, DropOneDrops
    <2>4. CASE SamePairs(f[k], same) = {}
      BY <2>1, <2>3, <2>4
    <2>5. CASE SamePairs(f[k], same) # {}
      BY <2>1, <2>3, <2>5, <1>1
    <2>6. QED BY <2>4, <2>5
  <1> HIDE DEF T
  <1>6. N \in T
    BY <1>1, <1>4, <1>5, SetInduction
  <1>7. Holds(N)
    BY <1>1, <1>6 DEF T
  <1>8. SamePairs(f[N], same) = {}
    <2>1. CASE Len(f[N]) = N - N
      <3>1. DOMAIN f[N] = {}
        BY <2>1, <1>1, <1>7
      <3>2. QED BY <3>1 DEF SamePairs
    <2>2. QED BY <2>1, <1>7
  <1>9. QED BY <1>2, <1>7, <1>8

\* The statements of a document that are the same.
SameIn(policy) ==
  {st \in Range(policy) \X Range(policy) : SameStatement(st[1], st[2])}

\* Sequences, whatever of.
IsSequence(s) == s \in Seq(Range(s))

\* A sequence of elements of a set is one of its own elements.
LEMMA SequenceOf ==
  ASSUME NEW S, NEW s \in Seq(S)
  PROVE  IsSequence(s) /\ Range(s) \subseteq S
  BY DEF IsSequence, Range

\* A document read twice is the document read once.
LEMMA ReadingTwice ==
  ASSUME NEW policy, IsSequence(policy)
  PROVE  LET read == dropDuplicateStatements(policy)
         IN IsSequence(read) /\ dropDuplicateStatements(read) = read
  <1> DEFINE read == dropDuplicateStatements(policy)
             same == SameIn(policy)
  <1>1. read = DropDuplicates(policy, same)
    BY DEF dropDuplicateStatements, SameIn
  <1> HIDE DEF read, same
  <1>2. read \in Seq(Range(policy)) /\ SamePairs(read, same) = {}
    BY <1>1, DropDuplicatesDrops DEF IsSequence
  <1>3. IsSequence(read) /\ Range(read) \subseteq Range(policy)
    BY <1>2, SequenceOf
  <1>4. SameIn(read) \subseteq same
    BY <1>3 DEF SameIn, same
  <1>5. SamePairs(read, SameIn(read)) = {}
    BY <1>2, <1>4 DEF SamePairs
  <1>6. DropDuplicates(read, SameIn(read)) = read
    BY <1>3, <1>5, DropDuplicatesDrops DEF IsSequence
  <1>7. dropDuplicateStatements(read) = read
    BY <1>6 DEF dropDuplicateStatements, SameIn
  <1>8. QED BY <1>3, <1>7 DEF read

(***************************************************************************)
(* Edits in the browser                                                    *)
(***************************************************************************)

\* What removeStatements keeps of a statement.
Keep(acc, s, statements, bucket, prefix) ==
  LET t == Removed(s, statements, bucket, prefix)
      listed == {ObjectResource(bucket, v) :
                   v \in PrefixValues(t.conditions, "StringEquals")}
  IN IF ~IsValidStatement(s, bucket) THEN [acc EXCEPT !.out = Append(@, t)]
     ELSE IF t.actions = {} THEN acc
     ELSE IF ListsBucket(t, bucket) /\ t.conditions # {}
          THEN [acc EXCEPT !.out = Append(@, t), !.listed = @ \cup listed]
     ELSE IF ListsBucket(t, bucket) /\ acc.listed # {}
          THEN [acc EXCEPT !.held = Append(@, t)]
     ELSE [acc EXCEPT !.out = Append(@, t)]

\* A step of one of the two folds of SetPolicy, or of the one of policyDBGet.
FoldStep(fold, acc, s) ==
  IF fold.op = "append" THEN appendStatement(acc, s)
  ELSE IF fold.op = "pick" THEN IF s \in fold.wanted THEN Append(acc, s) ELSE acc
  ELSE Keep(acc, s, fold.statements, fold.bucket, fold.prefix)

\* The function that a fold is computed by, on the subsets D of the places.
FoldsTo(fold, base, seq, f, D) ==
  f = [s \in D |-> IF s = {} THEN base
                   ELSE FoldStep(fold, f[s \ {Max(s)}], seq[Max(s)])]

\* Subsets of up to n elements.
UpTo(S, n) == {s \in SUBSET S : Cardinality(s) <= n}

\* The largest number of a set is in it.
LEMMA MaxIsElement ==
  ASSUME NEW s, IsFiniteSet(s), s # {}, s \subseteq Nat
  PROVE  Max(s) \in s
  <1>1. PICK n \in Nat : \A x \in s : x <= n
    <2> DEFINE T == {m \in Nat : \A t \in SUBSET s : Cardinality(t) = m => \E n \in Nat : \A x \in t : x <= n}
    <2>2. 0 \in T
      <3>1. ASSUME NEW t \in SUBSET s, Cardinality(t) = 0 PROVE \E n \in Nat : \A x \in t : x <= n
        <4>1. t = {}
          BY <3>1, FS_Subset, FS_EmptySet
        <4>2. QED BY <4>1
      <3>2. QED BY <3>1
    <2>3. ASSUME NEW m \in Nat, m \in T PROVE m + 1 \in T
      <3>1. ASSUME NEW t \in SUBSET s, Cardinality(t) = m + 1
            PROVE  \E n \in Nat : \A x \in t : x <= n
        <4>1. IsFiniteSet(t) /\ t # {}
          <5>1. IsFiniteSet(t)
            BY FS_Subset
          <5>2. Cardinality({}) = 0 /\ m + 1 # 0
            BY FS_EmptySet
          <5>3. QED BY <3>1, <5>1, <5>2
        <4>2. PICK x \in t : TRUE
          BY <4>1
        <4>3. t \ {x} \in SUBSET s /\ Cardinality(t \ {x}) = m
          <5>1. Cardinality(t \ {x}) = Cardinality(t) - 1
            BY <4>1, FS_RemoveElement
          <5>2. QED BY <5>1, <3>1
        <4>4. PICK n \in Nat : \A y \in t \ {x} : y <= n
          BY <2>3, <4>3
        <4>5. x \in Nat
          BY <4>2
        <4>6. CASE x <= n
          BY <4>4, <4>6
        <4>7. CASE ~(x <= n)
          <5>1. \A y \in t : y \in Nat /\ y <= x
            BY <4>4, <4>5, <4>7
          <5>2. QED BY <5>1, <4>5
        <4>8. QED BY <4>6, <4>7
      <3>2. m + 1 \in Nat OBVIOUS
      <3>3. QED BY <3>1, <3>2
    <2> HIDE DEF T
    <2>4. Nat \subseteq T
      BY <2>2, <2>3, SetInduction
    <2>5. Cardinality(s) \in Nat /\ s \in SUBSET s
      BY FS_CardinalityType
    <2>6. QED BY <2>4, <2>5 DEF T
  <1> DEFINE U == {n - x : x \in s}
  <1>2. U \subseteq Nat /\ U # {}
    BY <1>1
  <1> HIDE DEF U
  <1>3. PICK d \in U : \A e \in U : d <= e
    BY <1>2, LeastNumber
  <1>4. PICK x \in s : d = n - x
    BY <1>3 DEF U
  <1>5. ASSUME NEW y \in s PROVE x >= y
    <2>1. n - y \in U
      BY DEF U
    <2>2. n - x <= n - y
      BY <1>3, <1>4, <2>1
    <2>3. QED BY <2>2, <1>1, <1>4
  <1>6. QED BY <1>4, <1>5 DEF Max

\* There is a function that FoldLeft is computed by.
LEMMA FoldExists ==
  ASSUME NEW fold, NEW base, NEW seq, NEW S, IsFiniteSet(S), S \subseteq Nat
  PROVE  \E f : FoldsTo(fold, base, seq, f, SUBSET S)
  <1> DEFINE T == {n \in Nat : \E f : FoldsTo(fold, base, seq, f, UpTo(S, n))}
  <1>0. ASSUME NEW s \in SUBSET S
        PROVE  /\ IsFiniteSet(s) /\ Cardinality(s) \in Nat /\ (Cardinality(s) = 0) = (s = {})
               /\ s # {} => Cardinality(s \ {Max(s)}) = Cardinality(s) - 1
    <2>1. IsFiniteSet(s) /\ Cardinality(s) \in Nat /\ (Cardinality(s) = 0) = (s = {})
      BY FS_Subset, FS_CardinalityType, FS_EmptySet
    <2>2. s # {} => Max(s) \in s
      BY <2>1, MaxIsElement
    <2>3. QED BY <2>1, <2>2, FS_RemoveElement
  <1>1. 0 \in T
    <2> DEFINE f == [s \in UpTo(S, 0) |-> base]
    <2>1. ASSUME NEW s \in UpTo(S, 0) PROVE s = {}
      <3>1. s \in SUBSET S /\ Cardinality(s) <= 0
        BY DEF UpTo
      <3>2. Cardinality(s) \in Nat /\ (Cardinality(s) = 0) = (s = {})
        BY <1>0, <3>1
      <3>3. QED BY <3>1, <3>2
    <2>2. f = [s \in UpTo(S, 0) |-> IF s = {} THEN base
                 ELSE FoldStep(fold, f[s \ {Max(s)}], seq[Max(s)])]
      BY <2>1
    <2> HIDE DEF f
    <2>3. FoldsTo(fold, base, seq, f, UpTo(S, 0))
      BY <2>2, Zenon DEF FoldsTo
    <2>4. QED BY <2>3
  <1>2. ASSUME NEW n \in Nat, n \in T PROVE n + 1 \in T
    <2>1. PICK f : FoldsTo(fold, base, seq, f, UpTo(S, n))
      BY <1>2
    <2> DEFINE g == [s \in UpTo(S, n + 1) |-> IF s = {} THEN base
                       ELSE FoldStep(fold, f[s \ {Max(s)}], seq[Max(s)])]
    <2>2. \A s \in UpTo(S, n) : f[s] = IF s = {} THEN base
                       ELSE FoldStep(fold, f[s \ {Max(s)}], seq[Max(s)])
      BY <2>1, Zenon DEF FoldsTo
    <2>3. ASSUME NEW s \in UpTo(S, n) PROVE s \in UpTo(S, n + 1)
      <3>1. s \in SUBSET S /\ Cardinality(s) <= n
        BY DEF UpTo
      <3>2. Cardinality(s) \in Nat
        BY <1>0, <3>1
      <3>3. Cardinality(s) <= n + 1
        BY <3>1, <3>2
      <3>4. QED BY <3>1, <3>3 DEF UpTo
    <2>4. \A s \in UpTo(S, n) : g[s] = f[s]
      BY <2>2, <2>3, Zenon
    <2>5. \A s \in UpTo(S, n + 1) : s # {} => s \ {Max(s)} \in UpTo(S, n)
      <3> SUFFICES ASSUME NEW s \in UpTo(S, n + 1), s # {} PROVE s \ {Max(s)} \in UpTo(S, n)
        OBVIOUS
      <3>1. s \in SUBSET S /\ Cardinality(s) <= n + 1 /\ s \ {Max(s)} \in SUBSET S
        BY DEF UpTo
      <3>2. Cardinality(s \ {Max(s)}) = Cardinality(s) - 1 /\ Cardinality(s) \in Nat
        BY <1>0, <3>1
      <3>3. QED BY <3>1, <3>2 DEF UpTo
    <2>6. ASSUME NEW s \in UpTo(S, n + 1)
          PROVE  g[s] = IF s = {} THEN base
                        ELSE FoldStep(fold, g[s \ {Max(s)}], seq[Max(s)])
      BY <2>4, <2>5, Zenon
    <2>7. g = [s \in UpTo(S, n + 1) |-> g[s]] OBVIOUS
    <2> HIDE DEF g
    <2>8. g = [s \in UpTo(S, n + 1) |-> IF s = {} THEN base
                       ELSE FoldStep(fold, g[s \ {Max(s)}], seq[Max(s)])]
      BY <2>6, <2>7, Zenon
    <2>9. FoldsTo(fold, base, seq, g, UpTo(S, n + 1))
      BY <2>8, Zenon DEF FoldsTo
    <2>10. n + 1 \in Nat OBVIOUS
    <2>11. QED BY <2>9, <2>10
  <1> HIDE DEF T
  <1>3. Nat \subseteq T
    BY <1>1, <1>2, SetInduction
  <1>4. Cardinality(S) \in Nat
    BY FS_CardinalityType
  <1>5. UpTo(S, Cardinality(S)) = SUBSET S
    <2>1. \A s \in SUBSET S : Cardinality(s) <= Cardinality(S)
      BY FS_Subset
    <2>2. QED BY <2>1 DEF UpTo
  <1>6. QED BY <1>3, <1>4, <1>5 DEF T

\* What holds of the base and is kept by every step holds of what is folded.
LEMMA FoldKeeps ==
  ASSUME NEW fold, NEW base, NEW seq, NEW S, IsFiniteSet(S), S \subseteq Nat,
         NEW f, FoldsTo(fold, base, seq, f, SUBSET S),
         NEW Good, Good \subseteq SUBSET S, {} \in Good,
         \A s \in SUBSET S : s # {} /\ s \ {Max(s)} \in Good => s \in Good
  PROVE  S \in Good
  <1> DEFINE T == {n \in Nat : \A s \in SUBSET S : Cardinality(s) = n => s \in Good}
  <1>0. ASSUME NEW s \in SUBSET S
        PROVE  /\ Cardinality(s) \in Nat /\ (Cardinality(s) = 0) = (s = {})
               /\ s # {} => Cardinality(s \ {Max(s)}) = Cardinality(s) - 1
    <2>1. IsFiniteSet(s) /\ Cardinality(s) \in Nat /\ (Cardinality(s) = 0) = (s = {})
      BY FS_Subset, FS_CardinalityType, FS_EmptySet
    <2>2. s # {} => Max(s) \in s
      BY <2>1, MaxIsElement
    <2>3. QED BY <2>1, <2>2, FS_RemoveElement
  <1>1. 0 \in T
    BY <1>0
  <1>2. ASSUME NEW n \in Nat, n \in T PROVE n + 1 \in T
    <2>1. ASSUME NEW s \in SUBSET S, Cardinality(s) = n + 1 PROVE s \in Good
      <3>1. s # {} /\ Cardinality(s \ {Max(s)}) = n
        <4>1. /\ (Cardinality(s) = 0) = (s = {})
              /\ s # {} => Cardinality(s \ {Max(s)}) = Cardinality(s) - 1
          BY <1>0
        <4>2. QED BY <2>1, <4>1
      <3>2. s \ {Max(s)} \in Good
        BY <1>2, <3>1
      <3>3. QED BY <3>1, <3>2
    <2>2. QED BY <2>1
  <1> HIDE DEF T
  <1>3. Nat \subseteq T
    BY <1>1, <1>2, SetInduction
  <1>4. QED BY <1>0, <1>3 DEF T

\* The two folds.
LEMMA AppendUnfolds ==
  ASSUME NEW base, NEW seq, IsFiniteSet(DOMAIN seq), DOMAIN seq \subseteq Nat
  PROVE  \E f : /\ FoldsTo([op |-> "append"], base, seq, f, SUBSET DOMAIN seq)
                /\ FoldLeft(appendStatement, base, seq) = f[DOMAIN seq]
  <1> DEFINE fold == [op |-> "append"]
             g == CHOOSE f : FoldsTo(fold, base, seq, f, SUBSET DOMAIN seq)
  <1>1. FoldsTo(fold, base, seq, g, SUBSET DOMAIN seq)
    BY FoldExists
  <1>2. fold.op = "append" OBVIOUS
  <1> HIDE DEF fold
  <1>4. FoldLeft(appendStatement, base, seq) = g[DOMAIN seq]
    BY <1>2 DEF FoldLeft, MapThenFoldSet, FoldsTo, FoldStep
  <1>5. QED BY <1>1, <1>4 DEF fold

\* Appending statements gives a sequence.
LEMMA AppendIsSequence ==
  ASSUME NEW statements, IsSequence(statements), NEW t
  PROVE  IsSequence(appendStatement(statements, t))
  <1> DEFINE at == {i \in DOMAIN statements : Absorbs(statements[i], t) # {}}
             j == CHOOSE k \in at : \A l \in at : k <= l
             u == CHOOSE s \in Absorbs(statements[j], t) : TRUE
  <1>1. appendStatement(statements, t) = IF at = {} THEN Append(statements, t)
                                         ELSE [statements EXCEPT ![j] = u]
    BY DEF appendStatement
  <1> HIDE DEF at, j, u
  <1> DEFINE S == Range(statements) \cup {t, u}
  <1>2. statements \in Seq(S) /\ t \in S /\ u \in S
    BY DEF IsSequence
  <1> HIDE DEF S
  <1>3. Append(statements, t) \in Seq(S)
    BY <1>2
  <1>4. [statements EXCEPT ![j] = u] \in Seq(S)
    <2> DEFINE n == Len(statements)
    <2>1. n \in Nat /\ statements \in [1 .. n -> S]
      BY <1>2
    <2>2. [statements EXCEPT ![j] = u] \in [1 .. n -> S]
      BY <2>1, <1>2
    <2>3. QED BY <2>1, <2>2, SeqDef
  <1>5. QED BY <1>1, <1>3, <1>4, SequenceOf

\* So does appending many of them.
LEMMA AppendsAreSequence ==
  ASSUME NEW base, NEW seq, IsSequence(base), IsSequence(seq)
  PROVE  IsSequence(FoldLeft(appendStatement, base, seq))
  <1> DEFINE fold == [op |-> "append"]
             D == DOMAIN seq
  <1>1. IsFiniteSet(D) /\ D \subseteq Nat
    BY FS_Interval DEF IsSequence
  <1>2. PICK f : /\ FoldsTo(fold, base, seq, f, SUBSET D)
                 /\ FoldLeft(appendStatement, base, seq) = f[D]
    BY <1>1, AppendUnfolds
  <1>3. \A acc, s : FoldStep(fold, acc, s) = appendStatement(acc, s)
    BY DEF FoldStep
  <1> HIDE DEF fold, D
  <1> DEFINE Good == {s \in SUBSET D : IsSequence(f[s])}
  <1>4. {} \in Good
    <2>1. f[{}] = base
      BY <1>2 DEF FoldsTo
    <2>2. QED BY <2>1
  <1>5. ASSUME NEW s \in SUBSET D, s # {}, s \ {Max(s)} \in Good PROVE s \in Good
    <2>1. f[s] = appendStatement(f[s \ {Max(s)}], seq[Max(s)])
      BY <1>2, <1>3, <1>5 DEF FoldsTo
    <2>2. IsSequence(f[s])
      BY <2>1, <1>5, AppendIsSequence
    <2>3. QED BY <2>2
  <1> HIDE DEF Good
  <1>6. Good \subseteq SUBSET D
    BY DEF Good
  <1>7. D \in Good
    BY <1>1, <1>2, <1>4, <1>5, <1>6, FoldKeeps
  <1>8. QED BY <1>2, <1>7 DEF Good

\* What removeStatements has while it goes through the statements.
IsKept(acc) ==
  /\ acc = [out |-> acc.out, held |-> acc.held, listed |-> acc.listed]
  /\ IsSequence(acc.out) /\ IsSequence(acc.held)

\* One element after a sequence.
LEMMA AppendToSequence ==
  ASSUME NEW s, IsSequence(s), NEW t
  PROVE  IsSequence(Append(s, t))
  <1> DEFINE S == Range(s) \cup {t}
  <1>1. s \in Seq(S) /\ t \in S
    BY DEF IsSequence
  <1> HIDE DEF S
  <1>2. Append(s, t) \in Seq(S)
    BY <1>1
  <1>3. QED BY <1>2, SequenceOf

\* One sequence after another.
LEMMA ConcatIsSequence ==
  ASSUME NEW s, IsSequence(s), NEW t, IsSequence(t)
  PROVE  IsSequence(s \o t)
  <1> DEFINE S == Range(s) \cup Range(t)
  <1>1. s \in Seq(S) /\ t \in Seq(S)
    BY DEF IsSequence
  <1> HIDE DEF S
  <1>2. s \o t \in Seq(S)
    BY <1>1
  <1>3. QED BY <1>2, SequenceOf

\* A statement more of removeStatements.
LEMMA KeepKeeps ==
  ASSUME NEW acc, IsKept(acc), NEW s, NEW statements, NEW bucket, NEW prefix
  PROVE  IsKept(Keep(acc, s, statements, bucket, prefix))
  <1> DEFINE t == Removed(s, statements, bucket, prefix)
             listed == {ObjectResource(bucket, v) :
                          v \in PrefixValues(t.conditions, "StringEquals")}
             next == Keep(acc, s, statements, bucket, prefix)
             appended == [acc EXCEPT !.out = Append(@, t)]
             listing == [acc EXCEPT !.out = Append(@, t), !.listed = @ \cup listed]
             holding == [acc EXCEPT !.held = Append(@, t)]
  <1>1. next \in {appended, acc, listing, holding}
    BY Zenon DEF Keep
  <1> HIDE DEF t, listed, next
  <1>2. IsSequence(Append(acc.out, t)) /\ IsSequence(Append(acc.held, t))
    BY AppendToSequence DEF IsKept
  <1>3. acc = [out |-> acc.out, held |-> acc.held, listed |-> acc.listed]
        /\ IsSequence(acc.out) /\ IsSequence(acc.held)
    BY DEF IsKept
  <1> DEFINE o == Append(acc.out, t)
             h == Append(acc.held, t)
             l == acc.listed \cup listed
  <1>4. /\ appended = [out |-> o, held |-> acc.held, listed |-> acc.listed]
        /\ listing = [out |-> o, held |-> acc.held, listed |-> l]
        /\ holding = [out |-> acc.out, held |-> h, listed |-> acc.listed]
    <2>1. PICK x, y, z : acc = [out |-> x, held |-> y, listed |-> z]
      BY <1>3
    <2>2. acc.out = x /\ acc.held = y /\ acc.listed = z
      BY <2>1
    <2>3. appended = [out |-> o, held |-> y, listed |-> z]
      BY <2>1, <2>2
    <2>4. listing = [out |-> o, held |-> y, listed |-> l]
      <3> DEFINE p == [acc EXCEPT !.out = o]
      <3>1. p = [out |-> o, held |-> y, listed |-> z]
        BY <2>1
      <3>2. listing = [p EXCEPT !.listed = l]
        BY <2>2
      <3> HIDE DEF p, l, o
      <3>3. [p EXCEPT !.listed = l] = [out |-> o, held |-> y, listed |-> l]
        BY <3>1
      <3>4. QED BY <2>2, <3>2, <3>3
    <2>5. holding = [out |-> x, held |-> h, listed |-> z]
      BY <2>1, <2>2
    <2>6. QED BY <2>2, <2>3, <2>4, <2>5
  <1>5. IsSequence(o) /\ IsSequence(h)
    BY <1>2
  <1> HIDE DEF o, h, l, appended, listing, holding
  <1>6. IsKept(appended) /\ IsKept(listing) /\ IsKept(holding)
    BY <1>3, <1>4, <1>5 DEF IsKept
  <1>7. QED BY <1>1, <1>6 DEF next

\* removeStatements gives a sequence.
LEMMA RemoveGivesSequence ==
  ASSUME NEW statements, IsSequence(statements), NEW bucket, NEW prefix
  PROVE  IsSequence(removeStatements(statements, bucket, prefix))
  <1> DEFINE fold == [op |-> "keep", statements |-> statements, bucket |-> bucket,
                      prefix |-> prefix]
             base == [out |-> << >>, held |-> << >>, listed |-> {}]
             D == DOMAIN statements
             f == CHOOSE g : FoldsTo(fold, base, statements, g, SUBSET D)
             keep(acc, s) == Keep(acc, s, statements, bucket, prefix)
             folded == FoldLeft(keep, base, statements)
  <1>1. IsFiniteSet(D) /\ D \subseteq Nat
    BY FS_Interval DEF IsSequence
  <1>2. /\ fold.op \notin {"append", "pick"} /\ fold.statements = statements
        /\ fold.bucket = bucket /\ fold.prefix = prefix
    OBVIOUS
  <1>3. IsKept(base)
    <2>1. IsSequence(<< >>)
      BY DEF IsSequence, Range
    <2>2. QED BY <2>1 DEF IsKept
  <1> HIDE DEF fold, base
  <1>4. FoldsTo(fold, base, statements, f, SUBSET D)
    BY <1>1, FoldExists
  <1>5. folded = f[D]
    BY <1>2 DEF FoldLeft, MapThenFoldSet, FoldsTo, FoldStep
  <1>6. \A a, s : FoldStep(fold, a, s) = Keep(a, s, statements, bucket, prefix)
    BY <1>2 DEF FoldStep
  <1> HIDE DEF f, D
  <1> DEFINE Good == {s \in SUBSET D : IsKept(f[s])}
  <1>7. {} \in Good
    <2>1. f[{}] = base
      BY <1>4 DEF FoldsTo
    <2>2. QED BY <1>3, <2>1
  <1>8. ASSUME NEW s \in SUBSET D, s # {}, s \ {Max(s)} \in Good PROVE s \in Good
    <2>1. f[s] = Keep(f[s \ {Max(s)}], statements[Max(s)], statements, bucket, prefix)
      BY <1>4, <1>6, <1>8 DEF FoldsTo
    <2>2. IsKept(f[s])
      BY <2>1, <1>8, KeepKeeps
    <2>3. QED BY <2>2
  <1> HIDE DEF Good
  <1>9. Good \subseteq SUBSET D
    BY DEF Good
  <1>10. D \in Good
    BY <1>1, <1>4, <1>7, <1>8, <1>9, FoldKeeps
  <1>11. IsSequence(folded.out) /\ IsSequence(folded.held)
    BY <1>5, <1>10 DEF Good, IsKept
  <1> DEFINE needed == \E s \in Range(folded.out) :
                         /\ \E r \in s.resources : InBucket(bucket, r)
                         /\ folded.listed \cap s.resources = {}
             out == folded.out \o (IF needed THEN folded.held ELSE << >>)
  <1>12. removeStatements(statements, bucket, prefix) \in {<< >>, out}
    BY Zenon DEF removeStatements, Keep, base
  <1> HIDE DEF folded
  <1>13. IsSequence(<< >>)
    BY DEF IsSequence, Range
  <1>14. IsSequence(out)
    <2>1. IsSequence(IF needed THEN folded.held ELSE << >>)
      BY <1>11, <1>13
    <2>2. QED BY <1>11, <2>1, ConcatIsSequence
  <1> HIDE DEF out
  <1>15. QED BY <1>12, <1>13, <1>14

\* Sequences of none and of one.
LEMMA SmallSequences ==
  IsSequence(<< >>) /\ \A x : IsSequence(<<x>>)
  BY DEF IsSequence, Range

\* SetPolicy gives a document.
LEMMA SetPolicyIsSequence ==
  ASSUME NEW statements, IsSequence(statements), NEW policy, NEW bucket, NEW prefix
  PROVE  IsSequence(SetPolicy(statements, policy, bucket, prefix))
  <1>1. IsSequence(removeStatements(statements, bucket, prefix))
    BY RemoveGivesSequence
  <1>2. IsSequence(newStatements(policy, bucket, prefix))
    <2> DEFINE bucketPart == newBucketStatement(policy, bucket, prefix)
               objectPart == newObjectStatement(policy, bucket, prefix)
    <2>1. IsSequence(objectPart)
      <3> DEFINE x == newObjectStatement(policy, bucket, prefix)[1]
      <3>1. objectPart = << >> \/ objectPart = <<x>>
        BY DEF newObjectStatement
      <3> HIDE DEF objectPart, x
      <3>2. QED BY <3>1, SmallSequences
    <2>2. IsSequence(bucketPart)
      <3> DEFINE only == IF prefix = << >> THEN {}
                  ELSE {[name |-> "StringEquals", key |-> "prefix", values |-> {prefix}]}
                 x == NewStatement(commonBucketActions, BucketResource(bucket), {})
                 y == NewStatement(readOnlyBucketActions, BucketResource(bucket), only)
                 z == NewStatement(writeOnlyBucketActions, BucketResource(bucket), {})
                 ys == IF policy \in {"readonly", "readwrite"} THEN <<y>> ELSE << >>
                 zs == IF policy \in {"writeonly", "readwrite"} THEN <<z>> ELSE << >>
      <3>1. bucketPart = IF policy = "none" THEN << >> ELSE <<x>> \o ys \o zs
        BY Zenon DEF newBucketStatement
      <3> HIDE DEF bucketPart, x, y, z
      <3>2. IsSequence(<<x>>) /\ IsSequence(ys) /\ IsSequence(zs) /\ IsSequence(<< >>)
        BY SmallSequences
      <3> HIDE DEF ys, zs
      <3>3. IsSequence(<<x>> \o ys \o zs)
        BY <3>2, ConcatIsSequence
      <3>4. QED BY <3>1, <3>2, <3>3
    <2> HIDE DEF bucketPart, objectPart
    <2>3. QED BY <2>1, <2>2, ConcatIsSequence DEF newStatements, bucketPart, objectPart
  <1>3. QED BY <1>1, <1>2, AppendsAreSequence DEF SetPolicy

(***************************************************************************)
(* Memory and store                                                        *)
(***************************************************************************)

\* What ParseConfig makes of a document.
ReadDoc(doc) == IsSequence(doc) /\ dropDuplicateStatements(doc) = doc

\* A goroutine carries the document that it is about to store or has stored.
CarriesDoc(r) ==
  /\ r.pc # "idle" => r.bucket \in Buckets
  /\ r.pc \in {"save", "set"} => ReadDoc(r.doc)

\* What q has on the way to memory is what is stored.
Agrees(b, q) ==
  IF req[q].pc = "set" THEN policyFile[b] # << >> /\ policyFile[b][1].doc = req[q].doc
  ELSE policyFile[b] = << >>

\* The one change of b on its way is the stored one, and when there is none memory
\* has what is stored.
FollowsStore(b) ==
  /\ \A p, q \in Procs : Pending(b, p) /\ Pending(b, q) => p = q
  /\ \A q \in Procs : Pending(b, q) => Agrees(b, q)
  /\ (\A q \in Procs : ~Pending(b, q)) =>
       Statements(bucketPolicyMap[b]) = Statements(getPolicyConfig(policyFile[b]))

\* Nobody changed the policy of b since the process started.
NotSince(b) == bucketPolicyMap[b] = NoDoc /\ \A q \in Procs : ~Pending(b, q)

\* The variables are functions.
PolicyTypes ==
  /\ policyFile = [b \in Buckets |-> policyFile[b]]
  /\ bucketPolicyMap = [b \in Buckets |-> bucketPolicyMap[b]]
  /\ req = [p \in Procs |-> req[p]]

\* The inductive invariant.
PolicyInv ==
  /\ PolicyTypes
  /\ \A b \in Buckets : policyFile[b] = << >> \/ ReadDoc(policyFile[b][1].doc)
  /\ \A p \in Procs : CarriesDoc(req[p])
  /\ \A b \in Buckets : b \in edited \ raced => FollowsStore(b)
  /\ \A b \in Buckets : b \notin edited => NotSince(b)

\* A goroutine at rest carries nothing.
LEMMA IdleCarries == CarriesDoc(Idle) /\ Idle.pc = "idle"
  BY DEF CarriesDoc, Idle

\* At the start nothing is stored and nothing in memory.
LEMMA PolicyInitInv == Init => PolicyInv
  <1> SUFFICES ASSUME Init PROVE PolicyInv
    OBVIOUS
  <1>1. PolicyTypes /\ \A p \in Procs : req[p] = Idle
    BY DEF Init, PolicyTypes
  <1>2. \A b \in Buckets : policyFile[b] = << >> /\ bucketPolicyMap[b] = NoDoc /\ b \notin edited
    BY DEF Init
  <1>3. \A b \in Buckets, q \in Procs : ~Pending(b, q)
    BY <1>1, IdleCarries DEF Pending
  <1>4. QED BY <1>1, <1>2, <1>3, IdleCarries DEF PolicyInv, NotSince

\* A step of p that neither takes a change to the store nor one to memory.
LEMMA QuietStep ==
  ASSUME PolicyInv, NEW p \in Procs, NEW r, CarriesDoc(r),
         r.pc \notin {"set", "unset"}, req[p].pc \notin {"set", "unset"},
         req' = [req EXCEPT ![p] = r],
         UNCHANGED <<policyFile, bucketPolicyMap, edited, raced>>
  PROVE  PolicyInv'
  <1>1. req' = [q \in Procs |-> req'[q]] /\ \A q \in Procs : req'[q] = IF q = p THEN r ELSE req[q]
    BY DEF PolicyInv, PolicyTypes
  <1>2. \A b, q : q \in Procs => Pending(b, q)' = Pending(b, q)
    BY <1>1 DEF Pending
  <1>3. \A b \in Buckets, q \in Procs : Pending(b, q) => Agrees(b, q)' = Agrees(b, q)
    BY <1>1 DEF Pending, Agrees
  <1>4. \A b \in Buckets : FollowsStore(b) => FollowsStore(b)'
    BY <1>2, <1>3 DEF FollowsStore
  <1>5. \A b \in Buckets : NotSince(b) => NotSince(b)'
    BY <1>2 DEF NotSince
  <1>6. \A q \in Procs : CarriesDoc(req[q])'
    BY <1>1 DEF PolicyInv, CarriesDoc
  <1>7. PolicyTypes'
    BY <1>1 DEF PolicyInv, PolicyTypes
  <1>8. QED BY <1>4, <1>5, <1>6, <1>7 DEF PolicyInv

\* A step that changes nothing of the policies.
LEMMA UntouchedStep ==
  ASSUME PolicyInv, UNCHANGED <<policyFile, bucketPolicyMap, req, edited, raced>>
  PROVE  PolicyInv'
  <1>1. \A b, q : Pending(b, q)' = Pending(b, q)
    BY DEF Pending
  <1>2. \A b \in Buckets : FollowsStore(b)' = FollowsStore(b)
    BY <1>1 DEF FollowsStore, Agrees
  <1>3. \A b \in Buckets : NotSince(b)' = NotSince(b)
    BY <1>1 DEF NotSince
  <1>4. PolicyTypes' /\ \A q \in Procs : CarriesDoc(req[q])' = CarriesDoc(req[q])
    BY DEF PolicyInv, PolicyTypes, CarriesDoc
  <1>5. QED BY <1>2, <1>3, <1>4 DEF PolicyInv

\* A step of p that changes the stored policy of b and has the same change on
\* its way to memory.
LEMMA StoreStep ==
  ASSUME PolicyInv, NEW p \in Procs, NEW b \in Buckets, NEW file, NEW r,
         file = << >> \/ ReadDoc(file[1].doc),
         CarriesDoc(r), r.bucket = b, r.pc \in {"set", "unset"},
         r.pc = "set" => file # << >> /\ file[1].doc = r.doc,
         r.pc = "unset" => file = << >>,
         req[p].bucket = b, req[p].pc \notin {"set", "unset"},
         req' = [req EXCEPT ![p] = r],
         policyFile' = [policyFile EXCEPT ![b] = file],
         Changed(p, b),
         UNCHANGED bucketPolicyMap
  PROVE  PolicyInv'
  <1>1. req' = [q \in Procs |-> req'[q]] /\ \A q \in Procs : req'[q] = IF q = p THEN r ELSE req[q]
    BY DEF PolicyInv, PolicyTypes
  <1>2. /\ policyFile' = [c \in Buckets |-> policyFile'[c]]
        /\ \A c \in Buckets : policyFile'[c] = IF c = b THEN file ELSE policyFile[c]
    BY DEF PolicyInv, PolicyTypes
  <1>3. PolicyTypes'
    BY <1>1, <1>2 DEF PolicyInv, PolicyTypes
  <1>4. \A q \in Procs : CarriesDoc(req[q])'
    BY <1>1 DEF PolicyInv, CarriesDoc
  <1>5. \A c \in Buckets : policyFile'[c] = << >> \/ ReadDoc(policyFile'[c][1].doc)
    BY <1>2 DEF PolicyInv
  <1>6. /\ edited' = edited \cup {b}
        /\ raced' = IF \E q \in Procs \ {p} : Pending(b, q) THEN raced \cup {b} ELSE raced \ {b}
    BY DEF Changed
  <1>7. ASSUME NEW c \in Buckets, c # b
        PROVE  /\ FollowsStore(c) => FollowsStore(c)'
               /\ NotSince(c) => NotSince(c)'
    <2>1. \A q \in Procs : Pending(c, q)' = Pending(c, q) /\ (Pending(c, q) => req'[q] = req[q])
      BY <1>1, <1>7 DEF Pending
    <2>2. policyFile'[c] = policyFile[c]
      BY <1>2, <1>7
    <2>3. \A q \in Procs : Pending(c, q) => Agrees(c, q)' = Agrees(c, q)
      BY <2>1, <2>2 DEF Agrees
    <2>4. FollowsStore(c) => FollowsStore(c)'
      BY <2>1, <2>2, <2>3 DEF FollowsStore
    <2>5. QED BY <2>1, <2>4 DEF NotSince
  <1>8. b \notin raced' => FollowsStore(b)'
    <2> SUFFICES ASSUME b \notin raced' PROVE FollowsStore(b)'
      OBVIOUS
    <2>1. \A q \in Procs \ {p} : ~Pending(b, q)
      BY <1>6
    <2>2. \A q \in Procs \ {p} : ~Pending(b, q)'
      BY <1>1, <2>1 DEF Pending
    <2>3. Pending(b, p)' /\ Agrees(b, p)'
      BY <1>1, <1>2 DEF Pending, Agrees
    <2>4. QED BY <2>2, <2>3 DEF FollowsStore
  <1>9. ASSUME NEW c \in Buckets
        PROVE  (c \in (edited \ raced)' => FollowsStore(c)') /\ (c \notin edited' => NotSince(c)')
    <2>1. CASE c = b
      BY <1>6, <1>8, <2>1
    <2>2. CASE c # b
      BY <1>6, <1>7, <2>2 DEF PolicyInv
    <2>3. QED BY <2>1, <2>2
  <1>10. QED BY <1>3, <1>4, <1>5, <1>9 DEF PolicyInv

\* A step of p that takes a change to memory.
LEMMA MemoryStep ==
  ASSUME PolicyInv, NEW p \in Procs, NEW b \in Buckets, NEW entry,
         Pending(b, p),
         Agrees(b, p) => Statements(entry) = Statements(getPolicyConfig(policyFile[b])),
         req' = [req EXCEPT ![p] = Idle],
         bucketPolicyMap' = [bucketPolicyMap EXCEPT ![b] = entry],
         UNCHANGED <<policyFile, edited, raced>>
  PROVE  PolicyInv'
  <1>1. req' = [q \in Procs |-> req'[q]] /\ \A q \in Procs : req'[q] = IF q = p THEN Idle ELSE req[q]
    BY DEF PolicyInv, PolicyTypes
  <1>2. /\ bucketPolicyMap' = [c \in Buckets |-> bucketPolicyMap'[c]]
        /\ \A c \in Buckets : bucketPolicyMap'[c] = IF c = b THEN entry ELSE bucketPolicyMap[c]
    BY DEF PolicyInv, PolicyTypes
  <1>3. PolicyTypes'
    BY <1>1, <1>2 DEF PolicyInv, PolicyTypes
  <1>4. \A q \in Procs : CarriesDoc(req[q])'
    BY <1>1, IdleCarries DEF PolicyInv, CarriesDoc
  <1>5. \A c, q : q \in Procs /\ Pending(c, q)' => Pending(c, q) /\ q # p /\ req'[q] = req[q]
    BY <1>1, IdleCarries DEF Pending
  <1>6. \A c, q : q \in Procs /\ q # p => Pending(c, q)' = Pending(c, q)
    BY <1>1 DEF Pending
  <1>7. b \in edited
    BY DEF PolicyInv, NotSince
  <1>8. ASSUME NEW c \in Buckets, FollowsStore(c) PROVE FollowsStore(c)'
    <2>1. \A q, q1 \in Procs : Pending(c, q)' /\ Pending(c, q1)' => q = q1
      BY <1>5, <1>8 DEF FollowsStore
    <2>2. \A q \in Procs : Pending(c, q)' => Agrees(c, q)'
      BY <1>5, <1>8 DEF FollowsStore, Agrees
    <2>3. CASE c = b
      <3>1. Agrees(b, p)
        BY <1>8, <2>3 DEF FollowsStore
      <3>2. Statements(bucketPolicyMap'[c]) = Statements(getPolicyConfig(policyFile'[c]))
        BY <1>2, <2>3, <3>1
      <3>3. QED BY <2>1, <2>2, <3>2 DEF FollowsStore
    <2>4. CASE c # b
      <3>1. ~Pending(c, p)
        BY <2>4 DEF Pending
      <3>2. (\A q \in Procs : ~Pending(c, q)') => \A q \in Procs : ~Pending(c, q)
        BY <1>6, <3>1
      <3>3. bucketPolicyMap'[c] = bucketPolicyMap[c]
        BY <1>2, <2>4
      <3>4. QED BY <1>8, <2>1, <2>2, <3>2, <3>3 DEF FollowsStore
    <2>5. QED BY <2>3, <2>4
  <1>9. ASSUME NEW c \in Buckets, c \notin edited PROVE NotSince(c)'
    <2>1. NotSince(c) /\ c # b
      BY <1>7, <1>9 DEF PolicyInv
    <2>2. QED BY <1>2, <1>5, <2>1 DEF NotSince
  <1>10. QED BY <1>3, <1>4, <1>8, <1>9 DEF PolicyInv

\* A new process has nothing in memory.
LEMMA RestartStep ==
  ASSUME PolicyInv, Restart
  PROVE  PolicyInv'
  <1>1. req' = [p \in Procs |-> req'[p]] /\ \A p \in Procs : req'[p] = Idle
    BY DEF Restart
  <1>2. /\ bucketPolicyMap' = [b \in Buckets |-> bucketPolicyMap'[b]]
        /\ \A b \in Buckets : bucketPolicyMap'[b] = NoDoc /\ b \notin edited'
        /\ policyFile' = policyFile
    BY DEF Restart, stores
  <1>3. \A b \in Buckets, q \in Procs : ~Pending(b, q)'
    BY <1>1, IdleCarries DEF Pending
  <1>4. \A q \in Procs : CarriesDoc(req[q])'
    BY <1>1, IdleCarries DEF CarriesDoc
  <1>5. QED BY <1>1, <1>2, <1>3, <1>4 DEF PolicyInv, PolicyTypes, NotSince

\* A document that was read stays as it is.
LEMMA ReadIsReadDoc ==
  ASSUME NEW d, IsSequence(d)
  PROVE  ReadDoc(dropDuplicateStatements(d))
  BY ReadingTwice DEF ReadDoc

\* Web SetBucketPolicy up to the document.
LEMMA WebReadStep ==
  ASSUME PolicyInv, NEW p \in Procs, NEW b \in Buckets, NEW r \in Requests, WebRead(p, b, r)
  PROVE  PolicyInv'
  <1> DEFINE read == getPolicyConfig(policyFile[b])
             new  == SetPolicy(Statements(read), r.policy, b, r.prefix)
             gone == [pc |-> "delete", bucket |-> b, r |-> r, doc |-> NoDoc, read |-> read]
             kept == [pc |-> "save", bucket |-> b, r |-> r,
                      doc |-> dropDuplicateStatements(new), read |-> read]
  <1>1. IsSequence(Statements(read))
    <2>1. CASE policyFile[b] = << >>
      BY <2>1, SmallSequences DEF getPolicyConfig, Statements
    <2>2. CASE policyFile[b] # << >>
      <3>1. ReadDoc(policyFile[b][1].doc) /\ read = dropDuplicateStatements(policyFile[b][1].doc)
        BY <2>2 DEF PolicyInv, getPolicyConfig
      <3>2. IsSequence(read)
        BY <3>1 DEF ReadDoc
      <3>3. QED BY <3>2, SmallSequences DEF Statements
    <2>3. QED BY <2>1, <2>2
  <1>2. IsSequence(new)
    BY <1>1, SetPolicyIsSequence
  <1>3. /\ req[p].pc = "idle"
        /\ req' = [req EXCEPT ![p] = gone] \/ req' = [req EXCEPT ![p] = kept]
        /\ UNCHANGED <<policyFile, bucketPolicyMap, edited, raced>>
    BY DEF WebRead, Took, stores, memory, history
  <1> HIDE DEF new, read
  <1>4. CarriesDoc(gone) /\ CarriesDoc(kept) /\ gone.pc = "delete" /\ kept.pc = "save"
    BY <1>2, ReadIsReadDoc DEF CarriesDoc
  <1> HIDE DEF gone, kept
  <1>5. CASE req' = [req EXCEPT ![p] = gone]
    BY <1>3, <1>4, <1>5, QuietStep
  <1>6. CASE req' = [req EXCEPT ![p] = kept]
    BY <1>3, <1>4, <1>6, QuietStep
  <1>7. QED BY <1>3, <1>5, <1>6

\* The policy handlers up to the document.
LEMMA GetBucketInfoStep ==
  ASSUME PolicyInv, NEW p \in Procs, NEW b \in Buckets, NEW r \in Requests, GetBucketInfo(p, b, r)
  PROVE  PolicyInv'
  <1> DEFINE gone == [pc |-> "delete", bucket |-> b, r |-> r, doc |-> NoDoc, read |-> NoDoc]
             kept == [pc |-> "save", bucket |-> b, r |-> r,
                      doc |-> dropDuplicateStatements(r.doc), read |-> NoDoc]
  <1>1. r.op = "put_policy" => IsSequence(r.doc)
    <2>1. CASE \E d \in Docs : r = [Op("put_policy") EXCEPT !.doc = d]
      BY <2>1, DocsAssumption DEF Op, IsSequence
    <2>2. CASE \E e \in Edits : r = [Op("web_set") EXCEPT !.prefix = e[1], !.policy = e[2]]
      BY <2>2 DEF Op
    <2>3. CASE r \in {Op("delete_policy"), Op("make"), Op("make_locked"),
                     Op("delete_bucket"), Op("force_delete_bucket")}
      BY <2>3 DEF Op
    <2>4. QED BY <2>1, <2>2, <2>3 DEF Requests
  <1>2. /\ req[p].pc = "idle"
        /\ \/ req' = [req EXCEPT ![p] = gone]
           \/ r.op = "put_policy" /\ req' = [req EXCEPT ![p] = kept]
        /\ UNCHANGED <<policyFile, bucketPolicyMap, edited, raced>>
    BY DEF GetBucketInfo, Took, stores, memory, history
  <1>3. CarriesDoc(gone) /\ gone.pc = "delete" /\ kept.pc = "save"
    BY DEF CarriesDoc
  <1>4. r.op = "put_policy" => CarriesDoc(kept)
    BY <1>1, ReadIsReadDoc DEF CarriesDoc
  <1> HIDE DEF gone, kept
  <1>5. CASE req' = [req EXCEPT ![p] = gone]
    BY <1>2, <1>3, <1>5, QuietStep
  <1>6. CASE r.op = "put_policy" /\ req' = [req EXCEPT ![p] = kept]
    BY <1>2, <1>3, <1>4, <1>6, QuietStep
  <1>7. QED BY <1>2, <1>5, <1>6

\* saveConfig.
LEMMA SavePolicyStep ==
  ASSUME PolicyInv, NEW p \in Procs, SavePolicy(p)
  PROVE  PolicyInv'
  <1> DEFINE b == req[p].bucket
             file == saveConfig(policyFile[b], req[p].doc)
             r == [Idle EXCEPT !.pc = "set", !.bucket = b, !.doc = req[p].doc]
  <1>1. /\ req[p].pc = "save" /\ req' = [req EXCEPT ![p] = r]
        /\ policyFile' = [policyFile EXCEPT ![b] = file] /\ Changed(p, b)
        /\ UNCHANGED bucketPolicyMap
    BY DEF SavePolicy, Goto, memory
  <1>2. b \in Buckets /\ ReadDoc(req[p].doc)
    BY <1>1 DEF PolicyInv, CarriesDoc
  <1>3. file # << >> /\ file[1].doc = req[p].doc
    BY DEF saveConfig
  <1>4. r.pc = "set" /\ r.bucket = b /\ r.doc = req[p].doc
    BY DEF Idle
  <1>5. CarriesDoc(r)
    BY <1>2, <1>4 DEF CarriesDoc
  <1> HIDE DEF file, r
  <1>6. QED BY <1>1, <1>2, <1>3, <1>4, <1>5, StoreStep

\* DeleteObject of the document.
LEMMA DeletePolicyStep ==
  ASSUME PolicyInv, NEW p \in Procs, DeletePolicy(p)
  PROVE  PolicyInv'
  <1> DEFINE b == req[p].bucket
             r == [Idle EXCEPT !.pc = "unset", !.bucket = b, !.doc = req[p].doc]
  <1>1. req[p].pc = "delete" /\ UNCHANGED bucketPolicyMap /\ b \in Buckets
    BY DEF DeletePolicy, memory, PolicyInv, CarriesDoc
  <1>2. r.pc = "unset" /\ r.bucket = b /\ CarriesDoc(r)
    BY <1>1 DEF Idle, CarriesDoc
  <1>3. CASE policyFile[b] = << >>
    <2>1. req' = [req EXCEPT ![p] = Idle] /\ UNCHANGED <<policyFile, edited, raced>>
      BY <1>3 DEF DeletePolicy, Respond, history
    <2>2. QED BY <1>1, <2>1, IdleCarries, QuietStep
  <1>4. CASE policyFile[b] # << >>
    <2>1. /\ req' = [req EXCEPT ![p] = r] /\ Changed(p, b)
          /\ policyFile' = [policyFile EXCEPT ![b] = << >>]
      BY <1>4 DEF DeletePolicy, Goto
    <2> HIDE DEF r
    <2>2. QED BY <1>1, <1>2, <2>1, StoreStep
  <1>5. QED BY <1>3, <1>4

\* PolicySys.Set.
LEMMA PolicySetStep ==
  ASSUME PolicyInv, NEW p \in Procs, PolicySet(p)
  PROVE  PolicyInv'
  <1> DEFINE b == req[p].bucket
             entry == IF req[p].doc = << >> THEN NoDoc ELSE req[p].doc
  <1>1. /\ req[p].pc = "set" /\ req' = [req EXCEPT ![p] = Idle]
        /\ bucketPolicyMap' = [bucketPolicyMap EXCEPT ![b] = entry]
        /\ UNCHANGED <<policyFile, edited, raced>>
    BY DEF PolicySet, Respond, stores, history
  <1>2. b \in Buckets /\ ReadDoc(req[p].doc) /\ Pending(b, p)
    BY <1>1 DEF PolicyInv, CarriesDoc, Pending
  <1>3. Agrees(b, p) => Statements(entry) = Statements(getPolicyConfig(policyFile[b]))
    BY <1>1, <1>2 DEF Agrees, getPolicyConfig, ReadDoc, Statements
  <1> HIDE DEF entry
  <1>4. QED BY <1>1, <1>2, <1>3, MemoryStep

\* PolicySys.Remove.
LEMMA PolicyRemoveStep ==
  ASSUME PolicyInv, NEW p \in Procs, PolicyRemove(p)
  PROVE  PolicyInv'
  <1> DEFINE b == req[p].bucket
  <1>1. /\ req[p].pc = "unset" /\ req' = [req EXCEPT ![p] = Idle]
        /\ bucketPolicyMap' = [bucketPolicyMap EXCEPT ![b] = NoDoc]
        /\ UNCHANGED <<policyFile, edited, raced>>
    BY DEF PolicyRemove, Respond, stores, history
  <1>2. b \in Buckets /\ Pending(b, p)
    BY <1>1 DEF PolicyInv, CarriesDoc, Pending
  <1>3. Agrees(b, p) => Statements(NoDoc) = Statements(getPolicyConfig(policyFile[b]))
    BY <1>1 DEF Agrees, getPolicyConfig
  <1>4. QED BY <1>1, <1>2, <1>3, MemoryStep

\* Failures, and the buckets themselves, leave the policies alone.
LEMMA BucketSteps ==
  ASSUME PolicyInv, NEW p \in Procs,
         \/ ConfigFails(p) \/ LockSet(p)
         \/ \E b \in Buckets, r \in Requests : MakeBucket(p, b, r) \/ DeleteBucket(p, b, r)
  PROVE  PolicyInv'
  <1>1. UNCHANGED <<policyFile, bucketPolicyMap, edited, raced>>
    BY DEF ConfigFails, LockSet, MakeBucket, DeleteBucket, stores, memory, history
  <1>2. CASE ConfigFails(p) \/ LockSet(p)
    <2>1. req[p].pc \notin {"set", "unset"} /\ req' = [req EXCEPT ![p] = Idle]
      BY <1>2 DEF ConfigFails, LockSet, Respond
    <2>2. QED BY <1>1, <2>1, IdleCarries, QuietStep
  <1>3. CASE \E b \in Buckets, r \in Requests : MakeBucket(p, b, r) \/ DeleteBucket(p, b, r)
    <2>1. PICK b \in Buckets, r \in Requests : MakeBucket(p, b, r) \/ DeleteBucket(p, b, r)
      BY <1>3
    <2> DEFINE locks == [pc |-> "setlock", bucket |-> b, r |-> r, doc |-> NoDoc, read |-> NoDoc]
    <2>2. req' = req \/ (req[p].pc = "idle" /\ req' = [req EXCEPT ![p] = locks])
      BY <2>1 DEF MakeBucket, DeleteBucket, Took
    <2>3. CarriesDoc(locks) /\ locks.pc = "setlock"
      BY DEF CarriesDoc
    <2> HIDE DEF locks
    <2>4. CASE req' = req
      BY <1>1, <2>4, UntouchedStep
    <2>5. CASE req[p].pc = "idle" /\ req' = [req EXCEPT ![p] = locks]
      BY <1>1, <2>3, <2>5, QuietStep
    <2>6. QED BY <2>2, <2>4, <2>5
  <1>4. QED BY <1>2, <1>3

\* Every step keeps the invariant.
LEMMA PolicyNextInv == PolicyInv /\ [Next]_vars => PolicyInv'
  <1> SUFFICES ASSUME PolicyInv, [Next]_vars PROVE PolicyInv'
    OBVIOUS
  <1>1. CASE UNCHANGED vars
    BY <1>1, UntouchedStep DEF vars, stores, memory, history
  <1>2. CASE Restart
    BY <1>2, RestartStep
  <1>3. ASSUME NEW p \in Procs, NEW b \in Buckets, NEW r \in Requests,
               \/ WebRead(p, b, r) \/ GetBucketInfo(p, b, r)
               \/ MakeBucket(p, b, r) \/ DeleteBucket(p, b, r)
        PROVE  PolicyInv'
    BY <1>3, WebReadStep, GetBucketInfoStep, BucketSteps
  <1>4. ASSUME NEW p \in Procs,
               \/ SavePolicy(p) \/ DeletePolicy(p) \/ PolicySet(p) \/ PolicyRemove(p)
               \/ LockSet(p) \/ ConfigFails(p)
        PROVE  PolicyInv'
    BY <1>4, SavePolicyStep, DeletePolicyStep, PolicySetStep, PolicyRemoveStep, BucketSteps
  <1>5. QED BY <1>1, <1>2, <1>3, <1>4 DEF Next

\* What goroutines carry and what is stored are documents as ParseConfig
\* returns them, and of a bucket that no two changes overtook each other on, the
\* one change on its way to memory is the one that is stored.
THEOREM PolicyInvAlways == Spec => []PolicyInv
  BY PolicyInitInv, PolicyNextInv, PTL DEF Spec

\* The invariant contains the property.
LEMMA PolicyInvSuffices == PolicyInv => MemoryMatchesStore
  BY DEF PolicyInv, FollowsStore, NotSince, MemoryMatchesStore

\* Memory agrees with the store: PolicySys.Set and Remove leave in force what
\* saveConfig and DeleteObject left stored, for any number of goroutines, buckets,
\* documents and edits.
THEOREM MemoryMatchesStoreAlways == Spec => []MemoryMatchesStore
  BY PolicyInvAlways, PolicyInvSuffices, PTL

(***************************************************************************)
(* The decisions of IAMSys                                                 *)
(*                                                                         *)
(* An evaluation gives up the read lock between its critical sections.     *)
(* One that no change of the maps and no other evaluation's append met in  *)
(* between still knows what it found out (Knows), and the statements that  *)
(* it has gathered, with those that it has yet to append, are those of the *)
(* account's policies.                                                     *)
(***************************************************************************)

\* The statements that documents may have.
Known ==
  {s \in (UNION {UNION {Range(doc.statements) : doc \in PolicyDocs[n]} : n \in DOMAIN PolicyDocs})
         \cup (UNION {Range(CannedDocs[n].statements) : n \in DOMAIN CannedDocs}) :
     s.actions \subseteq S3Actions \cup AdminActions}

\* A document in memory, and the array behind it.
DocFits(d) == d.statements \in Seq(Known) /\ d.cap \in Nat

\* The maps of IAMSys, and the room behind the documents.
MapsFit ==
  /\ \A n \in DOMAIN docsMap : DocFits(docsMap[n])
  /\ spare = [n \in DOMAIN docsMap |-> spare[n]]
  /\ \A n \in DOMAIN docsMap : spare[n] \in Seq(Known)
  /\ userMap = [a \in Accounts |-> userMap[a]]
  /\ \A a \in Accounts : AccountFits(userMap[a])

\* The arguments of an evaluation under way.
ArgsFit(v) ==
  /\ v.args \in Arguments
  /\ v.args.op = "IsAllowed" => ~v.args.owner
  /\ v.pc \in {"temp", "sts", "service"} => v.args.op = "IsAllowed"

\* What an evaluation holds in its last critical section.
GatherFits(v) ==
  /\ v = [pc |-> v.pc, args |-> v.args, names |-> v.names, shared |-> v.shared, own |-> v.own]
  /\ v.names \in Seq(DOMAIN docsMap) /\ v.names # << >>
  /\ v.shared \in 0..Len(spare[v.names[1]])
  /\ v.own \in Seq(Known)
  /\ v.pc = "decide" => Len(v.names) = 1

\* Before the policies' names are known, and while their statements are gathered.
Early == {"temp", "sts", "service", "names"}
Late == {"append", "decide"}

\* What an evaluation holds at each place.
EvalFits(v) ==
  /\ v.pc \in Early \cup Late \cup {"idle", "lookup", "done"}
  /\ v.pc \notin {"idle", "done"} => ArgsFit(v)
  /\ v.pc \in Early => v = [pc |-> v.pc, args |-> v.args]
  /\ v.pc = "lookup" => IsSequence(v.names)
  /\ v.pc \in Late => GatherFits(v)

\* The statements of an account's policies, and those still to append.
StatementsOf(u) ==
  UNION {Range(docsMap[n].statements) : n \in Range(PolicyNames(u)) \cap DOMAIN docsMap}
ToAppend(v) == UNION {Range(docsMap[v.names[i]].statements) : i \in 2..Len(v.names)}

\* What an evaluation that nothing met has found out still holds.
Knows(e) ==
  LET v == eval[e]
      u == userMap[v.args.account]
  IN /\ v.pc = "sts" => u.kind = "temp"
     /\ v.pc = "service" => u.kind \notin {"none", "temp"}
     /\ v.pc \in Late \cup {"names", "lookup"} /\ v.args.op = "IsAllowed" => u.kind = "user"
     /\ v.pc = "lookup" => v.names = PolicyNames(u)
     /\ v.pc \in Late =>
          /\ Range(Combined(e)) \cup ToAppend(v) = StatementsOf(u)
          /\ v.own = << >> /\ v.shared > 0 => Sharers(e, v.names[1]) = {}

\* The inductive invariant: the maps, the evaluations, and what those that nothing met know.
DecisionInv ==
  /\ MapsFit
  /\ eval = [e \in Evaluators |-> eval[e]]
  /\ \A e \in Evaluators : EvalFits(eval[e])
  /\ \A e \in Evaluators \ disturbed : Knows(e)

(***************************************************************************)
(* Sequences                                                               *)
(***************************************************************************)

\* An element more is one more in the range.
LEMMA AppendRange ==
  ASSUME NEW S, NEW s \in Seq(S), NEW x \in S
  PROVE  Append(s, x) \in Seq(S) /\ Range(Append(s, x)) = Range(s) \cup {x}
  <1>1. /\ Append(s, x) \in Seq(S) /\ DOMAIN Append(s, x) = 1..Len(s) + 1
        /\ \A i \in 1..Len(s) : Append(s, x)[i] = s[i]
        /\ Append(s, x)[Len(s) + 1] = x
    OBVIOUS
  <1>2. 1..Len(s) + 1 = (1..Len(s)) \cup {Len(s) + 1} /\ DOMAIN s = 1..Len(s) OBVIOUS
  <1>3. QED BY <1>1, <1>2 DEF Range

\* The range of two sequences, one after the other.
LEMMA ConcatRange ==
  ASSUME NEW S, NEW s \in Seq(S), NEW t \in Seq(S)
  PROVE  s \o t \in Seq(S) /\ Range(s \o t) = Range(s) \cup Range(t)
  <1>1. /\ s \o t \in Seq(S) /\ Len(s \o t) = Len(s) + Len(t)
        /\ \A i \in 1..Len(s) : (s \o t)[i] = s[i]
        /\ \A i \in 1..Len(t) : (s \o t)[Len(s) + i] = t[i]
    OBVIOUS
  <1>2. /\ DOMAIN s = 1..Len(s) /\ DOMAIN t = 1..Len(t)
        /\ DOMAIN (s \o t) = 1..Len(s) + Len(t)
    BY <1>1
  <1>3. \A i \in 1..Len(s) + Len(t) : i \in 1..Len(s) \/ \E j \in 1..Len(t) : i = Len(s) + j
    <2> SUFFICES ASSUME NEW i \in 1..Len(s) + Len(t), i \notin 1..Len(s)
                 PROVE  \E j \in 1..Len(t) : i = Len(s) + j
      OBVIOUS
    <2>1. i - Len(s) \in 1..Len(t) /\ i = Len(s) + (i - Len(s)) OBVIOUS
    <2>2. QED BY <2>1
  <1>4. Range(s \o t) \subseteq Range(s) \cup Range(t)
    <2>1. \A i \in 1..Len(s) + Len(t) : (s \o t)[i] \in Range(s) \cup Range(t)
      <3>1. ASSUME NEW i \in 1..Len(s) PROVE (s \o t)[i] \in Range(s)
        BY <1>1, <1>2 DEF Range
      <3>2. ASSUME NEW j \in 1..Len(t) PROVE (s \o t)[Len(s) + j] \in Range(t)
        BY <1>1, <1>2 DEF Range
      <3>3. QED BY <1>3, <3>1, <3>2
    <2>2. QED BY <1>2, <2>1 DEF Range
  <1>5. \A i \in 1..Len(s) : i \in 1..Len(s) + Len(t) OBVIOUS
  <1>6. \A i \in 1..Len(t) : Len(s) + i \in 1..Len(s) + Len(t) OBVIOUS
  <1>7. Range(s) \cup Range(t) \subseteq Range(s \o t)
    BY <1>1, <1>2, <1>5, <1>6 DEF Range
  <1>8. QED BY <1>1, <1>4, <1>7

\* The second element is taken away.
LEMMA SecondRemoved ==
  ASSUME NEW S, NEW s \in Seq(S), Len(s) > 1
  PROVE  /\ RemoveAt(s, 2) \in Seq(S) /\ Len(RemoveAt(s, 2)) = Len(s) - 1
         /\ RemoveAt(s, 2)[1] = s[1]
         /\ \A i \in 2..Len(s) - 1 : RemoveAt(s, 2)[i] = s[i + 1]
  <1>1. RemoveAt(s, 2) = SubSeq(s, 1, 1) \o SubSeq(s, 3, Len(s))
    BY DEF RemoveAt
  <1>2. /\ SubSeq(s, 1, 1) \in Seq(S) /\ Len(SubSeq(s, 1, 1)) = 1
        /\ SubSeq(s, 1, 1)[1] = s[1]
    OBVIOUS
  <1>3. /\ SubSeq(s, 3, Len(s)) \in Seq(S) /\ Len(SubSeq(s, 3, Len(s))) = Len(s) - 2
        /\ \A i \in 1..Len(s) - 2 : SubSeq(s, 3, Len(s))[i] = s[i + 2]
    <2>1. \A i \in 3..Len(s) : s[i] \in S OBVIOUS
    <2>2. 3 \in Int /\ Len(s) \in Int OBVIOUS
    <2>3. /\ SubSeq(s, 3, Len(s)) \in Seq(S)
          /\ Len(SubSeq(s, 3, Len(s))) = IF 3 <= Len(s) THEN Len(s) - 3 + 1 ELSE 0
          /\ \A i \in 1..Len(s) - 3 + 1 : SubSeq(s, 3, Len(s))[i] = s[3 + i - 1]
      BY <2>1, <2>2, SubSeqProperties
    <2> HIDE DEF RemoveAt
    <2>4. \A i \in 1..Len(s) - 2 : i \in 1..Len(s) - 3 + 1 /\ 3 + i - 1 = i + 2 OBVIOUS
    <2> DEFINE u == SubSeq(s, 3, Len(s))
    <2>5. Len(u) = Len(s) - 2
      <3>1. Len(u) = IF 3 <= Len(s) THEN Len(s) - 3 + 1 ELSE 0
        BY <2>3
      <3> HIDE DEF u
      <3>2. Len(s) \in Nat OBVIOUS
      <3>3. CASE 3 <= Len(s)
        <4>1. Len(u) = Len(s) - 3 + 1
          BY <3>1, <3>3
        <4>2. QED BY <3>2, <4>1
      <3>4. CASE ~(3 <= Len(s))
        <4>1. Len(u) = 0
          BY <3>1, <3>4
        <4>2. Len(s) = 2
          <5>1. PICK n \in Nat : n = Len(s)
            BY <3>2
          <5>2. n > 1 /\ ~(3 <= n)
            BY <3>4, <5>1
          <5>3. n = 2
            BY <5>2
          <5>4. QED BY <5>1, <5>3
        <4>3. QED BY <4>1, <4>2
      <3>5. QED BY <3>3, <3>4
    <2>6. ASSUME NEW i \in 1..Len(s) - 2 PROVE u[i] = s[i + 2]
      <3>1. \A j \in 1..Len(s) - 3 + 1 : u[j] = s[3 + j - 1]
        BY <2>3
      <3> HIDE DEF u
      <3>2. u[i] = s[3 + i - 1]
        BY <2>4, <3>1
      <3>3. QED BY <2>4, <3>2
    <2>7. QED BY <2>3, <2>5, <2>6
  <1> DEFINE a == SubSeq(s, 1, 1)
             b == SubSeq(s, 3, Len(s))
  <1> HIDE DEF a, b
  <1>4. /\ a \o b \in Seq(S) /\ Len(a \o b) = Len(s) - 1 /\ (a \o b)[1] = s[1]
    BY <1>2, <1>3 DEF a, b
  <1>5. ASSUME NEW i \in 2..Len(s) - 1 PROVE (a \o b)[i] = s[i + 1]
    <2>1. i - 1 \in 1..Len(b) /\ Len(a) = 1 /\ a \in Seq(S) /\ b \in Seq(S)
      BY <1>2, <1>3 DEF a, b
    <2>2. (a \o b)[i] = b[i - 1]
      <3>1. i \in 1..Len(a) + Len(b) /\ ~(i <= Len(a)) /\ i - Len(a) = i - 1
        BY <2>1
      <3>2. \A j \in 1..Len(a) + Len(b) :
              (a \o b)[j] = IF j <= Len(a) THEN a[j] ELSE b[j - Len(a)]
        BY <2>1, ConcatProperties
      <3>3. QED BY <3>1, <3>2
    <2>3. b[i - 1] = s[i - 1 + 2]
      BY <1>3 DEF b
    <2>4. QED BY <2>2, <2>3
  <1>6. QED BY <1>1, <1>4, <1>5 DEF a, b

\* The part of an array that is written is what it then has.
LEMMA BeginsWith ==
  ASSUME NEW S, NEW w \in Seq(S), NEW t \in Seq(S)
  PROVE  SubSeq(w \o t, 1, Len(w)) = w
  <1>1. /\ SubSeq(w \o t, 1, Len(w)) \in Seq(S)
        /\ Len(SubSeq(w \o t, 1, Len(w))) = Len(w)
        /\ \A i \in 1..Len(w) : SubSeq(w \o t, 1, Len(w))[i] = w[i]
    OBVIOUS
  <1>2. QED BY <1>1

\* What the loops over names append.
LEMMA PickedPicks ==
  ASSUME NEW S, NEW names \in Seq(S), NEW wanted
  PROVE  /\ Picked(names, wanted) \in Seq(S)
         /\ Range(Picked(names, wanted)) = Range(names) \cap wanted
  <1> DEFINE fold == [op |-> "pick", wanted |-> wanted]
             D == DOMAIN names
             f == CHOOSE g : FoldsTo(fold, << >>, names, g, SUBSET D)
  <1>1. IsFiniteSet(D) /\ D \subseteq Nat
    BY FS_Interval
  <1>2. fold.op = "pick" /\ fold.op # "append" /\ fold.wanted = wanted OBVIOUS
  <1> HIDE DEF fold
  <1>3. FoldsTo(fold, << >>, names, f, SUBSET D)
    BY <1>1, FoldExists
  <1>4. Picked(names, wanted) = f[D]
    BY <1>2 DEF Picked, FoldLeft, MapThenFoldSet, FoldsTo, FoldStep
  <1>5. \A a, s : FoldStep(fold, a, s) = IF s \in wanted THEN Append(a, s) ELSE a
    BY <1>2 DEF FoldStep
  <1> HIDE DEF f
  <1> DEFINE Good == {s \in SUBSET D : /\ f[s] \in Seq(S)
                                       /\ Range(f[s]) = {names[i] : i \in s} \cap wanted}
  <1>6. {} \in Good
    <2>1. f[{}] = << >>
      BY <1>3 DEF FoldsTo
    <2>2. Range(<< >>) = {} /\ {names[i] : i \in {}} = {} /\ << >> \in Seq(S)
      BY DEF Range
    <2>3. QED BY <2>1, <2>2
  <1>7. ASSUME NEW s \in SUBSET D, s # {}, s \ {Max(s)} \in Good PROVE s \in Good
    <2> DEFINE t == s \ {Max(s)}
               n == names[Max(s)]
    <2>1. f[s] = IF n \in wanted THEN Append(f[t], n) ELSE f[t]
      BY <1>3, <1>5, <1>7 DEF FoldsTo
    <2>2. Max(s) \in s
      BY <1>1, <1>7, MaxIsElement, FS_Subset
    <2>3. n \in S
      BY <2>2
    <2>4. f[t] \in Seq(S) /\ Range(f[t]) = {names[i] : i \in t} \cap wanted
      BY <1>7
    <2>5. {names[i] : i \in s} = {names[i] : i \in t} \cup {n}
      BY <2>2
    <2> HIDE DEF t, n
    <2>6. Append(f[t], n) \in Seq(S) /\ Range(Append(f[t], n)) = Range(f[t]) \cup {n}
      BY <2>3, <2>4, AppendRange
    <2>7. QED BY <2>1, <2>4, <2>5, <2>6
  <1> HIDE DEF Good
  <1>8. Good \subseteq SUBSET D
    BY DEF Good
  <1>9. D \in Good
    BY <1>1, <1>3, <1>6, <1>7, <1>8, FoldKeeps
  <1>10. QED BY <1>4, <1>9 DEF Good, Range

(***************************************************************************)
(* Steps                                                                   *)
(***************************************************************************)

\* The evaluation has appended to the array of n and not decided.
Shares(v, n) == v.pc \in Late /\ v.names[1] = n /\ v.own = << >> /\ v.shared > 0

\* Those who share an array, by where they are.
LEMMA SharersShare ==
  ASSUME NEW e, NEW n
  PROVE  Sharers(e, n) = {f \in Evaluators \ {e} : Shares(eval[f], n)}
  BY DEF Sharers, Shares, Late

\* A change of the maps.
LEMMA MapsStep ==
  ASSUME DecisionInv, NEW docs, NEW users, ChangeMaps(docs, users),
         \A n \in DOMAIN docs : DocFits(docs[n]),
         users = [a \in Accounts |-> users[a]],
         \A a \in Accounts : AccountFits(users[a])
  PROVE  DecisionInv'
  <1>1. /\ docsMap' = docs /\ userMap' = users /\ eval' = eval
        /\ disturbed' = disturbed \cup Running
        /\ spare' = [n \in DOMAIN docs |->
                 IF n \in DOMAIN docsMap /\ docs[n] = docsMap[n] THEN spare[n] ELSE << >>]
        /\ \A e \in Evaluators : eval[e].pc \notin Late
    BY DEF ChangeMaps, ReadLocked, Late
  <1>2. MapsFit'
    <2>1. \A n \in DOMAIN docs : spare'[n] \in Seq(Known)
      BY <1>1 DEF DecisionInv, MapsFit
    <2>2. \A n : DocFits(n)' = DocFits(n)
      BY DEF DocFits, Known
    <2>3. \A u : AccountFits(u)' = AccountFits(u)
      BY DEF AccountFits
    <2>4. spare' = [n \in DOMAIN docs |-> spare'[n]]
      BY <1>1
    <2>5. Known' = Known
      BY DEF Known
    <2>6. QED BY <1>1, <2>1, <2>2, <2>3, <2>4, <2>5 DEF MapsFit
  <1>3. ASSUME NEW e \in Evaluators PROVE EvalFits(eval[e])'
    <2>1. EvalFits(eval[e]) /\ eval[e].pc \notin Late
      BY <1>1 DEF DecisionInv
    <2>2. eval'[e] = eval[e]
      BY <1>1
    <2>3. ArgsFit(eval[e])' = ArgsFit(eval[e])
      BY <2>2 DEF ArgsFit
    <2>4. QED BY <2>1, <2>2, <2>3 DEF EvalFits
  <1>4. ASSUME NEW e \in Evaluators \ disturbed' PROVE Knows(e)'
    <2>1. eval'[e].pc \in {"idle", "done"}
      BY <1>1 DEF Running
    <2>2. QED BY <2>1 DEF Knows, Late
  <1>5. QED BY <1>1, <1>2, <1>3, <1>4 DEF DecisionInv

\* A step of an evaluation, which may write into an array that nobody who is
\* undisturbed reads.
LEMMA EvalStep ==
  ASSUME DecisionInv, NEW e \in Evaluators, NEW next, Goes(e, next),
         spare' = [n \in DOMAIN docsMap |-> spare'[n]],
         \A n \in DOMAIN docsMap : spare'[n] \in Seq(Known) /\ Len(spare[n]) <= Len(spare'[n]),
         EvalFits(eval[e])',
         e \notin disturbed' => Knows(e)',
         disturbed \ {e} \subseteq disturbed',
         \A f \in Evaluators \ {e} :
           f \notin disturbed' /\ eval[f].pc \in Late =>
             /\ Combined(f)' = Combined(f)
             /\ Shares(eval[f], eval[f].names[1]) /\ Shares(next, eval[f].names[1])
                  => Shares(eval[e], eval[f].names[1])
  PROVE  DecisionInv'
  <1>1. /\ docsMap' = docsMap /\ userMap' = userMap
        /\ eval' = [eval EXCEPT ![e] = next]
    BY DEF Goes
  <1>2. /\ eval' = [f \in Evaluators |-> eval'[f]] /\ eval'[e] = next
        /\ \A f \in Evaluators \ {e} : eval'[f] = eval[f]
    BY <1>1 DEF DecisionInv
  <1>3. MapsFit'
    BY <1>1 DEF DecisionInv, MapsFit, DocFits, AccountFits, Known
  <1>4. ASSUME NEW f \in Evaluators PROVE EvalFits(eval[f])'
    <2>1. CASE f = e
      BY <2>1
    <2>2. CASE f # e
      <3>1. EvalFits(eval[f]) /\ eval'[f] = eval[f]
        BY <1>2, <2>2 DEF DecisionInv
      <3>2. ArgsFit(eval[f])' = ArgsFit(eval[f])
        BY <3>1 DEF ArgsFit
      <3>3. GatherFits(eval[f]) => GatherFits(eval[f])'
        <4> SUFFICES ASSUME GatherFits(eval[f]) PROVE GatherFits(eval[f])'
          OBVIOUS
        <4> DEFINE v == eval[f]
        <4>1. v.names[1] \in DOMAIN docsMap
          BY DEF GatherFits
        <4>2. v.shared \in 0..Len(spare[v.names[1]])
          BY DEF GatherFits
        <4>3. Len(spare[v.names[1]]) <= Len(spare'[v.names[1]])
          BY <4>1
        <4>4. /\ Len(spare[v.names[1]]) \in Nat /\ Len(spare'[v.names[1]]) \in Nat
          BY <4>1 DEF DecisionInv, MapsFit
        <4>5. v.shared \in 0..Len(spare'[v.names[1]])
          BY <4>2, <4>3, <4>4
        <4>6. Known' = Known
          BY DEF Known
        <4>7. QED BY <1>1, <3>1, <4>5, <4>6 DEF GatherFits
      <3>4. QED BY <3>1, <3>2, <3>3 DEF EvalFits
    <2>3. QED BY <2>1, <2>2
  <1>5. ASSUME NEW f \in Evaluators \ disturbed' PROVE Knows(f)'
    <2>1. CASE f = e
      BY <2>1
    <2>2. CASE f # e
      <3>1. Knows(f) /\ eval'[f] = eval[f] /\ f \in Evaluators \ {e}
        BY <1>2, <2>2 DEF DecisionInv
      <3>2. \A u : StatementsOf(u)' = StatementsOf(u)
        BY <1>1 DEF StatementsOf, PolicyNames
      <3>3. ToAppend(eval[f])' = ToAppend(eval[f])
        BY <1>1, <3>1 DEF ToAppend
      <3>4. ASSUME eval[f].pc \in Late PROVE Combined(f)' = Combined(f)
        BY <3>1, <3>4
      <3>5. ASSUME eval[f].pc \in Late, eval[f].own = << >>, eval[f].shared > 0,
                   Sharers(f, eval[f].names[1]) = {}
            PROVE  Sharers(f, eval[f].names[1])' = {}
        <4> DEFINE n == eval[f].names[1]
        <4>1. Shares(eval[f], n)
          BY <3>5 DEF Shares
        <4>2. Shares(next, n) => Shares(eval[e], n)
          BY <3>1, <3>5, <4>1
        <4>3. \A g \in Evaluators \ {f} : ~Shares(eval[g], n)
          BY <3>5, SharersShare
        <4>4. ~Shares(next, n)
          BY <4>2, <4>3, <3>1
        <4>5. \A g \in Evaluators \ {f} : ~Shares(eval'[g], n)
          BY <1>2, <4>3, <4>4
        <4>6. Sharers(f, eval[f].names[1])' = {g \in Evaluators \ {f} : Shares(eval'[g], n)}
          BY <3>1 DEF Sharers, Shares, Late
        <4>7. QED BY <4>5, <4>6
      <3>6. PolicyNames(userMap[eval[f].args.account])' = PolicyNames(userMap[eval[f].args.account])
        BY <1>1, <3>1 DEF PolicyNames
      <3>7. QED BY <1>1, <3>1, <3>2, <3>3, <3>4, <3>5, <3>6 DEF Knows, Late
    <2>3. QED BY <2>1, <2>2
  <1>6. QED BY <1>2, <1>3, <1>4, <1>5 DEF DecisionInv

\* A step that writes into no array.
LEMMA QuietEvalStep ==
  ASSUME DecisionInv, NEW e \in Evaluators, NEW next, Goes(e, next), spare' = spare,
         disturbed' \in {disturbed, disturbed \ {e}},
         EvalFits(eval[e])',
         e \notin disturbed' => Knows(e)',
         \A n : Shares(next, n) => Shares(eval[e], n)
  PROVE  DecisionInv'
  <1>1. /\ docsMap' = docsMap /\ eval' = [eval EXCEPT ![e] = next]
    BY DEF Goes
  <1>2. \A f \in Evaluators \ {e} : Combined(f)' = Combined(f)
    <2> SUFFICES ASSUME NEW f \in Evaluators \ {e} PROVE Combined(f)' = Combined(f)
      OBVIOUS
    <2>1. eval'[f] = eval[f]
      BY <1>1 DEF DecisionInv
    <2>2. QED BY <1>1, <2>1 DEF Combined
  <1>3. /\ spare' = [n \in DOMAIN docsMap |-> spare'[n]]
        /\ \A n \in DOMAIN docsMap : spare'[n] \in Seq(Known) /\ Len(spare[n]) <= Len(spare'[n])
    <2>1. \A n \in DOMAIN docsMap : spare[n] \in Seq(Known)
      BY DEF DecisionInv, MapsFit
    <2>2. \A n \in DOMAIN docsMap : Len(spare[n]) <= Len(spare[n])
      BY <2>1
    <2>3. QED BY <2>1, <2>2 DEF DecisionInv, MapsFit
  <1>4. disturbed \ {e} \subseteq disturbed' OBVIOUS
  <1>5. QED BY <1>2, <1>3, <1>4, EvalStep

\* A step before the last critical section, or out of it.
LEMMA EarlyStep ==
  ASSUME DecisionInv, NEW e \in Evaluators, NEW next, Goes(e, next), spare' = spare,
         disturbed' \in {disturbed, disturbed \ {e}},
         next.pc \notin Late, EvalFits(next),
         e \notin disturbed' /\ next.pc \in {"sts", "service", "names", "lookup"} => Knows(e)'
  PROVE  DecisionInv'
  <1>1. eval'[e] = next
    BY DEF Goes, DecisionInv
  <1>2. EvalFits(eval[e])'
    BY <1>1 DEF EvalFits, ArgsFit, Late
  <1>3. next.pc \in {"temp", "idle", "done"} => Knows(e)'
    BY <1>1 DEF Knows, Late
  <1>4. next.pc \in {"temp", "idle", "done", "sts", "service", "names", "lookup"}
    BY DEF EvalFits, Late, Early
  <1>5. \A n : ~Shares(next, n)
    BY DEF Shares
  <1>6. QED BY <1>2, <1>3, <1>4, <1>5, QuietEvalStep

\* An answer, and an evaluation that has not begun.
LEMMA DoneFits ==
  ASSUME NEW r, NEW a
  PROVE  /\ EvalFits([pc |-> "done", args |-> r, answer |-> a])
         /\ EvalFits(NotEvaluating)
  BY DEF EvalFits, Late, Early, NotEvaluating

\* An answer, or the end, keeps the invariant.
LEMMA AnswerStep ==
  ASSUME DecisionInv, NEW e \in Evaluators, NEW next, Goes(e, next), spare' = spare,
         disturbed' \in {disturbed, disturbed \ {e}},
         next = NotEvaluating \/ \E r, a : next = [pc |-> "done", args |-> r, answer |-> a]
  PROVE  DecisionInv'
  <1>1. EvalFits(next)
    BY DoneFits
  <1>2. next.pc \in {"idle", "done"}
    BY DEF NotEvaluating
  <1>3. QED BY <1>1, <1>2, EarlyStep DEF Late

\* Each step of an evaluation keeps the invariant: the request's arguments.
LEMMA BeginStep ==
  ASSUME DecisionInv, NEW e \in Evaluators, Begin(e)
  PROVE  DecisionInv'
  <1>1. PICK r \in Arguments :
          Goes(e, IF r.op = "IsAllowed" /\ r.owner
                  THEN [pc |-> "done", args |-> r, answer |-> TRUE]
                  ELSE [pc |-> IF r.op = "IsAllowed" THEN "temp" ELSE "names", args |-> r])
    BY DEF Begin
  <1>2. spare' = spare /\ disturbed' = disturbed \ {e}
    BY DEF Begin
  <1>3. CASE r.op = "IsAllowed" /\ r.owner
    <2>1. Goes(e, [pc |-> "done", args |-> r, answer |-> TRUE])
      BY <1>1, <1>3
    <2>2. QED BY <1>2, <2>1, AnswerStep
  <1>4. CASE ~(r.op = "IsAllowed" /\ r.owner)
    <2> DEFINE next == [pc |-> IF r.op = "IsAllowed" THEN "temp" ELSE "names", args |-> r]
    <2>1. Goes(e, next)
      BY <1>1, <1>4
    <2>2. /\ next.pc = IF r.op = "IsAllowed" THEN "temp" ELSE "names"
          /\ next.args = r /\ next = [pc |-> next.pc, args |-> next.args]
      OBVIOUS
    <2> HIDE DEF next
    <2>3. EvalFits(next)
      BY <1>4, <2>2 DEF EvalFits, ArgsFit, Early, Late
    <2>4. next.pc \notin Late
      BY <2>2 DEF Late
    <2>5. eval'[e] = next
      BY <2>1 DEF Goes, DecisionInv
    <2>6. next.pc \in {"sts", "service", "names", "lookup"} => Knows(e)'
      BY <2>2, <2>5 DEF Knows, Late
    <2>7. QED BY <1>2, <2>1, <2>3, <2>4, <2>6, EarlyStep
  <1>5. QED BY <1>3, <1>4

\* The records of the first steps.
LEMMA EarlyRecord ==
  ASSUME NEW v, v = [pc |-> v.pc, args |-> v.args], NEW pc
  PROVE  /\ [v EXCEPT !.pc = pc] = [pc |-> pc, args |-> v.args]
         /\ [v EXCEPT !.pc = pc].pc = pc /\ [v EXCEPT !.pc = pc].args = v.args
  <1>1. PICK x, y : v = [pc |-> x, args |-> y] OBVIOUS
  <1>2. v.args = y
    BY <1>1
  <1>3. [v EXCEPT !.pc = pc] = [pc |-> pc, args |-> y]
    BY <1>1
  <1>4. QED BY <1>2, <1>3

\* The step that asks whether the account is temporary keeps the invariant.
LEMMA IsTempUserStep ==
  ASSUME DecisionInv, NEW e \in Evaluators, IsTempUser(e)
  PROVE  DecisionInv'
  <1> DEFINE u == userMap[eval[e].args.account]
  <1>1. /\ eval[e].pc = "temp" /\ spare' = spare /\ disturbed' = disturbed
        /\ Goes(e, CASE u.kind = "none" -> Answer(e, FALSE)
                     [] u.kind = "temp" -> [eval[e] EXCEPT !.pc = "sts"]
                     [] OTHER           -> [eval[e] EXCEPT !.pc = "service"])
    BY DEF IsTempUser
  <1>2. EvalFits(eval[e])
    BY DEF DecisionInv
  <1>3. CASE u.kind = "none"
    <2>1. Goes(e, Answer(e, FALSE))
      BY <1>1, <1>3
    <2>2. PICK next : next = Answer(e, FALSE) OBVIOUS
    <2>3. \E r, a : next = [pc |-> "done", args |-> r, answer |-> a]
      BY <2>2 DEF Answer
    <2>4. QED BY <1>1, <2>1, <2>2, <2>3, AnswerStep
  <1>4. CASE u.kind # "none"
    <2>1. PICK pc : pc = IF u.kind = "temp" THEN "sts" ELSE "service" OBVIOUS
    <2>2. PICK next : next = [eval[e] EXCEPT !.pc = pc] OBVIOUS
    <2>3. Goes(e, next)
      BY <1>1, <1>4, <2>1, <2>2
    <2>4. next = [pc |-> pc, args |-> eval[e].args] /\ next.pc = pc /\ next.args = eval[e].args
      BY <1>1, <1>2, <2>2, EarlyRecord DEF EvalFits, Early
    <2>5. EvalFits(next) /\ next.pc \notin Late
      BY <1>1, <1>2, <2>1, <2>4 DEF EvalFits, ArgsFit, Early, Late
    <2>6. eval'[e] = next /\ userMap' = userMap
      BY <2>3 DEF Goes, DecisionInv
    <2>7. Knows(e)'
      BY <1>4, <2>1, <2>4, <2>6 DEF Knows, Late
    <2>8. QED BY <1>1, <2>3, <2>5, <2>7, EarlyStep
  <1>5. QED BY <1>3, <1>4

\* The answer to a temporary user keeps the invariant.
LEMMA IsAllowedSTSStep ==
  ASSUME DecisionInv, NEW e \in Evaluators, IsAllowedSTS(e)
  PROVE  DecisionInv'
  <1>1. PICK next : next = Answer(e, STSAllows(eval[e].args)) OBVIOUS
  <1>2. Goes(e, next) /\ spare' = spare /\ disturbed' = disturbed
    BY <1>1 DEF IsAllowedSTS
  <1>3. \E r, a : next = [pc |-> "done", args |-> r, answer |-> a]
    BY <1>1 DEF Answer
  <1>4. QED BY <1>2, <1>3, AnswerStep

\* The step that asks whether the account is a service account keeps the invariant.
LEMMA IsServiceAccountStep ==
  ASSUME DecisionInv, NEW e \in Evaluators, IsServiceAccount(e)
  PROVE  DecisionInv'
  <1> DEFINE u == userMap[eval[e].args.account]
  <1>1. /\ eval[e].pc = "service" /\ spare' = spare /\ disturbed' = disturbed
        /\ Goes(e, IF u.kind \in {"none", "service"}
                   THEN Answer(e, FALSE) ELSE [eval[e] EXCEPT !.pc = "names"])
    BY DEF IsServiceAccount
  <1>2. EvalFits(eval[e])
    BY DEF DecisionInv
  <1>3. CASE u.kind \in {"none", "service"}
    <2>1. PICK next : next = Answer(e, FALSE) OBVIOUS
    <2>2. \E r, a : next = [pc |-> "done", args |-> r, answer |-> a]
      BY <2>1 DEF Answer
    <2>3. Goes(e, next)
      BY <1>1, <1>3, <2>1
    <2>4. QED BY <1>1, <2>2, <2>3, AnswerStep
  <1>4. CASE u.kind \notin {"none", "service"}
    <2>1. PICK next : next = [eval[e] EXCEPT !.pc = "names"] OBVIOUS
    <2>2. Goes(e, next)
      BY <1>1, <1>4, <2>1
    <2>3. next = [pc |-> "names", args |-> eval[e].args] /\ next.pc = "names"
          /\ next.args = eval[e].args
      BY <1>1, <1>2, <2>1, EarlyRecord DEF EvalFits, Early
    <2>4. EvalFits(next) /\ next.pc \notin Late
      BY <1>1, <1>2, <2>3 DEF EvalFits, ArgsFit, Early, Late
    <2>5. eval'[e] = next /\ userMap' = userMap
      BY <2>2 DEF Goes, DecisionInv
    <2>6. u.kind \in {"user", "temp", "service", "none"}
      <3>1. eval[e].args.account \in Accounts
        BY <1>1, <1>2, IAMPolicyAssumption DEF EvalFits, ArgsFit
      <3>2. QED BY <3>1 DEF DecisionInv, MapsFit, AccountFits
    <2>7. ASSUME e \notin disturbed PROVE Knows(e)'
      <3>1. u.kind \notin {"none", "temp"}
        BY <1>1, <2>7 DEF DecisionInv, Knows
      <3>2. u.kind = "user"
        BY <1>4, <2>6, <3>1
      <3>3. QED BY <2>3, <2>5, <3>2 DEF Knows, Late
    <2>8. QED BY <1>1, <2>2, <2>4, <2>7, EarlyStep
  <1>5. QED BY <1>3, <1>4

\* policyDBGet gives a list.
LEMMA PolicyNamesAreSequence ==
  ASSUME NEW u, AccountFits(u)
  PROVE  IsSequence(PolicyNames(u))
  <1> DEFINE G(i) == IF u.groups[i].status = "disabled" THEN NoPolicyName ELSE u.groups[i].policy
             gs == [i \in DOMAIN u.groups |-> G(i)]
             names == <<u.policy>> \o gs
             S == {u.policy} \cup {G(i) : i \in DOMAIN u.groups}
  <1>1. PICK n \in Nat : DOMAIN u.groups = 1..n
    <2>1. u.groups \in Seq(Range(u.groups))
      BY DEF AccountFits
    <2>2. QED BY <2>1
  <1>2. gs \in Seq(S)
    <2> HIDE DEF G
    <2>1. gs \in [1..n -> S]
      BY <1>1
    <2>2. QED BY <1>1, <2>1, SeqDef
  <1>3. <<u.policy>> \in Seq(S)
    BY SMT
  <1> HIDE DEF gs, S
  <1>4. names \in Seq(S)
    BY <1>2, <1>3, ConcatProperties
  <1>5. PolicyNames(u) = IF u.status = "disabled" THEN << >>
                         ELSE Picked(names, Range(names) \ {NoPolicyName})
    BY Zenon DEF PolicyNames, gs
  <1> HIDE DEF names
  <1>6. PolicyNames(u) \in Seq(S)
    <2>1. << >> \in Seq(S)
      BY EmptySeq
    <2>2. QED BY <1>4, <1>5, <2>1, PickedPicks
  <1>7. QED BY <1>6, SequenceOf

\* Reading the names of the policies keeps the invariant.
LEMMA PolicyDBGetStep ==
  ASSUME DecisionInv, NEW e \in Evaluators, PolicyDBGet(e)
  PROVE  DecisionInv'
  <1> DEFINE r == eval[e].args
             u == userMap[r.account]
             all == PolicyNames(u)
  <1>1. /\ eval[e].pc = "names" /\ spare' = spare /\ disturbed' = disturbed
        /\ Goes(e, IF u.kind = "none" \/ all = << >> THEN Answer(e, No(r))
                   ELSE [pc |-> "lookup", args |-> r, names |-> all])
    BY DEF PolicyDBGet
  <1>2. EvalFits(eval[e])
    BY DEF DecisionInv
  <1>3. CASE u.kind = "none" \/ all = << >>
    <2>1. PICK next : next = Answer(e, No(r)) OBVIOUS
    <2>2. \E q, a : next = [pc |-> "done", args |-> q, answer |-> a]
      BY <2>1 DEF Answer
    <2>3. Goes(e, next)
      BY <1>1, <1>3, <2>1
    <2>4. QED BY <1>1, <2>2, <2>3, AnswerStep
  <1>4. CASE ~(u.kind = "none" \/ all = << >>)
    <2>1. PICK next : next = [pc |-> "lookup", args |-> r, names |-> all] OBVIOUS
    <2>2. Goes(e, next)
      BY <1>1, <1>4, <2>1
    <2>3. next.pc = "lookup" /\ next.args = r /\ next.names = all
      BY <2>1
    <2>4. IsSequence(all)
      <3>1. r.account \in Accounts
        BY <1>1, <1>2, IAMPolicyAssumption DEF EvalFits, ArgsFit
      <3>2. AccountFits(u)
        BY <3>1 DEF DecisionInv, MapsFit
      <3>3. QED BY <3>2, PolicyNamesAreSequence
    <2> HIDE DEF all
    <2>5. EvalFits(next) /\ next.pc \notin Late
      BY <1>1, <1>2, <2>3, <2>4 DEF EvalFits, ArgsFit, Early, Late
    <2>6. eval'[e] = next /\ userMap' = userMap
      BY <2>2 DEF Goes, DecisionInv
    <2>7. ASSUME e \notin disturbed PROVE Knows(e)'
      <3>1. r.op = "IsAllowed" => u.kind = "user"
        BY <1>1, <2>7 DEF DecisionInv, Knows
      <3>2. PolicyNames(u)' = all
        BY <2>3, <2>6 DEF PolicyNames, all
      <3>3. QED BY <2>3, <2>6, <3>1, <3>2 DEF Knows, Late
    <2>8. QED BY <1>1, <2>2, <2>5, <2>7, EarlyStep
  <1>5. QED BY <1>3, <1>4

\* An array of one's own that nothing was written to.
LEMMA NothingCombined ==
  ASSUME NEW s, NEW statements \in Seq(Known), s \in Seq(Known)
  PROVE  statements \o SubSeq(s, 1, 0) = statements
  <1>1. SubSeq(s, 1, 0) = << >>
    BY SubSeqEmpty
  <1>2. QED BY <1>1, ConcatEmptySeq

\* Looking up the policies of the names read keeps the invariant.
LEMMA LookupStep ==
  ASSUME DecisionInv, NEW e \in Evaluators, Lookup(e)
  PROVE  DecisionInv'
  <1> DEFINE r == eval[e].args
             u == userMap[r.account]
  <1>1. PICK names : names = Picked(eval[e].names, DOMAIN docsMap) OBVIOUS
  <1>2. /\ eval[e].pc = "lookup" /\ spare' = spare /\ disturbed' = disturbed
        /\ Goes(e, IF names = << >> THEN Answer(e, No(r))
                   ELSE [pc |-> "append", args |-> r, names |-> names, shared |-> 0,
                         own |-> << >>])
    BY <1>1 DEF Lookup
  <1>3. EvalFits(eval[e])
    BY DEF DecisionInv
  <1>4. /\ names \in Seq(DOMAIN docsMap)
        /\ Range(names) = Range(eval[e].names) \cap DOMAIN docsMap
    <2>1. IsSequence(eval[e].names)
      BY <1>2, <1>3 DEF EvalFits
    <2>2. names \in Seq(Range(eval[e].names)) /\ Range(names) = Range(eval[e].names) \cap DOMAIN docsMap
      BY <1>1, <2>1, PickedPicks DEF IsSequence
    <2>3. names \in Seq(Range(names))
      BY <2>2, SequenceOf DEF IsSequence
    <2>4. QED BY <2>2, <2>3
  <1>5. CASE names = << >>
    <2>1. PICK next : next = Answer(e, No(r)) OBVIOUS
    <2>2. \E q, a : next = [pc |-> "done", args |-> q, answer |-> a]
      BY <2>1 DEF Answer
    <2>3. Goes(e, next)
      BY <1>2, <1>5, <2>1
    <2>4. QED BY <1>2, <2>2, <2>3, AnswerStep
  <1>6. CASE names # << >>
    <2>1. PICK next : next = [pc |-> "append", args |-> r, names |-> names, shared |-> 0,
                              own |-> << >>]
      OBVIOUS
    <2>2. Goes(e, next)
      BY <1>2, <1>6, <2>1
    <2>3. /\ next.pc = "append" /\ next.args = r /\ next.names = names
          /\ next.shared = 0 /\ next.own = << >>
          /\ next = [pc |-> next.pc, args |-> next.args, names |-> next.names,
                     shared |-> next.shared, own |-> next.own]
      BY <2>1
    <2>4. eval'[e] = next /\ userMap' = userMap /\ docsMap' = docsMap
      BY <2>2 DEF Goes, DecisionInv
    <2>5. names[1] \in DOMAIN docsMap
      BY <1>4, <1>6
    <2>6. GatherFits(eval[e])'
      <3>1. spare[names[1]] \in Seq(Known) /\ Known' = Known
        BY <2>5 DEF DecisionInv, MapsFit, Known
      <3>2. 0 \in 0..Len(spare[names[1]]) /\ << >> \in Seq(Known)
        BY <3>1, EmptySeq
      <3>3. QED BY <1>2, <1>4, <1>6, <2>3, <2>4, <3>1, <3>2 DEF GatherFits
    <2>7. EvalFits(eval[e])'
      BY <1>2, <1>3, <2>3, <2>4, <2>6 DEF EvalFits, ArgsFit, Early, Late
    <2>8. ASSUME e \notin disturbed PROVE Knows(e)'
      <3>1. eval[e].names = PolicyNames(u) /\ (r.op = "IsAllowed" => u.kind = "user")
        BY <1>2, <2>8 DEF DecisionInv, Knows
      <3>2. PICK first \in DOMAIN docsMap : first = names[1]
        BY <2>5
      <3>3. Combined(e)' = docsMap[first].statements
        <4>1. Combined(e)' = docsMap[first].statements \o SubSeq(spare[first], 1, 0)
          BY <1>2, <2>3, <2>4, <3>2 DEF Combined
        <4>2. docsMap[first].statements \in Seq(Known) /\ spare[first] \in Seq(Known)
          BY DEF DecisionInv, MapsFit, DocFits
        <4>3. QED BY <4>1, <4>2, NothingCombined
      <3>4. ToAppend(eval[e])' = UNION {Range(docsMap[names[i]].statements) : i \in 2..Len(names)}
        BY <2>3, <2>4 DEF ToAppend
      <3>5. StatementsOf(u)' = UNION {Range(docsMap[n].statements) : n \in Range(names)}
        <4>1. u' = u
          BY <2>3, <2>4
        <4>2. PolicyNames(u)' = PolicyNames(u)
          BY <4>1 DEF PolicyNames
        <4>3. StatementsOf(u)' = UNION {Range(docsMap[n].statements) :
                                          n \in Range(PolicyNames(u)) \cap DOMAIN docsMap}
          BY <2>4, <4>2 DEF StatementsOf
        <4>4. QED BY <1>4, <3>1, <4>3
      <3>6. Range(names) = {first} \cup {names[i] : i \in 2..Len(names)}
        <4>1. Len(names) \in Nat \ {0} /\ DOMAIN names = 1..Len(names)
          BY <1>4, <1>6, EmptySeq
        <4>2. 1..Len(names) = {1} \cup 2..Len(names)
          BY <4>1
        <4>3. QED BY <3>2, <4>1, <4>2 DEF Range
      <3>7. Range(Combined(e)') \cup ToAppend(eval[e])' = StatementsOf(u)'
        BY <3>3, <3>4, <3>5, <3>6
      <3>8. userMap[eval[e].args.account]' = u
        BY <2>3, <2>4
      <3>9. StatementsOf(userMap[eval[e].args.account])' = StatementsOf(u)'
        BY <2>3, <2>4
      <3>10. QED BY <2>3, <2>4, <3>1, <3>7, <3>8, <3>9 DEF Knows, Late, Range
    <2>9. \A n : ~Shares(next, n)
      BY <2>3 DEF Shares
    <2>10. QED BY <1>2, <2>2, <2>7, <2>8, <2>9, QuietEvalStep
  <1>7. QED BY <1>5, <1>6

\* A name less to append.
LEMMA OneLessToAppend ==
  ASSUME NEW names \in Seq(DOMAIN docsMap), Len(names) > 1,
         NEW others, others = RemoveAt(names, 2)
  PROVE  UNION {Range(docsMap[names[i]].statements) : i \in 2..Len(names)} =
           Range(docsMap[names[2]].statements)
             \cup UNION {Range(docsMap[others[i]].statements) : i \in 2..Len(others)}
  <1> DEFINE R(n) == Range(docsMap[n].statements)
  <1>1. PICK k \in Nat : k = Len(names) OBVIOUS
  <1>2. Len(others) = k - 1 /\ \A i \in 2..k - 1 : others[i] = names[i + 1]
    BY <1>1, SecondRemoved
  <1>3. k > 1
    BY <1>1
  <1>4. {names[i] : i \in 2..k} = {names[2]} \cup {others[i] : i \in 2..k - 1}
    <2>1. \A i \in 2..k : i = 2 \/ (i - 1 \in 2..k - 1 /\ i = (i - 1) + 1)
      BY <1>3
    <2>2. \A i \in 2..k - 1 : i + 1 \in 2..k
      BY <1>3
    <2>3. 2 \in 2..k
      BY <1>3
    <2>4. ASSUME NEW i \in 2..k PROVE names[i] \in {names[2]} \cup {others[j] : j \in 2..k - 1}
      <3>1. CASE i = 2
        BY <3>1
      <3>2. CASE i - 1 \in 2..k - 1 /\ i = (i - 1) + 1
        <4>1. others[i - 1] = names[i]
          BY <1>2, <3>2
        <4>2. QED BY <3>2, <4>1
      <3>3. QED BY <2>1, <3>1, <3>2
    <2>5. ASSUME NEW i \in 2..k - 1 PROVE others[i] \in {names[j] : j \in 2..k}
      BY <1>2, <2>2
    <2>6. QED BY <2>3, <2>4, <2>5
  <1> HIDE DEF R
  <1>5. UNION {R(names[i]) : i \in 2..k} = R(names[2]) \cup UNION {R(others[i]) : i \in 2..k - 1}
    <2>1. UNION {R(names[i]) : i \in 2..k} = UNION {R(n) : n \in {names[i] : i \in 2..k}} OBVIOUS
    <2>2. UNION {R(others[i]) : i \in 2..k - 1} = UNION {R(n) : n \in {others[i] : i \in 2..k - 1}}
      OBVIOUS
    <2>3. QED BY <1>4, <2>1, <2>2
  <1>6. QED BY <1>1, <1>2, <1>5 DEF R

\* What has been combined are statements.
LEMMA CombinedFits ==
  ASSUME DecisionInv, NEW e \in Evaluators, eval[e].pc \in Late
  PROVE  /\ Combined(e) \in Seq(Known)
         /\ eval[e].own = << >> =>
              Len(Combined(e)) = Len(docsMap[eval[e].names[1]].statements) + eval[e].shared
  <1>1. GatherFits(eval[e])
    BY DEF DecisionInv, EvalFits
  <1>2. PICK n \in DOMAIN docsMap : n = eval[e].names[1]
    BY <1>1 DEF GatherFits
  <1>3. PICK k \in 0..Len(spare[n]) : k = eval[e].shared
    BY <1>1, <1>2 DEF GatherFits
  <1>4. spare[n] \in Seq(Known) /\ docsMap[n].statements \in Seq(Known)
    BY DEF DecisionInv, MapsFit, DocFits
  <1>5. SubSeq(spare[n], 1, k) \in Seq(Known) /\ Len(SubSeq(spare[n], 1, k)) = k
    BY <1>4
  <1>6. Combined(e) = IF eval[e].own # << >> THEN eval[e].own
                      ELSE docsMap[n].statements \o SubSeq(spare[n], 1, k)
    BY <1>2, <1>3 DEF Combined
  <1> DEFINE s == docsMap[n].statements
             t == SubSeq(spare[n], 1, k)
  <1> HIDE DEF s, t
  <1>7. s \o t \in Seq(Known) /\ Len(s \o t) = Len(s) + k
    <2>1. s \in Seq(Known) /\ t \in Seq(Known) /\ Len(t) = k
      BY <1>4, <1>5 DEF s, t
    <2>2. QED BY <2>1, ConcatProperties
  <1>8. eval[e].own \in Seq(Known)
    BY <1>1 DEF GatherFits
  <1>9. QED BY <1>2, <1>3, <1>6, <1>7, <1>8 DEF s, t

\* The records of the last section.
LEMMA GatherRecord ==
  ASSUME NEW v, GatherFits(v), NEW names, NEW x
  PROVE  /\ [v EXCEPT !.pc = x] =
              [pc |-> x, args |-> v.args, names |-> v.names, shared |-> v.shared, own |-> v.own]
         /\ [[v EXCEPT !.names = names] EXCEPT !.own = x] =
              [pc |-> v.pc, args |-> v.args, names |-> names, shared |-> v.shared, own |-> x]
         /\ [[v EXCEPT !.names = names] EXCEPT !.shared = x] =
              [pc |-> v.pc, args |-> v.args, names |-> names, shared |-> x, own |-> v.own]
  <1>1. PICK a, b, c, d, f :
          v = [pc |-> a, args |-> b, names |-> c, shared |-> d, own |-> f]
    BY DEF GatherFits
  <1>2. v.pc = a /\ v.args = b /\ v.names = c /\ v.shared = d /\ v.own = f
    BY <1>1
  <1>3. [v EXCEPT !.pc = x] = [pc |-> x, args |-> b, names |-> c, shared |-> d, own |-> f]
    BY <1>1
  <1>4. PICK w : w = [v EXCEPT !.names = names] OBVIOUS
  <1>5. w = [pc |-> a, args |-> b, names |-> names, shared |-> d, own |-> f]
    BY <1>1, <1>4
  <1>6. [w EXCEPT !.own = x] = [pc |-> a, args |-> b, names |-> names, shared |-> d, own |-> x]
    BY <1>5
  <1>7. [w EXCEPT !.shared = x] = [pc |-> a, args |-> b, names |-> names, shared |-> x, own |-> f]
    BY <1>5
  <1>8. QED BY <1>2, <1>3, <1>4, <1>6, <1>7

\* The end of the loop that appends keeps the invariant.
LEMMA LastAppendedStep ==
  ASSUME DecisionInv, NEW e \in Evaluators, LastAppended(e)
  PROVE  DecisionInv'
  <1>1. /\ eval[e].pc = "append" /\ Len(eval[e].names) = 1
        /\ spare' = spare /\ disturbed' = disturbed
        /\ Goes(e, [eval[e] EXCEPT !.pc = "decide"])
    BY DEF LastAppended
  <1>2. EvalFits(eval[e]) /\ GatherFits(eval[e])
    BY <1>1 DEF DecisionInv, EvalFits, Late
  <1>3. PICK next : next = [eval[e] EXCEPT !.pc = "decide"] OBVIOUS
  <1>4. PICK v : v = eval[e] OBVIOUS
  <1>5. /\ next = [pc |-> "decide", args |-> v.args, names |-> v.names,
                   shared |-> v.shared, own |-> v.own]
        /\ next.pc = "decide" /\ next.args = v.args /\ next.names = v.names
        /\ next.shared = v.shared /\ next.own = v.own
    <2>1. next = [pc |-> "decide", args |-> v.args, names |-> v.names,
                  shared |-> v.shared, own |-> v.own]
      BY <1>2, <1>3, <1>4, GatherRecord
    <2>2. QED BY <2>1
  <1>6. eval'[e] = next /\ userMap' = userMap /\ docsMap' = docsMap
        /\ eval' = [eval EXCEPT ![e] = next]
    BY <1>1, <1>3 DEF Goes, DecisionInv
  <1>7. EvalFits(eval[e])'
    <2>1. GatherFits(eval[e])'
      BY <1>1, <1>2, <1>4, <1>5, <1>6 DEF GatherFits, Known
    <2>2. QED BY <1>1, <1>2, <1>4, <1>5, <1>6, <2>1 DEF EvalFits, ArgsFit, Early, Late
  <1>8. ASSUME e \notin disturbed PROVE Knows(e)'
    <2>1. Knows(e)
      BY <1>8 DEF DecisionInv
    <2>2. Combined(e)' = Combined(e)
      BY <1>1, <1>4, <1>5, <1>6 DEF Combined
    <2>3. ToAppend(eval[e])' = ToAppend(eval[e])
      BY <1>4, <1>5, <1>6 DEF ToAppend
    <2>4. userMap[eval[e].args.account]' = userMap[eval[e].args.account]
      BY <1>4, <1>5, <1>6
    <2>5. StatementsOf(userMap[eval[e].args.account])' = StatementsOf(userMap[eval[e].args.account])
      <3>1. PolicyNames(userMap[eval[e].args.account])' = PolicyNames(userMap[eval[e].args.account])
        BY <2>4 DEF PolicyNames
      <3>2. QED BY <1>6, <3>1 DEF StatementsOf
    <2>6. Sharers(e, eval[e].names[1])' = Sharers(e, eval[e].names[1])
      <3>1. eval'[e].names[1] = eval[e].names[1]
        BY <1>4, <1>5, <1>6
      <3>2. \A f \in Evaluators \ {e} : eval'[f] = eval[f]
        BY <1>6 DEF DecisionInv
      <3>3. QED BY <3>1, <3>2 DEF Sharers
    <2>7. QED BY <1>1, <1>4, <1>5, <1>6, <2>1, <2>2, <2>3, <2>4, <2>5, <2>6 DEF Knows, Late
  <1>9. \A n : Shares(next, n) => Shares(eval[e], n)
    BY <1>1, <1>4, <1>5 DEF Shares, Late
  <1>10. QED BY <1>1, <1>3, <1>7, <1>8, <1>9, QuietEvalStep

\* The next policy is appended.
LEMMA Append1Step ==
  ASSUME DecisionInv, NEW e \in Evaluators, Append1(e)
  PROVE  DecisionInv'
  <1>1. PICK v, base, more, others :
          v = eval[e] /\ base = v.names[1] /\ more = docsMap[v.names[2]].statements
          /\ others = RemoveAt(v.names, 2)
    OBVIOUS
  <1>2. PICK first : first = Len(docsMap[base].statements) OBVIOUS
  <1>3. PICK rest : rest = [v EXCEPT !.names = others] OBVIOUS
  <1>4. /\ v.pc = "append" /\ Len(v.names) > 1
        /\ IF v.own # << >> \/ first + v.shared + Len(more) > docsMap[base].cap
           THEN /\ Goes(e, [rest EXCEPT !.own = Combined(e) \o more])
                /\ UNCHANGED <<spare, disturbed>>
           ELSE /\ spare' = [spare EXCEPT ![base] =
                        (SubSeq(spare[base], 1, v.shared) \o more)
                          \o SubSeq(@, Len(SubSeq(spare[base], 1, v.shared) \o more) + 1, Len(@))]
                /\ disturbed' = disturbed \cup
                     (IF Sharers(e, base) = {} THEN {} ELSE Sharers(e, base) \cup {e})
                /\ Goes(e, [rest EXCEPT !.shared = @ + Len(more)])
    BY <1>1, <1>2, <1>3 DEF Append1
  <1>5. EvalFits(v) /\ GatherFits(v)
    BY <1>1, <1>4 DEF DecisionInv, EvalFits, Late
  <1>6. base \in DOMAIN docsMap /\ v.names[2] \in DOMAIN docsMap
    <2>1. PICK names : names = v.names OBVIOUS
    <2>2. names \in Seq(DOMAIN docsMap) /\ Len(names) > 1
      BY <1>4, <1>5, <2>1 DEF GatherFits
    <2>3. names[1] \in DOMAIN docsMap /\ names[2] \in DOMAIN docsMap
      BY <2>2
    <2>4. QED BY <1>1, <2>1, <2>3
  <1>7. /\ more \in Seq(Known) /\ spare[base] \in Seq(Known)
        /\ docsMap[base].statements \in Seq(Known) /\ docsMap[base].cap \in Nat
    BY <1>1, <1>6 DEF DecisionInv, MapsFit, DocFits
  <1>8. /\ others \in Seq(DOMAIN docsMap) /\ Len(others) = Len(v.names) - 1
        /\ others # << >> /\ others[1] = base
    <2>1. /\ others \in Seq(DOMAIN docsMap) /\ Len(others) = Len(v.names) - 1
          /\ others[1] = base
      <3>1. PICK names : names = v.names OBVIOUS
      <3>2. names \in Seq(DOMAIN docsMap) /\ Len(names) > 1
        BY <1>4, <1>5, <3>1 DEF GatherFits
      <3>3. others = RemoveAt(names, 2) /\ base = names[1]
        BY <1>1, <3>1
      <3>4. QED BY <3>1, <3>2, <3>3, SecondRemoved
    <2>2. Len(others) > 0
      BY <1>4, <1>5, <2>1 DEF GatherFits
    <2>3. QED BY <2>1, <2>2
  <1>9. Range(more) \cup UNION {Range(docsMap[others[i]].statements) : i \in 2..Len(others)}
          = ToAppend(v)
    <2>1. PICK names : names = v.names OBVIOUS
    <2>2. names \in Seq(DOMAIN docsMap) /\ Len(names) > 1
      BY <1>4, <1>5, <2>1 DEF GatherFits
    <2>3. others = RemoveAt(names, 2) /\ more = docsMap[names[2]].statements
      BY <1>1, <2>1
    <2>4. ToAppend(v) = UNION {Range(docsMap[names[i]].statements) : i \in 2..Len(names)}
      BY <2>1 DEF ToAppend
    <2>5. others = RemoveAt(names, 2)
      BY <2>3
    <2>6. UNION {Range(docsMap[names[i]].statements) : i \in 2..Len(names)} =
            Range(docsMap[names[2]].statements)
              \cup UNION {Range(docsMap[others[i]].statements) : i \in 2..Len(others)}
      BY <2>2, <2>5, OneLessToAppend
    <2>7. QED BY <2>3, <2>4, <2>6
  <1>10. /\ Combined(e) \in Seq(Known)
         /\ v.own = << >> => Len(Combined(e)) = first + v.shared
    BY <1>1, <1>2, <1>4, CombinedFits DEF Late
  <1>11. v.shared \in Nat /\ first \in Nat /\ Len(more) \in Nat /\ v.shared <= Len(spare[base])
    <2>1. v.shared \in 0..Len(spare[base])
      BY <1>1, <1>5 DEF GatherFits
    <2>2. QED BY <1>2, <1>7, <2>1
  <1>12. Known' = Known
    BY DEF Known
  <1>13. CASE v.own # << >> \/ first + v.shared + Len(more) > docsMap[base].cap
    <2>1. PICK own : own = Combined(e) \o more OBVIOUS
    <2>2. own \in Seq(Known) /\ Range(own) = Range(Combined(e)) \cup Range(more)
          /\ Len(own) = Len(Combined(e)) + Len(more)
      BY <1>7, <1>10, <2>1, ConcatRange, ConcatProperties
    <2>3. own # << >>
      <3>1. CASE v.own # << >>
        <4>1. Combined(e) = v.own /\ Combined(e) # << >>
          BY <1>1, <3>1 DEF Combined
        <4>2. Len(Combined(e)) \in Nat \ {0}
          BY <1>10, <4>1, EmptySeq
        <4>3. Len(own) > 0
          BY <1>11, <2>2, <4>2
        <4>4. QED BY <4>3
      <3>2. CASE v.own = << >>
        <4>1. Len(own) = first + v.shared + Len(more)
          BY <1>10, <2>2, <3>2
        <4>2. Len(own) > 0
          BY <1>7, <1>11, <1>13, <3>2, <4>1
        <4>3. QED BY <4>2
      <3>3. QED BY <3>1, <3>2
    <2>4. PICK next : next = [rest EXCEPT !.own = own] OBVIOUS
    <2>5. Goes(e, next) /\ spare' = spare /\ disturbed' = disturbed
      BY <1>4, <1>13, <2>1, <2>4
    <2>6. /\ next = [pc |-> v.pc, args |-> v.args, names |-> others, shared |-> v.shared,
                     own |-> own]
          /\ next.pc = "append" /\ next.args = v.args /\ next.names = others
          /\ next.shared = v.shared /\ next.own = own
      <3>1. next = [pc |-> v.pc, args |-> v.args, names |-> others, shared |-> v.shared, own |-> own]
        BY <1>3, <1>5, <2>4, GatherRecord
      <3>2. QED BY <1>4, <3>1
    <2>7. eval'[e] = next /\ userMap' = userMap /\ docsMap' = docsMap
      BY <2>5 DEF Goes, DecisionInv
    <2>8. EvalFits(eval[e])'
      <3>1. GatherFits(eval[e])'
        BY <1>4, <1>5, <1>8, <1>1, <1>12, <2>2, <2>5, <2>6, <2>7 DEF GatherFits
      <3>2. QED BY <1>4, <1>5, <2>6, <2>7, <3>1 DEF EvalFits, ArgsFit, Early, Late
    <2>9. ASSUME e \notin disturbed PROVE Knows(e)'
      <3>1. Knows(e)
        BY <2>9 DEF DecisionInv
      <3>2. PICK u : u = userMap[v.args.account] OBVIOUS
      <3>3. u = userMap'[eval'[e].args.account]
        BY <2>6, <2>7, <3>2
      <3>4. Combined(e)' = own
        BY <2>3, <2>6, <2>7 DEF Combined
      <3>5. ToAppend(eval[e])' = UNION {Range(docsMap[others[i]].statements) : i \in 2..Len(others)}
        BY <2>6, <2>7 DEF ToAppend
      <3>6. StatementsOf(u)' = StatementsOf(u)
        BY <2>7 DEF StatementsOf, PolicyNames
      <3>7. Range(Combined(e)) \cup ToAppend(v) = StatementsOf(u)
        BY <1>1, <1>4, <3>1, <3>2 DEF Knows, Late
      <3>8. Range(own) \cup ToAppend(eval[e])' = StatementsOf(u)'
        BY <1>9, <2>2, <3>5, <3>6, <3>7
      <3>9. v.args.op = "IsAllowed" => u.kind = "user"
        BY <1>1, <1>4, <3>1, <3>2 DEF Knows, Late
      <3>10. PICK all : all = StatementsOf(u)' OBVIOUS
      <3>11. StatementsOf(userMap[eval[e].args.account])' = all
        <4>1. PolicyNames(userMap[eval[e].args.account])' = PolicyNames(u)
          BY <3>3 DEF PolicyNames
        <4>2. QED BY <2>7, <3>6, <3>10, <4>1 DEF StatementsOf
      <3>12. PICK own1, more1 : own1 = Range(own) /\ more1 = ToAppend(eval[e])' OBVIOUS
      <3>13. Range(Combined(e))' = own1
        BY <3>4, <3>12 DEF Range
      <3>14. own1 \cup more1 = all
        BY <3>8, <3>10, <3>12
      <3>15. QED BY <2>3, <2>6, <2>7, <3>3, <3>9, <3>11, <3>12, <3>13, <3>14 DEF Knows, Late
    <2>10. \A n : ~Shares(next, n)
      BY <2>3, <2>6 DEF Shares
    <2>11. QED BY <2>5, <2>8, <2>9, <2>10, QuietEvalStep
  <1>14. CASE ~(v.own # << >> \/ first + v.shared + Len(more) > docsMap[base].cap)
    <2>1. PICK written, behind : /\ written = SubSeq(spare[base], 1, v.shared) \o more
                                /\ behind = SubSeq(spare[base], Len(written) + 1, Len(spare[base]))
      OBVIOUS
    <2>2. PICK array, length : array = written \o behind /\ length = v.shared + Len(more) OBVIOUS
    <2>3. PICK next : next = [rest EXCEPT !.shared = length] OBVIOUS
    <2>4. /\ spare' = [spare EXCEPT ![base] = array]
          /\ disturbed' = disturbed \cup
               (IF Sharers(e, base) = {} THEN {} ELSE Sharers(e, base) \cup {e})
      BY <1>4, <1>14, <2>1, <2>2
    <2>5. rest.shared = v.shared
      BY <1>3, <1>5 DEF GatherFits
    <2>6. Goes(e, next)
      BY <1>4, <1>14, <2>2, <2>3, <2>5
    <2>7. /\ next = [pc |-> v.pc, args |-> v.args, names |-> others, shared |-> length,
                     own |-> v.own]
          /\ next.pc = "append" /\ next.args = v.args /\ next.names = others
          /\ next.shared = length /\ next.own = << >>
      <3>1. next = [pc |-> v.pc, args |-> v.args, names |-> others, shared |-> length, own |-> v.own]
        BY <1>3, <1>5, <2>3, GatherRecord
      <3>2. QED BY <1>4, <1>14, <3>1
    <2>8. eval'[e] = next /\ userMap' = userMap /\ docsMap' = docsMap
          /\ \A f \in Evaluators \ {e} : eval'[f] = eval[f]
      BY <2>6 DEF Goes, DecisionInv
    <2>9. written \in Seq(Known) /\ Len(written) = length /\ length \in Nat
          /\ Range(written) = Range(SubSeq(spare[base], 1, v.shared)) \cup Range(more)
      <3>1. SubSeq(spare[base], 1, v.shared) \in Seq(Known)
            /\ Len(SubSeq(spare[base], 1, v.shared)) = v.shared
        BY <1>7, <1>11
      <3>2. PICK x : x = SubSeq(spare[base], 1, v.shared) OBVIOUS
      <3>3. x \o more \in Seq(Known) /\ Len(x \o more) = v.shared + Len(more)
            /\ Range(x \o more) = Range(x) \cup Range(more)
        <4>1. x \in Seq(Known) /\ Len(x) = v.shared
          BY <3>1, <3>2
        <4>2. x \o more \in Seq(Known) /\ Len(x \o more) = Len(x) + Len(more)
          BY <1>7, <4>1, ConcatProperties
        <4>3. Range(x \o more) = Range(x) \cup Range(more)
          BY <1>7, <4>1, ConcatRange
        <4>4. QED BY <4>1, <4>2, <4>3
      <3>4. written = x \o more
        BY <2>1, <3>2
      <3>5. QED BY <1>11, <2>2, <3>2, <3>3, <3>4
    <2>10. /\ behind \in Seq(Known)
           /\ Len(behind) = IF Len(written) + 1 <= Len(spare[base])
                             THEN Len(spare[base]) - Len(written) ELSE 0
      <3>1. PICK l \in Nat : l = Len(written)
        BY <2>9
      <3>2. PICK k \in Nat : k = Len(spare[base])
        BY <1>7
      <3>3. \A i \in l + 1..k : spare[base][i] \in Known
        BY <1>7, <3>1, <3>2
      <3>4. /\ SubSeq(spare[base], l + 1, k) \in Seq(Known)
            /\ Len(SubSeq(spare[base], l + 1, k)) = IF l + 1 <= k THEN k - (l + 1) + 1 ELSE 0
        BY <3>3, SubSeqProperties
      <3>5. k - (l + 1) + 1 = k - l OBVIOUS
      <3>6. behind = SubSeq(spare[base], l + 1, k)
        BY <2>1, <3>1, <3>2
      <3>7. QED BY <3>1, <3>2, <3>4, <3>5, <3>6
    <2>11. array \in Seq(Known) /\ Len(array) = Len(written) + Len(behind)
      BY <2>2, <2>9, <2>10, ConcatProperties
    <2>12. Len(array) \in Nat /\ length <= Len(array) /\ Len(spare[base]) <= Len(array)
      <3>1. PICK k \in Nat : k = Len(spare[base])
        BY <1>7
      <3>2. PICK m : m = Len(behind) OBVIOUS
      <3>3. m = IF length + 1 <= k THEN k - length ELSE 0
        BY <2>9, <2>10, <3>1, <3>2
      <3>4. m \in Nat /\ length + m >= k
        BY <2>9, <3>3
      <3>5. Len(array) = length + m
        BY <2>9, <2>11, <3>2
      <3>6. QED BY <2>9, <3>1, <3>4, <3>5
    <2>13. /\ spare' = [n \in DOMAIN docsMap |-> spare'[n]]
           /\ \A n \in DOMAIN docsMap : spare'[n] = IF n = base THEN array ELSE spare[n]
      BY <2>4 DEF DecisionInv, MapsFit
    <2>14. ASSUME NEW n \in DOMAIN docsMap
           PROVE  spare'[n] \in Seq(Known) /\ Len(spare[n]) <= Len(spare'[n])
      <3>1. spare[n] \in Seq(Known)
        BY DEF DecisionInv, MapsFit
      <3>2. CASE n = base
        BY <2>11, <2>12, <2>13, <3>2
      <3>3. CASE n # base
        BY <2>13, <3>1, <3>3
      <3>4. QED BY <3>2, <3>3
    <2>15. EvalFits(eval[e])'
      <3>1. length \in 0..Len(spare'[base])
        BY <1>6, <2>9, <2>12, <2>13
      <3>2. GatherFits(eval[e])'
        <4>1. << >> \in Seq(Known)
          BY EmptySeq
        <4>2. QED BY <1>4, <1>8, <1>12, <1>14, <2>7, <2>8, <3>1, <4>1 DEF GatherFits
      <3>3. QED BY <1>4, <1>5, <2>7, <2>8, <3>2 DEF EvalFits, ArgsFit, Early, Late
    <2>16. ASSUME e \notin disturbed' PROVE Knows(e)'
      <3>1. e \notin disturbed /\ Sharers(e, base) = {}
        BY <2>4, <2>16
      <3>2. Knows(e)
        BY <3>1 DEF DecisionInv
      <3>3. PICK u : u = userMap[v.args.account] OBVIOUS
      <3>4. u = userMap'[eval'[e].args.account]
        BY <2>7, <2>8, <3>3
      <3>5. Combined(e)' = docsMap[base].statements \o written
        <4>1. Combined(e)' = docsMap[base].statements \o SubSeq(array, 1, length)
          BY <1>6, <1>8, <2>7, <2>8, <2>13 DEF Combined
        <4>2. SubSeq(array, 1, length) = written
          BY <2>2, <2>9, <2>10, BeginsWith
        <4>3. QED BY <4>1, <4>2
      <3>6. Combined(e) = docsMap[base].statements \o SubSeq(spare[base], 1, v.shared)
        BY <1>1, <1>14 DEF Combined
      <3>7. Range(docsMap[base].statements \o written) = Range(Combined(e)) \cup Range(more)
        <4>1. SubSeq(spare[base], 1, v.shared) \in Seq(Known)
          BY <1>7, <1>11
        <4>2. PICK x : x = SubSeq(spare[base], 1, v.shared) OBVIOUS
        <4>3. Range(Combined(e)) = Range(docsMap[base].statements) \cup Range(x)
          <5>1. x \in Seq(Known) /\ Combined(e) = docsMap[base].statements \o x
            BY <3>6, <4>1, <4>2
          <5>2. QED BY <1>7, <5>1, ConcatRange
        <4>4. Range(docsMap[base].statements \o written) = Range(docsMap[base].statements) \cup Range(written)
          BY <1>7, <2>9, ConcatRange
        <4>5. QED BY <2>9, <4>2, <4>3, <4>4
      <3>8. ToAppend(eval[e])' = UNION {Range(docsMap[others[i]].statements) : i \in 2..Len(others)}
        BY <2>7, <2>8 DEF ToAppend
      <3>9. StatementsOf(u)' = StatementsOf(u)
        BY <2>8 DEF StatementsOf, PolicyNames
      <3>10. Range(Combined(e)) \cup ToAppend(v) = StatementsOf(u)
        BY <1>1, <1>4, <3>2, <3>3 DEF Knows, Late
      <3>11. PICK all, got, left : /\ all = StatementsOf(u)' /\ left = ToAppend(eval[e])'
                                   /\ got = Range(docsMap[base].statements \o written)
        OBVIOUS
      <3>12. got \cup left = all
        BY <1>9, <3>7, <3>8, <3>9, <3>10, <3>11
      <3>13. v.args.op = "IsAllowed" => u.kind = "user"
        BY <1>1, <1>4, <3>2, <3>3 DEF Knows, Late
      <3>14. StatementsOf(userMap[eval[e].args.account])' = all
        <4>1. PolicyNames(userMap[eval[e].args.account])' = PolicyNames(u)
          BY <3>4 DEF PolicyNames
        <4>2. QED BY <2>8, <3>9, <3>11, <4>1 DEF StatementsOf
      <3>15. Range(Combined(e))' = got
        BY <3>5, <3>11 DEF Range
      <3>16. Sharers(e, base)' = {}
        BY <2>8, <3>1 DEF Sharers
      <3>17. eval'[e].names[1] = base
        BY <1>8, <2>7, <2>8
      <3>18. Sharers(e, eval[e].names[1])' = {}
        BY <3>16, <3>17 DEF Sharers
      <3>19. QED BY <2>7, <2>8, <3>4, <3>11, <3>12, <3>13, <3>14, <3>15, <3>18 DEF Knows, Late
    <2>17. disturbed \ {e} \subseteq disturbed'
      BY <2>4
    <2>18. ASSUME NEW f \in Evaluators \ {e}, f \notin disturbed', eval[f].pc \in Late
           PROVE  /\ Combined(f)' = Combined(f)
                  /\ Shares(eval[f], eval[f].names[1]) /\ Shares(next, eval[f].names[1])
                       => Shares(eval[e], eval[f].names[1])
      <3>1. ~Shares(eval[f], base)
        <4>1. f \notin Sharers(e, base)
          BY <2>4, <2>18
        <4>2. QED BY <4>1, SharersShare
      <3>2. GatherFits(eval[f])
        BY <2>18 DEF DecisionInv, EvalFits
      <3>3. PICK n \in DOMAIN docsMap : n = eval[f].names[1]
        BY <3>2 DEF GatherFits
      <3>4. Shares(next, n) => n = base
        BY <1>8, <2>7 DEF Shares
      <3>5. CASE n # base \/ eval[f].own # << >>
        <4>1. spare'[n] = spare[n] \/ eval[f].own # << >>
          BY <2>13, <3>5
        <4>2. QED BY <2>8, <3>1, <3>3, <3>4, <4>1 DEF Combined
      <3>6. CASE n = base /\ eval[f].own = << >>
        <4>1. eval[f].shared = 0
          <5>1. eval[f].shared \in 0..Len(spare[base]) /\ Len(spare[base]) \in Nat
            BY <1>7, <3>2, <3>3, <3>6 DEF GatherFits
          <5>2. ~(eval[f].shared > 0)
            BY <2>18, <3>1, <3>3, <3>6 DEF Shares
          <5>3. QED BY <5>1, <5>2
        <4>2. Combined(f) = docsMap[base].statements \o SubSeq(spare[base], 1, 0)
          BY <3>3, <3>6, <4>1 DEF Combined
        <4>3. Combined(f)' = docsMap[base].statements \o SubSeq(array, 1, 0)
          BY <1>6, <2>8, <2>13, <3>3, <3>6, <4>1 DEF Combined
        <4>4. SubSeq(spare[base], 1, 0) = << >> /\ SubSeq(array, 1, 0) = << >>
          BY SubSeqEmpty
        <4>5. ~Shares(eval[f], n)
          BY <3>1, <3>6
        <4>6. QED BY <3>3, <4>2, <4>3, <4>4, <4>5
      <3>7. QED BY <3>5, <3>6
    <2>19. QED BY <2>6, <2>13, <2>14, <2>15, <2>16, <2>17, <2>18, EvalStep
  <1>15. QED BY <1>13, <1>14

\* The decision keeps the invariant.
LEMMA DecideStep ==
  ASSUME DecisionInv, NEW e \in Evaluators, Decide(e)
  PROVE  DecisionInv'
  <1>1. PICK a : Goes(e, Answer(e, a))
    BY Zenon DEF Decide
  <1>2. PICK next : next = Answer(e, a) OBVIOUS
  <1>3. \E r, b : next = [pc |-> "done", args |-> r, answer |-> b]
    BY <1>2 DEF Answer
  <1>4. Goes(e, next) /\ spare' = spare /\ disturbed' = disturbed
    BY <1>1, <1>2 DEF Decide
  <1>5. QED BY <1>3, <1>4, AnswerStep

\* The end of an evaluation keeps the invariant.
LEMMA ReturnStep ==
  ASSUME DecisionInv, NEW e \in Evaluators, Return(e)
  PROVE  DecisionInv'
  <1>1. PICK next : next = NotEvaluating OBVIOUS
  <1>2. Goes(e, next) /\ spare' = spare /\ disturbed' = disturbed
    BY <1>1 DEF Return
  <1>3. QED BY <1>1, <1>2, AnswerStep

\* Documents that parse are of statements one knows.
LEMMA ParsedFits ==
  ASSUME NEW n \in DOMAIN PolicyDocs, NEW doc \in PolicyDocs[n], IAMParses(doc)
  PROVE  DocFits(Parsed(doc))
  <1>1. doc.statements \in Seq(Range(doc.statements))
    BY IAMPolicyAssumption
  <1>2. Range(doc.statements) \subseteq Known
    <2>1. \A s \in Range(doc.statements) : s.actions \subseteq S3Actions \cup AdminActions
      BY DEF IAMParses, IAMStatementIsValid
    <2>2. ASSUME NEW s \in Range(doc.statements) PROVE s \in Known
      <3>1. s \in UNION {Range(d.statements) : d \in PolicyDocs[n]} OBVIOUS
      <3> DEFINE D(m) == UNION {Range(d.statements) : d \in PolicyDocs[m]}
      <3>2. s \in D(n)
        BY <3>1
      <3>3. Known = {t \in (UNION {D(m) : m \in DOMAIN PolicyDocs})
                            \cup (UNION {Range(CannedDocs[m].statements) : m \in DOMAIN CannedDocs}) :
                       t.actions \subseteq S3Actions \cup AdminActions}
        BY Zenon DEF Known
      <3> HIDE DEF D
      <3>4. QED BY <2>1, <3>2, <3>3
    <2>3. QED BY <2>2
  <1>3. doc.statements \in Seq(Known)
    BY <1>1, <1>2
  <1> DEFINE all  == Range(doc.statements)
             same == {st \in all \X all : SameIAMStatement(st[1], st[2])}
             cap  == IF Len(doc.statements) > Capacity THEN Len(doc.statements) ELSE Capacity
  <1>4. Parsed(doc) = [statements |-> DropDuplicates(doc.statements, same), cap |-> cap]
    BY Zenon DEF Parsed
  <1> HIDE DEF same
  <1>5. DropDuplicates(doc.statements, same) \in Seq(Known)
    BY <1>3, DropDuplicatesDrops
  <1>6. cap \in Nat
    BY <1>1, IAMPolicyAssumption
  <1> HIDE DEF cap
  <1>7. QED BY <1>4, <1>5, <1>6 DEF DocFits

\* A policy set or replaced keeps the invariant.
LEMMA SetPolicyDocStep ==
  ASSUME DecisionInv, SetPolicyDoc
  PROVE  DecisionInv'
  <1>0. PICK n \in DOMAIN PolicyDocs : \E doc \in PolicyDocs[n] :
          /\ IAMParses(doc)
          /\ ChangeMaps([m \in DOMAIN docsMap \cup {n} |->
                           IF m = n THEN Parsed(doc) ELSE docsMap[m]], userMap)
    BY DEF SetPolicyDoc
  <1>1. PICK doc \in PolicyDocs[n] :
          /\ IAMParses(doc)
          /\ ChangeMaps([m \in DOMAIN docsMap \cup {n} |->
                           IF m = n THEN Parsed(doc) ELSE docsMap[m]], userMap)
    BY <1>0
  <1>2. PICK docs, users : docs = [m \in DOMAIN docsMap \cup {n} |->
                              IF m = n THEN Parsed(doc) ELSE docsMap[m]] /\ users = userMap
    OBVIOUS
  <1>3. ChangeMaps(docs, users)
    BY <1>1, <1>2
  <1>4. DocFits(Parsed(doc))
    BY <1>1, ParsedFits
  <1>5. \A m \in DOMAIN docs : DocFits(docs[m])
    BY <1>2, <1>4 DEF DecisionInv, MapsFit
  <1>6. users = [a \in Accounts |-> users[a]] /\ \A a \in Accounts : AccountFits(users[a])
    BY <1>2 DEF DecisionInv, MapsFit
  <1>7. QED BY <1>3, <1>5, <1>6, MapsStep

\* A change of the accounts keeps the invariant.
LEMMA SetUserMapStep ==
  ASSUME DecisionInv, SetUserMap
  PROVE  DecisionInv'
  <1>1. PICK users \in UserMaps : ChangeMaps(docsMap, users)
    BY DEF SetUserMap
  <1>2. PICK docs : docs = docsMap OBVIOUS
  <1>3. ChangeMaps(docs, users)
    BY <1>1, <1>2
  <1>4. \A m \in DOMAIN docs : DocFits(docs[m])
    BY <1>2 DEF DecisionInv, MapsFit
  <1>5. users = [a \in Accounts |-> users[a]] /\ \A a \in Accounts : AccountFits(users[a])
    BY IAMPolicyAssumption
  <1>6. QED BY <1>3, <1>4, <1>5, MapsStep

\* Taking a policy away leaves an account.
LEMMA UnmappedFits ==
  ASSUME NEW u, AccountFits(u), NEW n, NEW w,
         w = [u EXCEPT
                !.policy = IF @ = n THEN NoPolicyName ELSE @,
                !.groups = [g \in DOMAIN @ |->
                              IF @[g].policy = n THEN [@[g] EXCEPT !.policy = NoPolicyName] ELSE @[g]]]
  PROVE  AccountFits(w)
  <1>1. PICK a, b, c, d : u = [kind |-> a, status |-> b, policy |-> c, groups |-> d]
    BY DEF AccountFits
  <1>2. u.kind = a /\ u.policy = c /\ u.groups = d
    BY <1>1
  <1> DEFINE p == IF c = n THEN NoPolicyName ELSE c
             G(g) == IF d[g].policy = n THEN [d[g] EXCEPT !.policy = NoPolicyName] ELSE d[g]
             gs == [g \in DOMAIN d |-> G(g)]
  <1>3. PICK x : x = [u EXCEPT !.policy = p] OBVIOUS
  <1>4. x = [kind |-> a, status |-> b, policy |-> p, groups |-> d]
    BY <1>1, <1>3
  <1>5. w = [x EXCEPT !.groups = gs]
    BY <1>2, <1>3
  <1> HIDE DEF p, gs
  <1>6. w = [kind |-> a, status |-> b, policy |-> p, groups |-> gs]
    BY <1>4, <1>5
  <1>7. gs \in Seq(Range(gs))
    <2>1. d \in Seq(Range(d))
      BY <1>2 DEF AccountFits
    <2>2. PICK k \in Nat : DOMAIN d = 1..k
      BY <2>1
    <2>3. DOMAIN gs = 1..k /\ gs = [g \in DOMAIN gs |-> gs[g]]
      BY <2>2 DEF gs
    <2>4. gs \in [1..k -> Range(gs)]
      BY <2>3 DEF Range
    <2>5. QED BY <2>4, SeqDef
  <1>8. a = "temp" => gs = << >>
    <2>1. a = "temp" => d = << >>
      BY <1>2 DEF AccountFits
    <2>2. DOMAIN gs = DOMAIN d /\ (DOMAIN d = {} => gs = << >>)
      BY <1>7 DEF gs
    <2>3. QED BY <2>1, <2>2
  <1>9. a \in {"user", "temp", "service", "none"}
    <2>1. u.kind \in {"user", "temp", "service", "none"}
      BY Zenon DEF AccountFits
    <2>2. QED BY <1>2, <2>1, Zenon
  <1>10. w.kind = a /\ w.status = b /\ w.policy = p /\ w.groups = gs
    <2>1. PICK y : y = [kind |-> a, status |-> b, policy |-> p, groups |-> gs] OBVIOUS
    <2>2. y.kind = a /\ y.status = b /\ y.policy = p /\ y.groups = gs
      BY <2>1
    <2>3. w = y
      BY <1>6, <2>1
    <2>4. QED BY <2>2, <2>3, Zenon
  <1>11. QED BY <1>6, <1>7, <1>8, <1>9, <1>10 DEF AccountFits

\* A policy deleted, and taken from those that had it, keeps the invariant.
LEMMA DeletePolicyDocStep ==
  ASSUME DecisionInv, DeletePolicyDoc
  PROVE  DecisionInv'
  <1>1. PICK n \in DOMAIN docsMap :
          ChangeMaps([m \in DOMAIN docsMap \ {n} |-> docsMap[m]],
                     [a \in Accounts |-> [userMap[a] EXCEPT
                        !.policy = IF @ = n THEN NoPolicyName ELSE @,
                        !.groups = [g \in DOMAIN @ |->
                                      IF @[g].policy = n
                                      THEN [@[g] EXCEPT !.policy = NoPolicyName] ELSE @[g]]]])
    BY DEF DeletePolicyDoc
  <1> DEFINE W(a) == [userMap[a] EXCEPT
                        !.policy = IF @ = n THEN NoPolicyName ELSE @,
                        !.groups = [g \in DOMAIN @ |->
                                      IF @[g].policy = n
                                      THEN [@[g] EXCEPT !.policy = NoPolicyName] ELSE @[g]]]
  <1>2. PICK docs, users : docs = [m \in DOMAIN docsMap \ {n} |-> docsMap[m]]
                          /\ users = [a \in Accounts |-> W(a)]
    OBVIOUS
  <1>3. ChangeMaps(docs, users)
    BY <1>1, <1>2
  <1>4. \A m \in DOMAIN docs : DocFits(docs[m])
    BY <1>2 DEF DecisionInv, MapsFit
  <1>5. \A a \in Accounts : AccountFits(W(a))
    <2> TAKE a \in Accounts
    <2>1. AccountFits(userMap[a])
      BY DEF DecisionInv, MapsFit
    <2>2. QED BY <2>1, UnmappedFits
  <1> HIDE DEF W
  <1>6. users = [a \in Accounts |-> users[a]] /\ \A a \in Accounts : AccountFits(users[a])
    BY <1>2, <1>5
  <1>7. QED BY <1>3, <1>4, <1>6, MapsStep

\* The canned documents.
LEMMA CannedFits ==
  ASSUME NEW n \in DOMAIN CannedDocs
  PROVE  DocFits(CannedDocs[n])
  <1> DEFINE diagnostics == {<<"admin", a>> : a \in
                     {"Profiling", "ServerTrace", "ConsoleLog", "ServerInfo",
                      "TopLocksInfo", "OBDInfo"}}
             acts == {{<<"s3", "*">>}, {<<"s3", "GetBucketLocation">>, <<"s3", "GetObject">>},
                      {<<"s3", "PutObject">>}, diagnostics}
  <1>1. n \in {"readwrite", "readonly", "writeonly", "diagnostics"}
    BY DEF CannedDocs
  <1>2. PICK actions \in acts : CannedDocs[n] = Canned(actions)
    <2> HIDE DEF diagnostics
    <2>1. /\ CannedDocs["readwrite"] = Canned({<<"s3", "*">>})
          /\ CannedDocs["readonly"] = Canned({<<"s3", "GetBucketLocation">>, <<"s3", "GetObject">>})
          /\ CannedDocs["writeonly"] = Canned({<<"s3", "PutObject">>})
          /\ CannedDocs["diagnostics"] = Canned(diagnostics)
      BY DEF CannedDocs, diagnostics
    <2>2. QED BY <1>1, <2>1
  <1>3. actions \subseteq S3Actions \cup AdminActions
    <2>1. {<<"s3", "*">>} \subseteq S3Actions
      BY DEF S3Actions
    <2>2. {<<"s3", "GetBucketLocation">>, <<"s3", "GetObject">>} \subseteq S3Actions
      BY DEF S3Actions, ReadAccess
    <2>3. {<<"s3", "PutObject">>} \subseteq S3Actions
      BY DEF S3Actions, WriteAccess
    <2>4. diagnostics \subseteq AdminActions
      BY DEF AdminActions
    <2> HIDE DEF diagnostics
    <2>5. QED BY <1>2, <2>1, <2>2, <2>3, <2>4
  <1> DEFINE s == [effect |-> "Allow", actions |-> actions, resources |-> {<<"*">>}, conditions |-> {}]
  <1>4. Canned(actions) = [statements |-> <<s>>, cap |-> 1]
    BY DEF Canned
  <1>5. s.actions = actions OBVIOUS
  <1> HIDE DEF s
  <1>6. Range(<<s>>) = {s}
    BY DEF Range
  <1>7. s \in Known
    <2>1. s \in Range(CannedDocs[n].statements)
      BY <1>2, <1>4, <1>6
    <2>2. s \in UNION {Range(CannedDocs[m].statements) : m \in DOMAIN CannedDocs}
      BY <2>1
    <2>3. s.actions \subseteq S3Actions \cup AdminActions
      BY <1>3, <1>5
    <2> DEFINE X == UNION {Range(CannedDocs[m].statements) : m \in DOMAIN CannedDocs}
               Y == UNION {UNION {Range(doc.statements) : doc \in PolicyDocs[m]} :
                             m \in DOMAIN PolicyDocs}
    <2>4. Known = {t \in Y \cup X : t.actions \subseteq S3Actions \cup AdminActions}
      BY Zenon DEF Known
    <2>5. s \in X
      BY <2>2
    <2> HIDE DEF X, Y
    <2>6. QED BY <2>3, <2>4, <2>5
  <1>8. <<s>> \in Seq(Known)
    BY <1>7
  <1>9. QED BY <1>2, <1>4, <1>8 DEF DocFits

\* The initial states have the invariant.
LEMMA DecisionInitInv == IAMPolicyInit => DecisionInv
  <1> SUFFICES ASSUME IAMPolicyInit PROVE DecisionInv
    OBVIOUS
  <1> DEFINE names == DOMAIN PolicyDocs
  <1>1. PICK f : /\ \A n \in names : f[n] \in PolicyDocs[n] /\ IAMParses(f[n])
                 /\ docsMap = [n \in names \cup DOMAIN CannedDocs |->
                                 IF n \in names THEN Parsed(f[n]) ELSE CannedDocs[n]]
    BY Zenon DEF IAMPolicyInit, LoadedDocs
  <1>2. \A n \in names : DocFits(Parsed(f[n]))
    BY <1>1, ParsedFits
  <1>3. \A n \in DOMAIN docsMap : DocFits(docsMap[n])
    BY <1>1, <1>2, CannedFits
  <1>4. \A n \in DOMAIN docsMap : spare[n] \in Seq(Known)
    BY EmptySeq DEF IAMPolicyInit
  <1>5. MapsFit
    BY <1>3, <1>4, IAMPolicyAssumption DEF MapsFit, IAMPolicyInit
  <1>6. \A e \in Evaluators : eval[e] = NotEvaluating /\ eval[e].pc = "idle"
    BY DEF IAMPolicyInit, NotEvaluating
  <1>7. \A e \in Evaluators : EvalFits(eval[e])
    BY <1>6, DoneFits
  <1>8. \A e \in Evaluators : Knows(e)
    BY <1>6 DEF Knows, Late
  <1>9. QED BY <1>5, <1>7, <1>8 DEF DecisionInv, IAMPolicyInit

\* Every step keeps it.
LEMMA DecisionNextInv == DecisionInv /\ [IAMPolicyNext]_iamPolicyVars => DecisionInv'
  <1> SUFFICES ASSUME DecisionInv, [IAMPolicyNext]_iamPolicyVars PROVE DecisionInv'
    OBVIOUS
  <1>1. CASE SetPolicyDoc
    BY <1>1, SetPolicyDocStep
  <1>2. CASE DeletePolicyDoc
    BY <1>2, DeletePolicyDocStep
  <1>3. CASE SetUserMap
    BY <1>3, SetUserMapStep
  <1>4. ASSUME NEW e \in Evaluators, Evaluation(e) PROVE DecisionInv'
    BY <1>4, BeginStep, IsTempUserStep, IsAllowedSTSStep, IsServiceAccountStep, PolicyDBGetStep,
       LookupStep, Append1Step, LastAppendedStep, DecideStep, ReturnStep DEF Evaluation
  <1>5. CASE UNCHANGED iamPolicyVars
    <2>1. docsMap' = docsMap /\ userMap' = userMap /\ spare' = spare /\ eval' = eval
          /\ disturbed' = disturbed
      BY <1>5 DEF iamPolicyVars
    <2>2. MapsFit'
      BY <2>1 DEF DecisionInv, MapsFit, DocFits, AccountFits, Known
    <2>3. ASSUME NEW e \in Evaluators PROVE EvalFits(eval[e])'
      <3>1. EvalFits(eval[e])
        BY DEF DecisionInv
      <3>2. ArgsFit(eval[e])' = ArgsFit(eval[e])
        BY <2>1 DEF ArgsFit
      <3>3. GatherFits(eval[e])' = GatherFits(eval[e])
        BY <2>1 DEF GatherFits, Known
      <3>4. QED BY <2>1, <3>1, <3>2, <3>3 DEF EvalFits
    <2>4. ASSUME NEW e \in Evaluators \ disturbed PROVE Knows(e)'
      <3>1. Knows(e)
        BY DEF DecisionInv
      <3>2. Combined(e)' = Combined(e)
        BY <2>1 DEF Combined
      <3>3. PolicyNames(userMap[eval[e].args.account])' = PolicyNames(userMap[eval[e].args.account])
        BY <2>1 DEF PolicyNames
      <3>4. StatementsOf(userMap[eval[e].args.account])' = StatementsOf(userMap[eval[e].args.account])
        BY <2>1, <3>3 DEF StatementsOf
      <3>5. ToAppend(eval[e])' = ToAppend(eval[e])
        BY <2>1 DEF ToAppend
      <3>6. Sharers(e, eval[e].names[1])' = Sharers(e, eval[e].names[1])
        BY <2>1 DEF Sharers
      <3>7. QED BY <2>1, <3>1, <3>2, <3>3, <3>4, <3>5, <3>6 DEF Knows
    <2>5. QED BY <2>1, <2>2, <2>3, <2>4 DEF DecisionInv
  <1>6. QED BY <1>1, <1>2, <1>3, <1>4, <1>5 DEF IAMPolicyNext

(***************************************************************************)
(* Decisions                                                               *)
(***************************************************************************)

\* A step of the matcher, and the function it computes.
MatchStep(pattern, name, f, i, j) ==
  IF i > Len(pattern) THEN j > Len(name)
  ELSE IF pattern[i] = "*"
       THEN f[<<i + 1, j>>] \/ (j <= Len(name) /\ f[<<i, j + 1>>])
       ELSE /\ j <= Len(name)
            /\ pattern[i] \in {"?", name[j]}
            /\ f[<<i + 1, j + 1>>]

\* The places of a pattern and a name.
Places(pattern, name) == (1..Len(pattern) + 1) \X (1..Len(name) + 1)

\* f is the function that Match evaluates.
MatchesTo(pattern, name, f) ==
  f = [at \in Places(pattern, name) |-> MatchStep(pattern, name, f, at[1], at[2])]

\* Match is the function's value, where there is one.
LEMMA MatchUnfolds ==
  ASSUME NEW pattern, NEW name, NEW g, MatchesTo(pattern, name, g)
  PROVE  \E f : MatchesTo(pattern, name, f) /\ Match(pattern, name) = f[<<1, 1>>]
  <1> DEFINE f == CHOOSE f : MatchesTo(pattern, name, f)
  <1>1. MatchesTo(pattern, name, f)
    BY Zenon
  <1>2. Match(pattern, name) = f[<<1, 1>>]
    BY DEF Match, MatchesTo, MatchStep, Places
  <1>3. QED BY <1>1, <1>2

\* A step of the matcher is true or false.
LEMMA MatchStepIsTruth ==
  ASSUME NEW pattern, NEW name, NEW f, NEW i, NEW j
  PROVE  MatchStep(pattern, name, f, i, j) \in BOOLEAN
  <1>1. CASE i > Len(pattern)
    <2>1. MatchStep(pattern, name, f, i, j) = (j > Len(name))
      BY <1>1, Zenon DEF MatchStep
    <2>2. QED BY <2>1
  <1>2. CASE ~(i > Len(pattern)) /\ pattern[i] = "*"
    <2>1. MatchStep(pattern, name, f, i, j) =
            (f[<<i + 1, j>>] \/ (j <= Len(name) /\ f[<<i, j + 1>>]))
      BY <1>2, Zenon DEF MatchStep
    <2>2. QED BY <2>1, Zenon
  <1>3. CASE ~(i > Len(pattern)) /\ pattern[i] # "*"
    <2>1. MatchStep(pattern, name, f, i, j) =
            (j <= Len(name) /\ pattern[i] \in {"?", name[j]} /\ f[<<i + 1, j + 1>>])
      BY <1>3, Zenon DEF MatchStep
    <2>2. QED BY <2>1, Zenon
  <1>4. QED BY <1>1, <1>2, <1>3

\* Of two pairs, the first of which begins with a name.
LEMMA MatchOfPairs ==
  ASSUME NEW pattern, NEW name, Len(pattern) = 2, Len(name) = 2,
         pattern[1] \notin {"*", "?"}, pattern[2] # "?", Match(pattern, name)
  PROVE  pattern[1] = name[1] /\ pattern[2] \in {"*", name[2]}
  <1> DEFINE Two(j) == IF pattern[2] = "*" THEN TRUE ELSE j = 2 /\ pattern[2] = name[2]
             One(j) == j <= 2 /\ pattern[1] = name[j] /\ Two(j + 1)
             G(i, j) == IF i = 3 THEN j = 3 ELSE IF i = 2 THEN Two(j) ELSE One(j)
             g == [at \in Places(pattern, name) |-> G(at[1], at[2])]
  <1>1. Places(pattern, name) = (1..3) \X (1..3)
    BY DEF Places
  <1>2. ASSUME NEW i \in 1..3, NEW j \in 1..3
        PROVE  /\ <<i, j>> \in Places(pattern, name)
               /\ <<i, j>>[1] = i /\ <<i, j>>[2] = j
    BY <1>1
  <1>3. ASSUME NEW i \in 1..3, NEW j \in 1..3
        PROVE  g[<<i, j>>] <=> G(i, j)
    <2> HIDE DEF G
    <2>1. g[<<i, j>>] = G(i, j)
      BY <1>2
    <2>2. QED BY <2>1
  <1> HIDE DEF g
  <1>4. ASSUME NEW i \in 1..3, NEW j \in 1..3
        PROVE  MatchStep(pattern, name, g, i, j) <=> G(i, j)
    <2>1. CASE i = 3
      BY <2>1 DEF MatchStep
    <2>2. CASE i = 2
      <3>1. g[<<3, j>>] <=> j = 3
        BY <1>3
      <3>2. j # 3 => /\ g[<<2, j + 1>>] <=> G(2, j + 1)
                     /\ g[<<3, j + 1>>] <=> G(3, j + 1)
        <4> HIDE DEF G
        <4>1. QED BY <1>3
      <3>3. CASE pattern[2] = "*"
        <4>1. G(i, j)
          BY <2>2, <3>3
        <4>2. j # 3 => g[<<2, j + 1>>]
          BY <3>2, <3>3
        <4>3. MatchStep(pattern, name, g, i, j) <=>
                (g[<<3, j>>] \/ (j <= 2 /\ g[<<2, j + 1>>]))
          <5>1. i + 1 = 3 /\ ~(i > Len(pattern))
            BY <2>2
          <5>2. QED BY <2>2, <3>3, <5>1, Zenon DEF MatchStep
        <4>4. QED BY <3>1, <4>1, <4>2, <4>3
      <3>4. CASE pattern[2] # "*"
        <4>1. G(i, j) <=> (j = 2 /\ pattern[2] = name[2])
          BY <2>2, <3>4
        <4>2. j # 3 => (g[<<3, j + 1>>] <=> j = 2)
          BY <3>2
        <4>3. MatchStep(pattern, name, g, i, j) <=>
                (j <= 2 /\ pattern[2] \in {"?", name[j]} /\ g[<<3, j + 1>>])
          <5>1. i + 1 = 3 /\ ~(i > Len(pattern))
            BY <2>2
          <5>2. QED BY <2>2, <3>4, <5>1, Zenon DEF MatchStep
        <4>4. QED BY <4>1, <4>2, <4>3
      <3>5. QED
        <4> HIDE DEF G
        <4>1. QED BY <3>3, <3>4
    <2>3. CASE i = 1
      <3>1. j # 3 => (g[<<2, j + 1>>] <=> Two(j + 1))
        BY <1>3
      <3>2. MatchStep(pattern, name, g, i, j) <=>
              (j <= 2 /\ pattern[1] \in {"?", name[j]} /\ g[<<2, j + 1>>])
        <4>1. i + 1 = 2 /\ ~(i > Len(pattern))
          BY <2>3
        <4>2. QED BY <2>3, <4>1, Zenon DEF MatchStep
      <3>3. G(i, j) <=> (j <= 2 /\ pattern[1] = name[j] /\ Two(j + 1))
        <4> HIDE DEF Two
        <4>1. QED BY <2>3
      <3>4. QED
        <4> HIDE DEF G, Two
        <4>1. QED BY <3>1, <3>2, <3>3
    <2>4. QED
      <3> HIDE DEF G
      <3>1. QED BY <2>1, <2>2, <2>3
  <1>5. MatchesTo(pattern, name, g)
    <2>1. \A at \in Places(pattern, name) :
             MatchStep(pattern, name, g, at[1], at[2]) <=> G(at[1], at[2])
      <3> HIDE DEF G
      <3>1. QED BY <1>1, <1>4
    <2>2. \A at \in Places(pattern, name) :
             MatchStep(pattern, name, g, at[1], at[2]) = G(at[1], at[2])
      <3> SUFFICES ASSUME NEW at \in Places(pattern, name)
                   PROVE  MatchStep(pattern, name, g, at[1], at[2]) = G(at[1], at[2])
        OBVIOUS
      <3>1. MatchStep(pattern, name, g, at[1], at[2]) \in BOOLEAN
        BY MatchStepIsTruth
      <3>2. G(at[1], at[2]) \in BOOLEAN OBVIOUS
      <3>3. QED
        <4> HIDE DEF G
        <4>1. QED BY <2>1, <3>1, <3>2
    <2>3. QED
      <3> HIDE DEF G
      <3>1. QED BY <2>2, Zenon DEF MatchesTo, g
  <1>6. PICK f : MatchesTo(pattern, name, f) /\ f[<<1, 1>>]
    BY <1>5, MatchUnfolds
  <1>7. ASSUME NEW i \in 1..3, NEW j \in 1..3
        PROVE  f[<<i, j>>] = MatchStep(pattern, name, f, i, j)
    BY <1>2, <1>6, Zenon DEF MatchesTo
  <1>8. pattern[1] = name[1] /\ f[<<2, 2>>]
    <2>1. MatchStep(pattern, name, f, 1, 1)
      BY <1>6, <1>7
    <2>2. QED BY <2>1 DEF MatchStep
  <1>9. pattern[2] \in {"*", name[2]}
    <2>1. MatchStep(pattern, name, f, 2, 2)
      BY <1>7, <1>8
    <2>2. QED BY <2>1 DEF MatchStep
  <1>10. QED BY <1>8, <1>9

\* What an answer has to be, by the operation and the kind of the account.
LEMMA AnswerSuffices ==
  ASSUME NEW e, NEW r, NEW a, NEW u, u = userMap[r.account],
         eval'[e] = [pc |-> "done", args |-> r, answer |-> a],
         r.op = "IsAllowed" /\ r.owner => a,
         r.op = "IsAllowed" /\ ~r.owner /\ u.kind = "user" => a = PoliciesAllow(r),
         r.op = "IsAllowed" /\ ~r.owner /\ u.kind = "temp" /\ a
           => PoliciesAllow(r) \/ u.status = "disabled",
         r.op = "IsAllowed" /\ ~r.owner /\ u.kind \notin {"user", "temp"} => ~a,
         r.op # "IsAllowed" /\ u.kind = "user" =>
            \A x \in (ReadAccess \cup WriteAccess \cup OtherAccess) :
              PoliciesAllow([r EXCEPT !.action = x]) =>
                (CASE x \in ReadAccess -> "read" [] x \in WriteAccess -> "write"
                   [] OTHER -> "other") \in a
  PROVE  AnswerIsRight(e)
  <1>1. eval'[e].args = r /\ eval'[e].answer = a OBVIOUS
  <1>2. CASE r.op = "IsAllowed" /\ r.owner
    BY <1>1, <1>2 DEF AnswerIsRight
  <1>3. CASE r.op = "IsAllowed" /\ ~r.owner /\ u.kind = "user"
    BY <1>1, <1>3, Zenon DEF AnswerIsRight
  <1>4. CASE r.op = "IsAllowed" /\ ~r.owner /\ u.kind = "temp"
    BY <1>1, <1>4 DEF AnswerIsRight
  <1>5. CASE r.op = "IsAllowed" /\ ~r.owner /\ u.kind \notin {"user", "temp"}
    BY <1>1, <1>5 DEF AnswerIsRight
  <1>6. CASE r.op # "IsAllowed"
    BY <1>1, <1>6, Zenon DEF AnswerIsRight
  <1>7. QED BY <1>2, <1>3, <1>4, <1>5, <1>6

\* The statements of an account's policies decide.
Allows(statements, r) ==
  /\ \E s \in statements : s.effect = "Allow" /\ IAMStatementMatches(s, r)
  /\ \A s \in statements : ~(s.effect = "Deny" /\ IAMStatementMatches(s, r))

\* What the account's policies allow, by their statements.
LEMMA PoliciesAllowMeans ==
  ASSUME NEW r
  PROVE  PoliciesAllow(r) = Allows(StatementsOf(userMap[r.account]), r)
  <1>1. PoliciesAllow(r) <=> Allows(StatementsOf(userMap[r.account]), r)
    BY Zenon DEF PoliciesAllow, Allows, StatementsOf
  <1>2. PoliciesAllow(r) \in BOOLEAN /\ Allows(StatementsOf(userMap[r.account]), r) \in BOOLEAN
    BY Zenon DEF PoliciesAllow, Allows
  <1>3. QED BY <1>1, <1>2

\* What IsAllowed answers for those who own nothing.
LEMMA IsAllowedMeans ==
  ASSUME NEW statements, NEW r, ~r.owner
  PROVE  IAMPolicyIsAllowed(statements, r) = Allows(Range(statements), r)
  <1>1. \A s : /\ s.effect = "Allow" => (IAMStatementIsAllowed(s, r) <=> IAMStatementMatches(s, r))
               /\ s.effect = "Deny" => (IAMStatementIsAllowed(s, r) <=> ~IAMStatementMatches(s, r))
    BY DEF IAMStatementIsAllowed
  <1>2. IAMPolicyIsAllowed(statements, r) <=> Allows(Range(statements), r)
    BY <1>1, Zenon DEF IAMPolicyIsAllowed, Allows
  <1>3. IAMPolicyIsAllowed(statements, r) \in BOOLEAN /\ Allows(Range(statements), r) \in BOOLEAN
    BY Zenon DEF IAMPolicyIsAllowed, Allows
  <1>4. QED BY <1>2, <1>3

\* Nothing is allowed where there are no statements.
LEMMA NothingAllows ==
  ASSUME NEW r, StatementsOf(userMap[r.account]) = {}
  PROVE  PoliciesAllow(r) = FALSE
  BY PoliciesAllowMeans DEF Allows

\* A question about another action is about the same account.
LEMMA OtherAction ==
  ASSUME NEW r \in Arguments, NEW x
  PROVE  [r EXCEPT !.action = x].account = r.account /\ [r EXCEPT !.action = x].action = x
  BY IAMPolicyAssumption

\* An account without policies is told that it may do nothing.
LEMMA NoIsRight ==
  ASSUME NEW e, NEW r \in Arguments, r.op = "IsAllowed" => ~r.owner,
         NEW u, u = userMap[r.account],
         eval'[e] = Answer(e, No(r)), eval[e].args = r,
         StatementsOf(u) = {} \/ u.kind \notin {"user", "temp"}
  PROVE  AnswerIsRight(e)
  <1>1. PICK a : a = No(r) OBVIOUS
  <1>2. eval'[e] = [pc |-> "done", args |-> r, answer |-> a]
    BY <1>1 DEF Answer
  <1>3. r.op = "IsAllowed" => a = FALSE
    BY <1>1 DEF No
  <1>4. u.kind = "user" => PoliciesAllow(r) = FALSE
    BY NothingAllows
  <1>5. ASSUME u.kind = "user", NEW x PROVE ~PoliciesAllow([r EXCEPT !.action = x])
    <2>1. PICK q : q = [r EXCEPT !.action = x] OBVIOUS
    <2>2. q.account = r.account
      BY <2>1, OtherAction
    <2>3. PoliciesAllow(q) = FALSE
      BY <1>5, <2>2, NothingAllows
    <2>4. QED BY <2>1, <2>3
  <1>6. QED BY <1>2, <1>3, <1>4, <1>5, AnswerSuffices

\* Actions are pairs of a service and a name, and only the name may be a pattern.
LEMMA ActionsArePairs ==
  ASSUME NEW x \in S3Actions \cup AdminActions
  PROVE  /\ Len(x) = 2 /\ x = <<x[1], x[2]>>
         /\ x[1] \in {"s3", "admin"} /\ x[2] # "?"
  <1> DEFINE names == {"*", "Heal", "ServerInfo", "StorageInfo", "DataUsageInfo", "TopLocksInfo",
      "Profiling", "ServerTrace", "OBDInfo", "ConsoleLog", "KMSKeyStatus",
      "ServerUpdate", "ConfigUpdate", "CreateUser", "DeleteUser", "ListUsers",
      "EnableUser", "DisableUser", "GetUser", "AddUserToGroup",
      "RemoveUserFromGroup", "ListGroups", "EnableGroup", "DisableGroup",
      "CreatePolicy", "DeletePolicy", "GetPolicy", "AttachUserOrGroupPolicy",
      "ListUserPolicies",
      "ListMultipartUploadParts", "ListBucketMultipartUploads",
      "ListBucket", "HeadBucket", "GetObject", "GetBucketLocation",
      "AbortMultipartUpload", "CreateBucket", "PutObject",
      "DeleteObject", "DeleteBucket",
      "BypassGovernanceRetention", "PutObjectRetention",
      "GetObjectRetention", "GetObjectLegalHold", "PutObjectLegalHold",
      "GetBucketObjectLockConfiguration", "PutBucketObjectLockConfiguration",
      "ListenBucketNotification", "PutBucketLifecycle", "GetBucketLifecycle",
      "PutBucketNotification", "GetBucketNotification", "PutBucketPolicy",
      "DeleteBucketPolicy", "GetBucketPolicy", "PutEncryptionConfiguration",
      "GetEncryptionConfiguration",
      "ForceDeleteBucket", "ListAllMyBuckets",
      "GetObjectTagging", "PutObjectTagging", "DeleteObjectTagging"}
  <1>1. \E p \in {"s3", "admin"}, q \in names : x = <<p, q>>
    <2>1. CASE x \in AdminActions
      BY <2>1 DEF AdminActions
    <2>2. CASE x \in ReadAccess
      BY <2>2 DEF ReadAccess
    <2>3. CASE x \in WriteAccess
      BY <2>3 DEF WriteAccess
    <2>4. CASE x \in OtherAccess
      BY <2>4 DEF OtherAccess
    <2>5. CASE x \in {<<"s3", a>> : a \in {"*", "ForceDeleteBucket", "ListAllMyBuckets",
                      "GetObjectTagging", "PutObjectTagging", "DeleteObjectTagging"}}
      BY <2>5
    <2> HIDE DEF names
    <2>6. QED BY <2>1, <2>2, <2>3, <2>4, <2>5 DEF S3Actions
  <1>2. "?" \notin names OBVIOUS
  <1> HIDE DEF names
  <1>3. PICK p \in {"s3", "admin"}, q \in names : x = <<p, q>>
    BY <1>1
  <1>4. QED BY <1>2, <1>3

\* An action that a statement's action matches is that one, or the statement is about
\* every action.
LEMMA ActionMatches ==
  ASSUME NEW x \in S3Actions \cup AdminActions,
         NEW y \in ReadAccess \cup WriteAccess \cup OtherAccess, Match(x, y)
  PROVE  x = y \/ x = <<"s3", "*">>
  <1>1. y \in S3Actions \cup AdminActions
    BY DEF S3Actions
  <1>2. /\ Len(x) = 2 /\ x = <<x[1], x[2]>> /\ x[1] \in {"s3", "admin"} /\ x[2] # "?"
        /\ Len(y) = 2 /\ y = <<y[1], y[2]>>
    BY <1>1, ActionsArePairs
  <1>3. y[1] = "s3"
    <2>1. y \in ReadAccess \/ y \in WriteAccess \/ y \in OtherAccess OBVIOUS
    <2>2. CASE y \in ReadAccess
      BY <2>2 DEF ReadAccess
    <2>3. CASE y \in WriteAccess
      BY <2>3 DEF WriteAccess
    <2>4. CASE y \in OtherAccess
      BY <2>4 DEF OtherAccess
    <2>5. QED BY <2>1, <2>2, <2>3, <2>4
  <1>4. x[1] \notin {"*", "?"}
    BY <1>2
  <1>5. x[1] = y[1] /\ x[2] \in {"*", y[2]}
    BY <1>2, <1>4, MatchOfPairs
  <1>6. PICK a, b, c : a = x[2] /\ b = y[2] /\ c = x[1] OBVIOUS
  <1>7. x = <<"s3", a>> /\ y = <<"s3", b>> /\ a \in {"*", b}
    <2>1. c = "s3"
      BY <1>3, <1>5, <1>6
    <2>2. x = <<c, a>> /\ y = <<y[1], b>>
      BY <1>2, <1>6, Zenon
    <2>3. a \in {"*", b}
      BY <1>5, <1>6
    <2>4. QED BY <1>3, <2>1, <2>2, <2>3, Zenon
  <1>8. QED BY <1>7

\* No action is a reading and a writing one.
LEMMA AccessesDiffer == ReadAccess \cap WriteAccess = {}
  BY DEF ReadAccess, WriteAccess

\* GetAccountAccess shows what would be allowed.
LEMMA AccessIsShown ==
  ASSUME NEW statements, Range(statements) \subseteq Known, NEW q,
         NEW y \in ReadAccess \cup WriteAccess \cup OtherAccess, q.action = y,
         Allows(Range(statements), q)
  PROVE  (CASE y \in ReadAccess -> "read" [] y \in WriteAccess -> "write" [] OTHER -> "other")
           \in AccountAccess(statements)
  <1>1. PICK s \in Range(statements) : s.effect = "Allow" /\ IAMStatementMatches(s, q)
    BY DEF Allows
  <1>2. PICK x \in s.actions : Match(x, y)
    BY <1>1, Zenon DEF IAMStatementMatches
  <1>3. x \in S3Actions \cup AdminActions
    BY <1>1 DEF Known
  <1>4. x = y \/ x = <<"s3", "*">>
    BY <1>2, <1>3, ActionMatches
  <1> DEFINE actions == UNION {t.actions : t \in {t \in Range(statements) : t.effect = "Allow"}}
             Of(c) == CASE c = "read" -> ReadAccess [] c = "write" -> WriteAccess
                        [] OTHER -> OtherAccess
  <1>5. x \in actions
    BY <1>1, <1>2
  <1>6. AccountAccess(statements) =
          {c \in {"read", "write", "other"} : <<"s3", "*">> \in actions \/ actions \cap Of(c) # {}}
    BY Zenon DEF AccountAccess
  <1> HIDE DEF actions
  <1> DEFINE class == CASE y \in ReadAccess -> "read" [] y \in WriteAccess -> "write"
                        [] OTHER -> "other"
  <1>7. class \in {"read", "write", "other"} /\ y \in Of(class)
    <2>1. CASE y \in ReadAccess
      <3>1. y \notin WriteAccess
        BY <2>1, AccessesDiffer
      <3>2. class = "read"
        BY <2>1, <3>1
      <3>3. Of("read") = ReadAccess OBVIOUS
      <3> HIDE DEF class, Of
      <3>4. QED BY <2>1, <3>2, <3>3
    <2>2. CASE y \in WriteAccess
      <3>1. y \notin ReadAccess
        BY <2>2, AccessesDiffer
      <3>2. class = "write"
        BY <2>2, <3>1
      <3>3. Of("write") = WriteAccess OBVIOUS
      <3> HIDE DEF class, Of
      <3>4. QED BY <2>2, <3>2, <3>3
    <2>3. CASE y \notin ReadAccess /\ y \notin WriteAccess
      <3>1. class = "other" /\ y \in OtherAccess
        BY <2>3
      <3>2. Of("other") = OtherAccess OBVIOUS
      <3> HIDE DEF class, Of
      <3>3. QED BY <3>1, <3>2
    <2>4. QED BY <2>1, <2>2, <2>3
  <1> HIDE DEF class, Of
  <1>8. <<"s3", "*">> \in actions \/ actions \cap Of(class) # {}
    BY <1>4, <1>5, <1>7
  <1>9. class \in AccountAccess(statements)
    BY <1>6, <1>7, <1>8
  <1>10. QED BY <1>9 DEF class

\* The account of an evaluation under way.
LEMMA AccountKnown ==
  ASSUME DecisionInv, NEW e \in Evaluators, eval[e].pc \notin {"idle", "done"}
  PROVE  /\ eval[e].args \in Arguments
         /\ eval[e].args.op = "IsAllowed" => ~eval[e].args.owner
         /\ eval[e].pc \in {"temp", "sts", "service"} => eval[e].args.op = "IsAllowed"
         /\ AccountFits(userMap[eval[e].args.account])
  <1>1. ArgsFit(eval[e])
    BY DEF DecisionInv, EvalFits
  <1>2. eval[e].args.account \in Accounts
    BY <1>1, IAMPolicyAssumption DEF ArgsFit
  <1>3. QED BY <1>1, <1>2 DEF DecisionInv, MapsFit, ArgsFit

\* Each step that answers answers by the account's policies: the owner's.
LEMMA BeginIsRight ==
  ASSUME DecisionInv, NEW e \in Evaluators, Begin(e), eval'[e].pc = "done"
  PROVE  AnswerIsRight(e)
  <1>1. PICK r \in Arguments :
          Goes(e, IF r.op = "IsAllowed" /\ r.owner
                  THEN [pc |-> "done", args |-> r, answer |-> TRUE]
                  ELSE [pc |-> IF r.op = "IsAllowed" THEN "temp" ELSE "names", args |-> r])
    BY DEF Begin
  <1>2. eval'[e] = IF r.op = "IsAllowed" /\ r.owner
                   THEN [pc |-> "done", args |-> r, answer |-> TRUE]
                   ELSE [pc |-> IF r.op = "IsAllowed" THEN "temp" ELSE "names", args |-> r]
    BY <1>1 DEF Goes, DecisionInv
  <1>3. r.op = "IsAllowed" /\ r.owner
    BY <1>2
  <1>4. eval'[e] = [pc |-> "done", args |-> r, answer |-> TRUE]
    BY <1>2, <1>3
  <1>5. QED BY <1>3, <1>4, AnswerSuffices

\* No account, no access.
LEMMA IsTempUserIsRight ==
  ASSUME DecisionInv, NEW e \in Evaluators, IsTempUser(e), eval'[e].pc = "done"
  PROVE  AnswerIsRight(e)
  <1> DEFINE u == userMap[eval[e].args.account]
  <1>1. /\ eval[e].pc = "temp"
        /\ Goes(e, CASE u.kind = "none" -> Answer(e, FALSE)
                     [] u.kind = "temp" -> [eval[e] EXCEPT !.pc = "sts"]
                     [] OTHER           -> [eval[e] EXCEPT !.pc = "service"])
    BY DEF IsTempUser
  <1>2. PICK r : r = eval[e].args OBVIOUS
  <1>3. r \in Arguments /\ r.op = "IsAllowed" /\ ~r.owner
    BY <1>1, <1>2, AccountKnown
  <1>4. u.kind = "none"
    <2> SUFFICES ASSUME u.kind # "none" PROVE FALSE
      OBVIOUS
    <2>1. PICK pc \in {"sts", "service"} : Goes(e, [eval[e] EXCEPT !.pc = pc])
      BY <1>1
    <2>2. eval[e] = [pc |-> eval[e].pc, args |-> eval[e].args]
      BY <1>1 DEF DecisionInv, EvalFits, Early
    <2>3. PICK next : next = [eval[e] EXCEPT !.pc = pc] OBVIOUS
    <2>4. next.pc = pc
      BY <2>2, <2>3, EarlyRecord
    <2>5. eval'[e] = next
      BY <2>1, <2>3 DEF Goes, DecisionInv
    <2>6. QED BY <2>1, <2>4, <2>5
  <1>5. Goes(e, Answer(e, FALSE))
    BY <1>1, <1>4
  <1>6. eval'[e] = [pc |-> "done", args |-> r, answer |-> FALSE]
    BY <1>2, <1>5 DEF Goes, Answer, DecisionInv
  <1>7. PICK w : w = userMap[r.account] OBVIOUS
  <1>8. w.kind = "none"
    BY <1>2, <1>4, <1>7
  <1>9. QED BY <1>3, <1>6, <1>7, <1>8, AnswerSuffices

\* The policy that a temporary user is mapped to is the only one it has.
LEMMA TempHasOnePolicy ==
  ASSUME NEW u, AccountFits(u), u.kind = "temp", u.status # "disabled", u.policy # NoPolicyName
  PROVE  Range(PolicyNames(u)) = {u.policy}
  <1>1. u.groups = << >>
    BY Zenon DEF AccountFits
  <1> DEFINE G(i) == IF u.groups[i].status = "disabled" THEN NoPolicyName ELSE u.groups[i].policy
             gs == [i \in DOMAIN u.groups |-> G(i)]
             names == <<u.policy>> \o gs
  <1>2. gs = << >>
    <2>1. DOMAIN u.groups = {}
      BY <1>1
    <2> HIDE DEF G
    <2>2. QED BY <2>1
  <1>3. PolicyNames(u) = Picked(names, Range(names) \ {NoPolicyName})
    BY Zenon DEF PolicyNames, gs
  <1>4. PICK p : p = u.policy OBVIOUS
  <1> HIDE DEF gs
  <1>5. names = <<p>>
    <2>1. <<p>> \in Seq({p})
      BY SMT
    <2>2. names = <<p>> \o << >>
      BY <1>2, <1>4
    <2>3. QED BY <2>1, <2>2, ConcatEmptySeq
  <1> HIDE DEF names
  <1>6. names \in Seq({p}) /\ Range(names) = {p}
    <2>1. <<p>> \in Seq({p}) /\ Range(<<p>>) = {p}
      BY DEF Range
    <2>2. QED BY <1>5, <2>1
  <1>7. PICK wanted : wanted = Range(names) \ {NoPolicyName} OBVIOUS
  <1>8. Range(Picked(names, wanted)) = Range(names) \cap wanted
    BY <1>6, PickedPicks
  <1>9. QED BY <1>3, <1>4, <1>6, <1>7, <1>8

\* A temporary user is allowed nothing its policy does not allow.
LEMMA IsAllowedSTSIsRight ==
  ASSUME DecisionInv, NEW e \in Evaluators, e \notin disturbed, IsAllowedSTS(e)
  PROVE  AnswerIsRight(e)
  <1>1. PICK r, u : r = eval[e].args /\ u = userMap[r.account] OBVIOUS
  <1>2. eval[e].pc = "sts"
    BY DEF IsAllowedSTS
  <1>3. r \in Arguments /\ r.op = "IsAllowed" /\ ~r.owner /\ AccountFits(u)
    BY <1>1, <1>2, AccountKnown
  <1>4. u.kind = "temp"
    BY <1>1, <1>2 DEF DecisionInv, Knows
  <1>5. PICK a : a = STSAllows(r) OBVIOUS
  <1>6. eval'[e] = [pc |-> "done", args |-> r, answer |-> a]
    BY <1>1, <1>5 DEF IsAllowedSTS, Goes, Answer, DecisionInv
  <1>7. ASSUME a, u.status # "disabled" PROVE PoliciesAllow(r)
    <2>1. /\ u.policy # NoPolicyName /\ u.policy \in DOMAIN docsMap
          /\ IAMPolicyIsAllowed(docsMap[u.policy].statements, r)
      BY <1>1, <1>5, <1>7, Zenon DEF STSAllows
    <2>2. Range(PolicyNames(u)) = {u.policy}
      BY <1>3, <1>4, <1>7, <2>1, TempHasOnePolicy
    <2>3. StatementsOf(u) = Range(docsMap[u.policy].statements)
      BY <2>1, <2>2 DEF StatementsOf
    <2>4. Allows(Range(docsMap[u.policy].statements), r)
      BY <1>3, <2>1, IsAllowedMeans
    <2>5. QED BY <1>1, <2>3, <2>4, PoliciesAllowMeans
  <1>8. QED BY <1>1, <1>3, <1>4, <1>6, <1>7, AnswerSuffices

\* A service account is not allowed anything here.
LEMMA IsServiceAccountIsRight ==
  ASSUME DecisionInv, NEW e \in Evaluators, e \notin disturbed, IsServiceAccount(e),
         eval'[e].pc = "done"
  PROVE  AnswerIsRight(e)
  <1>1. PICK r, u : r = eval[e].args /\ u = userMap[r.account] OBVIOUS
  <1>2. /\ eval[e].pc = "service"
        /\ Goes(e, IF u.kind \in {"none", "service"}
                   THEN Answer(e, FALSE) ELSE [eval[e] EXCEPT !.pc = "names"])
    BY <1>1 DEF IsServiceAccount
  <1>3. r \in Arguments /\ r.op = "IsAllowed" /\ ~r.owner
    BY <1>1, <1>2, AccountKnown
  <1>4. u.kind \in {"none", "service"}
    <2> SUFFICES ASSUME u.kind \notin {"none", "service"} PROVE FALSE
      OBVIOUS
    <2>1. eval[e] = [pc |-> eval[e].pc, args |-> eval[e].args]
      BY <1>2 DEF DecisionInv, EvalFits, Early
    <2>2. PICK next : next = [eval[e] EXCEPT !.pc = "names"] OBVIOUS
    <2>3. next.pc = "names"
      BY <2>1, <2>2, EarlyRecord
    <2>4. eval'[e] = next
      BY <1>2, <2>2 DEF Goes, DecisionInv
    <2>5. QED BY <2>3, <2>4
  <1>5. eval'[e] = [pc |-> "done", args |-> r, answer |-> FALSE]
    BY <1>1, <1>2, <1>4 DEF Goes, Answer, DecisionInv
  <1>6. QED BY <1>1, <1>3, <1>4, <1>5, AnswerSuffices

\* No policies, no statements.
LEMMA NoNamesNoStatements ==
  ASSUME NEW u, Range(PolicyNames(u)) \cap DOMAIN docsMap = {}
  PROVE  StatementsOf(u) = {}
  BY DEF StatementsOf

\* An empty sequence has no elements.
LEMMA EmptyRange == Range(<< >>) = {}
  BY DEF Range

\* An account without names of policies is allowed nothing.
LEMMA PolicyDBGetIsRight ==
  ASSUME DecisionInv, NEW e \in Evaluators, e \notin disturbed, PolicyDBGet(e),
         eval'[e].pc = "done"
  PROVE  AnswerIsRight(e)
  <1>1. PICK r, u, all : r = eval[e].args /\ u = userMap[r.account] /\ all = PolicyNames(u) OBVIOUS
  <1>2. /\ eval[e].pc = "names"
        /\ Goes(e, IF u.kind = "none" \/ all = << >> THEN Answer(e, No(r))
                   ELSE [pc |-> "lookup", args |-> r, names |-> all])
    BY <1>1 DEF PolicyDBGet
  <1>3. r \in Arguments /\ (r.op = "IsAllowed" => ~r.owner)
    BY <1>1, <1>2, AccountKnown
  <1>4. u.kind = "none" \/ all = << >>
    <2> SUFFICES ASSUME ~(u.kind = "none" \/ all = << >>) PROVE FALSE
      OBVIOUS
    <2>1. eval'[e] = [pc |-> "lookup", args |-> r, names |-> all]
      BY <1>2 DEF Goes, DecisionInv
    <2>2. QED BY <2>1
  <1>5. eval'[e] = Answer(e, No(r))
    BY <1>2, <1>4 DEF Goes, DecisionInv
  <1>6. StatementsOf(u) = {} \/ u.kind \notin {"user", "temp"}
    BY <1>1, <1>4, EmptyRange, NoNamesNoStatements
  <1>7. QED BY <1>1, <1>3, <1>5, <1>6, NoIsRight

\* An account none of whose names is a policy's is allowed nothing.
LEMMA LookupIsRight ==
  ASSUME DecisionInv, NEW e \in Evaluators, e \notin disturbed, Lookup(e),
         eval'[e].pc = "done"
  PROVE  AnswerIsRight(e)
  <1>1. PICK r, u, names : /\ r = eval[e].args /\ u = userMap[r.account]
                           /\ names = Picked(eval[e].names, DOMAIN docsMap)
    OBVIOUS
  <1>2. /\ eval[e].pc = "lookup"
        /\ Goes(e, IF names = << >> THEN Answer(e, No(r))
                   ELSE [pc |-> "append", args |-> r, names |-> names, shared |-> 0,
                         own |-> << >>])
    BY <1>1 DEF Lookup
  <1>3. r \in Arguments /\ (r.op = "IsAllowed" => ~r.owner)
    BY <1>1, <1>2, AccountKnown
  <1>4. names = << >>
    <2> SUFFICES ASSUME names # << >> PROVE FALSE
      OBVIOUS
    <2>1. eval'[e] = [pc |-> "append", args |-> r, names |-> names, shared |-> 0, own |-> << >>]
      BY <1>2 DEF Goes, DecisionInv
    <2>2. QED BY <2>1
  <1>5. eval'[e] = Answer(e, No(r))
    BY <1>2, <1>4 DEF Goes, DecisionInv
  <1>6. StatementsOf(u) = {}
    <2>1. eval[e].names = PolicyNames(u)
      BY <1>1, <1>2 DEF DecisionInv, Knows
    <2>2. IsSequence(eval[e].names)
      BY <1>2 DEF DecisionInv, EvalFits
    <2>3. PICK all : all = eval[e].names OBVIOUS
    <2>4. all \in Seq(Range(all)) /\ names = Picked(all, DOMAIN docsMap)
      BY <1>1, <2>2, <2>3 DEF IsSequence
    <2>5. Range(names) = Range(all) \cap DOMAIN docsMap
      BY <2>4, PickedPicks
    <2>6. Range(PolicyNames(u)) \cap DOMAIN docsMap = {}
      BY <1>4, <2>1, <2>3, <2>5, EmptyRange
    <2>7. QED BY <2>6, NoNamesNoStatements
  <1>7. QED BY <1>1, <1>3, <1>5, <1>6, NoIsRight

\* The decision is by the statements gathered, and they are the account's.
LEMMA DecideIsRight ==
  ASSUME DecisionInv, NEW e \in Evaluators, e \notin disturbed, Decide(e)
  PROVE  AnswerIsRight(e)
  <1>1. PICK r, u, sts : r = eval[e].args /\ u = userMap[r.account] /\ sts = Combined(e) OBVIOUS
  <1>2. eval[e].pc = "decide" /\ eval[e].pc \in Late
    BY DEF Decide, Late
  <1>3. r \in Arguments /\ (r.op = "IsAllowed" => ~r.owner)
    BY <1>1, <1>2, AccountKnown
  <1>4. Knows(e) /\ GatherFits(eval[e])
    BY <1>2 DEF DecisionInv, EvalFits
  <1>5. ~Torn(e)
    BY <1>2, <1>4 DEF Knows, Torn
  <1>6. PICK a : /\ a = IF r.op = "IsAllowed" THEN IAMPolicyIsAllowed(sts, r)
                        ELSE AccountAccess(sts)
                 /\ eval'[e] = [pc |-> "done", args |-> r, answer |-> a]
    <2> DEFINE b == IF r.op = "IsAllowed" THEN IAMPolicyIsAllowed(sts, r) ELSE AccountAccess(sts)
    <2>1. Goes(e, Answer(e, b))
      BY <1>1, <1>5, Zenon DEF Decide
    <2> HIDE DEF b
    <2>2. eval'[e] = [pc |-> "done", args |-> r, answer |-> b]
      BY <1>1, <2>1 DEF Goes, Answer, DecisionInv
    <2>3. QED BY <2>2 DEF b
  <1>7. Range(sts) = StatementsOf(u)
    <2>1. ToAppend(eval[e]) = {}
      <3>1. Len(eval[e].names) = 1
        BY <1>2, <1>4 DEF GatherFits
      <3>2. 2..1 = {} OBVIOUS
      <3>3. QED BY <3>1, <3>2 DEF ToAppend
    <2>2. Range(Combined(e)) \cup ToAppend(eval[e]) = StatementsOf(u)
      BY <1>1, <1>2, <1>4 DEF Knows
    <2>3. QED BY <1>1, <2>1, <2>2
  <1>8. r.op = "IsAllowed" => u.kind = "user"
    BY <1>1, <1>2, <1>4 DEF Knows
  <1>9. r.op = "IsAllowed" => a = PoliciesAllow(r)
    <2>1. ASSUME r.op = "IsAllowed" PROVE a = PoliciesAllow(r)
      <3>1. a = IAMPolicyIsAllowed(sts, r)
        BY <1>6, <2>1
      <3>2. a = Allows(Range(sts), r)
        BY <1>3, <2>1, <3>1, IsAllowedMeans
      <3>3. PoliciesAllow(r) = Allows(StatementsOf(u), r)
        BY <1>1, PoliciesAllowMeans
      <3>4. QED BY <1>7, <3>2, <3>3
    <2>2. QED BY <2>1
  <1>10. Range(sts) \subseteq Known
    <2>1. sts \in Seq(Known)
      BY <1>1, <1>2, CombinedFits
    <2>2. QED BY <2>1, SequenceOf
  <1>11. ASSUME r.op # "IsAllowed", NEW y \in ReadAccess \cup WriteAccess \cup OtherAccess,
                PoliciesAllow([r EXCEPT !.action = y])
         PROVE  (CASE y \in ReadAccess -> "read" [] y \in WriteAccess -> "write"
                   [] OTHER -> "other") \in a
    <2>1. PICK q : q = [r EXCEPT !.action = y] OBVIOUS
    <2>2. q.account = r.account /\ q.action = y
      BY <1>3, <2>1, OtherAction
    <2>3. PoliciesAllow(q) = Allows(StatementsOf(userMap[q.account]), q)
      BY PoliciesAllowMeans
    <2>4. Allows(Range(sts), q)
      <3>1. PoliciesAllow(q)
        BY <1>11, <2>1
      <3>2. StatementsOf(userMap[q.account]) = Range(sts)
        BY <1>1, <1>7, <2>2
      <3>3. QED BY <2>3, <3>1, <3>2
    <2>5. a = AccountAccess(sts)
      BY <1>6, <1>11
    <2>6. QED BY <1>10, <2>2, <2>4, <2>5, AccessIsShown
  <1>12. QED BY <1>1, <1>3, <1>6, <1>8, <1>9, <1>11, AnswerSuffices

\* No step answers otherwise.
LEMMA DecisionStep ==
  ASSUME DecisionInv, [IAMPolicyNext]_iamPolicyVars, NEW e \in Evaluators,
         eval'[e].pc = "done", eval[e].pc # "done", e \notin disturbed'
  PROVE  AnswerIsRight(e)
  <1>1. PICK f \in Evaluators : Evaluation(f)
    <2>1. eval' # eval OBVIOUS
    <2>2. QED
      BY <2>1 DEF IAMPolicyNext, iamPolicyVars, SetPolicyDoc, DeletePolicyDoc, SetUserMap,
         ChangeMaps
  <1>2. f = e
    <2>1. \E next : Goes(f, next)
      BY <1>1, Zenon DEF Evaluation, Begin, IsTempUser, IsAllowedSTS, IsServiceAccount,
         PolicyDBGet, Lookup, Append1, LastAppended, Decide, Return
    <2>2. PICK next : eval' = [eval EXCEPT ![f] = next]
      BY <2>1 DEF Goes
    <2>3. f # e => eval'[e] = eval[e]
      BY <2>2 DEF DecisionInv
    <2>4. QED BY <2>3
  <1>3. \/ Begin(e) \/ IsTempUser(e) \/ IsAllowedSTS(e) \/ IsServiceAccount(e)
        \/ PolicyDBGet(e) \/ Lookup(e) \/ Append1(e) \/ LastAppended(e)
        \/ Decide(e) \/ Return(e)
    BY <1>1, <1>2 DEF Evaluation
  <1>4. CASE Begin(e)
    BY <1>4, BeginIsRight
  <1>5. CASE IsTempUser(e)
    BY <1>5, IsTempUserIsRight
  <1>6. CASE IsAllowedSTS(e)
    BY <1>6, IsAllowedSTSIsRight DEF IsAllowedSTS
  <1>7. CASE IsServiceAccount(e)
    BY <1>7, IsServiceAccountIsRight DEF IsServiceAccount
  <1>8. CASE PolicyDBGet(e)
    BY <1>8, PolicyDBGetIsRight DEF PolicyDBGet
  <1>9. CASE Lookup(e)
    BY <1>9, LookupIsRight DEF Lookup
  <1>10. CASE Decide(e)
    BY <1>10, DecideIsRight DEF Decide
  <1>11. CASE Append1(e) \/ LastAppended(e)
    <2>1. eval[e].pc = "append" /\ GatherFits(eval[e])
      BY <1>11 DEF Append1, LastAppended, DecisionInv, EvalFits, Late
    <2>2. CASE LastAppended(e)
      <3>1. PICK next : next = [eval[e] EXCEPT !.pc = "decide"] OBVIOUS
      <3>2. eval'[e] = next
        BY <2>2, <3>1 DEF LastAppended, Goes, DecisionInv
      <3>3. next.pc = "decide"
        BY <2>1, <3>1, GatherRecord
      <3>4. QED BY <3>2, <3>3
    <2>3. CASE Append1(e)
      <3>1. PICK others, own, shared :
              \/ eval'[e] = [[eval[e] EXCEPT !.names = others] EXCEPT !.own = own]
              \/ eval'[e] = [[eval[e] EXCEPT !.names = others] EXCEPT !.shared = shared]
        <4> DEFINE others == RemoveAt(eval[e].names, 2)
                   rest == [eval[e] EXCEPT !.names = others]
        <4>1. PICK own, more : \/ Goes(e, [rest EXCEPT !.own = own])
                               \/ Goes(e, [rest EXCEPT !.shared = @ + Len(more)])
          BY <2>3, Zenon DEF Append1
        <4>2. \/ eval'[e] = [rest EXCEPT !.own = own]
              \/ eval'[e] = [rest EXCEPT !.shared = rest.shared + Len(more)]
          BY <4>1 DEF Goes, DecisionInv
        <4>3. QED BY <4>2, Zenon
      <3>2. eval'[e].pc = "append"
        <4>1. PICK v : v = eval[e] OBVIOUS
        <4>2. PICK x, y : /\ x = [[v EXCEPT !.names = others] EXCEPT !.own = own]
                          /\ y = [[v EXCEPT !.names = others] EXCEPT !.shared = shared]
          OBVIOUS
        <4>3. x.pc = v.pc
          <5>1. x = [pc |-> v.pc, args |-> v.args, names |-> others, shared |-> v.shared, own |-> own]
            <6>1. GatherFits(v)
              BY <2>1, <4>1
            <6>2. QED BY <4>2, <6>1, GatherRecord
          <5>2. QED BY <5>1
        <4>4. y.pc = v.pc
          <5>1. y = [pc |-> v.pc, args |-> v.args, names |-> others, shared |-> shared, own |-> v.own]
            <6>1. GatherFits(v)
              BY <2>1, <4>1
            <6>2. QED BY <4>2, <6>1, GatherRecord
          <5>2. QED BY <5>1
        <4>5. eval'[e] = x \/ eval'[e] = y
          BY <3>1, <4>1, <4>2
        <4>6. QED BY <2>1, <4>1, <4>3, <4>4, <4>5
      <3>3. QED BY <3>2
    <2>4. QED BY <1>11, <2>2, <2>3
  <1>12. CASE Return(e)
    BY <1>12 DEF Return
  <1>13. QED BY <1>3, <1>4, <1>5, <1>6, <1>7, <1>8, <1>9, <1>10, <1>11, <1>12

\* What the evaluations know is so in every state.
THEOREM DecisionInvAlways == IAMPolicySpec => []DecisionInv
  BY DecisionInitInv, DecisionNextInv, PTL DEF IAMPolicySpec

\* Every evaluation that nothing met answers by the policies of its account.
THEOREM DecidesByOwnPoliciesAlways == IAMPolicySpec => DecidesByOwnPolicies
  <1>1. DecisionInv /\ [IAMPolicyNext]_iamPolicyVars =>
          [\A e \in Evaluators :
             (eval'[e].pc = "done" /\ eval[e].pc # "done" /\ e \notin disturbed')
               => AnswerIsRight(e)]_iamPolicyVars
    BY DecisionStep
  <1>2. QED BY <1>1, DecisionInvAlways, PTL DEF IAMPolicySpec, DecidesByOwnPolicies
=============================================================================
