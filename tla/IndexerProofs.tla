--------------------------- MODULE IndexerProofs ----------------------------
(* Proofs about the indexer, for every set of vaults, every deployment of  *)
(* the backend and every chain: no row outlives the header of its block,   *)
(* and nothing is recorded of an account that failed the account check.    *)
EXTENDS Indexer, Induction, TLAPS

-----------------------------------------------------------------------------
(* A non-empty set of naturals with an upper bound has a highest member,   *)
(* and any non-empty set of naturals a lowest.                             *)
LEMMA HighestIsMember ==
  ASSUME NEW n \in Nat, NEW S \in SUBSET (0..n), S # {}
  PROVE  Highest(S) \in S /\ \A k \in S : k <= Highest(S)
<1> DEFINE Has(T) == \E h \in T : \A k \in T : k <= h
           Upto(i) == S \cap (0..i)
           Good == {i \in 0..n : Upto(i) = {} \/ Has(Upto(i))}
<1>1. 0 \in Good
  <2>1. Upto(0) = {} \/ Upto(0) = {0}
    OBVIOUS
  <2> QED BY <2>1
<1>2. ASSUME NEW i \in 1..n, i - 1 \in Good PROVE i \in Good
  <2>1. CASE i \in S
    <3>1. i \in Upto(i) /\ \A k \in Upto(i) : k <= i
      BY <2>1
    <3> QED BY <3>1
  <2>2. CASE i \notin S
    <3>1. Upto(i) = Upto(i - 1)
      BY <2>2
    <3> QED BY <3>1, <1>2
  <2> QED BY <2>1, <2>2
<1>3. 0..n \subseteq Good
  <2>1. \A i \in 1..n : i - 1 \in Good => i \in Good
    BY <1>2
  <2> HIDE DEF Good
  <2> QED BY <1>1, <2>1, StepByStep, Zenon
<1>4. Has(S)
  <2>1. n \in Good
    <3> HIDE DEF Good
    <3> QED BY <1>3
  <2>2. Upto(n) = S
    OBVIOUS
  <2> QED BY <2>1, <2>2
<1> QED BY <1>4 DEF Highest

LEMMA LowestIsMember ==
  ASSUME NEW n \in Nat, NEW S \in SUBSET (0..n), S # {}
  PROVE  Lowest(S) \in S /\ \A k \in S : k >= Lowest(S)
<1>1. S \in SUBSET Nat
  OBVIOUS
<1>2. PICK m \in S : \A k \in S : m <= k
  BY <1>1, LeastMember
<1>3. \E j \in S : \A k \in S : k >= j
  BY <1>1, <1>2
<1> QED BY <1>3 DEF Lowest

-----------------------------------------------------------------------------
(* What a query of the archive returns                                     *)

LEMMA SeqWidens ==
  ASSUME NEW A, NEW B, A \subseteq B, NEW s \in Seq(A)
  PROVE  s \in Seq(B)
<1>1. \A i \in 1..Len(s) : s[i] \in B
  OBVIOUS
<1>2. s = [i \in 1..Len(s) |-> s[i]] /\ Len(s) \in Nat
  OBVIOUS
<1> QED BY <1>1, <1>2

(* Matching goes through the events once.                                  *)
Kept(e, v, types) == e.vault = v /\ e.type \in types

KeptOf(E, v, types) == {e \in E : Kept(e, v, types)}

Mine(E, v) == {e \in E : e.vault = v}

MatchingRun(f, s, v, types) ==
  /\ f[0] = <<>>
  /\ \A i \in 1..Len(s) :
       f[i] = IF Kept(s[i], v, types) THEN Append(f[i - 1], s[i]) ELSE f[i - 1]
  /\ Matching(s, v, types) = f[Len(s)]

LEMMA MatchingRuns ==
  ASSUME NEW E, NEW s \in Seq(E), NEW v, NEW types
  PROVE  \E f : MatchingRun(f, s, v, types)
<1> DEFINE X == Seq(E)
           n == Len(s)
           Keep(i) == s[i].vault = v /\ s[i].type \in types
           Body(f) == [i \in 0..Len(s) |->
                        IF i = 0 THEN <<>>
                        ELSE IF s[i].vault = v /\ s[i].type \in types
                             THEN Append(f[i - 1], s[i])
                             ELSE f[i - 1]]
           upTo == CHOOSE f : f = Body(f)
           G == [i \in 1..n |-> [q \in X |-> IF Keep(i) THEN Append(q, s[i]) ELSE q]]
<1>1. ASSUME NEW i \in 1..n, NEW q \in X PROVE Append(q, s[i]) \in X
  <2>1. s[i] \in E
    OBVIOUS
  <2> QED BY <2>1
<1>2. G \in [1..n -> [X -> X]]
  BY <1>1
<1>3. <<>> \in X /\ n \in Nat
  OBVIOUS
<1>4. PICK f \in [0..n -> X] :
        f[0] = <<>> /\ \A i \in 1..n : f[i] = G[i][f[i - 1]]
  <2> HIDE DEF G, X, n
  <2>1. HasSolution(n, X, <<>>, G)
    BY <1>2, <1>3, RecursionDefines, Zenon
  <2> QED BY <2>1 DEF HasSolution
<1>5. f = Body(f)
  <2>1. ASSUME NEW i \in 1..n
        PROVE  G[i][f[i - 1]] = IF Keep(i) THEN Append(f[i - 1], s[i]) ELSE f[i - 1]
    <3>1. f[i - 1] \in X
      OBVIOUS
    <3> HIDE DEF X
    <3> QED BY <3>1
  <2>2. ASSUME NEW i \in 0..Len(s) PROVE f[i] = Body(f)[i]
    <3>1. CASE i = 0
      BY <1>4, <3>1
    <3>2. CASE i # 0
      <4>1. i \in 1..n
        BY <3>2
      <4>2. f[i] = IF Keep(i) THEN Append(f[i - 1], s[i]) ELSE f[i - 1]
        <5> HIDE DEF G, n, X, Keep
        <5> QED BY <1>4, <2>1, <4>1
      <4> QED BY <3>2, <4>2
    <3> QED BY <3>1, <3>2
  <2> HIDE DEF G, X
  <2> QED BY <2>2
<1>6. upTo = Body(upTo)
  <2> HIDE DEF Body
  <2> QED BY <1>5
<1> HIDE DEF upTo
<1>7. upTo[0] = <<>>
  BY <1>3, <1>6
<1>8. ASSUME NEW i \in 1..n
      PROVE  upTo[i] = IF Keep(i) THEN Append(upTo[i - 1], s[i]) ELSE upTo[i - 1]
  <2>1. i \in 0..Len(s) /\ i # 0
    OBVIOUS
  <2>2. upTo[i] = Body(upTo)[i]
    BY <1>6
  <2> QED BY <2>1, <2>2
<1>9. Matching(s, v, types) = upTo[Len(s)]
  BY DEF Matching, upTo
<1>10. MatchingRun(upTo, s, v, types)
  BY <1>7, <1>8, <1>9 DEF MatchingRun, Kept
<1> QED BY <1>10

LEMMA MatchingOf ==
  ASSUME NEW E, NEW s \in Seq(E), NEW v, NEW types
  PROVE  Matching(s, v, types) \in Seq(KeptOf(E, v, types))
<1> DEFINE X == Seq(KeptOf(E, v, types))
           n == Len(s)
<1>1. PICK f : MatchingRun(f, s, v, types)
  BY MatchingRuns
<1>2. f[0] \in X /\ n \in Nat
  BY <1>1 DEF MatchingRun
<1>3. ASSUME NEW i \in 1..n, f[i - 1] \in X PROVE f[i] \in X
  <2>1. s[i] \in E
    OBVIOUS
  <2>2. f[i] = IF Kept(s[i], v, types) THEN Append(f[i - 1], s[i]) ELSE f[i - 1]
    BY <1>1 DEF MatchingRun
  <2>3. Kept(s[i], v, types) => s[i] \in KeptOf(E, v, types)
    BY <2>1 DEF KeptOf
  <2> QED BY <1>3, <2>2, <2>3
<1>4. f[n] \in X
  <2>1. \A i \in 1..n : f[i - 1] \in X => f[i] \in X
    BY <1>3
  <2> HIDE DEF X, n
  <2> QED BY <1>2, <2>1, RecursionStaysIn, Zenon
<1> QED BY <1>1, <1>4 DEF MatchingRun

(* Membership in a sequence.                                               *)
In(x, q) == \E j \in DOMAIN q : q[j] = x

LEMMA InAppend ==
  ASSUME NEW E, NEW q \in Seq(E), NEW x \in E
  PROVE  In(x, Append(q, x)) /\ \A y : In(y, q) => In(y, Append(q, x))
<1>1. /\ DOMAIN Append(q, x) = 1..(Len(q) + 1)
      /\ Append(q, x)[Len(q) + 1] = x
      /\ \A j \in 1..Len(q) : Append(q, x)[j] = q[j]
      /\ DOMAIN q = 1..Len(q) /\ Len(q) \in Nat
  OBVIOUS
<1> HIDE DEF In
<1>2. In(x, Append(q, x))
  BY <1>1 DEF In
<1>3. ASSUME NEW y, In(y, q) PROVE In(y, Append(q, x))
  <2>1. PICK j \in 1..Len(q) : q[j] = y
    BY <1>1, <1>3 DEF In
  <2> QED BY <1>1, <2>1 DEF In
<1> QED BY <1>2, <1>3

LEMMA InConcat ==
  ASSUME NEW E, NEW p \in Seq(E), NEW q \in Seq(E)
  PROVE  \A y : In(y, p \o q) <=> In(y, p) \/ In(y, q)
<1>1. /\ DOMAIN (p \o q) = 1..(Len(p) + Len(q))
      /\ \A j \in 1..Len(p) : (p \o q)[j] = p[j]
      /\ \A j \in 1..Len(q) : (p \o q)[Len(p) + j] = q[j]
      /\ DOMAIN p = 1..Len(p) /\ DOMAIN q = 1..Len(q)
      /\ Len(p) \in Nat /\ Len(q) \in Nat
  OBVIOUS
<1>2. ASSUME NEW y, In(y, p) PROVE In(y, p \o q)
  <2>1. PICK j \in 1..Len(p) : p[j] = y
    BY <1>1, <1>2 DEF In
  <2> QED BY <1>1, <2>1 DEF In
<1>3. ASSUME NEW y, In(y, q) PROVE In(y, p \o q)
  <2>1. PICK j \in 1..Len(q) : q[j] = y
    BY <1>1, <1>3 DEF In
  <2>2. Len(p) + j \in 1..(Len(p) + Len(q))
    BY <1>1, <2>1
  <2> QED BY <1>1, <2>1, <2>2 DEF In
<1>4. ASSUME NEW y, In(y, p \o q) PROVE In(y, p) \/ In(y, q)
  <2>1. PICK j \in 1..(Len(p) + Len(q)) : (p \o q)[j] = y
    BY <1>1, <1>4 DEF In
  <2>2. CASE j <= Len(p)
    BY <1>1, <2>1, <2>2 DEF In
  <2>3. CASE ~(j <= Len(p))
    <3>1. j - Len(p) \in 1..Len(q) /\ j = Len(p) + (j - Len(p))
      BY <1>1, <2>1, <2>3
    <3> QED BY <1>1, <2>1, <3>1 DEF In
  <2> QED BY <2>2, <2>3
<1> QED BY <1>2, <1>3, <1>4

(* Nothing that matches is left out.                                       *)
LEMMA MatchingHas ==
  ASSUME NEW E, NEW s \in Seq(E), NEW v, NEW types,
         NEW i \in DOMAIN s, Kept(s[i], v, types)
  PROVE  In(s[i], Matching(s, v, types))
<1>1. PICK f : MatchingRun(f, s, v, types)
  BY MatchingRuns
<1> DEFINE n == Len(s)
           S == {k \in 0..n : f[k] \in Seq(E) /\ (i <= k => In(s[i], f[k]))}
<1>2. n \in Nat /\ i \in 1..n
  OBVIOUS
<1>3. 0 \in S
  <2>1. f[0] \in Seq(E) /\ ~(i <= 0)
    BY <1>1, <1>2 DEF MatchingRun
  <2> QED BY <1>2, <2>1
<1>4. ASSUME NEW k \in 1..n, k - 1 \in S PROVE k \in S
  <2>1. s[k] \in E /\ f[k - 1] \in Seq(E) /\ k \in 0..n
    BY <1>2, <1>4
  <2>2. f[k] = IF Kept(s[k], v, types) THEN Append(f[k - 1], s[k]) ELSE f[k - 1]
    BY <1>1 DEF MatchingRun
  <2>3. f[k] \in Seq(E)
    BY <2>1, <2>2
  <2>4. ASSUME i <= k PROVE In(s[i], f[k])
    <3>1. CASE i = k
      BY <2>1, <2>2, <3>1, InAppend
    <3>2. CASE i # k
      <4>1. In(s[i], f[k - 1])
        BY <1>2, <1>4, <2>4, <3>2
      <4> QED BY <2>1, <2>2, <4>1, InAppend
    <3> QED BY <3>1, <3>2
  <2> QED BY <2>1, <2>3, <2>4
<1>5. n \in S
  <2>1. \A k \in 1..n : k - 1 \in S => k \in S
    BY <1>4
  <2> HIDE DEF S, n
  <2>2. 0..n \subseteq S
    BY <1>2, <1>3, <2>1, StepByStep, Zenon
  <2> QED BY <1>2, <2>2
<1> QED BY <1>1, <1>2, <1>5 DEF MatchingRun

(* ByRank concatenates the events of each type in the order of the types.  *)
ByRankRun(f, s, v) ==
  /\ f[0] = <<>>
  /\ \A r \in 1..Len(EVENT_TYPE_ORDER) :
       f[r] = f[r - 1] \o Matching(s, v, {EVENT_TYPE_ORDER[r]})
  /\ ByRank(s, v) = f[Len(EVENT_TYPE_ORDER)]

LEMMA ByRankRuns ==
  ASSUME NEW E, NEW s \in Seq(E), NEW v
  PROVE  \E f : ByRankRun(f, s, v)
<1> DEFINE X == Seq(E)
           n == Len(EVENT_TYPE_ORDER)
           Part(r) == Matching(s, v, {EVENT_TYPE_ORDER[r]})
           Body(f) == [r \in 0..Len(EVENT_TYPE_ORDER) |->
                        IF r = 0 THEN <<>>
                        ELSE f[r - 1] \o Matching(s, v, {EVENT_TYPE_ORDER[r]})]
           upTo == CHOOSE f : f = Body(f)
           G == [r \in 1..n |-> [q \in X |-> q \o Part(r)]]
<1>1. ASSUME NEW r \in 1..n, NEW q \in X PROVE q \o Part(r) \in X
  <2>1. Part(r) \in Seq(KeptOf(E, v, {EVENT_TYPE_ORDER[r]}))
    BY MatchingOf
  <2>2. Part(r) \in X
    <3>1. KeptOf(E, v, {EVENT_TYPE_ORDER[r]}) \subseteq E
      BY DEF KeptOf
    <3> HIDE DEF Part
    <3> QED BY <2>1, <3>1, SeqWidens
  <2> HIDE DEF Part
  <2> QED BY <2>2
<1>2. <<>> \in X /\ n \in Nat
  BY DEF EVENT_TYPE_ORDER
<1> HIDE DEF n, Part
<1>3. G \in [1..n -> [X -> X]]
  <2> HIDE DEF X
  <2> QED BY <1>1
<1> HIDE DEF X
<1>4. PICK f \in [0..n -> X] :
        f[0] = <<>> /\ \A i \in 1..n : f[i] = G[i][f[i - 1]]
  <2> HIDE DEF G
  <2>1. HasSolution(n, X, <<>>, G)
    BY <1>2, <1>3, RecursionDefines, Zenon
  <2> QED BY <2>1 DEF HasSolution
<1>5. f = Body(f)
  <2>1. ASSUME NEW r \in 0..n PROVE f[r] = Body(f)[r]
    <3>1. CASE r = 0
      BY <1>4, <3>1 DEF n
    <3>2. CASE r # 0
      <4>1. r \in 1..n /\ r - 1 \in 0..n
        BY <1>2, <3>2
      <4>2. f[r] = f[r - 1] \o Part(r)
        BY <1>4, <4>1
      <4> QED BY <3>2, <4>2 DEF Part, n
    <3> QED BY <3>1, <3>2
  <2> HIDE DEF G
  <2> QED BY <2>1 DEF n
<1>6. upTo = Body(upTo)
  <2> HIDE DEF Body
  <2> QED BY <1>5
<1> HIDE DEF upTo
<1>7. upTo[0] = <<>>
  BY <1>2, <1>6 DEF n
<1>8. ASSUME NEW r \in 1..n PROVE upTo[r] = upTo[r - 1] \o Part(r)
  <2>1. r \in 0..n /\ r # 0
    BY <1>2
  <2>2. upTo[r] = Body(upTo)[r]
    BY <1>6
  <2> QED BY <2>1, <2>2 DEF Part, n
<1>9. ByRank(s, v) = upTo[n]
  BY DEF ByRank, upTo, n
<1>10. ByRankRun(upTo, s, v)
  BY <1>7, <1>8, <1>9 DEF ByRankRun, Part, n
<1> QED BY <1>10

LEMMA ByRankOf ==
  ASSUME NEW E, NEW s \in Seq(E), NEW v
  PROVE  ByRank(s, v) \in Seq(Mine(E, v))
<1> DEFINE X == Seq(Mine(E, v))
           n == Len(EVENT_TYPE_ORDER)
<1>1. PICK f : ByRankRun(f, s, v)
  BY ByRankRuns
<1>2. f[0] \in X /\ n \in Nat
  BY <1>1 DEF ByRankRun, EVENT_TYPE_ORDER
<1>3. ASSUME NEW r \in 1..n, f[r - 1] \in X PROVE f[r] \in X
  <2> DEFINE part == Matching(s, v, {EVENT_TYPE_ORDER[r]})
  <2>1. part \in Seq(KeptOf(E, v, {EVENT_TYPE_ORDER[r]}))
    BY MatchingOf
  <2>2. f[r] = f[r - 1] \o part
    BY <1>1 DEF ByRankRun
  <2> HIDE DEF part
  <2>3. part \in X
    <3>1. KeptOf(E, v, {EVENT_TYPE_ORDER[r]}) \subseteq Mine(E, v)
      BY DEF Kept, KeptOf, Mine
    <3> QED BY <2>1, <3>1, SeqWidens
  <2> QED BY <1>3, <2>2, <2>3
<1>4. f[n] \in X
  <2>1. \A r \in 1..n : f[r - 1] \in X => f[r] \in X
    BY <1>3
  <2> HIDE DEF X, n
  <2> QED BY <1>2, <2>1, RecursionStaysIn, Zenon
<1> QED BY <1>1, <1>4 DEF ByRankRun

(* The order lists every type, so no event of the vault is left out.       *)
LEMMA ByRankHas ==
  ASSUME NEW E, NEW s \in Seq(E), NEW v, NEW i \in DOMAIN s,
         s[i].vault = v, s[i].type \in EventTypes
  PROVE  In(s[i], ByRank(s, v))
<1>1. PICK f : ByRankRun(f, s, v)
  BY ByRankRuns
<1> DEFINE n == Len(EVENT_TYPE_ORDER)
<1>2. n \in Nat /\ \E r \in 1..n : EVENT_TYPE_ORDER[r] = s[i].type
  <2>1. n = 9
    BY DEF EVENT_TYPE_ORDER
  <2>2. /\ EVENT_TYPE_ORDER[1] = "setup" /\ EVENT_TYPE_ORDER[2] = "proposal"
        /\ EVENT_TYPE_ORDER[3] = "approval" /\ EVENT_TYPE_ORDER[4] = "execution"
        /\ EVENT_TYPE_ORDER[5] = "ownerChange" /\ EVENT_TYPE_ORDER[6] = "thresholdChange"
        /\ EVENT_TYPE_ORDER[7] = "delegate" /\ EVENT_TYPE_ORDER[8] = "enableChildMultiSig"
        /\ EVENT_TYPE_ORDER[9] = "malformed"
    BY DEF EVENT_TYPE_ORDER
  <2> HIDE DEF n
  <2>3. {1, 2, 3, 4, 5, 6, 7, 8, 9} \subseteq 1..n
    BY <2>1
  <2> QED BY <2>1, <2>2, <2>3 DEF EventTypes, ConfigChanges
<1>3. PICK r \in 1..n : EVENT_TYPE_ORDER[r] = s[i].type
  BY <1>2
<1> DEFINE S == {k \in 0..n : f[k] \in Seq(E) /\ (r <= k => In(s[i], f[k]))}
<1> HIDE DEF n
<1>4. 0 \in S
  <2>1. f[0] \in Seq(E) /\ ~(r <= 0)
    BY <1>1, <1>2, <1>3 DEF ByRankRun
  <2> QED BY <1>2, <2>1
<1>5. ASSUME NEW k \in 1..n, k - 1 \in S PROVE k \in S
  <2> DEFINE part == Matching(s, v, {EVENT_TYPE_ORDER[k]})
  <2>1. part \in Seq(KeptOf(E, v, {EVENT_TYPE_ORDER[k]}))
    BY MatchingOf
  <2>2. f[k] = f[k - 1] \o part
    BY <1>1 DEF ByRankRun, n
  <2>3. ASSUME k = r PROVE In(s[i], part)
    <3>1. Kept(s[i], v, {EVENT_TYPE_ORDER[k]})
      BY <1>3, <2>3 DEF Kept
    <3> QED BY <3>1, MatchingHas
  <2> HIDE DEF part
  <2>4. part \in Seq(E) /\ f[k - 1] \in Seq(E) /\ k \in 0..n
    <3>1. KeptOf(E, v, {EVENT_TYPE_ORDER[k]}) \subseteq E
      BY DEF KeptOf
    <3>2. part \in Seq(E)
      BY <2>1, <3>1, SeqWidens
    <3> QED BY <1>2, <1>5, <3>2
  <2>5. f[k] \in Seq(E)
    BY <2>2, <2>4
  <2>6. ASSUME r <= k PROVE In(s[i], f[k])
    <3>1. k = r \/ In(s[i], f[k - 1])
      BY <1>2, <1>3, <1>5, <2>6
    <3>2. In(s[i], f[k - 1]) \/ In(s[i], part)
      BY <2>3, <3>1
    <3> QED BY <2>2, <2>4, <3>2, InConcat
  <2> QED BY <2>4, <2>5, <2>6
<1>6. n \in S
  <2>1. \A k \in 1..n : k - 1 \in S => k \in S
    BY <1>5
  <2> HIDE DEF S
  <2>2. 0..n \subseteq S
    BY <1>2, <1>4, <2>1, StepByStep, Zenon
  <2> QED BY <1>2, <2>2
<1> QED BY <1>1, <1>2, <1>3, <1>6 DEF ByRankRun, n

LEMMA EventsAtOf ==
  ASSUME NEW E, NEW c, NEW h, NEW v, c[h].events \in Seq(E)
  PROVE  EventsAt(c, h, v) \in Seq(Mine(E, v))
<1> DEFINE s == EventsAt(c, h, v)
<1>1. s \in Seq(KeptOf(E, v, EventTypes))
  BY MatchingOf DEF EventsAt
<1>2. KeptOf(E, v, EventTypes) \subseteq Mine(E, v)
  BY DEF Kept, KeptOf, Mine
<1> HIDE DEF s
<1>3. s \in Seq(Mine(E, v))
  BY <1>1, <1>2
<1> QED BY <1>3 DEF s

(* An event stays in a sequence's set of events.                           *)
SetOf(s) == {s[i] : i \in DOMAIN s}

LEMMA SeqOfItsSet ==
  ASSUME NEW E, NEW s \in Seq(E)
  PROVE  s \in Seq(SetOf(s)) /\ SetOf(s) \subseteq E /\ \A x \in SetOf(s) : In(x, s)
<1>1. \A i \in DOMAIN s : s[i] \in SetOf(s) /\ s[i] \in E
  BY DEF SetOf
<1>2. s \in Seq(SetOf(s))
  BY <1>1
<1>3. \A x \in SetOf(s) : x \in E /\ In(x, s)
  BY <1>1 DEF SetOf, In
<1> QED BY <1>2, <1>3

(* The events of a vault in one block, in the order the caller asks for.   *)
RankedAt(c, h, v, ranked) ==
  IF ranked THEN ByRank(EventsAt(c, h, v), v) ELSE EventsAt(c, h, v)

ItemsAt(c, h, v, ranked) ==
  [i \in DOMAIN RankedAt(c, h, v, ranked) |->
     [event |-> RankedAt(c, h, v, ranked)[i], height |-> h, hash |-> BlockHash(c, h)]]

(* They are the vault's events of that block, none left out.               *)
LEMMA RankedAtIs ==
  ASSUME NEW E, NEW c, NEW h, NEW v, NEW ranked \in BOOLEAN, c[h].events \in Seq(E)
  PROVE  /\ RankedAt(c, h, v, ranked) \in Seq(Mine(SetOf(c[h].events), v))
         /\ \A i \in DOMAIN c[h].events :
              c[h].events[i].vault = v /\ c[h].events[i].type \in EventTypes =>
                In(c[h].events[i], RankedAt(c, h, v, ranked))
<1> DEFINE s == c[h].events
           F == SetOf(s)
           q == EventsAt(c, h, v)
<1>1. s \in Seq(F)
  BY SeqOfItsSet
<1>2. q \in Seq(Mine(F, v))
  BY <1>1, EventsAtOf
<1>3. ASSUME NEW i \in DOMAIN s, s[i].vault = v, s[i].type \in EventTypes
      PROVE  In(s[i], q)
  <2>1. Kept(s[i], v, EventTypes)
    BY <1>3 DEF Kept
  <2> QED BY <1>1, <2>1, MatchingHas DEF EventsAt
<1> HIDE DEF q, F
<1>4. ByRank(q, v) \in Seq(Mine(F, v))
  <2>1. ByRank(q, v) \in Seq(Mine(Mine(F, v), v))
    BY <1>2, ByRankOf
  <2>2. Mine(Mine(F, v), v) = Mine(F, v)
    BY DEF Mine
  <2> QED BY <2>1, <2>2
<1>5. ASSUME NEW i \in DOMAIN s, s[i].vault = v, s[i].type \in EventTypes
      PROVE  In(s[i], ByRank(q, v))
  <2>1. PICK j \in DOMAIN q : q[j] = s[i]
    BY <1>3, <1>5 DEF In
  <2> QED BY <1>2, <1>5, <2>1, ByRankHas
<1> QED BY <1>2, <1>3, <1>4, <1>5 DEF RankedAt, q, F

(* An item of a batch: an event of the vault that was asked for ...        *)
Item(v) == [event : {e \in Event : e.vault = v}, height : Nat, hash : Seq(Blocks)]

(* ... of the block at its height, whose hash it carries.                  *)
ItemOf(c, v) ==
  {x \in Item(v) : /\ x.height \in DOMAIN c
                   /\ x.hash = BlockHash(c, x.height)
                   /\ In(x.event, c[x.height].events)}

InBatch(q, e, h) == \E j \in DOMAIN q : q[j].event = e /\ q[j].height = h

LEMMA ItemsAtIs ==
  ASSUME NEW c \in Seq(Blocks), NEW v, NEW ranked \in BOOLEAN, NEW h \in DOMAIN c,
         \A b \in Blocks : b.events \in Seq(Event)
  PROVE  /\ ItemsAt(c, h, v, ranked) \in Seq(ItemOf(c, v))
         /\ \A i \in DOMAIN c[h].events :
              c[h].events[i].vault = v /\ c[h].events[i].type \in EventTypes =>
                InBatch(ItemsAt(c, h, v, ranked), c[h].events[i], h)
<1> DEFINE s == c[h].events
           q == RankedAt(c, h, v, ranked)
           items == ItemsAt(c, h, v, ranked)
<1>1. c[h] \in Blocks /\ h \in 1..Len(c) /\ h \in Nat
  OBVIOUS
<1>2. s \in Seq(Event)
  BY <1>1
<1>3. /\ q \in Seq(Mine(SetOf(s), v))
      /\ \A i \in DOMAIN s :
           s[i].vault = v /\ s[i].type \in EventTypes => In(s[i], q)
  BY <1>2, RankedAtIs
<1>4. BlockHash(c, h) \in Seq(Blocks)
  BY <1>1 DEF BlockHash, Prefix
<1>5. DOMAIN items = DOMAIN q /\ \A i \in DOMAIN q :
         items[i] = [event |-> q[i], height |-> h, hash |-> BlockHash(c, h)]
  BY DEF ItemsAt
<1>6. items = [i \in DOMAIN q |-> items[i]]
  BY DEF ItemsAt
<1>7. DOMAIN q = 1..Len(q) /\ Len(q) \in Nat /\ \A i \in DOMAIN q : q[i] \in Mine(SetOf(s), v)
  <2> HIDE DEF q
  <2> QED BY <1>3
<1> HIDE DEF items, q
<1>8. ASSUME NEW i \in DOMAIN q PROVE items[i] \in ItemOf(c, v)
  <2>1. q[i] \in SetOf(s) /\ q[i].vault = v
    BY <1>7 DEF Mine
  <2>2. q[i] \in Event /\ In(q[i], s)
    BY <1>2, <2>1, SeqOfItsSet
  <2> QED BY <1>1, <1>4, <1>5, <2>1, <2>2 DEF ItemOf, Item
<1>9. items \in Seq(ItemOf(c, v))
  BY <1>6, <1>7, <1>8
<1>10. ASSUME NEW i \in DOMAIN s, s[i].vault = v, s[i].type \in EventTypes
       PROVE  InBatch(items, s[i], h)
  <2>1. PICK j \in DOMAIN q : q[j] = s[i]
    BY <1>3, <1>10 DEF In
  <2> QED BY <1>5, <2>1 DEF InBatch
<1> QED BY <1>9, <1>10 DEF items

(* A range of blocks is gone through once, upwards.                        *)
InRangeRun(f, c, v, lo, hi, ranked) ==
  /\ f[0] = <<>>
  /\ \A h \in 1..Smaller(hi, Len(c)) :
       f[h] = IF h < lo THEN <<>> ELSE f[h - 1] \o ItemsAt(c, h, v, ranked)
  /\ InRange(c, v, lo, hi, ranked) = f[Smaller(hi, Len(c))]

LEMMA InRangeRuns ==
  ASSUME NEW c \in Seq(Blocks), NEW v, NEW lo, NEW hi \in Nat, NEW ranked \in BOOLEAN,
         \A b \in Blocks : b.events \in Seq(Event)
  PROVE  \E f : InRangeRun(f, c, v, lo, hi, ranked)
<1> DEFINE X == Seq(ItemOf(c, v))
           n == Smaller(hi, Len(c))
           Emitted(h) == EventsAt(c, h, v)
           Ranked(h) == IF ranked THEN ByRank(Emitted(h), v) ELSE Emitted(h)
           Part(h) == [i \in DOMAIN Ranked(h) |->
                        [event |-> Ranked(h)[i], height |-> h, hash |-> BlockHash(c, h)]]
           Body(f) == [h \in 0..n |->
                        IF h = 0 \/ h < lo THEN <<>> ELSE f[h - 1] \o Part(h)]
           upTo == CHOOSE f : f = Body(f)
           G == [h \in 1..n |-> [q \in X |-> IF h < lo THEN <<>> ELSE q \o Part(h)]]
<1>1. n \in Nat /\ n <= Len(c)
  BY DEF Smaller
<1>2. <<>> \in X
  OBVIOUS
<1>3. ASSUME NEW h \in 1..n PROVE Part(h) \in X /\ Part(h) = ItemsAt(c, h, v, ranked)
  <2>1. h \in DOMAIN c
    BY <1>1
  <2>2. Part(h) = ItemsAt(c, h, v, ranked)
    BY DEF ItemsAt, RankedAt
  <2> HIDE DEF Part
  <2> QED BY <2>1, <2>2, ItemsAtIs
<1> HIDE DEF Part, n
<1>4. ASSUME NEW h \in 1..n, NEW q \in X
      PROVE  (IF h < lo THEN <<>> ELSE q \o Part(h)) \in X
  <2>1. q \o Part(h) \in X
    BY <1>3
  <2> HIDE DEF X
  <2> QED BY <1>2, <2>1
<1> HIDE DEF X
<1>5. G \in [1..n -> [X -> X]]
  BY <1>4
<1>6. PICK f \in [0..n -> X] :
        f[0] = <<>> /\ \A h \in 1..n : f[h] = G[h][f[h - 1]]
  <2> HIDE DEF G
  <2>1. HasSolution(n, X, <<>>, G)
    BY <1>1, <1>2, <1>5, RecursionDefines, Zenon
  <2> QED BY <2>1 DEF HasSolution
<1>7. f = Body(f)
  <2>1. ASSUME NEW h \in 0..n PROVE f[h] = Body(f)[h]
    <3>1. CASE h = 0
      BY <1>6, <3>1
    <3>2. CASE h # 0
      <4>1. h \in 1..n /\ h - 1 \in 0..n
        BY <1>1, <3>2
      <4>2. f[h] = IF h < lo THEN <<>> ELSE f[h - 1] \o Part(h)
        BY <1>6, <4>1
      <4> QED BY <3>2, <4>2
    <3> QED BY <3>1, <3>2
  <2> HIDE DEF G
  <2> QED BY <2>1
<1>8. upTo = Body(upTo)
  <2> HIDE DEF Body
  <2> QED BY <1>7
<1> HIDE DEF upTo
<1>9. upTo[0] = <<>>
  BY <1>1, <1>8
<1>10. ASSUME NEW h \in 1..n
       PROVE  upTo[h] = IF h < lo THEN <<>> ELSE upTo[h - 1] \o ItemsAt(c, h, v, ranked)
  <2>1. h \in 0..n /\ h # 0
    BY <1>1
  <2>2. upTo[h] = Body(upTo)[h]
    BY <1>8
  <2> QED BY <1>3, <2>1, <2>2
<1>11. InRange(c, v, lo, hi, ranked) = upTo[n]
  BY DEF InRange, upTo, n, Part
<1>12. InRangeRun(upTo, c, v, lo, hi, ranked)
  BY <1>9, <1>10, <1>11 DEF InRangeRun, n
<1> QED BY <1>12

(* What a range holds are events of the one vault it was read for, at      *)
(* their blocks.                                                           *)
LEMMA InRangeOf ==
  ASSUME NEW c \in Seq(Blocks), NEW v, NEW lo, NEW hi \in Nat, NEW ranked \in BOOLEAN,
         \A b \in Blocks : b.events \in Seq(Event)
  PROVE  InRange(c, v, lo, hi, ranked) \in Seq(ItemOf(c, v))
<1> DEFINE X == Seq(ItemOf(c, v))
           n == Smaller(hi, Len(c))
<1>1. PICK f : InRangeRun(f, c, v, lo, hi, ranked)
  BY InRangeRuns
<1>2. f[0] \in X /\ n \in Nat /\ n <= Len(c)
  BY <1>1 DEF InRangeRun, Smaller
<1>3. ASSUME NEW h \in 1..n, f[h - 1] \in X PROVE f[h] \in X
  <2> DEFINE part == ItemsAt(c, h, v, ranked)
  <2>1. h \in DOMAIN c
    BY <1>2
  <2>2. part \in X
    BY <2>1, ItemsAtIs
  <2>3. f[h] = <<>> \/ f[h] = f[h - 1] \o part
    BY <1>1 DEF InRangeRun
  <2>4. <<>> \in X /\ \A p, q \in X : p \o q \in X
    OBVIOUS
  <2> HIDE DEF part, X
  <2> QED BY <1>3, <2>2, <2>3, <2>4
<1>4. f[n] \in X
  <2>1. \A h \in 1..n : f[h - 1] \in X => f[h] \in X
    BY <1>3
  <2> HIDE DEF X, n
  <2> QED BY <1>2, <2>1, RecursionStaysIn, Zenon
<1> QED BY <1>1, <1>4 DEF InRangeRun

LEMMA InBatchConcat ==
  ASSUME NEW X, NEW p \in Seq(X), NEW q \in Seq(X), NEW e, NEW h,
         InBatch(p, e, h) \/ InBatch(q, e, h)
  PROVE  InBatch(p \o q, e, h)
<1>1. CASE InBatch(p, e, h)
  <2>1. PICK j \in DOMAIN p : p[j].event = e /\ p[j].height = h
    BY <1>1 DEF InBatch
  <2>2. j \in DOMAIN (p \o q) /\ (p \o q)[j] = p[j]
    OBVIOUS
  <2> QED BY <2>1, <2>2 DEF InBatch
<1>2. CASE InBatch(q, e, h)
  <2>1. PICK j \in DOMAIN q : q[j].event = e /\ q[j].height = h
    BY <1>2 DEF InBatch
  <2>2. Len(p) + j \in DOMAIN (p \o q) /\ (p \o q)[Len(p) + j] = q[j]
    OBVIOUS
  <2> QED BY <2>1, <2>2 DEF InBatch
<1> QED BY <1>1, <1>2

(* Every event of the vault inside the range is in the answer.             *)
LEMMA InRangeHas ==
  ASSUME NEW c \in Seq(Blocks), NEW v, NEW lo \in Nat, NEW hi \in Nat,
         NEW ranked \in BOOLEAN,
         \A b \in Blocks : b.events \in Seq(Event),
         NEW h \in DOMAIN c, lo <= h, h <= hi, NEW i \in DOMAIN c[h].events,
         c[h].events[i].vault = v, c[h].events[i].type \in EventTypes
  PROVE  InBatch(InRange(c, v, lo, hi, ranked), c[h].events[i], h)
<1> DEFINE n == Smaller(hi, Len(c))
           e == c[h].events[i]
           X == Seq(ItemOf(c, v))
<1>1. PICK f : InRangeRun(f, c, v, lo, hi, ranked)
  BY InRangeRuns
<1> DEFINE S == {k \in 0..n : f[k] \in X /\ (h <= k => InBatch(f[k], e, h))}
<1>2. n \in Nat /\ n <= Len(c) /\ h \in 1..n
  BY DEF Smaller
<1> HIDE DEF n
<1>3. 0 \in S
  <2>1. f[0] \in X
    BY <1>1 DEF InRangeRun
  <2> HIDE DEF X, e
  <2> QED BY <1>2, <2>1
<1>4. ASSUME NEW k \in 1..n, k - 1 \in S PROVE k \in S
  <2> DEFINE part == ItemsAt(c, k, v, ranked)
  <2>1. k \in DOMAIN c /\ k \in 0..n /\ f[k - 1] \in X
    BY <1>2, <1>4
  <2>2. part \in X
    BY <2>1, ItemsAtIs
  <2>3. ASSUME h = k PROVE InBatch(part, e, h)
    BY <2>1, <2>3, ItemsAtIs
  <2>4. f[k] = IF k < lo THEN <<>> ELSE f[k - 1] \o part
    BY <1>1 DEF InRangeRun, n
  <2> HIDE DEF part, e
  <2>5. f[k] \in X
    BY <2>1, <2>2, <2>4
  <2>6. ASSUME h <= k PROVE InBatch(f[k], e, h)
    <3>1. ~(k < lo) /\ (h = k \/ h <= k - 1)
      BY <1>2, <2>6
    <3>2. InBatch(f[k - 1], e, h) \/ InBatch(part, e, h)
      BY <1>4, <2>3, <3>1
    <3> HIDE DEF X, S
    <3>3. InBatch(f[k - 1] \o part, e, h)
      BY <2>1, <2>2, <3>2, InBatchConcat DEF X
    <3> QED BY <2>4, <3>1, <3>3
  <2> HIDE DEF X
  <2> QED BY <2>1, <2>5, <2>6
<1>5. n \in S
  <2>1. \A k \in 1..n : k - 1 \in S => k \in S
    BY <1>4
  <2> HIDE DEF S
  <2>2. 0..n \subseteq S
    BY <1>2, <1>3, <2>1, StepByStep, Zenon
  <2> QED BY <1>2, <2>2
<1> QED BY <1>1, <1>2, <1>5 DEF InRangeRun, n

(* What a batch holds are events of the one vault it was fetched for.      *)
LEMMA BatchOf ==
  ASSUME NEW c \in Seq(Blocks), NEW v, NEW lo, NEW hi \in Nat,
         \A b \in Blocks : b.events \in Seq(Event)
  PROVE  FetchEvents(c, v, lo, hi) \in Seq(Item(v))
<1>1. FetchEvents(c, v, lo, hi) \in Seq(ItemOf(c, v))
  BY InRangeOf DEF FetchEvents
<1>2. ItemOf(c, v) \subseteq Item(v)
  BY DEF ItemOf
<1> QED BY <1>1, <1>2

-----------------------------------------------------------------------------
(* The invariant                                                           *)

(* A Contract row, the progress of a first scan, and a running sync.       *)
Row == [id : Nat, discoveredAt : Nat, ready : BOOLEAN, verified : BOOLEAN,
        synced : BOOLEAN, parent : Vaults \cup {Nothing}]

Scan == [id : Nat, start : Nat, next : Nat]

Callers == {"discover", "rescan", "known"}

JobOn(v) == [vault : {v}, id : Nat, batch : Seq(Item(v)), seq : Nat, to : Nat,
             finish : BOOLEAN, stored : BOOLEAN, ingested : BOOLEAN,
             back : Callers]

(* The archive never reports more blocks than the daemon.                  *)
Chains(d, a) == d \in Seq(Blocks) /\ a \in Seq(Blocks) /\ Len(a) <= Len(d)

(* permissionsVerified is only ever set for an account that passed.        *)
CheckedRows(R) ==
  /\ R \in [DOMAIN R -> Row]
  /\ \A v \in DOMAIN R : R[v].verified => v \in Safe

Scans(F) == F \in [DOMAIN F -> Scan]

(* What is being synced passed the check, and the batch is its own events. *)
SyncChecked(at, j) == at = "sync" => j.vault \in Safe /\ j \in JobOn(j.vault)

IndexerInv ==
  /\ env \in Deployments
  /\ Chains(daemon, archive)
  /\ indexed \in Nat /\ latest \in Nat /\ unsubscribes \in Nat
  /\ CheckedRows(rows)
  /\ Scans(firstScans)
  /\ SyncChecked(pc, job)
  /\ OnlySafeIndexed

(* What the assumption says of the running deployment.                     *)
LEMMA DeploymentFacts ==
  ASSUME env \in Deployments
  PROVE  /\ Safe \subseteq Vaults /\ Subscribable \subseteq Vaults
         /\ Parent \in [Vaults -> Vaults \cup {Nothing}]
         /\ Window \in Nat /\ EVENT_QUERY_BLOCK_SPAN \in Nat \ {0}
         /\ Margin \in Nat /\ BackfillBlocks \in Nat
         /\ MaxHeight \in Nat /\ MaxReorgDepth \in Nat
         /\ \A b \in Blocks : b.events \in Seq(Event)
         /\ \A e \in Event : e.vault \in Vaults /\ e.child \in Vaults \cup {Nothing}
<1>1. \A b \in Blocks : IsBlock(b)
  BY IndexerAssumption DEF Blocks
<1>2. ASSUME NEW b \in Blocks
      PROVE  /\ b.events \in Seq(Event)
             /\ \A i \in DOMAIN b.events :
                  /\ b.events[i].vault \in Vaults
                  /\ b.events[i].child \in Vaults \cup {Nothing}
  <2> DEFINE V == {b.events[i].by : i \in DOMAIN b.events}
             E == EventsBy(V)
  <2>1. b.events \in Seq(E)
    BY <1>1 DEF IsBlock
  <2>2. \A e \in E : e.vault \in Vaults /\ e.child \in Vaults \cup {Nothing}
    BY DEF EventsBy
  <2>3. \A i \in DOMAIN b.events : b.events[i] \in Event
    BY DEF Event
  <2> HIDE DEF E
  <2>4. \A i \in DOMAIN b.events : b.events[i] \in E
    BY <2>1
  <2>5. b.events \in Seq(Event)
    BY <2>1, <2>3
  <2> QED BY <2>2, <2>4, <2>5
<1>3. ASSUME NEW e \in Event
      PROVE  e.vault \in Vaults /\ e.child \in Vaults \cup {Nothing}
  <2>1. PICK b \in Blocks : e \in {b.events[i] : i \in DOMAIN b.events}
    BY DEF Event
  <2>2. PICK i \in DOMAIN b.events : e = b.events[i]
    BY <2>1
  <2> QED BY <1>2, <2>2
<1>4. /\ Safe \subseteq Vaults /\ Subscribable \subseteq Vaults
      /\ Parent \in [Vaults -> Vaults \cup {Nothing}]
  BY IndexerAssumption DEF Safe, Subscribable, Parent
<1>5. /\ Window \in Nat /\ EVENT_QUERY_BLOCK_SPAN \in Nat \ {0}
      /\ Margin \in Nat /\ BackfillBlocks \in Nat
      /\ MaxHeight \in Nat /\ MaxReorgDepth \in Nat
  BY IndexerAssumption DEF Window, EVENT_QUERY_BLOCK_SPAN, Margin, BackfillBlocks,
                           MaxHeight, MaxReorgDepth
<1> QED BY <1>2, <1>3, <1>4, <1>5

(* One row written: the other rows keep what the check found.              *)
LEMMA RowWritten ==
  ASSUME NEW R, CheckedRows(R), NEW v \in DOMAIN R, NEW w \in Row,
         w.verified => v \in Safe
  PROVE  /\ CheckedRows([R EXCEPT ![v] = w])
         /\ DOMAIN [R EXCEPT ![v] = w] = DOMAIN R
         /\ [R EXCEPT ![v] = w][v] = w
<1> DEFINE Q == [R EXCEPT ![v] = w]
<1>1. Q \in [DOMAIN R -> Row] /\ DOMAIN Q = DOMAIN R /\ Q[v] = w
  BY DEF CheckedRows
<1>2. \A u \in DOMAIN R : u # v => Q[u] = R[u]
  BY DEF CheckedRows
<1> HIDE DEF Q
<1>3. CheckedRows(Q)
  BY <1>1, <1>2 DEF CheckedRows
<1> QED BY <1>1, <1>3 DEF Q

LEMMA RowAdded ==
  ASSUME CheckedRows(rows), NEW v, NEW w \in Row, w.verified => v \in Safe
  PROVE  CheckedRows(WithRow(v, w)) /\ v \in DOMAIN WithRow(v, w)
                                   /\ WithRow(v, w)[v] = w
<1> DEFINE Q == WithRow(v, w)
<1>1. DOMAIN Q = DOMAIN rows \cup {v} /\ Q[v] = w
  BY DEF WithRow
<1>2. \A u \in DOMAIN rows : u # v => Q[u] = rows[u]
  BY DEF WithRow
<1>3. Q \in [DOMAIN rows \cup {v} -> Row]
  BY DEF CheckedRows, WithRow
<1> HIDE DEF Q
<1> QED BY <1>1, <1>2, <1>3 DEF CheckedRows, Q

LEMMA NewRowIsRow ==
  ASSUME IndexerInv, NEW h \in Nat, NEW p \in Vaults \cup {Nothing}
  PROVE  /\ NewRow(h, p, TRUE) \in Row
         /\ NewRow(h, p, FALSE) \in Row /\ ~NewRow(h, p, FALSE).verified
BY DEF NewRow, Row, IndexerInv

(* The rows that are not changed keep theirs, whichever rows are deleted.  *)
LEMMA RowsKept ==
  ASSUME NEW R, CheckedRows(R), NEW D \in SUBSET DOMAIN R
  PROVE  CheckedRows([v \in D |-> R[v]])
BY DEF CheckedRows

(* The four changes of a row.                                              *)
LEMMA RowChanges ==
  ASSUME NEW r \in Row
  PROVE  /\ [r EXCEPT !.verified = TRUE] \in Row
         /\ [r EXCEPT !.ready = FALSE, !.verified = FALSE] \in Row
         /\ ~[r EXCEPT !.ready = FALSE, !.verified = FALSE].verified
         /\ \A p \in Vaults \cup {Nothing} :
              /\ [r EXCEPT !.parent = p] \in Row
              /\ [r EXCEPT !.parent = p].verified = r.verified
         /\ \A b \in BOOLEAN :
              /\ [r EXCEPT !.synced = TRUE, !.ready = b] \in Row
              /\ [r EXCEPT !.synced = TRUE, !.ready = b].verified = r.verified
<1>1. /\ r.id \in Nat /\ r.discoveredAt \in Nat /\ r.ready \in BOOLEAN
      /\ r.verified \in BOOLEAN /\ r.synced \in BOOLEAN
      /\ r.parent \in Vaults \cup {Nothing}
  BY DEF Row
<1>2. [r EXCEPT !.verified = TRUE] \in Row
  BY <1>1 DEF Row
<1>3. /\ [r EXCEPT !.ready = FALSE, !.verified = FALSE] \in Row
      /\ ~[r EXCEPT !.ready = FALSE, !.verified = FALSE].verified
  BY <1>1 DEF Row
<1>4. ASSUME NEW p \in Vaults \cup {Nothing}
      PROVE  [r EXCEPT !.parent = p] \in Row /\ [r EXCEPT !.parent = p].verified = r.verified
  BY <1>1 DEF Row
<1>5. ASSUME NEW b \in BOOLEAN
      PROVE  /\ [r EXCEPT !.synced = TRUE, !.ready = b] \in Row
             /\ [r EXCEPT !.synced = TRUE, !.ready = b].verified = r.verified
  BY <1>1 DEF Row
<1> QED BY <1>2, <1>3, <1>4, <1>5

-----------------------------------------------------------------------------
(* Every step keeps the invariant                                          *)

LEMMA EnvFixed ==
  ASSUME UNCHANGED env
  PROVE  /\ Safe' = Safe /\ Blocks' = Blocks /\ Event' = Event
         /\ \A v : Item(v)' = Item(v) /\ JobOn(v)' = JobOn(v)
         /\ \A R : CheckedRows(R)' = CheckedRows(R)
BY DEF Safe, Blocks, Event, Item, JobOn, CheckedRows

(* The invariant after a step, part by part.                               *)
LEMMA Assemble ==
  ASSUME env \in Deployments, UNCHANGED env,
         Chains(daemon', archive'),
         indexed' \in Nat, latest' \in Nat, unsubscribes' \in Nat,
         CheckedRows(rows'), Scans(firstScans'), SyncChecked(pc', job'),
         \A r \in raw' : r.event.vault \in Safe
  PROVE  IndexerInv'
<1>1. Chains(daemon, archive)'
  BY EnvFixed DEF Chains
<1>2. CheckedRows(rows)'
  BY EnvFixed DEF CheckedRows
<1>3. SyncChecked(pc, job)' /\ OnlySafeIndexed'
  BY EnvFixed DEF SyncChecked, OnlySafeIndexed
<1> QED BY <1>1, <1>2, <1>3 DEF IndexerInv, Scans

(* The parts of the invariant before a step.                               *)
LEMMA Parts ==
  ASSUME IndexerInv
  PROVE  /\ env \in Deployments
         /\ Chains(daemon, archive)
         /\ indexed \in Nat /\ latest \in Nat /\ unsubscribes \in Nat
         /\ CheckedRows(rows) /\ Scans(firstScans) /\ SyncChecked(pc, job)
         /\ \A r \in raw : r.event.vault \in Safe
BY DEF IndexerInv, OnlySafeIndexed

(* Another branch of the same length, and what the archive has of it.      *)
Rebranched(c, d, branch) == SubSeq(c, 1, Len(c) - d) \o branch

LEMMA BranchReplaced ==
  ASSUME NEW B, NEW c \in Seq(B), NEW d \in 0..Len(c), NEW branch \in [1..d -> B],
         NEW n \in 0..Len(c)
  PROVE  /\ Rebranched(c, d, branch) \in Seq(B)
         /\ Len(Rebranched(c, d, branch)) = Len(c)
         /\ SubSeq(Rebranched(c, d, branch), 1, n) \in Seq(B)
         /\ Len(SubSeq(Rebranched(c, d, branch), 1, n)) = n
<1> DEFINE p == SubSeq(c, 1, Len(c) - d)
           new == p \o branch
<1>1. d \in Nat /\ Len(c) - d \in 0..Len(c) /\ Len(c) \in Nat
  OBVIOUS
<1>2. branch \in Seq(B) /\ Len(branch) = d
  BY <1>1
<1>3. p \in Seq(B) /\ Len(p) = Len(c) - d
  BY <1>1
<1> HIDE DEF p
<1>4. new \in Seq(B) /\ Len(new) = Len(c)
  BY <1>1, <1>2, <1>3
<1> HIDE DEF new
<1>5. SubSeq(new, 1, n) \in Seq(B) /\ Len(SubSeq(new, 1, n)) = n
  BY <1>1, <1>4
<1> QED BY <1>4, <1>5 DEF new, p, Rebranched

LEMMA ChainStep ==
  ASSUME IndexerInv, UNCHANGED env, Chain
  PROVE  IndexerInv'
<1> USE Parts
<1>1. SUFFICES /\ Chains(daemon', archive')
               /\ UNCHANGED <<headers, raw, tables, rows, cursors, firstScans, pc,
                              local, todo, scanning, job, unsubscribes>>
  BY Assemble DEF cursors, local
<1>2. ASSUME NEW b \in Blocks, MineBlock(b)
      PROVE  Chains(daemon', archive')
  <2>1. /\ daemon' = Append(daemon, b) /\ archive' = archive
        /\ daemon \in Seq(Blocks) /\ archive \in Seq(Blocks)
        /\ Len(archive) <= Len(daemon)
    BY <1>2 DEF MineBlock, Chains
  <2>2. daemon' \in Seq(Blocks) /\ Len(daemon') = Len(daemon) + 1
    BY <2>1
  <2> QED BY <2>1, <2>2 DEF Chains
<1>3. ASSUME ArchiveIngest
      PROVE  Chains(daemon', archive')
  <2>1. /\ archive' = SubSeq(daemon, 1, Len(archive) + 1) /\ daemon' = daemon
        /\ Len(archive) < Len(daemon)
        /\ daemon \in Seq(Blocks) /\ archive \in Seq(Blocks)
    BY <1>3 DEF ArchiveIngest, Prefix, Chains
  <2>2. archive' \in Seq(Blocks) /\ Len(archive') = Len(archive) + 1
    BY <2>1
  <2> QED BY <2>1, <2>2 DEF Chains
<1>4. ASSUME NEW d \in 1..MaxReorgDepth, Reorg(d)
      PROVE  Chains(daemon', archive')
  <2>1. PICK branch \in [1..d -> Blocks] :
          /\ daemon' = SubSeq(daemon, 1, Len(daemon) - d) \o branch
          /\ archive' = SubSeq(daemon', 1, Len(archive))
    BY <1>4 DEF Reorg, Prefix
  <2>2. /\ d \in Nat /\ d <= Len(daemon)
        /\ daemon \in Seq(Blocks) /\ archive \in Seq(Blocks)
        /\ Len(archive) <= Len(daemon)
    BY <1>4, DeploymentFacts DEF Reorg, Chains
  <2>3. d \in 0..Len(daemon) /\ Len(archive) \in 0..Len(daemon)
    BY <2>2
  <2> DEFINE new == Rebranched(daemon, d, branch)
  <2>4. /\ new \in Seq(Blocks) /\ Len(new) = Len(daemon)
        /\ SubSeq(new, 1, Len(archive)) \in Seq(Blocks)
        /\ Len(SubSeq(new, 1, Len(archive))) = Len(archive)
    BY <2>2, <2>3, BranchReplaced
  <2>5. daemon' = new /\ archive' = SubSeq(new, 1, Len(archive))
    BY <2>1 DEF Rebranched
  <2> HIDE DEF new
  <2> QED BY <2>2, <2>4, <2>5 DEF Chains
<1>5. UNCHANGED <<headers, raw, tables, rows, cursors, firstScans, pc,
                  local, todo, scanning, job, unsubscribes>>
  BY DEF Chain, MineBlock, ArchiveIngest, Reorg, budgets
<1> QED BY <1>2, <1>3, <1>4, <1>5 DEF Chain

(* Rolling back moves the cursor to a block, or to zero.                   *)
LEMMA ForkIsHeight ==
  ASSUME IndexerInv, Mismatched # {}
  PROVE  ForkHeight \in Nat
<1>1. daemon \in Seq(Blocks)
  BY DEF IndexerInv, Chains
<1>2. Overlap \subseteq 1..Len(daemon) /\ Len(daemon) \in Nat
  BY <1>1 DEF Overlap, BestChain
<1>3. CASE Agreed # {}
  <2>1. Agreed \in SUBSET (0..Len(daemon))
    <3>1. Agreed \subseteq Overlap
      BY Zenon DEF Agreed
    <3> QED BY <1>2, <3>1
  <2>2. Highest(Agreed) \in Agreed
    BY <1>2, <1>3, <2>1, HighestIsMember
  <2>3. Highest(Agreed) \in Nat
    <3>1. Highest(Agreed) \in 0..Len(daemon)
      BY <2>1, <2>2, Zenon
    <3> QED BY <1>2, <3>1
  <2> QED BY <1>3, <2>3 DEF ForkHeight
<1>4. CASE Agreed = {}
  <2>1. Mismatched \in SUBSET (1..Len(daemon))
    BY <1>2 DEF Mismatched
  <2>2. Mismatched \in SUBSET (0..Len(daemon))
    BY <1>2, <2>1
  <2>3. Lowest(Mismatched) \in Mismatched
    BY <1>2, <2>2, LowestIsMember
  <2>4. Lowest(Mismatched) \in 1..Len(daemon)
    BY <2>1, <2>3
  <2> QED BY <1>2, <1>4, <2>4 DEF ForkHeight
<1> QED BY <1>3, <1>4

LEMMA RollbackStep ==
  ASSUME IndexerInv, UNCHANGED env, TickRollsBack
  PROVE  IndexerInv'
<1> USE Parts
<1> DEFINE f == ForkHeight
           kept == {v \in DOMAIN rows : Lite \/ rows[v].discoveredAt <= f}
<1>1. f \in Nat
  BY ForkIsHeight DEF TickRollsBack
<1>2. /\ raw' = {r \in raw : r.height <= f}
      /\ rows' = [v \in kept |->
                   IF \E r \in raw' : r.event.vault = v THEN rows[v]
                   ELSE [rows[v] EXCEPT !.ready = FALSE, !.verified = FALSE]]
      /\ indexed' = f
  BY DEF TickRollsBack, RollbackAboveFork, Below, RewindCursor
<1>3. /\ UNCHANGED <<daemon, archive, latest, unsubscribes, pc, job>>
  BY DEF TickRollsBack, nodes, local, budgets
<1>4. CheckedRows(rows')
  <2>1. DOMAIN rows' = kept /\ kept \subseteq DOMAIN rows
    BY <1>2
  <2>2. ASSUME NEW v \in kept
        PROVE  rows'[v] \in Row /\ (rows'[v].verified => v \in Safe)
    <3>1. rows[v] \in Row /\ (rows[v].verified => v \in Safe)
      BY DEF CheckedRows
    <3> DEFINE w == [rows[v] EXCEPT !.ready = FALSE, !.verified = FALSE]
    <3>2. w \in Row /\ ~w.verified
      BY <3>1, RowChanges
    <3>3. rows'[v] = rows[v] \/ rows'[v] = w
      BY <1>2
    <3> HIDE DEF w
    <3> QED BY <3>1, <3>2, <3>3
  <2>3. rows' = [v \in kept |-> rows'[v]]
    BY <1>2
  <2> HIDE DEF kept
  <2> QED BY <2>1, <2>2, <2>3 DEF CheckedRows
<1>5. Scans(firstScans')
  <2>1. firstScans' = [v \in DOMAIN firstScans |->
          [firstScans[v] EXCEPT
             !.next = Larger(firstScans[v].start, Smaller(firstScans[v].next, f + 1))]]
    BY DEF TickRollsBack
  <2>2. ASSUME NEW v \in DOMAIN firstScans
        PROVE  [firstScans[v] EXCEPT
                 !.next = Larger(firstScans[v].start, Smaller(firstScans[v].next, f + 1))]
                 \in Scan
    <3>1. /\ firstScans[v] \in Scan
          /\ firstScans[v].start \in Nat /\ firstScans[v].next \in Nat
      BY DEF Scans, Scan
    <3>2. Larger(firstScans[v].start, Smaller(firstScans[v].next, f + 1)) \in Nat
      <4> HIDE DEF f
      <4> QED BY <1>1, <3>1 DEF Larger, Smaller
    <3> QED BY <3>1, <3>2 DEF Scan
  <2> QED BY <2>1, <2>2 DEF Scans
<1>6. \A r \in raw' : r.event.vault \in Safe
  BY <1>2
<1> QED BY <1>1, <1>2, <1>3, <1>4, <1>5, <1>6, Assemble

(* A sync starts only for a vault that passed the check, now or earlier.   *)
LEMMA SyncStarts ==
  ASSUME IndexerInv, NEW v \in DOMAIN rows, NEW lo, NEW hi \in Nat,
         NEW finish \in BOOLEAN, NEW stored \in BOOLEAN,
         pc \in Callers, StartSync(v, lo, hi, finish, stored)
  PROVE  CheckedRows(rows') /\ SyncChecked(pc', job')
<1> USE Parts
<1>1. rows[v] \in Row /\ (rows[v].verified => v \in Safe)
  BY DEF CheckedRows
<1>2. v \in Safe
  BY <1>1 DEF StartSync, Refused
<1> DEFINE w == [rows[v] EXCEPT !.verified = TRUE]
<1>3. w \in Row
  BY <1>1, RowChanges
<1>4. rows' = [rows EXCEPT ![v] = w]
  BY DEF StartSync
<1> HIDE DEF w
<1>5. CheckedRows(rows') /\ rows'[v] = w
  BY <1>2, <1>3, <1>4, RowWritten
<1>6. FetchEvents(archive, v, lo, hi) \in Seq(Item(v))
  BY BatchOf, DeploymentFacts DEF Chains
<1>7. job' = [vault |-> v, id |-> w.id, batch |-> FetchEvents(archive, v, lo, hi),
              seq |-> 0, to |-> hi, finish |-> finish, stored |-> stored,
              ingested |-> FALSE, back |-> pc]
  BY <1>5 DEF StartSync, Job
<1>8. w.id \in Nat
  BY <1>3 DEF Row
<1> DEFINE batch == FetchEvents(archive, v, lo, hi)
<1> HIDE DEF batch
<1>9. job' \in JobOn(v) /\ job'.vault = v
  <2>1. batch \in Seq(Item(v))
    BY <1>6 DEF batch
  <2> QED BY <1>7, <1>8, <2>1 DEF JobOn, batch
<1> QED BY <1>2, <1>5, <1>9 DEF SyncChecked

LEMMA SyncRefused ==
  ASSUME IndexerInv, NEW v \in DOMAIN rows, RefuseSync(v)
  PROVE  CheckedRows(rows') /\ UNCHANGED <<pc, job>>
<1> USE Parts
<1>1. rows[v] \in Row
  BY DEF CheckedRows
<1> DEFINE w == [rows[v] EXCEPT !.ready = FALSE, !.verified = FALSE]
<1>2. w \in Row /\ ~w.verified
  BY <1>1, RowChanges
<1>3. rows' = [rows EXCEPT ![v] = w] \/ rows' = rows
  BY DEF RefuseSync
<1> HIDE DEF w
<1>4. CheckedRows(rows')
  BY <1>2, <1>3, RowWritten
<1> QED BY <1>4 DEF RefuseSync

(* The progress of a first scan starts at the row's first block.           *)
LEMMA ScanIsTyped ==
  ASSUME IndexerInv, NEW u \in DOMAIN firstScans \cup DOMAIN rows
  PROVE  ScanOf(u) \in Scan
<1> USE Parts
<1>1. CASE u \in DOMAIN firstScans
  BY <1>1 DEF Scans, ScanOf
<1>2. CASE u \notin DOMAIN firstScans
  <2>1. rows[u] \in Row
    BY <1>2 DEF CheckedRows
  <2>2. rows[u].id \in Nat /\ rows[u].discoveredAt \in Nat
    BY <2>1 DEF Row
  <2> QED BY <1>2, <2>2 DEF ScanOf, Scan
<1> QED BY <1>1, <1>2

LEMMA RescanStep ==
  ASSUME IndexerInv, UNCHANGED env, NEW v \in Vaults, RescanUnready(v)
  PROVE  IndexerInv'
<1> USE Parts
<1>1. /\ pc = "rescan" /\ pc \in Callers /\ v \in DOMAIN rows
      /\ UNCHANGED <<daemon, archive, raw, indexed, latest, unsubscribes>>
  BY DEF RescanUnready, Callers, nodes, cursors, budgets
<1>2. SUFFICES CheckedRows(rows') /\ SyncChecked(pc', job') /\ Scans(firstScans')
  BY <1>1, Assemble
<1>3. ASSUME UNCHANGED <<rows, pc, job>>
      PROVE  CheckedRows(rows') /\ SyncChecked(pc', job')
  BY <1>3
<1>4. ASSUME RefuseSync(v)
      PROVE  CheckedRows(rows') /\ SyncChecked(pc', job')
  BY <1>1, <1>4, SyncRefused
<1>5. CASE ReplayUnready(v)
  <2>1. UNCHANGED firstScans
    BY <1>5 DEF ReplayUnready
  <2> DEFINE lo == Larger(rows[v].discoveredAt, from)
  <2>2. \/ UNCHANGED <<rows, pc, job>>
        \/ StartSync(v, lo, latest, TRUE, FALSE)
        \/ RefuseSync(v)
    BY <1>5 DEF ReplayUnready
  <2>3. ASSUME StartSync(v, lo, latest, TRUE, FALSE)
        PROVE  CheckedRows(rows') /\ SyncChecked(pc', job')
    <3> HIDE DEF lo
    <3> QED BY <1>1, <2>3, SyncStarts
  <2> QED BY <1>3, <1>4, <2>1, <2>2, <2>3
<1>6. CASE FirstScanStep(v)
  <2>1. Scans(firstScans')
    <3>1. \/ UNCHANGED firstScans
          \/ firstScans' = [u \in DOMAIN firstScans \cup {v} |-> ScanOf(u)]
      BY <1>6 DEF FirstScanStep
    <3>2. \A u \in DOMAIN firstScans \cup {v} : ScanOf(u) \in Scan
      BY <1>1, ScanIsTyped
    <3> QED BY <3>1, <3>2 DEF Scans
  <2>2. \/ UNCHANGED <<rows, pc, job>>
        \/ StartSync(v, ScanOf(v).next, StepEnd(v), Finishes(v), TRUE)
        \/ RefuseSync(v)
    BY <1>6 DEF FirstScanStep
  <2>3. StepEnd(v) \in Nat
    <3>1. ScanOf(v).next \in Nat
      BY <1>1, ScanIsTyped DEF Scan
    <3> QED BY <3>1, DeploymentFacts DEF StepEnd, Smaller
  <2>4. Finishes(v) \in BOOLEAN
    BY Zenon DEF Finishes
  <2>5. ASSUME StartSync(v, ScanOf(v).next, StepEnd(v), Finishes(v), TRUE)
        PROVE  CheckedRows(rows') /\ SyncChecked(pc', job')
    BY <1>1, <2>3, <2>4, <2>5, SyncStarts
  <2> QED BY <1>3, <1>4, <2>1, <2>2, <2>5
<1> QED BY <1>5, <1>6 DEF RescanUnready

LEMMA KnownStep ==
  ASSUME IndexerInv, UNCHANGED env, NEW v \in Vaults, SyncKnown(v)
  PROVE  IndexerInv'
<1> USE Parts
<1>1. /\ pc \in Callers /\ v \in DOMAIN rows
      /\ UNCHANGED <<daemon, archive, raw, indexed, latest, unsubscribes, firstScans>>
  BY DEF SyncKnown, Callers, nodes, cursors, local, budgets
<1>2. SUFFICES CheckedRows(rows') /\ SyncChecked(pc', job')
  BY <1>1, Assemble
<1>3. CASE StartSync(v, from, latest, TRUE, FALSE)
  BY <1>1, <1>3, SyncStarts
<1>4. CASE RefuseSync(v)
  BY <1>1, <1>4, SyncRefused
<1> QED BY <1>3, <1>4 DEF SyncKnown

LEMMA CandidateStep ==
  ASSUME IndexerInv, UNCHANGED env, NEW v \in Vaults, NEW b \in 0..MaxHeight,
         ProcessCandidate(v, b)
  PROVE  IndexerInv'
<1> USE Parts
<1>1. /\ pc = "discover"
      /\ UNCHANGED <<daemon, archive, raw, indexed, latest, unsubscribes, firstScans>>
  BY DEF ProcessCandidate, nodes, cursors, local, budgets
<1>2. SUFFICES CheckedRows(rows') /\ SyncChecked(pc', job')
  BY <1>1, Assemble
<1>3. CASE UNCHANGED <<rows, job, pc>>
  BY <1>3
<1>4. CASE /\ v \notin DOMAIN rows /\ v \in Safe
           /\ rows' = WithRow(v, NewRow(b, Nothing, TRUE))
           /\ \/ UNCHANGED <<job, pc>>
              \/ job' = Job(v, BackfillFrom, indexed, TRUE, FALSE, "discover")
  <2> DEFINE w == NewRow(b, Nothing, TRUE)
  <2>1. b \in Nat
    BY DeploymentFacts
  <2>2. w \in Row
    BY <2>1, NewRowIsRow
  <2> HIDE DEF w
  <2>3. CheckedRows(rows') /\ rows'[v] = w
    BY <1>4, <2>2, RowAdded DEF w
  <2>4. CASE UNCHANGED <<job, pc>>
    BY <2>3, <2>4
  <2>5. CASE job' = Job(v, BackfillFrom, indexed, TRUE, FALSE, "discover")
    <3> DEFINE batch == FetchEvents(archive, v, BackfillFrom, indexed)
    <3>1. batch \in Seq(Item(v))
      BY BatchOf, DeploymentFacts DEF Chains
    <3>2. w.id \in Nat
      BY <2>2 DEF Row
    <3>3. job' = [vault |-> v, id |-> w.id, batch |-> batch, seq |-> 0,
                  to |-> indexed, finish |-> TRUE, stored |-> FALSE,
                  ingested |-> FALSE, back |-> "discover"]
      BY <2>3, <2>5 DEF Job
    <3> HIDE DEF batch
    <3>4. job' \in JobOn(v) /\ job'.vault = v
      BY <3>1, <3>2, <3>3 DEF JobOn, Callers
    <3> QED BY <1>4, <2>3, <3>4 DEF SyncChecked
  <2> QED BY <1>4, <2>4, <2>5
<1> QED BY <1>3, <1>4 DEF ProcessCandidate

(* Applying an event writes the vault's own row, or starts to track a      *)
(* child that is not verified yet.                                         *)
LEMMA ApplyStep ==
  ASSUME IndexerInv, NEW v \in DOMAIN rows, NEW item \in Item(v), NEW order,
         ApplyEvent(item, order)
  PROVE  CheckedRows(rows')
<1> USE Parts
<1>1. item.event \in Event /\ item.event.vault = v /\ item.height \in Nat
  BY DEF Item
<1>2. CASE ApplySetup(item, order)
  <2>1. rows[v] \in Row
    BY DEF CheckedRows
  <2>2. Parent[v] \in Vaults \cup {Nothing}
    BY <1>1, DeploymentFacts
  <2> DEFINE w == [rows[v] EXCEPT !.parent = Parent[v]]
  <2>3. w \in Row /\ w.verified = rows[v].verified
    BY <2>1, <2>2, RowChanges
  <2>4. rows' = [rows EXCEPT ![v] = w]
    BY <1>1, <1>2 DEF ApplySetup
  <2>5. w.verified => v \in Safe
    BY <2>3 DEF CheckedRows
  <2> HIDE DEF w
  <2> QED BY <2>3, <2>4, <2>5, RowWritten
<1>3. CASE ApplyProposal(item)
  <2> DEFINE c == item.event.child
             w == NewRow(item.height, item.event.vault, FALSE)
  <2>1. item.event.vault \in Vaults \cup {Nothing}
    BY <1>1, DeploymentFacts
  <2>2. w \in Row /\ ~w.verified
    BY <1>1, <2>1, NewRowIsRow
  <2>3. rows' = rows \/ rows' = WithRow(c, w)
    BY <1>3 DEF ApplyProposal
  <2> HIDE DEF w
  <2> QED BY <2>2, <2>3, RowAdded
<1>4. CASE UNCHANGED rows
  BY <1>4
<1> QED BY <1>2, <1>3, <1>4
        DEF ApplyEvent, ApplyConfigChange, ApplyApproval, ApplyExecution

(* A job after one event of its batch.                                     *)
Advanced(j, s, n, b) == [j EXCEPT !.batch = s, !.seq = n, !.ingested = b]

LEMMA JobAdvances ==
  ASSUME NEW v, NEW j \in JobOn(v), NEW s \in Seq(Item(v)), NEW n \in Nat,
         NEW b \in BOOLEAN
  PROVE  Advanced(j, s, n, b) \in JobOn(v) /\ Advanced(j, s, n, b).vault = v
<1> DEFINE w == Advanced(j, s, n, b)
<1>1. [j EXCEPT !.batch = s] \in JobOn(v)
  BY DEF JobOn
<1>2. [[j EXCEPT !.batch = s] EXCEPT !.seq = n] \in JobOn(v)
  BY <1>1 DEF JobOn
<1>3. [[[j EXCEPT !.batch = s] EXCEPT !.seq = n] EXCEPT !.ingested = b] \in JobOn(v)
  BY <1>2 DEF JobOn
<1>4. w = [[[j EXCEPT !.batch = s] EXCEPT !.seq = n] EXCEPT !.ingested = b]
  BY DEF Advanced
<1> HIDE DEF w
<1>5. w \in JobOn(v) /\ w.vault = v
  <2>1. w \in JobOn(v)
    BY <1>3, <1>4
  <2> QED BY <2>1 DEF JobOn
<1> QED BY <1>5 DEF w

LEMMA IngestStep ==
  ASSUME IndexerInv, UNCHANGED env, IngestEvent
  PROVE  IndexerInv'
<1> USE Parts
<1> DEFINE item == Head(job.batch)
           v == job.vault
           ok == Decodes(item.event)
           fresh == ok /\ ~Recorded(item)
<1>1. /\ pc = "sync" /\ job.batch # <<>> /\ v \in DOMAIN rows
      /\ UNCHANGED <<daemon, archive, indexed, latest, unsubscribes, firstScans, pc>>
  BY DEF IngestEvent, Exists, nodes, cursors, local, budgets
<1>2. v \in Safe /\ job \in JobOn(v)
  BY <1>1 DEF SyncChecked
<1>3. job.batch \in Seq(Item(v)) /\ job.seq \in Nat /\ job.ingested \in BOOLEAN
  BY <1>2 DEF JobOn
<1>4. item \in Item(v) /\ Tail(job.batch) \in Seq(Item(v))
  <2> HIDE DEF v
  <2> QED BY <1>1, <1>3
<1>5. item.event.vault = v
  BY <1>4 DEF Item
<1>6. SyncChecked(pc', job')
  <2>1. job' = [job EXCEPT !.batch = Tail(@), !.seq = @ + 1, !.ingested = @ \/ fresh]
    BY DEF IngestEvent
  <2>2. (job.ingested \/ fresh) \in BOOLEAN
    BY Zenon
  <2> DEFINE b == job.ingested \/ fresh
  <2> DEFINE t == Tail(job.batch)
             n == job.seq + 1
  <2>3. job' = Advanced(job, t, n, b)
    BY <2>1 DEF Advanced
  <2>4. b \in BOOLEAN
    BY <2>2
  <2> HIDE DEF b, v, fresh, t, n
  <2>5. job' \in JobOn(v) /\ job'.vault = job.vault
    <3>1. job.vault = v /\ n \in Nat /\ t \in Seq(Item(v))
      BY <1>3, <1>4 DEF v, n, t
    <3> QED BY <1>2, <2>3, <2>4, <3>1, JobAdvances
  <2> QED BY <1>2, <2>5 DEF SyncChecked, v
<1>7. CheckedRows(rows')
  <2>1. UNCHANGED rows \/ ApplyEvent(item, job.seq)
    BY DEF IngestEvent
  <2> QED BY <1>1, <1>4, <2>1, ApplyStep
<1>8. \A r \in raw' : r.event.vault \in Safe
  <2>1. \/ raw' = raw
        \/ \E a : raw' = raw \cup {[event |-> item.event, height |-> item.height,
                                    applied |-> a]}
    BY DEF IngestEvent, RecordEvent
  <2> HIDE DEF item, v
  <2> QED BY <1>2, <1>5, <2>1
<1> QED BY <1>1, <1>6, <1>7, <1>8, Assemble

LEMMA FinishStep ==
  ASSUME IndexerInv, UNCHANGED env, FinishSync
  PROVE  IndexerInv'
<1> USE Parts
<1> DEFINE v == job.vault
           b == rows[v].ready \/ job.ingested \/ (job.stored /\ HasApplied(v))
<1>1. /\ pc = "sync" /\ pc' = job.back
      /\ UNCHANGED <<daemon, archive, raw, indexed, latest, unsubscribes>>
  BY DEF FinishSync, nodes, cursors, local, budgets
<1>2. job \in JobOn(v)
  BY <1>1 DEF SyncChecked
<1>3. SyncChecked(pc', job')
  BY <1>1, <1>2 DEF JobOn, Callers, SyncChecked
<1>4. CheckedRows(rows')
  <2>1. CASE UNCHANGED rows
    BY <2>1
  <2>2. CASE Exists(v, job.id) /\ MarkSynced(v)
    <3>1. v \in DOMAIN rows /\ rows[v] \in Row
      BY <2>2 DEF Exists, CheckedRows
    <3>2. b \in BOOLEAN
      BY Zenon
    <3> DEFINE w == [rows[v] EXCEPT !.synced = TRUE, !.ready = b]
    <3>3. rows' = [rows EXCEPT ![v] = w]
      BY <2>2 DEF MarkSynced
    <3> HIDE DEF b
    <3>4. w \in Row /\ w.verified = rows[v].verified
      BY <3>1, <3>2, RowChanges
    <3>5. w.verified => v \in Safe
      BY <3>1, <3>4 DEF CheckedRows
    <3> HIDE DEF w, v
    <3> QED BY <3>1, <3>3, <3>4, <3>5, RowWritten
  <2> QED BY <2>1, <2>2 DEF FinishSync
<1>5. Scans(firstScans')
  <2>1. \/ firstScans' = [firstScans EXCEPT ![v].next = job.to + 1]
        \/ firstScans' = Forget(v)
        \/ firstScans' = firstScans
    BY DEF FinishSync
  <2>2. job.to + 1 \in Nat
    BY <1>2 DEF JobOn
  <2>3. CASE firstScans' = [firstScans EXCEPT ![v].next = job.to + 1]
    <3>1. v \in DOMAIN firstScans => [firstScans[v] EXCEPT !.next = job.to + 1] \in Scan
      BY <2>2 DEF Scans, Scan
    <3> QED BY <2>3, <3>1 DEF Scans
  <2>4. CASE firstScans' = Forget(v)
    BY <2>4 DEF Forget, Scans
  <2> QED BY <2>1, <2>3, <2>4
<1> QED BY <1>1, <1>3, <1>4, <1>5, Assemble

(* Steps that only move the tick, or drop first scans.                     *)
LEMMA TickStep ==
  ASSUME IndexerInv, UNCHANGED env,
         \/ TickBegins \/ EndDiscovery \/ EndRescan \/ EndTick \/ SyncOrphaned
         \/ CallFails \/ Crash
         \/ \E v \in Vaults, id \in 0..unsubscribes : RescanOrphaned(v, id)
  PROVE  IndexerInv'
<1> USE Parts
<1>1. UNCHANGED <<daemon, archive, raw, rows, unsubscribes>>
  BY DEF TickBegins, EndDiscovery, EndRescan, EndTick, SyncOrphaned, CallFails, Crash,
         RescanOrphaned, nodes, budgets
<1>2. pc' # "sync"
  BY DEF TickBegins, EnterRescan, EndDiscovery, EndRescan, EndTick, SyncOrphaned,
         CallFails, Crash, RescanOrphaned, AbortTick
<1>3. latest' \in Nat
  <2>1. latest' = latest \/ latest' = Len(archive)
    BY DEF TickBegins, EndDiscovery, EndRescan, EndTick, SyncOrphaned, CallFails, Crash,
           RescanOrphaned, LatestBlockHeight, local
  <2> QED BY <2>1 DEF Chains
<1>4. indexed' \in Nat
  BY DEF TickBegins, EndDiscovery, EndRescan, EndTick, SyncOrphaned, CallFails, Crash,
         RescanOrphaned, cursors
<1>5. Scans(firstScans')
  <2>1. \/ UNCHANGED firstScans
        \/ firstScans' = <<>>
        \/ EnterRescan
    BY DEF TickBegins, EndDiscovery, EndRescan, EndTick, SyncOrphaned, CallFails, Crash,
           RescanOrphaned
  <2>2. CASE firstScans' = <<>>
    BY <2>2 DEF Scans
  <2>3. CASE EnterRescan
    BY <2>3 DEF EnterRescan, Scans
  <2> QED BY <2>1, <2>2, <2>3
<1> QED BY <1>1, <1>2, <1>3, <1>4, <1>5, Assemble DEF SyncChecked

LEMMA RouteStep ==
  ASSUME IndexerInv, UNCHANGED env, Routes
  PROVE  IndexerInv'
<1> USE Parts
<1>1. \/ \E v \in Subscribable, b \in 0..MaxHeight : SubscribeFrom(v, b)
      \/ \E v \in Subscribable : SubscribeNew(v)
      \/ \E v \in Subscribable : Unsubscribe(v)
      \/ UnsubscribeFails
      \/ \E v \in DOMAIN rows : DeleteContract(v)
  BY DEF Routes
<1>2. UNCHANGED <<daemon, archive, indexed, latest, firstScans, pc, job>>
  BY <1>1 DEF SubscribeFrom, SubscribeNew, Unsubscribe, UnsubscribeFails, DeleteContract,
     nodes, cursors, local
<1>3. ASSUME NEW v \in Subscribable, NEW b \in 0..MaxHeight, SubscribeFrom(v, b)
      PROVE  IndexerInv'
  <2>1. SubscribeFrom(v, b)
    BY <1>3
  <2>2. b \in Nat /\ v \in Safe /\ UNCHANGED <<raw, unsubscribes>>
    BY <2>1, DeploymentFacts DEF SubscribeFrom, budgets
  <2>3. CASE v \in DOMAIN rows
    <3> DEFINE w == [rows[v] EXCEPT !.verified = TRUE]
    <3>1. w \in Row
      BY <2>3, RowChanges DEF CheckedRows
    <3>2. rows' = [rows EXCEPT ![v] = w]
      BY <2>1, <2>3 DEF SubscribeFrom
    <3> HIDE DEF w
    <3>3. CheckedRows(rows')
      BY <2>2, <2>3, <3>1, <3>2, RowWritten
    <3> QED BY <1>2, <2>2, <3>3, Assemble
  <2>4. CASE v \notin DOMAIN rows
    <3> DEFINE w == NewRow(b, Nothing, TRUE)
    <3>1. w \in Row
      BY <2>2, NewRowIsRow
    <3>2. rows' = WithRow(v, w)
      BY <2>1, <2>4 DEF SubscribeFrom
    <3> HIDE DEF w
    <3>3. CheckedRows(rows')
      BY <2>2, <3>1, <3>2, RowAdded
    <3> QED BY <1>2, <2>2, <3>3, Assemble
  <2> QED BY <2>3, <2>4
<1>4. ASSUME NEW v \in Subscribable, SubscribeNew(v)
      PROVE  IndexerInv'
  <2> DEFINE h == Larger(0, Len(archive) - Margin)
             w == NewRow(h, Nothing, FALSE)
  <2>1. h \in Nat
    BY DeploymentFacts DEF Larger, Chains
  <2> HIDE DEF h
  <2>2. w \in Row /\ ~w.verified
    BY <2>1, NewRowIsRow
  <2>3. rows' = WithRow(v, w) /\ UNCHANGED <<raw, unsubscribes>>
    BY <1>4 DEF SubscribeNew, budgets, h
  <2> HIDE DEF w
  <2>4. CheckedRows(rows')
    BY <2>2, <2>3, RowAdded
  <2> QED BY <1>2, <2>3, <2>4, Assemble
<1>5. ASSUME NEW v \in DOMAIN rows, DeleteContract(v)
      PROVE  IndexerInv'
  <2>1. /\ rows' = [u \in DOMAIN rows \ {v} |-> rows[u]]
        /\ raw' \subseteq raw
        /\ unsubscribes' = unsubscribes + 1
    BY <1>5 DEF DeleteContract, DeleteEvents
  <2>2. CheckedRows(rows')
    BY <2>1, RowsKept
  <2> QED BY <1>2, <2>1, <2>2, Assemble
<1>6. CASE UnsubscribeFails \/ \E v \in Subscribable : Unsubscribe(v)
  <2>1. UNCHANGED <<raw, rows, unsubscribes>>
    BY <1>6 DEF UnsubscribeFails, Unsubscribe, budgets
  <2> QED BY <1>2, <2>1, Assemble
<1> QED BY <1>1, <1>3, <1>4, <1>5, <1>6

LEMMA InitIndexerInv ==
  ASSUME Init
  PROVE  IndexerInv
<1>1. Chains(daemon, archive)
  BY DEF Init, Chains
<1>2. CheckedRows(rows) /\ Scans(firstScans)
  BY DEF Init, CheckedRows, Scans
<1>3. SyncChecked(pc, job) /\ OnlySafeIndexed
  BY DEF Init, SyncChecked, OnlySafeIndexed
<1> QED BY <1>1, <1>2, <1>3 DEF Init, IndexerInv

LEMMA NextIndexerInv ==
  ASSUME IndexerInv, [Next]_<<env, vars>>
  PROVE  IndexerInv'
<1>1. CASE Next
  BY <1>1, ChainStep, RollbackStep, RescanStep, KnownStep, CandidateStep, IngestStep,
     FinishStep, TickStep, RouteStep DEF Next, Tick, Failure
<1>2. CASE UNCHANGED <<env, vars>>
  BY <1>2, Parts, Assemble DEF vars, nodes, cursors, local, budgets
<1> QED BY <1>1, <1>2

-----------------------------------------------------------------------------
(* Headers                                                                 *)

(* What an event writes carries the height of its block, whose header is   *)
(* written with it.                                                        *)
LEMMA ApplyAtHeight ==
  ASSUME NEW item, NEW order, ApplyEvent(item, order)
  PROVE  /\ \A r \in configs' \ configs : r.height = item.height
         /\ \A r \in proposals' \ proposals : r.height = item.height
         /\ \A r \in marks' \ marks : r.height = item.height
<1>1. ASSUME NEW sets, AppendContractConfigSnapshot(item, order, sets)
      PROVE  \A r \in configs' \ configs : r.height = item.height
  BY <1>1 DEF AppendContractConfigSnapshot
<1>2. ASSUME NEW v, UpsertMark(v, item)
      PROVE  \A r \in marks' \ marks : r.height = item.height
  BY <1>2 DEF UpsertMark
<1>3. CASE ApplySetup(item, order)
  BY <1>1, <1>3 DEF ApplySetup
<1>4. CASE ApplyConfigChange(item, order)
  BY <1>1, <1>4 DEF ApplyConfigChange
<1>5. CASE ApplyProposal(item)
  BY <1>5 DEF ApplyProposal
<1>6. CASE ApplyApproval(item)
  BY <1>2, <1>6 DEF ApplyApproval
<1>7. CASE ApplyExecution(item, order)
  <2>1. UNCHANGED proposals
    BY <1>7 DEF ApplyExecution
  <2>2. UNCHANGED configs \/ \E sets : AppendContractConfigSnapshot(item, order, sets)
    BY <1>7 DEF ApplyExecution
  <2>3. UNCHANGED marks \/ \E v : UpsertMark(v, item)
    BY <1>7 DEF ApplyExecution
  <2> QED BY <1>1, <1>2, <2>1, <2>2, <2>3
<1> QED BY <1>3, <1>4, <1>5, <1>6, <1>7 DEF ApplyEvent

LEMMA NextRowsHaveHeaders ==
  ASSUME RowsHaveHeaders, [Next]_<<env, vars>>
  PROVE  RowsHaveHeaders'
<1>1. CASE UNCHANGED <<headers, raw, tables>>
  BY <1>1 DEF RowsHaveHeaders, tables
<1>2. CASE IngestEvent
  <2> DEFINE item == Head(job.batch)
             ok == Decodes(item.event)
  <2>1. CASE UNCHANGED <<headers, raw, tables>>
    BY <1>1, <2>1
  <2>2. CASE /\ RecordEvent(item, ok)
             /\ UNCHANGED tables \/ ApplyEvent(item, job.seq)
    <3>1. DOMAIN headers' = DOMAIN headers \cup {item.height}
      BY <2>2 DEF RecordEvent
    <3>2. \A r \in raw' \ raw : r.height = item.height
      BY <2>2 DEF RecordEvent
    <3>3. /\ \A r \in configs' \ configs : r.height = item.height
          /\ \A r \in proposals' \ proposals : r.height = item.height
          /\ \A r \in marks' \ marks : r.height = item.height
      BY <2>2, ApplyAtHeight DEF tables
    <3> HIDE DEF item
    <3> QED BY <3>1, <3>2, <3>3 DEF RowsHaveHeaders
  <2> QED BY <1>2, <2>1, <2>2 DEF IngestEvent
<1>3. CASE TickRollsBack
  <2> DEFINE f == ForkHeight
  <2>1. /\ DOMAIN headers' = {k \in DOMAIN headers : k <= f}
        /\ raw' \subseteq Below(raw, f)
        /\ configs' \subseteq Below(configs, f)
        /\ proposals' \subseteq Below(proposals, f)
        /\ marks' \subseteq Below(marks, f)
    BY <1>3 DEF TickRollsBack, RollbackAboveFork
  <2> HIDE DEF f
  <2> QED BY <2>1 DEF RowsHaveHeaders, Below
<1>4. ASSUME NEW v, DeleteContract(v)
      PROVE  RowsHaveHeaders'
  <2>1. /\ UNCHANGED headers
        /\ raw' \subseteq raw /\ configs' \subseteq configs
        /\ proposals' \subseteq proposals /\ marks' \subseteq marks
    BY <1>4 DEF DeleteContract, DeleteEvents
  <2> QED BY <2>1 DEF RowsHaveHeaders
<1>5. \/ UNCHANGED <<headers, raw, tables>>
      \/ IngestEvent
      \/ TickRollsBack
      \/ \E v \in DOMAIN rows : DeleteContract(v)
  <2>1. CASE Next
    BY <2>1 DEF Next, Chain, Tick, Failure, Routes, MineBlock, ArchiveIngest, Reorg,
         TickBegins, RescanUnready, SyncKnown, ProcessCandidate, RescanOrphaned,
         EndDiscovery, EndRescan, EndTick, FinishSync, SyncOrphaned, CallFails, Crash,
         SubscribeFrom, SubscribeNew, Unsubscribe, UnsubscribeFails
  <2>2. CASE UNCHANGED <<env, vars>>
    BY <2>2 DEF vars
  <2> QED BY <2>1, <2>2
<1> QED BY <1>1, <1>2, <1>3, <1>4, <1>5

-----------------------------------------------------------------------------
(* The theorems                                                            *)

(* Every EventRaw, ContractConfig, Proposal, Approval and                  *)
(* ProposalExecution row has the header of its block beside it, through    *)
(* ingestion, rollbackAboveFork, crashes, failed calls and unsubscribes.   *)
(* The rollback compares headers only: a row without one would survive     *)
(* every reorg.                                                            *)
THEOREM EveryRowHasItsHeader == Spec => []RowsHaveHeaders
<1>1. Init => RowsHaveHeaders
  BY DEF Init, RowsHaveHeaders
<1>2. RowsHaveHeaders /\ [Next]_<<env, vars>> => RowsHaveHeaders'
  BY NextRowsHaveHeaders
<1> QED BY <1>1, <1>2, PTL DEF Spec

(* The invariant the next theorem rests on: permissionsVerified is set     *)
(* only for accounts with MinaGuard's key and permissions, a running sync  *)
(* is of such an account, and its batch holds nothing but its events.      *)
THEOREM ChecksPrecedeSyncs == Spec => []IndexerInv
<1>1. Init => IndexerInv
  BY InitIndexerInv
<1>2. IndexerInv /\ [Next]_<<env, vars>> => IndexerInv'
  BY NextIndexerInv
<1> QED BY <1>1, <1>2, PTL DEF Spec

(* Whichever way an account came to be tracked (discovery, a proposal that *)
(* names a child, a subscription with or without a check) and whatever the *)
(* chain does meanwhile, nothing is recorded of it unless it passed the    *)
(* account check.                                                          *)
THEOREM OnlyCheckedAccountsRecorded == Spec => []OnlySafeIndexed
<1>1. IndexerInv => OnlySafeIndexed
  BY DEF IndexerInv
<1> QED BY <1>1, ChecksPrecedeSyncs, PTL

=============================================================================
