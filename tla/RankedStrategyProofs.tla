------------------------ MODULE RankedStrategyProofs -------------------------
(***************************************************************************)
(* Proofs about the ranked queue, for every set of users, every slicing of *)
(* the ratings and every bound.                                            *)
(***************************************************************************)
EXTENDS RankedStrategy, FiniteSetTheorems, WellFoundedInduction, TLAPS

-----------------------------------------------------------------------------
(* The operators.                                                          *)

\* What \div means.
LEMMA Division ==
    ASSUME NEW a \in Int, NEW b \in Nat \ {0}
    PROVE  /\ a \div b \in Int
           /\ b * (a \div b) <= a
           /\ a < b * (a \div b) + b
           /\ a % b = 0 => a = b * (a \div b)
OBVIOUS

\* Products grow with their second factor.
LEMMA Monotone ==
    ASSUME NEW b \in Nat \ {0}, NEW q \in Int, NEW r \in Int, q <= r
    PROVE  b * q <= b * r
OBVIOUS

\* A number below n * b falls into one of n slices of width b.
LEMMA Slice ==
    ASSUME NEW n \in Nat, NEW b \in Nat \ {0}, NEW x \in Nat, x < b * n
    PROVE  x \div b \in 0 .. n - 1
<1> DEFINE q == x \div b
<1>1. q \in Int /\ b * q <= x /\ x < b * q + b
  BY Division
<1> HIDE DEF q
<1>2. ASSUME q <= -1 PROVE FALSE
  <2>1. b * q <= b * (-1)
    BY <1>1, <1>2, Monotone
  <2> QED BY <1>1, <2>1
<1>3. ASSUME n <= q PROVE FALSE
  <2>1. b * n <= b * q
    BY <1>1, <1>3, Monotone
  <2> QED BY <1>1, <2>1
<1>4. q \in 0 .. n - 1
  BY <1>1, <1>2, <1>3
<1> QED BY <1>4 DEF q

\* Every rating falls into one of the NUM_BUCKETS + 1 buckets: elo_to_bucket_index
\* never leaves the vector, whatever the rating.
THEOREM IndexInRange ==
    ASSUME NEW elo \in Int
    PROVE  elo_to_bucket_index(elo) \in Buckets
<1> DEFINE R == MAX_ELO_BUCKET - ELO_FLOOR
<1>1. R \in Nat \ {0} /\ R % NUM_BUCKETS = 0 /\ NUM_BUCKETS \in Nat \ {0}
  BY RankedAssumption
<1>2. R = NUM_BUCKETS * BUCKET_SIZE /\ BUCKET_SIZE \in Int
  <2> HIDE DEF R
  <2>1. R = NUM_BUCKETS * (R \div NUM_BUCKETS) /\ R \div NUM_BUCKETS \in Int
    BY <1>1, Division
  <2> QED BY <2>1 DEF R, BUCKET_SIZE
<1>3. BUCKET_SIZE \in Nat \ {0}
  <2> HIDE DEF R
  <2>1. ASSUME BUCKET_SIZE <= 0 PROVE FALSE
    <3>1. NUM_BUCKETS * BUCKET_SIZE <= NUM_BUCKETS * 0
      BY <2>1, <1>1, <1>2, Monotone
    <3> QED BY <3>1, <1>1, <1>2
  <2> QED BY <2>1, <1>2
<1>4. R = BUCKET_SIZE * NUM_BUCKETS
  <2> HIDE DEF R
  <2> QED BY <1>1, <1>2, <1>3
<1>5. CASE elo >= MAX_ELO_BUCKET \/ elo < ELO_FLOOR
  BY <1>5, RankedAssumption DEF elo_to_bucket_index, Buckets
<1>6. CASE elo < MAX_ELO_BUCKET /\ elo >= ELO_FLOOR
  <2>1. elo - ELO_FLOOR \in Nat /\ elo - ELO_FLOOR < R
    BY <1>6, RankedAssumption
  <2>2. (elo - ELO_FLOOR) \div BUCKET_SIZE \in 0 .. NUM_BUCKETS - 1
    <3> HIDE DEF R
    <3> QED BY <2>1, <1>1, <1>3, <1>4, Slice
  <2>3. elo_to_bucket_index(elo) = (elo - ELO_FLOOR) \div BUCKET_SIZE
    BY <1>6, RankedAssumption DEF elo_to_bucket_index
  <2> QED BY <2>2, <2>3, <1>1 DEF Buckets
<1> QED BY <1>5, <1>6, RankedAssumption

\* A bucket that is not empty has a first entry.
LEMMA FrontIsIn ==
    ASSUME NEW b \in SUBSET QueueEntry, b # {}
    PROVE  front(b) \in b
<1> DEFINE nos == {e.no : e \in b}
<1>1. nos \subseteq Nat /\ nos # {}
  BY DEF QueueEntry
<1>2. PICK n \in nos : \A m \in nos : ~ (<<m, n>> \in OpToRel(<, Nat))
  <2> HIDE DEF nos
  <2> QED BY <1>1, NatLessThanWellFounded, WFMin
<1>3. \A m \in nos : n <= m
  <2> SUFFICES ASSUME NEW m \in nos, m < n PROVE FALSE
    BY <1>1
  <2>1. <<m, n>> \in OpToRel(<, Nat)
    BY <1>1 DEF OpToRel
  <2> QED BY <2>1, <1>2
<1>4. \E e \in b : \A f \in b : e.no <= f.no
  BY <1>2, <1>3
<1> QED BY <1>4 DEF front

-----------------------------------------------------------------------------
(* The queue: buckets and lookup table.                                    *)

QueueOK ==
    /\ elo_buckets_ \in [Buckets -> SUBSET QueueEntry]
    /\ Queued \subseteq Users
    /\ lookup_ \in [Queued -> LookupData]
    /\ \A i \in Buckets : IsFiniteSet(elo_buckets_[i])
    /\ LookupMatchesBuckets

\* Removing queued users keeps the two in step and adds nobody to a bucket.
LEMMA RemoveKeepsQueue ==
    ASSUME QueueOK, NEW S, S \subseteq Queued, remove(S)
    PROVE  /\ QueueOK'
           /\ \A i \in Buckets : elo_buckets_'[i] \subseteq elo_buckets_[i]
           /\ \A i \in Buckets : \A e \in elo_buckets_[i] :
                    e.user \in S => e \notin elo_buckets_'[i]
<1>1. Queued' = Queued \ S /\ \A u \in Queued \ S : lookup_'[u] = lookup_[u]
  BY DEF remove, Queued, Restrict
<1>2. lookup_' \in [Queued' -> LookupData]
  BY <1>1 DEF QueueOK, remove, Queued, Restrict
<1>3. ASSUME NEW i \in Buckets
      PROVE  /\ elo_buckets_'[i] \subseteq elo_buckets_[i]
             /\ \A e \in elo_buckets_[i] :
                    e \in elo_buckets_'[i] <=> e.user \notin S
  <2>1. elo_buckets_'[i] = elo_buckets_[i] \ {lookup_[u].iter :
                                u \in {v \in S : lookup_[v].bucket_index = i}}
    BY DEF remove
  <2>2. ASSUME NEW e \in elo_buckets_[i]
        PROVE  e \in elo_buckets_'[i] <=> e.user \notin S
    <3>1. e.user \in Queued /\ lookup_[e.user] = [bucket_index |-> i, iter |-> e]
      BY DEF QueueOK, LookupMatchesBuckets
    <3>2. \A u \in S : lookup_[u].iter = e => u = e.user
      BY DEF QueueOK, LookupMatchesBuckets
    <3> QED BY <2>1, <3>1, <3>2
  <2> QED BY <2>1, <2>2
<1>4. elo_buckets_' \in [Buckets -> SUBSET QueueEntry]
  <2>1. elo_buckets_' = [i \in Buckets |-> elo_buckets_'[i]]
    BY DEF remove
  <2> QED BY <2>1, <1>3 DEF QueueOK
<1>5. \A i \in Buckets : IsFiniteSet(elo_buckets_'[i])
  BY <1>3, FS_Subset DEF QueueOK
<1>6. LookupMatchesBuckets'
  <2>1. ASSUME NEW u \in Queued'
        PROVE  /\ lookup_'[u].iter.user = u
               /\ lookup_'[u].iter \in elo_buckets_'[lookup_'[u].bucket_index]
    <3>1. lookup_'[u] = lookup_[u] /\ u \in Queued /\ u \notin S
      BY <1>1
    <3>2. /\ lookup_[u].iter.user = u
          /\ lookup_[u].iter \in elo_buckets_[lookup_[u].bucket_index]
          /\ lookup_[u].bucket_index \in Buckets
      BY <3>1 DEF QueueOK, LookupMatchesBuckets, LookupData
    <3> QED BY <3>1, <3>2, <1>3
  <2>2. ASSUME NEW i \in Buckets, NEW e \in elo_buckets_'[i]
        PROVE  /\ e.user \in Queued'
               /\ lookup_'[e.user] = [bucket_index |-> i, iter |-> e]
    <3>1. e \in elo_buckets_[i] /\ e.user \notin S
      BY <1>3, <2>2
    <3>2. e.user \in Queued /\ lookup_[e.user] = [bucket_index |-> i, iter |-> e]
      BY <3>1 DEF QueueOK, LookupMatchesBuckets
    <3> QED BY <3>1, <3>2, <1>1
  <2> QED BY <2>1, <2>2 DEF LookupMatchesBuckets
<1>7. Queued' \subseteq Users
  BY <1>1 DEF QueueOK
<1>8. QueueOK'
  BY <1>2, <1>4, <1>5, <1>6, <1>7 DEF QueueOK
<1> QED BY <1>3, <1>8

\* Pushing a player who is not queued keeps the two in step.
LEMMA EnqueueKeepsQueue ==
    ASSUME QueueOK, now \in Nat, entered \in Nat,
           NEW u \in Users, NEW elo \in Elos, Enqueue(u, elo)
    PROVE  QueueOK'
<1> DEFINE i == elo_to_bucket_index(elo)
           entry == [user |-> u, enqueued_at |-> now, no |-> entered]
           data == [bucket_index |-> i, iter |-> entry]
<1>1. i \in Buckets
  BY IndexInRange, RankedAssumption
<1>2. entry \in QueueEntry /\ entry.user = u
  BY DEF QueueEntry
<1>3. data \in LookupData /\ data.bucket_index = i /\ data.iter = entry
  BY <1>1, <1>2 DEF LookupData
<1>4. /\ u \notin Queued
      /\ elo_buckets_' = [elo_buckets_ EXCEPT ![i] = @ \cup {entry}]
      /\ lookup_' = [v \in Queued \cup {u} |-> IF v = u THEN data ELSE lookup_[v]]
  BY DEF Enqueue
<1> HIDE DEF i, entry, data
<1>5. /\ Queued' = Queued \cup {u}
      /\ lookup_'[u] = data
      /\ \A v \in Queued : lookup_'[v] = lookup_[v]
  BY <1>4 DEF Queued
<1>6. lookup_' \in [Queued' -> LookupData]
  BY <1>3, <1>4, <1>5 DEF QueueOK
<1>7. /\ elo_buckets_'[i] = elo_buckets_[i] \cup {entry}
      /\ \A j \in Buckets \ {i} : elo_buckets_'[j] = elo_buckets_[j]
      /\ elo_buckets_' \in [Buckets -> SUBSET QueueEntry]
  BY <1>1, <1>2, <1>4 DEF QueueOK
<1>8. \A j \in Buckets : IsFiniteSet(elo_buckets_'[j])
  BY <1>1, <1>7, FS_AddElement DEF QueueOK
<1>9. LookupMatchesBuckets'
  <2>1. ASSUME NEW v \in Queued'
        PROVE  /\ lookup_'[v].iter.user = v
               /\ lookup_'[v].iter \in elo_buckets_'[lookup_'[v].bucket_index]
    <3>1. CASE v = u
      BY <3>1, <1>2, <1>3, <1>5, <1>7
    <3>2. CASE v \in Queued
      <4>1. /\ lookup_[v].iter.user = v
            /\ lookup_[v].iter \in elo_buckets_[lookup_[v].bucket_index]
            /\ lookup_[v].bucket_index \in Buckets
        BY <3>2 DEF QueueOK, LookupMatchesBuckets, LookupData
      <4> QED BY <4>1, <3>2, <1>5, <1>7
    <3> QED BY <3>1, <3>2, <1>5
  <2>2. ASSUME NEW j \in Buckets, NEW e \in elo_buckets_'[j]
        PROVE  /\ e.user \in Queued'
               /\ lookup_'[e.user] = [bucket_index |-> j, iter |-> e]
    <3>1. CASE e \in elo_buckets_[j]
      <4>1. e.user \in Queued /\ lookup_[e.user] = [bucket_index |-> j, iter |-> e]
        BY <3>1 DEF QueueOK, LookupMatchesBuckets
      <4> QED BY <4>1, <1>5
    <3>2. CASE e \notin elo_buckets_[j]
      <4>1. j = i /\ e = entry
        BY <3>2, <2>2, <1>7
      <4> QED BY <4>1, <1>2, <1>5 DEF data
    <3> QED BY <3>1, <3>2
  <2> QED BY <2>1, <2>2 DEF LookupMatchesBuckets
<1>10. Queued' \subseteq Users
  BY <1>5 DEF QueueOK
<1> QED BY <1>6, <1>7, <1>8, <1>9, <1>10 DEF QueueOK

-----------------------------------------------------------------------------
(* The loop of try_form_match.                                             *)

\* The nearest candidate exists.
LEMMA NearestIsCandidate ==
    ASSUME NEW i \in Buckets, candidates(i) # {}
    PROVE  nearest(i) \in candidates(i)
<1> DEFINE rank(j) == 2 * distance(i, j) + (IF j > i THEN 1 ELSE 0)
           ranks == {rank(j) : j \in candidates(i)}
<1>0. candidates(i) \subseteq Buckets /\ Buckets \subseteq Int
  BY RankedAssumption DEF candidates, Buckets
<1>1. \A j \in Buckets : rank(j) \in Nat
  BY <1>0 DEF distance
<1>2. ranks \subseteq Nat /\ ranks # {}
  <2> HIDE DEF rank
  <2> QED BY <1>0, <1>1
<1>3. PICK n \in ranks : \A m \in ranks : ~ (<<m, n>> \in OpToRel(<, Nat))
  <2> HIDE DEF ranks
  <2> QED BY <1>2, NatLessThanWellFounded, WFMin
<1>4. \A m \in ranks : n <= m
  <2> SUFFICES ASSUME NEW m \in ranks, m < n PROVE FALSE
    <3> HIDE DEF ranks
    <3> QED BY <1>2
  <2>1. <<m, n>> \in OpToRel(<, Nat)
    <3> HIDE DEF ranks
    <3> QED BY <1>2 DEF OpToRel
  <2> QED BY <2>1, <1>3
<1>5. PICK j \in candidates(i) : n = rank(j)
  BY <1>3
<1>6. ASSUME NEW k \in candidates(i) PROVE closer(i, j, k)
  <2>1. rank(j) <= rank(k)
    <3> HIDE DEF rank
    <3> QED BY <1>4, <1>5
  <2>2. i \in Int /\ j \in Int /\ k \in Int
    BY <1>0
  <2> QED BY <2>1, <2>2 DEF closer, distance
<1> QED BY <1>5, <1>6 DEF nearest

\* Bucket i needs no more attention in this tick.
Done(i) ==
    /\ Cardinality(elo_buckets_[i]) <= 1
    /\ i \notin paired => \A e \in elo_buckets_[i] : ~Reaches(e, i)

\* The buckets that the loop has passed are done.
Passed == InLoop => \A i \in Buckets : i > cursor => Done(i)

IInv == TypeOK /\ QueueOK /\ Passed

\* Buckets that only lose players stay done.
LEMMA ShrinkKeepsDone ==
    ASSUME QueueOK, QueueOK', NEW i \in Buckets, Done(i),
           \A j \in Buckets : elo_buckets_'[j] \subseteq elo_buckets_[j],
           tick_now' = tick_now, paired \subseteq paired'
    PROVE  Done(i)'
<1>1. Cardinality(elo_buckets_'[i]) <= 1
  <2>1. /\ Cardinality(elo_buckets_'[i]) <= Cardinality(elo_buckets_[i])
        /\ Cardinality(elo_buckets_'[i]) \in Nat
        /\ Cardinality(elo_buckets_[i]) \in Nat
    BY FS_Subset, FS_CardinalityType DEF QueueOK
  <2> QED BY <2>1 DEF Done
<1>2. ASSUME i \notin paired', NEW e \in elo_buckets_'[i] PROVE ~Reaches(e, i)'
  <2>1. e \in elo_buckets_[i] /\ i \notin paired
    BY <1>2
  <2>2. ~Reaches(e, i)
    BY <2>1 DEF Done
  <2> QED BY <2>2 DEF Reaches, delta
<1> QED BY <1>1, <1>2 DEF Done

\* The first players of a bucket are queued.
LEMMA EntriesAreQueued ==
    ASSUME QueueOK, NEW i \in Buckets
    PROVE  /\ elo_buckets_[i] # {} =>
                /\ front(elo_buckets_[i]) \in elo_buckets_[i]
                /\ front(elo_buckets_[i]).user \in Queued
           /\ Cardinality(elo_buckets_[i]) >= 2 =>
                /\ elo_buckets_[i] # {}
                /\ next(elo_buckets_[i]) \in elo_buckets_[i]
                /\ next(elo_buckets_[i]).user \in Queued
<1> DEFINE b == elo_buckets_[i]
<1>1. b \in SUBSET QueueEntry /\ \A e \in b : e.user \in Queued
  BY DEF QueueOK, LookupMatchesBuckets
<1> HIDE DEF b
<1>2. b # {} => front(b) \in b
  BY <1>1, FrontIsIn
<1>3. ASSUME Cardinality(b) >= 2 PROVE b # {} /\ next(b) \in b
  <2>1. b # {}
    BY <1>3, FS_EmptySet
  <2>2. b \ {front(b)} # {}
    <3> SUFFICES ASSUME b = {front(b)} PROVE FALSE
      BY <1>2, <2>1
    <3>1. Cardinality(b) = 1
      BY FS_Singleton
    <3> QED BY <1>3, <3>1
  <2>3. next(b) \in b \ {front(b)}
    BY <1>1, <2>2, FrontIsIn DEF next
  <2> QED BY <2>1, <2>3
<1> QED BY <1>1, <1>2, <1>3 DEF b

\* A step of the loop keeps the queue in order and only takes players out.
LEMMA LoopKeepsQueue ==
    ASSUME QueueOK, TryFormMatch
    PROVE  /\ QueueOK'
           /\ \A i \in Buckets : elo_buckets_'[i] \subseteq elo_buckets_[i]
           /\ MatchNeighbour => front(bucket) \notin elo_buckets_'[cursor]
<1>1. CASE MatchWithin
  <2>1. cursor \in Buckets /\ Cardinality(bucket) >= 2
        /\ remove({front(bucket).user, next(bucket).user})
    BY <1>1 DEF MatchWithin, InLoop, Within, match_and_remove
  <2>2. {front(bucket).user, next(bucket).user} \subseteq Queued
    BY <2>1, EntriesAreQueued DEF bucket
  <2>3. QueueOK' /\ \A i \in Buckets : elo_buckets_'[i] \subseteq elo_buckets_[i]
    BY <2>1, <2>2, RemoveKeepsQueue
  <2>4. ~MatchNeighbour
    BY <2>1 DEF MatchNeighbour, Lone
  <2> QED BY <2>3, <2>4
<1>2. CASE MatchNeighbour
  <2> DEFINE e1 == front(bucket)
             e2 == front(elo_buckets_[nearest(cursor)])
  <2>1. cursor \in Buckets /\ Cardinality(bucket) = 1 /\ candidates(cursor) # {}
        /\ remove({e1.user, e2.user})
    BY <1>2 DEF MatchNeighbour, InLoop, Lone, match_and_remove
  <2>2. bucket # {}
    BY <2>1, FS_EmptySet
  <2>3. e1 \in elo_buckets_[cursor] /\ e1.user \in Queued
    BY <2>1, <2>2, EntriesAreQueued DEF bucket
  <2>4. nearest(cursor) \in Buckets /\ elo_buckets_[nearest(cursor)] # {}
    BY <2>1, NearestIsCandidate DEF candidates
  <2>5. e2.user \in Queued
    BY <2>4, EntriesAreQueued
  <2> HIDE DEF e1, e2
  <2>6. {e1.user, e2.user} \subseteq Queued
    BY <2>3, <2>5
  <2>7. /\ QueueOK'
        /\ \A i \in Buckets : elo_buckets_'[i] \subseteq elo_buckets_[i]
        /\ \A i \in Buckets : \A e \in elo_buckets_[i] :
                e.user \in {e1.user, e2.user} => e \notin elo_buckets_'[i]
    BY <2>1, <2>6, RemoveKeepsQueue
  <2>8. e1 \notin elo_buckets_'[cursor]
    BY <2>1, <2>3, <2>7
  <2> QED BY <2>7, <2>8 DEF e1
<1>3. CASE SkipBucket
  <2>1. UNCHANGED <<elo_buckets_, lookup_>> /\ ~Within /\ (Lone => candidates(cursor) = {})
    BY <1>3 DEF SkipBucket
  <2>2. QueueOK'
    BY <2>1 DEF QueueOK, LookupMatchesBuckets, Queued
  <2>3. ~MatchNeighbour
    BY <2>1 DEF MatchNeighbour
  <2> QED BY <2>1, <2>2, <2>3
<1> QED BY <1>1, <1>2, <1>3 DEF TryFormMatch

\* When the loop moves on, the bucket it leaves is done.
LEMMA BucketIsDone ==
    ASSUME IInv, MatchNeighbour \/ SkipBucket
    PROVE  \A i \in Buckets : i > cursor' => Done(i)'
<1>1. /\ cursor \in Buckets /\ Buckets \subseteq Int
      /\ cursor' = cursor - 1 /\ tick_now' = tick_now /\ paired' = paired
  BY RankedAssumption DEF MatchNeighbour, SkipBucket, InLoop, Buckets
<1>2. /\ QueueOK /\ QueueOK'
      /\ \A i \in Buckets : elo_buckets_'[i] \subseteq elo_buckets_[i]
      /\ MatchNeighbour => front(bucket) \notin elo_buckets_'[cursor]
  BY LoopKeepsQueue DEF IInv, TryFormMatch
<1>3. ASSUME NEW i \in Buckets, i > cursor PROVE Done(i)'
  <2>1. Done(i)
    BY <1>1, <1>3 DEF IInv, Passed, InLoop
  <2> QED BY <1>1, <1>2, <2>1, ShrinkKeepsDone
<1>4. IsFiniteSet(bucket) /\ Cardinality(bucket) \in Nat
  BY <1>1, <1>2, FS_CardinalityType DEF QueueOK, bucket
<1>5. ASSUME NEW c \in Buckets, c = cursor PROVE Done(c)'
  <2>1. CASE MatchNeighbour
    <3>1. PICK x : bucket = {x}
      BY <2>1, <1>4, FS_Singleton DEF MatchNeighbour, Lone
    <3>2. front(bucket) = x
      BY <3>1, <1>1, <1>2, EntriesAreQueued DEF bucket
    <3>3. elo_buckets_'[cursor] = {}
      BY <3>1, <3>2, <2>1, <1>1, <1>2 DEF bucket
    <3>4. Cardinality(elo_buckets_'[cursor]) = 0
      BY <3>3, FS_EmptySet
    <3>5. Cardinality(elo_buckets_'[cursor]) <= 1
      BY <3>4
    <3> QED BY <1>5, <3>3, <3>5 DEF Done
  <2>2. CASE SkipBucket
    <3>1. /\ elo_buckets_' = elo_buckets_ /\ ~(Cardinality(bucket) >= 2)
          /\ Lone => candidates(cursor) = {}
      BY <2>2 DEF SkipBucket, Within
    <3>2. ASSUME cursor \notin paired, NEW e \in bucket PROVE ~Reaches(e, cursor)
      <4>1. Cardinality(bucket) # 0
        BY <3>2, <1>4, FS_EmptySet
      <4>2. Cardinality(bucket) = 1
        BY <4>1, <3>1, <1>4
      <4>3. PICK x : bucket = {x}
        BY <4>2, <1>4, FS_Singleton
      <4>4. front(bucket) = e
        BY <4>3, <3>2, <1>1, <1>2, EntriesAreQueued DEF bucket
      <4>5. candidates(cursor) = {}
        BY <4>2, <3>2, <3>1 DEF Lone
      <4> QED BY <4>4, <4>5 DEF candidates, Reaches, bucket
    <3>3. Done(c)
      BY <1>5, <3>1, <3>2, <1>4 DEF Done, bucket
    <3> QED BY <3>3, <1>1, <1>2, ShrinkKeepsDone
  <2> QED BY <2>1, <2>2
<1> QED
  <2> SUFFICES ASSUME NEW i \in Buckets, i > cursor' PROVE Done(i)'
    OBVIOUS
  <2>1. i = cursor \/ i > cursor
    BY <1>1
  <2> QED BY <2>1, <1>3, <1>5

-----------------------------------------------------------------------------
(* The inductive invariant.                                                *)

LEMMA InitOK == Init => IInv
<1> SUFFICES ASSUME Init PROVE IInv
  OBVIOUS
<1>1. QueueOK
  BY FS_EmptySet DEF Init, QueueOK, LookupMatchesBuckets, Queued
<1>2. TypeOK
  BY <1>1 DEF Init, TypeOK, QueueOK, NoBucket
<1>3. Passed
  BY RankedAssumption DEF Init, Passed, InLoop, NoBucket, Buckets
<1> QED BY <1>1, <1>2, <1>3 DEF IInv

LEMMA StepOK == IInv /\ [Next]_vars => IInv'
<1> SUFFICES ASSUME IInv, [Next]_vars PROVE IInv'
  OBVIOUS
<1>0. TypeOK /\ QueueOK /\ Passed
  BY DEF IInv
<1>1. NUM_BUCKETS \in Buckets /\ Buckets \subseteq Int /\ NoBucket \notin Buckets
  BY RankedAssumption DEF Buckets, NoBucket
<1>2. ASSUME NEW u \in Users, NEW elo \in Elos, Enqueue(u, elo) PROVE IInv'
  <2>1. QueueOK'
    BY <1>0, <1>2, EnqueueKeepsQueue DEF TypeOK
  <2>2. TypeOK'
    BY <1>0, <1>2, <2>1 DEF TypeOK, QueueOK, Enqueue
  <2>3. Passed'
    BY <1>1, <1>2 DEF Enqueue, StrandFree, Passed, InLoop
  <2> QED BY <2>1, <2>2, <2>3 DEF IInv
<1>3. ASSUME NEW u \in Users, Cancel(u) PROVE IInv'
  <2>1. QueueOK'
    BY <1>0, <1>3, RemoveKeepsQueue DEF Cancel
  <2>2. TypeOK'
    BY <1>0, <1>3, <2>1 DEF TypeOK, QueueOK, Cancel
  <2>3. Passed'
    BY <1>1, <1>3 DEF Cancel, StrandFree, Passed, InLoop
  <2> QED BY <2>1, <2>2, <2>3 DEF IInv
<1>4. CASE Tick
  <2>1. QueueOK'
    BY <1>0, <1>4 DEF Tick, QueueOK, LookupMatchesBuckets, Queued
  <2>2. TypeOK'
    BY <1>0, <1>1, <1>4, <2>1 DEF TypeOK, QueueOK, Tick
  <2>3. Passed'
    <3>1. \A i \in Buckets : ~(i > NUM_BUCKETS)
      BY RankedAssumption DEF Buckets
    <3> QED BY <1>4, <3>1 DEF Tick, Passed
  <2> QED BY <2>1, <2>2, <2>3 DEF IInv
<1>5. CASE MatchWithin
  <2>1. QueueOK' /\ \A i \in Buckets : elo_buckets_'[i] \subseteq elo_buckets_[i]
    BY <1>0, <1>5, LoopKeepsQueue DEF TryFormMatch
  <2>2. /\ cursor \in Buckets /\ cursor' = cursor /\ tick_now' = tick_now
        /\ paired' = paired \cup {cursor} /\ now' = now /\ entered' = entered
    BY <1>5 DEF MatchWithin, InLoop
  <2>3. TypeOK'
    BY <1>0, <2>1, <2>2 DEF TypeOK, QueueOK
  <2>4. Passed'
    <3> SUFFICES ASSUME NEW i \in Buckets, i > cursor' PROVE Done(i)'
      BY DEF Passed
    <3>1. Done(i)
      BY <1>0, <2>2 DEF Passed, InLoop
    <3> QED BY <1>0, <2>1, <2>2, <3>1, ShrinkKeepsDone
  <2> QED BY <2>1, <2>3, <2>4 DEF IInv
<1>6. CASE MatchNeighbour \/ SkipBucket
  <2>1. QueueOK'
    BY <1>0, <1>6, LoopKeepsQueue DEF TryFormMatch
  <2>2. /\ cursor \in Buckets /\ cursor' = cursor - 1 /\ tick_now' = tick_now
        /\ paired' = paired /\ now' = now /\ entered' = entered
    BY <1>6 DEF MatchNeighbour, SkipBucket, InLoop
  <2>3. cursor' \in Buckets \cup {NoBucket}
    BY <2>2, RankedAssumption DEF Buckets, NoBucket
  <2>4. TypeOK'
    BY <1>0, <2>1, <2>2, <2>3 DEF TypeOK, QueueOK
  <2>5. Passed'
    BY <1>6, BucketIsDone DEF Passed
  <2> QED BY <2>1, <2>4, <2>5 DEF IInv
<1>7. CASE TimePasses \/ UNCHANGED vars
  <2>1. UNCHANGED <<elo_buckets_, lookup_, cursor, tick_now, paired, entered>>
        /\ now' \in Nat /\ now <= now'
    BY <1>0, <1>7 DEF TimePasses, vars, TypeOK
  <2>2. QueueOK'
    BY <1>0, <2>1 DEF QueueOK, LookupMatchesBuckets, Queued
  <2>3. TypeOK'
    BY <1>0, <2>1, <2>2 DEF TypeOK, QueueOK
  <2>4. Passed'
    BY <1>0, <2>1 DEF Passed, InLoop, Done, Reaches, delta
  <2> QED BY <2>2, <2>3, <2>4 DEF IInv
<1> QED BY <1>2, <1>3, <1>4, <1>5, <1>6, <1>7 DEF Next

LEMMA Inductive == Spec => []IInv
BY InitOK, StepOK, PTL DEF Spec

-----------------------------------------------------------------------------
(* Results.                                                                *)

\* The buckets, the lookup table and the loop variable keep their types; no list
\* outside the vector is ever used.
THEOREM TypeCorrect == Spec => []TypeOK
<1>1. IInv => TypeOK
  BY DEF IInv
<1> QED BY <1>1, Inductive, PTL

\* The iterators in lookup_ are never stale: lookup_ and elo_buckets_ always describe
\* the same queue, in the middle of a tick too.
THEOREM LookupCorrect == Spec => []LookupMatchesBuckets
<1>1. IInv => LookupMatchesBuckets
  BY DEF IInv, QueueOK
<1> QED BY <1>1, Inductive, PTL

\* A tick leaves no two players in a bucket, and outside the buckets that have formed
\* pairs nobody who has an opponent in the window.
THEOREM TicksAreMaximal == Spec => TickIsMaximal
<1>1. IInv /\ [Next]_vars =>
        [TickEnds => \A i \in Buckets :
            /\ Cardinality(elo_buckets_'[i]) <= 1
            /\ i \notin paired' => \A e \in elo_buckets_'[i] : ~Reaches(e, i)']_vars
  <2> SUFFICES ASSUME IInv, Next, TickEnds
               PROVE  \A i \in Buckets :
                        /\ Cardinality(elo_buckets_'[i]) <= 1
                        /\ i \notin paired' =>
                                \A e \in elo_buckets_'[i] : ~Reaches(e, i)'
    OBVIOUS
  <2>1. cursor = 0 /\ cursor' = -1
    BY DEF TickEnds, NoBucket
  <2>2. MatchNeighbour \/ SkipBucket
    BY <2>1, RankedAssumption DEF Next, Enqueue, Cancel, Tick, MatchWithin, TimePasses
  <2>3. \A i \in Buckets : Done(i)'
    <3>1. \A i \in Buckets : i > cursor'
      BY <2>1, RankedAssumption DEF Buckets
    <3> QED BY <2>2, <3>1, BucketIsDone
  <2> QED BY <2>3 DEF Done
<1> QED BY <1>1, Inductive, PTL DEF Spec, TickIsMaximal

=============================================================================
