--------------------------- MODULE RankedStrategy ----------------------------
(***************************************************************************)
(* The ranked queue of the server: RankedTwoPlayerStrategy of              *)
(* match-strategy.h, .cpp.  Players wait in buckets by Elo; a tick of the  *)
(* match maker walks from the highest bucket to the lowest and forms       *)
(* matches within a bucket or, for a lone player, with the nearest bucket  *)
(* of a window that grows with the time the player has waited.             *)
(*                                                                         *)
(* enqueue, cancel and tick run on one strand.  A tick is modelled bucket  *)
(* by bucket and match by match, `cursor` being the loop variable; no      *)
(* other handler runs in between, only the clock moves on.  A bucket, a    *)
(* std::list, is the set of its entries, numbered in the order they were   *)
(* pushed; an iterator is the entry it points to.                          *)
(***************************************************************************)
EXTENDS Integers, FiniteSets, Functions

CONSTANTS
    Users,
    Elos,                   \* the ratings users may have when they queue
    ELO_FLOOR, MAX_ELO_BUCKET, NUM_BUCKETS,
    MAX_BUCKETS_DIFF,       \* how many buckets a window may span to each side
    BUCKET_INCREMENT_TIME,  \* waiting time that widens the window by one bucket
    MaxEnqueues,            \* bound: players pushed
    MaxQueueTime,           \* bound: players queue up to this time
    MaxTime                 \* bound: the clock

BUCKET_SIZE == (MAX_ELO_BUCKET - ELO_FLOOR) \div NUM_BUCKETS

\* The static_asserts of the class, and that there is a range to slice up.
ASSUME RankedAssumption ==
    /\ Elos \subseteq Int
    /\ ELO_FLOOR \in Int /\ MAX_ELO_BUCKET \in Int /\ NUM_BUCKETS \in Nat \ {0}
    /\ MAX_ELO_BUCKET > ELO_FLOOR
    /\ (MAX_ELO_BUCKET - ELO_FLOOR) % NUM_BUCKETS = 0
    /\ MAX_BUCKETS_DIFF \in Nat \ {0}
    /\ BUCKET_INCREMENT_TIME \in Nat \ {0}
    /\ MaxEnqueues \in Nat /\ MaxQueueTime \in Nat /\ MaxTime \in Nat

Buckets == 0 .. NUM_BUCKETS
NoBucket == -1              \* the loop is over, or has not begun

VARIABLES
    elo_buckets_,
    lookup_,        \* queued user -> LookupData
    cursor,         \* the bucket that try_form_match is looking at
    tick_now,       \* the time at which try_form_match was called
    paired,         \* buckets in which it has found two players
    now,            \* steady_clock
    entered         \* players pushed so far

vars == <<elo_buckets_, lookup_, cursor, tick_now, paired, now, entered>>

QueueEntry == [user : Users, enqueued_at : Nat, no : Nat]
LookupData == [bucket_index : Buckets, iter : QueueEntry]

\* Slip: no overflow bucket.
elo_to_bucket_open(elo) ==
    IF elo < ELO_FLOOR THEN 0 ELSE (elo - ELO_FLOOR) \div BUCKET_SIZE

elo_to_bucket_index(elo) ==
    IF elo >= MAX_ELO_BUCKET THEN NUM_BUCKETS
    ELSE IF elo < ELO_FLOOR THEN 0
    ELSE (elo - ELO_FLOOR) \div BUCKET_SIZE

Init ==
    /\ elo_buckets_ = [i \in Buckets |-> {}]
    /\ lookup_ = [u \in {} |-> 0]
    /\ cursor = NoBucket /\ tick_now = 0 /\ paired = {}
    /\ now = 0 /\ entered = 0

Queued == DOMAIN lookup_

\* No handler is running on the strand.
StrandFree == cursor = NoBucket

-----------------------------------------------------------------------------
(* Handlers.                                                               *)

Enqueue(u, elo) ==
    LET i == elo_to_bucket_index(elo)
        entry == [user |-> u, enqueued_at |-> now, no |-> entered]
    IN  /\ StrandFree /\ entered < MaxEnqueues /\ now <= MaxQueueTime
        /\ u \notin Queued
        /\ elo_buckets_' = [elo_buckets_ EXCEPT ![i] = @ \cup {entry}]
        /\ lookup_' = [v \in Queued \cup {u} |->
                IF v = u THEN [bucket_index |-> i, iter |-> entry] ELSE lookup_[v]]
        /\ entered' = entered + 1
        /\ UNCHANGED <<cursor, tick_now, paired, now>>

\* Slip: the lookup entries stay.
remove_entries(S) ==
    /\ elo_buckets_' = [i \in Buckets |->
            elo_buckets_[i] \ {lookup_[u].iter :
                                    u \in {v \in S : lookup_[v].bucket_index = i}}]
    /\ lookup_' = lookup_

\* The entries of users S are erased through the iterators that lookup_ holds for
\* them, then their lookup entries.
remove(S) ==
    /\ elo_buckets_' = [i \in Buckets |->
            elo_buckets_[i] \ {lookup_[u].iter :
                                    u \in {v \in S : lookup_[v].bucket_index = i}}]
    /\ lookup_' = Restrict(lookup_, Queued \ S)

Cancel(u) ==
    /\ StrandFree
    /\ u \in Queued
    /\ remove({u})
    /\ UNCHANGED <<cursor, tick_now, paired, now, entered>>

\* tick(): try_form_match reads the clock once and starts at the highest bucket.
Tick ==
    /\ StrandFree
    /\ cursor' = NUM_BUCKETS /\ tick_now' = now /\ paired' = {}
    /\ UNCHANGED <<elo_buckets_, lookup_, now, entered>>

-----------------------------------------------------------------------------
(* try_form_match, one bucket and one match at a time.                     *)

bucket == elo_buckets_[cursor]

front(b) == CHOOSE e \in b : \A f \in b : e.no <= f.no
next(b) == front(b \ {front(b)})

match_and_remove(e1, e2) == remove({e1.user, e2.user})

distance(i, j) == IF i < j THEN j - i ELSE i - j

\* Slip: a window that would be too wide is closed.
delta_closed(e) ==
    LET increments == (tick_now - e.enqueued_at) \div BUCKET_INCREMENT_TIME
    IN  IF increments > MAX_BUCKETS_DIFF THEN 0 ELSE increments

\* How far the player of entry e may look.
delta(e) ==
    LET increments == (tick_now - e.enqueued_at) \div BUCKET_INCREMENT_TIME
    IN  IF increments > MAX_BUCKETS_DIFF THEN MAX_BUCKETS_DIFF ELSE increments

\* Slip: the search stops one bucket short.
candidates_short(i) ==
    {j \in Buckets \ {i} : /\ distance(i, j) < delta(front(elo_buckets_[i]))
                           /\ elo_buckets_[j] # {}}

\* The nonempty buckets in the window of the first player of bucket i.
candidates(i) ==
    {j \in Buckets \ {i} : /\ distance(i, j) <= delta(front(elo_buckets_[i]))
                           /\ elo_buckets_[j] # {}}

\* The nearest one; of two at the same distance the lower.
closer(i, j, k) ==
    distance(i, j) < distance(i, k) \/ (distance(i, j) = distance(i, k) /\ j <= k)
nearest(i) == CHOOSE j \in candidates(i) : \A k \in candidates(i) : closer(i, j, k)

InLoop == cursor \in Buckets

\* A bucket with two players, or one that had two, is not searched further.
Within == Cardinality(bucket) >= 2
Lone == Cardinality(bucket) = 1 /\ cursor \notin paired

MatchWithin ==
    /\ InLoop /\ Within
    /\ match_and_remove(front(bucket), next(bucket))
    /\ paired' = paired \cup {cursor}
    /\ UNCHANGED <<cursor, tick_now, now, entered>>

MatchNeighbour ==
    /\ InLoop /\ Lone /\ candidates(cursor) # {}
    /\ match_and_remove(front(bucket), front(elo_buckets_[nearest(cursor)]))
    /\ cursor' = cursor - 1
    /\ UNCHANGED <<tick_now, paired, now, entered>>

\* Nobody here, a leftover of the pairs, or nobody in reach: continue.
SkipBucket ==
    /\ InLoop /\ ~Within
    /\ Lone => candidates(cursor) = {}
    /\ cursor' = cursor - 1
    /\ UNCHANGED <<elo_buckets_, lookup_, tick_now, paired, now, entered>>

TryFormMatch == MatchWithin \/ MatchNeighbour \/ SkipBucket

-----------------------------------------------------------------------------

TimePasses ==
    /\ now < MaxTime
    /\ now' = now + 1
    /\ UNCHANGED <<elo_buckets_, lookup_, cursor, tick_now, paired, entered>>

Next ==
    \/ \E u \in Users : \E elo \in Elos : Enqueue(u, elo)
    \/ \E u \in Users : Cancel(u)
    \/ Tick
    \/ MatchWithin
    \/ MatchNeighbour
    \/ SkipBucket
    \/ TimePasses

Spec == Init /\ [][Next]_vars

(***************************************************************************)
(* The match maker's timer keeps ticking, the strand runs what is posted,  *)
(* and time passes.  Nothing is assumed of the players.                    *)
(***************************************************************************)
FairSpec ==
    Spec /\ WF_vars(Tick) /\ WF_vars(TryFormMatch) /\ WF_vars(TimePasses)

-----------------------------------------------------------------------------
(* Properties.                                                             *)

\* The buckets, the lookup table and the loop variable keep their types; elo_buckets_
\* is never indexed outside its NUM_BUCKETS + 1 lists.
TypeOK ==
    /\ elo_buckets_ \in [Buckets -> SUBSET QueueEntry]
    /\ Queued \subseteq Users
    /\ lookup_ \in [Queued -> LookupData]
    /\ cursor \in Buckets \cup {NoBucket}
    /\ tick_now \in Nat /\ now \in Nat /\ tick_now <= now
    /\ paired \subseteq Buckets
    /\ entered \in Nat

\* lookup_ and elo_buckets_ describe the same queue: every iterator points to the
\* user's own entry in the bucket it names, and every entry of a bucket can be found
\* by its user.  erase() through a stale iterator would be undefined.
LookupMatchesBuckets ==
    /\ \A u \in Queued :
            /\ lookup_[u].iter.user = u
            /\ lookup_[u].iter \in elo_buckets_[lookup_[u].bucket_index]
    /\ \A i \in Buckets : \A e \in elo_buckets_[i] :
            /\ e.user \in Queued
            /\ lookup_[e.user] = [bucket_index |-> i, iter |-> e]

\* The players of entry e in bucket i that a tick should have found an opponent for.
Reaches(e, i) ==
    \E j \in Buckets \ {i} : distance(i, j) <= delta(e) /\ elo_buckets_[j] # {}

TickEnds == cursor = 0 /\ cursor' = NoBucket

\* When a tick is over nobody waits who could be playing: no bucket holds two
\* players, and a player left alone has nobody in the window, except in a bucket
\* that has formed pairs.  The buckets the loop visits later take players from those
\* it has passed, and never add any.
TickIsMaximal ==
    [][TickEnds => \A i \in Buckets :
            /\ Cardinality(elo_buckets_'[i]) <= 1
            /\ i \notin paired' => \A e \in elo_buckets_'[i] : ~Reaches(e, i)']_vars

InRange(u, v) ==
    /\ {u, v} \subseteq Queued /\ u # v
    /\ distance(lookup_[u].bucket_index, lookup_[v].bucket_index) <= MAX_BUCKETS_DIFF

\* Two players within the largest window of each other do not both wait forever.
PairsMeet ==
    \A u, v \in Users : InRange(u, v) ~> ~InRange(u, v)

=============================================================================
