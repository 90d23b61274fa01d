--------------------------- MODULE MatchMakerProofs ---------------------------
(***************************************************************************)
(* What holds of the match maker for any number of users, connections,     *)
(* modes and requests: every strategy keeps its deque and its lookup set   *)
(* in step and forms a match as soon as it can, every match has as many    *)
(* different users as its mode asks for, uuid_to_match_ leads only to live *)
(* matches of the user, and, as long as no connection is lost, nobody is   *)
(* locked out of the queues.                                               *)
(***************************************************************************)
EXTENDS MatchMaker, FiniteSetTheorems, SequenceTheorems, TLAPS

Item == [op : {"enqueue", "cancel"}, s : Sessions]
Handler == [op : {"make", "forfeit", "results"},
            players : Seq(Sessions), m : Matches \cup {None}]

-----------------------------------------------------------------------------
(* Queues.                                                                 *)

\* No user has two places in the queue.
Distinct(q) == \A i, j \in 1 .. Len(q) : Owner[q[i]] = Owner[q[j]] => i = j

\* Of n different users waiting, as many are counted.
LEMMA DistinctCount ==
    ASSUME NEW q \in Seq(Sessions), Distinct(q)
    PROVE  Cardinality(users_of(q)) = Len(q)
  <1> DEFINE S == 1 .. Len(q)
             T == users_of(q)
             f == [i \in S |-> Owner[q[i]]]
  <1>1. Len(q) \in Nat
    OBVIOUS
  <1>2. IsFiniteSet(S) /\ Cardinality(S) = Len(q)
    BY <1>1, FS_Interval
  <1>3. f \in Surjection(S, T) /\ f \in Injection(S, T)
    BY DEF Surjection, Injection, IsInjective, users_of, Distinct
  <1> HIDE DEF f, S, T
  <1>4. Cardinality(T) = Cardinality(S)
    BY <1>2, <1>3, FS_Surjection
  <1> QED BY <1>2, <1>4 DEF T

\* cancel() takes the user's entry out and leaves the others in their order.
LEMMA WithoutQueue ==
    ASSUME NEW q \in Seq(Sessions), NEW u
    PROVE  /\ without(q, u) \in Seq(Sessions)
           /\ Len(without(q, u)) <= Len(q)
           /\ users_of(without(q, u)) = users_of(q) \ {u}
           /\ Distinct(q) => Distinct(without(q, u))
           /\ \A n \in 1 .. Len(without(q, u)) :
                    \E i \in 1 .. Len(q) : without(q, u)[n] = q[i]
  <1> DEFINE D == 1 .. Len(q)
             kept == {i \in D : Owner[q[i]] # u}
             upto(i) == {h \in kept : h <= i}
             nth(n) == CHOOSE i \in kept : Cardinality(upto(i)) = n
             c == Cardinality(kept)
             w == [n \in 1 .. c |-> q[nth(n)]]
  <1>1. without(q, u) = w
    BY DEF without
  <1>2. Len(q) \in Nat /\ IsFiniteSet(D) /\ Cardinality(D) = Len(q) /\ D \subseteq Nat
    <2>1. Len(q) \in Nat
      OBVIOUS
    <2>2. IsFiniteSet(D) /\ Cardinality(D) = Len(q)
      BY <2>1, FS_Interval
    <2> QED BY <2>1, <2>2
  <1>3. IsFiniteSet(kept) /\ c \in Nat /\ c <= Len(q) /\ kept \subseteq Nat
    BY <1>2, FS_Subset, FS_CardinalityType
  <1>4. \A i \in kept : q[i] \in Sessions /\ Owner[q[i]] # u /\ i \in D
    OBVIOUS
  <1>5. \A i \in D : i \notin kept => Owner[q[i]] = u
    OBVIOUS
  <1> HIDE DEF D, kept
  <1>6. \A i \in kept : /\ IsFiniteSet(upto(i)) /\ Cardinality(upto(i)) \in 1 .. c
    <2> SUFFICES ASSUME NEW i \in kept
                 PROVE  IsFiniteSet(upto(i)) /\ Cardinality(upto(i)) \in 1 .. c
      OBVIOUS
    <2>1. upto(i) \subseteq kept /\ i \in upto(i)
      BY <1>3
    <2> HIDE DEF upto
    <2>2. IsFiniteSet(upto(i)) /\ Cardinality(upto(i)) <= c /\ Cardinality(upto(i)) \in Nat
      BY <1>3, <2>1, FS_Subset, FS_CardinalityType
    <2>3. Cardinality(upto(i)) # 0
      BY <2>1, <2>2, FS_EmptySet
    <2> QED BY <1>3, <2>2, <2>3
  <1>7. \A i, j \in kept : i < j => Cardinality(upto(i)) < Cardinality(upto(j))
    <2> SUFFICES ASSUME NEW i \in kept, NEW j \in kept, i < j
                 PROVE  Cardinality(upto(i)) < Cardinality(upto(j))
      OBVIOUS
    <2>1. i \in Nat /\ j \in Nat
      BY <1>3
    <2>2. upto(i) \subseteq upto(j)
      <3>1. \A h \in kept : h \in Nat
        BY <1>3
      <3>2. \A h \in kept : h <= i => h <= j
        BY <2>1, <3>1
      <3> QED BY <3>2
    <2>3. j \in upto(j) /\ j \notin upto(i)
      BY <2>1
    <2>4. /\ IsFiniteSet(upto(j)) /\ Cardinality(upto(j)) \in Nat
          /\ Cardinality(upto(i)) \in Nat
      <3> HIDE DEF upto
      <3> QED BY <1>3, <1>6
    <2> DEFINE A == upto(i)
               B == upto(j)
    <2>5. A \subseteq B /\ A # B /\ IsFiniteSet(B) /\ Cardinality(A) \in Nat
            /\ Cardinality(B) \in Nat
      BY <2>2, <2>3, <2>4
    <2> HIDE DEF A, B
    <2>6. Cardinality(A) < Cardinality(B)
      BY <2>5, FS_Subset
    <2> QED BY <2>6 DEF A, B
  <1> DEFINE f == [i \in kept |-> Cardinality(upto(i))]
  <1>8. f \in Surjection(kept, 1 .. c)
    <2>1. f \in Injection(kept, 1 .. c)
      <3>1. f \in [kept -> 1 .. c]
        BY <1>6
      <3>2. \A i, j \in kept : f[i] = f[j] => i = j
        <4> SUFFICES ASSUME NEW i \in kept, NEW j \in kept, i # j PROVE f[i] # f[j]
          OBVIOUS
        <4>1. i < j \/ j < i
          BY <1>3
        <4>2. f[i] = Cardinality(upto(i)) /\ f[j] = Cardinality(upto(j))
          OBVIOUS
        <4>3. f[i] \in 1 .. c /\ f[j] \in 1 .. c
          BY <3>1
        <4> HIDE DEF f, upto
        <4> QED BY <1>7, <4>1, <4>2, <4>3
      <3> HIDE DEF f
      <3> QED BY <3>1, <3>2 DEF Injection, IsInjective
    <2>2. IsFiniteSet(1 .. c) /\ Cardinality(1 .. c) = c
      BY <1>3, FS_Interval
    <2> HIDE DEF f
    <2> QED BY <2>1, <2>2, FS_Injection
  <1>9. \A n \in 1 .. c : nth(n) \in kept /\ Cardinality(upto(nth(n))) = n
    <2> SUFFICES ASSUME NEW n \in 1 .. c
                 PROVE  nth(n) \in kept /\ Cardinality(upto(nth(n))) = n
      OBVIOUS
    <2>1. \E i \in kept : Cardinality(upto(i)) = n
      BY <1>8 DEF Surjection
    <2> HIDE DEF upto
    <2> QED BY <2>1
  <1>10. \A i \in kept : nth(Cardinality(upto(i))) = i
    <2> SUFFICES ASSUME NEW i \in kept PROVE nth(Cardinality(upto(i))) = i
      OBVIOUS
    <2> DEFINE n == Cardinality(upto(i))
    <2>1. n \in 1 .. c
      BY <1>6
    <2>2. nth(n) \in kept /\ Cardinality(upto(nth(n))) = n
      BY <1>9, <2>1
    <2> HIDE DEF nth
    <2>3. ~(nth(n) < i) /\ ~(i < nth(n))
      <3> HIDE DEF upto
      <3> QED BY <1>7, <2>1, <2>2
    <2>4. nth(n) \in Nat /\ i \in Nat
      BY <1>3, <2>2
    <2> QED BY <2>3, <2>4
  <1> HIDE DEF nth, upto
  <1>11. w \in Seq(Sessions) /\ Len(w) = c
    <2>1. w \in [1 .. c -> Sessions]
      BY <1>4, <1>9
    <2> QED BY <1>3, <2>1, SeqDef
  <1>12. \A n \in 1 .. c : w[n] = q[nth(n)] /\ nth(n) \in D /\ Owner[w[n]] # u
    BY <1>4, <1>9
  <1>13. users_of(w) = users_of(q) \ {u}
    <2>1. \A n \in 1 .. c : Owner[w[n]] \in users_of(q) \ {u}
      BY <1>12 DEF users_of, D
    <2>2. \A i \in D : Owner[q[i]] # u => \E n \in 1 .. c : Owner[w[n]] = Owner[q[i]]
      <3> SUFFICES ASSUME NEW i \in D, Owner[q[i]] # u
                   PROVE  \E n \in 1 .. c : Owner[w[n]] = Owner[q[i]]
        OBVIOUS
      <3>1. i \in kept
        BY <1>5
      <3>2. Cardinality(upto(i)) \in 1 .. c
        BY <1>6, <3>1
      <3>3. w[Cardinality(upto(i))] = q[i]
        BY <1>10, <1>12, <3>1, <3>2
      <3> QED BY <3>2, <3>3
    <2>3. users_of(w) = {Owner[w[n]] : n \in 1 .. c}
      <3> HIDE DEF w
      <3> QED BY <1>11 DEF users_of
    <2>4. users_of(q) = {Owner[q[i]] : i \in D}
      BY DEF users_of, D
    <2> HIDE DEF w
    <2> QED BY <2>1, <2>2, <2>3, <2>4
  <1>14. Distinct(q) => Distinct(w)
    <2> SUFFICES ASSUME Distinct(q), NEW m \in 1 .. c, NEW n \in 1 .. c,
                        Owner[w[m]] = Owner[w[n]]
                 PROVE  m = n
      BY <1>11 DEF Distinct
    <2>1. nth(m) = nth(n)
      BY <1>12 DEF Distinct, D
    <2> QED BY <1>9, <2>1
  <1>15. \A n \in 1 .. c : \E i \in 1 .. Len(q) : w[n] = q[i]
    BY <1>12 DEF D
  <1> HIDE DEF w
  <1> QED BY <1>1, <1>3, <1>11, <1>13, <1>14, <1>15

\* try_form_match, when it runs after every arrival: it forms a match of the whole
\* queue, or none.
LEMMA Forming ==
    ASSUME NEW q \in Seq(Sessions), NEW n \in Nat \ {0, 1}, Len(q) <= n
    PROVE  /\ Len(q) < n => groups(q, n) = <<>> /\ rest(q, n) = q
           /\ Len(q) = n => groups(q, n) = <<q>> /\ rest(q, n) = <<>>
  <1> DEFINE l == Len(q)
  <1>1. l \in Nat /\ SubSeq(q, 1, l) = q
    BY SubSeqFull
  <1>2. ASSUME l < n PROVE groups(q, n) = <<>> /\ rest(q, n) = q
    <2>1. group_count(q, n) = 0
      BY <1>1, <1>2 DEF group_count
    <2>2. rest(q, n) = SubSeq(q, 1, l)
      BY <2>1 DEF rest
    <2>3. groups(q, n) = [i \in 1 .. 0 |-> SubSeq(q, (i - 1) * n + 1, i * n)]
      BY <2>1 DEF groups
    <2> QED BY <1>1, <2>2, <2>3
  <1>3. ASSUME l = n PROVE groups(q, n) = <<q>> /\ rest(q, n) = <<>>
    <2>1. group_count(q, n) = 1
      BY <1>1, <1>3 DEF group_count
    <2>2. rest(q, n) = SubSeq(q, n + 1, n)
      BY <1>3, <2>1 DEF rest
    <2>3. rest(q, n) = <<>>
      BY <2>2, SubSeqEmpty
    <2>4. groups(q, n) = [i \in 1 .. 1 |-> SubSeq(q, (i - 1) * n + 1, i * n)]
      BY <2>1 DEF groups
    <2>5. \A i \in 1 .. 1 : SubSeq(q, (i - 1) * n + 1, i * n) = q
      <3>1. \A i \in 1 .. 1 : i = 1
        OBVIOUS
      <3>2. (1 - 1) * n + 1 = 1 /\ 1 * n = l
        BY <1>3
      <3> QED BY <1>1, <3>1, <3>2
    <2>6. groups(q, n) = [i \in 1 .. 1 |-> q]
      BY <2>4, <2>5
    <2> QED BY <2>3, <2>6
  <1> QED BY <1>1, <1>2, <1>3
-----------------------------------------------------------------------------
(* Strands.                                                                *)

\* A handler is posted: it comes last.
LEMMA Posting ==
    ASSUME NEW S, NEW q \in Seq(S), NEW e \in S
    PROVE  /\ Append(q, e) \in Seq(S)
           /\ Len(q) \in Nat /\ Len(Append(q, e)) = Len(q) + 1
           /\ \A i \in 1 .. Len(q) : q[i] \in S /\ Append(q, e)[i] = q[i]
           /\ Append(q, e)[Len(q) + 1] = e
           /\ \A i \in 1 .. Len(q) + 1 : i \in 1 .. Len(q) \/ i = Len(q) + 1
  <1>1. Len(q) \in Nat
    OBVIOUS
  <1>2. \A i \in 1 .. Len(q) : q[i] \in S
    BY ElementOfSeq
  <1> QED BY <1>1, <1>2, AppendProperties

\* A handler is run: the others move up.
LEMMA Running ==
    ASSUME NEW S, NEW q \in Seq(S), q # <<>>
    PROVE  /\ Head(q) \in S /\ Head(q) = q[1] /\ 1 \in 1 .. Len(q)
           /\ Tail(q) \in Seq(S)
           /\ Len(q) \in Nat \ {0} /\ Len(Tail(q)) = Len(q) - 1
           /\ \A i \in 1 .. Len(Tail(q)) : Tail(q)[i] = q[i + 1] /\ i + 1 \in 1 .. Len(q)
           /\ \A i \in 1 .. Len(q) : i = 1 \/ i - 1 \in 1 .. Len(Tail(q))
  <1>1. Len(q) \in Nat \ {0}
    BY EmptySeq
  <1>2. Head(q) \in S /\ Tail(q) \in Seq(S) /\ Len(Tail(q)) = Len(q) - 1
    BY HeadTailProperties
  <1>3. \A i \in 1 .. Len(Tail(q)) : Tail(q)[i] = q[i + 1]
    BY HeadTailProperties
  <1>4. Head(q) = q[1]
    BY <1>1
  <1> QED BY <1>1, <1>2, <1>3, <1>4

-----------------------------------------------------------------------------
(* The inductive invariant.                                                *)

Queues ==
    \A mode \in Modes :
        /\ lookup_[mode] = users_of(queue_[mode])
        /\ Distinct(queue_[mode])
        /\ Len(queue_[mode]) < Size[mode]

\* What try_form_match hands to make_match: as many different users as a mode has.
Makes ==
    \A i \in 1 .. Len(global_strand_) : global_strand_[i].op = "make" =>
        /\ Distinct(global_strand_[i].players)
        /\ \E mode \in Modes : Len(global_strand_[i].players) = Size[mode]

Games ==
    /\ live_matches_ \subseteq 1 .. next_match_id_
    /\ MappedToOwnMatch
    /\ FullMatches

Inv == TypeOK /\ Queues /\ Makes /\ Games

\* What an arrival does to its strategy: nothing, a longer queue, or a match of
\* everybody in it.
Joins(mode) ==
    LET s == Head(strategy_strand[mode]).s
        u == Owner[s]
        q == Append(queue_[mode], s)
    IN  \/ u \in lookup_[mode] /\ UNCHANGED <<queue_, lookup_, global_strand_>>
        \/ /\ u \notin lookup_[mode] /\ Len(q) < Size[mode]
           /\ queue_' = [queue_ EXCEPT ![mode] = q]
           /\ lookup_' = [lookup_ EXCEPT ![mode] = users_of(q)]
           /\ UNCHANGED global_strand_
        \/ /\ u \notin lookup_[mode] /\ Len(q) = Size[mode]
           /\ queue_' = [queue_ EXCEPT ![mode] = <<>>]
           /\ lookup_' = [lookup_ EXCEPT ![mode] = {}]
           /\ global_strand_' = Append(global_strand_, handler("make", q, None))

LEMMA Arrival ==
    ASSUME TypeOK, Queues, NEW mode \in Modes, StrategyEnqueue(mode)
    PROVE  LET s == Head(strategy_strand[mode]).s
               q == Append(queue_[mode], s)
           IN  /\ strategy_strand[mode] \in Seq(Item) /\ strategy_strand[mode] # <<>>
               /\ s \in Sessions /\ Owner[s] \in Users
               /\ q \in Seq(Sessions) /\ users_of(q) = lookup_[mode] \cup {Owner[s]}
               /\ Owner[s] \notin lookup_[mode] => Distinct(q)
               /\ Joins(mode)
  <1> DEFINE h == Head(strategy_strand[mode])
             s == h.s
             u == Owner[s]
             p == queue_[mode]
             q == Append(p, s)
             n == Size[mode]
             formed == groups(q, n)
             left == rest(q, n)
  <1>1. strategy_strand[mode] \in Seq(Item) /\ strategy_strand[mode] # <<>>
    BY DEF TypeOK, Item, StrategyEnqueue
  <1>2. s \in Sessions /\ u \in Users
    <2>1. h \in Item
      BY <1>1, Running
    <2> QED BY <2>1, MatchMakerAssumption DEF Item
  <1>3. p \in Seq(Sessions) /\ n \in Nat \ {0, 1}
    BY MatchMakerAssumption DEF TypeOK
  <1>4. lookup_[mode] = users_of(p) /\ Distinct(p) /\ Len(p) < n
    BY DEF Queues
  <1>5. IF queued(u, mode)
        THEN UNCHANGED <<queue_, lookup_, global_strand_>>
        ELSE /\ queue_' = [queue_ EXCEPT ![mode] = left]
             /\ lookup_' = [lookup_ EXCEPT ![mode] = (@ \cup {u})
                             \ UNION {users_of(formed[i]) : i \in 1 .. Len(formed)}]
             /\ global_strand_' = global_strand_ \o
                     [i \in 1 .. Len(formed) |-> handler("make", formed[i], None)]
    BY DEF StrategyEnqueue
  <1> HIDE DEF h
  <1> HIDE DEF s
  <1> HIDE DEF p
  <1>6. /\ q \in Seq(Sessions) /\ Len(p) \in Nat /\ Len(q) = Len(p) + 1
        /\ \A i \in 1 .. Len(p) : q[i] = p[i]
        /\ q[Len(p) + 1] = s
        /\ \A i \in 1 .. Len(p) + 1 : i \in 1 .. Len(p) \/ i = Len(p) + 1
    BY <1>2, <1>3, Posting
  <1> HIDE DEF q
  <1>7. users_of(q) = lookup_[mode] \cup {u}
    <2>1. \A i \in 1 .. Len(q) : Owner[q[i]] \in users_of(p) \cup {u}
      BY <1>6 DEF users_of
    <2>2. \A i \in 1 .. Len(p) : i \in 1 .. Len(q) /\ Owner[q[i]] = Owner[p[i]]
      BY <1>6
    <2>3. Len(p) + 1 \in 1 .. Len(q) /\ Owner[q[Len(p) + 1]] = u
      BY <1>6
    <2>4. users_of(q) \subseteq users_of(p) \cup {u}
      BY <2>1 DEF users_of
    <2>5. users_of(p) \subseteq users_of(q)
      BY <2>2 DEF users_of
    <2>6. u \in users_of(q)
      BY <2>3 DEF users_of
    <2> QED BY <1>4, <2>4, <2>5, <2>6
  <1>8. u \notin lookup_[mode] => Distinct(q)
    <2> SUFFICES ASSUME u \notin users_of(p), NEW i \in 1 .. Len(q), NEW j \in 1 .. Len(q),
                        Owner[q[i]] = Owner[q[j]]
                 PROVE  i = j
      BY <1>4 DEF Distinct
    <2>1. \A k \in 1 .. Len(p) : Owner[p[k]] # u
      BY DEF users_of
    <2> QED BY <1>4, <1>6, <2>1 DEF Distinct
  <1>9. Joins(mode)
    <2> SUFFICES ASSUME u \notin lookup_[mode] PROVE Joins(mode)
      BY <1>5 DEF Joins, queued, u, s, h
    <2>1. /\ queue_' = [queue_ EXCEPT ![mode] = left]
          /\ lookup_' = [lookup_ EXCEPT ![mode] = (lookup_[mode] \cup {u})
                          \ UNION {users_of(formed[i]) : i \in 1 .. Len(formed)}]
          /\ global_strand_' = global_strand_ \o
                  [i \in 1 .. Len(formed) |-> handler("make", formed[i], None)]
      BY <1>5 DEF queued, TypeOK
    <2>2. global_strand_ \in Seq(Handler) /\ handler("make", q, None) \in Handler
      BY <1>6 DEF TypeOK, Handler, handler
    <2>3. CASE Len(q) < n
      <3>1. formed = <<>> /\ left = q
        BY <1>3, <1>6, <2>3, Forming
      <3> HIDE DEF formed, left
      <3>2. UNION {users_of(formed[i]) : i \in 1 .. Len(formed)} = {}
        BY <3>1
      <3>3. lookup_' = [lookup_ EXCEPT ![mode] = users_of(q)]
        BY <1>7, <2>1, <3>2
      <3>4. [i \in 1 .. Len(formed) |-> handler("make", formed[i], None)] = <<>>
        BY <3>1
      <3>5. global_strand_' = global_strand_
        BY <2>1, <2>2, <3>4, ConcatEmptySeq
      <3> QED BY <2>1, <2>3, <3>1, <3>3, <3>5 DEF Joins, q, p, u, s, h
    <2>4. CASE Len(q) = n
      <3>1. formed = <<q>> /\ left = <<>>
        BY <1>3, <1>6, <2>4, Forming
      <3> HIDE DEF formed, left
      <3>2. Len(formed) = 1 /\ formed[1] = q /\ \A i \in 1 .. 1 : i = 1
        BY <3>1
      <3>3. UNION {users_of(formed[i]) : i \in 1 .. Len(formed)} = users_of(q)
        <4>1. {users_of(formed[i]) : i \in 1 .. Len(formed)} = {users_of(q)}
          BY <3>2
        <4> QED BY <4>1
      <3>4. lookup_' = [lookup_ EXCEPT ![mode] = {}]
        BY <1>7, <2>1, <3>3
      <3>5. [i \in 1 .. Len(formed) |-> handler("make", formed[i], None)]
              = <<handler("make", q, None)>>
        BY <3>2
      <3>6. global_strand_' = Append(global_strand_, handler("make", q, None))
        BY <2>1, <2>2, <3>5, AppendIsConcat
      <3> QED BY <2>1, <2>4, <3>1, <3>4, <3>6 DEF Joins, q, p, u, s, h
    <2> QED BY <1>3, <1>4, <1>6, <2>3, <2>4
  <1> QED BY <1>1, <1>2, <1>6, <1>7, <1>8, <1>9 DEF q, p, u, s, h

-----------------------------------------------------------------------------
(* Types.                                                                  *)

LEMMA TypeInit == Init => TypeOK
  BY MatchMakerAssumption DEF Init, TypeOK, Matches

LEMMA TypeStep == TypeOK /\ Queues /\ [Next]_vars => TypeOK'
  <1> SUFFICES ASSUME TypeOK, Queues, [Next]_vars PROVE TypeOK'
    OBVIOUS
  <1> USE MatchMakerAssumption
  <1>0. strategy_strand \in [Modes -> Seq(Item)] /\ global_strand_ \in Seq(Handler)
    BY DEF TypeOK, Item, Handler
  <1>1. \A s \in Sessions : SessionStep(s) => TypeOK'
    <2> SUFFICES ASSUME NEW s \in Sessions, SessionStep(s) PROVE TypeOK'
      OBVIOUS
    <2>1. CASE Login(s)
      BY <2>1 DEF Login, TypeOK, maps, strategies, games
    <2>2. CASE CloseSession(s)
      BY <2>2 DEF CloseSession, TypeOK, maps, strategies, games
    <2>3. CASE RemoveSession(s)
      <3> DEFINE c == [op |-> "cancel", s |-> s]
                 new == [mode \in Modes |-> Append(strategy_strand[mode], c)]
      <3>1. c \in Item
        BY DEF Item
      <3> HIDE DEF c
      <3>2. new \in [Modes -> Seq(Item)]
        BY <1>0, <3>1, Posting
      <3>3. strategy_strand' = new
        BY <2>3 DEF RemoveSession, c
      <3> HIDE DEF new
      <3> QED BY <2>3, <3>2, <3>3 DEF RemoveSession, TypeOK, games, Item
    <2>4. CASE Enqueue(s)
      <3> DEFINE c == [op |-> "enqueue", s |-> s]
      <3>1. c \in Item
        BY DEF Item
      <3>2. /\ checked' = [checked EXCEPT ![s] = NoMode]
            /\ checked[s] \in Modes
            /\ \/ UNCHANGED <<uuid_to_gamemode_, strategy_strand>>
               \/ /\ uuid_to_gamemode_' = [uuid_to_gamemode_ EXCEPT ![Owner[s]] = checked[s]]
                  /\ strategy_strand' = [strategy_strand EXCEPT
                        ![checked[s]] = Append(@, c)]
            /\ UNCHANGED <<session, removals, uuid_to_match_, queue_, lookup_,
                           global_strand_, games, requests>>
        BY <2>4 DEF Enqueue, TypeOK
      <3> HIDE DEF c
      <3>3. \A mode \in Modes : Append(strategy_strand[mode], c) \in Seq(Item)
        BY <1>0, <3>1, Posting
      <3>4. strategy_strand' \in [Modes -> Seq(Item)]
        BY <1>0, <3>2, <3>3
      <3> QED BY <3>2, <3>4 DEF TypeOK, games, Item
    <2>5. CASE Forfeit(s)
      <3>1. handler("forfeit", <<s>>, None) \in Handler
        BY DEF handler, Handler
      <3>2. global_strand_' \in Seq(Handler)
        BY <1>0, <2>5, <3>1, Posting DEF Forfeit
      <3>3. requests' \in 0 .. MaxRequests
        BY <2>5 DEF Forfeit, Request, TypeOK
      <3>4. UNCHANGED <<session, removals, checked, maps, strategies, games>>
        BY <2>5 DEF Forfeit
      <3> QED BY <3>2, <3>3, <3>4 DEF TypeOK, maps, strategies, games, Handler
    <2>6. ASSUME NEW mode \in Modes, EnqueueCheck(s, mode) PROVE TypeOK'
      BY <2>6 DEF EnqueueCheck, Request, TypeOK, maps, strategies, games
    <2>7. ASSUME NEW mode \in Modes, Cancel(s, mode) PROVE TypeOK'
      <3> DEFINE c == [op |-> "cancel", s |-> s]
      <3>1. c \in Item
        BY DEF Item
      <3>2. strategy_strand' = [strategy_strand EXCEPT ![mode] = Append(@, c)]
        BY <2>7 DEF Cancel
      <3> HIDE DEF c
      <3>3. Append(strategy_strand[mode], c) \in Seq(Item)
        BY <1>0, <3>1, Posting
      <3>4. strategy_strand' \in [Modes -> Seq(Item)]
        BY <1>0, <3>2, <3>3
      <3>5. requests' \in 0 .. MaxRequests
        BY <2>7 DEF Cancel, Request, TypeOK
      <3>6. /\ uuid_to_gamemode_' = [uuid_to_gamemode_ EXCEPT ![Owner[s]] = NoMode]
            /\ UNCHANGED <<session, removals, checked, uuid_to_match_, queue_, lookup_,
                           global_strand_, games>>
        BY <2>7 DEF Cancel
      <3> QED BY <3>4, <3>5, <3>6 DEF TypeOK, games, Item
    <2> QED BY <2>1, <2>2, <2>3, <2>4, <2>5, <2>6, <2>7 DEF SessionStep
  <1>2. ASSUME NEW mode \in Modes, StrategyEnqueue(mode) PROVE TypeOK'
    <2> DEFINE s == Head(strategy_strand[mode]).s
               q == Append(queue_[mode], s)
    <2>1. /\ strategy_strand[mode] \in Seq(Item) /\ strategy_strand[mode] # <<>>
          /\ q \in Seq(Sessions) /\ users_of(q) = lookup_[mode] \cup {Owner[s]}
          /\ Owner[s] \in Users /\ Joins(mode)
      BY <1>2, Arrival
    <2>2. strategy_strand' = [strategy_strand EXCEPT ![mode] = Tail(@)]
      BY <1>2 DEF StrategyEnqueue
    <2>3. strategy_strand' \in [Modes -> Seq(Item)]
      BY <1>0, <2>1, <2>2, Running
    <2>4. users_of(q) \subseteq Users /\ <<>> \in Seq(Sessions)
      BY <2>1 DEF TypeOK
    <2>5. global_strand_' \in Seq(Handler)
      <3> DEFINE h == handler("make", q, None)
      <3>1. h \in Handler
        BY <2>1 DEF handler, Handler
      <3>2. global_strand_' = global_strand_ \/ global_strand_' = Append(global_strand_, h)
        BY <2>1 DEF Joins
      <3> HIDE DEF h
      <3>3. Append(global_strand_, h) \in Seq(Handler)
        BY <1>0, <3>1, Posting
      <3> QED BY <1>0, <3>2, <3>3
    <2>6. queue_' \in [Modes -> Seq(Sessions)] /\ lookup_' \in [Modes -> SUBSET Users]
      <3>1. \/ queue_' = queue_
            \/ queue_' = [queue_ EXCEPT ![mode] = q]
            \/ queue_' = [queue_ EXCEPT ![mode] = <<>>]
        BY <2>1 DEF Joins
      <3>2. \/ lookup_' = lookup_
            \/ lookup_' = [lookup_ EXCEPT ![mode] = users_of(q)]
            \/ lookup_' = [lookup_ EXCEPT ![mode] = {}]
        BY <2>1 DEF Joins
      <3>3. q \in Seq(Sessions)
        BY <2>1
      <3> HIDE DEF q
      <3>4. queue_' \in [Modes -> Seq(Sessions)]
        BY <2>4, <3>1, <3>3 DEF TypeOK
      <3>5. lookup_' \in [Modes -> SUBSET Users]
        BY <2>4, <3>2 DEF TypeOK
      <3> QED BY <3>4, <3>5
    <2> QED BY <1>2, <2>3, <2>5, <2>6
            DEF StrategyEnqueue, TypeOK, maps, games, Item, Handler
  <1>3. ASSUME NEW mode \in Modes, StrategyCancel(mode) PROVE TypeOK'
    <2> DEFINE u == Owner[Head(strategy_strand[mode]).s]
    <2>1. strategy_strand[mode] \in Seq(Item) /\ strategy_strand[mode] # <<>>
      BY <1>0, <1>3 DEF StrategyCancel
    <2>2. strategy_strand' = [strategy_strand EXCEPT ![mode] = Tail(@)]
      BY <1>3 DEF StrategyCancel
    <2>3. strategy_strand' \in [Modes -> Seq(Item)]
      BY <1>0, <2>1, <2>2, Running
    <2>4. /\ queue_' = queue_ \/ queue_' = [queue_ EXCEPT ![mode] = without(@, u)]
          /\ lookup_' = [lookup_ EXCEPT ![mode] = @ \ {u}]
      BY <1>3 DEF StrategyCancel
    <2>5. without(queue_[mode], u) \in Seq(Sessions)
      BY WithoutQueue DEF TypeOK
    <2>6. queue_' \in [Modes -> Seq(Sessions)] /\ lookup_' \in [Modes -> SUBSET Users]
      BY <2>4, <2>5 DEF TypeOK
    <2> QED BY <1>3, <2>3, <2>6 DEF StrategyCancel, TypeOK, maps, games, Item
  <1>4. ASSUME global_strand_ # <<>>, global_strand_' = Tail(global_strand_)
        PROVE  global_strand_' \in Seq(Handler) /\ group \in Seq(Sessions)
    <2>1. Head(global_strand_) \in Handler /\ Tail(global_strand_) \in Seq(Handler)
      BY <1>0, <1>4, Running
    <2> QED BY <1>4, <2>1 DEF group, Handler
  <1>5. CASE MakeMatch
    <2>1. global_strand_' \in Seq(Handler) /\ group \in Seq(Sessions)
      BY <1>4, <1>5 DEF MakeMatch, AtGlobal
    <2>2. users_of(group) \subseteq Users
      BY <2>1 DEF users_of
    <2>3. uuid_to_gamemode_' \in [Users -> Modes \cup {NoMode}]
      BY <1>5 DEF MakeMatch, Unqueue, TypeOK
    <2>4. next_match_id_' \in Matches /\ next_match_id_' \in 0 .. MaxMatches
      BY <1>5 DEF MakeMatch, TypeOK, Matches
    <2>5. /\ uuid_to_match_' = [u \in Users |-> IF u \in users_of(group) THEN next_match_id_'
                                                ELSE uuid_to_match_[u]]
          /\ players_' = [players_ EXCEPT ![next_match_id_'] = users_of(group)]
          /\ playing' = [playing EXCEPT ![next_match_id_'] = users_of(group)]
          /\ live_matches_' = live_matches_ \cup {next_match_id_'}
          /\ UNCHANGED <<session, removals, checked, strategies, concluded, requests>>
      BY <1>5 DEF MakeMatch
    <2>6. uuid_to_match_' \in [Users -> Matches \cup {None}]
      BY <2>4, <2>5 DEF TypeOK
    <2>7. players_' \in [Matches -> SUBSET Users] /\ playing' \in [Matches -> SUBSET Users]
      BY <2>2, <2>4, <2>5 DEF TypeOK
    <2> QED BY <2>1, <2>3, <2>4, <2>5, <2>6, <2>7 DEF TypeOK, strategies, Handler
  <1>6. CASE DropMatch
    <2>1. global_strand_' \in Seq(Handler)
      BY <1>4, <1>6 DEF DropMatch, AtGlobal
    <2>2. uuid_to_gamemode_' \in [Users -> Modes \cup {NoMode}]
      BY <1>6 DEF DropMatch, Unqueue, TypeOK
    <2> QED BY <1>6, <2>1, <2>2 DEF DropMatch, TypeOK, strategies, games, Handler
  <1>7. CASE ForfeitImpl
    <2>1. global_strand_' \in Seq(Handler)
      BY <1>4, <1>7 DEF ForfeitImpl, AtGlobal
    <2>2. uuid_to_match_' \in [Users -> Matches \cup {None}]
      BY <1>7 DEF ForfeitImpl, TypeOK
    <2>3. playing' \in [Matches -> SUBSET Users]
      BY <1>7 DEF ForfeitImpl, TypeOK
    <2> QED BY <1>7, <2>1, <2>2, <2>3 DEF ForfeitImpl, TypeOK, strategies, Handler
  <1>8. CASE TakeResults
    <2>1. global_strand_' \in Seq(Handler)
      BY <1>4, <1>8 DEF TakeResults, AtGlobal
    <2>2. uuid_to_match_' \in [Users -> Matches \cup {None}]
      BY <1>8 DEF TakeResults, TypeOK
    <2>3. playing' \in [Matches -> SUBSET Users]
      BY <1>8 DEF TakeResults, TypeOK
    <2> QED BY <1>8, <2>1, <2>2, <2>3 DEF TakeResults, TypeOK, strategies, Handler
  <1>9. ASSUME NEW m \in Matches, ConcludeMatch(m) PROVE TypeOK'
    <2>1. handler("results", <<>>, m) \in Handler
      BY DEF handler, Handler
    <2>2. global_strand_' \in Seq(Handler)
      BY <1>0, <1>9, <2>1, Posting DEF ConcludeMatch
    <2> QED BY <1>9, <2>2 DEF ConcludeMatch, TypeOK, maps, strategies, Handler
  <1>10. CASE UNCHANGED vars
    BY <1>10 DEF vars, maps, strategies, games, TypeOK
  <1> QED BY <1>1, <1>2, <1>3, <1>5, <1>6, <1>7, <1>8, <1>9, <1>10 DEF Next, Idle

-----------------------------------------------------------------------------
(* Queues, and the groups handed over.                                     *)

LEMMA QueuesStep == TypeOK /\ Queues /\ [Next]_vars => Queues'
  <1> SUFFICES ASSUME TypeOK, Queues, [Next]_vars PROVE Queues'
    OBVIOUS
  <1> USE MatchMakerAssumption
  <1>1. CASE UNCHANGED <<queue_, lookup_>>
    BY <1>1 DEF Queues, users_of, Distinct
  <1>2. ASSUME NEW mode \in Modes, StrategyEnqueue(mode) PROVE Queues'
    <2> DEFINE s == Head(strategy_strand[mode]).s
               q == Append(queue_[mode], s)
    <2>1. Joins(mode) /\ (Owner[s] \notin lookup_[mode] => Distinct(q))
      BY <1>2, Arrival
    <2>2. \/ UNCHANGED <<queue_, lookup_>>
          \/ /\ Distinct(q) /\ Len(q) < Size[mode]
             /\ queue_' = [queue_ EXCEPT ![mode] = q]
             /\ lookup_' = [lookup_ EXCEPT ![mode] = users_of(q)]
          \/ /\ queue_' = [queue_ EXCEPT ![mode] = <<>>]
             /\ lookup_' = [lookup_ EXCEPT ![mode] = {}]
      BY <2>1 DEF Joins
    <2> HIDE DEF q
    <2>3. users_of(<<>>) = {} /\ Distinct(<<>>) /\ Len(<<>>) < Size[mode]
      BY DEF users_of, Distinct
    <2>4. queue_ \in [Modes -> Seq(Sessions)] /\ lookup_ \in [Modes -> SUBSET Users]
      BY DEF TypeOK
    <2>5. /\ lookup_'[mode] = users_of(queue_'[mode])
          /\ Distinct(queue_'[mode]) /\ Len(queue_'[mode]) < Size[mode]
          /\ \A x \in Modes \ {mode} : lookup_'[x] = lookup_[x] /\ queue_'[x] = queue_[x]
      BY <2>2, <2>3, <2>4 DEF Queues
    <2>6. \A x \in Modes : /\ lookup_'[x] = users_of(queue_'[x])
                           /\ Distinct(queue_'[x]) /\ Len(queue_'[x]) < Size[x]
      BY <2>5 DEF Queues
    <2> QED BY <2>6 DEF Queues, users_of, Distinct
  <1>3. ASSUME NEW mode \in Modes, StrategyCancel(mode) PROVE Queues'
    <2> DEFINE u == Owner[Head(strategy_strand[mode]).s]
               w == without(queue_[mode], u)
    <2>1. /\ lookup_' = [lookup_ EXCEPT ![mode] = @ \ {u}]
          /\ queue_' = IF u \in lookup_[mode] THEN [queue_ EXCEPT ![mode] = w] ELSE queue_
      BY <1>3 DEF StrategyCancel, queued
    <2>2. queue_ \in [Modes -> Seq(Sessions)] /\ lookup_ \in [Modes -> SUBSET Users]
      BY DEF TypeOK
    <2>3. /\ w \in Seq(Sessions) /\ Len(w) <= Len(queue_[mode])
          /\ users_of(w) = users_of(queue_[mode]) \ {u}
          /\ Distinct(queue_[mode]) => Distinct(w)
      BY <2>2, WithoutQueue
    <2> HIDE DEF w
    <2>4. Len(w) \in Nat /\ Len(queue_[mode]) \in Nat /\ Size[mode] \in Nat
      BY <2>2, <2>3
    <2>5. /\ Distinct(queue_[mode]) /\ Len(queue_[mode]) < Size[mode]
          /\ lookup_[mode] = users_of(queue_[mode])
      BY DEF Queues
    <2>6. /\ Distinct(w) /\ Len(w) < Size[mode] /\ users_of(w) = lookup_[mode] \ {u}
      BY <2>3, <2>4, <2>5
    <2>7. /\ lookup_'[mode] = users_of(queue_'[mode])
          /\ Distinct(queue_'[mode]) /\ Len(queue_'[mode]) < Size[mode]
          /\ \A x \in Modes \ {mode} : lookup_'[x] = lookup_[x] /\ queue_'[x] = queue_[x]
      <3>1. CASE u \in lookup_[mode]
        BY <2>1, <2>2, <2>6, <3>1
      <3>2. CASE u \notin lookup_[mode]
        <4>1. lookup_[mode] \ {u} = lookup_[mode]
          BY <3>2
        <4> QED BY <2>1, <2>2, <2>5, <3>2, <4>1
      <3> QED BY <3>1, <3>2
    <2>8. \A x \in Modes : /\ lookup_'[x] = users_of(queue_'[x])
                           /\ Distinct(queue_'[x]) /\ Len(queue_'[x]) < Size[x]
      BY <2>7 DEF Queues
    <2> QED BY <2>8 DEF Queues, users_of, Distinct
  <1> QED BY <1>1, <1>2, <1>3
          DEF Next, SessionStep, Login, CloseSession, RemoveSession, Enqueue, Forfeit,
              EnqueueCheck, Cancel, MakeMatch, DropMatch, ForfeitImpl, TakeResults,
              ConcludeMatch, Idle, vars, strategies

\* What Makes says of one handler.
Makeable(h) ==
    h.op = "make" => /\ Distinct(h.players)
                     /\ \E mode \in Modes : Len(h.players) = Size[mode]

LEMMA MakesStep == Inv /\ [Next]_vars => Makes'
  <1> SUFFICES ASSUME Inv, [Next]_vars PROVE Makes'
    OBVIOUS
  <1> USE MatchMakerAssumption
  <1>0. /\ global_strand_ \in Seq(Handler)
        /\ \A i \in 1 .. Len(global_strand_) : Makeable(global_strand_[i])
    BY DEF Inv, TypeOK, Handler, Makes, Makeable
  <1>1. ASSUME NEW h \in Handler, Makeable(h), global_strand_' = Append(global_strand_, h)
        PROVE  Makes'
    <2>1. \A i \in 1 .. Len(global_strand_') : Makeable(global_strand_'[i])
      BY <1>0, <1>1, Posting
    <2> QED BY <2>1 DEF Makes, Makeable, Distinct
  <1>2. ASSUME global_strand_ # <<>>, global_strand_' = Tail(global_strand_) PROVE Makes'
    <2>1. \A i \in 1 .. Len(global_strand_') : Makeable(global_strand_'[i])
      BY <1>0, <1>2, Running
    <2> QED BY <2>1 DEF Makes, Makeable, Distinct
  <1>3. CASE UNCHANGED global_strand_
    BY <1>3 DEF Inv, Makes, Distinct
  <1>4. ASSUME NEW s \in Sessions, Forfeit(s) PROVE Makes'
    <2>1. /\ handler("forfeit", <<s>>, None) \in Handler
          /\ Makeable(handler("forfeit", <<s>>, None))
      BY DEF handler, Handler, Makeable
    <2> QED BY <1>1, <1>4, <2>1 DEF Forfeit
  <1>5. ASSUME NEW m \in Matches, ConcludeMatch(m) PROVE Makes'
    <2>1. handler("results", <<>>, m) \in Handler /\ Makeable(handler("results", <<>>, m))
      BY DEF handler, Handler, Makeable
    <2> QED BY <1>1, <1>5, <2>1 DEF ConcludeMatch
  <1>6. ASSUME NEW mode \in Modes, StrategyEnqueue(mode) PROVE Makes'
    <2> DEFINE s == Head(strategy_strand[mode]).s
               q == Append(queue_[mode], s)
               h == handler("make", q, None)
    <2>1. /\ Joins(mode) /\ q \in Seq(Sessions)
          /\ Owner[s] \notin lookup_[mode] => Distinct(q)
      BY <1>6, Arrival DEF Inv
    <2>2. \/ UNCHANGED global_strand_
          \/ Distinct(q) /\ Len(q) = Size[mode] /\ global_strand_' = Append(global_strand_, h)
      BY <2>1 DEF Joins
    <2> HIDE DEF q
    <2>3. h \in Handler /\ h.players = q
      BY <2>1 DEF handler, Handler
    <2>4. Distinct(q) /\ Len(q) = Size[mode] => Makeable(h)
      BY <2>3 DEF Makeable
    <2> HIDE DEF h
    <2> QED BY <1>1, <1>3, <2>2, <2>3, <2>4
  <1> QED BY <1>2, <1>3, <1>4, <1>5, <1>6
          DEF Next, SessionStep, Login, CloseSession, RemoveSession, Enqueue,
              EnqueueCheck, Cancel, StrategyCancel, MakeMatch, DropMatch, ForfeitImpl,
              TakeResults, AtGlobal, Idle, vars

LEMMA GamesStep == Inv /\ [Next]_vars => Games'
  <1> SUFFICES ASSUME Inv, [Next]_vars PROVE Games'
    OBVIOUS
  <1> USE MatchMakerAssumption
  <1>0. TypeOK /\ Games /\ Makes /\ global_strand_ \in Seq(Handler)
    BY DEF Inv, TypeOK, Handler
  <1>1. CASE UNCHANGED <<uuid_to_match_, live_matches_, players_, next_match_id_>>
    BY <1>0, <1>1 DEF Games, MappedToOwnMatch, FullMatches
  <1>2. CASE MakeMatch
    <2> DEFINE n == next_match_id_ + 1
               U == users_of(group)
    <2>1. /\ n \in Matches /\ next_match_id_ \in Nat /\ next_match_id_' = n
      BY <1>0, <1>2 DEF MakeMatch, TypeOK, Matches
    <2>2. /\ uuid_to_match_' = [u \in Users |-> IF u \in U THEN n ELSE uuid_to_match_[u]]
          /\ players_' = [players_ EXCEPT ![n] = U]
          /\ live_matches_' = live_matches_ \cup {n}
      BY <1>2, <2>1 DEF MakeMatch
    <2>3. Head(global_strand_) = global_strand_[1] /\ 1 \in 1 .. Len(global_strand_)
            /\ Head(global_strand_).op = "make" /\ Head(global_strand_) \in Handler
      BY <1>0, <1>2, Running DEF MakeMatch, AtGlobal
    <2>4. group \in Seq(Sessions) /\ Distinct(group)
            /\ \E mode \in Modes : Len(group) = Size[mode]
      BY <1>0, <2>3 DEF Makes, Handler, group
    <2>5. \E mode \in Modes : Cardinality(U) = Size[mode]
      BY <2>4, DistinctCount
    <2> HIDE DEF U
    <2>6. players_'[n] = U /\ \A m \in Matches \ {n} : players_'[m] = players_[m]
      BY <1>0, <2>1, <2>2 DEF TypeOK
    <2>7. live_matches_ \subseteq 1 .. next_match_id_ /\ n \notin live_matches_
            /\ live_matches_' \subseteq 1 .. n
      BY <1>0, <2>1, <2>2 DEF Games
    <2>8. MappedToOwnMatch'
      <3> SUFFICES ASSUME NEW u \in Users, uuid_to_match_'[u] # None
                   PROVE  /\ uuid_to_match_'[u] \in live_matches_'
                          /\ u \in players_'[uuid_to_match_'[u]]
        BY DEF MappedToOwnMatch
      <3>1. CASE u \in U
        BY <2>2, <2>6, <3>1
      <3>2. CASE u \notin U
        <4>1. uuid_to_match_'[u] = uuid_to_match_[u]
          BY <2>2, <3>2
        <4>2. uuid_to_match_[u] \in live_matches_ /\ u \in players_[uuid_to_match_[u]]
          BY <1>0, <4>1 DEF Games, MappedToOwnMatch
        <4>3. uuid_to_match_[u] \in Matches \ {n}
          BY <1>0, <2>7, <4>2 DEF TypeOK
        <4> QED BY <2>2, <2>6, <4>1, <4>2, <4>3
      <3> QED BY <3>1, <3>2
    <2>9. FullMatches'
      <3> SUFFICES ASSUME NEW m \in 1 .. n
                   PROVE  \E mode \in Modes : Cardinality(players_'[m]) = Size[mode]
        BY <2>1 DEF FullMatches
      <3>1. CASE m = n
        BY <2>5, <2>6, <3>1
      <3>2. CASE m # n
        <4>1. m \in 1 .. next_match_id_ /\ m \in Matches \ {n}
          BY <2>1, <3>2 DEF Matches
        <4> QED BY <1>0, <2>6, <4>1 DEF Games, FullMatches
      <3> QED BY <3>1, <3>2
    <2> QED BY <2>1, <2>7, <2>8, <2>9 DEF Games
  <1>3. CASE ForfeitImpl
    <2>1. /\ \A u \in Users : uuid_to_match_'[u] = None \/ uuid_to_match_'[u] = uuid_to_match_[u]
          /\ UNCHANGED <<live_matches_, players_, next_match_id_>>
      BY <1>0, <1>3 DEF ForfeitImpl, TypeOK
    <2> QED BY <1>0, <2>1 DEF Games, MappedToOwnMatch, FullMatches
  <1>4. CASE TakeResults
    <2> DEFINE m == Head(global_strand_).m
    <2>1. /\ uuid_to_match_' = [u \in Users |->
                IF u \in players_[m] THEN None ELSE uuid_to_match_[u]]
          /\ live_matches_' = live_matches_ \ {m}
          /\ UNCHANGED <<players_, next_match_id_>>
      BY <1>4 DEF TakeResults, released
    <2> HIDE DEF m
    <2>2. MappedToOwnMatch'
      BY <1>0, <2>1 DEF Games, MappedToOwnMatch
    <2> QED BY <1>0, <2>1, <2>2 DEF Games, FullMatches
  <1> QED BY <1>1, <1>2, <1>3, <1>4
          DEF Next, SessionStep, Login, CloseSession, RemoveSession, Enqueue, Forfeit,
              EnqueueCheck, Cancel, StrategyEnqueue, StrategyCancel, DropMatch,
              ConcludeMatch, Idle, vars, maps, games

LEMMA InvInit == Init => Inv
  <1> SUFFICES ASSUME Init PROVE Inv
    OBVIOUS
  <1>1. TypeOK
    BY TypeInit
  <1>2. Queues
    <2>1. \A mode \in Modes : queue_[mode] = <<>> /\ lookup_[mode] = {} /\ 0 < Size[mode]
      BY MatchMakerAssumption DEF Init
    <2>2. users_of(<<>>) = {} /\ Distinct(<<>>) /\ Len(<<>>) = 0
      BY DEF users_of, Distinct
    <2> QED BY <2>1, <2>2 DEF Queues
  <1>3. Makes
    BY DEF Init, Makes
  <1>4. Games
    BY DEF Init, Games, MappedToOwnMatch, FullMatches
  <1> QED BY <1>1, <1>2, <1>3, <1>4 DEF Inv

LEMMA Invariance == Spec => []Inv
  <1>1. Inv /\ [Next]_vars => Inv'
    <2> SUFFICES ASSUME Inv, [Next]_vars PROVE Inv'
      OBVIOUS
    <2>1. TypeOK /\ Queues
      BY DEF Inv
    <2>2. TypeOK' /\ Queues' /\ Makes' /\ Games'
      BY <2>1, TypeStep, QueuesStep, MakesStep, GamesStep
    <2> QED BY <2>2 DEF Inv
  <1> QED BY <1>1, InvInit, PTL DEF Spec

-----------------------------------------------------------------------------
(* Theorems.                                                               *)

\* The maps of match-maker.cpp, the deques and lookup sets of the strategies and the
\* handlers on their strands and on global_strand_ always have their types: every
\* match is one of its bounded number, every posted group is a sequence of sessions.
THEOREM TypeCorrect == Spec => []TypeOK
  <1>1. Inv => TypeOK
    BY DEF Inv
  <1> QED BY <1>1, Invariance, PTL

\* The deque and the lookup set of a casual strategy, which enqueue, cancel and
\* try_form_match update one after the other, always name the same users, each once.
THEOREM DequeAndLookupAgree == Spec => []LookupMatchesQueue
  <1>1. Inv => LookupMatchesQueue
    <2> SUFFICES ASSUME Inv, NEW mode \in Modes
                 PROVE  /\ lookup_[mode] = users_of(queue_[mode])
                        /\ Len(queue_[mode]) = Cardinality(lookup_[mode])
      BY DEF LookupMatchesQueue
    <2>1. queue_[mode] \in Seq(Sessions) /\ Distinct(queue_[mode])
            /\ lookup_[mode] = users_of(queue_[mode])
      BY DEF Inv, TypeOK, Queues
    <2> QED BY <2>1, DistinctCount
  <1> QED BY <1>1, Invariance, PTL

\* try_form_match leaves no match unformed: whatever mix of enqueues and cancels a
\* strategy handles, for whatever group size, it never holds enough players for one.
THEOREM NoMatchIsMissed == Spec => []NoMissedMatch
  <1>1. Inv => NoMissedMatch
    BY DEF Inv, Queues, NoMissedMatch
  <1> QED BY <1>1, Invariance, PTL

\* Every match that make_match_on_strand makes has as many different users as its
\* mode asks for, for any number of users with any number of connections each.
THEOREM MatchesAreFull == Spec => []FullMatches
  <1>1. Inv => FullMatches
    BY DEF Inv, Games
  <1> QED BY <1>1, Invariance, PTL

\* route_to_match, forfeit_impl and the match messages find their instance through
\* uuid_to_match_: an entry always leads to a match that lives and has the user.
THEOREM RoutedToOwnMatch == Spec => []MappedToOwnMatch
  <1>1. Inv => MappedToOwnMatch
    BY DEF Inv, Games
  <1> QED BY <1>1, Invariance, PTL

-----------------------------------------------------------------------------
(* Nobody is locked out.  An entry of uuid_to_gamemode_ is removed when a   *)
(* match is made or dropped, and added before the strategy hears of it, so *)
(* that the user must be found somewhere on the way: by the last request   *)
(* of the user on the strategy's strand, which is an enqueue, or, with     *)
(* none there, in the queue or in a group handed over to global_strand_.   *)

\* A group with the user waits on strand g to be made a match of.
Ahead(g, u) ==
    \E i \in 1 .. Len(g) : g[i].op = "make" /\ u \in users_of(g[i].players)

\* The user's requests on a strategy's strand, and whether the last is an enqueue.
About(st, u) == {i \in 1 .. Len(st) : Owner[st[i].s] = u}
LastAsks(st, u) ==
    \E i \in About(st, u) : st[i].op = "enqueue" /\ \A j \in About(st, u) : j <= i

Awaited(u, mode) ==
    \/ LastAsks(strategy_strand[mode], u)
    \/ /\ About(strategy_strand[mode], u) = {}
       /\ u \in lookup_[mode] \/ Ahead(global_strand_, u)

AllAwaited ==
    \A u \in Users : uuid_to_gamemode_[u] # NoMode => Awaited(u, uuid_to_gamemode_[u])

\* While no connection is lost, all sessions on the way to a match are live, and
\* make_match_on_strand does not stop half-way through a group.
Connected ==
    /\ removals = {}
    /\ \A s \in Sessions : checked[s] # NoMode => IsLive(s)
    /\ \A mode \in Modes :
        /\ \A i \in 1 .. Len(queue_[mode]) : IsLive(queue_[mode][i])
        /\ \A i \in 1 .. Len(strategy_strand[mode]) : IsLive(strategy_strand[mode][i].s)
    /\ \A i \in 1 .. Len(global_strand_) : global_strand_[i].op = "make" =>
        \A j \in 1 .. Len(global_strand_[i].players) : IsLive(global_strand_[i].players[j])

LEMMA AheadPosting ==
    ASSUME NEW g \in Seq(Handler), NEW h \in Handler, NEW u, Ahead(g, u)
    PROVE  Ahead(Append(g, h), u)
  <1>1. PICK i \in 1 .. Len(g) : g[i].op = "make" /\ u \in users_of(g[i].players)
    BY DEF Ahead
  <1>2. i \in 1 .. Len(Append(g, h)) /\ Append(g, h)[i] = g[i]
    BY Posting
  <1> QED BY <1>1, <1>2 DEF Ahead

LEMMA AheadRunning ==
    ASSUME NEW g \in Seq(Handler), g # <<>>, NEW u, Ahead(g, u),
           Head(g).op = "make" => u \notin users_of(Head(g).players)
    PROVE  Ahead(Tail(g), u)
  <1>1. PICK i \in 1 .. Len(g) : g[i].op = "make" /\ u \in users_of(g[i].players)
    BY DEF Ahead
  <1>2. i # 1
    BY <1>1, Running
  <1>3. i - 1 \in 1 .. Len(Tail(g)) /\ Tail(g)[i - 1] = g[(i - 1) + 1]
    BY <1>2, Running
  <1>4. (i - 1) + 1 = i
    OBVIOUS
  <1> QED BY <1>1, <1>3, <1>4 DEF Ahead

LEMMA AskPosting ==
    ASSUME NEW st \in Seq(Item), NEW c \in Item, NEW u
    PROVE  /\ Owner[c.s] # u => About(Append(st, c), u) = About(st, u)
           /\ Owner[c.s] # u /\ LastAsks(st, u) => LastAsks(Append(st, c), u)
           /\ Owner[c.s] = u /\ c.op = "enqueue" => LastAsks(Append(st, c), u)
  <1> DEFINE t == Append(st, c)
  <1>1. /\ Len(st) \in Nat /\ Len(t) = Len(st) + 1
        /\ \A i \in 1 .. Len(st) : t[i] = st[i]
        /\ t[Len(st) + 1] = c
        /\ \A i \in 1 .. Len(t) : i \in 1 .. Len(st) \/ i = Len(st) + 1
    BY Posting
  <1> HIDE DEF t
  <1>2. ASSUME Owner[c.s] # u PROVE About(t, u) = About(st, u)
    BY <1>1, <1>2 DEF About
  <1>3. ASSUME Owner[c.s] # u, LastAsks(st, u) PROVE LastAsks(t, u)
    <2>1. PICK i \in About(st, u) : st[i].op = "enqueue" /\ \A j \in About(st, u) : j <= i
      BY <1>3 DEF LastAsks
    <2>2. t[i] = st[i]
      BY <1>1, <2>1 DEF About
    <2> QED BY <1>2, <1>3, <2>1, <2>2 DEF LastAsks
  <1>4. ASSUME Owner[c.s] = u, c.op = "enqueue" PROVE LastAsks(t, u)
    <2>1. Len(st) + 1 \in About(t, u) /\ \A j \in About(t, u) : j <= Len(st) + 1
      BY <1>1, <1>4 DEF About
    <2> QED BY <1>1, <1>4, <2>1 DEF LastAsks
  <1> QED BY <1>2, <1>3, <1>4 DEF t

LEMMA AskRunning ==
    ASSUME NEW st \in Seq(Item), st # <<>>, NEW u
    PROVE  /\ About(st, u) = {} => About(Tail(st), u) = {} /\ Owner[Head(st).s] # u
           /\ LastAsks(st, u) => \/ LastAsks(Tail(st), u)
                                 \/ /\ Head(st).op = "enqueue" /\ Owner[Head(st).s] = u
                                    /\ About(Tail(st), u) = {}
  <1> DEFINE t == Tail(st)
  <1>1. /\ Head(st) = st[1] /\ 1 \in 1 .. Len(st)
        /\ Len(st) \in Nat \ {0} /\ Len(t) = Len(st) - 1
        /\ \A i \in 1 .. Len(t) : t[i] = st[i + 1] /\ i + 1 \in 1 .. Len(st)
        /\ \A i \in 1 .. Len(st) : i = 1 \/ i - 1 \in 1 .. Len(t)
    BY Running
  <1> HIDE DEF t
  <1>2. ASSUME About(st, u) = {} PROVE About(t, u) = {} /\ Owner[Head(st).s] # u
    BY <1>1, <1>2 DEF About
  <1>3. ASSUME LastAsks(st, u)
        PROVE  \/ LastAsks(t, u)
               \/ /\ Head(st).op = "enqueue" /\ Owner[Head(st).s] = u
                  /\ About(t, u) = {}
    <2>1. PICK i \in About(st, u) : st[i].op = "enqueue" /\ \A j \in About(st, u) : j <= i
      BY <1>3 DEF LastAsks
    <2>2. \A j \in About(t, u) : j \in Nat \ {0} /\ j + 1 \in About(st, u)
      BY <1>1 DEF About
    <2>3. i \in 1 .. Len(st) /\ Owner[st[i].s] = u /\ i \in Nat
      BY <1>1, <2>1 DEF About
    <2>4. CASE i = 1
      <3>1. \A j \in About(t, u) : FALSE
        BY <2>1, <2>2, <2>4
      <3> QED BY <1>1, <2>1, <2>3, <2>4, <3>1
    <2>5. CASE i # 1
      <3>1. i - 1 \in 1 .. Len(t) /\ (i - 1) + 1 = i
        BY <1>1, <2>3, <2>5
      <3>2. t[i - 1] = st[i]
        BY <1>1, <3>1
      <3>3. i - 1 \in About(t, u)
        BY <2>3, <3>1, <3>2 DEF About
      <3>4. \A j \in About(t, u) : j <= i - 1
        <4> SUFFICES ASSUME NEW j \in About(t, u) PROVE j <= i - 1
          OBVIOUS
        <4>1. j \in Nat /\ j + 1 <= i
          BY <2>1, <2>2
        <4> QED BY <2>3, <4>1
      <3> QED BY <2>1, <3>2, <3>3, <3>4 DEF LastAsks
    <2> QED BY <2>4, <2>5
  <1> QED BY <1>2, <1>3 DEF t

\* What Connected says of the handlers on the two kinds of strand.
LiveItem(c) == IsLive(c.s)
LiveGroup(h) == h.op = "make" => \A j \in 1 .. Len(h.players) : IsLive(h.players[j])

LEMMA ConnectedStep ==
    ASSUME ~MayClose, Inv, Connected, [Next]_vars
    PROVE  Connected'
  <1> USE MatchMakerAssumption
  <1>0. /\ TypeOK /\ Queues /\ global_strand_ \in Seq(Handler)
        /\ strategy_strand \in [Modes -> Seq(Item)]
        /\ queue_ \in [Modes -> Seq(Sessions)]
    BY DEF Inv, TypeOK, Handler, Item
  <1> DEFINE NoneLost == removals' = {} /\ \A s \in Sessions : IsLive(s) => session'[s] = "live"
             Checked == \A s \in Sessions : checked'[s] # NoMode => session'[s] = "live"
             Queued == \A mode \in Modes : \A i \in 1 .. Len(queue_'[mode]) :
                            IsLive(queue_'[mode][i])
             Asked == \A mode \in Modes : \A i \in 1 .. Len(strategy_strand'[mode]) :
                            IsLive(strategy_strand'[mode][i].s)
             Grouped == \A i \in 1 .. Len(global_strand_') : LiveGroup(global_strand_'[i])
  <1>1. ASSUME NoneLost, Checked, Queued, Asked, Grouped, TypeOK' PROVE Connected'
    <2>1. \A mode \in Modes :
            /\ \A i \in 1 .. Len(queue_'[mode]) : queue_'[mode][i] \in Sessions
            /\ \A i \in 1 .. Len(strategy_strand'[mode]) :
                    strategy_strand'[mode][i].s \in Sessions
      <3> SUFFICES ASSUME NEW mode \in Modes
                   PROVE  /\ \A i \in 1 .. Len(queue_'[mode]) : queue_'[mode][i] \in Sessions
                          /\ \A i \in 1 .. Len(strategy_strand'[mode]) :
                                strategy_strand'[mode][i].s \in Sessions
        OBVIOUS
      <3>1. queue_'[mode] \in Seq(Sessions) /\ strategy_strand'[mode] \in Seq(Item)
        BY <1>1 DEF TypeOK, Item
      <3>2. \A i \in 1 .. Len(strategy_strand'[mode]) : strategy_strand'[mode][i] \in Item
        BY <3>1, ElementOfSeq
      <3>3. \A i \in 1 .. Len(queue_'[mode]) : queue_'[mode][i] \in Sessions
        BY <3>1, ElementOfSeq
      <3> QED BY <3>2, <3>3 DEF Item
    <2>2. \A i \in 1 .. Len(global_strand_') :
            \A j \in 1 .. Len(global_strand_'[i].players) :
                global_strand_'[i].players[j] \in Sessions
      <3> SUFFICES ASSUME NEW i \in 1 .. Len(global_strand_')
                   PROVE  \A j \in 1 .. Len(global_strand_'[i].players) :
                            global_strand_'[i].players[j] \in Sessions
        OBVIOUS
      <3>1. global_strand_' \in Seq(Handler)
        BY <1>1 DEF TypeOK, Handler
      <3>2. global_strand_'[i] \in Handler
        BY <3>1, ElementOfSeq
      <3>3. global_strand_'[i].players \in Seq(Sessions)
        BY <3>2 DEF Handler
      <3> QED BY <3>3, ElementOfSeq
    <2>3. NoneLost /\ Checked /\ Queued /\ Asked /\ Grouped
      BY <1>1
    <2>4. \A mode \in Modes :
            /\ \A i \in 1 .. Len(queue_'[mode]) : session'[queue_'[mode][i]] = "live"
            /\ \A i \in 1 .. Len(strategy_strand'[mode]) :
                    session'[strategy_strand'[mode][i].s] = "live"
      BY <2>1, <2>3
    <2>5. \A i \in 1 .. Len(global_strand_') : global_strand_'[i].op = "make" =>
            \A j \in 1 .. Len(global_strand_'[i].players) :
                session'[global_strand_'[i].players[j]] = "live"
      BY <2>2, <2>3 DEF LiveGroup
    <2> QED BY <2>3, <2>4, <2>5 DEF Connected, IsLive
  <1>2. TypeOK'
    BY <1>0, TypeStep
  <1>3. /\ removals = {}
        /\ \A s \in Sessions : checked[s] # NoMode => IsLive(s)
        /\ \A mode \in Modes :
            /\ \A i \in 1 .. Len(queue_[mode]) : IsLive(queue_[mode][i])
            /\ \A i \in 1 .. Len(strategy_strand[mode]) : IsLive(strategy_strand[mode][i].s)
        /\ \A i \in 1 .. Len(global_strand_) : LiveGroup(global_strand_[i])
    BY DEF Connected, LiveGroup
  <1> DEFINE Kept == UNCHANGED <<session, removals>>
  <1>4. Kept => NoneLost
    BY <1>3 DEF IsLive
  <1>5. Kept /\ checked' = checked => Checked
    BY <1>3 DEF IsLive
  <1>6. queue_' = queue_ => Queued
    BY <1>3
  <1>7. strategy_strand' = strategy_strand => Asked
    BY <1>3
  <1>8. global_strand_' = global_strand_ => Grouped
    BY <1>3
  <1>9. ASSUME NEW mode \in Modes, NEW c \in Item, LiveItem(c),
               strategy_strand' = [strategy_strand EXCEPT ![mode] = Append(@, c)]
        PROVE  Asked
    <2>1. \A i \in 1 .. Len(strategy_strand'[mode]) : IsLive(strategy_strand'[mode][i].s)
      <3>1. strategy_strand[mode] \in Seq(Item)
              /\ strategy_strand'[mode] = Append(strategy_strand[mode], c)
        BY <1>0, <1>9
      <3> QED BY <1>3, <1>9, <3>1, Posting DEF LiveItem
    <2>2. \A x \in Modes \ {mode} : strategy_strand'[x] = strategy_strand[x]
      BY <1>0, <1>9
    <2> QED BY <1>3, <2>1, <2>2
  <1>10. ASSUME NEW mode \in Modes, strategy_strand[mode] # <<>>,
                strategy_strand' = [strategy_strand EXCEPT ![mode] = Tail(@)]
         PROVE  Asked
    <2>1. \A i \in 1 .. Len(strategy_strand'[mode]) : IsLive(strategy_strand'[mode][i].s)
      <3>1. strategy_strand[mode] \in Seq(Item)
              /\ strategy_strand'[mode] = Tail(strategy_strand[mode])
        BY <1>0, <1>10
      <3> QED BY <1>3, <1>10, <3>1, Running
    <2>2. \A x \in Modes \ {mode} : strategy_strand'[x] = strategy_strand[x]
      BY <1>0, <1>10
    <2> QED BY <1>3, <2>1, <2>2
  <1>11. ASSUME NEW h \in Handler, LiveGroup(h), global_strand_' = Append(global_strand_, h)
         PROVE  Grouped
    BY <1>0, <1>3, <1>11, Posting
  <1>12. ASSUME global_strand_ # <<>>, global_strand_' = Tail(global_strand_)
         PROVE  Grouped
    BY <1>0, <1>3, <1>12, Running
  <1> HIDE DEF NoneLost, Checked, Queued, Asked, Grouped
  <1>13. ASSUME NEW s \in Sessions, SessionStep(s) PROVE Connected'
    <2>1. CASE Login(s)
      <3>1. removals' = {} /\ session' = [r \in Sessions |-> IF r = s THEN "live" ELSE session[r]]
        BY <1>3, <2>1 DEF Login
      <3>2. NoneLost
        BY <3>1 DEF NoneLost, IsLive
      <3>3. Checked
        BY <1>3, <2>1, <3>1 DEF Checked, Login, IsLive
      <3> QED BY <1>1, <1>2, <1>6, <1>7, <1>8, <2>1, <3>2, <3>3 DEF Login, strategies
    <2>2. CASE CloseSession(s)
      BY <2>2 DEF CloseSession
    <2>3. CASE RemoveSession(s)
      BY <1>3, <2>3 DEF RemoveSession
    <2>4. CASE Enqueue(s)
      <3> DEFINE c == [op |-> "enqueue", s |-> s]
      <3>1. c \in Item /\ (IsLive(s) => LiveItem(c))
        BY DEF Item, LiveItem
      <3>2. /\ checked' = [checked EXCEPT ![s] = NoMode]
            /\ checked[s] \in Modes /\ checked[s] # NoMode
            /\ \/ strategy_strand' = strategy_strand
               \/ strategy_strand' = [strategy_strand EXCEPT ![checked[s]] = Append(@, c)]
            /\ UNCHANGED <<session, removals, queue_, global_strand_>>
        BY <1>0, <2>4 DEF Enqueue, TypeOK
      <3> HIDE DEF c
      <3>3. Asked
        BY <1>3, <1>7, <1>9, <3>1, <3>2
      <3>4. Checked
        <4>1. \A r \in Sessions : checked'[r] # NoMode => checked[r] # NoMode
          BY <1>0, <3>2 DEF TypeOK
        <4> QED BY <1>3, <3>2, <4>1 DEF Checked, IsLive
      <3> QED BY <1>1, <1>2, <1>4, <1>6, <1>8, <3>2, <3>3, <3>4
    <2>5. CASE Forfeit(s)
      <3> DEFINE h == handler("forfeit", <<s>>, None)
      <3>1. h \in Handler /\ LiveGroup(h)
        BY DEF handler, Handler, LiveGroup
      <3>2. /\ global_strand_' = Append(global_strand_, h)
            /\ UNCHANGED <<session, removals, checked, queue_, strategy_strand>>
        BY <2>5 DEF Forfeit, strategies
      <3> HIDE DEF h
      <3> QED BY <1>1, <1>2, <1>4, <1>5, <1>6, <1>7, <1>11, <3>1, <3>2
    <2>6. ASSUME NEW mode \in Modes, EnqueueCheck(s, mode) PROVE Connected'
      <3>1. /\ session[s] = "live" /\ UNCHANGED <<session, removals>>
            /\ UNCHANGED <<queue_, strategy_strand, global_strand_>>
            /\ \A r \in Sessions \ {s} : checked'[r] = checked[r]
        BY <1>0, <2>6 DEF EnqueueCheck, Request, strategies, TypeOK
      <3>2. Checked
        BY <1>3, <3>1 DEF Checked, IsLive
      <3> QED BY <1>1, <1>2, <1>4, <1>6, <1>7, <1>8, <3>1, <3>2
    <2>7. ASSUME NEW mode \in Modes, Cancel(s, mode) PROVE Connected'
      <3> DEFINE c == [op |-> "cancel", s |-> s]
      <3>1. /\ session[s] = "live" /\ UNCHANGED <<session, removals, checked>>
            /\ UNCHANGED <<queue_, global_strand_>>
            /\ strategy_strand' = [strategy_strand EXCEPT ![mode] = Append(@, c)]
        BY <2>7 DEF Cancel, Request
      <3>2. c \in Item /\ LiveItem(c)
        BY <3>1 DEF Item, LiveItem, IsLive
      <3> HIDE DEF c
      <3> QED BY <1>1, <1>2, <1>4, <1>5, <1>6, <1>8, <1>9, <3>1, <3>2
    <2> QED BY <1>13, <2>1, <2>2, <2>3, <2>4, <2>5, <2>6, <2>7 DEF SessionStep
  <1>14. ASSUME NEW mode \in Modes, StrategyEnqueue(mode) PROVE Connected'
    <2> DEFINE st == strategy_strand[mode]
               s == Head(st).s
               q == Append(queue_[mode], s)
               h == handler("make", q, None)
    <2>1. /\ st \in Seq(Item) /\ st # <<>> /\ s \in Sessions
          /\ q \in Seq(Sessions) /\ Joins(mode)
      BY <1>0, <1>14, Arrival
    <2>2. /\ strategy_strand' = [strategy_strand EXCEPT ![mode] = Tail(@)]
          /\ UNCHANGED <<session, removals, checked>>
      BY <1>14 DEF StrategyEnqueue
    <2>3. Asked
      BY <1>10, <2>1, <2>2
    <2>4. IsLive(s)
      <3>1. Head(st) = st[1] /\ 1 \in 1 .. Len(st)
        BY <2>1, Running
      <3> QED BY <1>3, <3>1
    <2>5. \A i \in 1 .. Len(q) : IsLive(q[i])
      <3>1. queue_[mode] \in Seq(Sessions)
        BY <1>0
      <3> HIDE DEF s
      <3> QED BY <1>3, <2>1, <2>4, <3>1, Posting
    <2>6. /\ \/ queue_' = queue_
             \/ queue_' = [queue_ EXCEPT ![mode] = q]
             \/ queue_' = [queue_ EXCEPT ![mode] = <<>>]
          /\ global_strand_' = global_strand_ \/ global_strand_' = Append(global_strand_, h)
      BY <2>1 DEF Joins
    <2> HIDE DEF q
    <2>7. h \in Handler /\ LiveGroup(h)
      BY <2>1, <2>5 DEF handler, Handler, LiveGroup
    <2> HIDE DEF h
    <2>8. Grouped
      BY <1>8, <1>11, <2>6, <2>7
    <2>9. Queued
      <3>1. \A x \in Modes \ {mode} : queue_'[x] = queue_[x]
        BY <1>0, <2>6
      <3>2. queue_'[mode] = queue_[mode] \/ queue_'[mode] = q \/ queue_'[mode] = <<>>
        BY <1>0, <2>6
      <3>3. \A i \in 1 .. Len(queue_'[mode]) : IsLive(queue_'[mode][i])
        BY <1>3, <2>5, <3>2
      <3> QED BY <1>3, <3>1, <3>3 DEF Queued
    <2> QED BY <1>1, <1>2, <1>4, <1>5, <2>2, <2>3, <2>8, <2>9
  <1>15. ASSUME NEW mode \in Modes, StrategyCancel(mode) PROVE Connected'
    <2> DEFINE u == Owner[Head(strategy_strand[mode]).s]
               w == without(queue_[mode], u)
    <2>1. /\ strategy_strand[mode] # <<>>
          /\ strategy_strand' = [strategy_strand EXCEPT ![mode] = Tail(@)]
          /\ queue_' = queue_ \/ queue_' = [queue_ EXCEPT ![mode] = w]
          /\ UNCHANGED <<session, removals, checked, global_strand_>>
      BY <1>15 DEF StrategyCancel
    <2>2. \A n \in 1 .. Len(w) : \E i \in 1 .. Len(queue_[mode]) : w[n] = queue_[mode][i]
      BY <1>0, WithoutQueue
    <2> HIDE DEF w
    <2>3. \A n \in 1 .. Len(w) : IsLive(w[n])
      BY <1>3, <2>2
    <2>4. Queued
      <3>1. \A x \in Modes \ {mode} : queue_'[x] = queue_[x]
        BY <1>0, <2>1
      <3>2. queue_'[mode] = queue_[mode] \/ queue_'[mode] = w
        BY <1>0, <2>1
      <3> QED BY <1>3, <2>3, <3>1, <3>2 DEF Queued
    <2>5. Asked
      BY <1>10, <2>1
    <2> QED BY <1>1, <1>2, <1>4, <1>5, <1>8, <2>1, <2>4, <2>5
  <1>16. ASSUME NEW m \in Matches, ConcludeMatch(m) PROVE Connected'
    <2> DEFINE h == handler("results", <<>>, m)
    <2>1. h \in Handler /\ LiveGroup(h)
      BY DEF handler, Handler, LiveGroup
    <2>2. /\ global_strand_' = Append(global_strand_, h)
          /\ UNCHANGED <<session, removals, checked, queue_, strategy_strand>>
      BY <1>16 DEF ConcludeMatch, strategies
    <2> HIDE DEF h
    <2> QED BY <1>1, <1>2, <1>4, <1>5, <1>6, <1>7, <1>11, <2>1, <2>2
  <1>17. ASSUME \/ MakeMatch \/ DropMatch \/ ForfeitImpl \/ TakeResults
         PROVE  Connected'
    <2>1. /\ global_strand_ # <<>> /\ global_strand_' = Tail(global_strand_)
          /\ UNCHANGED <<session, removals, checked, queue_, strategy_strand>>
      BY <1>17 DEF MakeMatch, DropMatch, ForfeitImpl, TakeResults, AtGlobal, strategies
    <2> QED BY <1>1, <1>2, <1>4, <1>5, <1>6, <1>7, <1>12, <2>1
  <1>18. CASE UNCHANGED vars
    <2>1. UNCHANGED <<session, removals, checked, queue_, strategy_strand, global_strand_>>
      BY <1>18 DEF vars, strategies
    <2> QED BY <1>1, <1>2, <1>4, <1>5, <1>6, <1>7, <1>8, <2>1
  <1> QED BY <1>13, <1>14, <1>15, <1>16, <1>17, <1>18 DEF Next, Idle

LEMMA AwaitedStep ==
    ASSUME ~MayClose, Inv, Connected, AllAwaited, [Next]_vars
    PROVE  AllAwaited'
  <1> USE MatchMakerAssumption
  <1>0. /\ TypeOK /\ Queues /\ global_strand_ \in Seq(Handler)
        /\ strategy_strand \in [Modes -> Seq(Item)]
        /\ uuid_to_gamemode_ \in [Users -> Modes \cup {NoMode}]
    BY DEF Inv, TypeOK, Handler, Item
  <1> SUFFICES ASSUME NEW u \in Users, NEW mode \in Modes, uuid_to_gamemode_'[u] = mode
               PROVE  Awaited(u, mode)'
    <2>1. TypeOK'
      BY <1>0, TypeStep
    <2>2. uuid_to_gamemode_' \in [Users -> Modes \cup {NoMode}]
      BY <2>1 DEF TypeOK
    <2>3. \A u \in Users : \A mode \in Modes :
            uuid_to_gamemode_'[u] = mode => Awaited(u, mode)'
      OBVIOUS
    <2> QED BY <2>2, <2>3 DEF AllAwaited
  <1> DEFINE st == strategy_strand[mode]
             st1 == strategy_strand'[mode]
             Kept == uuid_to_gamemode_[u] = mode
  <1>1. Kept => \/ LastAsks(st, u)
                \/ About(st, u) = {} /\ (u \in lookup_[mode] \/ Ahead(global_strand_, u))
    BY DEF AllAwaited, Awaited
  <1>2. ASSUME \/ LastAsks(st1, u)
               \/ About(st1, u) = {} /\ (u \in lookup_'[mode] \/ Ahead(global_strand_', u))
        PROVE  Awaited(u, mode)'
    BY <1>2 DEF Awaited, LastAsks, About, Ahead, users_of
  <1>3. st \in Seq(Item)
    BY <1>0
  <1> HIDE DEF Kept
  \* Steps that leave the strategies and the groups alone, or add a handler.
  <1>4. ASSUME Kept, UNCHANGED <<strategy_strand, lookup_>>,
               \/ UNCHANGED global_strand_
               \/ \E h \in Handler : global_strand_' = Append(global_strand_, h)
        PROVE  Awaited(u, mode)'
    <2>1. \A h \in Handler : Ahead(global_strand_, u) => Ahead(Append(global_strand_, h), u)
      BY <1>0, AheadPosting
    <2>2. Ahead(global_strand_, u) => Ahead(global_strand_', u)
      BY <1>4, <2>1
    <2> QED BY <1>1, <1>2, <1>4, <2>2
  \* Steps that run a handler of global_strand_ that takes nobody off the way.
  <1>5. ASSUME Kept, UNCHANGED <<strategy_strand, lookup_>>,
               global_strand_ # <<>>, global_strand_' = Tail(global_strand_),
               Head(global_strand_).op = "make" => u \notin users_of(group)
        PROVE  Awaited(u, mode)'
    <2>1. Ahead(global_strand_, u) => Ahead(global_strand_', u)
      BY <1>0, <1>5, AheadRunning DEF group
    <2> QED BY <1>1, <1>2, <1>5, <2>1
  <1>6. ASSUME NEW s \in Sessions, SessionStep(s) PROVE Awaited(u, mode)'
    <2>1. CASE Login(s)
      BY <1>4, <2>1 DEF Login, maps, strategies, Kept
    <2>2. CASE CloseSession(s)
      BY <2>2 DEF CloseSession
    <2>3. CASE RemoveSession(s)
      BY <2>3 DEF RemoveSession, Connected
    <2>4. CASE Enqueue(s)
      <3> DEFINE c == [op |-> "enqueue", s |-> s]
      <3>1. c \in Item /\ c.op = "enqueue" /\ c.s = s
        BY DEF Item
      <3>2. /\ checked[s] \in Modes
            /\ UNCHANGED <<lookup_, global_strand_>>
            /\ \/ UNCHANGED <<uuid_to_gamemode_, strategy_strand>>
               \/ /\ uuid_to_gamemode_[Owner[s]] = NoMode
                  /\ uuid_to_gamemode_' = [uuid_to_gamemode_ EXCEPT ![Owner[s]] = checked[s]]
                  /\ strategy_strand' = [strategy_strand EXCEPT
                                            ![checked[s]] = Append(@, c)]
        BY <1>0, <2>4 DEF Enqueue, TypeOK
      <3> HIDE DEF c
      <3>3. CASE UNCHANGED <<uuid_to_gamemode_, strategy_strand>>
        BY <1>4, <3>2, <3>3 DEF Kept
      <3>4. CASE /\ uuid_to_gamemode_[Owner[s]] = NoMode
                 /\ uuid_to_gamemode_' = [uuid_to_gamemode_ EXCEPT ![Owner[s]] = checked[s]]
                 /\ strategy_strand' = [strategy_strand EXCEPT ![checked[s]] = Append(@, c)]
        <4>1. CASE u = Owner[s]
          <5>1. checked[s] = mode /\ st1 = Append(st, c)
            BY <1>0, <3>2, <3>4, <4>1
          <5>2. LastAsks(st1, u)
            BY <1>3, <3>1, <4>1, <5>1, AskPosting
          <5> QED BY <1>2, <5>2
        <4>2. CASE u # Owner[s]
          <5>1. Kept /\ (st1 = st \/ st1 = Append(st, c))
            BY <1>0, <3>2, <3>4, <4>2 DEF Kept
          <5>2. /\ About(st1, u) = About(st, u)
                /\ LastAsks(st, u) => LastAsks(st1, u)
            <6>1. CASE st1 = st
              BY <6>1
            <6>2. CASE st1 = Append(st, c)
              <7>1. /\ About(Append(st, c), u) = About(st, u)
                    /\ LastAsks(st, u) => LastAsks(Append(st, c), u)
                BY <1>3, <3>1, <4>2, AskPosting
              <7> HIDE DEF st, st1
              <7> QED BY <6>2, <7>1
            <6> QED BY <5>1, <6>1, <6>2
          <5>3. \/ LastAsks(st1, u)
                \/ About(st1, u) = {} /\ (u \in lookup_[mode] \/ Ahead(global_strand_, u))
            BY <1>1, <5>1, <5>2
          <5>4. UNCHANGED <<lookup_, global_strand_>>
            BY <3>2
          <5> QED BY <1>2, <5>3, <5>4
        <4> QED BY <4>1, <4>2
      <3> QED BY <3>2, <3>3, <3>4
    <2>5. CASE Forfeit(s)
      <3> DEFINE h == handler("forfeit", <<s>>, None)
      <3>1. h \in Handler
        BY DEF handler, Handler
      <3>2. /\ global_strand_' = Append(global_strand_, h)
            /\ UNCHANGED <<uuid_to_gamemode_, lookup_, strategy_strand>>
        BY <2>5 DEF Forfeit, strategies, maps
      <3> HIDE DEF h
      <3> QED BY <1>4, <3>1, <3>2 DEF Kept
    <2>6. ASSUME NEW x \in Modes, EnqueueCheck(s, x) PROVE Awaited(u, mode)'
      BY <1>4, <2>6 DEF EnqueueCheck, maps, strategies, Kept
    <2>7. ASSUME NEW x \in Modes, Cancel(s, x) PROVE Awaited(u, mode)'
      <3> DEFINE c == [op |-> "cancel", s |-> s]
      <3>1. c \in Item /\ c.s = s
        BY DEF Item
      <3>2. /\ uuid_to_gamemode_' = [uuid_to_gamemode_ EXCEPT ![Owner[s]] = NoMode]
            /\ strategy_strand' = [strategy_strand EXCEPT ![x] = Append(@, c)]
            /\ UNCHANGED <<lookup_, global_strand_>>
        BY <2>7 DEF Cancel
      <3> HIDE DEF c
      <3>3. u # Owner[s]
        BY <1>0, <3>2
      <3>4. Kept /\ (st1 = st \/ st1 = Append(st, c))
        BY <1>0, <3>2, <3>3 DEF Kept
      <3>5. /\ About(st1, u) = About(st, u)
            /\ LastAsks(st, u) => LastAsks(st1, u)
        <4> HIDE DEF st, st1
        <4>1. /\ About(Append(st, c), u) = About(st, u)
              /\ LastAsks(st, u) => LastAsks(Append(st, c), u)
          BY <1>3, <3>1, <3>3, AskPosting
        <4> QED BY <3>4, <4>1
      <3> QED BY <1>1, <1>2, <3>2, <3>4, <3>5
    <2> QED BY <1>6, <2>1, <2>2, <2>3, <2>4, <2>5, <2>6, <2>7 DEF SessionStep
  <1>7. ASSUME NEW x \in Modes, StrategyEnqueue(x) PROVE Awaited(u, mode)'
    <2> DEFINE s == Head(strategy_strand[x]).s
               q == Append(queue_[x], s)
               h == handler("make", q, None)
    <2>1. /\ strategy_strand[x] \in Seq(Item) /\ strategy_strand[x] # <<>>
          /\ q \in Seq(Sessions) /\ users_of(q) = lookup_[x] \cup {Owner[s]}
          /\ Joins(x)
      BY <1>0, <1>7, Arrival
    <2>2. /\ strategy_strand' = [strategy_strand EXCEPT ![x] = Tail(@)]
          /\ UNCHANGED uuid_to_gamemode_
      BY <1>7 DEF StrategyEnqueue, maps
    <2>3. h \in Handler /\ h.op = "make" /\ h.players = q
      BY <2>1 DEF handler, Handler
    <2>4. \/ /\ Owner[s] \in lookup_[x] /\ lookup_' = lookup_
             /\ global_strand_' = global_strand_
          \/ /\ lookup_' = [lookup_ EXCEPT ![x] = users_of(q)]
             /\ global_strand_' = global_strand_
          \/ /\ lookup_' = [lookup_ EXCEPT ![x] = {}]
             /\ global_strand_' = Append(global_strand_, h)
      BY <2>1 DEF Joins
    <2> HIDE DEF h
    <2>5. Ahead(global_strand_, u) => Ahead(global_strand_', u)
      <3>1. Ahead(global_strand_, u) => Ahead(Append(global_strand_, h), u)
        BY <1>0, <2>3, AheadPosting
      <3>2. global_strand_' = global_strand_ \/ global_strand_' = Append(global_strand_, h)
        BY <2>4
      <3> QED BY <3>1, <3>2
    <2>6. \A v \in users_of(q) : v \in lookup_'[x] \/ Ahead(global_strand_', v)
      <3> SUFFICES ASSUME NEW v \in users_of(q)
                   PROVE  v \in lookup_'[x] \/ Ahead(global_strand_', v)
        OBVIOUS
      <3>1. CASE global_strand_' = Append(global_strand_, h)
        <4>1. /\ Len(global_strand_) + 1 \in 1 .. Len(global_strand_')
              /\ global_strand_'[Len(global_strand_) + 1] = h
          BY <1>0, <2>3, <3>1, Posting
        <4> QED BY <2>3, <4>1 DEF Ahead
      <3>2. CASE Owner[s] \in lookup_[x] /\ lookup_' = lookup_
        BY <2>1, <3>2
      <3>3. CASE lookup_' = [lookup_ EXCEPT ![x] = users_of(q)]
        BY <1>0, <3>3 DEF TypeOK
      <3> QED BY <2>4, <3>1, <3>2, <3>3
    <2>7. Kept
      BY <2>2 DEF Kept
    <2>8. CASE x # mode
      <3>1. st1 = st /\ lookup_'[mode] = lookup_[mode]
        BY <1>0, <2>2, <2>4, <2>8 DEF TypeOK
      <3> QED BY <1>1, <1>2, <2>5, <2>7, <3>1
    <2>9. CASE x = mode
      <3>1. st1 = Tail(st) /\ st # <<>>
        BY <1>0, <2>1, <2>2, <2>9
      <3>2. u \in lookup_[mode] \/ Owner[Head(st).s] = u =>
                u \in lookup_'[mode] \/ Ahead(global_strand_', u)
        BY <2>1, <2>6, <2>9
      <3>3. /\ About(st, u) = {} => About(st1, u) = {}
            /\ LastAsks(st, u) => \/ LastAsks(st1, u)
                                  \/ Owner[Head(st).s] = u /\ About(st1, u) = {}
        <4> HIDE DEF st, st1
        <4> QED BY <1>3, <3>1, AskRunning
      <3> QED BY <1>1, <1>2, <2>5, <2>7, <3>2, <3>3
    <2> QED BY <2>8, <2>9
  <1>8. ASSUME NEW x \in Modes, StrategyCancel(x) PROVE Awaited(u, mode)'
    <2> DEFINE s == Head(strategy_strand[x]).s
    <2>1. /\ strategy_strand[x] # <<>> /\ Head(strategy_strand[x]).op = "cancel"
          /\ strategy_strand' = [strategy_strand EXCEPT ![x] = Tail(@)]
          /\ lookup_' = [lookup_ EXCEPT ![x] = @ \ {Owner[s]}]
          /\ UNCHANGED <<uuid_to_gamemode_, global_strand_>>
      BY <1>8 DEF StrategyCancel, maps
    <2>2. Kept
      BY <2>1 DEF Kept
    <2>3. CASE x # mode
      <3>1. st1 = st /\ lookup_'[mode] = lookup_[mode]
        BY <1>0, <2>1, <2>3 DEF TypeOK
      <3> QED BY <1>1, <1>2, <2>1, <2>2, <3>1
    <2>4. CASE x = mode
      <3>1. /\ st1 = Tail(st) /\ st # <<>> /\ Head(st).op # "enqueue"
            /\ lookup_'[mode] = lookup_[mode] \ {Owner[Head(st).s]}
        BY <1>0, <2>1, <2>4 DEF TypeOK
      <3>2. /\ About(st, u) = {} => About(st1, u) = {} /\ Owner[Head(st).s] # u
            /\ LastAsks(st, u) => LastAsks(st1, u)
        <4> HIDE DEF st, st1
        <4> QED BY <1>3, <3>1, AskRunning
      <3> HIDE DEF st, st1
      <3> QED BY <1>1, <1>2, <2>1, <2>2, <3>1, <3>2
    <2> QED BY <2>3, <2>4
  <1>9. ASSUME MakeMatch \/ DropMatch PROVE Awaited(u, mode)'
    <2>1. /\ global_strand_ # <<>> /\ Head(global_strand_).op = "make"
          /\ global_strand_' = Tail(global_strand_) /\ Unqueue
          /\ UNCHANGED <<strategy_strand, lookup_>>
      BY <1>9 DEF MakeMatch, DropMatch, AtGlobal, strategies
    <2>2. Head(global_strand_) = global_strand_[1] /\ 1 \in 1 .. Len(global_strand_)
            /\ Head(global_strand_) \in Handler
      BY <1>0, <2>1, Running
    <2>3. \A j \in 1 .. Len(group) : IsLive(group[j])
      BY <2>1, <2>2 DEF Connected, group
    <2>4. group \in Seq(Sessions)
      BY <2>2 DEF group, Handler
    <2>5. users_of(group) \subseteq unqueued
      <3> HIDE DEF group
      <3>1. \A n \in 1 .. Len(group) : \A h \in 1 .. n - 1 : h \in 1 .. Len(group)
        BY <2>4
      <3>2. \A n \in 1 .. Len(group) : Owner[group[n]] \in unqueued
        BY <2>3, <3>1 DEF unqueued
      <3> QED BY <3>2 DEF users_of
    <2>6. u \notin unqueued /\ Kept
      BY <2>1 DEF Unqueue, Kept
    <2> QED BY <1>5, <2>1, <2>5, <2>6
  <1>10. ASSUME ForfeitImpl \/ TakeResults PROVE Awaited(u, mode)'
    <2>1. /\ global_strand_ # <<>> /\ Head(global_strand_).op # "make"
          /\ global_strand_' = Tail(global_strand_)
          /\ UNCHANGED <<strategy_strand, lookup_, uuid_to_gamemode_>>
      BY <1>10 DEF ForfeitImpl, TakeResults, AtGlobal, strategies
    <2> QED BY <1>5, <2>1 DEF Kept
  <1>11. ASSUME NEW m \in Matches, ConcludeMatch(m) PROVE Awaited(u, mode)'
    <2> DEFINE h == handler("results", <<>>, m)
    <2>1. h \in Handler
      BY DEF handler, Handler
    <2>2. /\ global_strand_' = Append(global_strand_, h)
          /\ UNCHANGED <<strategy_strand, lookup_, uuid_to_gamemode_>>
      BY <1>11 DEF ConcludeMatch, strategies, maps
    <2> HIDE DEF h
    <2> QED BY <1>4, <2>1, <2>2 DEF Kept
  <1>12. CASE UNCHANGED vars
    BY <1>4, <1>12 DEF vars, maps, strategies, Kept
  <1> QED BY <1>6, <1>7, <1>8, <1>9, <1>10, <1>11, <1>12 DEF Next, Idle

\* As long as no connection is lost, whoever enqueue() turns away for an entry in
\* uuid_to_gamemode_ is in that mode's queue, on the way to it or about to be put in a
\* match, for any number of users, modes, cancels and forfeits in any order.
THEOREM NobodyIsLockedOut ==
    ASSUME ~MayClose
    PROVE  Spec => []QueuedUsersAreQueued
  <1>1. Init => Connected /\ AllAwaited
    BY DEF Init, Connected, AllAwaited
  <1>2. Inv /\ Connected /\ AllAwaited /\ [Next]_vars => (Connected /\ AllAwaited)'
    BY ConnectedStep, AwaitedStep
  <1>3. Inv /\ AllAwaited => QueuedUsersAreQueued
    <2> SUFFICES ASSUME Inv, AllAwaited, NEW u \in Users, uuid_to_gamemode_[u] # NoMode
                 PROVE  InQueue(u, uuid_to_gamemode_[u])
      BY DEF QueuedUsersAreQueued
    <2>1. Awaited(u, uuid_to_gamemode_[u])
      BY DEF AllAwaited
    <2> QED BY <2>1 DEF Awaited, LastAsks, About, Ahead, InQueue
  <1> QED BY <1>1, <1>2, <1>3, Invariance, PTL DEF Spec

=============================================================================
